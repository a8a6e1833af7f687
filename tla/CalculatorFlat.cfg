SPECIFICATION Spec
CONSTANTS
  Garbled = Garbled
  Inis <- FlatInis
  MaxSteps = 1
INVARIANTS AccessesInside
