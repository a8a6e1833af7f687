SPECIFICATION Spec
CONSTANTS
  Garbled = Garbled
  Inis <- RoundInis
  MaxSteps = 2
INVARIANTS SettingsAsWritten AcceptedRunsUnlessUntested AccessesInside RowsAreFresh FreedOnce
