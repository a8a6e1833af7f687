SPECIFICATION Spec
CONSTANTS
  Rank = {r0, r1}
  Root = r0
  Particle = {p1, p2, p3}
  Sample <- Ringed
  Unit = 2
  Half = 4
  Bins = 2
  RMin = 0
  RMax = 2
  RBins = 2
  Orders <- MCOrders
  Threshold = 10
  Degrees = 5
  Percentage = 80
  Arg <- MCArg
INVARIANT StoredInertia
