SPECIFICATION FairSpecSame
CONSTANTS
  NaN = NaN
  Rank = {r0, r1, r2}
  Root = r0
  Calls = 5
  Period <- AllModules
  NumSets = 2
  Sites <- AllSites
  MaxIter = 3
  Method = "density"
  MaxPos = 2
  Threshold = 0
  Center <- MCCenter
  Offset <- MCOffset
  Moved <- MCMoved
  Close <- MCClose
  Memory <- Zeroed
INVARIANTS TypeOK CollectivesMatch OneFrame RowsBeforeReturn NoBufferOutlivesTheCall SelectedAroundThePreviousCenter
PROPERTIES NobodyOvertakesAnAnalysis EveryCallReturns
