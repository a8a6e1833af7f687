SPECIFICATION FairSpec
CONSTANTS
  NTask = 4
  Node <- MCNode
  MaxFilesWithConcurrentIO = 2
  MaxTime = 3
  MaxLives = 2
  MaxLapses = 1
INVARIANTS TypeOK LatestStands OldSetWhileWriting LoadsOneSet AtMostConcurrent
PROPERTIES WriteEnds ImplementsCheckpoint
CHECK_DEADLOCK FALSE
