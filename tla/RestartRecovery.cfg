SPECIFICATION Spec
CONSTANTS
  NTask = 4
  Node <- MCNode
  MaxFilesWithConcurrentIO = 2
  MaxTime = 4
  MaxLives = 3
  MaxLapses = 0
INVARIANT DocumentedRecovery
CHECK_DEADLOCK FALSE
