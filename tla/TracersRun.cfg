SPECIFICATION FairSpec
CONSTANTS
  NumRanks = 3
  Tracer = {7, 8}
  StartPos <- MCStartPos
  Anchor <- MCAnchor
  StartGalaxy = 5
  Drift <- MCDrift
  PotOutStep = 2
  RecenterSize = 3
  RecenterThreshold = 1
  MaxLoops = 3
  MaxSteps = 1
  MaxLives = 2
  Garbage = Garbage
  NaN = NaN
INVARIANTS AttachedSinceBackup RecentreTogether OutputsComplete
PROPERTY StepsEnd
CHECK_DEADLOCK FALSE
