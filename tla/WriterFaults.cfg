SPECIFICATION Spec
CONSTANTS
  Value = {v1, v2}
  Fill = Fill
  Path <- Chain
  Name <- Names
  Chunk <- Pairs
  MaxRows = 3
  Faults <- Both
INVARIANTS ParentsPresent ValidHandlesHang
PROPERTIES FlushedRowsStand KeepsTheLogs
