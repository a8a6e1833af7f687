SPECIFICATION Spec
CONSTANTS
  Fill = Fill
  Name <- MCName
  Path <- MCPath
  Chunk <- MCChunk
  Paras <- MCParas
  MaxSaves = 3
INVARIANTS OneRowPerSave RowsHoldTheirQuantity EveryPushFindsItsDataset ClosedFileIsComplete RowsNumberSteps
