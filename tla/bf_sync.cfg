SPECIFICATION BackfillLiveSpec
CONSTANTS
  MaxRecords <- MCMaxRecords
  BufferCap = 2
  MaxFile = 2
  Batch = 1
  SaveEvery = 2
  MaxRestarts = 1
INVARIANTS NoGap
PROPERTIES CatchesUp
CHECK_DEADLOCK FALSE
