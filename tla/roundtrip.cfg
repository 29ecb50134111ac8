SPECIFICATION RoundTripSpec
CONSTANTS
  U32MAX = 31
  Base = 3
  Configs <- RoundTripConfigs
  ChunkBytes = {2, 3}
  InitialAlloc = 1
  MaxPoints = 4
  MaxChunks = 3
  MaxOpenBytes = 6
  EmptyChunks = FALSE
  Overdo = FALSE
  GrowBy = 1
  MaxTaken = 5
  AfterFailure = {}
INVARIANTS
  ChunksPartitionPoints
  FixedChunksAreFull
  FinishedFileIsNeverRefused
PROPERTIES
  ReadsBackWhatWasWritten
  SeekArrives
CHECK_DEADLOCK FALSE
