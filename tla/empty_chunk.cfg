SPECIFICATION RoundTripSpec
CONSTANTS
  U32MAX = 31
  Base = 3
  Configs <- RoundTripConfigs
  ChunkBytes = {2, 3}
  InitialAlloc = 1
  MaxPoints = 2
  MaxChunks = 3
  MaxOpenBytes = 6
  EmptyChunks = TRUE
  Overdo = FALSE
  GrowBy = 1
  MaxTaken = 2
  AfterFailure = {}
INVARIANTS
  FinishedFileIsNeverRefused
CHECK_DEADLOCK FALSE
