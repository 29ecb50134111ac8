SPECIFICATION WriterSpec
CONSTANTS
  U32MAX = 3
  Base = 3
  Configs <- WriteConfigs
  ChunkBytes = {1, 5}
  InitialAlloc = 1
  MaxPoints = 5
  MaxChunks = 2
  MaxOpenBytes = 6
  EmptyChunks = TRUE
  Overdo = TRUE
INVARIANTS
  WriterTypeOK
  TableDescribesChunks
  InterruptionIsVisible
CHECK_DEADLOCK FALSE
