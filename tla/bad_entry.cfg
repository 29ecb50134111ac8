SPECIFICATION DamagedSpec
CONSTANTS
  U32MAX = 31
  Base = 3
  Shapes <- HugeChunk
  Extra = 2
  GrowBy = 1
  MaxTaken = 5
  AfterFailure = {"read"}
INVARIANTS
  StartsBeforeBadEntryAreTrue
CHECK_DEADLOCK FALSE
