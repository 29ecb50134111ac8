SPECIFICATION DamagedSpec
CONSTANTS
  U32MAX = 31
  Base = 3
  Shapes <- DamageShapes
  Extra = 2
  GrowBy = 1
  MaxTaken = 5
  AfterFailure = {"read", "seek"}
INVARIANTS
  SeekLandsOnTarget
CHECK_DEADLOCK FALSE
