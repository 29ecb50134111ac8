SPECIFICATION Spec
CONSTANTS
  Half = 32
  Width = 6
  Setups <- IntegerSetups
  MaxValues = 1
INVARIANTS
  TypeOK
  DecompressesWhatWasCompressed
  CodesFitTheirAlphabets
CHECK_DEADLOCK FALSE
