SPECIFICATION Spec
CONSTANTS
  Scale = 64
  BMUnit = 8
  DMUnit = 8
  MinTable = 2
  Radix = 4
  BufferSize = 2
  TableFrom = 4
  MaxBytes = 20
  RawUnits = {4}
  Programs <- CoderPrograms
INVARIANTS
  TypeOK
  BitsHaveRoom
  DecodesWhatWasEncoded
  EndsWithTheStream
PROPERTIES
  EncoderReturns
CHECK_DEADLOCK FALSE
