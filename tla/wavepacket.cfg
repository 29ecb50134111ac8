SPECIFICATION Spec
CONSTANTS
  Fit = 16
  MULTI = 4
  MULTI_MINUS <- SmallestMultiple
  MultiLow = 3
  MaxExtreme = 1
  MULTIMAX = 10
  MultiV1 <- SmallMultiples
  MaxExtremeV1 = 1
  Kinds <- PacketKinds
INVARIANT PointsComeBack
CHECK_DEADLOCK FALSE
