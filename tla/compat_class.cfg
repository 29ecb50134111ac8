SPECIFICATION Spec
CONSTANTS
  Behind = 2
  Strange <- StrangePlaces
  CellSize = 2
  Threshold = 1
  MinimumPoints = 6
  IntervalsPerCell = 2
  Jobs <- ClassJobs
INVARIANTS
  PointsComeBack
