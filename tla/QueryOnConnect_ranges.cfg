CONSTANTS
  p1 = p1
  p2 = p2
  Peers = {p1, p2}
  None = None
  MaxTimeLimit = 1
  PageSize = 1
  MaxTimeRange = 3
  ForceQueryThreshold = 2
  MaxTime = 4
  MaxMessages = 2
  MaxConnects = 3
  MaxStops = 1
SPECIFICATION Spec
SYMMETRY Symmetry
INVARIANT RangesCover
CHECK_DEADLOCK FALSE
