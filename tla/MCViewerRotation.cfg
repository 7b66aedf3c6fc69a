SPECIFICATION ViewerSpec
CONSTANTS
  Rotations = {0, 1}
  RevisionModulus = 4
  FilePages = 2
  Damaged = {}
  Scales = {1, 2}
  Capacity = 2
  CacheBudget = 1
  RailScale = 1
  CanvasBudget = 4
  FrameRequests = 1
  MaxActs = 1
INVARIANT
  RotationShows
CHECK_DEADLOCK FALSE
