SPECIFICATION FairViewerSpec
CONSTANTS
  Rotations = {0}
  RevisionModulus = 4
  FilePages = 2
  Damaged = {1}
  Scales = {1, 2}
  Capacity = 2
  CacheBudget = 1
  RailScale = 1
  CanvasBudget = 4
  FrameRequests = 1
  MaxActs = 2
INVARIANTS
  CachesFollowSnapshot
  CanvasAwaitsLiveRequests
PROPERTIES
  CanvasSettles
CHECK_DEADLOCK FALSE
