SPECIFICATION FairSpec
CONSTANTS
  Rotations = {0, 1}
  RevisionModulus = 4
  FilePages = 2
  Damaged = {}
  Scales = {1}
  Capacity = 1
  CacheBudget = 1
  MaxEdits = 1
  MaxOutstanding = 3
INVARIANTS
  TypeOK
  TilesMatchRequests
PROPERTIES
  KeepsContract
  NobodyWaitsForever
CHECK_DEADLOCK FALSE
