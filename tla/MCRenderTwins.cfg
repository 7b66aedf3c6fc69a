CONSTANTS
  Unit = 10000
  MaxTileEdge = 4096
  MaxTilePixels = 60000
  Service = {s1, s2}
  Guest = {g1}
  None = None
  Pages <- MCPages
  FileTurns = {3}
  Damaged = {4}
  Request <- MCRequest
  MaxPending = 1
SPECIFICATION FairSpec
INVARIANTS
  SuitePasses
  RenderersAgree
  CallsDoNotOverlap
PROPERTIES
  NobodyHangs
