SPECIFICATION Spec
CONSTANTS
  Rotations = {0, 1}
  RevisionModulus = 2
  Limit = 2
  PageCounts = {2}
  MaxIds = 3
INVARIANTS
  HistoryOK
  PageIdentity
  NextEntryApplies
  EntriesReplayTimeline
PROPERTIES
  WalksTimeline
  PagesAccountedFor
