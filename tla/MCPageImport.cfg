CONSTANTS
  ParentLimit = 3
  ReferenceLimit = 3
  Sizes = {"A4", "A5"}
  DefaultSize = "Letter"
  Degrees <- MCDegrees
  Sources <- MCSources
  Target <- MCTarget
  Root = 1
  MaxImport = 2
SPECIFICATION FairSpec
CHECK_DEADLOCK FALSE
INVARIANTS
  CopiesAreFaithful
PROPERTIES
  ImportEnds
