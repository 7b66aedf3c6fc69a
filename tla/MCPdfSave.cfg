SPECIFICATION Spec
CONSTANTS
  Rotations = {0, 1}
  RevisionModulus = 2
  Absent = Absent
  FilePages = 2
  Shapes <- MCShapes
  Imports <- MCImports
  MaxIds = 3
  MaxEdits = 2
  MaxLater = 1
INVARIANTS
  TypeOK
  SavedFileReopensAsShown
  CleanMatchesBase
  ObjectsFollowPages
CHECK_DEADLOCK FALSE
