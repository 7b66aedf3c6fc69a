SPECIFICATION Spec
CONSTANTS
  Path = {p1, p2}
  None = None
  Absent = Absent
  Unreadable = Unreadable
  MaxContents = 3
  MaxRevision = 4
SYMMETRY FileSymmetry
CHECK_DEADLOCK FALSE
INVARIANTS
  ShellCoherent
  CleanMeansOnDisk
PROPERTY
  WorkLostOnlyByChoice
