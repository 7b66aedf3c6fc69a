SPECIFICATION Spec
CONSTANTS
  a = a
  b = b
  MaxChanges = 2
  Docs = {a, b}
  Rotations = {0, 1}
  RevisionModulus = 2
  PageCounts = {1, 2}
  Turns = {0}
  MaxIds = 3
  MaxSteps = 2
INVARIANTS
  TypeOK
  KeptInverseRestores
PROPERTIES
  AllOrNothing
  InverseStaysHome
CHECK_DEADLOCK FALSE
