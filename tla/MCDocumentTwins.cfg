CONSTANTS
  Rotations = {0, 1}
  RevisionModulus = 8
  Sizes = {"Letter"}
  Unknown = 99
  Beyond = 99
  MaxPages = 2
  MaxEdits = 3
  MaxCarried = 1
  MaxAsked = 2
SPECIFICATION Spec
CHECK_DEADLOCK FALSE
INVARIANTS
  TwinsAnswerAlike
  BothKeepTheContract
