CONSTANTS
  Unit = 2
  ZoomSteps = {1, 2, 4}
  Gap = 1
  Margin = 1
  ThumbWidth = 4
  ThumbLabel = 1
  ThumbGap = 1
  ScaleSteps = {2, 4, 8}
  ScaleUnits = 4
  MaxTexture = 6
  Documents <- MCDocuments
  Windows <- MCWindows
  Bar = 1
  Tolerance = 1
  Scroll = 4
  MaxActs = 4
SPECIFICATION FairViewSpec
CHECK_DEADLOCK FALSE
INVARIANTS
  CurrentPageIsInView
  WidthStaysFitted
  FramesAskForWhatShows
PROPERTIES
  JumpsLand
  ViewSettles
