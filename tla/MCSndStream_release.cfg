SPECIFICATION Spec
CONSTANTS
  QNum = 2
  IdxMod = 4
  Period = 2
  CbFrames = 2
  MaxKick = 1
  MaxNotify = 3
  AfterOverlap = FALSE
CHECK_DEADLOCK FALSE
INVARIANT ReleaseCompletes
