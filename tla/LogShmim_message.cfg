SPECIFICATION Spec
CONSTANTS
  CubeSize = 1
  MaxFrameCnt = 4
  MaxFileCnt = 4
  ExtraTriggers = FALSE
  MaxFrames = 3
  MaxKeys = 0
CHECK_DEADLOCK FALSE
INVARIANTS EveryCubeKept
