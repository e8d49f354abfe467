SPECIFICATION FairSpec
CONSTANTS
  CubeSize = 2
  MaxFrameCnt = 3
  MaxFileCnt = 2
  ExtraTriggers = TRUE
  MaxFrames = 4
  MaxKeys = 2
CHECK_DEADLOCK FALSE
INVARIANTS SavedAsRecorded RowsFollowStream LimitsHold
PROPERTIES PartialCubeSaved
