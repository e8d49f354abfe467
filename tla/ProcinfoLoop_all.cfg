SPECIFICATION FairSpec
CONSTANTS
  Starts <- AllStarts
  NBslices = 4
  SEMAPHORE_MAXVAL = 2
  CUMUL_MOD = 8
  TimingLimits = TRUE
  MaxFrames = 3
  MaxKeys = 3
  MaxSignals = 1
  MaxSwitches = 1
CHECK_DEADLOCK FALSE
INVARIANTS PauseHolds EndsByCount FramesAreCounted
PROPERTIES ExitEnds FramesAreTaken
