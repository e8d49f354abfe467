SPECIFICATION Spec
CONSTANTS
  Starts <- SlicedStarts
  NBslices = 2
  SEMAPHORE_MAXVAL = 2
  CUMUL_MOD = 8
  TimingLimits = FALSE
  MaxFrames = 4
  MaxKeys = 1
  MaxSignals = 0
  MaxSwitches = 0
CHECK_DEADLOCK FALSE
INVARIANT FramesAreCounted
