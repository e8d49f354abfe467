SPECIFICATION FairSpec
CONSTANTS
  NBslices = 3
  UseSem = FALSE
  SEMAPHORE_MAXVAL = 0
  MaxFrames = 5
  FrameUnits = 2
  ConnLen = 3
INVARIANTS PublishedWhole SlicesInPlace
PROPERTIES FreshEnough ImplementsRelay
CHECK_DEADLOCK FALSE
