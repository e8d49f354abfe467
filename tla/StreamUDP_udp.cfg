SPECIFICATION FairSpec
CONSTANTS
  NBslices = 1
  UseSem = TRUE
  SEMAPHORE_MAXVAL = 10
  MaxFrames = 4
  NDgrams = 2
  CHAR_RANGE = 4
  MAX_DATAGRAM_WAIT = 3
  QueueLen = 3
  MaxLost = 2
  MaxSwaps = 1
INVARIANTS MixedOnlyByFaults GapsAreFaults GivesUpOnlyAfterLoss
PROPERTIES WholeFramePublished ImplementsRelay
CHECK_DEADLOCK FALSE
