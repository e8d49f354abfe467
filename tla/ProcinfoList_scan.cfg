SPECIFICATION FairSpec
CONSTANTS
  Procs = {p1, p2}
  PROCESSINFOLISTSIZE = 2
INVARIANTS RegisteredUnlessRaced
PROPERTIES ListStable DisplayGoesOn SlotFreed
CHECK_DEADLOCK FALSE
