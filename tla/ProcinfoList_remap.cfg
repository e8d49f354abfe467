SPECIFICATION Spec
CONSTANTS
  Procs = {p1, p2}
  PROCESSINFOLISTSIZE = 2
INVARIANT RemapsExclusively
CHECK_DEADLOCK FALSE
