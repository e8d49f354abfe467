SPECIFICATION Spec
CONSTANTS
  WordsRace = FALSE
  timercntmax = 2
  MaxCmds = 4
  MaxRuns = 0
  MaxDeaths = 0
CHECK_DEADLOCK FALSE
PROPERTY ConfwupdateIsFresh
