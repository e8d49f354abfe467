SPECIFICATION FairSpec
CONSTANTS
  WordsRace = TRUE
  timercntmax = 2
  MaxCmds = 3
  MaxRuns = 1
  MaxDeaths = 1
CHECK_DEADLOCK FALSE
PROPERTY ConfwupdateReturns
