SPECIFICATION FairSpec
CONSTANTS
  WordsRace = FALSE
  timercntmax = 2
  MaxCmds = 3
  MaxRuns = 1
  MaxDeaths = 1
CHECK_DEADLOCK FALSE
INVARIANTS NothingForgotten CheckedIsPending
PROPERTIES EverySettingIsJudged Quiesces WritableFollowsRun StopIsHonored
