CONSTANTS
  NB_FPSCTRL_TASK_MAX = 4
  NB_FPSCTRL_TASK_PURGESIZE = 2
  NB_FPSCTRL_TASKQUEUE_MAX = 2
  CNT_MOD = 2
  f1 = f1
  Fps = {f1}
  NoFps = NoFps
  TaskCmds <- ConfCmds
  ConfigLines = {"setqindex"}
  Prios = {0, 2}
  RunsMayCrash = TRUE
  WordsRace = FALSE
  MaxTasks = 3
  MaxClockSteps = 0
SPECIFICATION Spec
INVARIANTS
  RunningIsOldest
CHECK_DEADLOCK FALSE
