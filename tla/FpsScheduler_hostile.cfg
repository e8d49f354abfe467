CONSTANTS
  NB_FPSCTRL_TASK_MAX = 2
  NB_FPSCTRL_TASK_PURGESIZE = 2
  NB_FPSCTRL_TASKQUEUE_MAX = 2
  CNT_MOD = 2
  f1 = f1
  Fps = {f1}
  NoFps = NoFps
  TaskCmds <- MixedCmds
  ConfigLines = {"setqindex", "WAITONRUN", "taskcntzero"}
  Prios = {0, 2}
  RunsMayCrash = TRUE
  WordsRace = TRUE
  MaxTasks = 2
  MaxClockSteps = 1
SPECIFICATION Spec
INVARIANTS
  TypeOK
CHECK_DEADLOCK FALSE
