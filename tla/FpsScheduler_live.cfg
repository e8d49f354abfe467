CONSTANTS
  NB_FPSCTRL_TASK_MAX = 3
  NB_FPSCTRL_TASK_PURGESIZE = 2
  NB_FPSCTRL_TASKQUEUE_MAX = 2
  CNT_MOD = 8
  f1 = f1
  Fps = {f1}
  NoFps = NoFps
  TaskCmds <- ControlCmds
  ConfigLines = {"setqindex", "WAITONRUN", "setqprio"}
  Prios = {0, 2}
  RunsMayCrash = TRUE
  WordsRace = FALSE
  MaxTasks = 2
  MaxClockSteps = 0
SPECIFICATION LiveSpec
PROPERTIES
  NoPriorityInversion
  QueuesIndependent
CHECK_DEADLOCK FALSE
