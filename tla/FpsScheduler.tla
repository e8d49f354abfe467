---------------------------- MODULE FpsScheduler ----------------------------
(***************************************************************************)
(* The task scheduler of milk-fpsCTRL.                                     *)
(*                                                                         *)
(* Clients write command lines to a fifo.  The control loop                *)
(* (functionparameter_CTRLscreen) turns each line into an entry of a       *)
(* fixed array of task slots (functionparameter_read_fpsCMD_fifo), then    *)
(* makes one scheduling pass over the queues                               *)
(* (function_parameter_process_fpsCMDarray): it retires finished tasks,    *)
(* purges old entries and launches at most one task, by calling            *)
(* functionparameter_FPSprocess_cmdline.  A task may wait for the run      *)
(* process of its FPS: a separate program that shares one status word with *)
(* the scheduler.                                                          *)
(*                                                                         *)
(* The control loop is one thread; it is cut into steps wherever another   *)
(* process can change what it reads next.  `done`, `nsub` and the seq      *)
(* field of an entry are history: no action reads them.                    *)
(***************************************************************************)
EXTENDS Integers, FiniteSets

CONSTANTS
  NB_FPSCTRL_TASK_MAX,        \* slots of the task array (5000 in the code)
  NB_FPSCTRL_TASK_PURGESIZE,  \* slots kept clear of completed tasks (50)
  NB_FPSCTRL_TASKQUEUE_MAX,   \* number of queues (100)
  CNT_MOD,                    \* cmdinputcnt is a uint16_t: 65536
  Fps,                        \* the function parameter structures scanned
  NoFps,                      \* an fpsindex that was never assigned
  TaskCmds,                   \* the task lines the clients write
  ConfigLines,                \* the kinds of configuration lines they write
  Prios,                      \* the priorities they ask for
  RunsMayCrash,               \* may a run process die without RUNexit?
  WordsRace,                  \* may two updates of a status word interleave?
  MaxTasks,                   \* bound: tasks submitted in a behaviour
  MaxClockSteps               \* bound: backward steps of the system clock

Slots  == 0 .. NB_FPSCTRL_TASK_MAX - 1
Queues == 0 .. NB_FPSCTRL_TASKQUEUE_MAX - 1

(* Task commands, by what they do to the state the scheduler depends on.   *)
(* "other" is a command on an FPS that changes none of it, runwait among   *)
(* them; "nofps" stands for rescan, cntinc, logsymlink and every line that *)
(* names an unknown FPS.                                                   *)
Cmds == [op : {"runstart", "runstop", "confupdate", "other"}, fps : Fps]
        \cup [op : {"queueprio"}, queue : Queues, prio : Prios]
        \cup [op : {"nofps", "exit"}]

WaitFlags == {"WAITONRUN", "WAITONCONF"}

ASSUME SizesAssumption ==
  /\ NB_FPSCTRL_TASK_MAX \in Nat \ {0}
  /\ NB_FPSCTRL_TASK_PURGESIZE \in 0 .. NB_FPSCTRL_TASK_MAX
  /\ NB_FPSCTRL_TASKQUEUE_MAX \in Nat \ {0}
  /\ CNT_MOD \in Nat \ {0}
  /\ RunsMayCrash \in BOOLEAN /\ WordsRace \in BOOLEAN
  /\ MaxTasks \in Nat /\ MaxClockSteps \in Nat

ASSUME InputsAssumption ==
  /\ NoFps \notin Fps
  /\ Prios \subseteq Int
  /\ TaskCmds \subseteq Cmds
  /\ ConfigLines \subseteq {"taskcntzero", "setqindex", "setqprio"} \cup WaitFlags

VARIABLES
  status,      \* [Slots -> set of FPSTASK_STATUS bits]; {} is a free slot
  entry,       \* [Slots -> what the submission stored]
  fpsindex,    \* [Slots -> what FPSprocess_cmdline returned at launch]
  ctime,       \* [Slots -> completiontime]
  queue,       \* fifo reader: current queue (static)
  toggles,     \* fifo reader: waitonrun and waitonconf (static), as a set
  cmdinputcnt, \* fifo reader: next inputindex (static uint16_t)
  prio,        \* [Queues -> priority]
  exitloop,    \* a task has asked the control loop to end
  ctl,         \* where the control loop stands
  qi,          \* the queue being scanned
  next,        \* queue_nexttask: [Queues -> slot, NOTASK or WAIT]
  cur,         \* the slot being executed, or NOTASK
  oldest,      \* oldest_index of the purge loop
  cmdrun,      \* [Fps -> bit CMDRUN of the shared status word]
  checked,     \* [Fps -> bit CHECKED of the shared signal word]
  typed,       \* [Fps -> fpsrunstart lines its tmux window has not read]
  alive,       \* [Fps -> is a run process alive]
  loaded,      \* [Fps -> CMDRUN in the status word the conf process has loaded]
  clock,       \* the system clock
  nsteps,      \* backward clock steps so far
  nsub,        \* history: tasks submitted so far
  done         \* history: [Slots -> the run waited for has ended]

fifoVars  == <<queue, toggles, cmdinputcnt, nsub>>
taskVars  == <<status, entry, fpsindex, ctime, done>>
loopVars  == <<ctl, qi, next, cur, oldest>>
fpsVars   == <<cmdrun, checked, typed, alive, loaded>>
clockVars == <<clock, nsteps>>
vars == <<fifoVars, taskVars, loopVars, fpsVars, clockVars, prio, exitloop>>

NOTASK == -1   \* QUEUE_NOTASK
WAIT   == -2   \* QUEUE_WAIT

StatusBits == {"ACTIVE", "WAITING", "RUNNING", "COMPLETED"}
Loads      == {"none", "set", "clear"}
NoCmd      == [op |-> "none"]
Entry == [cmd : Cmds \cup {NoCmd}, queue : Queues, inputindex : Nat,
          flag : SUBSET WaitFlags, seq : Nat]

TypeOK ==
  /\ status \in [Slots -> SUBSET StatusBits]
  /\ entry \in [Slots -> Entry]
  /\ fpsindex \in [Slots -> Fps \cup {NoFps}]
  /\ ctime \in [Slots -> Nat]
  /\ queue \in Queues
  /\ toggles \subseteq WaitFlags
  /\ cmdinputcnt \in 0 .. CNT_MOD - 1
  /\ prio \in [Queues -> Int] /\ exitloop \in BOOLEAN
  /\ ctl \in {"fifo", "scan", "purge", "select", "exec", "runstart", "exited"}
  /\ qi \in 0 .. NB_FPSCTRL_TASKQUEUE_MAX
  /\ next \in [Queues -> Slots \cup {NOTASK, WAIT}]
  /\ cur \in Slots \cup {NOTASK}
  /\ oldest \in Slots
  /\ cmdrun \in [Fps -> BOOLEAN]
  /\ checked \in [Fps -> BOOLEAN]
  /\ typed \in [Fps -> Nat]
  /\ alive \in [Fps -> BOOLEAN]
  /\ loaded \in [Fps -> Loads]
  /\ clock \in Nat
  /\ nsteps \in 0 .. MaxClockSteps
  /\ nsub \in 0 .. MaxTasks
  /\ done \in [Slots -> BOOLEAN]

\* The local variables of a scheduling pass as it begins; they are dead between passes.
FreshLocals(q, n, c, o) ==
  /\ q = 0 /\ n = [r \in Queues |-> NOTASK]
  /\ c = NOTASK /\ o = 0

Init ==
  /\ status = [i \in Slots |-> {}]
  /\ entry = [i \in Slots |-> [cmd |-> NoCmd, queue |-> 0, inputindex |-> 0,
                               flag |-> {}, seq |-> 0]]
  /\ fpsindex = [i \in Slots |-> NoFps]
  /\ ctime = [i \in Slots |-> 0]
  /\ queue = 0 /\ toggles = {} /\ cmdinputcnt = 0 /\ nsub = 0
  /\ prio = [q \in Queues |-> 1] /\ exitloop = FALSE
  /\ ctl = "fifo" /\ FreshLocals(qi, next, cur, oldest)
  /\ cmdrun = [f \in Fps |-> FALSE]
  /\ checked = [f \in Fps |-> FALSE]
  /\ typed = [f \in Fps |-> 0]
  /\ alive = [f \in Fps |-> FALSE]
  /\ loaded = [f \in Fps |-> "none"]
  /\ clock = 0 /\ nsteps = 0
  /\ done = [i \in Slots |-> FALSE]

------------------------------------------------------------------------------
(* Reading the fifo: functionparameter_read_fpsCMD_fifo, one line a step.  *)
(* Every line first looks for a free slot, even one that needs none.       *)

FreeSlots == {i \in Slots : status[i] = {}}
FirstFree == CHOOSE i \in FreeSlots : \A j \in FreeSlots : i <= j

\* A line arrives while every slot is taken: the program calls exit(0).
FifoFull ==
  /\ ctl = "fifo" /\ FreeSlots = {}
  /\ ctl' = "exited"
  /\ UNCHANGED <<fifoVars, taskVars, qi, next, cur, oldest, fpsVars, clockVars, prio, exitloop>>

ReadsLine(kind) ==
  /\ kind \in ConfigLines
  /\ ctl = "fifo" /\ FreeSlots # {}
  /\ UNCHANGED <<taskVars, loopVars, fpsVars, clockVars, nsub, exitloop>>

TaskCntZero ==
  /\ ReadsLine("taskcntzero")
  /\ cmdinputcnt' = 0
  /\ UNCHANGED <<queue, toggles, prio>>

SetQIndex(q) ==
  /\ ReadsLine("setqindex")
  /\ queue' = q
  /\ UNCHANGED <<toggles, cmdinputcnt, prio>>

SetQPrio(p) ==
  /\ ReadsLine("setqprio")
  /\ prio' = [prio EXCEPT ![queue] = IF p < 0 THEN 0 ELSE p]
  /\ UNCHANGED <<queue, toggles, cmdinputcnt>>

\* waitonrunON, waitonrunOFF, waitonconfON, waitonconfOFF
SetWait(flag, on) ==
  /\ ReadsLine(flag)
  /\ toggles' = IF on THEN toggles \cup {flag} ELSE toggles \ {flag}
  /\ UNCHANGED <<queue, cmdinputcnt, prio>>

\* Fault: the counter is not cut to its 16 bits.
NextInputCntUncut == cmdinputcnt + 1
NextInputCnt == (cmdinputcnt + 1) % CNT_MOD

SubmitTask(c) ==
  /\ ctl = "fifo" /\ FreeSlots # {}
  /\ nsub < MaxTasks
  /\ status' = [status EXCEPT ![FirstFree] = {"ACTIVE", "WAITING"}]
  /\ entry' = [entry EXCEPT ![FirstFree] =
                 [cmd |-> c, queue |-> queue, inputindex |-> cmdinputcnt,
                  flag |-> toggles, seq |-> nsub]]
  /\ done' = [done EXCEPT ![FirstFree] = FALSE]
  /\ cmdinputcnt' = NextInputCnt
  /\ nsub' = nsub + 1
  /\ UNCHANGED <<fpsindex, ctime, queue, toggles, loopVars, fpsVars, clockVars, prio, exitloop>>

ReadFifo ==
  \/ FifoFull
  \/ TaskCntZero
  \/ \E q \in Queues : SetQIndex(q)
  \/ \E p \in Prios : SetQPrio(p)
  \/ \E flag \in WaitFlags, on \in BOOLEAN : SetWait(flag, on)
  \/ \E c \in TaskCmds : SubmitTask(c)

------------------------------------------------------------------------------
(* The scheduling pass: function_parameter_process_fpsCMDarray.            *)

\* The fifo is drained: the pass begins, with its local variables as FreshLocals has them.
BeginPass ==
  /\ ctl = "fifo"
  /\ ctl' = "scan"
  /\ UNCHANGED <<fifoVars, taskVars, qi, next, cur, oldest, fpsVars, clockVars, prio, exitloop>>

ActiveIn(q) == {i \in Slots : "ACTIVE" \in status[i] /\ entry[i].queue = q}

\* Fault: the newest task goes first.
NextInQueueLatest(q) ==
  CHOOSE i \in ActiveIn(q) : \A j \in ActiveIn(q) :
    entry[i].inputindex >= entry[j].inputindex

\* The active task of the queue with the smallest inputindex, the first slot on a tie.
NextInQueue(q) ==
  CHOOSE i \in ActiveIn(q) : \A j \in ActiveIn(q) :
    \/ entry[i].inputindex < entry[j].inputindex
    \/ entry[i].inputindex = entry[j].inputindex /\ i <= j

IsRunning(i) == "RUNNING" \in status[i]

(* What the completion test of a running task can yield.  For WAITONCONF   *)
(* the code tests bit 0x8 of the status word, which is defined for the     *)
(* signal word and never set in status.  Through an fpsindex that was      *)
(* never assigned either test can yield anything.                          *)
StatusBit8(f) == FALSE

MayWait(i) ==
  \/ /\ "WAITONRUN" \in entry[i].flag
     /\ fpsindex[i] \in Fps => cmdrun[fpsindex[i]]
  \/ /\ "WAITONCONF" \in entry[i].flag
     /\ fpsindex[i] \in Fps => StatusBit8(fpsindex[i])

\* Fault: WAITONRUN looks at the check request instead of CMDRUN.
MayCompleteUnrun(i) ==
  "WAITONRUN" \in entry[i].flag /\ fpsindex[i] \in Fps => ~checked[fpsindex[i]]

MayComplete(i) ==
  /\ "WAITONRUN" \in entry[i].flag /\ fpsindex[i] \in Fps => ~cmdrun[fpsindex[i]]
  /\ "WAITONCONF" \in entry[i].flag /\ fpsindex[i] \in Fps => ~StatusBit8(fpsindex[i])

ScansQueue == ctl = "scan" /\ qi \in Queues

ScanResult(r) ==
  /\ next' = [next EXCEPT ![qi] = r]
  /\ qi' = qi + 1
  /\ UNCHANGED <<fifoVars, taskVars, ctl, cur, oldest, fpsVars, clockVars, prio, exitloop>>

ScanEmpty == ScansQueue /\ ActiveIn(qi) = {} /\ ScanResult(NOTASK)

ScanReady ==
  /\ ScansQueue /\ ActiveIn(qi) # {}
  /\ ~IsRunning(NextInQueue(qi))
  /\ ScanResult(NextInQueue(qi))

ScanWait ==
  /\ ScansQueue /\ ActiveIn(qi) # {}
  /\ IsRunning(NextInQueue(qi)) /\ MayWait(NextInQueue(qi))
  /\ ScanResult(WAIT)

\* Fault: a completed task is left active.
RetiredKeepsActive(bits) == (bits \ {"RUNNING"}) \cup {"COMPLETED"}
Retired(bits) == (bits \ {"RUNNING", "ACTIVE"}) \cup {"COMPLETED"}

\* The running task is found completed; the same queue is scanned again.
ScanComplete ==
  LET i == NextInQueue(qi) IN
  /\ ScansQueue /\ ActiveIn(qi) # {}
  /\ IsRunning(i) /\ MayComplete(i)
  /\ status' = [status EXCEPT ![i] = Retired(@)]
  /\ ctime' = [ctime EXCEPT ![i] = clock]
  /\ clock' = clock + 1
  /\ UNCHANGED <<fifoVars, entry, fpsindex, done, loopVars, fpsVars, nsteps, prio, exitloop>>

ScanEnd ==
  /\ ctl = "scan" /\ qi = NB_FPSCTRL_TASKQUEUE_MAX
  /\ ctl' = "purge"
  /\ UNCHANGED <<fifoVars, taskVars, qi, next, cur, oldest, fpsVars, clockVars, prio, exitloop>>

Completed == {i \in Slots : "COMPLETED" \in status[i]}

\* Fault: the purge waits until the array is full.
TooManyLate == Cardinality(Completed) >= NB_FPSCTRL_TASK_MAX
TooMany == Cardinality(Completed) > NB_FPSCTRL_TASK_MAX - NB_FPSCTRL_TASK_PURGESIZE

\* Fault: the age of every slot is compared.
AgedAny == {i \in Slots : ctime[i] < clock}

\* Completed tasks with a positive age, and the first of the oldest among them.
Aged == {i \in Completed : ctime[i] < clock}
FirstOldest ==
  CHOOSE i \in Aged : \A j \in Aged :
    ctime[i] < ctime[j] \/ (ctime[i] = ctime[j] /\ i <= j)

(* One round of the purge loop.  oldest_index keeps its value when no      *)
(* completed task has a positive age; if that slot is free already the     *)
(* round changes nothing and the loop never ends.                          *)
PurgeOne ==
  LET o == IF Aged = {} THEN oldest ELSE FirstOldest IN
  /\ ctl = "purge" /\ TooMany
  /\ status' = [status EXCEPT ![o] = {}]
  /\ oldest' = o
  /\ UNCHANGED <<fifoVars, entry, fpsindex, ctime, done, ctl, qi, next, cur,
                 fpsVars, clockVars, prio, exitloop>>

PurgeEnd ==
  /\ ctl = "purge" /\ ~TooMany
  /\ ctl' = "select"
  /\ UNCHANGED <<fifoVars, taskVars, qi, next, cur, oldest, fpsVars, clockVars, prio, exitloop>>

\* Fault: a queue that waits holds back the others.
ReadyQueuesUnlessWait == {q \in Queues : next[q] \in Slots /\ \A r \in Queues : next[r] # WAIT}

\* The ready queue of highest priority, the lowest index on a tie; -1 is below any pick.
ReadyQueues == {q \in Queues : next[q] \in Slots}
\* Fault: the first ready queue is taken whatever its priority.
PreferredFirst(q) == q \in ReadyQueues /\ \A r \in ReadyQueues : q <= r

Preferred(q) ==
  /\ q \in ReadyQueues
  /\ prio[q] > -1
  /\ \A r \in ReadyQueues : prio[r] < prio[q] \/ (prio[r] = prio[q] /\ q <= r)

SelectTask(q) ==
  /\ ctl = "select"
  /\ Preferred(q) /\ prio[q] > 0
  /\ cur' = next[q]
  /\ ctl' = "exec"
  /\ UNCHANGED <<fifoVars, taskVars, qi, next, oldest, fpsVars, clockVars, prio, exitloop>>

SelectNone ==
  /\ ctl = "select"
  /\ ~\E q \in Queues : Preferred(q) /\ prio[q] > 0
  /\ ctl' = "fifo"
  /\ FreshLocals(qi', next', cur', oldest')
  /\ UNCHANGED <<fifoVars, taskVars, fpsVars, clockVars, prio, exitloop>>

------------------------------------------------------------------------------
(* Executing a task: functionparameter_FPSprocess_cmdline and the          *)
(* bookkeeping that follows its return.                                    *)

Executes(op) == ctl = "exec" /\ entry[cur].cmd.op = op
CurFps == entry[cur].cmd.fps

\* The command returns f as its fpsindex, and the pass ends.
Returns(f) ==
  /\ status' = [status EXCEPT ![cur] = (@ \ {"WAITING"}) \cup {"RUNNING"}]
  /\ fpsindex' = [fpsindex EXCEPT ![cur] = f]
  /\ ctl' = "fifo"
  /\ FreshLocals(qi', next', cur', oldest')
  /\ UNCHANGED <<fifoVars, entry, ctime, clockVars>>

\* The started tasks that wait for a run of f: their run has ended.
EndsRunOf(f) ==
  done' = [i \in Slots |-> \/ done[i]
                           \/ /\ entry[i].cmd.op = "runstart" /\ entry[i].cmd.fps = f
                              /\ IsRunning(i) \/ i = cur]

\* functionparameter_RUNstart does nothing unless the parameters check (CHECKOK).
RunstartRefused ==
  /\ Executes("runstart")
  /\ done' = [done EXCEPT ![cur] = TRUE]
  /\ Returns(CurFps)
  /\ UNCHANGED <<fpsVars, prio, exitloop>>

\* It types the command in the tmux window, and only then sets CMDRUN.
RunstartTypes ==
  /\ Executes("runstart")
  /\ typed' = [typed EXCEPT ![CurFps] = @ + 1]
  /\ ctl' = "runstart"
  /\ UNCHANGED <<fifoVars, taskVars, qi, next, cur, oldest, cmdrun, checked, alive, loaded,
                 clockVars, prio, exitloop>>

RunstartSetsCmdrun ==
  /\ ctl = "runstart"
  /\ cmdrun' = [cmdrun EXCEPT ![CurFps] = TRUE]
  /\ Returns(CurFps)
  /\ UNCHANGED <<done, checked, typed, alive, loaded, prio, exitloop>>

(* functionparameter_RUNstop: a C-c to the window (which may flush lines   *)
(* typed ahead), then CMDRUN cleared without waiting for the process.      *)
ExecRunstop ==
  /\ Executes("runstop")
  /\ \E n \in {0, typed[CurFps]} : typed' = [typed EXCEPT ![CurFps] = n]
  /\ cmdrun' = [cmdrun EXCEPT ![CurFps] = FALSE]
  /\ EndsRunOf(CurFps)
  /\ Returns(CurFps)
  /\ UNCHANGED <<checked, alive, loaded, prio, exitloop>>

ExecConfupdate ==
  /\ Executes("confupdate")
  /\ checked' = [checked EXCEPT ![CurFps] = TRUE]
  /\ Returns(CurFps)
  /\ UNCHANGED <<done, cmdrun, typed, alive, loaded, prio, exitloop>>

\* Among them runwait, which polls CMDRUN inside the control loop for 1000 s at most.
ExecOther ==
  /\ Executes("other")
  /\ Returns(CurFps)
  /\ UNCHANGED <<done, fpsVars, prio, exitloop>>

ExecQueueprio ==
  /\ Executes("queueprio")
  /\ prio' = [prio EXCEPT ![entry[cur].cmd.queue] = entry[cur].cmd.prio]
  /\ Returns(NoFps)
  /\ UNCHANGED <<done, fpsVars, exitloop>>

ExecNofps ==
  /\ Executes("nofps")
  /\ Returns(NoFps)
  /\ UNCHANGED <<done, fpsVars, prio, exitloop>>

ExecExit ==
  /\ Executes("exit")
  /\ exitloop' = TRUE
  /\ Returns(NoFps)
  /\ UNCHANGED <<done, fpsVars, prio>>

ExecTask ==
  \/ RunstartRefused \/ RunstartTypes \/ RunstartSetsCmdrun
  \/ ExecRunstop \/ ExecConfupdate \/ ExecOther
  \/ ExecQueueprio \/ ExecNofps \/ ExecExit

Pass ==
  \/ BeginPass
  \/ ScanEmpty \/ ScanReady \/ ScanWait \/ ScanComplete \/ ScanEnd
  \/ PurgeOne \/ PurgeEnd
  \/ SelectNone \/ \E q \in Queues : SelectTask(q)
  \/ ExecTask

(* exitloop is only looked at when the screen is refreshed: any number of  *)
(* lines and passes may come before.                                       *)
LeaveLoop ==
  /\ ctl = "fifo" /\ exitloop
  /\ ctl' = "exited"
  /\ UNCHANGED <<fifoVars, taskVars, qi, next, cur, oldest, fpsVars, clockVars, prio, exitloop>>

------------------------------------------------------------------------------
(* The other processes.                                                    *)

\* The shell of the tmux window reads a typed line and starts the run process.
ShellStart(f) ==
  /\ typed[f] > 0 /\ ~alive[f]
  /\ typed' = [typed EXCEPT ![f] = @ - 1]
  /\ alive' = [alive EXCEPT ![f] = TRUE]
  /\ UNCHANGED <<fifoVars, taskVars, loopVars, cmdrun, checked, loaded, clockVars, prio, exitloop>>

\* The run process ends through function_parameter_RUNexit.
RunExit(f) ==
  /\ alive[f]
  /\ alive' = [alive EXCEPT ![f] = FALSE]
  /\ cmdrun' = [cmdrun EXCEPT ![f] = FALSE]
  /\ EndsRunOf(f)
  /\ UNCHANGED <<fifoVars, status, entry, fpsindex, ctime, loopVars, checked, typed, loaded,
                 clockVars, prio, exitloop>>

\* The run process dies without reaching it.
RunCrash(f) ==
  /\ RunsMayCrash
  /\ alive[f]
  /\ alive' = [alive EXCEPT ![f] = FALSE]
  /\ UNCHANGED <<fifoVars, taskVars, loopVars, cmdrun, checked, typed, loaded, clockVars, prio,
                 exitloop>>

\* The conf process ends a parameter check (functionparameter_CheckParametersAll).
ConfChecks(f) ==
  /\ checked[f]
  /\ checked' = [checked EXCEPT ![f] = FALSE]
  /\ UNCHANGED <<fifoVars, taskVars, loopVars, cmdrun, typed, alive, loaded, clockVars, prio,
                 exitloop>>

(* The conf process rewrites the status word in every loop (CONF, RUN and  *)
(* CHECKOK), with no lock: a load and a store.                             *)
ConfLoads(f) ==
  /\ WordsRace
  /\ loaded[f] = "none"
  /\ loaded' = [loaded EXCEPT ![f] = IF cmdrun[f] THEN "set" ELSE "clear"]
  /\ UNCHANGED <<fifoVars, taskVars, loopVars, cmdrun, checked, typed, alive, clockVars, prio,
                 exitloop>>

ConfStores(f) ==
  /\ loaded[f] # "none"
  /\ cmdrun' = [cmdrun EXCEPT ![f] = loaded[f] = "set"]
  /\ loaded' = [loaded EXCEPT ![f] = "none"]
  /\ UNCHANGED <<fifoVars, taskVars, loopVars, checked, typed, alive, clockVars, prio, exitloop>>

(* The settable system clock goes back.  The purge loop reads it once.     *)
ClockStep ==
  /\ ctl # "purge"
  /\ nsteps < MaxClockSteps
  /\ nsteps' = nsteps + 1
  /\ clock' \in 0 .. clock - 1
  /\ UNCHANGED <<fifoVars, taskVars, loopVars, fpsVars, prio, exitloop>>

Environment ==
  \/ \E f \in Fps : ShellStart(f) \/ RunExit(f) \/ RunCrash(f)
  \/ \E f \in Fps : ConfChecks(f) \/ ConfLoads(f) \/ ConfStores(f)
  \/ ClockStep

\* Nothing runs after the control loop has left.
Exited == ctl = "exited" /\ UNCHANGED vars

Next == ReadFifo \/ Pass \/ LeaveLoop \/ Environment \/ Exited

Spec == Init /\ [][Next]_vars

\* The control loop never stops by itself, and the shell and the run programs make progress.
LiveSpec == Spec /\ WF_vars(Pass)
FairSpec == LiveSpec /\ \A f \in Fps : WF_vars(ShellStart(f)) /\ WF_vars(RunExit(f))

------------------------------------------------------------------------------
(* Properties.                                                             *)

IsActive(i) == "ACTIVE" \in status[i]

(* A running task was submitted before every other active task of its      *)
(* queue: tasks of a queue start in submission order and run one at a time *)
(* (RULES of function_parameter_process_fpsCMDarray).                      *)
RunningIsOldest ==
  \A i, j \in Slots :
    /\ IsActive(i) /\ IsRunning(i)
    /\ IsActive(j) /\ entry[j].queue = entry[i].queue
    /\ i # j
    => entry[i].seq < entry[j].seq

(* A runstart submitted with WAITONRUN is not retired before a run of its  *)
(* FPS has ended or been stopped since it was launched, whatever the order *)
(* in which the scheduler and the run process write CMDRUN.                *)
WaitHonored ==
  \A i \in Slots :
    /\ "COMPLETED" \in status[i]
    /\ "WAITONRUN" \in entry[i].flag
    /\ entry[i].cmd.op = "runstart"
    => done[i]

(* The same reading of WAITONCONF: a confupdate submitted with it is not   *)
(* retired while the check it asked for is still pending.                  *)
ConfWaitHonored ==
  [][\A i \in Slots :
       /\ "COMPLETED" \notin status[i] /\ "COMPLETED" \in status'[i]
       /\ "WAITONCONF" \in entry[i].flag
       /\ entry[i].cmd.op = "confupdate"
       => ~checked[entry[i].cmd.fps]]_vars

(* Between its scan and its launch a candidate stays the slot that was     *)
(* scanned: neither the purge nor another queue's scan frees, retires or   *)
(* reuses it, so that the slot executed is an active task of that queue.   *)
CandidatesStayActive ==
  /\ ctl \in {"scan", "purge", "select"} =>
       \A q \in Queues : next[q] \in Slots =>
         IsActive(next[q]) /\ ~IsRunning(next[q]) /\ entry[next[q]].queue = q
  /\ ctl \in {"exec", "runstart"} => cur \in Slots /\ IsActive(cur) /\ ~IsRunning(cur)

(* No queue of higher priority holds a startable task when a task is       *)
(* launched: its oldest active task, if any, is one that is being waited   *)
(* for.                                                                    *)
NoPriorityInversion ==
  [][cur = NOTASK /\ cur' # NOTASK =>
       \A q \in Queues :
         /\ prio[q] > prio[entry[cur'].queue]
         /\ ActiveIn(q) # {}
         => IsRunning(NextInQueue(q))]_vars

(* An entry leaves the task array only after its task was completed: the   *)
(* purge never drops a task that is waiting, being executed or running.    *)
OnlyCompletedPurged ==
  [][\A i \in Slots : status[i] # {} /\ status'[i] = {} => "COMPLETED" \in status[i]]_vars

(* When lines are read, PURGESIZE slots at least hold no completed task,   *)
(* so the array can only be full of tasks that are still to be done.       *)
PurgedEnough ==
  ctl = "fifo" => Cardinality(Completed) <= NB_FPSCTRL_TASK_MAX - NB_FPSCTRL_TASK_PURGESIZE

(* The queue is stuck behind its running task.                             *)
Blocked(q) ==
  \E i \in ActiveIn(q) : IsRunning(i) /\ MayWait(i)

(* "A running task waiting to be completed cannot block tasks in other     *)
(* queues": each queue that is not paused empties, unless it is blocked by *)
(* its own running task, or the control loop ends.                         *)
QueuesIndependent ==
  \A q \in Queues :
    ActiveIn(q) # {} ~> (ActiveIn(q) = {} \/ Blocked(q) \/ prio[q] <= 0 \/ ctl = "exited")

(* "use WAITONRUN to ensure the queue is blocked until the current run     *)
(* process is done": a blocked queue has a run process to wait for, or     *)
(* will have one, or stops being blocked.                                  *)
BlockedByARun ==
  \A q \in Queues :
    Blocked(q) ~> (~Blocked(q) \/ ctl = "exited")

(* The refinement: a task is pending while it is active and not yet        *)
(* launched, and running until it is retired.                              *)
PendingTasks(q) == {entry[i].seq : i \in {k \in ActiveIn(q) : ~IsRunning(k)}}
RunningTasks(q) == {entry[i].seq : i \in {k \in ActiveIn(q) : IsRunning(k)}}

TaskQueues == INSTANCE FpsTaskQueues WITH
  submitted <- nsub,
  pending   <- [q \in Queues |-> PendingTasks(q)],
  running   <- [q \in Queues |-> RunningTasks(q)]

(* The slots, the scans and the counters implement independent FIFO queues *)
(* that run one task at a time.                                            *)
ImplementsQueues == TaskQueues!Spec
==============================================================================
