---------------------------- MODULE ProcinfoLoop ----------------------------
(***************************************************************************)
(* The loop of a process under processinfo control: its loop step, its     *)
(* wait for a trigger, and the bookkeeping around the computation (the     *)
(* macros INSERT_STD_PROCINFO_COMPUTEFUNC_START and _END).  Three others   *)
(* act on it with no lock: the operator of procCTRL, who writes CTRLval;   *)
(* the writer of the trigger stream, who counts a frame in cnt0 and then   *)
(* posts a semaphore; and signals.                                         *)
(*                                                                         *)
(* The computation has no effect of its own here.  A missed-frame count is *)
(* kept modulo CUMUL_MOD (2^64).  Timing limits (TimingLimits) pause the   *)
(* process at any iteration.                                               *)
(***************************************************************************)
EXTENDS Integers

CONSTANTS
  Starts,           \* settings a process may start with
  NBslices,         \* slices of the stream: cnt1 is the index of the last one written
  SEMAPHORE_MAXVAL, \* a semaphore is not posted beyond this value
  CUMUL_MOD,        \* 2^64
  TimingLimits,     \* do timing limits pause the process?
  MaxFrames,        \* bound: frames written
  MaxKeys,          \* bound: keys pressed
  MaxSignals,       \* bound: signals caught
  MaxSwitches       \* bound: changes of the trigger mode by the operator

TriggerModes == {"IMMEDIATE", "CNT0", "CNT1", "SEMAPHORE", "DELAY"}
CounterModes == {"CNT0", "CNT1"}

\* mode, loopcntMax: as requested; fps: are they parameters of an FPS?
\* sem: is a semaphore of the stream free?  cnt0, posts: frames written before
\* the start, and those posted and not taken.
Settings == [mode : TriggerModes, loopcntMax : Int, fps : BOOLEAN, sem : BOOLEAN,
             cnt0 : Nat, posts : Nat]

\* A loop without end needs a trigger for its states to be finite, and a
\* semaphore mode reloaded from an FPS with no semaphore has no defined effect.
ASSUME ConstantsAssumption ==
  /\ Starts \subseteq Settings
  /\ \A s \in Starts :
       /\ s.posts <= SEMAPHORE_MAXVAL /\ s.posts <= s.cnt0 /\ s.cnt0 <= MaxFrames
       /\ s.loopcntMax = -1 => s.mode \in CounterModes \cup {"SEMAPHORE"}
       /\ s.fps => s.sem
  /\ NBslices \in Nat \ {0} /\ SEMAPHORE_MAXVAL \in Nat
  /\ MaxFrames \in Nat /\ CUMUL_MOD \in Nat /\ CUMUL_MOD > MaxFrames
  /\ MaxKeys \in Nat /\ MaxSignals \in Nat /\ MaxSwitches \in Nat
  /\ TimingLimits \in BOOLEAN

VARIABLES
  start,             \* the settings of this process
  fpsmode,           \* the trigger mode in the FPS
  CTRLval,           \* control value, written by the operator and by the loop
  loopcnt,           \* iterations done
  loopOK,            \* processloopOK: go round again?
  triggermode,
  triggerstreamcnt,  \* counter value at the last trigger
  missed,            \* triggermissedframe
  cumul,             \* triggermissedframe_cumul
  triggerstatus,
  pc,
  cnt0, semval,      \* the stream: frames counted, value of its semaphore
  writing,           \* a frame is counted and its semaphore not yet posted
  signal_INT,
  nkeys, nsignals, nswitches,
  received,          \* history: triggers taken
  sincePause,        \* history: triggers taken since CTRLval has become 1
  exitAsked          \* history: has an exit or an interrupt been asked for?

loopVars   == <<loopcnt, loopOK, triggermode, triggerstreamcnt, missed, cumul, triggerstatus, pc>>
streamVars == <<cnt0, writing>>
askVars    == <<nkeys, nswitches, fpsmode>>
sigVars    == <<signal_INT, nsignals, exitAsked>>
ctrlVars   == <<CTRLval, sincePause>>
vars == <<start, loopVars, streamVars, semval, askVars, sigVars, ctrlVars, received>>

RUN == 0
PAUSE == 1
INCR == 2
EXIT == 3
NOCOMPUTE == 5
CtrlValues == {RUN, PAUSE, INCR, EXIT, NOCOMPUTE}

Locs == {"loopstep", "single", "store", "exit", "wait", "poll", "count", "update",
         "drain", "timedwait", "exec_start", "exec_end", "done"}

Iterations(max) == IF max <= 1 THEN 1 ELSE max

\* The types; the semaphore keeps to its limit.
TypeOK ==
  /\ start \in Starts /\ fpsmode \in TriggerModes
  /\ CTRLval \in CtrlValues
  /\ loopcnt \in Nat
  /\ loopOK \in BOOLEAN
  /\ triggermode \in TriggerModes /\ triggerstreamcnt \in Nat
  /\ missed \in Int /\ cumul \in 0 .. CUMUL_MOD - 1
  /\ triggerstatus \in {"NONE", "WAITING", "RECEIVED", "TIMEDOUT"}
  /\ pc \in Locs
  /\ cnt0 \in 0 .. MaxFrames /\ semval \in 0 .. SEMAPHORE_MAXVAL /\ writing \in BOOLEAN
  /\ signal_INT \in BOOLEAN
  /\ nkeys \in 0 .. MaxKeys /\ nsignals \in 0 .. MaxSignals /\ nswitches \in 0 .. MaxSwitches
  /\ received \in Nat /\ sincePause \in Nat /\ exitAsked \in BOOLEAN

------------------------------------------------------------------------------
(* The start: processinfo_setup, processinfo_waitoninputstream_init.       *)

\* Without a free semaphore the trigger falls back to cnt0.
TriggerModeAtStart(s) == IF s.mode = "SEMAPHORE" /\ ~s.sem THEN "CNT0" ELSE s.mode

CounterOf(mode, n) == IF mode = "CNT1" THEN n % NBslices ELSE n
Counter == CounterOf(triggermode, cnt0)

\* Only a requested counter mode takes the counter; the semaphore modes leave
\* what an earlier loop of the process has put there.
CounterAtStart(s) ==
  CASE s.mode \in CounterModes -> {CounterOf(s.mode, s.cnt0)}
    [] s.mode = "SEMAPHORE" -> 0 .. s.cnt0
    [] OTHER -> {0}

Init ==
  /\ start \in Starts
  /\ fpsmode = start.mode
  /\ triggermode = TriggerModeAtStart(start)
  /\ triggerstreamcnt \in CounterAtStart(start)
  /\ missed = 0 /\ cumul = 0 /\ triggerstatus = "NONE"
  /\ CTRLval = RUN /\ loopcnt = 0 /\ loopOK = TRUE /\ pc = "loopstep"
  /\ cnt0 = start.cnt0 /\ semval = start.posts /\ writing = FALSE
  /\ signal_INT = FALSE
  /\ nkeys = 0 /\ nsignals = 0 /\ nswitches = 0
  /\ received = 0 /\ sincePause = 0 /\ exitAsked = FALSE

------------------------------------------------------------------------------
(* processinfo_loopstep: four separate reads of CTRLval.                   *)

SetsCTRLval(v) ==
  /\ CTRLval' = v
  /\ sincePause' = IF v = PAUSE /\ CTRLval = PAUSE THEN sincePause ELSE 0

Goes(l) ==
  /\ pc' = l
  /\ UNCHANGED <<loopcnt, loopOK, triggermode, triggerstreamcnt, missed, cumul, triggerstatus>>

NotTheOthers == UNCHANGED <<start, streamVars, askVars, sigVars>>

\* Faults: a pause is only a delay; only RUN lets the loop go on.
SpinsOnce == FALSE
SpinsUnlessRun == CTRLval # RUN
Spins == CTRLval = PAUSE

LeavesPause ==
  /\ pc = "loopstep" /\ ~Spins
  /\ Goes("single")
  /\ NotTheOthers /\ UNCHANGED <<ctrlVars, semval, received>>

TestsSingle ==
  /\ pc = "single"
  /\ Goes(IF CTRLval = INCR THEN "store" ELSE "exit")
  /\ NotTheOthers /\ UNCHANGED <<ctrlVars, semval, received>>

StoresPause ==
  /\ pc = "store"
  /\ SetsCTRLval(PAUSE)
  /\ Goes("exit")
  /\ NotTheOthers /\ UNCHANGED <<semval, received>>

\* Fault: the iteration that reaches the count is not seen as the last.
LastIterationLate == start.loopcntMax # -1 /\ loopcnt >= start.loopcntMax
LastIteration == start.loopcntMax # -1 /\ loopcnt >= start.loopcntMax - 1

\* The status is returned, and the wait follows even when it says to leave.
TestsExit ==
  /\ pc = "exit"
  /\ loopOK' = ~(CTRLval = EXIT \/ signal_INT \/ LastIteration)
  /\ pc' = "wait"
  /\ NotTheOthers
  /\ UNCHANGED <<ctrlVars, semval, received, loopcnt, triggermode, triggerstreamcnt, missed, cumul,
                 triggerstatus>>

------------------------------------------------------------------------------
(* processinfo_waitoninputstream.                                          *)

Takes == /\ received' = received + 1
         /\ sincePause' = IF CTRLval = PAUSE THEN sincePause + 1 ELSE 0
         /\ triggerstatus' = "RECEIVED"
         /\ pc' = "exec_start"

\* Immediate and delay modes need no one; the others begin to wait.
Waits ==
  /\ pc = "wait"
  /\ missed' = 0
  /\ CASE triggermode = "IMMEDIATE" -> Takes /\ UNCHANGED triggerstreamcnt
       [] triggermode = "DELAY" -> Takes /\ triggerstreamcnt' = triggerstreamcnt + 1
       [] OTHER -> /\ triggerstatus' = "WAITING"
                   /\ pc' = IF triggermode = "SEMAPHORE" THEN "drain" ELSE "poll"
                   /\ UNCHANGED <<triggerstreamcnt, received, sincePause>>
  /\ NotTheOthers /\ UNCHANGED <<CTRLval, semval, loopcnt, loopOK, triggermode, cumul>>

\* The counter is read three times: to leave the poll, to count what was missed,
\* and to remember it.
PollEnds ==
  /\ pc = "poll" /\ Counter # triggerstreamcnt
  /\ Goes("count")
  /\ NotTheOthers /\ UNCHANGED <<ctrlVars, semval, received>>

CountsMissed ==
  /\ pc = "count"
  /\ missed' = Counter - triggerstreamcnt - 1
  /\ pc' = "update"
  /\ NotTheOthers
  /\ UNCHANGED <<ctrlVars, semval, received, loopcnt, loopOK, triggermode, triggerstreamcnt, cumul,
                 triggerstatus>>

\* Fault: the remembered counter advances by one frame only.
NextCountByOne == triggerstreamcnt + 1
NextCount == Counter

UpdatesCount ==
  /\ pc = "update"
  /\ triggerstreamcnt' = NextCount
  /\ cumul' = (cumul + missed) % CUMUL_MOD
  /\ Takes
  /\ NotTheOthers /\ UNCHANGED <<CTRLval, semval, loopcnt, loopOK, triggermode, missed>>

\* sem_trywait succeeds: a post of an earlier frame.
Drains ==
  /\ pc = "drain" /\ semval > 0
  /\ semval' = semval - 1
  /\ missed' = missed + 1
  /\ NotTheOthers
  /\ UNCHANGED <<ctrlVars, received, loopcnt, loopOK, triggermode, triggerstreamcnt, cumul,
                 triggerstatus, pc>>

\* The semaphore is at zero: what was drained is the trigger, or it waits.
Drained ==
  /\ pc = "drain" /\ semval = 0
  /\ IF missed = 0
     THEN pc' = "timedwait" /\ UNCHANGED <<cumul, triggerstatus, received, sincePause>>
     ELSE cumul' = (cumul + missed) % CUMUL_MOD /\ Takes
  /\ NotTheOthers
  /\ UNCHANGED <<CTRLval, semval, loopcnt, loopOK, triggermode, triggerstreamcnt, missed>>

Timedwait ==
  /\ pc = "timedwait" /\ semval > 0
  /\ semval' = semval - 1
  /\ Takes
  /\ NotTheOthers
  /\ UNCHANGED <<CTRLval, loopcnt, loopOK, triggermode, triggerstreamcnt, missed, cumul>>

\* Fault: the loop goes round whatever the loop step has said.
RetriesAlways == "loopstep"
NextRound == IF loopOK THEN "loopstep" ELSE "done"

\* A timeout skips the iteration.
TimesOut ==
  /\ pc = "timedwait" /\ semval = 0
  /\ triggerstatus' = "TIMEDOUT"
  /\ pc' = NextRound
  /\ NotTheOthers
  /\ UNCHANGED <<ctrlVars, semval, received, loopcnt, loopOK, triggermode, triggerstreamcnt, missed,
                 cumul>>

------------------------------------------------------------------------------
(* processinfo_exec_start and processinfo_exec_end; between them the       *)
(* computation, unless CTRLval is 5.                                       *)

MayPause == SetsCTRLval(CTRLval) \/ (TimingLimits /\ SetsCTRLval(PAUSE))

ExecStart ==
  /\ pc = "exec_start"
  /\ MayPause
  /\ Goes("exec_end")
  /\ NotTheOthers /\ UNCHANGED <<semval, received>>

\* The trigger mode comes from the FPS, if there is one.
ExecEnd ==
  /\ pc = "exec_end"
  /\ MayPause
  /\ triggermode' = IF start.fps THEN fpsmode ELSE triggermode
  /\ loopcnt' = loopcnt + 1
  /\ pc' = NextRound
  /\ NotTheOthers
  /\ UNCHANGED <<semval, received, loopOK, triggerstreamcnt, missed, cumul, triggerstatus>>

Loop ==
  \/ LeavesPause \/ TestsSingle \/ StoresPause \/ TestsExit
  \/ Waits \/ PollEnds \/ CountsMissed \/ UpdatesCount
  \/ Drains \/ Drained \/ Timedwait \/ TimesOut
  \/ ExecStart \/ ExecEnd

------------------------------------------------------------------------------
(* The operator, the writer of the stream, signals.                        *)

NotTheLoop == UNCHANGED <<start, loopVars, received>>

KeyValue(k) ==
  CASE k = "p" -> IF CTRLval = RUN THEN PAUSE ELSE RUN
    [] k = "c" -> IF CTRLval = RUN THEN NOCOMPUTE ELSE IF CTRLval = NOCOMPUTE THEN RUN ELSE CTRLval
    [] k = "s" -> INCR
    [] k = "e" -> EXIT

Key(k) ==
  /\ nkeys < MaxKeys
  /\ nkeys' = nkeys + 1
  /\ SetsCTRLval(KeyValue(k))
  /\ exitAsked' = (exitAsked \/ k = "e")
  /\ NotTheLoop /\ UNCHANGED <<streamVars, semval, nswitches, fpsmode, signal_INT, nsignals>>

\* The operator sets the trigger mode in the FPS.
SwitchesMode(m) ==
  /\ start.fps /\ m # fpsmode /\ nswitches < MaxSwitches
  /\ start.loopcntMax = -1 => m \in CounterModes \cup {"SEMAPHORE"}
  /\ fpsmode' = m /\ nswitches' = nswitches + 1
  /\ NotTheLoop /\ UNCHANGED <<streamVars, semval, nkeys, sigVars, ctrlVars>>

WriterCounts ==
  /\ cnt0 < MaxFrames /\ ~writing
  /\ cnt0' = cnt0 + 1 /\ writing' = TRUE
  /\ NotTheLoop /\ UNCHANGED <<semval, askVars, sigVars, ctrlVars>>

Posted == IF semval < SEMAPHORE_MAXVAL THEN semval + 1 ELSE semval

WriterPosts ==
  /\ writing
  /\ semval' = Posted /\ writing' = FALSE
  /\ NotTheLoop /\ UNCHANGED <<cnt0, askVars, sigVars, ctrlVars>>

\* A signal is caught: SIGINT is remembered, the others are ignored here.  One
\* that comes in sem_timedwait ends it, and counts as a trigger.
Signal(int) ==
  /\ nsignals < MaxSignals /\ pc # "done"
  /\ nsignals' = nsignals + 1
  /\ signal_INT' = (signal_INT \/ int)
  /\ exitAsked' = (exitAsked \/ int)
  /\ IF pc = "timedwait"
     THEN Takes /\ UNCHANGED <<loopcnt, loopOK, triggermode, triggerstreamcnt, missed, cumul>>
     ELSE UNCHANGED <<loopVars, received, sincePause>>
  /\ UNCHANGED <<start, streamVars, semval, askVars, CTRLval>>

Environment ==
  \/ \E k \in {"p", "c", "s", "e"} : Key(k)
  \/ \E m \in TriggerModes : SwitchesMode(m)
  \/ WriterCounts \/ WriterPosts
  \/ \E int \in BOOLEAN : Signal(int)

Next == Loop \/ Environment

Spec == Init /\ [][Next]_vars

\* The kernel runs the process: a step it can take it takes.
FairSpec == Spec /\ WF_vars(Loop)

------------------------------------------------------------------------------
(* Properties.                                                             *)

\* A paused process takes at most one more trigger, the one it was already
\* waiting for or the one of a single step, whichever of the reads of
\* processinfo_loopstep the pause falls between.
PauseHolds == CTRLval = PAUSE => sincePause <= 1

\* A loop never does more than loopcntMax iterations; one that nobody has asked to
\* end does them all, or all but one when its last wait has timed out.
EndsByCount ==
  LET n == Iterations(start.loopcntMax)
  IN /\ start.loopcntMax # -1 => loopcnt <= n
     /\ pc = "done" /\ ~exitAsked =>
          /\ start.loopcntMax # -1
          /\ loopcnt = n \/ (loopcnt = n - 1 /\ triggerstatus = "TIMEDOUT")

\* "cumulative missed frames": with the frames taken from a counter, or with the
\* posts still to be taken, they are no more than the frames written; and with
\* semaphores each trigger is paid for by a post or by a signal.  A post that is
\* drained is counted as missed, and may be the trigger as well.
FramesAreCounted ==
  nswitches = 0 =>
    CASE triggermode \in CounterModes -> cumul + received <= cnt0
      [] triggermode = "SEMAPHORE" -> /\ cumul + semval <= cnt0
                                      /\ received + semval <= cnt0 + nsignals
      [] OTHER -> cumul <= cnt0

\* The loop waits for a counter that does not move: nothing else wakes it.
Starved == pc = "poll" /\ Counter = triggerstreamcnt

\* A process that stays asked to end, and is not paused, ends, unless it waits
\* for a counter whose stream has no writer any more.
ExitEnds ==
  <>[](CTRLval = EXIT \/ (signal_INT /\ CTRLval # PAUSE)) => <>(pc = "done" \/ []Starved)

FramePending ==
  \/ triggermode \in CounterModes /\ Counter # triggerstreamcnt
  \/ triggermode = "SEMAPHORE" /\ semval > 0

\* A frame that has come is taken, unless the process is paused or ends.
FramesAreTaken == FramePending ~> (~FramePending \/ pc = "done" \/ CTRLval = PAUSE)
=============================================================================
