------------------------------- MODULE FpsConf -------------------------------
(***************************************************************************)
(* The configuration process of one FPS and the control loop that asks it  *)
(* to check parameters.                                                    *)
(*                                                                         *)
(* They share memory and no lock: a word of request bits (signal), a word  *)
(* of state bits (status), the parameter values, the number of errors      *)
(* found in them (conferrcnt) and their write permissions.  The conf       *)
(* process loops (FPS_CONFLOOP_START, function_parameter_FPCONFloopstep)   *)
(* and, when an update is requested, checks all parameters                 *)
(* (functionparameter_CheckParametersAll).  The control loop executes      *)
(* setval, confupdate, confwupdate, confstart and confstop one at a time.  *)
(*                                                                         *)
(* `signal |= x` is a load and a store; with WordsRace those of two        *)
(* processes interleave.  The parameters are one value, named by the rank  *)
(* of its setting; `judged` and `asked` are history.                       *)
(***************************************************************************)
EXTENDS Integers

CONSTANTS
  WordsRace,    \* may two updates of the signal word interleave?
  timercntmax,  \* polls of confwupdate before it gives up (10000)
  MaxCmds,      \* bound: commands executed by the control loop
  MaxRuns,      \* bound: starts and ends of the run process
  MaxDeaths     \* bound: interrupts and crashes of the conf process

ASSUME ConstantsAssumption ==
  /\ WordsRace \in BOOLEAN
  /\ timercntmax \in Nat /\ MaxCmds \in Nat /\ MaxRuns \in Nat /\ MaxDeaths \in Nat

VARIABLES
  signal,      \* request bits
  status,      \* state bits
  value,       \* the parameters: rank of their setting, and are they in their limits?
  conferrcnt,  \* errors found by the check (counted up to 1)
  writable,    \* WRITESTATUS of a parameter that may be set in CONF but not in RUN
  pc,          \* where the conf process stands
  prev_status, \* its copy of status (static)
  leaving,     \* CONFLOOP has been cleared in its localstatus
  sigint,      \* data.signal_INT of the conf process
  seen,        \* what the check has read
  launched,    \* an fpsconfstart line is typed in the tmux window
  runAlive,    \* is the process runpid alive?
  ctl,         \* where the control loop stands
  timercnt,    \* polls of confwupdate so far
  confWord, ctlWord,  \* the signal word each has loaded, or NoWord
  ncmds, nruns, ndeaths,
  judged,      \* history: rank of the last setting a check has reported on
  asked        \* history: rank of the setting confwupdate was called for

sharedVars == <<signal, status, value, conferrcnt, writable>>
confVars   == <<pc, prev_status, leaving, sigint, seen, confWord>>
ctlVars    == <<ctl, timercnt, ctlWord, ncmds, asked>>
envVars    == <<launched, runAlive, nruns, ndeaths>>
vars == <<sharedVars, confVars, ctlVars, envVars, judged>>

SignalBits == {"CONFRUN", "UPDATE", "CHECKED"}
StatusBits == {"CONF", "RUN", "CMDCONF", "CHECKOK"}
Words == SUBSET SignalBits
NoWord == {"none"}
Values == [rank : Nat, ok : BOOLEAN]

ConfUpdates == {"first", "claim", "changed", "take", "check4"}
CheckSteps  == {"check0", "check1", "check2", "check3", "check4"}
ConfLocs == {"off", "step", "compare", "pause", "update", "exit"} \cup ConfUpdates \cup CheckSteps

CtlUpdates == {"notify", "upd_checked", "w_checked", "w_update", "stop"}
CtlLocs == {"idle", "mark", "w_wait", "w_test"} \cup CtlUpdates

TypeOK ==
  /\ signal \in Words /\ status \in SUBSET StatusBits
  /\ value \in Values /\ seen \in Values
  /\ conferrcnt \in 0 .. 1 /\ writable \in BOOLEAN
  /\ pc \in ConfLocs /\ prev_status \in SUBSET StatusBits
  /\ leaving \in BOOLEAN /\ sigint \in BOOLEAN
  /\ launched \in BOOLEAN /\ runAlive \in BOOLEAN
  /\ ctl \in CtlLocs /\ timercnt \in 0 .. timercntmax + 1
  /\ confWord \in Words \cup {NoWord} /\ ctlWord \in Words \cup {NoWord}
  /\ ncmds \in 0 .. MaxCmds /\ nruns \in 0 .. MaxRuns /\ ndeaths \in 0 .. MaxDeaths
  /\ judged \in Nat /\ asked \in Nat

Init ==
  /\ signal = {} /\ status = {}
  /\ value = [rank |-> 0, ok |-> TRUE] /\ seen = value
  /\ conferrcnt = 0 /\ writable = TRUE
  /\ pc = "off" /\ prev_status = {} /\ leaving = FALSE /\ sigint = FALSE
  /\ launched = FALSE /\ runAlive = FALSE
  /\ ctl = "idle" /\ timercnt = 0
  /\ confWord = NoWord /\ ctlWord = NoWord
  /\ ncmds = 0 /\ nruns = 0 /\ ndeaths = 0
  /\ judged = 0 /\ asked = 0

\* The signal word after `|= on` and `&= ~off`, from the word that was loaded.
Rewritten(word, on, off) == ((IF WordsRace THEN word ELSE signal) \cup on) \ off

------------------------------------------------------------------------------
(* The conf process.                                                       *)

ConfLoads ==
  /\ WordsRace /\ pc \in ConfUpdates /\ confWord = NoWord
  /\ confWord' = signal
  /\ UNCHANGED <<sharedVars, pc, prev_status, leaving, sigint, seen, ctlVars, envVars, judged>>

\* It updates the signal word and goes on to location l.
ConfWrites(on, off, l) ==
  /\ WordsRace => confWord # NoWord
  /\ signal' = Rewritten(confWord, on, off)
  /\ confWord' = NoWord
  /\ pc' = l
  /\ UNCHANGED <<status, value, ctlVars, envVars>>

\* The shell of the tmux window starts it, with its static variables clear.
ConfStarts ==
  /\ launched /\ pc = "off"
  /\ launched' = FALSE
  /\ pc' = "first" /\ prev_status' = {} /\ leaving' = FALSE /\ sigint' = FALSE
  /\ UNCHANGED <<sharedVars, seen, confWord, ctlVars, runAlive, nruns, ndeaths, judged>>

\* Its first loop step requests an update, then claims the FPS.
ConfFirst ==
  /\ pc = "first"
  /\ ConfWrites({"UPDATE"}, {}, "claim")
  /\ UNCHANGED <<conferrcnt, writable, prev_status, leaving, sigint, seen, judged>>

ConfClaims ==
  /\ pc = "claim"
  /\ ConfWrites({"CONFRUN"}, {}, "step")
  /\ UNCHANGED <<conferrcnt, writable, prev_status, leaving, sigint, seen, judged>>

\* Fault: a process whose CONF status is set runs on.
RunsOnByStatus == "CONFRUN" \in signal \/ "CONF" \in status
RunsOn == "CONFRUN" \in signal

\* A loop step: an interrupt or a cleared CONFRUN ends the loop.
ConfSteps ==
  /\ pc = "step"
  /\ leaving' = (sigint \/ ~RunsOn)
  /\ IF RunsOn
     THEN /\ status' = (status \ {"RUN"}) \cup {"CONF"} \cup (IF runAlive THEN {"RUN"} ELSE {})
          /\ pc' = "compare"
          /\ UNCHANGED prev_status
     ELSE /\ prev_status' = status
          /\ pc' = "exit"
          /\ UNCHANGED status
  /\ UNCHANGED <<signal, value, conferrcnt, writable, sigint, seen, confWord, ctlVars, envVars,
                 judged>>

\* A status that has changed asks for an update.
ConfCompares ==
  /\ pc = "compare"
  /\ pc' = IF prev_status # status THEN "changed" ELSE "take"
  /\ UNCHANGED <<sharedVars, prev_status, leaving, sigint, seen, confWord, ctlVars, envVars,
                 judged>>

ConfRequests ==
  /\ pc = "changed"
  /\ ConfWrites({"UPDATE"}, {}, "take")
  /\ UNCHANGED <<conferrcnt, writable, prev_status, leaving, sigint, seen, judged>>

\* A requested update is taken before the check.
ConfTakes ==
  /\ pc = "take"
  /\ "UPDATE" \in signal \/ confWord # NoWord
  /\ ConfWrites({}, {"UPDATE"}, "update")
  /\ UNCHANGED <<conferrcnt, writable, prev_status, leaving, sigint, seen, judged>>

ConfIdles ==
  /\ pc = "take"
  /\ "UPDATE" \notin signal /\ confWord = NoWord
  /\ pc' = "pause"
  /\ UNCHANGED <<sharedVars, prev_status, leaving, sigint, seen, confWord, ctlVars, envVars,
                 judged>>

NextRound == IF leaving THEN "exit" ELSE "step"

\* Fault: the status is not remembered.
RememberedNever == {}
Remembered == status

\* After usleep(confwaitus) the step returns.
ConfReturns ==
  /\ pc \in {"pause", "update"}
  /\ prev_status' = Remembered
  /\ pc' = IF pc = "update" THEN "check0" ELSE NextRound
  /\ UNCHANGED <<sharedVars, leaving, sigint, seen, confWord, ctlVars, envVars, judged>>

\* functionparameter_CheckParametersAll: conferrcnt is cleared, ...
CheckBegins ==
  /\ pc = "check0"
  /\ pc' = "check1"
  /\ conferrcnt' = 0
  /\ UNCHANGED <<signal, status, value, writable, prev_status, leaving, sigint, seen, confWord,
                 ctlVars, envVars, judged>>

\* ... every parameter is checked, ...
CheckReads ==
  /\ pc = "check1"
  /\ pc' = "check2"
  /\ seen' = value
  /\ conferrcnt' = IF value.ok THEN 0 ELSE 1
  /\ UNCHANGED <<signal, status, value, writable, prev_status, leaving, sigint, confWord,
                 ctlVars, envVars, judged>>

\* ... the verdict is reported, ...
CheckReports ==
  /\ pc = "check2"
  /\ pc' = "check3"
  /\ conferrcnt' = IF seen.ok THEN 0 ELSE 1
  /\ status' = IF seen.ok THEN status \cup {"CHECKOK"} ELSE status \ {"CHECKOK"}
  /\ judged' = seen.rank
  /\ UNCHANGED <<signal, value, writable, prev_status, leaving, sigint, seen, confWord, ctlVars,
                 envVars>>

\* Fault: the permissions are those of a stopped run.
PermittedAlways == TRUE
Permitted == "RUN" \notin status

\* ... the write permissions follow CONF and RUN, ...
CheckPermits ==
  /\ pc = "check3"
  /\ pc' = "check4"
  /\ writable' = Permitted
  /\ UNCHANGED <<signal, status, value, conferrcnt, prev_status, leaving, sigint, seen, confWord,
                 ctlVars, envVars, judged>>

\* Fault: the check is not answered.
AnsweredNever == {}
\* Fault: the update is only marked as taken when it is done.
AnsweredBoth == {"CHECKED", "UPDATE"}
Answered == {"CHECKED"}

\* ... and CHECKED is cleared.
CheckEnds ==
  /\ pc = "check4"
  /\ ConfWrites({}, Answered, NextRound)
  /\ UNCHANGED <<conferrcnt, writable, prev_status, leaving, sigint, seen, judged>>

\* function_parameter_FPCONFexit
ConfExits ==
  /\ pc = "exit"
  /\ pc' = "off"
  /\ status' = status \ {"CMDCONF"}
  /\ UNCHANGED <<signal, value, conferrcnt, writable, prev_status, leaving, sigint, seen, confWord,
                 ctlVars, envVars, judged>>

ConfLoop ==
  \/ ConfLoads \/ ConfFirst \/ ConfClaims
  \/ ConfSteps \/ ConfCompares \/ ConfRequests \/ ConfTakes \/ ConfIdles \/ ConfReturns
  \/ CheckBegins \/ CheckReads \/ CheckReports \/ CheckPermits \/ CheckEnds
  \/ ConfExits

------------------------------------------------------------------------------
(* The control loop.                                                       *)

CtlLoads ==
  /\ WordsRace /\ ctl \in CtlUpdates /\ ctlWord = NoWord
  /\ ctlWord' = signal
  /\ UNCHANGED <<sharedVars, confVars, ctl, timercnt, ncmds, asked, envVars, judged>>

CtlWrites(on, off, l) ==
  /\ WordsRace => ctlWord # NoWord
  /\ signal' = Rewritten(ctlWord, on, off)
  /\ ctlWord' = NoWord
  /\ ctl' = l
  /\ UNCHANGED <<status, value, conferrcnt, writable, confVars, timercnt, ncmds, asked, envVars,
                 judged>>

Executes ==
  /\ ctl = "idle" /\ ncmds < MaxCmds
  /\ ncmds' = ncmds + 1
  /\ UNCHANGED <<signal, status, conferrcnt, writable, confVars, ctlWord, runAlive, nruns,
                 ndeaths, judged>>

\* setval writes the value, then requests an update.
Setval(ok) ==
  /\ Executes
  /\ value' = [rank |-> value.rank + 1, ok |-> ok]
  /\ ctl' = "notify"
  /\ UNCHANGED <<timercnt, asked, launched>>

Confupdate ==
  /\ Executes
  /\ ctl' = "upd_checked"
  /\ UNCHANGED <<value, timercnt, asked, launched>>

ConfupdateSetsChecked == ctl = "upd_checked" /\ CtlWrites({"CHECKED"}, {}, "notify")
Notify == ctl = "notify" /\ CtlWrites({"UPDATE"}, {}, "idle")

\* confwupdate requests an update, ...
Confwupdate ==
  /\ Executes
  /\ timercnt' = 0 /\ asked' = value.rank
  /\ ctl' = "w_checked"
  /\ UNCHANGED <<value, launched>>

WaiterSetsChecked == ctl = "w_checked" /\ CtlWrites({"CHECKED"}, {}, "w_update")
WaiterSetsUpdate  == ctl = "w_update" /\ CtlWrites({"UPDATE"}, {}, "w_wait")

\* ... polls until CHECKED is cleared or its time is over, ...
WaiterPolls ==
  /\ ctl = "w_wait"
  /\ timercnt' = timercnt + 1
  /\ ctl' = IF "CHECKED" \in signal /\ timercnt < timercntmax THEN "w_wait" ELSE "w_test"
  /\ UNCHANGED <<sharedVars, confVars, ctlWord, ncmds, asked, envVars, judged>>

OutOfTime == timercnt > timercntmax

\* Fault: every try has the whole time.
TimeSpentOnTry == 0
TimeSpent == timercnt

\* ... and starts again while errors are reported and time is left.
WaiterTests ==
  /\ ctl = "w_test"
  /\ ctl' = IF conferrcnt = 0 \/ OutOfTime THEN "idle" ELSE "w_checked"
  /\ timercnt' = TimeSpent
  /\ UNCHANGED <<sharedVars, confVars, ctlWord, ncmds, asked, envVars, judged>>

\* functionparameter_CONFstart types the command, marks the status and requests an update.
Confstart ==
  /\ Executes
  /\ launched' = TRUE
  /\ ctl' = "mark"
  /\ UNCHANGED <<value, timercnt, asked>>

ConfstartMarks ==
  /\ ctl = "mark"
  /\ status' = status \cup {"CMDCONF"}
  /\ ctl' = "notify"
  /\ UNCHANGED <<signal, value, conferrcnt, writable, confVars, timercnt, ctlWord, ncmds, asked,
                 envVars, judged>>

\* functionparameter_CONFstop
Confstop ==
  /\ Executes
  /\ ctl' = "stop"
  /\ UNCHANGED <<value, timercnt, asked, launched>>

ConfstopClears == ctl = "stop" /\ CtlWrites({}, {"CONFRUN"}, "idle")

CtlBegins ==
  \/ \E ok \in BOOLEAN : Setval(ok)
  \/ Confupdate \/ Confwupdate \/ Confstart \/ Confstop

CtlGoesOn ==
  \/ CtlLoads \/ Notify \/ ConfupdateSetsChecked
  \/ WaiterSetsChecked \/ WaiterSetsUpdate \/ WaiterPolls \/ WaiterTests
  \/ ConfstartMarks \/ ConfstopClears

------------------------------------------------------------------------------
(* The environment.                                                        *)

RunChanges ==
  /\ nruns < MaxRuns
  /\ nruns' = nruns + 1
  /\ runAlive' = ~runAlive
  /\ UNCHANGED <<sharedVars, confVars, ctlVars, launched, ndeaths, judged>>

ConfDies ==
  /\ pc # "off" /\ ndeaths < MaxDeaths
  /\ ndeaths' = ndeaths + 1
  /\ UNCHANGED <<sharedVars, prev_status, leaving, seen, ctlVars, launched, runAlive, nruns, judged>>

\* A C-c is only recorded; a SIGKILL ends the process where it stands.
ConfInterrupted == ConfDies /\ sigint' = TRUE /\ UNCHANGED <<pc, confWord>>
ConfKilled      == ConfDies /\ pc' = "off" /\ confWord' = NoWord /\ UNCHANGED sigint

Next ==
  \/ ConfStarts \/ ConfLoop
  \/ CtlBegins \/ CtlGoesOn
  \/ RunChanges \/ ConfInterrupted \/ ConfKilled

Spec == Init /\ [][Next]_vars

\* The loops run on: neither has a wait that the other could prolong.
FairSpec == Spec /\ WF_vars(ConfStarts) /\ WF_vars(ConfLoop) /\ WF_vars(CtlGoesOn)

------------------------------------------------------------------------------
(* Properties.                                                             *)

(* A setting that no check has reported on is not forgotten while the conf *)
(* process lives: an update is requested or about to be, or a check that   *)
(* will read the setting has been taken on.                                *)
NothingForgotten ==
  pc # "off" /\ value.rank > judged =>
    \/ "UPDATE" \in signal \/ ctl = "notify"
    \/ pc \in {"first", "update", "check0", "check1"}
    \/ pc = "check2" /\ seen.rank = value.rank

(* CHECKED stands for a check that is still to end: while no confupdate or *)
(* confwupdate is half written, it is only set if an update is requested   *)
(* or taken.                                                               *)
CheckedIsPending ==
  pc # "off" /\ "CHECKED" \in signal /\ ctl \notin {"notify", "w_update"} =>
    "UPDATE" \in signal \/ pc \in {"first", "update"} \cup CheckSteps

(* Every setting, or a later one, is judged by a check, whatever the check *)
(* in progress when it was made, unless the conf process ends.             *)
EverySettingIsJudged ==
  \A n \in 1 .. MaxCmds : value.rank >= n ~> (judged >= n \/ pc = "off")

(* The conf process comes to rest: its own writes to the status do not     *)
(* make it request updates for ever.                                       *)
Quiesces == <>[](pc \notin CheckSteps)

(* The write permission follows the run process, which the conf process    *)
(* only polls.                                                             *)
WritableFollowsRun == <>[](pc # "off" => writable = ~runAlive)

(* A cleared CONFRUN ends a conf process that has begun its loop.          *)
StopIsHonored ==
  "CONFRUN" \notin signal /\ pc \notin {"first", "claim"} ~> pc = "off"

(* confwupdate, which holds up every queue, ends whatever the conf process *)
(* answers, if it answers at all.                                          *)
ConfwupdateReturns ==
  ctl \in {"w_checked", "w_update", "w_wait", "w_test"} ~> ctl = "idle"

(* "Toggles to 0 when update completed": a confwupdate that returns in its *)
(* time and with no error has waited for a check of the parameters it was  *)
(* called for.                                                             *)
ConfwupdateIsFresh ==
  [][ctl = "w_test" /\ ctl' = "idle" /\ ~OutOfTime => judged >= asked]_vars
==============================================================================
