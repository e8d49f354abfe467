------------------------- MODULE ProcinfoLoop_proofs -------------------------
(***************************************************************************)
(* Type correctness of ProcinfoLoop, and its three safety properties, each *)
(* from an invariant on where the loop stands.                             *)
(***************************************************************************)
EXTENDS ProcinfoLoop, TLAPS

(* No process starts with a trigger on cnt1.                               *)
NoSlices == \A s \in Starts : s.mode # "CNT1"

(* A counter is a number.                                                  *)
LEMMA CounterType ==
  ASSUME NEW mode, NEW n \in Nat
  PROVE  CounterOf(mode, n) \in Nat
<1>1. n % NBslices \in Nat
  BY ConstantsAssumption
<1> QED  BY <1>1 DEF CounterOf

(* What a cumulated count is reduced to.                                   *)
LEMMA CumulType ==
  ASSUME NEW n \in Int
  PROVE  n % CUMUL_MOD \in 0 .. CUMUL_MOD - 1
BY ConstantsAssumption

LEMMA SmallCumul ==
  ASSUME NEW n \in 0 .. MaxFrames
  PROVE  n % CUMUL_MOD = n
BY ConstantsAssumption

(* The settings of a process are settings.                                 *)
LEMMA StartType ==
  ASSUME NEW s \in Starts
  PROVE  /\ s \in Settings
         /\ s.mode \in TriggerModes /\ s.loopcntMax \in Int /\ s.fps \in BOOLEAN
         /\ s.cnt0 \in 0 .. MaxFrames /\ s.posts \in 0 .. SEMAPHORE_MAXVAL
         /\ s.posts <= s.cnt0
         /\ s.fps => s.sem
BY ConstantsAssumption DEF Settings

------------------------------------------------------------------------------

(* A store of the control value keeps its type.                            *)
LEMMA SetsTyped ==
  ASSUME TypeOK, NEW v \in CtrlValues, SetsCTRLval(v)
  PROVE  CTRLval' \in CtrlValues /\ sincePause' \in Nat
BY DEF SetsCTRLval, TypeOK

LEMMA MayPauseTyped ==
  ASSUME TypeOK, MayPause
  PROVE  CTRLval' \in CtrlValues /\ sincePause' \in Nat
BY SetsTyped DEF MayPause, TypeOK, CtrlValues, PAUSE

LEMMA TakesTyped ==
  ASSUME TypeOK, Takes
  PROVE  received' \in Nat /\ sincePause' \in Nat /\ triggerstatus' = "RECEIVED"
         /\ pc' = "exec_start"
BY DEF Takes, TypeOK

(* Each action of the loop preserves the types.                            *)
LEMMA LoopTyped ==
  ASSUME TypeOK, Loop
  PROVE  TypeOK'
<1> USE DEF NotTheOthers, streamVars, askVars, sigVars
<1>c. Counter \in Nat
  BY CounterType DEF Counter, TypeOK
<1>1. CASE LeavesPause
  BY <1>1 DEF LeavesPause, Goes, ctrlVars, TypeOK, Locs
<1>2. CASE TestsSingle
  BY <1>2 DEF TestsSingle, Goes, ctrlVars, TypeOK, Locs
<1>3. CASE StoresPause
  <2>1. CTRLval' \in CtrlValues /\ sincePause' \in Nat
    BY <1>3, SetsTyped DEF StoresPause, CtrlValues, PAUSE
  <2> QED  BY <1>3, <2>1 DEF StoresPause, Goes, TypeOK, Locs
<1>4. CASE TestsExit
  <2>1. loopOK' \in BOOLEAN
    BY <1>4 DEF TestsExit
  <2> QED  BY <1>4, <2>1 DEF TestsExit, ctrlVars, TypeOK, Locs
<1>5. CASE Waits
  <2>1. CASE triggermode = "IMMEDIATE"
    BY <1>5, <2>1, TakesTyped DEF Waits, TypeOK, Locs
  <2>2. CASE triggermode = "DELAY"
    BY <1>5, <2>2, TakesTyped DEF Waits, TypeOK, Locs
  <2>3. CASE triggermode \notin {"IMMEDIATE", "DELAY"}
    BY <1>5, <2>3 DEF Waits, TypeOK, Locs
  <2> QED  BY <2>1, <2>2, <2>3
<1>6. CASE PollEnds
  BY <1>6 DEF PollEnds, Goes, ctrlVars, TypeOK, Locs
<1>7. CASE CountsMissed
  BY <1>7, <1>c DEF CountsMissed, ctrlVars, TypeOK, Locs
<1>8. CASE UpdatesCount
  <2>1. cumul' \in 0 .. CUMUL_MOD - 1
    BY <1>8, CumulType DEF UpdatesCount, TypeOK
  <2> QED  BY <1>8, <1>c, <2>1, TakesTyped DEF UpdatesCount, NextCount, TypeOK, Locs
<1>9. CASE Drains
  <2>1. semval' \in 0 .. SEMAPHORE_MAXVAL /\ missed' \in Int
    BY <1>9, ConstantsAssumption DEF Drains, TypeOK
  <2> QED  BY <1>9, <2>1 DEF Drains, ctrlVars, TypeOK
<1>10. CASE Drained
  <2>1. CASE missed = 0
    BY <1>10, <2>1 DEF Drained, TypeOK, Locs
  <2>2. CASE missed # 0
    <3>1. cumul' \in 0 .. CUMUL_MOD - 1
      BY <1>10, <2>2, CumulType DEF Drained, TypeOK
    <3> QED  BY <1>10, <2>2, <3>1, TakesTyped DEF Drained, TypeOK, Locs
  <2> QED  BY <2>1, <2>2
<1>11. CASE Timedwait
  <2>1. semval' \in 0 .. SEMAPHORE_MAXVAL
    BY <1>11, ConstantsAssumption DEF Timedwait, TypeOK
  <2> QED  BY <1>11, <2>1, TakesTyped DEF Timedwait, TypeOK, Locs
<1>12. CASE TimesOut
  BY <1>12 DEF TimesOut, NextRound, ctrlVars, TypeOK, Locs
<1>13. CASE ExecStart
  BY <1>13, MayPauseTyped DEF ExecStart, Goes, TypeOK, Locs
<1>14. CASE ExecEnd
  <2>1. triggermode' \in TriggerModes
    BY <1>14 DEF ExecEnd, TypeOK
  <2> QED  BY <1>14, <2>1, MayPauseTyped DEF ExecEnd, NextRound, TypeOK, Locs
<1> QED
  BY <1>1, <1>2, <1>3, <1>4, <1>5, <1>6, <1>7, <1>8, <1>9, <1>10, <1>11, <1>12, <1>13, <1>14
     DEF Loop

(* And each action of the others.                                          *)
LEMMA EnvironmentTyped ==
  ASSUME TypeOK, Environment
  PROVE  TypeOK'
<1> USE ConstantsAssumption DEF NotTheLoop, loopVars, streamVars, askVars, sigVars, ctrlVars
<1>1. ASSUME NEW k \in {"p", "c", "s", "e"}, Key(k)
      PROVE  TypeOK'
  <2>1. KeyValue(k) \in CtrlValues
    BY <1>1 DEF KeyValue, CtrlValues, RUN, PAUSE, INCR, EXIT, NOCOMPUTE, TypeOK
  <2>2. CTRLval' \in CtrlValues /\ sincePause' \in Nat
    BY <1>1, <2>1, SetsTyped DEF Key
  <2>3. exitAsked' \in BOOLEAN /\ nkeys' \in 0 .. MaxKeys
    BY <1>1 DEF Key, TypeOK
  <2> QED  BY <1>1, <2>2, <2>3 DEF Key, TypeOK
<1>2. ASSUME NEW m \in TriggerModes, SwitchesMode(m)
      PROVE  TypeOK'
  BY <1>2 DEF SwitchesMode, TypeOK
<1>3. CASE WriterCounts
  BY <1>3 DEF WriterCounts, TypeOK
<1>4. CASE WriterPosts
  <2>1. semval' = Posted /\ writing' \in BOOLEAN
    BY <1>4 DEF WriterPosts
  <2>2. semval \in 0 .. SEMAPHORE_MAXVAL /\ SEMAPHORE_MAXVAL \in Nat
    BY DEF TypeOK
  <2>3. semval' \in 0 .. SEMAPHORE_MAXVAL
    BY <2>1, <2>2 DEF Posted
  <2> QED  BY <1>4, <2>1, <2>3 DEF WriterPosts, TypeOK
<1>5. ASSUME NEW int \in BOOLEAN, Signal(int)
      PROVE  TypeOK'
  <2>1. signal_INT' \in BOOLEAN /\ exitAsked' \in BOOLEAN /\ nsignals' \in 0 .. MaxSignals
    BY <1>5 DEF Signal, TypeOK
  <2>2. CASE pc = "timedwait"
    BY <1>5, <2>1, <2>2, TakesTyped DEF Signal, TypeOK, Locs
  <2>3. CASE pc # "timedwait"
    BY <1>5, <2>1, <2>3 DEF Signal, TypeOK
  <2> QED  BY <2>2, <2>3
<1> QED  BY <1>1, <1>2, <1>3, <1>4, <1>5 DEF Environment

LEMMA InitTyped == Init => TypeOK
<1> SUFFICES ASSUME Init PROVE TypeOK
  OBVIOUS
<1>1. start \in Starts /\ start.cnt0 \in 0 .. MaxFrames /\ start.posts \in 0 .. SEMAPHORE_MAXVAL
      /\ start.mode \in TriggerModes
  BY StartType DEF Init
<1>2. triggermode \in TriggerModes
  BY <1>1 DEF Init, TriggerModeAtStart, TriggerModes
<1>3. triggerstreamcnt \in Nat
  <2>1. CounterOf(start.mode, start.cnt0) \in Nat
    BY <1>1, CounterType
  <2> QED  BY <1>1, <2>1 DEF Init, CounterAtStart
<1>4. CTRLval \in CtrlValues /\ pc \in Locs
  BY DEF Init, CtrlValues, RUN, Locs
<1>5. /\ cumul \in 0 .. CUMUL_MOD - 1 /\ semval \in 0 .. SEMAPHORE_MAXVAL /\ cnt0 \in 0 .. MaxFrames
      /\ nkeys \in 0 .. MaxKeys /\ nsignals \in 0 .. MaxSignals /\ nswitches \in 0 .. MaxSwitches
  BY <1>1, ConstantsAssumption DEF Init
<1>6. /\ fpsmode \in TriggerModes /\ loopcnt \in Nat /\ missed \in Int
      /\ received \in Nat /\ sincePause \in Nat
      /\ triggerstatus \in {"NONE", "WAITING", "RECEIVED", "TIMEDOUT"}
  BY <1>1 DEF Init
<1>7. loopOK \in BOOLEAN /\ writing \in BOOLEAN /\ signal_INT \in BOOLEAN /\ exitAsked \in BOOLEAN
  BY DEF Init
<1> QED  BY <1>1, <1>2, <1>3, <1>4, <1>5, <1>6, <1>7 DEF TypeOK

(* Every reachable state of the loop is well typed: whatever the keys,     *)
(* signals, frames and timeouts, the control value is one of the five the  *)
(* code knows and the semaphore keeps to its limit.                        *)
THEOREM LoopTypeCorrect == Spec => []TypeOK
<1>1. Init => TypeOK
  BY InitTyped
<1>2. TypeOK /\ [Next]_vars => TypeOK'
  <2> SUFFICES ASSUME TypeOK, [Next]_vars PROVE TypeOK'
    OBVIOUS
  <2>1. CASE Loop
    BY <2>1, LoopTyped
  <2>2. CASE Environment
    BY <2>2, EnvironmentTyped
  <2>3. CASE UNCHANGED vars
    BY <2>3 DEF TypeOK, vars, loopVars, streamVars, askVars, sigVars, ctrlVars
  <2> QED  BY <2>1, <2>2, <2>3 DEF Next
<1> QED  BY <1>1, <1>2, PTL DEF Spec

------------------------------------------------------------------------------
(* A pause.                                                                *)

(* A process that has taken its trigger since the pause is past the wait,  *)
(* and can only come back to the loop step, where it spins.                *)
PauseInv ==
  CTRLval = PAUSE =>
    /\ sincePause <= 1
    /\ sincePause = 1 => pc \in {"exec_start", "exec_end", "loopstep", "done"}

(* A store of the control value can only clear the count.                  *)
LEMMA SetsKeepsPause ==
  ASSUME TypeOK, PauseInv, NEW v \in CtrlValues, SetsCTRLval(v),
         pc' = pc \/ pc' \in {"exec_start", "exec_end", "loopstep", "done"}
                  \/ pc \notin {"exec_start", "exec_end", "loopstep", "done"}
  PROVE  PauseInv'
BY DEF SetsCTRLval, PauseInv, TypeOK, PAUSE

LEMMA TakesKeepsPause ==
  ASSUME TypeOK, PauseInv, Takes, CTRLval' = CTRLval,
         pc \notin {"exec_start", "exec_end", "loopstep", "done"}
  PROVE  PauseInv'
BY DEF Takes, PauseInv, TypeOK

LEMMA PauseKept ==
  ASSUME TypeOK, PauseInv, [Next]_vars
  PROVE  PauseInv'
<1> USE DEF NotTheOthers, NotTheLoop, ctrlVars
<1>t. ASSUME UNCHANGED ctrlVars, pc' = pc \/ pc' = "loopstep" \/ pc' = "done"
                              \/ pc \notin {"exec_start", "exec_end", "loopstep", "done"}
      PROVE  PauseInv'
  BY <1>t DEF PauseInv
<1>1. CASE LeavesPause
  BY <1>1 DEF LeavesPause, Spins, PauseInv
<1>2. CASE TestsSingle \/ PollEnds \/ CountsMissed \/ TestsExit \/ Drains \/ TimesOut
  BY <1>2, <1>t DEF TestsSingle, PollEnds, CountsMissed, TestsExit, Drains, TimesOut, Goes
<1>3. CASE StoresPause
  BY <1>3, SetsKeepsPause DEF StoresPause, Goes, CtrlValues, PAUSE
<1>4. CASE Waits
  <2>1. CASE triggermode \in {"IMMEDIATE", "DELAY"}
    BY <1>4, <2>1, TakesKeepsPause DEF Waits
  <2>2. CASE triggermode \notin {"IMMEDIATE", "DELAY"}
    BY <1>4, <2>2, <1>t DEF Waits
  <2> QED  BY <2>1, <2>2
<1>5. CASE UpdatesCount \/ Timedwait
  BY <1>5, TakesKeepsPause DEF UpdatesCount, Timedwait
<1>6. CASE Drained
  <2>1. CASE missed = 0
    BY <1>6, <2>1, <1>t DEF Drained
  <2>2. CASE missed # 0
    BY <1>6, <2>2, TakesKeepsPause DEF Drained
  <2> QED  BY <2>1, <2>2
<1>7. CASE ExecStart \/ ExecEnd
  <2>1. pc' \in {"exec_start", "exec_end", "loopstep", "done"}
    BY <1>7 DEF ExecStart, ExecEnd, Goes, NextRound
  <2>2. PICK v \in CtrlValues : SetsCTRLval(v)
    BY <1>7 DEF ExecStart, ExecEnd, MayPause, TypeOK, CtrlValues, PAUSE
  <2> QED  BY <2>1, <2>2, SetsKeepsPause
<1>8. ASSUME NEW k \in {"p", "c", "s", "e"}, Key(k)
      PROVE  PauseInv'
  <2>1. KeyValue(k) \in CtrlValues
    BY <1>8 DEF KeyValue, CtrlValues, RUN, PAUSE, INCR, EXIT, NOCOMPUTE, TypeOK
  <2> QED  BY <1>8, <2>1, SetsKeepsPause DEF Key, loopVars
<1>9. ASSUME NEW m \in TriggerModes, SwitchesMode(m)
      PROVE  PauseInv'
  BY <1>9, <1>t DEF SwitchesMode, loopVars
<1>10. CASE WriterCounts \/ WriterPosts
  BY <1>10, <1>t DEF WriterCounts, WriterPosts, loopVars
<1>11. ASSUME NEW int \in BOOLEAN, Signal(int)
       PROVE  PauseInv'
  <2>1. CASE pc = "timedwait"
    BY <1>11, <2>1, TakesKeepsPause DEF Signal
  <2>2. CASE pc # "timedwait"
    BY <1>11, <2>2 DEF Signal, PauseInv, loopVars
  <2> QED  BY <2>1, <2>2
<1>12. CASE UNCHANGED vars
  BY <1>12, <1>t DEF vars, loopVars
<1> QED
  BY <1>1, <1>2, <1>3, <1>4, <1>5, <1>6, <1>7, <1>8, <1>9, <1>10, <1>11, <1>12
     DEF Next, Loop, Environment

(* A paused process takes at most one more trigger, in every trigger mode, *)
(* wherever the pause falls in the loop and whoever sets it.               *)
THEOREM PauseIsHeld == Spec => []PauseHolds
<1>1. Init => PauseInv
  BY DEF Init, PauseInv, RUN, PAUSE
<1>2. TypeOK /\ PauseInv /\ [Next]_vars => PauseInv'
  BY PauseKept
<1>3. PauseInv => PauseHolds
  BY DEF PauseInv, PauseHolds
<1> QED  BY <1>1, <1>2, <1>3, LoopTypeCorrect, PTL DEF Spec

------------------------------------------------------------------------------
(* The count of iterations.                                                *)

BeforeTest == {"loopstep", "single", "store", "exit"}

(* Before its test the loop has an iteration left; after the test it has   *)
(* one more after this one, or this is the last, or it has been asked to   *)
(* end.                                                                    *)
CountInv ==
  LET n == Iterations(start.loopcntMax)
      max == start.loopcntMax
  IN /\ (CTRLval = EXIT \/ signal_INT) => exitAsked
     /\ pc \in BeforeTest => (max # -1 => loopcnt < n)
     /\ pc \notin BeforeTest \cup {"done"} =>
          /\ max # -1 => loopcnt < n
          /\ loopOK /\ max # -1 => loopcnt < n - 1
          /\ ~loopOK /\ ~exitAsked => max # -1 /\ loopcnt = n - 1
     /\ EndsByCount

(* A step that leaves the count alone, asks for no exit, and stays on its  *)
(* side of the test.                                                       *)
LEMMA CountStays ==
  ASSUME TypeOK, CountInv, UNCHANGED <<start, loopcnt, loopOK>>,
         CTRLval' = EXIT \/ signal_INT' => exitAsked', exitAsked => exitAsked',
         pc' \in Locs, pc' = "done" => pc = "done",
         pc' = "done" => triggerstatus' = triggerstatus,
         pc \in BeforeTest <=> pc' \in BeforeTest, pc = "done" => pc' = "done"
  PROVE  CountInv'
BY DEF CountInv, EndsByCount, BeforeTest, TypeOK, Iterations

LEMMA CountKept ==
  ASSUME TypeOK, CountInv, [Next]_vars
  PROVE  CountInv'
<1> USE DEF NotTheOthers, NotTheLoop, ctrlVars, sigVars
<1>s. /\ start \in Starts /\ start.loopcntMax \in Int /\ loopcnt \in Nat
      /\ Iterations(start.loopcntMax) \in Nat
  BY StartType DEF TypeOK, Iterations
<1>x. exitAsked \in BOOLEAN /\ loopOK \in BOOLEAN /\ signal_INT \in BOOLEAN
  BY DEF TypeOK
<1>e. CTRLval = EXIT \/ signal_INT => exitAsked
  BY DEF CountInv
<1>1. CASE LeavesPause \/ TestsSingle
  BY <1>1, CountStays, <1>e DEF LeavesPause, TestsSingle, Goes, BeforeTest, Locs
<1>2. CASE StoresPause
  BY <1>2, CountStays, <1>e DEF StoresPause, SetsCTRLval, Goes, BeforeTest, Locs, PAUSE, EXIT
<1>3. CASE TestsExit
  <2>1. start.loopcntMax # -1 =>
          /\ loopcnt < Iterations(start.loopcntMax)
          /\ LastIteration <=> loopcnt = Iterations(start.loopcntMax) - 1
    BY <1>3, <1>s DEF TestsExit, CountInv, BeforeTest, LastIteration, Iterations
  <2>2. start.loopcntMax = -1 => ~LastIteration
    BY DEF LastIteration
  <2>3. loopOK' <=> ~(CTRLval = EXIT \/ signal_INT \/ LastIteration)
    BY <1>3 DEF TestsExit
  <2>4. pc' = "wait" /\ UNCHANGED <<start, loopcnt, exitAsked, CTRLval, signal_INT>>
    BY <1>3 DEF TestsExit
  <2>5. EndsByCount'
    BY <2>1, <2>4, <1>s DEF EndsByCount
  <2> QED  BY <2>1, <2>2, <2>3, <2>4, <2>5, <1>e, <1>s, <1>x DEF CountInv, BeforeTest
<1>4. CASE Waits \/ PollEnds \/ CountsMissed \/ UpdatesCount \/ Drains \/ Drained \/ Timedwait
  <2>1. /\ pc \notin BeforeTest \cup {"done"} /\ pc' \in Locs \ (BeforeTest \cup {"done"})
        /\ UNCHANGED <<start, loopcnt, loopOK, exitAsked, CTRLval, signal_INT>>
    BY <1>4 DEF Waits, PollEnds, CountsMissed, UpdatesCount, Drains, Drained, Timedwait, Takes,
                Goes, BeforeTest, Locs
  <2> QED  BY <2>1, CountStays, <1>e
<1>5. CASE TimesOut
  <2>1. /\ pc = "timedwait" /\ triggerstatus' = "TIMEDOUT"
        /\ pc' = IF loopOK THEN "loopstep" ELSE "done"
        /\ UNCHANGED <<start, loopcnt, loopOK, exitAsked, CTRLval, signal_INT>>
    BY <1>5 DEF TimesOut, NextRound
  <2> QED  BY <2>1, <1>e, <1>s, <1>x DEF CountInv, EndsByCount, BeforeTest
<1>6. CASE ExecStart
  <2>1. CTRLval' = CTRLval \/ CTRLval' = PAUSE
    BY <1>6 DEF ExecStart, MayPause, SetsCTRLval
  <2> QED  BY <1>6, <2>1, CountStays, <1>e DEF ExecStart, Goes, BeforeTest, Locs, PAUSE, EXIT
<1>7. CASE ExecEnd
  <2>1. CTRLval' = CTRLval \/ CTRLval' = PAUSE
    BY <1>7 DEF ExecEnd, MayPause, SetsCTRLval
  <2>2. /\ pc = "exec_end" /\ loopcnt' = loopcnt + 1
        /\ pc' = IF loopOK THEN "loopstep" ELSE "done"
        /\ UNCHANGED <<start, loopOK, exitAsked, signal_INT>>
    BY <1>7 DEF ExecEnd, NextRound
  <2>3. CTRLval' = EXIT \/ signal_INT' => exitAsked'
    BY <2>1, <2>2, <1>e DEF PAUSE, EXIT
  <2> QED  BY <2>2, <2>3, <1>s, <1>x DEF CountInv, EndsByCount, BeforeTest
<1>8. ASSUME NEW k \in {"p", "c", "s", "e"}, Key(k)
      PROVE  CountInv'
  <2>1. KeyValue(k) = EXIT => k = "e" \/ CTRLval = EXIT
    BY <1>8 DEF KeyValue, RUN, PAUSE, INCR, EXIT, NOCOMPUTE
  <2>2. CTRLval' = KeyValue(k) /\ exitAsked' = (exitAsked \/ k = "e") /\ signal_INT' = signal_INT
    BY <1>8 DEF Key, SetsCTRLval
  <2>3. (exitAsked => exitAsked') /\ (CTRLval' = EXIT \/ signal_INT' => exitAsked')
    BY <2>1, <2>2, <1>e, ZenonT(30)
  <2>4. UNCHANGED <<start, loopcnt, loopOK, pc, triggerstatus>>
    BY <1>8 DEF Key, loopVars
  <2> QED  BY <2>3, <2>4, CountStays DEF TypeOK
<1>9. ASSUME NEW m \in TriggerModes, SwitchesMode(m)
      PROVE  CountInv'
  BY <1>9, CountStays, <1>e DEF SwitchesMode, loopVars, TypeOK
<1>10. CASE WriterCounts \/ WriterPosts
  BY <1>10, CountStays, <1>e DEF WriterCounts, WriterPosts, loopVars, TypeOK
<1>11. ASSUME NEW int \in BOOLEAN, Signal(int)
       PROVE  CountInv'
  <2>1. /\ CTRLval' = EXIT \/ signal_INT' => exitAsked'
        /\ exitAsked => exitAsked'
        /\ UNCHANGED <<start, loopcnt, loopOK>> /\ pc # "done"
    BY <1>11, <1>e DEF Signal, loopVars
  <2>2. CASE pc = "timedwait"
    BY <1>11, <2>1, <2>2, CountStays DEF Signal, Takes, BeforeTest, Locs
  <2>3. CASE pc # "timedwait"
    BY <1>11, <2>1, <2>3, CountStays DEF Signal, loopVars, TypeOK
  <2> QED  BY <2>2, <2>3
<1>12. CASE UNCHANGED vars
  BY <1>12, CountStays, <1>e DEF vars, loopVars, TypeOK
<1> QED
  BY <1>1, <1>2, <1>3, <1>4, <1>5, <1>6, <1>7, <1>8, <1>9, <1>10, <1>11, <1>12
     DEF Next, Loop, Environment

LEMMA InitCounts == Init => CountInv
<1> SUFFICES ASSUME Init PROVE CountInv
  OBVIOUS
<1>1. start.loopcntMax \in Int
  BY StartType DEF Init
<1> QED
  BY <1>1 DEF Init, CountInv, EndsByCount, Iterations, BeforeTest, RUN, EXIT

(* A loop never does more than loopcntMax iterations, and one that nobody  *)
(* has asked to end does them all, or all but one when its last wait has   *)
(* timed out: that iteration is skipped, not retried.                      *)
THEOREM LoopEndsByCount == Spec => []EndsByCount
<1>1. TypeOK /\ CountInv /\ [Next]_vars => CountInv'
  BY CountKept
<1>2. CountInv => EndsByCount
  BY DEF CountInv
<1> QED  BY InitCounts, <1>1, <1>2, LoopTypeCorrect, PTL DEF Spec

------------------------------------------------------------------------------
(* The frames.                                                             *)

(* There is room for the post of a frame that is counted.                  *)
LEMMA PostFits ==
  ASSUME NEW c \in Int, NEW v \in Int, NEW w \in Int, NEW m \in Int, NEW n \in Int,
         c + v + m + 1 <= n, w <= v + 1
  PROVE  c + w + m + 0 <= n
OBVIOUS

(* While the mode is the one of the start and is not cnt1: the loop only   *)
(* waits the way of its mode; a counter read later is not smaller; what    *)
(* has been drained was posted after it was counted.                       *)
FramesInv ==
  nswitches = 0 =>
    /\ fpsmode = start.mode /\ triggermode = TriggerModeAtStart(start)
    /\ pc \in {"poll", "count", "update"} => triggermode = "CNT0"
    /\ pc \in {"drain", "timedwait"} => triggermode = "SEMAPHORE"
    /\ triggermode = "CNT0" =>
         /\ cumul + received <= triggerstreamcnt /\ triggerstreamcnt <= cnt0
         /\ pc = "count" => triggerstreamcnt < cnt0
         /\ pc = "update" => missed >= 0 /\ triggerstreamcnt + missed < cnt0
    /\ triggermode = "SEMAPHORE" =>
         /\ pc = "drain" => missed >= 0
         /\ cumul + semval + (IF pc = "drain" THEN missed ELSE 0) + (IF writing THEN 1 ELSE 0)
              <= cnt0
    /\ triggermode \in {"IMMEDIATE", "DELAY"} => cumul = 0

(* The mode of the start, with no cnt1.                                    *)
LEMMA ModeStays ==
  ASSUME NoSlices, TypeOK, FramesInv, nswitches = 0
  PROVE  /\ triggermode \in {"IMMEDIATE", "DELAY", "CNT0", "SEMAPHORE"}
         /\ start.fps => fpsmode = triggermode
<1>1. start \in Starts /\ start.mode \in TriggerModes /\ start.mode # "CNT1"
      /\ (start.fps => start.sem)
  BY StartType DEF TypeOK, NoSlices
<1> QED  BY <1>1 DEF FramesInv, TriggerModeAtStart, TriggerModes

(* What follows the wait, or comes before it, does not matter to frames.   *)
LEMMA FramesStay ==
  ASSUME TypeOK, FramesInv, nswitches = 0,
         UNCHANGED <<start, fpsmode, nswitches, triggermode, triggerstreamcnt, cumul, received,
                     cnt0, semval, writing>>,
         pc' \notin {"poll", "count", "update", "drain", "timedwait"}
           \/ (pc' = pc /\ missed' = missed),
         pc = "drain" => missed >= 0
  PROVE  FramesInv'
BY DEF FramesInv, TypeOK

LEMMA FramesKeptByLoop ==
  ASSUME NoSlices, TypeOK, FramesInv, Loop, nswitches = 0
  PROVE  FramesInv'
<1> USE DEF NotTheOthers, streamVars, askVars
<1>m. /\ triggermode \in {"IMMEDIATE", "DELAY", "CNT0", "SEMAPHORE"}
      /\ start.fps => fpsmode = triggermode
  BY ModeStays
<1>t. /\ cnt0 \in Nat /\ cnt0 <= MaxFrames /\ MaxFrames \in Nat /\ semval \in Nat
      /\ missed \in Int /\ cumul \in Nat /\ received \in Nat /\ triggerstreamcnt \in Nat
      /\ writing \in BOOLEAN
  BY ConstantsAssumption DEF TypeOK
<1>d. pc = "drain" => missed >= 0
  BY DEF FramesInv
<1>c. triggermode = "CNT0" => Counter = cnt0
  BY DEF Counter, CounterOf
<1>1. CASE LeavesPause \/ TestsSingle \/ StoresPause \/ TestsExit \/ TimesOut \/ ExecStart
  <2>1. /\ UNCHANGED <<start, fpsmode, nswitches, triggermode, triggerstreamcnt, cumul, received,
                       cnt0, semval, writing>>
        /\ pc' \notin {"poll", "count", "update", "drain", "timedwait"}
    BY <1>1 DEF LeavesPause, TestsSingle, StoresPause, TestsExit, TimesOut, ExecStart, Goes,
                NextRound
  <2> QED  BY <2>1, <1>d, FramesStay
<1>2. CASE ExecEnd
  <2>1. /\ UNCHANGED <<start, fpsmode, nswitches, triggermode, triggerstreamcnt, cumul, received,
                       cnt0, semval, writing>>
        /\ pc' \notin {"poll", "count", "update", "drain", "timedwait"}
    BY <1>2, <1>m DEF ExecEnd, NextRound
  <2> QED  BY <2>1, <1>d, FramesStay
<1>3. CASE Waits
  <2>1. /\ pc = "wait" /\ missed' = 0
        /\ UNCHANGED <<start, fpsmode, nswitches, triggermode, cumul, cnt0, semval, writing>>
    BY <1>3 DEF Waits
  <2>2. CASE triggermode \in {"IMMEDIATE", "DELAY"}
    <3>1. pc' = "exec_start"
      BY <1>3, <2>2 DEF Waits, Takes
    <3> QED  BY <2>1, <2>2, <3>1 DEF FramesInv
  <2>3. CASE triggermode \in {"CNT0", "SEMAPHORE"}
    <3>1. /\ pc' = IF triggermode = "SEMAPHORE" THEN "drain" ELSE "poll"
          /\ UNCHANGED <<triggerstreamcnt, received>>
      BY <1>3, <2>3 DEF Waits
    <3> QED  BY <2>1, <2>3, <3>1, <1>t DEF FramesInv
  <2> QED  BY <2>2, <2>3, <1>m
<1>4. CASE PollEnds
  <2>1. /\ pc = "poll" /\ pc' = "count" /\ Counter # triggerstreamcnt
        /\ UNCHANGED <<start, fpsmode, nswitches, triggermode, triggerstreamcnt, cumul, received,
                       cnt0, semval, writing>>
    BY <1>4 DEF PollEnds, Goes
  <2> QED  BY <2>1, <1>c, <1>t DEF FramesInv
<1>5. CASE CountsMissed
  <2>1. /\ pc = "count" /\ pc' = "update" /\ missed' = Counter - triggerstreamcnt - 1
        /\ UNCHANGED <<start, fpsmode, nswitches, triggermode, triggerstreamcnt, cumul, received,
                       cnt0, semval, writing>>
    BY <1>5 DEF CountsMissed, ctrlVars
  <2> QED  BY <2>1, <1>c, <1>t DEF FramesInv
<1>6. CASE UpdatesCount
  <2>1. /\ pc = "update" /\ pc' = "exec_start" /\ triggerstreamcnt' = Counter
        /\ cumul' = (cumul + missed) % CUMUL_MOD /\ received' = received + 1
        /\ UNCHANGED <<start, fpsmode, nswitches, triggermode, cnt0, semval, writing>>
    BY <1>6 DEF UpdatesCount, NextCount, Takes
  <2>2. /\ triggermode = "CNT0" /\ cumul + received <= triggerstreamcnt
        /\ missed >= 0 /\ triggerstreamcnt + missed < cnt0
    BY <2>1 DEF FramesInv
  <2>3. cumul + missed \in 0 .. MaxFrames
    BY <2>2, <1>t
  <2>4. cumul' = cumul + missed
    BY <2>1, <2>3, SmallCumul
  <2> QED  BY <2>1, <2>2, <2>4, <1>c, <1>t DEF FramesInv
<1>7. CASE Drains
  <2>1. /\ pc = "drain" /\ pc' = "drain" /\ semval' = semval - 1 /\ missed' = missed + 1
        /\ UNCHANGED <<start, fpsmode, nswitches, triggermode, triggerstreamcnt, cumul, received,
                       cnt0, writing>>
    BY <1>7 DEF Drains
  <2> QED  BY <2>1, <1>t DEF FramesInv
<1>8. CASE Drained
  <2>1. /\ pc = "drain" /\ pc' \in {"timedwait", "exec_start"}
        /\ UNCHANGED <<start, fpsmode, nswitches, triggermode, triggerstreamcnt, cnt0, semval,
                       writing>>
        /\ cumul' = IF missed = 0 THEN cumul ELSE (cumul + missed) % CUMUL_MOD
    BY <1>8 DEF Drained, Takes
  <2>2. cumul + missed \in 0 .. MaxFrames
    BY <2>1, <1>t DEF FramesInv
  <2>3. cumul' = cumul + missed
    BY <2>1, <2>2, <1>t, SmallCumul
  <2> QED  BY <2>1, <2>3, <1>t DEF FramesInv
<1>9. CASE Timedwait
  <2>1. /\ pc = "timedwait" /\ pc' = "exec_start" /\ semval' = semval - 1
        /\ UNCHANGED <<start, fpsmode, nswitches, triggermode, triggerstreamcnt, cumul, cnt0,
                       writing>>
    BY <1>9 DEF Timedwait, Takes
  <2> QED  BY <2>1, <1>t DEF FramesInv
<1> QED
  BY <1>1, <1>2, <1>3, <1>4, <1>5, <1>6, <1>7, <1>8, <1>9 DEF Loop

LEMMA FramesKeptByOthers ==
  ASSUME NoSlices, TypeOK, FramesInv, Environment, nswitches = 0
  PROVE  FramesInv'
<1> USE DEF NotTheLoop, loopVars, streamVars, askVars, sigVars, ctrlVars
<1>t. cnt0 \in Nat /\ semval \in Nat /\ missed \in Int /\ cumul \in Nat /\ writing \in BOOLEAN
  BY ConstantsAssumption DEF TypeOK
<1>d. pc = "drain" => missed >= 0
  BY DEF FramesInv
<1>1. ASSUME NEW k \in {"p", "c", "s", "e"}, Key(k)
      PROVE  FramesInv'
  BY <1>1, <1>d, FramesStay DEF Key
<1>2. ASSUME NEW m \in TriggerModes, SwitchesMode(m)
      PROVE  FramesInv'
  BY <1>2 DEF SwitchesMode, FramesInv
<1>3. CASE WriterCounts
  <2>1. /\ cnt0' = cnt0 + 1 /\ ~writing /\ writing'
        /\ UNCHANGED <<start, fpsmode, nswitches, triggermode, triggerstreamcnt, cumul, received,
                       missed, semval, pc>>
    BY <1>3 DEF WriterCounts
  <2> QED  BY <2>1, <1>t DEF FramesInv, TypeOK
<1>4. CASE WriterPosts
  <2>1. /\ semval' \in {semval, semval + 1} /\ writing /\ ~writing'
        /\ UNCHANGED <<start, fpsmode, nswitches, triggermode, triggerstreamcnt, cumul, received,
                       missed, cnt0, pc>>
    BY <1>4 DEF WriterPosts, Posted
  <2>2. /\ (IF writing THEN 1 ELSE 0) = 1 /\ (IF writing' THEN 1 ELSE 0) = 0
        /\ semval' <= semval + 1 /\ semval' \in Nat
    BY <2>1, <1>t
  <2>3. CASE triggermode = "SEMAPHORE"
    <3>1. /\ triggermode' = triggermode /\ pc' = pc /\ missed' = missed /\ cumul' = cumul
          /\ cnt0' = cnt0
          /\ pc = "drain" => missed >= 0
      BY <2>1, <2>3 DEF FramesInv
    <3>i. /\ semval' \in Int /\ semval \in Int /\ cumul \in Int /\ missed \in Int /\ cnt0 \in Int
          /\ semval' <= semval + 1
      BY <2>2, <1>t
    <3> DEFINE drained == IF pc = "drain" THEN missed ELSE 0
    <3>2. drained \in Int /\ cumul + semval + drained + 1 <= cnt0
      BY <2>2, <2>3, <1>t DEF FramesInv
    <3>3. cumul + semval' + drained + 0 <= cnt0
      <4> HIDE DEF drained
      <4> QED  BY <3>2, <3>i, PostFits
    <3> QED  BY <2>1, <2>2, <2>3, <3>1, <3>3 DEF FramesInv
  <2>4. CASE triggermode # "SEMAPHORE"
    BY <2>1, <2>4 DEF FramesInv
  <2> QED  BY <2>3, <2>4
<1>5. ASSUME NEW int \in BOOLEAN, Signal(int)
      PROVE  FramesInv'
  <2>1. CASE pc = "timedwait"
    <3>1. /\ pc' = "exec_start"
          /\ UNCHANGED <<start, fpsmode, nswitches, triggermode, triggerstreamcnt, cumul, missed,
                         cnt0, semval, writing>>
      BY <1>5, <2>1 DEF Signal, Takes
    <3> QED  BY <2>1, <3>1, <1>t DEF FramesInv
  <2>2. CASE pc # "timedwait"
    BY <1>5, <2>2, <1>d, FramesStay DEF Signal
  <2> QED  BY <2>1, <2>2
<1> QED  BY <1>1, <1>2, <1>3, <1>4, <1>5 DEF Environment

LEMMA InitFrames == NoSlices /\ Init => FramesInv
<1> SUFFICES ASSUME NoSlices, Init PROVE FramesInv
  OBVIOUS
<1>1. /\ start \in Starts /\ start.mode # "CNT1" /\ start.mode \in TriggerModes
      /\ start.cnt0 \in Nat /\ start.posts \in Nat /\ start.posts <= start.cnt0
  BY StartType, ConstantsAssumption DEF Init, NoSlices
<1>2. triggermode = "CNT0" => triggerstreamcnt \in 0 .. cnt0
  BY <1>1 DEF Init, TriggerModeAtStart, CounterAtStart, CounterOf, CounterModes, TriggerModes
<1> QED  BY <1>1, <1>2 DEF Init, FramesInv

(* A trigger takes a post or a signal; what is drained gives one at most.   *)
Owed == IF pc = "drain" /\ missed > 0 THEN 1 ELSE 0
Unposted == IF writing THEN 1 ELSE 0

TriggersInv ==
  nswitches = 0 /\ triggermode = "SEMAPHORE" =>
    received + semval + Owed + Unposted <= cnt0 + nsignals

(* Nothing new is received, posted or owed.                                *)
LEMMA TriggersStay ==
  ASSUME TypeOK, TriggersInv,
         UNCHANGED <<triggermode, nswitches, received, semval, cnt0, nsignals, writing>>,
         pc' # "drain" \/ (pc' = pc /\ missed' = missed) \/ missed' = 0
  PROVE  TriggersInv'
<1>t. /\ received \in Nat /\ semval \in Nat /\ cnt0 \in Nat /\ nsignals \in Nat /\ missed \in Int
      /\ writing \in BOOLEAN
  BY ConstantsAssumption DEF TypeOK
<1>1. Owed' <= Owed /\ Owed' \in Nat /\ Owed \in Nat /\ Unposted' = Unposted /\ Unposted \in Nat
  BY <1>t DEF Owed, Unposted
<1> SUFFICES ASSUME nswitches = 0, triggermode = "SEMAPHORE"
             PROVE  received' + semval' + Owed' + Unposted' <= cnt0' + nsignals'
  BY DEF TriggersInv
<1>2. received + semval + Owed + Unposted <= cnt0 + nsignals
  BY DEF TriggersInv
<1>3. received + semval + Owed' + Unposted <= cnt0 + nsignals
  <2>1. PICK o \in Nat : o = Owed
    BY <1>1
  <2>2. PICK p \in Nat : p = Owed'
    BY <1>1
  <2>3. PICK w \in Nat : w = Unposted
    BY <1>1
  <2>4. p <= o /\ received + semval + o + w <= cnt0 + nsignals
    BY <1>1, <1>2, <2>1, <2>2, <2>3
  <2>5. received + semval + p + w <= cnt0 + nsignals
    BY <1>t, <2>4
  <2> QED  BY <2>2, <2>3, <2>5
<1> QED  BY <1>1, <1>3

LEMMA TriggersKept ==
  ASSUME NoSlices, TypeOK, FramesInv, TriggersInv, nswitches = 0, triggermode = "SEMAPHORE",
         nswitches' = 0, triggermode' = "SEMAPHORE", Next
  PROVE  TriggersInv'
<1> USE DEF NotTheOthers, NotTheLoop, loopVars, streamVars, askVars, sigVars, ctrlVars
<1>t. /\ received \in Nat /\ semval \in Nat /\ cnt0 \in Nat /\ nsignals \in Nat /\ missed \in Int
      /\ writing \in BOOLEAN
  BY ConstantsAssumption DEF TypeOK
<1>o. PICK o \in Nat : o = Owed
  BY DEF Owed
<1>p. PICK p \in Nat : p = Owed'
  BY DEF Owed
<1>w. PICK w \in Nat : w = Unposted
  BY DEF Unposted
<1>b. o <= 1 /\ p <= 1 /\ received + semval + o + w <= cnt0 + nsignals
  BY <1>o, <1>p, <1>w DEF TriggersInv, Owed
<1>s. pc \notin {"poll", "count", "update"} /\ (pc = "drain" => missed >= 0)
  BY DEF FramesInv
<1>1. CASE \/ LeavesPause \/ TestsSingle \/ StoresPause \/ TestsExit \/ Waits \/ TimesOut
           \/ ExecStart \/ ExecEnd
  <2>1. /\ UNCHANGED <<received, semval, cnt0, nsignals, writing>>
        /\ pc' # "drain" \/ missed' = 0
    BY <1>1 DEF LeavesPause, TestsSingle, StoresPause, TestsExit, Waits, TimesOut, ExecStart,
                ExecEnd, Goes, NextRound
  <2> QED  BY <2>1, TriggersStay
<1>2. CASE PollEnds \/ CountsMissed \/ UpdatesCount
  BY <1>2, <1>s DEF PollEnds, CountsMissed, UpdatesCount
<1>3. CASE Drains
  <2>1. semval' = semval - 1 /\ UNCHANGED <<received, cnt0, nsignals, writing>>
    BY <1>3 DEF Drains
  <2>2. Unposted' = Unposted
    BY <2>1 DEF Unposted
  <2>3. received + (semval - 1) + p + w <= cnt0 + nsignals
    BY <1>t, <1>b
  <2> QED  BY <2>1, <2>2, <2>3, <1>p, <1>w DEF TriggersInv
<1>4. CASE Drained
  <2>1. /\ pc = "drain" /\ pc' # "drain"
        /\ received' = IF missed = 0 THEN received ELSE received + 1
        /\ UNCHANGED <<semval, cnt0, nsignals, writing>>
    BY <1>4 DEF Drained, Takes
  <2>2. Unposted' = Unposted /\ Owed' = 0 /\ (missed # 0 => Owed = 1)
    BY <2>1, <1>t, <1>s DEF Unposted, Owed
  <2>3. received' + semval' + Owed' + Unposted' <= cnt0' + nsignals'
    BY <2>1, <2>2, <1>t, <1>o, <1>w, <1>b
  <2> QED  BY <2>3 DEF TriggersInv
<1>5. CASE Timedwait
  <2>1. /\ pc = "timedwait" /\ pc' = "exec_start" /\ semval' = semval - 1
        /\ received' = received + 1 /\ UNCHANGED <<cnt0, nsignals, writing>>
    BY <1>5 DEF Timedwait, Takes
  <2>2. Unposted' = Unposted /\ Owed' = 0
    BY <2>1 DEF Unposted, Owed
  <2>3. received' + semval' + Owed' + Unposted' <= cnt0' + nsignals'
    BY <2>1, <2>2, <1>t, <1>o, <1>w, <1>b
  <2> QED  BY <2>3 DEF TriggersInv
<1>6. CASE \/ \E k \in {"p", "c", "s", "e"} : Key(k)
           \/ \E m \in TriggerModes : SwitchesMode(m)
  <2>1. UNCHANGED <<received, semval, cnt0, nsignals, writing, pc, missed>>
    BY <1>6 DEF Key, SwitchesMode
  <2> QED  BY <2>1, TriggersStay
<1>7. CASE WriterCounts
  <2>1. /\ cnt0' = cnt0 + 1 /\ ~writing /\ writing'
        /\ UNCHANGED <<received, semval, nsignals, pc, missed>>
    BY <1>7 DEF WriterCounts
  <2>2. Owed' = Owed /\ Unposted = 0 /\ Unposted' = 1
    BY <2>1 DEF Unposted, Owed
  <2>3. received' + semval' + Owed' + Unposted' <= cnt0' + nsignals'
    BY <2>1, <2>2, <1>t, <1>o, <1>w, <1>b
  <2> QED  BY <2>3 DEF TriggersInv
<1>8. CASE WriterPosts
  <2>1. /\ semval' \in {semval, semval + 1} /\ writing /\ ~writing'
        /\ UNCHANGED <<received, cnt0, nsignals, pc, missed>>
    BY <1>8 DEF WriterPosts, Posted
  <2>2. Owed' = o /\ w = 1 /\ Unposted' = 0
    BY <2>1, <1>o, <1>w DEF Unposted, Owed
  <2>3. /\ received + semval + o + 0 <= cnt0 + nsignals
        /\ received + (semval + 1) + o + 0 <= cnt0 + nsignals
    BY <2>2, <1>t, <1>b
  <2> QED  BY <2>1, <2>2, <2>3 DEF TriggersInv
<1>9. ASSUME NEW int \in BOOLEAN, Signal(int)
      PROVE  TriggersInv'
  <2>1. /\ received' \in {received, received + 1} /\ nsignals' = nsignals + 1
        /\ UNCHANGED <<semval, cnt0, writing>>
        /\ pc' # "drain" \/ UNCHANGED <<pc, missed>>
    BY <1>9 DEF Signal, Takes
  <2>2. p <= o /\ Unposted' = w
    BY <2>1, <1>o, <1>p, <1>w DEF Unposted, Owed
  <2>3. /\ received + semval + p + w <= cnt0 + (nsignals + 1)
        /\ (received + 1) + semval + p + w <= cnt0 + (nsignals + 1)
    BY <2>2, <1>t, <1>b
  <2> QED  BY <2>1, <2>2, <2>3, <1>p DEF TriggersInv
<1> QED
  BY <1>1, <1>2, <1>3, <1>4, <1>5, <1>6, <1>7, <1>8, <1>9 DEF Next, Loop, Environment

(* Nothing undoes a switch of the mode.                                    *)
LEMMA SwitchesStay ==
  ASSUME TypeOK, [Next]_vars, nswitches' = 0
  PROVE  nswitches = 0
<1>1. nswitches' = nswitches \/ nswitches' = nswitches + 1
  BY DEF Next, Loop, Environment, vars, LeavesPause, TestsSingle, StoresPause, TestsExit, Waits,
         PollEnds, CountsMissed, UpdatesCount, Drains, Drained, Timedwait, TimesOut, ExecStart,
         ExecEnd, Key, SwitchesMode, WriterCounts, WriterPosts, Signal, NotTheOthers, askVars
<1> QED  BY <1>1 DEF TypeOK

(* While the mode is the one the process has been started with, and that   *)
(* is not cnt1, no frame is invented, at any moment of the writer and of   *)
(* the wait.  From cnt0, the frames said to be missed and those taken are  *)
(* no more than those written.  With semaphores the missed and the posts   *)
(* still waiting are no more than those written, and the triggers and the  *)
(* posts waiting no more than the frames written and the signals caught;   *)
(* a post that is drained may be both missed and a trigger.                *)
THEOREM NoFrameIsInvented ==
  ASSUME NoSlices
  PROVE  Spec => []FramesAreCounted
<1>i. Init => FramesInv /\ TriggersInv
  <2> SUFFICES ASSUME Init  PROVE TriggersInv
    BY InitFrames
  <2>1. /\ start \in Starts /\ start.cnt0 \in Nat /\ start.posts \in Nat
        /\ start.posts <= start.cnt0
    BY StartType, ConstantsAssumption DEF Init
  <2>2. /\ received = 0 /\ semval = start.posts /\ cnt0 = start.cnt0 /\ nsignals = 0
        /\ Owed = 0 /\ Unposted = 0
    BY DEF Init, Owed, Unposted
  <2> QED  BY <2>1, <2>2 DEF TriggersInv
<1>1. TypeOK /\ FramesInv /\ [Next]_vars => FramesInv'
  <2> SUFFICES ASSUME TypeOK, FramesInv, [Next]_vars PROVE FramesInv'
    OBVIOUS
  <2>1. CASE nswitches = 0
    <3>1. CASE UNCHANGED vars
      BY <3>1 DEF FramesInv, vars, loopVars, streamVars, askVars
    <3> QED  BY <2>1, <3>1, FramesKeptByLoop, FramesKeptByOthers DEF Next
  <2>2. CASE nswitches # 0
    <3>1. nswitches' # 0
      BY <2>2, SwitchesStay
    <3> QED  BY <3>1 DEF FramesInv
  <2> QED  BY <2>1, <2>2
<1>2. TypeOK /\ FramesInv /\ TriggersInv /\ [Next]_vars => TriggersInv'
  <2> SUFFICES ASSUME TypeOK, FramesInv, TriggersInv, [Next]_vars,
                      nswitches' = 0, triggermode' = "SEMAPHORE"
               PROVE  TriggersInv'
    BY DEF TriggersInv
  <2>1. CASE UNCHANGED vars
    BY <2>1, TriggersStay DEF vars, loopVars, streamVars, askVars, sigVars
  <2>2. CASE Next
    <3>1. nswitches = 0
      BY SwitchesStay
    <3>2. FramesInv'
      BY <1>1
    <3>3. triggermode = triggermode'
      BY <3>1, <3>2, <2>2 DEF FramesInv, Next, Loop, Environment, vars, LeavesPause, TestsSingle,
         StoresPause, TestsExit, Waits, PollEnds, CountsMissed, UpdatesCount, Drains, Drained,
         Timedwait, TimesOut, ExecStart, ExecEnd, Key, SwitchesMode, WriterCounts, WriterPosts,
         Signal, NotTheOthers, NotTheLoop
    <3> QED  BY <2>2, <3>1, <3>3, TriggersKept
  <2> QED  BY <2>1, <2>2
<1>3. TypeOK /\ FramesInv /\ TriggersInv => FramesAreCounted
  <2> SUFFICES ASSUME TypeOK, FramesInv, TriggersInv, nswitches = 0  PROVE FramesAreCounted
    BY DEF FramesAreCounted
  <2>1. /\ cnt0 \in Nat /\ semval \in Nat /\ missed \in Int /\ cumul \in Nat /\ received \in Nat
        /\ triggerstreamcnt \in Nat /\ nsignals \in Nat /\ writing \in BOOLEAN
    BY ConstantsAssumption DEF TypeOK
  <2>2. CASE triggermode = "SEMAPHORE"
    <3>1. (IF writing THEN 1 ELSE 0) \in Nat /\ (IF pc = "drain" THEN missed ELSE 0) \in Nat
      BY <2>1, <2>2 DEF FramesInv
    <3>2. cumul + semval + (IF pc = "drain" THEN missed ELSE 0) + (IF writing THEN 1 ELSE 0) <= cnt0
      BY <2>2 DEF FramesInv
    <3>3. cumul + semval <= cnt0
      BY <2>1, <3>1, <3>2
    <3>4. Owed \in Nat /\ Unposted \in Nat /\ received + semval + Owed + Unposted <= cnt0 + nsignals
      BY <2>2 DEF TriggersInv, Owed, Unposted
    <3>5. received + semval <= cnt0 + nsignals
      BY <2>1, <3>4
    <3> QED  BY <2>2, <3>3, <3>5 DEF FramesAreCounted, CounterModes
  <2>3. CASE triggermode = "CNT0"
    BY <2>1, <2>3 DEF FramesInv, FramesAreCounted, CounterModes
  <2>4. CASE triggermode \in {"IMMEDIATE", "DELAY"}
    BY <2>1, <2>4 DEF FramesInv, FramesAreCounted, CounterModes
  <2> QED  BY <2>2, <2>3, <2>4, ModeStays
<1> QED  BY <1>i, <1>1, <1>2, <1>3, LoopTypeCorrect, PTL DEF Spec
=============================================================================
