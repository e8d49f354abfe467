---------------------------- MODULE FpsConf_proofs ----------------------------
(***************************************************************************)
(* Type correctness of FpsConf, and what its update protocol guarantees    *)
(* when the updates of the signal word are atomic.                         *)
(*                                                                         *)
(* Values = [rank : Nat, ok : BOOLEAN] is infinite and stays folded except *)
(* where a rank is read.                                                   *)
(***************************************************************************)
EXTENDS FpsConf, TLAPS

(* The updates of the signal word by the two processes are atomic.         *)
SignalIsAtomic == ~WordsRace

(* An update of the signal word yields a signal word, races or not.        *)
LEMMA RewrittenType ==
  ASSUME NEW word \in Words \cup {NoWord}, signal \in Words,
         WordsRace => word # NoWord,
         NEW on \in Words, NEW off \in Words
  PROVE  Rewritten(word, on, off) \in Words
BY DEF Rewritten, Words

------------------------------------------------------------------------------

(* Each group of actions preserves the types.                              *)
LEMMA ConfLoopTyped ==
  ASSUME TypeOK, ConfLoop
  PROVE  TypeOK'
<1> USE ConstantsAssumption
<1>1. CASE ConfLoads
  BY <1>1 DEF ConfLoads, TypeOK, sharedVars, ctlVars, envVars, Words
<1>w. ASSUME NEW on \in Words, NEW off \in Words, NEW l \in ConfLocs, ConfWrites(on, off, l)
      PROVE  /\ signal' \in Words /\ confWord' \in Words \cup {NoWord} /\ pc' \in ConfLocs
             /\ UNCHANGED <<status, value, ctlVars, envVars>>
  <2>1. Rewritten(confWord, on, off) \in Words
    BY <1>w, RewrittenType DEF ConfWrites, TypeOK
  <2> QED  BY <1>w, <2>1 DEF ConfWrites
<1>l. /\ "claim" \in ConfLocs /\ "step" \in ConfLocs /\ "take" \in ConfLocs
      /\ "update" \in ConfLocs /\ "exit" \in ConfLocs /\ NextRound \in ConfLocs
  BY DEF ConfLocs, ConfUpdates, CheckSteps, NextRound
<1>b. /\ {} \in Words /\ {"UPDATE"} \in Words /\ {"CONFRUN"} \in Words /\ Answered \in Words
  BY DEF Words, SignalBits, Answered
<1>2. CASE ConfFirst
  BY <1>2, <1>w, <1>l, <1>b DEF ConfFirst, TypeOK, ctlVars, envVars
<1>3. CASE ConfClaims
  BY <1>3, <1>w, <1>l, <1>b DEF ConfClaims, TypeOK, ctlVars, envVars
<1>4. CASE ConfSteps
  <2>1. status' \in SUBSET StatusBits
    BY <1>4 DEF ConfSteps, TypeOK, StatusBits
  <2> QED
    BY <1>4, <2>1 DEF ConfSteps, TypeOK, ConfLocs, ctlVars, envVars
<1>5. CASE ConfCompares
  BY <1>5 DEF ConfCompares, TypeOK, ConfLocs, ConfUpdates, sharedVars, ctlVars, envVars
<1>6. CASE ConfRequests
  BY <1>6, <1>w, <1>l, <1>b DEF ConfRequests, TypeOK, ctlVars, envVars
<1>7. CASE ConfTakes
  BY <1>7, <1>w, <1>l, <1>b DEF ConfTakes, TypeOK, ctlVars, envVars
<1>8. CASE ConfIdles
  BY <1>8 DEF ConfIdles, TypeOK, ConfLocs, sharedVars, ctlVars, envVars
<1>9. CASE ConfReturns
  BY <1>9, <1>l DEF ConfReturns, TypeOK, ConfLocs, CheckSteps, Remembered, sharedVars, ctlVars, envVars
<1>10. CASE CheckBegins
  BY <1>10 DEF CheckBegins, TypeOK, ConfLocs, CheckSteps, ctlVars, envVars
<1>11. CASE CheckReads
  BY <1>11 DEF CheckReads, TypeOK, ConfLocs, CheckSteps, ctlVars, envVars
<1>12. CASE CheckReports
  BY <1>12 DEF CheckReports, TypeOK, ConfLocs, CheckSteps, StatusBits, Values, ctlVars, envVars
<1>13. CASE CheckPermits
  BY <1>13 DEF CheckPermits, Permitted, TypeOK, ConfLocs, CheckSteps, ctlVars, envVars
<1>14. CASE CheckEnds
  BY <1>14, <1>w, <1>l, <1>b DEF CheckEnds, TypeOK, ctlVars, envVars
<1>15. CASE ConfExits
  BY <1>15 DEF ConfExits, TypeOK, ConfLocs, ctlVars, envVars
<1> QED
  BY <1>1, <1>2, <1>3, <1>4, <1>5, <1>6, <1>7, <1>8, <1>9, <1>10, <1>11, <1>12, <1>13, <1>14,
     <1>15 DEF ConfLoop

(* confwupdate only polls while it has time left: what keeps its counter   *)
(* within one of the limit.                                                *)
TimeLeft == ctl \in {"w_checked", "w_update", "w_wait"} => timercnt <= timercntmax

TypeInv == TypeOK /\ TimeLeft

LEMMA ControlTyped ==
  ASSUME TypeInv, CtlBegins \/ CtlGoesOn
  PROVE  TypeInv'
<1> USE ConstantsAssumption DEF TypeInv, TimeLeft
<1>l. \A l \in {"idle", "mark", "w_wait", "w_test"} \cup CtlUpdates : l \in CtlLocs
  BY DEF CtlLocs
<1>b. {} \in Words /\ \A x \in SignalBits : {x} \in Words
  BY DEF Words
<1>w. ASSUME NEW on \in Words, NEW off \in Words, NEW l \in CtlLocs, CtlWrites(on, off, l)
      PROVE  TypeOK'
  <2>1. Rewritten(ctlWord, on, off) \in Words
    BY <1>w, RewrittenType DEF CtlWrites, TypeOK
  <2> QED  BY <1>w, <2>1 DEF CtlWrites, TypeOK, confVars, envVars
<1>1. ASSUME NEW ok \in BOOLEAN, Setval(ok) PROVE TypeInv'
  <2>1. value' \in Values
    BY <1>1 DEF Setval, TypeOK, Values
  <2> QED
    BY <1>1, <2>1, <1>l DEF Setval, Executes, TypeOK, CtlUpdates, confVars
<1>2. CASE Confupdate
  BY <1>2, <1>l DEF Confupdate, Executes, TypeOK, CtlUpdates, confVars
<1>3. CASE Confwupdate
  BY <1>3, <1>l DEF Confwupdate, Executes, TypeOK, Values, CtlUpdates, confVars
<1>4. CASE Confstart
  BY <1>4, <1>l DEF Confstart, Executes, TypeOK, confVars
<1>5. CASE Confstop
  BY <1>5, <1>l DEF Confstop, Executes, TypeOK, CtlUpdates, confVars
<1>6. CASE CtlLoads
  BY <1>6 DEF CtlLoads, TypeOK, sharedVars, confVars, envVars
<1>7. CASE Notify \/ ConfupdateSetsChecked \/ WaiterSetsChecked \/ WaiterSetsUpdate
           \/ ConfstopClears
  <2>1. TypeOK'
    BY <1>7, <1>w, <1>l, <1>b
    DEF Notify, ConfupdateSetsChecked, WaiterSetsChecked, WaiterSetsUpdate, ConfstopClears,
        SignalBits, CtlUpdates
  <2>2. TimeLeft'
    BY <1>7
    DEF Notify, ConfupdateSetsChecked, WaiterSetsChecked, WaiterSetsUpdate, ConfstopClears,
        CtlWrites
  <2> QED  BY <2>1, <2>2
<1>8. CASE WaiterPolls
  BY <1>8, <1>l DEF WaiterPolls, TypeOK, sharedVars, confVars, envVars
<1>9. CASE WaiterTests
  BY <1>9, <1>l DEF WaiterTests, TimeSpent, OutOfTime, TypeOK, CtlUpdates, sharedVars, confVars, envVars
<1>10. CASE ConfstartMarks
  <2>1. status' \in SUBSET StatusBits
    BY <1>10 DEF ConfstartMarks, TypeOK, StatusBits
  <2> QED
    BY <1>10, <2>1, <1>l DEF ConfstartMarks, TypeOK, CtlUpdates, confVars, envVars
<1> QED
  BY <1>1, <1>2, <1>3, <1>4, <1>5, <1>6, <1>7, <1>8, <1>9, <1>10 DEF CtlBegins, CtlGoesOn

LEMMA OthersTyped ==
  ASSUME TypeOK, ConfStarts \/ RunChanges \/ ConfInterrupted \/ ConfKilled
  PROVE  TypeOK'
<1> USE ConstantsAssumption
<1>1. CASE ConfStarts
  BY <1>1 DEF ConfStarts, TypeOK, ConfLocs, ConfUpdates, StatusBits, sharedVars, ctlVars
<1>2. CASE RunChanges
  BY <1>2 DEF RunChanges, TypeOK, sharedVars, confVars, ctlVars
<1>3. CASE ConfInterrupted
  BY <1>3 DEF ConfInterrupted, ConfDies, TypeOK, sharedVars, ctlVars
<1>4. CASE ConfKilled
  BY <1>4 DEF ConfKilled, ConfDies, TypeOK, ConfLocs, sharedVars, ctlVars
<1> QED
  BY <1>1, <1>2, <1>3, <1>4

(* Type correctness, races or not: a poll counter one above its limit at   *)
(* most, and a signal word that only ever holds its three bits.            *)
THEOREM ConfTypeCorrect == Spec => []TypeOK
<1>1. Init => TypeInv
  <2>1. Init => value \in Values /\ seen \in Values
    BY DEF Init, Values
  <2>2. Init => signal \in Words /\ status \in SUBSET StatusBits
                /\ prev_status \in SUBSET StatusBits
    BY DEF Init, Words
  <2>3. Init => pc \in ConfLocs /\ ctl \in CtlLocs /\ TimeLeft
    BY DEF Init, ConfLocs, CtlLocs, TimeLeft
  <2> QED
    <3>1. Init => conferrcnt \in 0 .. 1 /\ timercnt \in 0 .. timercntmax + 1
                  /\ ncmds \in 0 .. MaxCmds /\ nruns \in 0 .. MaxRuns
                  /\ ndeaths \in 0 .. MaxDeaths /\ judged \in Nat /\ asked \in Nat
      BY ConstantsAssumption DEF Init
    <3>2. Init => writable \in BOOLEAN /\ leaving \in BOOLEAN /\ sigint \in BOOLEAN
                  /\ launched \in BOOLEAN /\ runAlive \in BOOLEAN
                  /\ confWord \in Words \cup {NoWord} /\ ctlWord \in Words \cup {NoWord}
      BY DEF Init
    <3> QED
      BY <2>1, <2>2, <2>3, <3>1, <3>2 DEF TypeOK, TypeInv
<1>2. TypeInv /\ [Next]_vars => TypeInv'
  <2> SUFFICES ASSUME TypeInv, [Next]_vars PROVE TypeInv'
    OBVIOUS
  <2>1. CASE UNCHANGED vars
    BY <2>1 DEF vars, sharedVars, confVars, ctlVars, envVars, TypeOK, TypeInv, TimeLeft
  <2>2. CASE CtlBegins \/ CtlGoesOn
    BY <2>2, ControlTyped
  <2>3. CASE ConfLoop
    <3>1. UNCHANGED <<ctl, timercnt>>
      BY <2>3 DEF ConfLoop, ConfLoads, ConfFirst, ConfClaims, ConfSteps, ConfCompares,
        ConfRequests, ConfTakes, ConfIdles, ConfReturns, CheckBegins, CheckReads, CheckReports,
        CheckPermits, CheckEnds, ConfExits, ConfWrites, ctlVars
    <3> QED
      BY <2>3, <3>1, ConfLoopTyped DEF TypeInv, TimeLeft
  <2>4. CASE ConfStarts \/ RunChanges \/ ConfInterrupted \/ ConfKilled
    <3>1. UNCHANGED <<ctl, timercnt>>
      BY <2>4 DEF ConfStarts, RunChanges, ConfInterrupted, ConfKilled, ConfDies, ctlVars
    <3> QED
      BY <2>4, <3>1, OthersTyped DEF TypeInv, TimeLeft
  <2> QED
    BY <2>1, <2>2, <2>3, <2>4 DEF Next
<1>3. TypeInv => TypeOK
  BY DEF TypeInv
<1> QED
  BY <1>1, <1>2, <1>3, PTL DEF Spec

------------------------------------------------------------------------------
(* No setting is forgotten.                                                *)

(* With atomic updates no loaded word is kept, and the settings come in    *)
(* the order made, read, judged.  The order is what makes NothingForgotten *)
(* inductive: a report on an old setting must not raise `judged` past one  *)
(* that is still to be read.                                               *)
Ordered == judged <= seen.rank /\ seen.rank <= value.rank

ForgetInv == Ordered /\ NothingForgotten /\ CheckedIsPending

(* The update bits after an atomic update of the signal word.              *)
LEMMA AtomicWrite ==
  ASSUME SignalIsAtomic, NEW word, NEW on, NEW off
  PROVE  Rewritten(word, on, off) = (signal \cup on) \ off
BY DEF SignalIsAtomic, Rewritten

LEMMA ConfLoopForgetsNothing ==
  ASSUME SignalIsAtomic, TypeOK, ForgetInv, ConfLoop
  PROVE  ForgetInv'
<1> USE DEF ForgetInv, Ordered, NothingForgotten, CheckedIsPending, CheckSteps
<1>t. judged \in Nat /\ seen.rank \in Nat /\ value.rank \in Nat
  BY DEF TypeOK, Values
<1>1. CASE ConfLoads
  BY <1>1 DEF ConfLoads, SignalIsAtomic
<1>w. ASSUME NEW on, NEW off, NEW l, ConfWrites(on, off, l)
      PROVE  /\ signal' = (signal \cup on) \ off /\ pc' = l
             /\ value' = value /\ ctl' = ctl
  BY <1>w, AtomicWrite DEF ConfWrites, ctlVars
<1>2. CASE ConfFirst
  BY <1>2, <1>w DEF ConfFirst
<1>3. CASE ConfClaims
  BY <1>3, <1>w DEF ConfClaims
<1>4. CASE ConfSteps
  BY <1>4 DEF ConfSteps, ctlVars
<1>5. CASE ConfCompares
  BY <1>5 DEF ConfCompares, sharedVars, ctlVars
<1>6. CASE ConfRequests
  BY <1>6, <1>w DEF ConfRequests
<1>7. CASE ConfTakes
  BY <1>7, <1>w DEF ConfTakes
<1>8. CASE ConfIdles
  BY <1>8 DEF ConfIdles, sharedVars, ctlVars
<1>9. CASE ConfReturns
  BY <1>9 DEF ConfReturns, NextRound, sharedVars, ctlVars
<1>10. CASE CheckBegins
  BY <1>10 DEF CheckBegins, ctlVars
<1>11. CASE CheckReads
  BY <1>11, <1>t DEF CheckReads, ctlVars
<1>12. CASE CheckReports
  BY <1>12, <1>t DEF CheckReports, ctlVars
<1>13. CASE CheckPermits
  BY <1>13 DEF CheckPermits, ctlVars
<1>14. CASE CheckEnds
  BY <1>14, <1>w DEF CheckEnds, Answered, NextRound
<1>15. CASE ConfExits
  BY <1>15 DEF ConfExits, ctlVars
<1> QED
  BY <1>1, <1>2, <1>3, <1>4, <1>5, <1>6, <1>7, <1>8, <1>9, <1>10, <1>11, <1>12, <1>13, <1>14,
     <1>15 DEF ConfLoop

LEMMA ControlForgetsNothing ==
  ASSUME SignalIsAtomic, TypeOK, ForgetInv, CtlBegins \/ CtlGoesOn
  PROVE  ForgetInv'
<1> USE DEF ForgetInv, Ordered, NothingForgotten, CheckedIsPending, CheckSteps
<1>t. judged \in Nat /\ seen.rank \in Nat /\ value.rank \in Nat
  BY DEF TypeOK, Values
<1>w. ASSUME NEW on, NEW off, NEW l, CtlWrites(on, off, l)
      PROVE  /\ signal' = (signal \cup on) \ off /\ ctl' = l
             /\ UNCHANGED <<value, pc, seen, judged>>
  BY <1>w, AtomicWrite DEF CtlWrites, confVars
<1>1. ASSUME NEW ok \in BOOLEAN, Setval(ok) PROVE ForgetInv'
  BY <1>1, <1>t DEF Setval, Executes, confVars
<1>2. CASE Confupdate \/ Confwupdate \/ Confstart \/ Confstop
  BY <1>2 DEF Confupdate, Confwupdate, Confstart, Confstop, Executes, confVars
<1>3. CASE CtlLoads
  BY <1>3 DEF CtlLoads, SignalIsAtomic
<1>4. CASE Notify \/ ConfupdateSetsChecked
  BY <1>4, <1>w DEF Notify, ConfupdateSetsChecked
<1>5. CASE WaiterSetsChecked \/ WaiterSetsUpdate
  BY <1>5, <1>w DEF WaiterSetsChecked, WaiterSetsUpdate
<1>6. CASE ConfstopClears
  BY <1>6, <1>w DEF ConfstopClears
<1>7. CASE WaiterPolls \/ WaiterTests
  BY <1>7 DEF WaiterPolls, WaiterTests, sharedVars, confVars
<1>8. CASE ConfstartMarks
  BY <1>8 DEF ConfstartMarks, confVars
<1> QED
  BY <1>1, <1>2, <1>3, <1>4, <1>5, <1>6, <1>7, <1>8 DEF CtlBegins, CtlGoesOn

LEMMA ForgetInvariant ==
  ASSUME SignalIsAtomic
  PROVE  Spec => []ForgetInv
<1>1. Init => ForgetInv
  BY DEF Init, ForgetInv, Ordered, NothingForgotten, CheckedIsPending
<1>2. TypeOK /\ ForgetInv /\ [Next]_vars => ForgetInv'
  <2> SUFFICES ASSUME TypeOK, ForgetInv, [Next]_vars PROVE ForgetInv'
    OBVIOUS
  <2>1. CASE UNCHANGED vars
    BY <2>1 DEF vars, sharedVars, confVars, ctlVars, envVars, ForgetInv, Ordered,
                NothingForgotten, CheckedIsPending
  <2>2. CASE ConfStarts
    BY <2>2 DEF ConfStarts, sharedVars, ctlVars, ForgetInv, Ordered, NothingForgotten,
                CheckedIsPending
  <2>3. CASE RunChanges
    BY <2>3 DEF RunChanges, sharedVars, confVars, ctlVars, ForgetInv, Ordered,
                NothingForgotten, CheckedIsPending
  <2>4. CASE ConfInterrupted \/ ConfKilled
    BY <2>4 DEF ConfInterrupted, ConfKilled, ConfDies, sharedVars, ctlVars, ForgetInv,
                Ordered, NothingForgotten, CheckedIsPending
  <2> QED
    BY <2>1, <2>2, <2>3, <2>4, ConfLoopForgetsNothing, ControlForgetsNothing DEF Next
<1> QED
  BY <1>1, <1>2, ConfTypeCorrect, PTL DEF Spec

(* A live conf process loses no setting: whichever step of a check a       *)
(* setval falls into, an update stays requested or a check that will read  *)
(* the setting is under way.                                               *)
THEOREM NoSettingForgotten ==
  ASSUME SignalIsAtomic
  PROVE  Spec => []NothingForgotten
<1>1. ForgetInv => NothingForgotten
  BY DEF ForgetInv
<1> QED
  BY <1>1, ForgetInvariant, PTL

(* CHECKED never stays set without a check that will clear it.             *)
THEOREM CheckedMeansPending ==
  ASSUME SignalIsAtomic
  PROVE  Spec => []CheckedIsPending
<1>1. ForgetInv => CheckedIsPending
  BY DEF ForgetInv
<1> QED
  BY <1>1, ForgetInvariant, PTL
==============================================================================
