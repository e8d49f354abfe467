------------------------- MODULE FpsScheduler_proofs -------------------------
(***************************************************************************)
(* Theorems about FpsScheduler, for every number of slots and queues,      *)
(* every set of FPSs and every input the clients may write, in four parts: *)
(*                                                                         *)
(*  - types;                                                               *)
(*  - the safety invariants, each with the inductive one it follows from;  *)
(*  - the order of execution, which rests on the submission counter: it is *)
(*    assumed that cmdinputcnt neither wraps nor is reset;                 *)
(*  - that FpsScheduler implements FpsTaskQueues, for which nothing but a  *)
(*    completed task may leave the array.  This rests on the clock, too:   *)
(*    it is assumed that it never goes back.                               *)
(***************************************************************************)
EXTENDS FpsScheduler, WellFoundedInduction, NaturalsInduction, FiniteSetTheorems, TLAPS

------------------------------------------------------------------------------
(* Minima: what the CHOOSE expressions of the model return.                *)

LEMMA NatMinimum ==
  ASSUME NEW S \in SUBSET Nat, S # {}
  PROVE  \E m \in S : \A n \in S : m <= n
<1> DEFINE R == OpToRel(<, Nat)
<1>1. IsWellFoundedOn(R, Nat)
  BY NatLessThanWellFounded
<1>2. \A x, y \in Nat : x < y => <<x, y>> \in R
  BY DEF OpToRel
<1> HIDE DEF R
<1>3. PICK m \in S : \A n \in S : ~(<<n, m>> \in R)
  BY <1>1, WFMin, Zenon
<1>4. ASSUME NEW n \in S PROVE ~(n < m)
  BY <1>2, <1>3, Zenon
<1>5. QED
  BY <1>4

(* A smallest element under a numeric key, the smaller number on a tie.    *)
LEMMA LexMinimum ==
  ASSUME NEW S \in SUBSET Nat, S # {}, NEW key, \A i \in S : key[i] \in Nat
  PROVE  \E i \in S : \A j \in S : key[i] < key[j] \/ (key[i] = key[j] /\ i <= j)
<1> DEFINE K == {key[i] : i \in S}
<1>1. PICK k \in K : \A l \in K : k <= l
  <2>1. K \in SUBSET Nat /\ K # {}
    OBVIOUS
  <2>2. QED
    BY <2>1, NatMinimum
<1> DEFINE T == {i \in S : key[i] = k}
<1>2. PICK i \in T : \A j \in T : i <= j
  <2>1. T \in SUBSET Nat /\ T # {}
    BY <1>1
  <2>2. QED
    BY <2>1, NatMinimum
<1>3. ASSUME NEW j \in S PROVE key[i] < key[j] \/ (key[i] = key[j] /\ i <= j)
  BY <1>1, <1>2
<1>4. QED
  BY <1>2, <1>3

(* The slot the fifo reader takes is free.                                 *)
LEMMA FirstFreeIsFree ==
  ASSUME FreeSlots # {} PROVE FirstFree \in FreeSlots
<1>1. FreeSlots \in SUBSET Nat
  BY SizesAssumption DEF FreeSlots, Slots
<1>2. \E i \in FreeSlots : \A j \in FreeSlots : i <= j
  BY <1>1, NatMinimum
<1>3. QED
  BY <1>2 DEF FirstFree

(* The task a scan looks at is active in the queue, and no other active    *)
(* task of the queue has a smaller inputindex.                             *)
LEMMA NextInQueueIsFirst ==
  ASSUME TypeOK, NEW q \in Queues, ActiveIn(q) # {}
  PROVE  /\ NextInQueue(q) \in ActiveIn(q)
         /\ \A j \in ActiveIn(q) : entry[NextInQueue(q)].inputindex <= entry[j].inputindex
<1> DEFINE key == [i \in Slots |-> entry[i].inputindex]
<1>1. ActiveIn(q) \in SUBSET Nat /\ \A i \in ActiveIn(q) : key[i] \in Nat
  <2>1. ActiveIn(q) \subseteq Slots /\ Slots \subseteq Nat
    BY SizesAssumption DEF ActiveIn, Slots
  <2>2. \A i \in Slots : entry[i].inputindex \in Nat
    BY DEF TypeOK, Entry
  <2> QED  BY <2>1, <2>2
<1>2. PICK i \in ActiveIn(q) : \A j \in ActiveIn(q) :
        key[i] < key[j] \/ (key[i] = key[j] /\ i <= j)
  BY <1>1, LexMinimum
<1>3. \A j \in ActiveIn(q) : key[j] = entry[j].inputindex
  BY DEF ActiveIn
<1>4. \E k \in ActiveIn(q) : \A j \in ActiveIn(q) :
        \/ entry[k].inputindex < entry[j].inputindex
        \/ entry[k].inputindex = entry[j].inputindex /\ k <= j
  BY <1>2, <1>3
<1>5. \A k, j \in ActiveIn(q) :
        entry[k].inputindex \in Nat /\ entry[j].inputindex \in Nat
  BY <1>1, <1>3
<1>6. QED
  BY <1>4, <1>5 DEF NextInQueue

(* The purge picks a completed task while there is one with a positive age. *)
LEMMA FirstOldestIsCompleted ==
  ASSUME TypeOK, Aged # {} PROVE FirstOldest \in Aged
<1>1. Aged \in SUBSET Nat /\ \A i \in Aged : ctime[i] \in Nat
  BY SizesAssumption DEF Aged, Completed, Slots, TypeOK
<1>2. \E i \in Aged : \A j \in Aged :
        ctime[i] < ctime[j] \/ (ctime[i] = ctime[j] /\ i <= j)
  BY <1>1, LexMinimum
<1>3. QED
  BY <1>2 DEF FirstOldest

(* A command on an FPS names one.                                          *)
LEMMA CmdFields ==
  ASSUME NEW c \in Cmds \cup {NoCmd}
  PROVE  /\ c.op \in {"runstart", "runstop", "confupdate", "other"} => c.fps \in Fps
         /\ c.op = "queueprio" => c.queue \in Queues /\ c.prio \in Prios
BY DEF Cmds, NoCmd

------------------------------------------------------------------------------
(* Types.                                                                  *)

(* The local variables of the pass fit the place where the control loop    *)
(* stands, and no status word is half updated unless updates interleave.   *)
LocalsOK ==
  /\ ctl \in {"exec", "runstart"} => cur \in Slots
  /\ ctl \notin {"exec", "runstart"} => cur = NOTASK
  /\ ctl = "runstart" => entry[cur].cmd.op = "runstart"
  /\ ctl \in {"fifo", "exited"} => next = [q \in Queues |-> NOTASK] /\ qi = 0
  /\ WordsRace \/ \A f \in Fps : loaded[f] = "none"

TypeInv == TypeOK /\ LocalsOK

(* A task that is being executed returns with every variable in its type.  *)
LEMMA ReturnsKeepsTypes ==
  ASSUME TypeInv, cur \in Slots, NEW f \in Fps \cup {NoFps},
         Returns(f),
         prio' \in [Queues -> Int], exitloop' \in BOOLEAN, done' \in [Slots -> BOOLEAN],
         cmdrun' \in [Fps -> BOOLEAN], checked' \in [Fps -> BOOLEAN],
         typed' \in [Fps -> Nat], alive' \in [Fps -> BOOLEAN], UNCHANGED loaded
  PROVE  TypeInv'
<1> USE SizesAssumption DEF TypeInv
<1>1. status' \in [Slots -> SUBSET StatusBits]
  BY DEF TypeOK, Returns, StatusBits
<1>2. fpsindex' \in [Slots -> Fps \cup {NoFps}]
  BY DEF TypeOK, Returns
<1>3. UNCHANGED <<queue, toggles, cmdinputcnt, nsub, entry, ctime, clock, nsteps>>
  BY DEF Returns, fifoVars, clockVars
<1>4. qi' = 0 /\ next' = [q \in Queues |-> NOTASK] /\ cur' = NOTASK /\ oldest' = 0 /\ ctl' = "fifo"
  BY DEF Returns, FreshLocals
<1>5. qi' \in 0 .. NB_FPSCTRL_TASKQUEUE_MAX /\ next' \in [Queues -> Slots \cup {NOTASK, WAIT}]
      /\ cur' \in Slots \cup {NOTASK} /\ oldest' \in Slots
  BY <1>4 DEF Slots
<1>6. TypeOK'
  BY <1>1, <1>2, <1>3, <1>4, <1>5 DEF TypeOK
<1>7. LocalsOK'
  BY <1>4 DEF LocalsOK, Slots, NOTASK
<1>8. QED
  BY <1>6, <1>7

LEMMA TypeInit == Init => TypeInv
<1> SUFFICES ASSUME Init PROVE TypeInv
  OBVIOUS
<1>1. exitloop \in BOOLEAN /\ loaded \in [Fps -> Loads]
  BY DEF Init, Loads
<1>2. TypeOK
  BY <1>1, SizesAssumption
  DEF Init, TypeOK, Slots, Queues, FreshLocals, Entry, NOTASK, WAIT
<1>3. LocalsOK
  BY DEF Init, LocalsOK, FreshLocals
<1>4. QED
  BY <1>2, <1>3 DEF TypeInv

LEMMA TypeStep == TypeInv /\ [Next]_vars => TypeInv'
<1> SUFFICES ASSUME TypeInv, [Next]_vars PROVE TypeInv'
  OBVIOUS
<1> USE SizesAssumption, InputsAssumption
<1> USE DEF TypeInv, LocalsOK, fifoVars, taskVars, loopVars, fpsVars, clockVars
<1>1. CASE FifoFull
  BY <1>1 DEF FifoFull, TypeOK
<1>2. CASE TaskCntZero
  BY <1>2 DEF TaskCntZero, ReadsLine, TypeOK
<1>3. ASSUME NEW q \in Queues, SetQIndex(q) PROVE TypeInv'
  BY <1>3 DEF SetQIndex, ReadsLine, TypeOK
<1>4. ASSUME NEW p \in Prios, SetQPrio(p) PROVE TypeInv'
  BY <1>4 DEF SetQPrio, ReadsLine, TypeOK
<1>5. ASSUME NEW flag \in WaitFlags, NEW on \in BOOLEAN, SetWait(flag, on) PROVE TypeInv'
  BY <1>5 DEF SetWait, ReadsLine, TypeOK
<1>6. ASSUME NEW c \in TaskCmds, SubmitTask(c) PROVE TypeInv'
  <2>1. [cmd |-> c, queue |-> queue, inputindex |-> cmdinputcnt,
         flag |-> toggles, seq |-> nsub] \in Entry
    BY DEF TypeOK, Entry
  <2>2. NextInputCnt \in 0 .. CNT_MOD - 1
    BY DEF NextInputCnt, TypeOK
  <2>3. {"ACTIVE", "WAITING"} \in SUBSET StatusBits
    BY DEF StatusBits
  <2>4. nsub' \in 0 .. MaxTasks
    BY <1>6 DEF SubmitTask, TypeOK
  <2>5. QED
    BY <1>6, <2>1, <2>2, <2>3, <2>4 DEF SubmitTask, TypeOK
<1>7. CASE BeginPass
  BY <1>7 DEF BeginPass, TypeOK
<1>8. ASSUME NEW r \in Slots \cup {NOTASK, WAIT}, ScansQueue, ScanResult(r) PROVE TypeInv'
  BY <1>8 DEF ScansQueue, ScanResult, TypeOK, Queues
<1>9. CASE ScanEmpty
  BY <1>8, <1>9 DEF ScanEmpty
<1>10. CASE ScanReady
  <2>1. NextInQueue(qi) \in Slots
    BY <1>10, NextInQueueIsFirst DEF ScanReady, ScansQueue, ActiveIn
  <2>2. QED
    BY <1>8, <1>10, <2>1 DEF ScanReady
<1>11. CASE ScanWait
  BY <1>8, <1>11 DEF ScanWait
<1>12. CASE ScanComplete
  <2>1. \A b \in SUBSET StatusBits : Retired(b) \in SUBSET StatusBits
    BY DEF Retired, StatusBits
  <2>2. status' \in [Slots -> SUBSET StatusBits]
    BY <1>12, <2>1 DEF ScanComplete, TypeOK
  <2>3. ctime' \in [Slots -> Nat] /\ clock' \in Nat
    <3>1. ctime \in [Slots -> Nat] /\ clock \in Nat
      BY DEF TypeOK
    <3>2. PICK i : ctime' = [ctime EXCEPT ![i] = clock]
      BY <1>12 DEF ScanComplete
    <3>3. clock' = clock + 1
      BY <1>12 DEF ScanComplete
    <3>4. ctime' \in [Slots -> Nat]
      BY <3>1, <3>2
    <3>5. clock' \in Nat
      BY <3>1, <3>3
    <3>6. QED
      BY <3>4, <3>5
  <2>4. UNCHANGED <<fifoVars, entry, fpsindex, done, loopVars, fpsVars, nsteps, prio, exitloop>>
    BY <1>12 DEF ScanComplete
  <2>5. QED
    BY <2>2, <2>3, <2>4 DEF TypeOK
<1>13. CASE ScanEnd
  BY <1>13 DEF ScanEnd, TypeOK
<1>14. CASE PurgeOne
  <2>1. Aged # {} => FirstOldest \in Slots
    BY FirstOldestIsCompleted DEF Aged, Completed
  <2>2. QED
    BY <1>14, <2>1 DEF PurgeOne, TypeOK
<1>15. CASE PurgeEnd
  BY <1>15 DEF PurgeEnd, TypeOK
<1>16. CASE SelectNone
  BY <1>16 DEF SelectNone, FreshLocals, TypeOK, Slots, Queues
<1>17. ASSUME NEW q \in Queues, SelectTask(q) PROVE TypeInv'
  BY <1>17 DEF SelectTask, Preferred, ReadyQueues, TypeOK
<1>18. ASSUME NEW op \in {"runstart", "runstop", "confupdate", "other", "queueprio",
                          "nofps", "exit"},
              Executes(op)
       PROVE  /\ cur \in Slots
              /\ op \in {"runstart", "runstop", "confupdate", "other"} => CurFps \in Fps
              /\ op = "queueprio" => entry[cur].cmd.queue \in Queues
                                      /\ entry[cur].cmd.prio \in Prios
  <2>1. cur \in Slots /\ entry[cur].cmd.op = op
    BY <1>18 DEF Executes
  <2>2. entry[cur].cmd \in Cmds \cup {NoCmd}
    BY <2>1 DEF TypeOK, Entry
  <2>3. QED
    BY <2>1, <2>2, CmdFields DEF CurFps
<1>19. CASE RunstartRefused
  <2>1. cur \in Slots /\ CurFps \in Fps
    BY <1>18, <1>19 DEF RunstartRefused
  <2>2. QED
    BY <1>19, <2>1, ReturnsKeepsTypes DEF RunstartRefused, TypeOK
<1>20. CASE RunstartTypes
  <2>1. cur \in Slots /\ CurFps \in Fps
    BY <1>18, <1>20 DEF RunstartTypes
  <2>2. QED
    BY <1>20, <2>1 DEF RunstartTypes, Executes, TypeOK
<1>21. CASE RunstartSetsCmdrun
  <2>1. cur \in Slots /\ entry[cur].cmd.op = "runstart"
    BY <1>21 DEF RunstartSetsCmdrun
  <2>2. CurFps \in Fps
    BY <2>1, CmdFields DEF TypeOK, Entry, CurFps
  <2>3. QED
    BY <1>21, <2>1, <2>2, ReturnsKeepsTypes DEF RunstartSetsCmdrun, TypeOK
<1>22. CASE ExecRunstop
  <2>1. cur \in Slots /\ CurFps \in Fps
    BY <1>18, <1>22 DEF ExecRunstop
  <2>2. typed' \in [Fps -> Nat]
    BY <1>22, <2>1 DEF ExecRunstop, TypeOK
  <2>3. done' \in [Slots -> BOOLEAN]
    BY <1>22 DEF ExecRunstop, EndsRunOf, TypeOK, IsRunning
  <2>4. QED
    BY <1>22, <2>1, <2>2, <2>3, ReturnsKeepsTypes DEF ExecRunstop, TypeOK
<1>23. CASE ExecConfupdate
  <2>1. cur \in Slots /\ CurFps \in Fps
    BY <1>18, <1>23 DEF ExecConfupdate
  <2>2. QED
    BY <1>23, <2>1, ReturnsKeepsTypes DEF ExecConfupdate, TypeOK
<1>24. CASE ExecOther
  <2>1. cur \in Slots /\ CurFps \in Fps
    BY <1>18, <1>24 DEF ExecOther
  <2>2. QED
    BY <1>24, <2>1, ReturnsKeepsTypes DEF ExecOther, TypeOK
<1>25. CASE ExecQueueprio
  <2>1. /\ cur \in Slots
        /\ entry[cur].cmd.queue \in Queues /\ entry[cur].cmd.prio \in Prios
    BY <1>18, <1>25 DEF ExecQueueprio
  <2>2. prio' \in [Queues -> Int]
    BY <1>25, <2>1 DEF ExecQueueprio, TypeOK
  <2>3. QED
    BY <1>25, <2>1, <2>2, ReturnsKeepsTypes DEF ExecQueueprio, TypeOK
<1>26. CASE ExecNofps
  <2>1. cur \in Slots
    BY <1>18, <1>26 DEF ExecNofps
  <2>2. QED
    BY <1>26, <2>1, ReturnsKeepsTypes DEF ExecNofps, TypeOK
<1>27. CASE ExecExit
  <2>1. cur \in Slots
    BY <1>18, <1>27 DEF ExecExit
  <2>2. QED
    BY <1>27, <2>1, ReturnsKeepsTypes DEF ExecExit, TypeOK
<1>28. ASSUME NEW f \in Fps, ShellStart(f) PROVE TypeInv'
  BY <1>28 DEF ShellStart, TypeOK
<1>29. ASSUME NEW f \in Fps, RunExit(f) PROVE TypeInv'
  <2>1. done' \in [Slots -> BOOLEAN]
    BY <1>29 DEF RunExit, EndsRunOf, TypeOK, IsRunning
  <2>2. QED
    BY <1>29, <2>1 DEF RunExit, TypeOK
<1>30. ASSUME NEW f \in Fps, RunCrash(f) PROVE TypeInv'
  BY <1>30 DEF RunCrash, TypeOK
<1>31. ASSUME NEW f \in Fps, ConfChecks(f) PROVE TypeInv'
  BY <1>31 DEF ConfChecks, TypeOK
<1>32. ASSUME NEW f \in Fps, ConfLoads(f) PROVE TypeInv'
  <2>1. loaded' \in [Fps -> Loads]
    BY <1>32 DEF ConfLoads, TypeOK, Loads
  <2>2. QED
    BY <1>32, <2>1 DEF ConfLoads, TypeOK
<1>33. ASSUME NEW f \in Fps, ConfStores(f) PROVE TypeInv'
  <2>1. loaded' \in [Fps -> Loads] /\ cmdrun' \in [Fps -> BOOLEAN]
    BY <1>33 DEF ConfStores, TypeOK, Loads
  <2>2. \A g \in Fps : loaded[g] = "none" => loaded'[g] = "none"
    BY <1>33 DEF ConfStores, TypeOK
  <2>3. QED
    BY <1>33, <2>1, <2>2 DEF ConfStores, TypeOK
<1>34. CASE ClockStep
  BY <1>34 DEF ClockStep, TypeOK
<1>35. CASE LeaveLoop
  BY <1>35 DEF LeaveLoop, TypeOK
<1>36. CASE UNCHANGED vars
  BY <1>36 DEF vars, TypeOK
<1>37. QED
  BY <1>1, <1>2, <1>3, <1>4, <1>5, <1>6, <1>7, <1>9, <1>10, <1>11, <1>12, <1>13, <1>14,
     <1>15, <1>16, <1>17, <1>19, <1>20, <1>21, <1>22, <1>23, <1>24, <1>25, <1>26, <1>27,
     <1>28, <1>29, <1>30, <1>31, <1>32, <1>33, <1>34, <1>35, <1>36
  DEF Next, ReadFifo, Pass, ExecTask, Environment, Exited

LEMMA TypeInvariant == Spec => []TypeInv
BY TypeInit, TypeStep, PTL DEF Spec

(* Every reachable state is well typed: in particular cmdinputcnt stays in *)
(* its 16 bits and no scan, purge or launch leaves the task array.         *)
THEOREM TypeCorrect == Spec => []TypeOK
<1>1. TypeInv => TypeOK
  BY DEF TypeInv
<1>2. QED
  BY <1>1, TypeInvariant, PTL

------------------------------------------------------------------------------
(* Waiting for a run.                                                      *)

(* While a runstart is running, the word tested for it is the one of the   *)
(* FPS it named, and CMDRUN is set there unless a run has ended.           *)
Waits ==
  \A i \in Slots :
    entry[i].cmd.op = "runstart" /\ IsRunning(i) =>
      /\ fpsindex[i] = entry[i].cmd.fps
      /\ done[i] \/ cmdrun[entry[i].cmd.fps]

WaitInv == Waits /\ WaitHonored

(* A step that leaves the tasks alone and clears CMDRUN only where it      *)
(* records the end of a run.                                               *)
LEMMA WaitStable ==
  ASSUME WaitInv, UNCHANGED <<entry, fpsindex>>,
         \A i \in Slots : IsRunning(i)' => IsRunning(i),
         \A i \in Slots : "COMPLETED" \in status'[i] => "COMPLETED" \in status[i],
         \A i \in Slots : done[i] => done'[i],
         \A i \in Slots : IsRunning(i) /\ entry[i].cmd.op = "runstart"
                          /\ cmdrun[entry[i].cmd.fps]
                          => cmdrun'[entry[i].cmd.fps] \/ done'[i]
  PROVE  WaitInv'
BY DEF WaitInv, Waits, WaitHonored, IsRunning

(* The task being executed starts to run.                                  *)
LEMMA WaitReturns ==
  ASSUME WaitInv, TypeInv, cur \in Slots, NEW f \in Fps \cup {NoFps}, Returns(f),
         entry[cur].cmd.op = "runstart" =>
           f = entry[cur].cmd.fps /\ (done'[cur] \/ cmdrun'[f]),
         \A i \in Slots : done[i] => done'[i],
         \A i \in Slots : IsRunning(i) /\ entry[i].cmd.op = "runstart"
                          /\ cmdrun[entry[i].cmd.fps]
                          => cmdrun'[entry[i].cmd.fps] \/ done'[i]
  PROVE  WaitInv'
<1>1. status \in [Slots -> SUBSET StatusBits] /\ fpsindex \in [Slots -> Fps \cup {NoFps}]
  BY DEF TypeInv, TypeOK
<1>2. entry' = entry
  BY DEF Returns
<1>3. \A i \in Slots : i # cur => status'[i] = status[i] /\ fpsindex'[i] = fpsindex[i]
  BY <1>1 DEF Returns
<1>4. fpsindex'[cur] = f /\ ("COMPLETED" \in status'[cur] => "COMPLETED" \in status[cur])
  BY <1>1 DEF Returns
<1>5. Waits'
  BY <1>2, <1>3, <1>4 DEF WaitInv, Waits, IsRunning
<1>6. WaitHonored'
  BY <1>2, <1>3, <1>4 DEF WaitInv, WaitHonored
<1>7. QED
  BY <1>5, <1>6 DEF WaitInv

LEMMA WaitInit == Init => WaitInv
BY DEF Init, WaitInv, Waits, WaitHonored, IsRunning, NoCmd

StatusIsAtomic == ~WordsRace

LEMMA WaitStep ==
  ASSUME StatusIsAtomic PROVE TypeInv /\ WaitInv /\ [Next]_vars => WaitInv'
<1> SUFFICES ASSUME TypeInv, WaitInv, [Next]_vars PROVE WaitInv'
  OBVIOUS
<1> USE DEF fifoVars, taskVars, loopVars, fpsVars, clockVars
<1>1. CASE UNCHANGED <<taskVars, cmdrun>>
  BY <1>1, WaitStable DEF IsRunning
<1>2. ASSUME NEW c \in TaskCmds, SubmitTask(c) PROVE WaitInv'
  <2>1. FirstFree \in Slots
    BY <1>2, FirstFreeIsFree DEF SubmitTask, FreeSlots
  <2>2. status \in [Slots -> SUBSET StatusBits] /\ entry \in [Slots -> Entry]
        /\ done \in [Slots -> BOOLEAN]
    BY DEF TypeInv, TypeOK
  <2>3. \A i \in Slots : i # FirstFree =>
          status'[i] = status[i] /\ entry'[i] = entry[i] /\ done'[i] = done[i]
    BY <1>2, <2>2 DEF SubmitTask
  <2>4. status'[FirstFree] = {"ACTIVE", "WAITING"}
    BY <1>2, <2>1, <2>2 DEF SubmitTask
  <2>5. UNCHANGED <<fpsindex, cmdrun>>
    BY <1>2 DEF SubmitTask
  <2>6. QED
    BY <2>3, <2>4, <2>5 DEF WaitInv, Waits, WaitHonored, IsRunning
<1>3. CASE ScanComplete
  <2> DEFINE n == NextInQueue(qi)
  <2>1. n \in Slots /\ IsRunning(n) /\ MayComplete(n)
    BY <1>3, NextInQueueIsFirst DEF ScanComplete, ScansQueue, ActiveIn, TypeInv
  <2>2. status \in [Slots -> SUBSET StatusBits] /\ entry \in [Slots -> Entry]
    BY DEF TypeInv, TypeOK
  <2>3. UNCHANGED <<entry, fpsindex, done, cmdrun>>
    BY <1>3 DEF ScanComplete
  <2>4. \A i \in Slots : i # n => status'[i] = status[i]
    BY <1>3, <2>2 DEF ScanComplete
  <2>5. status'[n] = Retired(status[n])
    BY <1>3, <2>1, <2>2 DEF ScanComplete
  <2>6. Waits'
    BY <2>3, <2>4, <2>5 DEF WaitInv, Waits, IsRunning, Retired
  <2>7. ASSUME "WAITONRUN" \in entry[n].flag, entry[n].cmd.op = "runstart" PROVE done[n]
    <3>1. entry[n].cmd.fps \in Fps
      BY <2>1, <2>2, <2>7, CmdFields DEF Entry
    <3>2. fpsindex[n] = entry[n].cmd.fps /\ (done[n] \/ cmdrun[entry[n].cmd.fps])
      BY <2>1, <2>7 DEF WaitInv, Waits
    <3>3. ~cmdrun[fpsindex[n]]
      BY <2>1, <2>7, <3>1, <3>2 DEF MayComplete
    <3>4. QED
      BY <3>2, <3>3
  <2>8. WaitHonored'
    BY <2>3, <2>4, <2>7 DEF WaitInv, WaitHonored
  <2>9. QED
    BY <2>6, <2>8 DEF WaitInv
<1>4. CASE PurgeOne
  <2>1. status \in [Slots -> SUBSET StatusBits]
    BY DEF TypeInv, TypeOK
  <2>2. PICK o : status' = [status EXCEPT ![o] = {}]
    BY <1>4 DEF PurgeOne
  <2>3. \A i \in Slots : status'[i] = status[i] \/ status'[i] = {}
    BY <2>1, <2>2
  <2>4. UNCHANGED <<entry, fpsindex, done, cmdrun>>
    BY <1>4 DEF PurgeOne
  <2>5. QED
    BY <2>3, <2>4, WaitStable DEF IsRunning
<1>5. ASSUME NEW op \in {"runstart", "runstop", "confupdate", "other", "queueprio",
                         "nofps", "exit"},
             Executes(op)
      PROVE  /\ cur \in Slots
             /\ op \in {"runstart", "runstop", "confupdate", "other"} => CurFps \in Fps
  <2>1. cur \in Slots /\ entry[cur].cmd.op = op
    BY <1>5 DEF Executes, TypeInv, LocalsOK
  <2>2. entry[cur].cmd \in Cmds \cup {NoCmd}
    BY <2>1 DEF TypeInv, TypeOK, Entry
  <2>3. QED
    BY <2>1, <2>2, CmdFields DEF CurFps
<1>6. done \in [Slots -> BOOLEAN] /\ cmdrun \in [Fps -> BOOLEAN]
      /\ status \in [Slots -> SUBSET StatusBits]
  BY DEF TypeInv, TypeOK
<1>7. CASE RunstartRefused
  <2>1. cur \in Slots /\ CurFps \in Fps
    BY <1>5, <1>7 DEF RunstartRefused
  <2>2. Returns(CurFps) /\ UNCHANGED cmdrun
    BY <1>7 DEF RunstartRefused
  <2>3. done'[cur] /\ \A i \in Slots : done[i] => done'[i]
    BY <1>6, <1>7, <2>1 DEF RunstartRefused
  <2>4. QED
    BY <2>1, <2>2, <2>3, WaitReturns DEF CurFps
<1>8. CASE RunstartSetsCmdrun
  <2>1. cur \in Slots /\ entry[cur].cmd.op = "runstart"
    BY <1>8 DEF RunstartSetsCmdrun, TypeInv, LocalsOK
  <2>2. CurFps \in Fps
    BY <2>1, CmdFields DEF TypeInv, TypeOK, Entry, CurFps
  <2>3. Returns(CurFps) /\ UNCHANGED done
    BY <1>8 DEF RunstartSetsCmdrun
  <2>4. cmdrun' = [cmdrun EXCEPT ![CurFps] = TRUE]
    BY <1>8 DEF RunstartSetsCmdrun
  <2>5. cmdrun'[CurFps] /\ \A f \in Fps : cmdrun[f] => cmdrun'[f]
    BY <1>6, <2>2, <2>4
  <2>6. \A i \in Slots : entry[i].cmd.op = "runstart" => entry[i].cmd.fps \in Fps
    BY CmdFields DEF TypeInv, TypeOK, Entry
  <2>7. \A i \in Slots : IsRunning(i) /\ entry[i].cmd.op = "runstart"
                         /\ cmdrun[entry[i].cmd.fps] => cmdrun'[entry[i].cmd.fps]
    BY <2>5, <2>6
  <2>8. QED
    BY <2>1, <2>2, <2>3, <2>5, <2>7, WaitReturns DEF CurFps
<1>9. CASE ExecRunstop
  <2>1. cur \in Slots /\ CurFps \in Fps
    BY <1>5, <1>9 DEF ExecRunstop
  <2>2. Returns(CurFps) /\ entry[cur].cmd.op = "runstop"
    BY <1>9 DEF ExecRunstop, Executes
  <2>3. \A i \in Slots : done[i] => done'[i]
    BY <1>6, <1>9 DEF ExecRunstop, EndsRunOf
  <2>4. \A i \in Slots : IsRunning(i) /\ entry[i].cmd.op = "runstart"
                         /\ entry[i].cmd.fps = CurFps => done'[i]
    BY <1>6, <1>9 DEF ExecRunstop, EndsRunOf
  <2>5. \A f \in Fps : f # CurFps => cmdrun'[f] = cmdrun[f]
    BY <1>6, <1>9 DEF ExecRunstop
  <2>6. \A i \in Slots : entry[i].cmd.op = "runstart" => entry[i].cmd.fps \in Fps
    BY CmdFields DEF TypeInv, TypeOK, Entry
  <2>7. \A i \in Slots : IsRunning(i) /\ entry[i].cmd.op = "runstart"
                         /\ cmdrun[entry[i].cmd.fps]
                         => cmdrun'[entry[i].cmd.fps] \/ done'[i]
    BY <2>4, <2>5, <2>6
  <2>8. QED
    BY <2>1, <2>2, <2>3, <2>7, WaitReturns
<1>10. ASSUME NEW op \in {"confupdate", "other", "queueprio", "nofps", "exit"},
              Executes(op), NEW f \in {CurFps, NoFps}, Returns(f),
              op \notin {"confupdate", "other"} => f = NoFps,
              UNCHANGED <<done, cmdrun>>
       PROVE  WaitInv'
  <2>1. cur \in Slots /\ f \in Fps \cup {NoFps}
    BY <1>5, <1>10
  <2>2. entry[cur].cmd.op # "runstart"
    BY <1>10 DEF Executes
  <2>3. QED
    BY <1>10, <2>1, <2>2, WaitReturns
<1>11. CASE ExecConfupdate
  BY <1>10, <1>11 DEF ExecConfupdate
<1>12. CASE ExecOther
  BY <1>10, <1>12 DEF ExecOther
<1>13. CASE ExecQueueprio
  BY <1>10, <1>13 DEF ExecQueueprio
<1>14. CASE ExecNofps
  BY <1>10, <1>14 DEF ExecNofps
<1>15. CASE ExecExit
  BY <1>10, <1>15 DEF ExecExit
<1>16. ASSUME NEW f \in Fps, RunExit(f) PROVE WaitInv'
  <2>1. UNCHANGED <<entry, fpsindex, status>>
    BY <1>16 DEF RunExit
  <2>2. \A i \in Slots : done[i] => done'[i]
    BY <1>6, <1>16 DEF RunExit, EndsRunOf
  <2>3. \A i \in Slots : IsRunning(i) /\ entry[i].cmd.op = "runstart"
                         /\ entry[i].cmd.fps = f => done'[i]
    BY <1>6, <1>16 DEF RunExit, EndsRunOf
  <2>4. \A g \in Fps : g # f => cmdrun'[g] = cmdrun[g]
    BY <1>6, <1>16 DEF RunExit
  <2>5. \A i \in Slots : entry[i].cmd.op = "runstart" => entry[i].cmd.fps \in Fps
    BY CmdFields DEF TypeInv, TypeOK, Entry
  <2>6. \A i \in Slots : IsRunning(i) /\ entry[i].cmd.op = "runstart"
                         /\ cmdrun[entry[i].cmd.fps]
                         => cmdrun'[entry[i].cmd.fps] \/ done'[i]
    BY <2>3, <2>4, <2>5
  <2>7. QED
    BY <2>1, <2>2, <2>6, WaitStable DEF IsRunning
<1>17. CASE ReadFifo
  BY <1>1, <1>2, <1>17
  DEF ReadFifo, FifoFull, ReadsLine, TaskCntZero, SetQIndex, SetQPrio, SetWait
<1>18. CASE Pass
  <2>1. CASE ExecTask
    BY <1>1, <1>7, <1>8, <1>9, <1>11, <1>12, <1>13, <1>14, <1>15, <2>1
    DEF ExecTask, RunstartTypes
  <2>2. QED
    BY <1>1, <1>3, <1>4, <1>18, <2>1
    DEF Pass, BeginPass, ScanEmpty, ScanReady, ScanWait, ScanResult, ScanEnd, PurgeEnd,
        SelectNone, SelectTask
<1>19. CASE Environment
  <2>1. \A f \in Fps : ~ConfStores(f)
    BY DEF ConfStores, StatusIsAtomic, TypeInv, LocalsOK
  <2>2. QED
    BY <1>1, <1>16, <1>19, <2>1
    DEF Environment, ShellStart, RunCrash, ConfChecks, ConfLoads, ClockStep
<1>20. CASE UNCHANGED vars
  BY <1>1, <1>20 DEF vars
<1>21. QED
  BY <1>1, <1>17, <1>18, <1>19, <1>20 DEF Next, LeaveLoop, Exited

(* A runstart submitted with WAITONRUN is never retired before a run of    *)
(* its FPS has ended or been stopped since its launch: the completion test *)
(* (fps_process_fpsCMDarray.c) reads CMDRUN through the fpsindex that the  *)
(* launch returned, after functionparameter_RUNstart has set it.  It needs *)
(* the updates of the status word not to interleave.                       *)
THEOREM WaitIsHonored ==
  ASSUME StatusIsAtomic PROVE Spec => []WaitHonored
<1>1. WaitInv => WaitHonored
  BY DEF WaitInv
<1>2. TypeInv /\ WaitInv /\ [Next]_vars => WaitInv'
  BY WaitStep
<1>3. QED
  BY <1>1, <1>2, WaitInit, TypeInvariant, PTL DEF Spec

------------------------------------------------------------------------------
(* The purge.                                                              *)

LEMMA CompletedIsFinite ==
  IsFiniteSet(Completed) /\ Cardinality(Completed) \in Nat
<1>1. IsFiniteSet(Slots)
  BY SizesAssumption, FS_Interval DEF Slots
<1>2. Completed \subseteq Slots
  BY DEF Completed
<1>3. QED
  BY <1>1, <1>2, FS_Subset, FS_CardinalityType

\* Once the purge has ended, and until the next pass completes a task, enough slots are clear.
PurgeInv == ctl \in {"select", "exec", "runstart", "fifo"} => ~TooMany

LEMMA PurgeInit == Init => PurgeInv
<1> SUFFICES ASSUME Init PROVE ~TooMany
  BY DEF PurgeInv
<1>1. Completed = {}
  BY DEF Init, Completed
<1>2. Cardinality(Completed) = 0
  BY <1>1, FS_EmptySet
<1>3. QED
  BY <1>2, SizesAssumption DEF TooMany

LEMMA PurgeStep == TypeInv /\ PurgeInv /\ [Next]_vars => PurgeInv'
<1> SUFFICES ASSUME TypeInv, PurgeInv, [Next]_vars PROVE PurgeInv'
  OBVIOUS
<1> USE DEF fifoVars, taskVars, loopVars, fpsVars, clockVars
<1>1. status \in [Slots -> SUBSET StatusBits]
  BY DEF TypeInv, TypeOK
<1>2. ASSUME Completed' = Completed,
             ctl' \in {"select", "exec", "runstart", "fifo"} => ~TooMany
      PROVE  PurgeInv'
  BY <1>2 DEF PurgeInv, TooMany
<1>3. CASE UNCHANGED <<status, ctl>>
  BY <1>2, <1>3 DEF PurgeInv, Completed
<1>4. ASSUME NEW c \in TaskCmds, SubmitTask(c) PROVE PurgeInv'
  <2>1. FirstFree \in Slots /\ status[FirstFree] = {}
    BY <1>4, FirstFreeIsFree DEF SubmitTask, FreeSlots
  <2>2. Completed' = Completed
    BY <1>1, <1>4, <2>1 DEF SubmitTask, Completed
  <2>3. QED
    BY <1>2, <1>4, <2>2 DEF SubmitTask, PurgeInv
<1>5. ASSUME NEW f, Returns(f), ctl \in {"exec", "runstart"} PROVE PurgeInv'
  <2>1. Completed' = Completed
    BY <1>1, <1>5 DEF Returns, Completed
  <2>2. QED
    BY <1>2, <1>5, <2>1 DEF PurgeInv
<1>6. CASE ReadFifo
  BY <1>3, <1>4, <1>6
  DEF ReadFifo, FifoFull, ReadsLine, TaskCntZero, SetQIndex, SetQPrio, SetWait, PurgeInv
<1>7. CASE BeginPass \/ ScanEmpty \/ ScanReady \/ ScanWait \/ ScanComplete \/ ScanEnd
           \/ PurgeOne
  BY <1>7 DEF BeginPass, ScanEmpty, ScanReady, ScanWait, ScanResult, ScanComplete, ScansQueue,
              ScanEnd, PurgeOne, PurgeInv
<1>8. CASE PurgeEnd \/ SelectNone \/ \E q \in Queues : SelectTask(q)
  BY <1>2, <1>8 DEF PurgeEnd, SelectNone, SelectTask, PurgeInv, Completed
<1>9. CASE RunstartTypes
  BY <1>2, <1>9 DEF RunstartTypes, Executes, PurgeInv, Completed
<1>10. CASE ExecTask
  BY <1>5, <1>9, <1>10
  DEF ExecTask, Executes, RunstartRefused, RunstartSetsCmdrun, ExecRunstop, ExecConfupdate,
      ExecOther, ExecQueueprio, ExecNofps, ExecExit
<1>11. CASE Environment
  BY <1>3, <1>11 DEF Environment, ShellStart, RunExit, RunCrash, ConfChecks, ConfLoads, ConfStores,
              ClockStep
<1>12. CASE UNCHANGED vars
  BY <1>3, <1>12 DEF vars
<1>13. QED
  BY <1>6, <1>7, <1>8, <1>10, <1>11, <1>12 DEF Next, Pass, LeaveLoop, PurgeInv, Exited

(* Whenever lines are read, NB_FPSCTRL_TASK_PURGESIZE slots hold no        *)
(* completed task: the program only exits on a full array when the tasks   *)
(* still to be done fill the rest.                                         *)
THEOREM PurgeIsEnough == Spec => []PurgedEnough
<1>1. PurgeInv => PurgedEnough
  BY CompletedIsFinite, SizesAssumption DEF PurgeInv, PurgedEnough, TooMany
<1>2. QED
  BY <1>1, PurgeInit, PurgeStep, TypeInvariant, PTL DEF Spec

------------------------------------------------------------------------------
(* Tasks run in submission order, one at a time.                           *)

CounterIsMonotone == MaxTasks <= CNT_MOD /\ "taskcntzero" \notin ConfigLines

\* The input indices of the active tasks are their ranks in the order of submission.
Ranked ==
  /\ \A i \in Slots : IsActive(i) => entry[i].inputindex = entry[i].seq /\ entry[i].seq < nsub
  /\ \A i, j \in Slots : IsActive(i) /\ IsActive(j) /\ i # j => entry[i].seq # entry[j].seq
  /\ nsub < CNT_MOD => cmdinputcnt = nsub

\* Slot i was submitted to queue q before every other active task of the queue.
IsOldestOf(i, q) ==
  /\ entry[i].queue = q
  /\ \A j \in Slots : IsActive(j) /\ entry[j].queue = q /\ j # i => entry[i].seq < entry[j].seq

OrderInv ==
  /\ Ranked
  /\ \A q \in Queues : next[q] \in Slots => IsOldestOf(next[q], q)
  /\ cur \in Slots => IsOldestOf(cur, entry[cur].queue)
  /\ RunningIsOldest

(* A step that submits and starts nothing, and neither scans nor selects.  *)
LEMMA OrderStable ==
  ASSUME OrderInv, UNCHANGED <<entry, nsub, cmdinputcnt, next, cur>>,
         \A i \in Slots : IsActive(i)' => IsActive(i),
         \A i \in Slots : IsActive(i)' /\ IsRunning(i)' => IsRunning(i)
  PROVE  OrderInv'
<1>1. Ranked'
  BY DEF OrderInv, Ranked
<1>2. ASSUME NEW i \in Slots, NEW q, IsOldestOf(i, q) PROVE IsOldestOf(i, q)'
  BY <1>2 DEF IsOldestOf
<1>3. \A q \in Queues : next'[q] \in Slots => IsOldestOf(next[q], q)'
  BY <1>2 DEF OrderInv
<1>4. cur' \in Slots => IsOldestOf(cur, entry[cur].queue)'
  BY <1>2 DEF OrderInv
<1>5. RunningIsOldest'
  BY DEF OrderInv, RunningIsOldest
<1>6. QED
  BY <1>1, <1>3, <1>4, <1>5 DEF OrderInv

(* Without candidates only the tasks matter.                               *)
LEMMA OrderOfTasks ==
  ASSUME Ranked', RunningIsOldest', cur' = NOTASK, next' = [q \in Queues |-> NOTASK]
  PROVE  OrderInv'
<1>1. NOTASK \notin Slots
  BY SizesAssumption DEF NOTASK, Slots
<1>2. QED
  BY <1>1 DEF OrderInv

(* The task being executed starts to run, and it is the oldest of its      *)
(* queue.                                                                  *)
LEMMA OrderReturns ==
  ASSUME TypeInv, OrderInv, cur \in Slots, NEW f, Returns(f)
  PROVE  OrderInv'
<1>1. status \in [Slots -> SUBSET StatusBits]
  BY DEF TypeInv, TypeOK
<1>2. UNCHANGED <<entry, nsub, cmdinputcnt>>
  BY DEF Returns, fifoVars
<1>3. \A i \in Slots : IsActive(i)' <=> IsActive(i)
  BY <1>1 DEF Returns, IsActive
<1>4. \A i \in Slots : i # cur => (IsRunning(i)' <=> IsRunning(i))
  BY <1>1 DEF Returns, IsRunning
<1>5. Ranked'
  BY <1>2, <1>3 DEF OrderInv, Ranked
<1>6. RunningIsOldest'
  BY <1>2, <1>3, <1>4 DEF OrderInv, RunningIsOldest, IsOldestOf
<1>7. QED
  BY <1>5, <1>6, OrderOfTasks DEF Returns, FreshLocals

LEMMA OrderInit == Init => OrderInv
<1> SUFFICES ASSUME Init PROVE OrderInv
  OBVIOUS
<1>1. \A i \in Slots : ~IsActive(i)
  BY DEF Init, IsActive
<1>2. NOTASK \notin Slots /\ cur = NOTASK /\ \A q \in Queues : next[q] = NOTASK
  BY SizesAssumption DEF Init, FreshLocals, NOTASK, Slots
<1>3. cmdinputcnt = 0 /\ nsub = 0
  BY DEF Init
<1>4. QED
  BY <1>1, <1>2, <1>3 DEF OrderInv, Ranked, RunningIsOldest

LEMMA OrderStep ==
  ASSUME CounterIsMonotone PROVE TypeInv /\ OrderInv /\ [Next]_vars => OrderInv'
<1> SUFFICES ASSUME TypeInv, OrderInv, [Next]_vars PROVE OrderInv'
  OBVIOUS
<1> USE DEF fifoVars, taskVars, loopVars, fpsVars, clockVars
<1>1. /\ status \in [Slots -> SUBSET StatusBits]
      /\ entry \in [Slots -> Entry]
      /\ next \in [Queues -> Slots \cup {NOTASK, WAIT}]
      /\ cmdinputcnt \in Nat /\ nsub \in 0 .. MaxTasks
  BY SizesAssumption DEF TypeInv, TypeOK
<1>2. \A i \in Slots : entry[i].seq \in Nat /\ entry[i].inputindex \in Nat
  BY <1>1 DEF Entry
<1>3. CASE UNCHANGED <<status, entry, nsub, cmdinputcnt, next, cur>>
  BY <1>3, OrderStable DEF IsActive, IsRunning
<1>4. ASSUME NEW c \in TaskCmds, SubmitTask(c) PROVE OrderInv'
  <2>0. PICK s \in Slots : s = FirstFree /\ status[s] = {}
    BY <1>4, FirstFreeIsFree DEF SubmitTask, FreeSlots
  <2>1. ~IsActive(s)
    BY <2>0 DEF IsActive
  <2>2. \A i \in Slots : i # s => status'[i] = status[i] /\ entry'[i] = entry[i]
    BY <2>0, <1>1, <1>4 DEF SubmitTask
  <2>3. status'[s] = {"ACTIVE", "WAITING"}
    BY <2>0, <1>1, <1>4, <2>1 DEF SubmitTask
  <2>4. entry'[s].seq = nsub /\ entry'[s].inputindex = cmdinputcnt
    BY <2>0, <1>1, <1>4, <2>1 DEF SubmitTask
  <2>5. nsub < CNT_MOD /\ cmdinputcnt = nsub
    BY <1>1, <1>4, SizesAssumption DEF SubmitTask, CounterIsMonotone, OrderInv, Ranked
  <2>6. nsub' = nsub + 1 /\ (nsub' < CNT_MOD => cmdinputcnt' = nsub')
    BY <1>1, <1>4, <2>5, SizesAssumption DEF SubmitTask, NextInputCnt
  <2>7. \A i \in Slots : i # s => (IsActive(i)' <=> IsActive(i)) /\ (IsRunning(i)' <=> IsRunning(i))
    BY <2>2 DEF IsActive, IsRunning
  <2>8. ~IsRunning(s)'
    BY <2>3 DEF IsRunning
  <2>9. \A i \in Slots : IsActive(i) =>
          entry[i].seq < nsub /\ entry[i].inputindex = entry[i].seq
    BY DEF OrderInv, Ranked
  <2>10. Ranked'
    <3>1. \A i \in Slots : IsActive(i)' =>
            entry'[i].inputindex = entry'[i].seq /\ entry'[i].seq < nsub'
      BY <1>1, <1>2, <2>2, <2>4, <2>5, <2>6, <2>7, <2>9
    <3>2. \A i, j \in Slots : IsActive(i)' /\ IsActive(j)' /\ i # j =>
            entry'[i].seq # entry'[j].seq
      <4>1. \A i \in Slots : i # s /\ IsActive(i)' => entry'[i].seq # entry'[s].seq
        BY <1>1, <1>2, <2>2, <2>4, <2>7, <2>9
      <4>2. QED
        BY <2>2, <2>7, <4>1 DEF OrderInv, Ranked
    <3>3. QED
      BY <2>6, <3>1, <3>2 DEF Ranked
  <2>11. RunningIsOldest'
    <3> SUFFICES ASSUME NEW i \in Slots, NEW j \in Slots,
                        IsActive(i)', IsRunning(i)', IsActive(j)',
                        entry'[j].queue = entry'[i].queue, i # j
                 PROVE  entry'[i].seq < entry'[j].seq
      BY DEF RunningIsOldest
    <3>1. i # s
      BY <2>8
    <3>2. CASE j = s
      BY <2>2, <2>4, <2>7, <2>9, <3>1, <3>2
    <3>3. CASE j # s
      BY <2>2, <2>7, <3>1, <3>3 DEF OrderInv, RunningIsOldest
    <3>4. QED
      BY <3>2, <3>3
  <2>12. cur' = NOTASK /\ next' = [q \in Queues |-> NOTASK]
    BY <1>4 DEF SubmitTask, TypeInv, LocalsOK
  <2>13. QED
    BY <2>10, <2>11, <2>12, OrderOfTasks
<1>5. ASSUME NEW r \in {NOTASK, WAIT}, ScansQueue, ScanResult(r) PROVE OrderInv'
  <2>1. UNCHANGED <<status, entry, nsub, cmdinputcnt, cur>> /\ next' = [next EXCEPT ![qi] = r]
    BY <1>5 DEF ScanResult
  <2>2. \A q \in Queues : next'[q] \in Slots => next'[q] = next[q]
    <3>1. r \notin Slots
      BY SizesAssumption DEF Slots, NOTASK, WAIT
    <3>2. QED
      BY <1>1, <2>1, <3>1
  <2>3. QED
    BY <2>1, <2>2 DEF OrderInv, Ranked, RunningIsOldest, IsOldestOf, IsActive, IsRunning
<1>6. CASE ScanReady
  <2> DEFINE n == NextInQueue(qi)
  <2>1. qi \in Queues /\ ActiveIn(qi) # {}
    BY <1>6 DEF ScanReady, ScansQueue
  <2>2. n \in ActiveIn(qi) /\ \A j \in ActiveIn(qi) : entry[n].inputindex <= entry[j].inputindex
    BY <2>1, NextInQueueIsFirst DEF TypeInv
  <2>3. n \in Slots /\ IsActive(n) /\ entry[n].queue = qi
    BY <2>2 DEF ActiveIn, IsActive
  <2>4. ASSUME NEW j \in Slots, IsActive(j), entry[j].queue = qi, j # n
        PROVE  entry[n].seq < entry[j].seq
    <3>1. entry[n].inputindex <= entry[j].inputindex
      BY <2>2, <2>4 DEF ActiveIn, IsActive
    <3>2. entry[n].inputindex = entry[n].seq /\ entry[j].inputindex = entry[j].seq
          /\ entry[n].seq # entry[j].seq
      BY <2>3, <2>4 DEF OrderInv, Ranked
    <3>3. QED
      BY <1>2, <2>3, <3>1, <3>2
  <2>5. IsOldestOf(n, qi)
    BY <2>3, <2>4 DEF IsOldestOf
  <2>6. UNCHANGED <<status, entry, nsub, cmdinputcnt, cur>> /\ next' = [next EXCEPT ![qi] = n]
    BY <1>6 DEF ScanReady, ScanResult
  <2>7. \A q \in Queues : next'[q] \in Slots => IsOldestOf(next'[q], q)
    BY <1>1, <2>5, <2>6 DEF OrderInv
  <2>8. QED
    BY <2>6, <2>7 DEF OrderInv, Ranked, RunningIsOldest, IsOldestOf, IsActive, IsRunning
<1>7. CASE ScanComplete
  <2>1. PICK n : status' = [status EXCEPT ![n] = Retired(@)]
    BY <1>7 DEF ScanComplete
  <2>2. \A i \in Slots : status'[i] \subseteq status[i] \cup {"COMPLETED"}
    BY <1>1, <2>1 DEF Retired
  <2>3. QED
    BY <1>7, <2>2, OrderStable DEF ScanComplete, IsActive, IsRunning
<1>8. CASE PurgeOne
  <2>1. PICK o : status' = [status EXCEPT ![o] = {}]
    BY <1>8 DEF PurgeOne
  <2>2. \A i \in Slots : status'[i] \subseteq status[i]
    BY <1>1, <2>1
  <2>3. QED
    BY <1>8, <2>2, OrderStable DEF PurgeOne, IsActive, IsRunning
<1>9. CASE SelectNone
  <2>1. UNCHANGED <<status, entry, nsub, cmdinputcnt>>
    BY <1>9 DEF SelectNone
  <2>2. QED
    BY <1>9, <2>1, OrderOfTasks
    DEF SelectNone, FreshLocals, OrderInv, Ranked, RunningIsOldest, IsActive, IsRunning
<1>10. ASSUME NEW q \in Queues, SelectTask(q) PROVE OrderInv'
  <2>1. UNCHANGED <<status, entry, nsub, cmdinputcnt, next>> /\ cur' = next[q]
    BY <1>10 DEF SelectTask
  <2>2. next[q] \in Slots
    BY <1>10 DEF SelectTask, Preferred, ReadyQueues
  <2>3. IsOldestOf(next[q], q) /\ entry[next[q]].queue = q
    BY <2>2 DEF OrderInv, IsOldestOf
  <2>4. QED
    BY <2>1, <2>3 DEF OrderInv, Ranked, RunningIsOldest, IsOldestOf, IsActive, IsRunning
<1>11. ASSUME NEW f, Returns(f), ctl \in {"exec", "runstart"} PROVE OrderInv'
  BY <1>11, OrderReturns DEF TypeInv, LocalsOK
<1>12. CASE ExecTask
  BY <1>3, <1>11, <1>12
  DEF ExecTask, Executes, RunstartRefused, RunstartTypes, RunstartSetsCmdrun, ExecRunstop,
      ExecConfupdate, ExecOther, ExecQueueprio, ExecNofps, ExecExit
<1>13. CASE ReadFifo
  <2>1. ~TaskCntZero
    BY DEF CounterIsMonotone, TaskCntZero, ReadsLine
  <2>2. QED
    BY <1>3, <1>4, <1>13, <2>1 DEF ReadFifo, FifoFull, ReadsLine, SetQIndex, SetQPrio, SetWait
<1>14. CASE Pass
  BY <1>3, <1>5, <1>6, <1>7, <1>8, <1>9, <1>10, <1>12, <1>14
  DEF Pass, BeginPass, ScanEmpty, ScanWait, ScanEnd, PurgeEnd
<1>15. CASE Environment
  BY <1>3, <1>15 DEF Environment, ShellStart, RunExit, RunCrash, ConfChecks, ConfLoads, ConfStores,
              ClockStep
<1>16. CASE UNCHANGED vars
  BY <1>3, <1>16 DEF vars
<1>17. QED
  BY <1>3, <1>13, <1>14, <1>15, <1>16 DEF Next, LeaveLoop, Exited

(* The running task of a queue was submitted before all its other active   *)
(* tasks: tasks of a queue start in submission order and one at a time, as *)
(* long as the 16-bit cmdinputcnt neither wraps nor is reset.              *)
THEOREM QueuesAreSequential ==
  ASSUME CounterIsMonotone PROVE Spec => []RunningIsOldest
<1>1. TypeInv /\ OrderInv /\ [Next]_vars => OrderInv'
  BY OrderStep
<1>2. OrderInv => RunningIsOldest
  BY DEF OrderInv
<1>3. QED
  BY <1>1, <1>2, OrderInit, TypeInvariant, PTL DEF Spec

------------------------------------------------------------------------------
(* The purge and the candidates.                                           *)

ClockIsMonotone == MaxClockSteps = 0

\* Every completed task has a positive age.
HasAged == \A i \in Completed : ctime[i] < clock /\ ~IsActive(i)

CandidateInv == HasAged /\ CandidatesStayActive

(* A purge round frees a completed task.                                   *)
LEMMA PurgedIsCompleted ==
  ASSUME TypeInv, HasAged, PurgeOne
  PROVE  \E o \in Completed : status' = [status EXCEPT ![o] = {}]
<1>1. Completed # {}
  <2>1. SUFFICES ASSUME Completed = {} PROVE FALSE
    OBVIOUS
  <2>2. Cardinality(Completed) = 0
    BY <2>1, FS_EmptySet
  <2>3. TooMany
    BY DEF PurgeOne
  <2>4. QED
    BY <2>2, <2>3, SizesAssumption DEF TooMany
<1>2. Aged # {}
  BY <1>1 DEF HasAged, Aged
<1>3. FirstOldest \in Completed
  BY <1>2, FirstOldestIsCompleted DEF TypeInv, Aged
<1>4. QED
  BY <1>2, <1>3 DEF PurgeOne

LEMMA CandidateInit == Init => CandidateInv
<1> SUFFICES ASSUME Init PROVE CandidateInv
  OBVIOUS
<1>1. Completed = {}
  BY DEF Init, Completed
<1>2. ctl = "fifo"
  BY DEF Init
<1>3. QED
  BY <1>1, <1>2 DEF CandidateInv, HasAged, CandidatesStayActive

LEMMA CandidateStep ==
  ASSUME ClockIsMonotone PROVE TypeInv /\ CandidateInv /\ [Next]_vars => CandidateInv'
<1> SUFFICES ASSUME TypeInv, CandidateInv, [Next]_vars PROVE CandidateInv'
  OBVIOUS
<1> USE DEF fifoVars, taskVars, loopVars, fpsVars, clockVars
<1>1. /\ status \in [Slots -> SUBSET StatusBits]
      /\ ctime \in [Slots -> Nat] /\ clock \in Nat
      /\ next \in [Queues -> Slots \cup {NOTASK, WAIT}]
  BY DEF TypeInv, TypeOK
<1>2. NOTASK \notin Slots /\ WAIT \notin Slots
  BY SizesAssumption DEF Slots, NOTASK, WAIT
<1>3. CASE UNCHANGED <<status, ctime, clock, entry, ctl, next, cur>>
  BY <1>3 DEF CandidateInv, HasAged, CandidatesStayActive, Completed, IsActive, IsRunning
<1>4. ASSUME HasAged', ctl' \in {"fifo", "exited"} PROVE CandidateInv'
  BY <1>4 DEF CandidateInv, CandidatesStayActive
<1>5. ASSUME UNCHANGED <<status, ctime, clock>> PROVE HasAged'
  BY <1>5 DEF CandidateInv, HasAged, Completed, IsActive
<1>6. CASE ReadFifo
  <2>1. ASSUME NEW c \in TaskCmds, SubmitTask(c) PROVE CandidateInv'
    <3>1. PICK s \in Slots : s = FirstFree /\ status[s] = {}
      BY <2>1, FirstFreeIsFree DEF SubmitTask, FreeSlots
    <3>2. \A i \in Slots : i # s => status'[i] = status[i]
      BY <1>1, <2>1, <3>1 DEF SubmitTask
    <3>3. status'[s] = {"ACTIVE", "WAITING"}
      BY <1>1, <2>1, <3>1 DEF SubmitTask
    <3>4. HasAged'
      BY <2>1, <3>2, <3>3 DEF CandidateInv, HasAged, Completed, IsActive, SubmitTask
    <3>5. QED
      BY <1>4, <2>1, <3>4 DEF SubmitTask
  <2>2. QED
    BY <1>4, <1>5, <1>6, <2>1
    DEF ReadFifo, FifoFull, ReadsLine, TaskCntZero, SetQIndex, SetQPrio, SetWait
<1>7. CASE BeginPass
  <2>1. \A q \in Queues : next'[q] = NOTASK
    BY <1>7 DEF BeginPass, TypeInv, LocalsOK
  <2>2. QED
    BY <1>2, <1>5, <1>7, <2>1 DEF BeginPass, CandidateInv, CandidatesStayActive
<1>8. ASSUME NEW r \in {NOTASK, WAIT}, ScansQueue, ScanResult(r) PROVE CandidateInv'
  <2>1. UNCHANGED <<status, ctime, clock, entry, ctl, cur>> /\ next' = [next EXCEPT ![qi] = r]
        /\ ctl = "scan"
    BY <1>8 DEF ScanResult, ScansQueue
  <2>2. \A q \in Queues : next'[q] \in Slots => next'[q] = next[q]
    BY <1>1, <1>2, <2>1
  <2>3. QED
    BY <1>5, <2>1, <2>2 DEF CandidateInv, CandidatesStayActive, IsActive, IsRunning
<1>9. CASE ScanReady
  <2>1. qi \in Queues /\ ActiveIn(qi) # {} /\ ~IsRunning(NextInQueue(qi)) /\ ctl = "scan"
    BY <1>9 DEF ScanReady, ScansQueue
  <2>2. NextInQueue(qi) \in ActiveIn(qi)
    BY <2>1, NextInQueueIsFirst DEF TypeInv
  <2>3. PICK n \in Slots : n = NextInQueue(qi) /\ IsActive(n) /\ entry[n].queue = qi
                           /\ ~IsRunning(n)
    BY <2>1, <2>2 DEF ActiveIn, IsActive
  <2>4. UNCHANGED <<status, ctime, clock, entry, ctl, cur>> /\ next' = [next EXCEPT ![qi] = n]
    BY <1>9, <2>3 DEF ScanReady, ScanResult
  <2>5. \A q \in Queues : next'[q] = next[q] \/ (q = qi /\ next'[q] = n)
    BY <1>1, <2>4
  <2>6. QED
    BY <1>5, <2>1, <2>3, <2>4, <2>5 DEF CandidateInv, CandidatesStayActive, IsActive, IsRunning
<1>10. CASE ScanComplete
  <2>1. PICK n : n = NextInQueue(qi) /\ IsRunning(n)
    BY <1>10 DEF ScanComplete
  <2>2. /\ ctl = "scan"
        /\ status' = [status EXCEPT ![n] = Retired(@)]
        /\ ctime' = [ctime EXCEPT ![n] = clock]
        /\ clock' = clock + 1
        /\ UNCHANGED <<entry, ctl, next, cur>>
    BY <1>10, <2>1 DEF ScanComplete, ScansQueue
  <2>3. n \in Slots
    BY <1>10, <2>1, NextInQueueIsFirst DEF ScanComplete, ScansQueue, ActiveIn, TypeInv
  <2>4. \A i \in Slots : i # n => status'[i] = status[i] /\ ctime'[i] = ctime[i]
    BY <1>1, <2>2
  <2>5. status'[n] = Retired(status[n])
    BY <1>1, <2>2, <2>3
  <2>6. ctime'[n] = clock
    BY <1>1, <2>2, <2>3
  <2>7. HasAged'
    <3>1. ~IsActive(n)'
      BY <2>5 DEF IsActive, Retired
    <3>2. ASSUME NEW i \in Completed' PROVE ctime'[i] < clock' /\ ~IsActive(i)'
      <4>1. i \in Slots
        BY DEF Completed
      <4>2. CASE i = n
        BY <1>1, <2>2, <2>6, <3>1, <4>2
      <4>3. CASE i # n
        <5>1. i \in Completed /\ ctime'[i] = ctime[i] /\ status'[i] = status[i]
          BY <2>4, <4>1, <4>3 DEF Completed
        <5>2. ctime[i] < clock /\ ~IsActive(i)
          BY <5>1 DEF CandidateInv, HasAged
        <5>3. QED
          BY <1>1, <2>2, <4>1, <5>1, <5>2 DEF IsActive
      <4>4. QED
        BY <4>2, <4>3
    <3>3. QED
      BY <3>2 DEF HasAged
  <2>8. CandidatesStayActive'
    BY <2>1, <2>2, <2>4 DEF CandidateInv, CandidatesStayActive, IsActive, IsRunning
  <2>9. QED
    BY <2>7, <2>8 DEF CandidateInv
<1>11. CASE ScanEnd \/ PurgeEnd
  BY <1>5, <1>11 DEF ScanEnd, PurgeEnd, CandidateInv, CandidatesStayActive, IsActive, IsRunning
<1>12. CASE PurgeOne
  <2>1. PICK o \in Completed : status' = [status EXCEPT ![o] = {}]
    BY <1>12, PurgedIsCompleted DEF CandidateInv
  <2>2. ctl = "purge" /\ UNCHANGED <<ctime, clock, entry, ctl, next, cur>>
    BY <1>12 DEF PurgeOne
  <2>3. \A i \in Slots : i # o => status'[i] = status[i]
    BY <1>1, <2>1
  <2>4. status'[o] = {} /\ ~IsActive(o)
    BY <1>1, <2>1 DEF Completed, CandidateInv, HasAged
  <2>5. QED
    BY <2>2, <2>3, <2>4
    DEF CandidateInv, HasAged, CandidatesStayActive, Completed, IsActive, IsRunning
<1>13. CASE SelectNone
  BY <1>4, <1>5, <1>13 DEF SelectNone
<1>14. ASSUME NEW q \in Queues, SelectTask(q) PROVE CandidateInv'
  <2>1. ctl = "select" /\ next[q] \in Slots
    BY <1>14 DEF SelectTask, Preferred, ReadyQueues
  <2>2. UNCHANGED <<status, ctime, clock, entry, next>> /\ cur' = next[q] /\ ctl' = "exec"
    BY <1>14 DEF SelectTask
  <2>3. IsActive(next[q]) /\ ~IsRunning(next[q])
    BY <2>1 DEF CandidateInv, CandidatesStayActive
  <2>4. QED
    BY <1>5, <2>1, <2>2, <2>3 DEF CandidateInv, CandidatesStayActive, IsActive, IsRunning
<1>15. ASSUME NEW f, Returns(f),
              ctl \in {"exec", "runstart"}
       PROVE  CandidateInv'
  <2>1. \A i \in Slots : /\ IsActive(i)' <=> IsActive(i)
                         /\ "COMPLETED" \in status'[i] <=> "COMPLETED" \in status[i]
    BY <1>1, <1>15 DEF Returns, IsActive
  <2>2. UNCHANGED <<ctime, clock>> /\ ctl' = "fifo"
    BY <1>15 DEF Returns
  <2>3. HasAged'
    BY <2>1, <2>2 DEF CandidateInv, HasAged, Completed
  <2>4. QED
    BY <1>4, <2>2, <2>3
<1>16. CASE RunstartTypes
  BY <1>5, <1>16 DEF RunstartTypes, Executes, CandidateInv, CandidatesStayActive, IsActive, IsRunning
<1>17. CASE ExecTask
  BY <1>15, <1>16, <1>17
  DEF ExecTask, Executes, RunstartRefused, RunstartSetsCmdrun, ExecRunstop,
      ExecConfupdate, ExecOther, ExecQueueprio, ExecNofps, ExecExit
<1>18. CASE Pass
  BY <1>7, <1>8, <1>9, <1>10, <1>11, <1>12, <1>13, <1>14, <1>17, <1>18
  DEF Pass, ScanEmpty, ScanWait
<1>19. CASE Environment
  <2>1. ~ClockStep
    BY DEF ClockStep, ClockIsMonotone, TypeInv, TypeOK
  <2>2. QED
    BY <1>3, <1>19, <2>1 DEF Environment, ShellStart, RunExit, RunCrash, ConfChecks, ConfLoads,
                                   ConfStores
<1>20. CASE UNCHANGED vars
  BY <1>3, <1>20 DEF vars
<1>21. QED
  BY <1>4, <1>5, <1>6, <1>18, <1>19, <1>20 DEF Next, LeaveLoop, Exited

(* A task selected in a pass is still the active, unlaunched task that was *)
(* scanned when it is executed.                                            *)
THEOREM CandidatesAreStable ==
  ASSUME ClockIsMonotone PROVE Spec => []CandidatesStayActive
<1>1. TypeInv /\ CandidateInv /\ [Next]_vars => CandidateInv'
  BY CandidateStep
<1>2. CandidateInv => CandidatesStayActive
  BY DEF CandidateInv
<1>3. QED
  BY <1>1, <1>2, CandidateInit, TypeInvariant, PTL DEF Spec

(* The only step that empties a slot is a purge round.                     *)
LEMMA PurgeStepsAreSafe ==
  ASSUME ClockIsMonotone, TypeInv, CandidateInv, [Next]_vars
  PROVE  \A i \in Slots : status[i] # {} /\ status'[i] = {} => "COMPLETED" \in status[i]
<1> USE DEF fifoVars, taskVars, loopVars, fpsVars, clockVars
<1>1. status \in [Slots -> SUBSET StatusBits]
  BY DEF TypeInv, TypeOK
<1>2. ASSUME NEW o, NEW b, b # {}, status' = [status EXCEPT ![o] = b]
      PROVE  \A i \in Slots : status[i] # {} => status'[i] # {}
  BY <1>1, <1>2
<1>3. CASE ReadFifo
  BY <1>2, <1>3
  DEF ReadFifo, FifoFull, ReadsLine, TaskCntZero, SetQIndex, SetQPrio, SetWait, SubmitTask
<1>4. CASE ScanComplete
  <2>1. PICK n : status' = [status EXCEPT ![n] = Retired(@)]
    BY <1>4 DEF ScanComplete
  <2>2. Retired(status[n]) # {}
    BY DEF Retired
  <2>3. QED
    BY <1>2, <2>1, <2>2
<1>5. CASE PurgeOne
  <2>1. PICK o \in Completed : status' = [status EXCEPT ![o] = {}]
    BY <1>5, PurgedIsCompleted DEF CandidateInv
  <2>2. QED
    BY <1>1, <2>1 DEF Completed
<1>6. ASSUME NEW f, Returns(f)
      PROVE  \A i \in Slots : status[i] # {} => status'[i] # {}
  <2>1. (status[cur] \ {"WAITING"}) \cup {"RUNNING"} # {}
    OBVIOUS
  <2>2. QED
    BY <1>2, <1>6, <2>1 DEF Returns
<1>7. CASE ExecTask
  BY <1>6, <1>7
  DEF ExecTask, RunstartRefused, RunstartTypes, RunstartSetsCmdrun, ExecRunstop,
      ExecConfupdate, ExecOther, ExecQueueprio, ExecNofps, ExecExit
<1>8. CASE Pass
  BY <1>4, <1>5, <1>7, <1>8
  DEF Pass, BeginPass, ScanEmpty, ScanReady, ScanWait, ScanResult, ScanEnd, PurgeEnd,
      SelectNone, SelectTask
<1>9. CASE Environment
  BY <1>9 DEF Environment, ShellStart, RunExit, RunCrash, ConfChecks, ConfLoads, ConfStores,
              ClockStep
<1>10. CASE UNCHANGED vars
  BY <1>10 DEF vars
<1>11. QED
  BY <1>3, <1>8, <1>9, <1>10 DEF Next, LeaveLoop, Exited

(* The purge never drops a task that is waiting, being executed or         *)
(* running, however full the array is.                                     *)
THEOREM PurgeIsSafe ==
  ASSUME ClockIsMonotone PROVE Spec => OnlyCompletedPurged
<1>1. TypeInv /\ CandidateInv /\ [Next]_vars => CandidateInv'
  BY CandidateStep
<1>2. TypeInv /\ CandidateInv /\ [Next]_vars
      => [\A i \in Slots : status[i] # {} /\ status'[i] = {} => "COMPLETED" \in status[i]]_vars
  BY PurgeStepsAreSafe
<1>3. QED
  BY <1>1, <1>2, CandidateInit, TypeInvariant, PTL DEF Spec, OnlyCompletedPurged

------------------------------------------------------------------------------
(* The launch of a task, and the priorities.                               *)

\* The queues a pass has scanned, between their scan and the selection.
Scanned == {q \in Queues : (ctl = "scan" /\ q < qi) \/ ctl \in {"purge", "select"}}

\* The oldest active task of the queue is not one that is being waited for.
Startable(q) == ActiveIn(q) # {} /\ ~IsRunning(NextInQueue(q))

(* A queue that holds a startable task has it as its candidate from its    *)
(* scan to the selection.                                                  *)
ScannedInv == \A q \in Scanned : Startable(q) => next[q] \in Slots

\* NextInQueue, of a set of slots and their entries.
FirstOf(S, e) ==
  CHOOSE i \in S : \A j \in S :
    \/ e[i].inputindex < e[j].inputindex
    \/ e[i].inputindex = e[j].inputindex /\ i <= j

(* A step that leaves alone the entries and the active tasks of a queue    *)
(* does not make it startable.                                             *)
LEMMA StartableStays ==
  ASSUME TypeOK, NEW q \in Queues, entry' = entry, ActiveIn(q)' = ActiveIn(q),
         \A i \in ActiveIn(q) : status'[i] = status[i], Startable(q)'
  PROVE  Startable(q)
<1>1. NextInQueue(q) = FirstOf(ActiveIn(q), entry)
  BY DEF NextInQueue, FirstOf
<1>2. NextInQueue(q)' = FirstOf(ActiveIn(q)', entry')
  BY DEF NextInQueue, FirstOf
<1>3. NextInQueue(q)' = NextInQueue(q)
  BY <1>1, <1>2
<1>4. ActiveIn(q) # {} /\ ~IsRunning(NextInQueue(q))'
  BY DEF Startable
<1>5. NextInQueue(q) \in ActiveIn(q)
  BY <1>4, NextInQueueIsFirst
<1>6. QED
  BY <1>3, <1>4, <1>5 DEF Startable, IsRunning

LEMMA ScannedInit == Init => ScannedInv
BY DEF Init, ScannedInv, Scanned

LEMMA ScannedStep == TypeInv /\ CandidateInv /\ ScannedInv /\ [Next]_vars => ScannedInv'
<1> SUFFICES ASSUME TypeInv, CandidateInv, ScannedInv, [Next]_vars PROVE ScannedInv'
  OBVIOUS
<1> USE DEF fifoVars, taskVars, loopVars, fpsVars, clockVars
<1>1. /\ status \in [Slots -> SUBSET StatusBits]
      /\ next \in [Queues -> Slots \cup {NOTASK, WAIT}]
      /\ qi \in 0 .. NB_FPSCTRL_TASKQUEUE_MAX
      /\ Queues \subseteq Nat /\ NB_FPSCTRL_TASKQUEUE_MAX \in Nat
  BY SizesAssumption DEF TypeInv, TypeOK, Queues
<1>2. ASSUME ctl' \notin {"scan", "purge", "select"} PROVE ScannedInv'
  BY <1>2 DEF ScannedInv, Scanned
<1>3. ASSUME UNCHANGED <<status, entry, next>>, Scanned' \subseteq Scanned PROVE ScannedInv'
  <2>1. ASSUME NEW q \in Scanned', Startable(q)' PROVE next'[q] \in Slots
    <3>1. q \in Queues /\ q \in Scanned
      BY <1>3, <2>1 DEF Scanned
    <3>2. ActiveIn(q)' = ActiveIn(q)
      BY <1>3 DEF ActiveIn
    <3>3. Startable(q)
      BY <1>3, <2>1, <3>1, <3>2, StartableStays DEF TypeInv
    <3> QED  BY <1>3, <3>1, <3>3 DEF ScannedInv
  <2> QED  BY <2>1 DEF ScannedInv
<1>4. CASE UNCHANGED <<status, entry, ctl, qi, next>>
  BY <1>3, <1>4 DEF Scanned
<1>5. CASE ReadFifo
  <2>1. ctl = "fifo" /\ ctl' \in {"fifo", "exited"}
    BY <1>5 DEF ReadFifo, FifoFull, ReadsLine, TaskCntZero, SetQIndex, SetQPrio, SetWait, SubmitTask
  <2> QED  BY <1>2, <2>1
<1>6. CASE BeginPass
  <2>1. qi' = 0 /\ ctl' = "scan"
    BY <1>6 DEF BeginPass, TypeInv, LocalsOK
  <2>2. \A q \in Queues : ~(q < 0)
    BY <1>1
  <2> QED  BY <2>1, <2>2 DEF ScannedInv, Scanned
<1>7. ASSUME NEW r, ScansQueue, ScanResult(r), r \in Slots \/ ~Startable(qi) PROVE ScannedInv'
  <2>1. ctl = "scan" /\ ctl' = "scan" /\ qi \in Queues /\ qi' = qi + 1
    BY <1>7 DEF ScansQueue, ScanResult
  <2>2. UNCHANGED <<status, entry>> /\ next' = [next EXCEPT ![qi] = r]
    BY <1>7 DEF ScanResult
  <2>3. ASSUME NEW q \in Scanned', Startable(q)' PROVE next'[q] \in Slots
    <3>1. q \in Queues /\ (q = qi \/ q \in Scanned)
      BY <1>1, <2>1 DEF Scanned
    <3>2. ActiveIn(q)' = ActiveIn(q)
      BY <2>2 DEF ActiveIn
    <3>3. Startable(q)
      BY <2>2, <2>3, <3>1, <3>2, StartableStays DEF TypeInv
    <3>4. CASE q = qi
      BY <1>1, <1>7, <2>1, <2>2, <3>3, <3>4
    <3>5. CASE q # qi
      BY <1>1, <2>2, <3>1, <3>3, <3>5 DEF ScannedInv
    <3> QED  BY <3>4, <3>5
  <2> QED  BY <2>3 DEF ScannedInv
<1>8. CASE ScanEmpty \/ ScanWait
  BY <1>7, <1>8 DEF ScanEmpty, ScanWait, Startable
<1>9. CASE ScanReady
  <2>1. qi \in Queues /\ ActiveIn(qi) # {}
    BY <1>9 DEF ScanReady, ScansQueue
  <2>2. NextInQueue(qi) \in Slots
    BY <2>1, NextInQueueIsFirst DEF TypeInv, ActiveIn
  <2> QED  BY <1>7, <1>9, <2>2 DEF ScanReady
<1>10. ASSUME NEW n \in Slots, entry' = entry, next' = next,
              \A i \in Slots : i # n => status'[i] = status[i],
              ~IsActive(n)',
              Scanned' \subseteq Scanned,
              \A q \in Scanned : ~IsActive(n) \/ entry[n].queue # q
       PROVE  ScannedInv'
  <2>1. ASSUME NEW q \in Scanned', Startable(q)' PROVE next'[q] \in Slots
    <3>1. q \in Queues /\ q \in Scanned /\ (~IsActive(n) \/ entry[n].queue # q)
      BY <1>10, <2>1 DEF Scanned
    <3>2. n \notin ActiveIn(q) /\ n \notin ActiveIn(q)'
      BY <1>10, <3>1 DEF ActiveIn, IsActive
    <3>3. ASSUME NEW i \in Slots PROVE i \in ActiveIn(q)' <=> i \in ActiveIn(q)
      <4>1. CASE i = n
        BY <3>2, <4>1
      <4>2. CASE i # n
        BY <1>10, <4>2 DEF ActiveIn
      <4> QED  BY <4>1, <4>2
    <3>4. ActiveIn(q)' = ActiveIn(q)
      BY <3>3 DEF ActiveIn
    <3>5. \A i \in ActiveIn(q) : status'[i] = status[i]
      BY <1>10, <3>2 DEF ActiveIn
    <3>6. Startable(q)
      BY <1>10, <2>1, <3>1, <3>4, <3>5, StartableStays DEF TypeInv
    <3> QED  BY <1>10, <3>1, <3>6 DEF ScannedInv
  <2> QED  BY <2>1 DEF ScannedInv
<1>11. CASE ScanComplete
  <2>1. PICK n : n = NextInQueue(qi)
    OBVIOUS
  <2>2. /\ ctl = "scan" /\ qi \in Queues
        /\ status' = [status EXCEPT ![n] = Retired(@)]
        /\ UNCHANGED <<entry, ctl, qi, next>>
    BY <1>11, <2>1 DEF ScanComplete, ScansQueue
  <2>3. n \in Slots /\ entry[n].queue = qi
    BY <1>11, <2>1, NextInQueueIsFirst DEF ScanComplete, ScansQueue, ActiveIn, TypeInv
  <2>4. (\A i \in Slots : i # n => status'[i] = status[i]) /\ status'[n] = Retired(status[n])
    BY <1>1, <2>2, <2>3
  <2>5. ~IsActive(n)'
    BY <2>4 DEF IsActive, Retired
  <2>6. Scanned' = Scanned /\ qi \notin Scanned
    BY <1>1, <2>2 DEF Scanned
  <2> QED  BY <1>10, <2>2, <2>3, <2>4, <2>5, <2>6
<1>12. CASE PurgeOne
  <2>1. PICK o \in Completed : status' = [status EXCEPT ![o] = {}]
    BY <1>12, PurgedIsCompleted DEF CandidateInv
  <2>2. UNCHANGED <<entry, ctl, qi, next>>
    BY <1>12 DEF PurgeOne
  <2>3. o \in Slots /\ ~IsActive(o)
    BY DEF Completed, CandidateInv, HasAged
  <2>4. (\A i \in Slots : i # o => status'[i] = status[i]) /\ status'[o] = {}
    BY <1>1, <2>1, <2>3
  <2>5. Scanned' = Scanned /\ ~IsActive(o)'
    BY <2>2, <2>4 DEF Scanned, IsActive
  <2> QED  BY <1>10, <2>2, <2>3, <2>4, <2>5
<1>13. CASE ScanEnd \/ PurgeEnd
  <2>1. UNCHANGED <<status, entry, next>>
    BY <1>13 DEF ScanEnd, PurgeEnd
  <2>2. Scanned = Queues
    BY <1>1, <1>13 DEF ScanEnd, PurgeEnd, Scanned, Queues
  <2>3. Scanned' \subseteq Queues
    BY DEF Scanned
  <2> QED  BY <1>3, <2>1, <2>2, <2>3
<1>14. CASE SelectNone \/ (\E q \in Queues : SelectTask(q))
  BY <1>2, <1>14 DEF SelectNone, SelectTask
<1>15. CASE ExecTask
  <2>1. ctl' \in {"fifo", "runstart"}
    BY <1>15 DEF ExecTask, RunstartRefused, RunstartTypes, RunstartSetsCmdrun, ExecRunstop,
                 ExecConfupdate, ExecOther, ExecQueueprio, ExecNofps, ExecExit, Returns
  <2> QED  BY <1>2, <2>1
<1>16. CASE Pass
  BY <1>6, <1>8, <1>9, <1>11, <1>12, <1>13, <1>14, <1>15, <1>16 DEF Pass
<1>17. CASE LeaveLoop
  BY <1>2, <1>17 DEF LeaveLoop
<1>18. CASE Environment
  BY <1>4, <1>18 DEF Environment, ShellStart, RunExit, RunCrash, ConfChecks, ConfLoads,
                     ConfStores, ClockStep
<1>19. CASE UNCHANGED vars
  BY <1>4, <1>19 DEF vars
<1>20. QED
  BY <1>5, <1>16, <1>17, <1>18, <1>19 DEF Next, Exited

(* Only a selection leaves no task executed for one that is, and it takes  *)
(* a task of a ready queue of highest priority.                            *)
LEMMA LaunchKeepsPriorities ==
  ASSUME TypeInv, CandidateInv, ScannedInv, [Next]_vars, cur = NOTASK, cur' # NOTASK,
         NEW q \in Queues, prio[q] > prio[entry[cur'].queue], ActiveIn(q) # {}
  PROVE  IsRunning(NextInQueue(q))
<1> USE DEF fifoVars, taskVars, loopVars, fpsVars, clockVars
<1>1. PICK p \in Queues : SelectTask(p)
  <2>1. CASE ReadFifo
    BY <2>1 DEF ReadFifo, FifoFull, ReadsLine, TaskCntZero, SetQIndex, SetQPrio, SetWait, SubmitTask
  <2>2. ASSUME NEW f, Returns(f) PROVE FALSE
    BY <2>2 DEF Returns, FreshLocals
  <2>3. CASE ExecTask
    BY <2>2, <2>3
    DEF ExecTask, RunstartRefused, RunstartTypes, RunstartSetsCmdrun, ExecRunstop,
        ExecConfupdate, ExecOther, ExecQueueprio, ExecNofps, ExecExit
  <2>4. CASE Pass
    BY <2>3, <2>4
    DEF Pass, BeginPass, ScanEmpty, ScanReady, ScanWait, ScanResult, ScanComplete, ScanEnd,
        PurgeOne, PurgeEnd, SelectNone, FreshLocals
  <2>5. CASE Environment
    BY <2>5 DEF Environment, ShellStart, RunExit, RunCrash, ConfChecks, ConfLoads, ConfStores,
                ClockStep
  <2>6. CASE UNCHANGED vars
    BY <2>6 DEF vars
  <2> QED  BY <2>1, <2>4, <2>5, <2>6 DEF Next, LeaveLoop, Exited
<1>2. ctl = "select" /\ cur' = next[p] /\ Preferred(p)
  BY <1>1 DEF SelectTask
<1>3. next[p] \in Slots /\ \A r \in ReadyQueues : prio[r] < prio[p] \/ prio[r] = prio[p]
  BY <1>2 DEF Preferred, ReadyQueues
<1>4. entry[next[p]].queue = p
  BY <1>2, <1>3 DEF CandidateInv, CandidatesStayActive
<1>5. prio[q] > prio[p] /\ prio[q] \in Int /\ prio[p] \in Int
  BY <1>2, <1>4 DEF TypeInv, TypeOK
<1>6. q \notin ReadyQueues
  BY <1>3, <1>5
<1>7. next[q] \notin Slots /\ q \in Scanned
  BY <1>2, <1>6 DEF ReadyQueues, Scanned
<1>8. QED
  BY <1>7 DEF ScannedInv, Startable

(* When a task is launched no queue of higher priority has one that could  *)
(* have been: what its scan found is still true at the selection.          *)
THEOREM PrioritiesAreKept ==
  ASSUME ClockIsMonotone PROVE Spec => NoPriorityInversion
<1>1. TypeInv /\ CandidateInv /\ [Next]_vars => CandidateInv'
  BY CandidateStep
<1>2. TypeInv /\ CandidateInv /\ ScannedInv /\ [Next]_vars
      => [cur = NOTASK /\ cur' # NOTASK =>
            \A q \in Queues :
              /\ prio[q] > prio[entry[cur'].queue]
              /\ ActiveIn(q) # {}
              => IsRunning(NextInQueue(q))]_vars
  BY LaunchKeepsPriorities
<1>3. QED
  BY <1>1, <1>2, CandidateInit, ScannedInit, ScannedStep, TypeInvariant, PTL
  DEF Spec, NoPriorityInversion

------------------------------------------------------------------------------
(* The refinement.                                                         *)

Pending == [q \in Queues |-> PendingTasks(q)]
Running == [q \in Queues |-> RunningTasks(q)]

(* A step that neither submits, launches nor retires a task is a stutter   *)
(* of the queues.                                                          *)
LEMMA QueuesStutter ==
  ASSUME UNCHANGED <<nsub, entry>>,
         \A i \in Slots : (IsActive(i)' <=> IsActive(i))
                          /\ (IsActive(i) => (IsRunning(i)' <=> IsRunning(i)))
  PROVE  UNCHANGED TaskQueues!vars
<1>1. \A q : PendingTasks(q)' = PendingTasks(q)
  BY DEF PendingTasks, ActiveIn, IsActive
<1>2. \A q : RunningTasks(q)' = RunningTasks(q)
  BY DEF RunningTasks, ActiveIn, IsActive
<1>3. QED
  BY <1>1, <1>2 DEF TaskQueues!vars

(* Reading a task line submits a task to the current queue.                *)
LEMMA SubmitTaskSubmits ==
  ASSUME TypeInv, NEW c \in TaskCmds, SubmitTask(c)
  PROVE  TaskQueues!Submit(queue)
<1>1. status \in [Slots -> SUBSET StatusBits] /\ entry \in [Slots -> Entry] /\ queue \in Queues
  BY DEF TypeInv, TypeOK
<1>2. PICK s \in Slots : s = FirstFree /\ status[s] = {}
  BY FirstFreeIsFree DEF SubmitTask, FreeSlots
<1>3. /\ \A i \in Slots : i # s => status'[i] = status[i] /\ entry'[i] = entry[i]
      /\ status'[s] = {"ACTIVE", "WAITING"}
      /\ entry'[s].queue = queue /\ entry'[s].seq = nsub
      /\ nsub' = nsub + 1
  BY <1>1, <1>2 DEF SubmitTask
<1>4. ASSUME NEW q \in Queues PROVE RunningTasks(q)' = RunningTasks(q)
  <2>1. \A i \in Slots : IsActive(i)' /\ IsRunning(i)' <=> IsActive(i) /\ IsRunning(i)
    BY <1>2, <1>3 DEF IsActive, IsRunning
  <2>2. \A i \in Slots : IsActive(i) /\ IsRunning(i) => entry'[i] = entry[i]
    BY <1>2, <1>3 DEF IsActive
  <2>3. QED
    BY <2>1, <2>2 DEF RunningTasks, ActiveIn, IsActive
<1>5. ASSUME NEW q \in Queues, q # queue PROVE PendingTasks(q)' = PendingTasks(q)
  BY <1>2, <1>3, <1>5 DEF PendingTasks, ActiveIn, IsRunning
<1>6. PendingTasks(queue)' = PendingTasks(queue) \cup {nsub}
  BY <1>2, <1>3 DEF PendingTasks, ActiveIn, IsRunning, SubmitTask
<1>7. Pending' = [Pending EXCEPT ![queue] = @ \cup {nsub}] /\ Running' = Running
  BY <1>1, <1>4, <1>5, <1>6 DEF Pending, Running, SubmitTask
<1>8. QED
  BY <1>3, <1>7 DEF TaskQueues!Submit, Pending, Running

(* The return of an executed command launches the oldest task of an idle   *)
(* queue.                                                                  *)
LEMMA ReturnsLaunches ==
  ASSUME TypeInv, OrderInv, CandidateInv, ctl \in {"exec", "runstart"},
         NEW f, Returns(f)
  PROVE  \E q \in Queues : \E t \in PendingTasks(q) : TaskQueues!Launch(q, t)
<1>1. status \in [Slots -> SUBSET StatusBits] /\ entry \in [Slots -> Entry]
  BY DEF TypeInv, TypeOK
<1>2. cur \in Slots /\ IsActive(cur) /\ ~IsRunning(cur)
  BY DEF CandidateInv, CandidatesStayActive
<1>3. PICK n \in Slots : n = cur /\ IsActive(n) /\ ~IsRunning(n)
  BY <1>2
<1>4. PICK q \in Queues : q = entry[n].queue
  BY <1>1 DEF Entry
<1>5. PICK t \in Nat : t = entry[n].seq
  BY <1>1 DEF Entry
<1>6. \A j \in ActiveIn(q) : j # n => t < entry[j].seq
  BY <1>3, <1>4, <1>5 DEF OrderInv, IsOldestOf, ActiveIn, IsActive
<1>7. \A j \in ActiveIn(q) : ~IsRunning(j)
  <2> SUFFICES ASSUME NEW j \in ActiveIn(q), IsRunning(j) PROVE FALSE
    OBVIOUS
  <2>1. j # n /\ j \in Slots /\ IsActive(j) /\ entry[j].queue = q
    BY <1>3 DEF ActiveIn, IsActive
  <2>2. entry[j].seq < t
    BY <1>3, <1>4, <1>5, <2>1 DEF OrderInv, RunningIsOldest
  <2>3. t < entry[j].seq
    BY <1>6, <2>1
  <2>4. entry[j].seq \in Nat
    BY <1>1, <2>1 DEF Entry
  <2>5. QED
    BY <2>2, <2>3, <2>4
<1>8. /\ UNCHANGED <<entry, nsub>>
      /\ \A i \in Slots : i # n => status'[i] = status[i]
      /\ status'[n] = (status[n] \ {"WAITING"}) \cup {"RUNNING"}
  BY <1>1, <1>3 DEF Returns, fifoVars
<1>9. \A i \in Slots : "ACTIVE" \in status'[i] <=> "ACTIVE" \in status[i]
  BY <1>8
<1>10. n \in ActiveIn(q)
  BY <1>3, <1>4 DEF ActiveIn, IsActive
<1>11. RunningTasks(q) = {} /\ t \in PendingTasks(q)
  BY <1>3, <1>5, <1>7, <1>10 DEF RunningTasks, PendingTasks
<1>12. \A u \in PendingTasks(q) : t <= u
  <2>1. \A j \in ActiveIn(q) : t <= entry[j].seq
    <3>1. \A j \in ActiveIn(q) : entry[j].seq \in Nat
      BY <1>1 DEF ActiveIn, Entry
    <3>2. QED
      BY <1>5, <1>6, <3>1
  <2>2. QED
    BY <2>1 DEF PendingTasks
<1>13. ASSUME NEW r \in Queues PROVE ActiveIn(r)' = ActiveIn(r)
  BY <1>8, <1>9 DEF ActiveIn
<1>14. ASSUME NEW r \in Queues, r # q
       PROVE  PendingTasks(r)' = PendingTasks(r) /\ RunningTasks(r)' = RunningTasks(r)
  <2>1. \A j \in ActiveIn(r) : j # n
    BY <1>4, <1>14 DEF ActiveIn
  <2>2. \A j \in ActiveIn(r) : IsRunning(j)' <=> IsRunning(j)
    BY <1>8, <2>1 DEF IsRunning, ActiveIn
  <2>3. QED
    BY <1>8, <1>13, <2>2 DEF PendingTasks, RunningTasks
<1>15. RunningTasks(q)' = {t}
  <2>1. \A j \in ActiveIn(q) : IsRunning(j)' <=> j = n
    BY <1>7, <1>8 DEF IsRunning, ActiveIn
  <2>2. QED
    BY <1>5, <1>8, <1>10, <1>13, <2>1 DEF RunningTasks
<1>16. PendingTasks(q)' = PendingTasks(q) \ {t}
  <2>1. \A j \in ActiveIn(q) : ~IsRunning(j)' <=> j # n
    BY <1>7, <1>8 DEF IsRunning, ActiveIn
  <2>2. \A j \in ActiveIn(q) : entry[j].seq = t <=> j = n
    <3>1. \A j \in ActiveIn(q) : entry[j].seq \in Nat
      BY <1>1 DEF ActiveIn, Entry
    <3>2. QED
      BY <1>5, <1>6, <3>1
  <2>3. PendingTasks(q)' = {entry[j].seq : j \in ActiveIn(q) \ {n}}
    BY <1>8, <1>13, <2>1 DEF PendingTasks
  <2>4. PendingTasks(q) = {entry[j].seq : j \in ActiveIn(q)}
    BY <1>7 DEF PendingTasks
  <2>5. QED
    BY <2>2, <2>3, <2>4
<1>17. Pending' = [Pending EXCEPT ![q] = @ \ {t}] /\ Running' = [Running EXCEPT ![q] = {t}]
  BY <1>14, <1>15, <1>16 DEF Pending, Running
<1>18. TaskQueues!Launch(q, t)
  BY <1>8, <1>11, <1>12, <1>17 DEF TaskQueues!Launch, Pending, Running
<1>19. QED
  BY <1>11, <1>18

(* The retirement of a task ends the only running task of its queue.       *)
LEMMA ScanCompleteFinishes ==
  ASSUME TypeInv, OrderInv, ScanComplete
  PROVE  TaskQueues!Finish(qi)
<1>1. status \in [Slots -> SUBSET StatusBits] /\ entry \in [Slots -> Entry]
      /\ qi \in Queues
  BY DEF TypeInv, TypeOK, ScanComplete, ScansQueue
<1>2. PICK n \in Slots : n = NextInQueue(qi) /\ n \in ActiveIn(qi) /\ IsRunning(n)
  BY NextInQueueIsFirst DEF ScanComplete, ScansQueue, ActiveIn, TypeInv
<1>3. /\ UNCHANGED <<entry, nsub, qi>>
      /\ \A i \in Slots : i # n => status'[i] = status[i]
      /\ status'[n] = Retired(status[n])
  BY <1>1, <1>2 DEF ScanComplete, fifoVars, loopVars
<1>4. \A j \in ActiveIn(qi) : IsRunning(j) => j = n
  <2> SUFFICES ASSUME NEW j \in ActiveIn(qi), IsRunning(j), j # n PROVE FALSE
    OBVIOUS
  <2>1. j \in Slots /\ entry[j].queue = entry[n].queue /\ IsActive(j) /\ IsActive(n)
    BY <1>2 DEF ActiveIn, IsActive
  <2>2. entry[j].seq < entry[n].seq /\ entry[n].seq < entry[j].seq
    BY <1>2, <2>1 DEF OrderInv, RunningIsOldest
  <2>3. entry[j].seq \in Nat /\ entry[n].seq \in Nat
    BY <1>1, <2>1 DEF Entry
  <2>4. QED
    BY <2>2, <2>3
<1>5. "ACTIVE" \notin status'[n]
  BY <1>3 DEF Retired
<1>6. ASSUME NEW r \in Queues PROVE PendingTasks(r)' = PendingTasks(r)
  <2>1. \A i \in Slots : i \in ActiveIn(r)' /\ ~IsRunning(i)' <=> i \in ActiveIn(r) /\ ~IsRunning(i)
    BY <1>2, <1>3, <1>5 DEF ActiveIn, IsRunning
  <2>2. QED
    BY <1>3, <2>1 DEF PendingTasks, ActiveIn
<1>7. ASSUME NEW r \in Queues, r # qi PROVE RunningTasks(r)' = RunningTasks(r)
  <2>1. \A i \in Slots : i \in ActiveIn(r)' /\ IsRunning(i)' <=> i \in ActiveIn(r) /\ IsRunning(i)
    BY <1>2, <1>3, <1>5, <1>7 DEF ActiveIn, IsRunning
  <2>2. QED
    BY <1>3, <2>1 DEF RunningTasks, ActiveIn
<1>8. RunningTasks(qi) # {}
  BY <1>2 DEF RunningTasks
<1>9. RunningTasks(qi)' = {}
  BY <1>3, <1>4, <1>5 DEF RunningTasks, ActiveIn, IsRunning
<1>10. Pending' = Pending /\ Running' = [Running EXCEPT ![qi] = {}]
  BY <1>1, <1>3, <1>6, <1>7, <1>9 DEF Pending, Running
<1>11. QED
  BY <1>1, <1>3, <1>8, <1>10 DEF TaskQueues!Finish, Pending, Running

LEMMA RefinementInit == Init => TaskQueues!Init
<1> SUFFICES ASSUME Init PROVE TaskQueues!Init
  OBVIOUS
<1>1. \A q : ActiveIn(q) = {}
  BY DEF Init, ActiveIn
<1>2. \A q : PendingTasks(q) = {} /\ RunningTasks(q) = {}
  BY <1>1 DEF PendingTasks, RunningTasks
<1>3. QED
  BY <1>2 DEF Init, TaskQueues!Init

LEMMA RefinementStep ==
  ASSUME ClockIsMonotone, TypeInv, OrderInv, CandidateInv, [Next]_vars
  PROVE  [TaskQueues!Next]_TaskQueues!vars
<1> USE DEF fifoVars, taskVars, loopVars, fpsVars, clockVars
<1>1. CASE UNCHANGED <<status, entry, nsub>>
  BY <1>1, QueuesStutter DEF IsActive, IsRunning
<1>2. ASSUME NEW c \in TaskCmds, SubmitTask(c) PROVE TaskQueues!Next
  <2>1. queue \in Queues
    BY DEF TypeInv, TypeOK
  <2>2. QED
    BY <1>2, <2>1, SubmitTaskSubmits DEF TaskQueues!Next
<1>3. CASE ScanComplete
  <2>1. qi \in Queues
    BY <1>3 DEF ScanComplete, ScansQueue
  <2>2. QED
    BY <1>3, <2>1, ScanCompleteFinishes DEF TaskQueues!Next
<1>4. CASE PurgeOne
  <2>1. PICK o \in Completed : status' = [status EXCEPT ![o] = {}]
    BY <1>4, PurgedIsCompleted DEF CandidateInv
  <2>2. status \in [Slots -> SUBSET StatusBits]
    BY DEF TypeInv, TypeOK
  <2>3. o \in Slots /\ ~IsActive(o) /\ status'[o] = {}
    BY <2>1, <2>2 DEF Completed, CandidateInv, HasAged
  <2>4. \A i \in Slots : i # o => status'[i] = status[i]
    BY <2>1, <2>2
  <2>5. QED
    BY <1>4, <2>3, <2>4, QueuesStutter DEF PurgeOne, IsActive, IsRunning
<1>5. ASSUME NEW f, Returns(f), ctl \in {"exec", "runstart"} PROVE TaskQueues!Next
  <2>1. PICK q \in Queues : \E t \in PendingTasks(q) : TaskQueues!Launch(q, t)
    BY <1>5, ReturnsLaunches
  <2>2. QED
    BY <2>1 DEF TaskQueues!Next
<1>6. CASE ExecTask
  BY <1>1, <1>5, <1>6
  DEF ExecTask, Executes, RunstartRefused, RunstartTypes, RunstartSetsCmdrun, ExecRunstop,
      ExecConfupdate, ExecOther, ExecQueueprio, ExecNofps, ExecExit
<1>7. CASE ReadFifo
  BY <1>1, <1>2, <1>7
  DEF ReadFifo, FifoFull, ReadsLine, TaskCntZero, SetQIndex, SetQPrio, SetWait
<1>8. CASE Pass
  BY <1>1, <1>3, <1>4, <1>6, <1>8
  DEF Pass, BeginPass, ScanEmpty, ScanReady, ScanWait, ScanResult, ScanEnd, PurgeEnd,
      SelectNone, SelectTask
<1>9. CASE Environment
  BY <1>1, <1>9 DEF Environment, ShellStart, RunExit, RunCrash, ConfChecks, ConfLoads, ConfStores,
              ClockStep
<1>10. CASE UNCHANGED vars
  BY <1>1, <1>10 DEF vars
<1>11. QED
  BY <1>1, <1>7, <1>8, <1>9, <1>10 DEF Next, LeaveLoop, Exited

(* The scheduler implements independent FIFO queues that run one task at a *)
(* time, as the RULES of function_parameter_process_fpsCMDarray promise,   *)
(* for any number of slots and queues, as long as the submission counter   *)
(* does not wrap and the system clock does not go back.                    *)
THEOREM SchedulerImplementsQueues ==
  ASSUME CounterIsMonotone, ClockIsMonotone PROVE Spec => ImplementsQueues
<1>1. TypeInv /\ OrderInv /\ [Next]_vars => OrderInv'
  BY OrderStep
<1>2. TypeInv /\ CandidateInv /\ [Next]_vars => CandidateInv'
  BY CandidateStep
<1>3. TypeInv /\ OrderInv /\ CandidateInv /\ [Next]_vars => [TaskQueues!Next]_TaskQueues!vars
  BY RefinementStep
<1>4. QED
  BY <1>1, <1>2, <1>3, OrderInit, CandidateInit, RefinementInit, TypeInvariant, PTL
  DEF Spec, ImplementsQueues, TaskQueues!Spec
===============================================================================
