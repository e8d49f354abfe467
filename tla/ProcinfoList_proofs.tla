------------------------- MODULE ProcinfoList_proofs -------------------------
(***************************************************************************)
(* The safety of the list of processes: its types, the stability of the    *)
(* list on display, and that a process whose registration met nobody has   *)
(* its slot and its file for as long as it runs.                           *)
(***************************************************************************)
EXTENDS ProcinfoList, TLAPS

Scanning == spc \in {"looks", "stats", "clears", "checks", "flags", "adds"}

(* The permission to scan is given only while the display thread is        *)
(* blocked, and is kept until the scan is over; before there has been a    *)
(* scan the display thread has not started.                                *)
HandshakeInv ==
  /\ dpc \in {"polls", "grants", "displays", "joins", "over"} => ~OK
  /\ Scanning => OK
  /\ (scanned \/ spc \in {"unmaps", "links"}) /\ dpc = "starts" => ~OK

(* A slot that names a process is the one this process has taken.          *)
OwnerInv ==
  \A p \in Procs : \A s \in Slots :
    PIDarray[s] = p => pindex[p] = s /\ ppc[p] \notin {"idle", "looks", "claims", "refused"}

(* What the scan knows of the slot it looks at, and of those on display.   *)
ScanInv ==
  /\ spc = "flags" => active[index] = 1
  /\ spc \in {"stats", "clears", "checks", "flags", "adds"} /\ update => active[index] # 0
  /\ \A s \in displayed : active[s] # 0
  /\ Scanning => \A s \in displayed : s < index

(* A process, from the slot it finds to the end of its run, if it met      *)
(* nobody: the slot is its own, the scan does not think its file missing   *)
(* nor that it has crashed.                                                *)
Taken(p) == ppc[p] \in {"claims", "creates", "activates", "runs"}

Undisputed(p) ==
  LET s == pindex[p]
  IN  /\ \A q \in Procs \ {p} : ~Holds(q, s)
      /\ active[s] = IF ppc[p] = "runs" THEN 1 ELSE 0
      /\ ppc[p] # "claims" => PIDarray[s] = p
      /\ ppc[p] \in {"activates", "runs"} => p \in files
      /\ ~(spc = "clears" /\ index = s /\ missing)
      /\ ~(spc = "flags" /\ index = s)

UndisputedInv == \A p \in Procs \ raced : Taken(p) => Undisputed(p)

------------------------------------------------------------------------------
(* Types.                                                                  *)

LEMMA FirstSlot == 0 \in Slots
BY ListAssumption DEF Slots

LEMMA ProcessTyped ==
  ASSUME TypeOK, NEW p \in Procs, Process(p)
  PROVE  TypeOK'
<1> USE DEF TypeOK, Goes, Registering, scanVars, ctrlVars
<1>1. CASE Starts(p)
  BY <1>1, ListAssumption DEF Starts, listVars, Slots
<1>2. CASE LooksAtSlot(p)
  <2>1. /\ UNCHANGED <<listVars, scanVars, ctrlVars>>
        /\ raced' \subseteq Procs
    BY <1>2 DEF LooksAtSlot
  <2>2. ppc' \in [Procs -> Registering \cup {"idle", "runs", "exited", "crashed", "refused"}]
    BY <1>2 DEF LooksAtSlot
  <2>3. pindex' \in [Procs -> Slots]
    BY <1>2 DEF LooksAtSlot, HasNext
  <2> QED  BY <2>1, <2>2, <2>3 DEF listVars
<1>3. CASE WritesPID(p)
  BY <1>3 DEF WritesPID
<1>4. CASE CreatesFile(p)
  BY <1>4 DEF CreatesFile
<1>5. CASE Activates(p)
  BY <1>5 DEF Activates
<1>6. CASE Exits(p)
  BY <1>6 DEF Exits
<1>7. CASE Crashes(p)
  BY <1>7 DEF Crashes, listVars
<1> QED  BY <1>1, <1>2, <1>3, <1>4, <1>5, <1>6, <1>7 DEF Process

LEMMA ScanTyped ==
  ASSUME TypeOK, Scan
  PROVE  TypeOK'
<1> USE DEF TypeOK, NotProcesses, NotDisplay, procVars, StopsScan, listVars
<1>1. CASE AsksForScan
  BY <1>1 DEF AsksForScan
<1>2. CASE BeginsScan
  <2>1. requested' \in BOOLEAN /\ OK' = OK
    BY <1>2 DEF BeginsScan, GivenUntilDone
  <2>2. displayed' \subseteq Slots /\ index' \in Slots
        /\ spc' \in {"looks", "exited"}
    BY <1>2, FirstSlot DEF BeginsScan
  <2> QED  BY <1>2, <2>1, <2>2 DEF BeginsScan
<1>3. CASE LooksAtEntry
  BY <1>3 DEF LooksAtEntry, ctrlVars
<1>4. CASE Stats
  BY <1>4 DEF Stats, ctrlVars
<1>5. CASE ClearsEntry
  <2>1. update' \in BOOLEAN
    BY <1>5 DEF ClearsEntry
  <2>2. active' \in [Slots -> 0 .. 2]
    BY <1>5 DEF ClearsEntry, StateOnceGone
  <2> QED  BY <1>5, <2>1, <2>2 DEF ClearsEntry, ctrlVars
<1>6. CASE ChecksProcess
  BY <1>6 DEF ChecksProcess, ctrlVars
<1>7. CASE FlagsCrash
  BY <1>7 DEF FlagsCrash, ctrlVars
<1>8. CASE AddsEntry
  <2>1. OK' \in BOOLEAN
    BY <1>8 DEF AddsEntry, GivesBack
  <2>2. displayed' \subseteq Slots
    BY <1>8 DEF AddsEntry
  <2>3. index' \in Slots /\ spc' \in {"looks", "unmaps"} /\ todo' \subseteq Slots
    BY <1>8, <2>2, FirstSlot DEF AddsEntry, HasNext
  <2> QED  BY <1>8, <2>1, <2>2, <2>3 DEF AddsEntry
<1>9. CASE Unmaps
  BY <1>9 DEF Unmaps
<1>10. CASE Links
  <2>1. index' \in Slots /\ mapped' \subseteq Slots /\ todo' \subseteq Slots
    BY <1>10, FirstSlot DEF Links
  <2> QED  BY <1>10, <2>1 DEF Links
<1>11. CASE Sleeps
  BY <1>11 DEF Sleeps, ctrlVars
<1> QED  BY <1>1, <1>2, <1>3, <1>4, <1>5, <1>6, <1>7, <1>8, <1>9, <1>10, <1>11 DEF Scan

LEMMA StepTyped == TypeOK /\ [Next]_vars => TypeOK'
<1> SUFFICES ASSUME TypeOK, [Next]_vars  PROVE TypeOK'
  OBVIOUS
<1>1. ASSUME NEW p \in Procs, Process(p)  PROVE TypeOK'
  BY <1>1, ProcessTyped
<1>2. CASE Scan
  BY <1>2, ScanTyped
<1>3. CASE Display \/ Removes \/ Quits
  <2>1. /\ UNCHANGED <<active, PIDarray, procVars, scanVars, raced, requested, scanned, displayed>>
        /\ files' \subseteq files /\ mapped' \subseteq mapped
        /\ dpc' \in {"polls", "grants", "blocked", "displays", "joins", "over"}
    BY <1>3 DEF Display, StartsDisplay, Polls, Grants, Resumes, Displays, Removes, Quits, Joins,
                DisplayGoes, listVars
  <2>2. OK' \in BOOLEAN /\ loop' \in BOOLEAN
    BY <1>3 DEF Display, StartsDisplay, Polls, Grants, Resumes, Displays, Removes, Quits, Joins,
                DisplayGoes, TypeOK
  <2> QED  BY <2>1, <2>2 DEF TypeOK, procVars, scanVars
<1>4. CASE UNCHANGED vars
  BY <1>4 DEF vars, TypeOK, procVars, scanVars, listVars, ctrlVars
<1> QED  BY <1>1, <1>2, <1>3, <1>4 DEF Next

LEMMA InitTyped == Init => TypeOK
<1> SUFFICES ASSUME Init  PROVE TypeOK
  OBVIOUS
<1>1. /\ update \in BOOLEAN /\ missing \in BOOLEAN /\ requested \in BOOLEAN /\ OK \in BOOLEAN
      /\ loop \in BOOLEAN /\ scanned \in BOOLEAN
  BY DEF Init
<1>2. /\ active \in [Slots -> 0 .. 2] /\ PIDarray \in [Slots -> Procs \cup {Nobody}]
      /\ ppc \in [Procs -> Registering \cup {"idle", "runs", "exited", "crashed", "refused"}]
      /\ pindex \in [Procs -> Slots] /\ index \in Slots
  BY FirstSlot DEF Init
<1>3. /\ files = {} /\ todo = {} /\ displayed = {} /\ mapped = {} /\ raced = {}
      /\ spc = "asks" /\ dpc = "starts"
  BY DEF Init
<1> QED  BY <1>1, <1>2, <1>3 DEF TypeOK

(* The list, the processes and procCTRL are well typed, whatever starts,   *)
(* ends and crashes when: no index leaves the list.                        *)
THEOREM ListTypeCorrect == Spec => []TypeOK
BY InitTyped, StepTyped, PTL DEF Spec

------------------------------------------------------------------------------
(* The handshake of the two threads.                                       *)

(* What a step does to it.                                                 *)
LEMMA StepHandshake ==
  ASSUME TypeOK, HandshakeInv, [Next]_vars
  PROVE  HandshakeInv' /\ (dpc \in {"polls", "displays"} => UNCHANGED displayed)
<1> USE DEF HandshakeInv, Scanning
<1>1. ASSUME NEW p \in Procs, Process(p)
      PROVE  UNCHANGED <<spc, ctrlVars>>
  BY <1>1 DEF Process, Starts, LooksAtSlot, WritesPID, CreatesFile, Activates, Exits, Crashes,
              scanVars
<1>2. CASE UNCHANGED <<spc, ctrlVars>>
  BY <1>2 DEF ctrlVars
<1>3. CASE Scan
  <2>1. CASE AsksForScan
    BY <2>1 DEF AsksForScan, StopsScan
  <2>2. CASE BeginsScan
    BY <2>2 DEF BeginsScan, GivenUntilDone, StopsScan
  <2>3. CASE AddsEntry
    BY <2>3 DEF AddsEntry, GivesBack
  <2>4. CASE Unmaps
    BY <2>4 DEF Unmaps
  <2>5. CASE Links
    BY <2>5 DEF Links, StopsScan
  <2>6. CASE LooksAtEntry \/ Stats \/ ClearsEntry \/ ChecksProcess \/ FlagsCrash
    <3>1. /\ UNCHANGED ctrlVars /\ Scanning
          /\ spc' \in {"stats", "clears", "checks", "flags", "adds", "exited"}
      BY <2>6 DEF LooksAtEntry, Stats, ClearsEntry, ChecksProcess, FlagsCrash, NotDisplay, StopsScan
    <3> QED  BY <3>1 DEF ctrlVars
  <2>7. CASE Sleeps
    BY <2>7 DEF Sleeps, NotDisplay, ctrlVars
  <2> QED  BY <1>3, <2>1, <2>2, <2>3, <2>4, <2>5, <2>6, <2>7 DEF Scan
<1>4. CASE Display \/ Removes \/ Quits
  BY <1>4 DEF Display, StartsDisplay, Polls, Grants, Resumes, Displays, Removes, Quits, Joins,
              DisplayGoes, scanVars
<1> QED  BY <1>1, <1>2, <1>3, <1>4 DEF Next, vars, scanVars

LEMMA InitHandshake == Init => HandshakeInv
BY DEF Init, HandshakeInv, Scanning

(* The scan never changes the list under the display thread.               *)
THEOREM ListIsStable == Spec => ListStable
<1>1. TypeOK /\ HandshakeInv /\ [Next]_vars
        => HandshakeInv' /\ (dpc \in {"polls", "displays"} => UNCHANGED displayed)
  BY StepHandshake
<1> QED
  BY InitTyped, StepTyped, InitHandshake, <1>1, PTL DEF Spec, ListStable

------------------------------------------------------------------------------
(* What the scan knows.                                                    *)

LEMMA StepScan ==
  ASSUME TypeOK, ScanInv, [Next]_vars
  PROVE  ScanInv'
<1> USE DEF ScanInv, Scanning
<1>1. ASSUME NEW p \in Procs, Process(p)  PROVE ScanInv'
  <2>1. /\ UNCHANGED <<spc, index, update, displayed>>
        /\ active' = active \/ active' = [active EXCEPT ![pindex[p]] = 1]
    BY <1>1 DEF Process, Starts, LooksAtSlot, WritesPID, CreatesFile, Activates, Exits, Crashes,
                scanVars, ctrlVars, listVars
  <2>2. \A s \in Slots : active'[s] = active[s] \/ active'[s] = 1
    BY <2>1 DEF TypeOK
  <2> QED  BY <2>1, <2>2 DEF TypeOK
<1>2. CASE Scan
  <2>1. CASE AsksForScan
    BY <2>1 DEF AsksForScan, StopsScan, listVars
  <2>2. CASE BeginsScan
    BY <2>2 DEF BeginsScan, StopsScan, listVars
  <2>3. CASE LooksAtEntry
    BY <2>3 DEF LooksAtEntry, StopsScan, NotDisplay, ctrlVars, listVars
  <2>4. CASE Stats
    BY <2>4 DEF Stats, NotDisplay, ctrlVars, listVars
  <2>5. CASE ClearsEntry
    <3>1. /\ spc = "clears" /\ spc' = "checks" /\ UNCHANGED <<index, displayed>>
          /\ IF missing THEN active' = [active EXCEPT ![index] = 0] /\ update' = FALSE
                        ELSE UNCHANGED <<active, update>>
      BY <2>5 DEF ClearsEntry, StateOnceGone, NotDisplay, ctrlVars
    <3>2. \A s \in displayed : active'[s] = active[s]
      <4>1. \A s \in displayed : s # index
        BY <3>1, ListAssumption DEF TypeOK, Slots
      <4> QED  BY <3>1, <4>1 DEF TypeOK
    <3> QED  BY <3>1, <3>2
  <2>6. CASE ChecksProcess
    BY <2>6 DEF ChecksProcess, NotDisplay, ctrlVars, listVars
  <2>7. CASE FlagsCrash
    <3>1. /\ spc = "flags" /\ spc' = "adds" /\ UNCHANGED <<index, displayed, update>>
          /\ active' = [active EXCEPT ![index] = 2]
      BY <2>7 DEF FlagsCrash, NotDisplay, ctrlVars
    <3>2. \A s \in Slots : active'[s] = IF s = index THEN 2 ELSE active[s]
      BY <3>1 DEF TypeOK
    <3> QED  BY <3>1, <3>2 DEF TypeOK
  <2>8. CASE AddsEntry
    <3>1. /\ spc = "adds" /\ active' = active
          /\ displayed' = IF update THEN displayed \cup {index} ELSE displayed
          /\ (index' = index + 1 /\ spc' = "looks") \/ spc' = "unmaps"
      BY <2>8 DEF AddsEntry, listVars
    <3>2. index \in Nat /\ displayed \subseteq Nat
      BY ListAssumption DEF TypeOK, Slots
    <3> QED  BY <3>1, <3>2
  <2>9. CASE Unmaps \/ Links \/ Sleeps
    <3>1. UNCHANGED <<active, displayed>> /\ spc' \in {"sleeps", "links", "unmaps", "exited", "asks"}
      BY <2>9 DEF Unmaps, Links, Sleeps, StopsScan, NotDisplay, ctrlVars, listVars
    <3> QED  BY <3>1
  <2> QED  BY <1>2, <2>1, <2>2, <2>3, <2>4, <2>5, <2>6, <2>7, <2>8, <2>9 DEF Scan
<1>3. CASE Display \/ Removes \/ Quits \/ UNCHANGED vars
  <2>1. UNCHANGED <<spc, index, update, displayed, active>>
    BY <1>3 DEF Display, StartsDisplay, Polls, Grants, Resumes, Displays, Removes, Quits, Joins,
                DisplayGoes, vars, scanVars, listVars, ctrlVars
  <2> QED  BY <2>1
<1> QED  BY <1>1, <1>2, <1>3 DEF Next

------------------------------------------------------------------------------
(* What a process knows.                                                   *)

LEMMA StepOwner ==
  ASSUME TypeOK, OwnerInv, [Next]_vars
  PROVE  OwnerInv'
<1> USE DEF OwnerInv
<1>1. ASSUME NEW q \in Procs, Process(q)  PROVE OwnerInv'
  <2>1. CASE WritesPID(q)
    <3>1. /\ ppc[q] = "claims" /\ ppc' = [ppc EXCEPT ![q] = "creates"] /\ pindex' = pindex
          /\ PIDarray' = [PIDarray EXCEPT ![pindex[q]] = q]
      BY <2>1 DEF WritesPID, Goes
    <3> QED  BY <3>1 DEF TypeOK
  <2>2. CASE Starts(q) \/ LooksAtSlot(q)
    <3>1. /\ ppc[q] \in {"idle", "looks"} /\ PIDarray' = PIDarray
          /\ \A p \in Procs \ {q} : ppc'[p] = ppc[p] /\ pindex'[p] = pindex[p]
      BY <2>2 DEF Starts, LooksAtSlot, Goes, TypeOK, listVars
    <3> QED  BY <3>1
  <2>3. CASE CreatesFile(q) \/ Activates(q) \/ Exits(q) \/ Crashes(q)
    <3>1. /\ UNCHANGED <<PIDarray, pindex>>
          /\ \E pc \in {"activates", "runs", "exited", "crashed"} : ppc' = [ppc EXCEPT ![q] = pc]
      BY <2>3 DEF CreatesFile, Activates, Exits, Crashes, Goes, listVars
    <3> QED  BY <3>1 DEF TypeOK
  <2> QED  BY <1>1, <2>1, <2>2, <2>3 DEF Process
<1>2. CASE Scan \/ Display \/ Removes \/ Quits \/ UNCHANGED vars
  <2>1. UNCHANGED <<ppc, pindex, PIDarray>>
    BY <1>2 DEF Scan, AsksForScan, BeginsScan, LooksAtEntry, Stats, ClearsEntry, ChecksProcess,
            FlagsCrash, AddsEntry, Unmaps, Links, Sleeps, NotProcesses, Display, StartsDisplay,
            Polls, Grants, Resumes, Displays, Removes, Quits, Joins, DisplayGoes, vars, procVars,
            listVars
  <2> QED  BY <2>1
<1> QED  BY <1>1, <1>2 DEF Next

(* A process that does not step keeps what it has, whatever another does.  *)
LEMMA OtherUndisputed ==
  ASSUME TypeOK, OwnerInv, NEW q \in Procs, Process(q),
         NEW p \in Procs, p # q, p \notin raced', p \notin raced => (Taken(p) => Undisputed(p)),
         Taken(p)'
  PROVE  Undisputed(p)'
<1>0. /\ raced \subseteq raced' /\ UNCHANGED <<spc, index, missing>>
      /\ ppc'[p] = ppc[p] /\ pindex'[p] = pindex[p]
  BY DEF Process, Starts, LooksAtSlot, WritesPID, CreatesFile, Activates, Exits, Crashes, Goes,
         TypeOK, scanVars
<1>1. p \notin raced /\ Undisputed(p) /\ pindex[p] \in Slots
  BY <1>0 DEF Taken, TypeOK
<1>2. \A r \in Procs \ {p, q} : ppc'[r] = ppc[r] /\ pindex'[r] = pindex[r]
  BY DEF Process, Starts, LooksAtSlot, WritesPID, CreatesFile, Activates, Exits, Crashes, Goes, TypeOK
<1>3. (Holds(q, pindex[p]) => FALSE)'
  <2> SUFFICES ASSUME Holds(q, pindex[p])'  PROVE FALSE
    OBVIOUS
  <2>1. ppc'[q] \in {"claims", "creates", "activates"} /\ pindex'[q] = pindex[p]
    BY <1>0 DEF Holds
  <2>2. ~Holds(q, pindex[p])
    BY <1>1 DEF Undisputed
  <2>3. CASE LooksAtSlot(q)
    <3>1. /\ ppc'[q] = "claims" /\ IsFree(pindex[q]) /\ pindex'[q] = pindex[q]
          /\ Holds(p, pindex[q]) => p \in raced'
      BY <2>1, <2>3 DEF LooksAtSlot, Goes, TypeOK
    <3>2. ppc[p] # "runs"
      BY <1>1, <2>1, <3>1 DEF Undisputed, IsFree
    <3>3. Holds(p, pindex[q])
      BY <1>0, <2>1, <3>1, <3>2 DEF Taken, Holds
    <3> QED  BY <3>1, <3>3
  <2>4. CASE ~LooksAtSlot(q)
    <3>1. /\ ppc[q] \in {"claims", "creates"} /\ pindex'[q] = pindex[q]
      BY <2>1, <2>4 DEF Process, Starts, WritesPID, CreatesFile, Activates, Exits, Crashes, Goes, TypeOK
    <3> QED  BY <2>1, <2>2, <3>1 DEF Holds
  <2> QED  BY <2>3, <2>4
<1>4. (\A r \in Procs \ {p} : ~Holds(r, pindex[p]))'
  BY <1>0, <1>1, <1>2, <1>3 DEF Undisputed, Holds
<1>5. /\ active'[pindex[p]] = active[pindex[p]]
      /\ PIDarray'[pindex[p]] = PIDarray[pindex[p]]
      /\ p \in files' <=> p \in files
  <2>1. CASE WritesPID(q) \/ Activates(q)
    <3>1. pindex[q] # pindex[p]
      BY <1>1, <2>1 DEF Undisputed, Holds, WritesPID, Activates, Goes
    <3>2. /\ files' = files
          /\ \/ active' = [active EXCEPT ![pindex[q]] = 1] /\ PIDarray' = PIDarray
             \/ active' = active /\ PIDarray' = [PIDarray EXCEPT ![pindex[q]] = q]
      BY <2>1 DEF WritesPID, Activates
    <3> QED  BY <1>1, <3>1, <3>2 DEF TypeOK
  <2>2. CASE ~WritesPID(q) /\ ~Activates(q)
    <3>1. UNCHANGED <<active, PIDarray>> /\ files' \in {files, files \cup {q}, files \ {q}}
      BY <2>2 DEF Process, Starts, LooksAtSlot, CreatesFile, Exits, Crashes, listVars
    <3> QED  BY <3>1
  <2> QED  BY <2>1, <2>2
<1> QED
  BY <1>0, <1>1, <1>4, <1>5 DEF Undisputed

(* A process that steps.                                                   *)
LEMMA OwnUndisputed ==
  ASSUME TypeOK, OwnerInv, ScanInv, NEW p \in Procs, Process(p),
         p \notin raced', p \notin raced => (Taken(p) => Undisputed(p)),
         Taken(p)'
  PROVE  Undisputed(p)'
<1>0. /\ raced \subseteq raced' /\ UNCHANGED <<spc, index, missing>>
      /\ \A r \in Procs \ {p} : ppc'[r] = ppc[r] /\ pindex'[r] = pindex[r]
      /\ pindex[p] \in Slots
  BY DEF Process, Starts, LooksAtSlot, WritesPID, CreatesFile, Activates, Exits, Crashes, Goes,
         TypeOK, scanVars
<1>1. CASE LooksAtSlot(p)
  <2>1. /\ ppc'[p] = "claims" /\ active[pindex[p]] = 0 /\ UNCHANGED <<pindex, listVars>>
        /\ raced' = raced
             \cup (IF spc = "clears" /\ index = pindex[p] /\ missing THEN {p} ELSE {})
             \cup (IF \E q \in Procs : Holds(q, pindex[p])
                   THEN {p} \cup {q \in Procs : Holds(q, pindex[p])} ELSE {})
    BY <1>1 DEF LooksAtSlot, Goes, IsFree, Taken, TypeOK
  <2>2. /\ ~(spc = "clears" /\ index = pindex[p] /\ missing)
        /\ \A q \in Procs : ~Holds(q, pindex[p])
    BY <2>1
  <2>3. ~(spc = "flags" /\ index = pindex[p])
    BY <2>1 DEF ScanInv
  <2>4. (\A q \in Procs \ {p} : ~Holds(q, pindex[p]))'
    BY <1>0, <2>1, <2>2 DEF Holds
  <2> QED  BY <1>0, <2>1, <2>2, <2>3, <2>4 DEF Undisputed, listVars
<1>2. CASE WritesPID(p) \/ CreatesFile(p) \/ Activates(p)
  <2>1. pindex' = pindex /\ Taken(p)
    BY <1>2 DEF WritesPID, CreatesFile, Activates, Goes, Taken
  <2>2. Undisputed(p)
    BY <1>0, <2>1
  <2>3. (\A q \in Procs \ {p} : ~Holds(q, pindex[p]))'
    BY <1>0, <2>1, <2>2 DEF Undisputed, Holds
  <2>4. CASE WritesPID(p)
    <3>1. /\ ppc[p] = "claims" /\ ppc'[p] = "creates" /\ UNCHANGED <<active, files>>
          /\ PIDarray'[pindex[p]] = p
      BY <1>0, <2>4 DEF WritesPID, Goes, TypeOK
    <3> QED  BY <1>0, <2>1, <2>2, <2>3, <3>1 DEF Undisputed
  <2>5. CASE CreatesFile(p)
    <3>1. /\ ppc[p] = "creates" /\ ppc'[p] = "activates" /\ UNCHANGED <<active, PIDarray>>
          /\ p \in files'
      BY <1>0, <2>5 DEF CreatesFile, Goes, TypeOK
    <3> QED  BY <1>0, <2>1, <2>2, <2>3, <3>1 DEF Undisputed
  <2>6. CASE Activates(p)
    <3>1. /\ ppc[p] = "activates" /\ ppc'[p] = "runs" /\ UNCHANGED <<files, PIDarray>>
          /\ active'[pindex[p]] = 1
      BY <1>0, <2>6 DEF Activates, Goes, TypeOK
    <3> QED  BY <1>0, <2>1, <2>2, <2>3, <3>1 DEF Undisputed
  <2> QED  BY <1>2, <2>4, <2>5, <2>6
<1>3. CASE Starts(p) \/ Exits(p) \/ Crashes(p)
  BY <1>3 DEF Starts, Exits, Crashes, Goes, Taken, TypeOK
<1> QED  BY <1>1, <1>2, <1>3 DEF Process

(* A process, while procCTRL steps.                                        *)
LEMMA ScannedUndisputed ==
  ASSUME TypeOK, OwnerInv, ScanInv, HandshakeInv, Scan \/ Display \/ Removes \/ Quits,
         NEW p \in Procs, p \notin raced', p \notin raced => (Taken(p) => Undisputed(p)),
         Taken(p)'
  PROVE  Undisputed(p)'
<1>0. /\ raced \subseteq raced' /\ UNCHANGED <<ppc, pindex, PIDarray>> /\ pindex[p] \in Slots
  BY DEF Scan, AsksForScan, BeginsScan, LooksAtEntry, Stats, ClearsEntry, ChecksProcess,
         FlagsCrash, AddsEntry, Unmaps, Links, Sleeps, NotProcesses, Display, StartsDisplay,
         Polls, Grants, Resumes, Displays, Removes, Quits, Joins, DisplayGoes, procVars,
         listVars, TypeOK
<1>1. p \notin raced /\ Taken(p) /\ Undisputed(p)
  BY <1>0 DEF Taken
<1>2. (\A q \in Procs \ {p} : ~Holds(q, pindex[p]))'
  BY <1>0, <1>1 DEF Undisputed, Holds
<1>3. CASE Stats
  <2>1. /\ missing' = (PIDarray[index] \notin files) /\ spc' = "clears"
        /\ UNCHANGED <<active, files, index>>
        /\ raced' = raced \cup (IF missing' THEN {r \in Procs : Holds(r, index)} ELSE {})
    BY <1>3 DEF Stats, listVars
  <2>2. missing' /\ index = pindex[p] => FALSE
    <3> SUFFICES ASSUME missing', index = pindex[p]  PROVE FALSE
      OBVIOUS
    <3>1. ~Holds(p, index)
      BY <2>1
    <3>2. ppc[p] = "runs"
      BY <1>1, <3>1 DEF Taken, Holds
    <3>3. PIDarray[index] = p /\ p \in files
      BY <1>1, <3>2 DEF Undisputed
    <3>4. PIDarray[index] \notin files
      BY <2>1, Zenon
    <3> QED  BY <3>3, <3>4
  <2> QED  BY <1>0, <1>1, <1>2, <2>1, <2>2 DEF Undisputed
<1>4. CASE ClearsEntry
  <2>1. /\ spc = "clears" /\ spc' = "checks" /\ UNCHANGED <<files, index, missing>>
        /\ IF missing THEN active' = [active EXCEPT ![index] = 0] ELSE active' = active
    BY <1>4 DEF ClearsEntry, StateOnceGone
  <2>2. active'[pindex[p]] = active[pindex[p]]
    BY <1>0, <1>1, <2>1 DEF Undisputed, TypeOK
  <2> QED  BY <1>0, <1>1, <1>2, <2>1, <2>2 DEF Undisputed
<1>5. CASE ChecksProcess
  <2>1. /\ spc' \in {"flags", "adds"} /\ UNCHANGED <<active, files, index, missing>>
        /\ spc' = "flags" => active[index] = 1 /\ ~Alive(PIDarray[index])
    BY <1>5 DEF ChecksProcess, listVars
  <2>2. ~(spc' = "flags" /\ index = pindex[p])
    <3> SUFFICES ASSUME spc' = "flags", index = pindex[p]  PROVE FALSE
      OBVIOUS
    <3>1. ppc[p] = "runs" /\ PIDarray[index] = p
      BY <1>1, <2>1 DEF Undisputed
    <3> QED  BY <2>1, <3>1, ListAssumption DEF Alive
  <2> QED  BY <1>0, <1>1, <1>2, <2>1, <2>2 DEF Undisputed
<1>6. CASE FlagsCrash
  <2>1. /\ spc = "flags" /\ spc' = "adds" /\ UNCHANGED <<files, index, missing>>
        /\ active' = [active EXCEPT ![index] = 2]
    BY <1>6 DEF FlagsCrash
  <2>2. active'[pindex[p]] = active[pindex[p]]
    BY <1>0, <1>1, <2>1 DEF Undisputed, TypeOK
  <2> QED  BY <1>0, <1>1, <1>2, <2>1, <2>2 DEF Undisputed
<1>7. CASE Removes
  <2>1. /\ UNCHANGED <<active, spc, index, missing>>
        /\ \E s \in displayed : active[s] # 1 /\ files' = files \ {PIDarray[s]}
    BY <1>7 DEF Removes, MayRemove, DisplayGoes, scanVars
  <2>2. PICK s \in displayed : active[s] # 1 /\ files' = files \ {PIDarray[s]}
    BY <2>1
  <2>3. PIDarray[s] # p
    <3> SUFFICES ASSUME PIDarray[s] = p  PROVE FALSE
      OBVIOUS
    <3>1. pindex[p] = s
      BY DEF OwnerInv, TypeOK
    <3>2. active[s] # 0
      BY DEF ScanInv
    <3> QED  BY <1>1, <2>2, <3>1, <3>2 DEF Undisputed
  <2> QED  BY <1>0, <1>1, <1>2, <2>1, <2>2, <2>3 DEF Undisputed
<1>8. CASE \/ AsksForScan \/ BeginsScan \/ LooksAtEntry \/ AddsEntry \/ Unmaps \/ Links \/ Sleeps
           \/ Display \/ Quits
  <2>1. /\ UNCHANGED <<active, files>>
        /\ UNCHANGED <<spc, index, missing>> \/ spc' \notin {"clears", "flags"}
    BY <1>8 DEF AsksForScan, BeginsScan, LooksAtEntry, AddsEntry, Unmaps, Links, Sleeps, StopsScan,
            Display, StartsDisplay, Polls, Grants, Resumes, Displays, Quits, Joins, DisplayGoes,
            listVars, scanVars
  <2> QED  BY <1>0, <1>1, <1>2, <2>1 DEF Undisputed
<1> QED  BY <1>3, <1>4, <1>5, <1>6, <1>7, <1>8 DEF Scan

LEMMA StepUndisputed ==
  ASSUME TypeOK, OwnerInv, ScanInv, HandshakeInv, UndisputedInv, [Next]_vars
  PROVE  UndisputedInv'
<1> SUFFICES ASSUME NEW p \in Procs, p \notin raced', Taken(p)'  PROVE Undisputed(p)'
  BY DEF UndisputedInv
<1>1. p \notin raced => (Taken(p) => Undisputed(p))
  BY DEF UndisputedInv
<1>2. ASSUME NEW q \in Procs, Process(q)  PROVE Undisputed(p)'
  BY <1>1, <1>2, OtherUndisputed, OwnUndisputed
<1>3. CASE Scan \/ Display \/ Removes \/ Quits
  BY <1>1, <1>3, ScannedUndisputed
<1>4. CASE UNCHANGED vars
  <2>1. UNCHANGED <<raced, ppc, pindex, active, PIDarray, files, spc, index, missing>>
    BY <1>4 DEF vars, listVars, procVars, scanVars
  <2> QED  BY <1>1, <2>1 DEF Taken, Undisputed, Holds
<1> QED  BY <1>2, <1>3, <1>4 DEF Next

(* A process whose registration met nobody keeps its slot and its file.    *)
THEOREM RegistrationHolds == Spec => []RegisteredUnlessRaced
<1>1. Init => OwnerInv /\ ScanInv /\ UndisputedInv
  BY ListAssumption DEF Init, OwnerInv, ScanInv, UndisputedInv, Scanning, Taken
<1>2. TypeOK /\ HandshakeInv /\ [Next]_vars => HandshakeInv'
  BY StepHandshake
<1>3. TypeOK /\ OwnerInv /\ [Next]_vars => OwnerInv'
  BY StepOwner
<1>4. TypeOK /\ ScanInv /\ [Next]_vars => ScanInv'
  BY StepScan
<1>5. TypeOK /\ OwnerInv /\ ScanInv /\ HandshakeInv /\ UndisputedInv /\ [Next]_vars
        => UndisputedInv'
  BY StepUndisputed
<1>6. UndisputedInv => RegisteredUnlessRaced
  BY DEF UndisputedInv, RegisteredUnlessRaced, Undisputed, Registered, Taken
<1> QED
  BY InitTyped, StepTyped, InitHandshake, <1>1, <1>2, <1>3, <1>4, <1>5, <1>6, PTL DEF Spec
=============================================================================
