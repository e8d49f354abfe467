---------------------------- MODULE ProcinfoList ----------------------------
(***************************************************************************)
(* The list of processes in shared memory, and procCTRL, which watches it. *)
(*                                                                         *)
(* A process that starts looks for a slot that is not active, writes its   *)
(* PID there, creates the file of its processinfo and then marks the slot  *)
(* active; when it ends it removes the file.  It never gives the slot back *)
(* and takes no lock: that is the work of the scan thread of procCTRL.     *)
(*                                                                         *)
(* procCTRL has two threads.  The scan thread rebuilds the list on display *)
(* when the display thread says so, and the display thread waits for it;   *)
(* then it maps the processinfo files again, without being told to.        *)
(***************************************************************************)
EXTENDS Integers, FiniteSets

CONSTANTS
  Procs,              \* the processes that may start, each with its own PID
  PROCESSINFOLISTSIZE \* slots of the list

Nobody == "nobody"

ASSUME ListAssumption == PROCESSINFOLISTSIZE \in Nat \ {0} /\ Nobody \notin Procs

VARIABLES
  active, PIDarray,     \* the list: state and process of each slot
  files,                \* the processinfo files there are, by their process
  ppc,                  \* a process: where it is
  pindex,               \* and the slot it looks at or has taken
  spc,                  \* the scan thread: where it is
  index,                \* slot it looks at
  update, missing,      \* is it to be displayed? is its file missing?
  todo,                 \* slots it still has to map
  dpc,                  \* the display thread: where it is
  requested, OK,        \* SCANBLOCK_requested, SCANBLOCK_OK
  loop, scanned,        \* is the scan to go on? has it completed once (loopcnt)?
  displayed,            \* pindexActive: the slots on display
  mapped,               \* pinfommapped: the slots whose file is mapped
  raced                 \* history: processes whose registration met another actor

listVars == <<active, PIDarray, files>>
procVars == <<ppc, pindex>>
scanVars == <<spc, index, update, missing, todo>>
ctrlVars == <<dpc, requested, OK, loop, scanned, displayed, mapped>>
vars == <<listVars, procVars, scanVars, ctrlVars, raced>>

Slots == 0 .. PROCESSINFOLISTSIZE - 1

Registering == {"looks", "claims", "creates", "activates"}

TypeOK ==
  /\ active \in [Slots -> 0 .. 2]
  /\ PIDarray \in [Slots -> Procs \cup {Nobody}]
  /\ files \subseteq Procs
  /\ ppc \in [Procs -> Registering \cup {"idle", "runs", "exited", "crashed", "refused"}]
  /\ pindex \in [Procs -> Slots]
  /\ spc \in {"asks", "waits", "looks", "stats", "clears", "checks", "flags", "adds",
              "unmaps", "links", "sleeps", "exited"}
  /\ index \in Slots /\ update \in BOOLEAN /\ missing \in BOOLEAN
  /\ todo \subseteq Slots
  /\ dpc \in {"starts", "polls", "grants", "blocked", "displays", "joins", "over", "killed"}
  /\ requested \in BOOLEAN /\ OK \in BOOLEAN
  /\ loop \in BOOLEAN /\ scanned \in BOOLEAN
  /\ displayed \subseteq Slots /\ mapped \subseteq Slots
  /\ raced \subseteq Procs

Init ==
  /\ active = [s \in Slots |-> 0]
  /\ PIDarray = [s \in Slots |-> Nobody]
  /\ files = {}
  /\ ppc = [p \in Procs |-> "idle"] /\ pindex = [p \in Procs |-> 0]
  /\ spc = "asks" /\ index = 0 /\ update = FALSE /\ missing = FALSE /\ todo = {}
  /\ dpc = "starts" /\ requested = FALSE /\ OK = TRUE /\ loop = TRUE /\ scanned = FALSE
  /\ displayed = {} /\ mapped = {}
  /\ raced = {}

------------------------------------------------------------------------------
(* The processes.                                                          *)

Holds(p, s) == ppc[p] \in {"claims", "creates", "activates"} /\ pindex[p] = s

Goes(p, from, to) == ppc[p] = from /\ ppc' = [ppc EXCEPT ![p] = to]

Starts(p) ==
  /\ Goes(p, "idle", "looks")
  /\ pindex' = [pindex EXCEPT ![p] = 0]
  /\ UNCHANGED <<listVars, scanVars, ctrlVars, raced>>

\* Is the slot free?  Fault: a slot whose process has crashed is.
IsFreeOrCrashed(s) == active[s] # 1
IsFree(s) == active[s] = 0

HasNext(s) == s + 1 \in Slots

\* Looks at the slots one after the other; refused when there is none left.
LooksAtSlot(p) ==
  LET s == pindex[p]
  IN  /\ IF IsFree(s)
         THEN /\ Goes(p, "looks", "claims")
              /\ UNCHANGED pindex
              /\ raced' = raced
                   \cup (IF spc = "clears" /\ index = s /\ missing THEN {p} ELSE {})
                   \cup (IF \E q \in Procs : Holds(q, s)
                         THEN {p} \cup {q \in Procs : Holds(q, s)} ELSE {})
         ELSE /\ UNCHANGED raced
              /\ IF HasNext(s)
                 THEN /\ ppc[p] = "looks"
                      /\ pindex' = [pindex EXCEPT ![p] = s + 1]
                      /\ UNCHANGED ppc
                 ELSE Goes(p, "looks", "refused") /\ UNCHANGED pindex
      /\ UNCHANGED <<listVars, scanVars, ctrlVars>>

WritesPID(p) ==
  /\ Goes(p, "claims", "creates")
  /\ PIDarray' = [PIDarray EXCEPT ![pindex[p]] = p]
  /\ UNCHANGED <<active, files, pindex, scanVars, ctrlVars, raced>>

CreatesFile(p) ==
  /\ Goes(p, "creates", "activates")
  /\ files' = files \cup {p}
  /\ UNCHANGED <<active, PIDarray, pindex, scanVars, ctrlVars, raced>>

Activates(p) ==
  /\ Goes(p, "activates", "runs")
  /\ active' = [active EXCEPT ![pindex[p]] = 1]
  /\ UNCHANGED <<PIDarray, files, pindex, scanVars, ctrlVars, raced>>

\* A clean exit removes the file.
Exits(p) ==
  /\ Goes(p, "runs", "exited")
  /\ files' = files \ {p}
  /\ UNCHANGED <<active, PIDarray, pindex, scanVars, ctrlVars, raced>>

Crashes(p) ==
  /\ \E from \in Registering \cup {"runs"} : Goes(p, from, "crashed")
  /\ UNCHANGED <<listVars, pindex, scanVars, ctrlVars, raced>>

Process(p) ==
  \/ Starts(p) \/ LooksAtSlot(p) \/ WritesPID(p) \/ CreatesFile(p) \/ Activates(p)
  \/ Exits(p) \/ Crashes(p)

Alive(p) == p # Nobody /\ ppc[p] \in Registering \cup {"runs"}

------------------------------------------------------------------------------
(* The scan thread.                                                        *)

NotProcesses == UNCHANGED procVars
StopsScan == spc' = "exited"

AsksForScan ==
  /\ spc = "asks"
  /\ IF loop THEN requested' = TRUE /\ spc' = "waits" ELSE StopsScan /\ UNCHANGED requested
  /\ NotProcesses
  /\ UNCHANGED <<listVars, index, update, missing, todo, dpc, OK, loop, scanned, displayed,
                 mapped, raced>>

\* Fault: the permission is taken as soon as the scan has begun, not when it is over.
GivenAtOnce == OK' = FALSE
GivenUntilDone == UNCHANGED OK

BeginsScan ==
  /\ spc = "waits"
  /\ IF OK
     THEN /\ requested' = FALSE
          /\ displayed' = {}
          /\ index' = 0
          /\ spc' = "looks"
          /\ GivenUntilDone
     ELSE ~loop /\ StopsScan /\ UNCHANGED <<requested, OK, displayed, index>>
  /\ NotProcesses
  /\ UNCHANGED <<listVars, update, missing, todo, dpc, loop, scanned, mapped, raced>>

NotDisplay == UNCHANGED ctrlVars

\* A slot is displayed if its process is active or has crashed.
LooksAtEntry ==
  /\ spc = "looks"
  /\ IF loop
     THEN update' = (active[index] # 0) /\ spc' = "stats"
     ELSE StopsScan /\ UNCHANGED update
  /\ NotProcesses /\ NotDisplay
  /\ UNCHANGED <<listVars, index, missing, todo, raced>>

Stats ==
  /\ spc = "stats"
  /\ missing' = (PIDarray[index] \notin files)
  /\ spc' = "clears"
  /\ raced' = raced \cup (IF missing' THEN {p \in Procs : Holds(p, index)} ELSE {})
  /\ NotProcesses /\ NotDisplay
  /\ UNCHANGED <<listVars, index, update, todo>>

\* An entry without a file is not displayed, and its slot is free again.
\* Fault: it is only not displayed.
StateOnceKept(s) == active[s]
StateOnceGone(s) == 0

ClearsEntry ==
  /\ spc = "clears"
  /\ IF missing
     THEN active' = [active EXCEPT ![index] = StateOnceGone(index)] /\ update' = FALSE
     ELSE UNCHANGED <<active, update>>
  /\ spc' = "checks"
  /\ NotProcesses /\ NotDisplay
  /\ UNCHANGED <<PIDarray, files, index, missing, todo, raced>>

\* An active process that is not there has crashed.
ChecksProcess ==
  /\ spc = "checks"
  /\ spc' = IF active[index] = 1 /\ ~Alive(PIDarray[index]) THEN "flags" ELSE "adds"
  /\ NotProcesses /\ NotDisplay
  /\ UNCHANGED <<listVars, index, update, missing, todo, raced>>

FlagsCrash ==
  /\ spc = "flags"
  /\ active' = [active EXCEPT ![index] = 2]
  /\ spc' = "adds"
  /\ NotProcesses /\ NotDisplay
  /\ UNCHANGED <<PIDarray, files, index, update, missing, todo, raced>>

\* Fault: only when there is something to display.
GivesBackIfAny == OK' = (OK /\ displayed' = {})
GivesBack == OK' = FALSE

\* After the last slot the display thread may go on.
AddsEntry ==
  /\ spc = "adds"
  /\ displayed' = IF update THEN displayed \cup {index} ELSE displayed
  /\ IF HasNext(index)
     THEN index' = index + 1 /\ spc' = "looks" /\ UNCHANGED <<OK, todo>>
     ELSE index' = 0 /\ spc' = "unmaps" /\ GivesBack /\ todo' = displayed'
  /\ NotProcesses
  /\ UNCHANGED <<listVars, update, missing, dpc, requested, loop, scanned, mapped, raced>>

\* The files on display are unmapped and mapped again, one after the other.
Unmaps ==
  /\ spc = "unmaps"
  /\ IF todo = {}
     THEN spc' = "sleeps" /\ scanned' = TRUE /\ UNCHANGED <<index, mapped>>
     ELSE /\ \E s \in todo : (\A t \in todo : s <= t) /\ index' = s /\ mapped' = mapped \ {s}
          /\ spc' = "links"
          /\ UNCHANGED scanned
  /\ NotProcesses
  /\ UNCHANGED <<listVars, update, missing, todo, dpc, requested, OK, loop, displayed, raced>>

\* A file that is gone since it was looked for ends procCTRL.
Links ==
  /\ spc = "links"
  /\ IF PIDarray[index] \in files
     THEN /\ mapped' = mapped \cup {index}
          /\ todo' = todo \ {index}
          /\ spc' = "unmaps"
          /\ UNCHANGED dpc
     ELSE /\ StopsScan
          /\ dpc' = "killed"
          /\ UNCHANGED <<mapped, todo>>
  /\ index' = 0
  /\ NotProcesses
  /\ UNCHANGED <<listVars, update, missing, requested, OK, loop, scanned, displayed, raced>>

Sleeps ==
  /\ spc = "sleeps"
  /\ spc' = "asks"
  /\ NotProcesses /\ NotDisplay
  /\ UNCHANGED <<listVars, index, update, missing, todo, raced>>

Scan ==
  \/ AsksForScan \/ BeginsScan \/ LooksAtEntry \/ Stats \/ ClearsEntry \/ ChecksProcess
  \/ FlagsCrash \/ AddsEntry \/ Unmaps \/ Links \/ Sleeps

------------------------------------------------------------------------------
(* The display thread.                                                     *)

DisplayGoes(from, to) ==
  /\ dpc = from /\ dpc' = to
  /\ UNCHANGED <<procVars, scanVars, raced, requested, scanned, displayed>>

StartsDisplay ==
  /\ scanned
  /\ DisplayGoes("starts", "polls")
  /\ UNCHANGED <<listVars, OK, loop, mapped>>

Polls ==
  /\ DisplayGoes("polls", IF requested THEN "grants" ELSE "displays")
  /\ UNCHANGED <<listVars, OK, loop, mapped>>

Grants ==
  /\ DisplayGoes("grants", "blocked")
  /\ OK' = TRUE
  /\ UNCHANGED <<listVars, loop, mapped>>

Resumes ==
  /\ ~OK
  /\ DisplayGoes("blocked", "displays")
  /\ UNCHANGED <<listVars, OK, loop, mapped>>

Displays ==
  /\ DisplayGoes("displays", "polls")
  /\ UNCHANGED <<listVars, OK, loop, mapped>>

\* The operator removes the file of a process on display that is not active.
MayRemove(s) == active[s] # 1

Removes ==
  /\ \E s \in displayed : MayRemove(s) /\ files' = files \ {PIDarray[s]}
  /\ DisplayGoes("displays", "displays")
  /\ UNCHANGED <<active, PIDarray, OK, loop, mapped>>

Quits ==
  /\ DisplayGoes("displays", "joins")
  /\ loop' = FALSE
  /\ UNCHANGED <<listVars, OK, mapped>>

Joins ==
  /\ spc = "exited"
  /\ DisplayGoes("joins", "over")
  /\ mapped' = {}
  /\ UNCHANGED <<listVars, OK, loop>>

Display ==
  StartsDisplay \/ Polls \/ Grants \/ Resumes \/ Displays \/ Joins

Next ==
  \/ \E p \in Procs : Process(p)
  \/ Scan \/ Display \/ Removes \/ Quits

Spec == Init /\ [][Next]_vars
FairSpec == Spec /\ WF_vars(Scan) /\ WF_vars(Display)

------------------------------------------------------------------------------
(* What the list and the display promise.                                  *)

\* The list on display does not change while the display thread uses it.
ListStable == [][(dpc \in {"polls", "displays"}) => UNCHANGED displayed]_vars

\* A process that runs has its slot and its file, unless, while it registered, another
\* process took the same slot or the scan found that the slot had no file.
Registered(p) ==
  /\ PIDarray[pindex[p]] = p
  /\ active[pindex[p]] = 1
  /\ p \in files
RegisteredUnlessRaced == \A p \in Procs \ raced : ppc[p] = "runs" => Registered(p)

\* The display thread never waits forever for the scan, nor for its thread to end.
DisplayGoesOn == \A d \in {"blocked", "joins"} : dpc = d ~> dpc # d

\* The slot of a process that has ended is given back while procCTRL is watching.
SlotFreed ==
  \A p \in Procs : \A s \in Slots :
    (ppc[p] = "exited" /\ PIDarray[s] = p)
      ~> (active[s] = 0 \/ PIDarray[s] # p \/ dpc \in {"joins", "over", "killed"})

\* The files on display are mapped again while the display thread waits.
RemapsExclusively == spc = "links" => dpc \notin {"polls", "displays"}
=============================================================================
