---------------------------- MODULE FpsTaskQueues ----------------------------
(***************************************************************************)
(* What the fpsCTRL task scheduler promises to its clients, free of slots, *)
(* scans, counters and clocks: every queue is an independent FIFO of tasks *)
(* and runs one task at a time.  A task is named by its rank in the order  *)
(* of submission.                                                          *)
(*                                                                         *)
(* The promise is the RULES comment of function_parameter_process_fpsCMD-  *)
(* array and the comments on the fields of FPSCTRL_TASK_ENTRY ("Tasks      *)
(* within a queue run sequentially").                                      *)
(***************************************************************************)
EXTENDS Naturals

CONSTANT Queues   \* the queue indices

VARIABLES
  submitted,  \* how many tasks have been submitted so far
  pending,    \* [Queues -> sets of tasks that have not been launched]
  running     \* [Queues -> the task being run, as a set of at most one]

vars == <<submitted, pending, running>>

Init ==
  /\ submitted = 0
  /\ pending = [q \in Queues |-> {}]
  /\ running = [q \in Queues |-> {}]

\* A client appends a task to a queue.
Submit(q) ==
  /\ submitted' = submitted + 1
  /\ pending' = [pending EXCEPT ![q] = @ \cup {submitted}]
  /\ UNCHANGED running

\* The oldest pending task of an idle queue starts.
Launch(q, t) ==
  /\ running[q] = {}
  /\ t \in pending[q]
  /\ \A u \in pending[q] : t <= u
  /\ pending' = [pending EXCEPT ![q] = @ \ {t}]
  /\ running' = [running EXCEPT ![q] = {t}]
  /\ UNCHANGED submitted

\* The running task of a queue ends and leaves the queue idle.
Finish(q) ==
  /\ running[q] # {}
  /\ running' = [running EXCEPT ![q] = {}]
  /\ UNCHANGED <<submitted, pending>>

Next ==
  \E q \in Queues :
    \/ Submit(q)
    \/ \E t \in pending[q] : Launch(q, t)
    \/ Finish(q)

Spec == Init /\ [][Next]_vars
==============================================================================
