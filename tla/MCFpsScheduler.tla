--------------------------- MODULE MCFpsScheduler ---------------------------
(* Small instances of FpsScheduler for TLC. *)
EXTENDS FpsScheduler

CONSTANT f1

On(op, f) == [op |-> op, fps |-> f]
Queueprio(q, p) == [op |-> "queueprio", queue |-> q, prio |-> p]

\* A run is waited for, while it ends, crashes or is stopped from any queue.
RunCmds == {On("runstart", f1), On("runstop", f1)}

\* Commands of an FPS, and commands that resolve to none.
MixedCmds ==
  {On("runstart", f1), On("confupdate", f1), On("other", f1),
   [op |-> "nofps"]}

\* Commands that pause a queue or end the loop.
ControlCmds == {On("runstart", f1), Queueprio(0, 0), [op |-> "exit"]}

\* A run that is only ever started.
RunOnly == {On("runstart", f1)}

ConfCmds == {On("confupdate", f1), On("other", f1)}
==============================================================================
