--------------------------- MODULE MCProcinfoLoop ---------------------------
(* Settings for the model checker. *)
EXTENDS ProcinfoLoop

S(mode, max, fps, sem, n, posts) ==
  [mode |-> mode, loopcntMax |-> max, fps |-> fps, sem |-> sem, cnt0 |-> n, posts |-> posts]

\* Endless and bounded loops on a stream that is new, that has been written
\* before, and that has a post nobody took; with and without an FPS.
AllStarts ==
  {S("SEMAPHORE", -1, TRUE, TRUE, 0, 0), S("SEMAPHORE", 2, FALSE, TRUE, 1, 1),
   S("SEMAPHORE", 2, FALSE, FALSE, 1, 0), S("CNT0", -1, TRUE, TRUE, 1, 0),
   S("CNT0", 0, FALSE, TRUE, 0, 0), S("CNT1", 2, FALSE, TRUE, 0, 0),
   S("IMMEDIATE", 2, TRUE, TRUE, 0, 0), S("DELAY", 2, FALSE, TRUE, 0, 0)}

SlicedStarts == {S("CNT1", -1, FALSE, TRUE, 0, 0)}
=============================================================================
