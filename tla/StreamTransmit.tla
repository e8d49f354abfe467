--------------------------- MODULE StreamTransmit ---------------------------
(***************************************************************************)
(* What the two network links have in common: a stream of slices, written  *)
(* by another process, and the loop of the transmitter up to the frame it  *)
(* is about to send.  A transmitter is woken by a semaphore or polls the   *)
(* counter cnt0; it then picks a slice, which lags behind when frames come *)
(* faster than they are sent, and copies it with no lock.                  *)
(*                                                                         *)
(* A frame is the value of cnt0 it was written with; frame n is written to *)
(* slice n % NBslices.                                                     *)
(***************************************************************************)
EXTENDS Integers

CONSTANTS
  NBslices,         \* slices of the stream
  UseSem,           \* is the transmitter woken by a semaphore?
  SEMAPHORE_MAXVAL, \* a semaphore is not posted beyond this value
  MaxFrames         \* bound: frames written

ASSUME TransmitAssumption ==
  /\ NBslices \in Nat \ {0} /\ UseSem \in BOOLEAN
  /\ SEMAPHORE_MAXVAL \in Nat /\ MaxFrames \in Nat

VARIABLES
  image,          \* the slices: the frame each holds
  cnt0, cnt1,     \* frames counted, slice of the last one
  semval,         \* value of the semaphore of the transmitter
  writing,        \* is the next frame written and not yet counted?
  tpc,            \* the transmitter: where it is
  cnt,            \* counter value it has seen
  drained,        \* has it driven the semaphore to zero, once?
  slice, oldslice

sourceVars   == <<image, cnt0, cnt1, semval, writing>>
transmitVars == <<tpc, cnt, drained, slice, oldslice>>

Slices == 0 .. NBslices - 1

TransmitTypeOK ==
  /\ image \in [Slices -> 0 .. MaxFrames]
  /\ cnt0 \in 0 .. MaxFrames /\ cnt1 \in Slices
  /\ semval \in 0 .. SEMAPHORE_MAXVAL /\ writing \in BOOLEAN
  /\ tpc \in {"wait", "slice", "data", "send", "ended"}
  /\ cnt \in 0 .. MaxFrames /\ drained \in BOOLEAN
  /\ slice \in Slices /\ oldslice \in Slices

TransmitInit ==
  /\ image = [s \in Slices |-> 0]
  /\ cnt0 = 0 /\ cnt1 = 0 /\ semval = 0 /\ writing = FALSE
  /\ tpc = "wait" /\ cnt = 0 /\ drained = FALSE
  /\ slice = 0 /\ oldslice = 0

------------------------------------------------------------------------------
(* The writer of the stream: pixels, then counters and semaphore.          *)

WriterWrites ==
  /\ cnt0 < MaxFrames /\ ~writing
  /\ image' = [image EXCEPT ![(cnt0 + 1) % NBslices] = cnt0 + 1]
  /\ writing' = TRUE
  /\ UNCHANGED <<cnt0, cnt1, semval, transmitVars>>

WriterPublishes ==
  /\ writing
  /\ writing' = FALSE
  /\ cnt0' = cnt0 + 1
  /\ cnt1' = (cnt0 + 1) % NBslices
  /\ semval' = IF semval < SEMAPHORE_MAXVAL THEN semval + 1 ELSE semval
  /\ UNCHANGED <<image, transmitVars>>

Writer == WriterWrites \/ WriterPublishes

------------------------------------------------------------------------------
(* The transmitter.                                                        *)

\* Polls the counter, or takes a post.  The first time, the posts that are
\* left are taken too.
Wakes ==
  /\ tpc = "wait"
  /\ IF UseSem
     THEN /\ semval > 0
          /\ semval' = IF drained THEN semval - 1 ELSE 0
          /\ drained' = TRUE
          /\ UNCHANGED cnt
     ELSE /\ cnt0 # cnt
          /\ cnt' = cnt0
          /\ UNCHANGED <<semval, drained>>
  /\ tpc' = "slice"
  /\ UNCHANGED <<image, cnt0, cnt1, writing, slice, oldslice>>

\* The wait times out: nothing is sent, but posts that have come meanwhile
\* are taken the first time.
WaitTimesOut ==
  /\ tpc = "wait" /\ UseSem /\ ~drained
  /\ drained' = TRUE
  /\ semval' = 0
  /\ UNCHANGED <<image, cnt0, cnt1, writing, tpc, cnt, slice, oldslice>>

\* The slice last written, but no further than the one after the slice sent
\* last, and the first one after the last one.
NextSlice(old) ==
  IF NBslices > 1 /\ old = NBslices - 1 THEN 0
  ELSE IF cnt1 > old + 1 THEN old + 1
  ELSE cnt1

\* After what the link sends, the transmitter waits again.
\* Fault: frames that came meanwhile count as seen.
TransmittedLate ==
  /\ oldslice' = slice
  /\ cnt' = cnt0
  /\ tpc' = "wait"
  /\ UNCHANGED <<drained, slice>>

Transmitted ==
  /\ oldslice' = slice
  /\ tpc' = "wait"
  /\ UNCHANGED <<cnt, drained, slice>>
=============================================================================
