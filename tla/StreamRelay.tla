---------------------------- MODULE StreamRelay -----------------------------
(***************************************************************************)
(* What a network link promises to who reads the stream at its far end:    *)
(* each frame that is delivered was transmitted, goes to the slice that    *)
(* its transmission named, and is delivered once and in the order of the   *)
(* transmissions.  The first frame delivered may be any; after it, a link  *)
(* that is Lossless leaves none out.                                       *)
(***************************************************************************)
EXTENDS Naturals, Sequences

CONSTANTS
  Slices,    \* the slices of the stream
  Lossless   \* does the link deliver all that follows its first frame?

VARIABLES
  named,     \* the slice that each transmission names
  delivered  \* the frames delivered: their transmissions and slices

vars == <<named, delivered>>

Init == named = <<>> /\ delivered = <<>>

Transmit(s) ==
  /\ named' = Append(named, s)
  /\ UNCHANGED delivered

\* Transmission t may come next.
IsNext(t) ==
  delivered # <<>> =>
    LET last == delivered[Len(delivered)].tx
    IN  IF Lossless THEN t = last + 1 ELSE t > last

Deliver(t) ==
  /\ IsNext(t)
  /\ delivered' = Append(delivered, [tx |-> t, slot |-> named[t]])
  /\ UNCHANGED named

Next ==
  \/ \E s \in Slices : Transmit(s)
  \/ \E t \in 1 .. Len(named) : Deliver(t)

Spec == Init /\ [][Next]_vars
=============================================================================
