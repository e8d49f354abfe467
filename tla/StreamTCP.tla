----------------------------- MODULE StreamTCP ------------------------------
(***************************************************************************)
(* A stream sent over TCP.  The connection carries the metadata of the     *)
(* stream, then frames: pixels followed by a small trailer that names the  *)
(* slice.  Nothing marks where a frame begins: the receiver, who throws    *)
(* away what came before it was ready, must throw away whole frames.       *)
(*                                                                         *)
(* A frame is cut into FrameUnits units, the last of which holds the       *)
(* trailer; a socket holds ConnLen of them and the transmitter, once it is *)
(* full, is blocked in the middle of a frame.  It may die there.           *)
(***************************************************************************)
EXTENDS StreamTransmit, Sequences

CONSTANTS
  FrameUnits,  \* units of a frame
  ConnLen      \* units the connection holds

ASSUME TCPAssumption == FrameUnits \in Nat \ {0} /\ ConnLen \in Nat \ {0}

VARIABLES
  sent,       \* history: what was transmitted
  k,          \* next unit to be sent
  conn,       \* units in the connection
  rpc,        \* the receiver: where it is
  recvsize,   \* units received, or still to be thrown away
  loopOK,     \* no exit was asked for at the last loop step
  CTRLexit,   \* the process control asks for an exit
  buff,       \* the frame being received
  published   \* history: the frames published, and the slice each was put in

linkVars == <<sent, k>>
recvVars == <<rpc, recvsize, loopOK, buff, published>>
vars == <<sourceVars, transmitVars, linkVars, conn, recvVars, CTRLexit>>

Parts == 0 .. FrameUnits - 1
Trailer == FrameUnits - 1

\* A unit is known by its transmission and its place in the frame; 0 is no transmission.
Unit == [tx : 0 .. MaxFrames, part : Parts]

TypeOK ==
  /\ TransmitTypeOK
  /\ sent \in Seq([slice : Slices, frame : 0 .. MaxFrames])
  /\ k \in Parts
  /\ conn \in Seq(Unit) /\ Len(conn) <= ConnLen
  /\ rpc \in {"flush", "flushrest", "top", "recv", "ended"}
  /\ recvsize \in 0 .. FrameUnits
  /\ loopOK \in BOOLEAN /\ CTRLexit \in BOOLEAN
  /\ buff \in [Parts -> Unit]
  /\ published \in Seq([slot : Slices, parts : [Parts -> Unit]])

\* The connection is made and the receiver has read the metadata of the stream.
Init ==
  /\ TransmitInit
  /\ sent = <<>> /\ k = 0 /\ conn = <<>>
  /\ rpc = "flush" /\ recvsize = 0 /\ loopOK = TRUE /\ CTRLexit = FALSE
  /\ buff = [p \in Parts |-> [tx |-> 0, part |-> p]]
  /\ published = <<>>

------------------------------------------------------------------------------
(* The transmitter.                                                        *)

NotTheReceiver == UNCHANGED <<recvVars, CTRLexit>>

\* The slice the trailer names is the one that is sent.
\* Fault: it is the one written last.
TrailerSliceNewest(s) == cnt1
TrailerSlice(s) == s

PicksSlice ==
  /\ tpc = "slice"
  /\ slice' = NextSlice(oldslice)
  /\ sent' = Append(sent, [slice |-> TrailerSlice(slice'), frame |-> 0])
  /\ tpc' = "data"
  /\ NotTheReceiver
  /\ UNCHANGED <<sourceVars, k, conn, cnt, drained, oldslice>>

CopiesData ==
  /\ tpc = "data"
  /\ sent' = [sent EXCEPT ![Len(sent)].frame = image[slice]]
  /\ tpc' = "send"
  /\ NotTheReceiver
  /\ UNCHANGED <<sourceVars, k, conn, cnt, drained, slice, oldslice>>

\* Blocks while the connection is full.
Sends ==
  /\ tpc = "send" /\ rpc # "ended"
  /\ Len(conn) < ConnLen
  /\ conn' = Append(conn, [tx |-> Len(sent), part |-> k])
  /\ IF k = FrameUnits - 1
     THEN k' = 0 /\ Transmitted
     ELSE k' = k + 1 /\ UNCHANGED transmitVars
  /\ NotTheReceiver /\ UNCHANGED <<sourceVars, sent>>

\* The other end has closed: the transmission fails, and the transmitter ends.
SendFails ==
  /\ tpc = "send" /\ rpc = "ended"
  /\ tpc' = "ended"
  /\ NotTheReceiver /\ UNCHANGED <<sourceVars, linkVars, conn, cnt, drained, slice, oldslice>>

Transmitter ==
  \/ (Wakes \/ WaitTimesOut) /\ NotTheReceiver /\ UNCHANGED <<linkVars, conn>>
  \/ PicksSlice \/ CopiesData \/ Sends \/ SendFails

\* It is told to stop, or dies, even in the middle of a frame.
TransmitterStops ==
  /\ tpc # "ended"
  /\ tpc' = "ended"
  /\ NotTheReceiver /\ UNCHANGED <<sourceVars, linkVars, conn, cnt, drained, slice, oldslice>>

Closed == tpc = "ended" /\ conn = <<>>

------------------------------------------------------------------------------
(* The receiver.                                                           *)

NotTheTransmitter == UNCHANGED <<sourceVars, transmitVars, linkVars, CTRLexit>>

\* What came before the loop is thrown away, a frame at a time, and if the last one
\* has only begun the rest of it is waited for.
\* Fault: it is not.
FlushRestNone(size) == 0
FlushRest(size) == FrameUnits - size

Flushes ==
  /\ rpc = "flush"
  /\ LET size == IF Len(conn) < FrameUnits THEN Len(conn) ELSE FrameUnits
     IN  /\ conn' = SubSeq(conn, size + 1, Len(conn))
         /\ recvsize' = IF size \in 1 .. FrameUnits - 1 THEN FlushRest(size) ELSE 0
         /\ rpc' = IF size = FrameUnits THEN "flush" ELSE IF size = 0 THEN "top" ELSE "flushrest"
  /\ NotTheTransmitter /\ UNCHANGED <<loopOK, buff, published>>

FlushesRest ==
  /\ rpc = "flushrest"
  /\ IF recvsize = 0 \/ Closed
     THEN rpc' = "top" /\ recvsize' = 0 /\ UNCHANGED conn
     ELSE conn # <<>> /\ conn' = Tail(conn) /\ recvsize' = recvsize - 1 /\ UNCHANGED rpc
  /\ NotTheTransmitter /\ UNCHANGED <<loopOK, buff, published>>

\* A loop step.  The request to exit is noticed, yet a frame is waited for.
BeginsIteration ==
  /\ rpc = "top"
  /\ loopOK' = ~CTRLexit
  /\ rpc' = "recv"
  /\ NotTheTransmitter /\ UNCHANGED <<conn, recvsize, buff, published>>

\* The call returns with a frame, or with what there was when the connection closed.
\* Fault: it returns with what there is (MSG_WAITALL is missing).
ReceivedSome == recvsize = FrameUnits \/ (conn = <<>> /\ recvsize > 0)
ReceivedAll == recvsize = FrameUnits \/ (Closed /\ recvsize > 0)

Receives ==
  /\ rpc = "recv" /\ ~ReceivedAll
  /\ conn # <<>>
  /\ conn' = Tail(conn)
  /\ buff' = [buff EXCEPT ![recvsize] = Head(conn)]
  /\ recvsize' = recvsize + 1
  /\ NotTheTransmitter /\ UNCHANGED <<rpc, loopOK, published>>

\* Nothing came: the other end has closed.
ReceivesNothing ==
  /\ rpc = "recv" /\ Closed /\ recvsize = 0
  /\ rpc' = "ended"
  /\ NotTheTransmitter /\ UNCHANGED <<conn, recvsize, loopOK, buff, published>>

\* The frame goes to the slice its trailer names.
Slot(tx) == IF tx = 0 THEN 0 ELSE sent[tx].slice

Publishes ==
  /\ rpc = "recv" /\ ReceivedAll
  /\ published' = Append(published, [slot |-> Slot(buff[Trailer].tx), parts |-> buff])
  /\ recvsize' = 0
  /\ rpc' = IF loopOK THEN "top" ELSE "ended"
  /\ NotTheTransmitter /\ UNCHANGED <<conn, loopOK, buff>>

Receiver ==
  Flushes \/ FlushesRest \/ BeginsIteration \/ Receives \/ ReceivesNothing \/ Publishes

AsksForExit ==
  /\ ~CTRLexit
  /\ CTRLexit' = TRUE
  /\ UNCHANGED <<sourceVars, transmitVars, linkVars, conn, recvVars>>

Next ==
  \/ Writer /\ UNCHANGED <<linkVars, conn, recvVars, CTRLexit>>
  \/ Transmitter \/ TransmitterStops \/ Receiver \/ AsksForExit

Spec == Init /\ [][Next]_vars

\* The writer counts the frame it has begun to write.
FairSpec ==
  /\ Spec
  /\ WF_vars(Transmitter) /\ WF_vars(Receiver)
  /\ WF_vars(WriterPublishes /\ UNCHANGED <<linkVars, conn, recvVars, CTRLexit>>)

------------------------------------------------------------------------------
(* What the link promises.                                                 *)

Frame(i) == sent[published[i].parts[Trailer].tx].frame
Whole(i) ==
  \A p \in Parts : published[i].parts[p] = [tx |-> published[i].parts[Trailer].tx, part |-> p]

\* The receiver never loses its place in the byte stream: each part of a frame is where it
\* belongs.  A frame is published whole, but for the last one of a transmitter that died in the
\* middle of it: what was received of it is completed with the frame before.
PublishedWhole ==
  \A i \in 1 .. Len(published) :
    /\ \A p \in Parts : published[i].parts[p].part = p
    /\ Whole(i) \/ (i = Len(published) /\ tpc = "ended" /\ k # 0)

\* A frame is put in the slice it was read from.  The frame is the one this slice held,
\* and its number tells which slice that is.
SlicesInPlace ==
  \A i \in 1 .. Len(published) : Whole(i) => published[i].slot = Frame(i) % NBslices

(* The refinement: a transmission begins when its slice is picked, and is  *)
(* delivered when it is published, unless it is what was received of the   *)
(* last frame of a transmitter that died.                                  *)
NbWhole == IF published # <<>> /\ ~Whole(Len(published)) THEN Len(published) - 1 ELSE Len(published)
Named == [t \in 1 .. Len(sent) |-> sent[t].slice]
Delivered ==
  [i \in 1 .. NbWhole |-> [tx |-> published[i].parts[Trailer].tx, slot |-> published[i].slot]]

Relay == INSTANCE StreamRelay WITH Lossless <- TRUE, named <- Named, delivered <- Delivered

(* Once it has begun the link delivers every frame that is transmitted,    *)
(* once, in order, and in its slice, until one of its ends stops.          *)
ImplementsRelay == Relay!Spec

\* A transmitter that lags behind is not late by more than the slices of the stream: a
\* frame written while the receiver listens is published in the end, or another less than
\* NBslices older, unless one of the processes stops.
BeingWritten(n) == writing /\ cnt0 = n - 1 /\ rpc \in {"top", "recv"}
FreshEnough ==
  \A n \in 1 .. MaxFrames :
    BeingWritten(n) ~> \/ tpc = "ended" \/ CTRLexit
                 \/ \E i \in 1 .. Len(published) : Frame(i) > n - NBslices
=============================================================================
