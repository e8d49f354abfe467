----------------------------- MODULE StreamUDP ------------------------------
(***************************************************************************)
(* A stream sent over UDP.  A frame, its metadata first, is cut into       *)
(* datagrams that carry a magic byte and their index in the frame, and     *)
(* nothing that names the frame.  The receiver takes a frame to be a       *)
(* datagram 0 followed by the datagrams 1, 2, ...; anything else makes it  *)
(* abort the frame, empty its socket and wait for a datagram 0.            *)
(*                                                                         *)
(* The network and the socket of the receiver are one queue: datagrams are *)
(* lost, because the queue is full or for any other reason, or overtaken.  *)
(* A datagram is known by the transmission it is a part of.                *)
(***************************************************************************)
EXTENDS StreamTransmit, Sequences, FiniteSets

CONSTANTS
  NDgrams,            \* n_udp_dgrams: datagrams of a frame
  CHAR_RANGE,         \* 2^8: an index is sent as a signed char
  MAX_DATAGRAM_WAIT,  \* datagrams read while waiting for a datagram 0
  QueueLen,           \* datagrams the socket holds
  MaxLost, MaxSwaps   \* bounds: datagrams lost, and overtaken

ASSUME UDPAssumption ==
  /\ NDgrams \in Nat \ {0} /\ CHAR_RANGE \in Nat \ {0} /\ 2 * NDgrams <= CHAR_RANGE
  /\ MAX_DATAGRAM_WAIT \in Nat \ {0} /\ QueueLen \in Nat
  /\ MaxLost \in Nat /\ MaxSwaps \in Nat

VARIABLES
  sent,          \* history: what was transmitted
  k,             \* next datagram to be sent
  queue,         \* the network and the socket
  rpc,           \* the receiver: where it is
  n_dgram_wait,
  abort_frame,
  loopOK,        \* no exit was asked for at the last loop step
  CTRLexit,      \* the process control asks for an exit
  k_dgram,       \* datagram it waits for
  buff,          \* the frame being put together: the transmission of each part
  published,     \* history: the frames published, and the slice each was put in
  lost, swaps    \* datagrams lost and overtaken

linkVars == <<sent, k>>
recvVars == <<rpc, n_dgram_wait, abort_frame, loopOK, k_dgram, buff, published>>
vars == <<sourceVars, transmitVars, linkVars, queue, recvVars, CTRLexit, lost, swaps>>

Parts == 0 .. NDgrams - 1
Nothing == 0
Transmissions == Nothing .. MaxFrames

\* A char is signed: indices from CHAR_RANGE / 2 on are negative.
\* Fault: the sign takes one value more.
AsNarrowChar(n) == IF n % CHAR_RANGE < CHAR_RANGE \div 2 - 1 THEN n % CHAR_RANGE
                   ELSE (n % CHAR_RANGE) - CHAR_RANGE
AsChar(n) == IF n % CHAR_RANGE < CHAR_RANGE \div 2 THEN n % CHAR_RANGE
             ELSE (n % CHAR_RANGE) - CHAR_RANGE

\* tx is the transmission the datagram is a part of, index the byte on the wire.
Dgram == [tx : Transmissions, index : {AsChar(p) : p \in Parts}]

TypeOK ==
  /\ TransmitTypeOK
  /\ sent \in Seq([cnt1 : Slices, frame : 0 .. MaxFrames])
  /\ k \in Parts
  /\ queue \in Seq(Dgram) /\ Len(queue) <= QueueLen
  /\ rpc \in {"meta", "top", "purge", "resync", "first", "next", "publish", "ended"}
  /\ n_dgram_wait \in 0 .. MAX_DATAGRAM_WAIT - 1
  /\ abort_frame \in BOOLEAN /\ loopOK \in BOOLEAN /\ CTRLexit \in BOOLEAN
  /\ k_dgram \in Parts
  /\ buff \in [Parts -> Transmissions]
  /\ published \in Seq([slot : Slices, parts : [Parts -> Transmissions]])
  /\ lost \in Nat /\ swaps \in 0 .. MaxSwaps

Init ==
  /\ TransmitInit
  /\ sent = <<>> /\ k = 0 /\ queue = <<>>
  /\ rpc = "meta" /\ n_dgram_wait = 0 /\ abort_frame = TRUE /\ loopOK = TRUE /\ CTRLexit = FALSE
  /\ k_dgram = 0 /\ buff = [p \in Parts |-> Nothing]
  /\ published = <<>> /\ lost = 0 /\ swaps = 0

------------------------------------------------------------------------------
(* The transmitter: metadata and pixels are copied one after the other,    *)
(* then sent datagram by datagram.                                         *)

NotTheReceiver == UNCHANGED <<recvVars, CTRLexit, swaps>>

\* The metadata is that of the stream as it is now.
CopiesMetadata ==
  /\ tpc = "slice"
  /\ slice' = NextSlice(oldslice)
  /\ sent' = Append(sent, [cnt1 |-> cnt1, frame |-> 0])
  /\ tpc' = "data"
  /\ NotTheReceiver
  /\ UNCHANGED <<sourceVars, k, queue, cnt, drained, oldslice, lost>>

CopiesData ==
  /\ tpc = "data"
  /\ sent' = [sent EXCEPT ![Len(sent)].frame = image[slice]]
  /\ tpc' = "send"
  /\ NotTheReceiver
  /\ UNCHANGED <<sourceVars, k, queue, cnt, drained, slice, oldslice, lost>>

\* A datagram is queued, or lost; after the last one the transmitter waits again.
Sends ==
  /\ tpc = "send"
  /\ \/ /\ Len(queue) < QueueLen
        /\ queue' = Append(queue, [tx |-> Len(sent), index |-> AsChar(k)])
        /\ UNCHANGED lost
     \/ /\ lost < MaxLost \/ Len(queue) = QueueLen
        /\ lost' = lost + 1
        /\ UNCHANGED queue
  /\ IF k = NDgrams - 1
     THEN k' = 0 /\ Transmitted
     ELSE k' = k + 1 /\ UNCHANGED transmitVars
  /\ NotTheReceiver /\ UNCHANGED <<sourceVars, sent>>

Transmitter ==
  \/ (Wakes \/ WaitTimesOut) /\ NotTheReceiver /\ UNCHANGED <<linkVars, queue, lost>>
  \/ CopiesMetadata \/ CopiesData \/ Sends

\* A datagram overtakes the one before it.
Overtakes ==
  /\ swaps < MaxSwaps
  /\ swaps' = swaps + 1
  /\ \E i \in 1 .. Len(queue) - 1 :
       queue' = [queue EXCEPT ![i] = queue[i + 1], ![i + 1] = queue[i]]
  /\ UNCHANGED <<sourceVars, transmitVars, linkVars, recvVars, CTRLexit, lost>>

------------------------------------------------------------------------------
(* The receiver.                                                           *)

NotTheTransmitter == UNCHANGED <<sourceVars, transmitVars, linkVars, CTRLexit, lost, swaps>>

Received == Head(queue)
Takes == queue # <<>> /\ queue' = Tail(queue)

\* The last datagram waited for is an error, even when it is a datagram 0.
\* Fault: one datagram less is waited for.
WaitedEnoughSoon == n_dgram_wait >= MAX_DATAGRAM_WAIT - 2
WaitedEnough == n_dgram_wait >= MAX_DATAGRAM_WAIT - 1

\* Waits for the metadata of the stream: a datagram 0.
WaitsForMetadata ==
  /\ rpc = "meta"
  /\ Takes
  /\ rpc' = IF WaitedEnough THEN "ended" ELSE IF Received.index = 0 THEN "top" ELSE "meta"
  /\ n_dgram_wait' = IF rpc' = "meta" THEN n_dgram_wait + 1 ELSE 0
  /\ NotTheTransmitter
  /\ UNCHANGED <<abort_frame, loopOK, k_dgram, buff, published>>

\* A loop step.  The request to exit is noticed, yet a frame is waited for.
\* Fault: the socket is emptied before each frame.
BeginsIterationPurging ==
  /\ rpc = "top"
  /\ loopOK' = ~CTRLexit
  /\ rpc' = "purge"
  /\ NotTheTransmitter
  /\ UNCHANGED <<queue, n_dgram_wait, abort_frame, k_dgram, buff, published>>

BeginsIteration ==
  /\ rpc = "top"
  /\ loopOK' = ~CTRLexit
  /\ rpc' = IF abort_frame THEN "purge" ELSE "first"
  /\ NotTheTransmitter
  /\ UNCHANGED <<queue, n_dgram_wait, abort_frame, k_dgram, buff, published>>

\* Empties the socket.
Purges ==
  /\ rpc = "purge"
  /\ IF queue = <<>> THEN rpc' = "resync" /\ UNCHANGED queue ELSE Takes /\ UNCHANGED rpc
  /\ NotTheTransmitter
  /\ UNCHANGED <<n_dgram_wait, abort_frame, loopOK, k_dgram, buff, published>>

\* Fault: the datagram 0 is not copied.
BeginsFrameUncopied ==
  /\ k_dgram' = IF loopOK /\ NDgrams > 1 THEN 1 ELSE k_dgram
  /\ rpc' = IF loopOK /\ NDgrams > 1 THEN "next" ELSE "publish"
  /\ UNCHANGED buff

\* The datagram just read is the datagram 0 of a frame, copied unless an exit was
\* asked for: then the buffer is published as it is.
BeginsFrame ==
  IF loopOK
  THEN /\ buff' = [buff EXCEPT ![0] = Received.tx]
       /\ k_dgram' = IF NDgrams > 1 THEN 1 ELSE 0
       /\ rpc' = IF NDgrams > 1 THEN "next" ELSE "publish"
  ELSE /\ rpc' = "publish"
       /\ UNCHANGED <<buff, k_dgram>>

\* Waits for a datagram 0, a number of times.
Resyncs ==
  /\ rpc = "resync"
  /\ Takes
  /\ IF WaitedEnough
     THEN rpc' = "ended" /\ n_dgram_wait' = 0 /\ UNCHANGED <<abort_frame, k_dgram, buff>>
     ELSE IF Received.index = 0
     THEN abort_frame' = FALSE /\ n_dgram_wait' = 0 /\ BeginsFrame
     ELSE /\ n_dgram_wait' = n_dgram_wait + 1
          /\ UNCHANGED <<rpc, abort_frame, k_dgram, buff>>
  /\ NotTheTransmitter /\ UNCHANGED <<loopOK, published>>

\* In sync, the next datagram should be a datagram 0.  If an exit was asked for, what
\* it is does not matter.
FirstArrives ==
  /\ rpc = "first"
  /\ Takes
  /\ IF Received.index = 0 \/ ~loopOK
     THEN BeginsFrame /\ UNCHANGED abort_frame
     ELSE abort_frame' = TRUE /\ rpc' = "top" /\ UNCHANGED <<k_dgram, buff>>
  /\ NotTheTransmitter /\ UNCHANGED <<n_dgram_wait, loopOK, published>>

\* The datagrams that follow it are to come in order.
\* Fault: their index is not looked at.
FollowsAlways == TRUE
Follows == Received.index = k_dgram

NextArrives ==
  /\ rpc = "next"
  /\ Takes
  /\ IF Follows
     THEN /\ buff' = [buff EXCEPT ![k_dgram] = Received.tx]
          /\ IF k_dgram = NDgrams - 1
             THEN rpc' = "publish" /\ k_dgram' = 0
             ELSE k_dgram' = k_dgram + 1 /\ UNCHANGED rpc
          /\ UNCHANGED abort_frame
     ELSE abort_frame' = TRUE /\ rpc' = "top" /\ k_dgram' = 0 /\ UNCHANGED buff
  /\ NotTheTransmitter /\ UNCHANGED <<n_dgram_wait, loopOK, published>>

\* The frame is copied to the slice its metadata names.  A buffer that was never
\* filled names no slice.
Slot(tx) == IF tx = Nothing THEN 0 ELSE sent[tx].cnt1

Publishes ==
  /\ rpc = "publish"
  /\ published' = Append(published, [slot |-> Slot(buff[0]), parts |-> buff])
  /\ rpc' = IF loopOK THEN "top" ELSE "ended"
  /\ NotTheTransmitter
  /\ UNCHANGED <<queue, n_dgram_wait, abort_frame, loopOK, k_dgram, buff>>

Receiver ==
  \/ WaitsForMetadata \/ BeginsIteration \/ Purges \/ Resyncs
  \/ FirstArrives \/ NextArrives \/ Publishes

AsksForExit ==
  /\ ~CTRLexit
  /\ CTRLexit' = TRUE
  /\ UNCHANGED <<sourceVars, transmitVars, linkVars, queue, recvVars, lost, swaps>>

Next ==
  \/ Writer /\ UNCHANGED <<linkVars, queue, recvVars, CTRLexit, lost, swaps>>
  \/ Transmitter \/ Overtakes \/ Receiver \/ AsksForExit

Spec == Init /\ [][Next]_vars
FairSpec == Spec /\ WF_vars(Receiver)

------------------------------------------------------------------------------
(* What the link promises.                                                 *)

\* Frames put together before an exit was asked for: the one published after that, by a
\* receiver that has not given up, is the last.
Regular ==
  IF rpc = "ended" /\ ~loopOK /\ ~abort_frame THEN Len(published) - 1 ELSE Len(published)
TxOf(i) == published[i].parts[0]
Mixed(i) == \E p \in Parts : published[i].parts[p] # TxOf(i)
Regulars == 1 .. Regular

\* Nothing in a datagram tells its frame, but unless one was overtaken it takes NDgrams
\* of them lost to have the parts of two frames published as one.
MixedOnlyByFaults ==
  NDgrams * (Cardinality({i \in Regulars : Mixed(i)}) - swaps) <= lost

\* Once in sync, frames are skipped or published twice only because of a fault, and each
\* fault is to blame for what happens at one place only: the receiver finds its way back.
\* Only when a frame is a single datagram is one overtaken missed, and wrong, at three.
Gap(i) == i > 1 /\ TxOf(i) # TxOf(i - 1) + 1
GapsAreFaults ==
  Cardinality({i \in Regulars : Gap(i)}) <= lost + (IF NDgrams = 1 THEN 3 ELSE 1) * swaps

(* The refinement: a transmission begins when its metadata is copied, and  *)
(* is delivered when the frame that begins with its datagram 0 is          *)
(* published.                                                              *)
Named == [t \in 1 .. Len(sent) |-> sent[t].cnt1]
Delivered == [i \in Regulars |-> [tx |-> TxOf(i), slot |-> published[i].slot]]

Relay == INSTANCE StreamRelay WITH Lossless <- FALSE, named <- Named, delivered <- Delivered

(* As long as fewer datagrams are overtaken than a frame has, frames are   *)
(* published in the order of the transmissions, none twice, and each in    *)
(* the slice it names, whatever is lost.                                   *)
ImplementsRelay == Relay!Spec

\* The receiver gives up only when datagrams 0 were lost.
GivesUpOnlyAfterLoss ==
  rpc = "ended" /\ loopOK => (NDgrams - 1) * (lost + swaps + 1) >= MAX_DATAGRAM_WAIT - 1

\* A receiver in sync, or looking for a datagram 0, publishes the frame that waits for it
\* in its socket.
WholeFrameWaits(tx) ==
  /\ (rpc = "top" /\ ~abort_frame) \/ (rpc = "resync" /\ loopOK /\ ~WaitedEnough)
  /\ swaps = MaxSwaps /\ Len(queue) >= NDgrams
  /\ \A i \in 1 .. NDgrams : queue[i] = [tx |-> tx, index |-> AsChar(i - 1)]
WholeFramePublished ==
  \A tx \in 1 .. MaxFrames :
    WholeFrameWaits(tx) ~> CTRLexit \/ \E i \in Regulars : TxOf(i) = tx /\ ~Mixed(i)
=============================================================================
