--------------------------- MODULE StreamUDP_proofs ---------------------------
(***************************************************************************)
(* The receiver of a UDP link: type correctness, when it gives up, what    *)
(* faults may make of the frames it publishes, and in which order it does, *)
(* whatever the sizes of the frame, of the queue and of the wait.          *)
(*                                                                         *)
(* The argument is an account of faults.  The datagrams from the one read  *)
(* last to the one sent next form a chain; where two that do not follow    *)
(* each other meet in it, a fault was counted.  When the receiver reads    *)
(* past such a place it may owe a gap, or a frame of two transmissions,    *)
(* and no fault pays for two of them.                                      *)
(*                                                                         *)
(* The order of the frames, and with it the refinement of StreamRelay,     *)
(* rests on another count: where a datagram 0 comes after the one of a     *)
(* later frame, each datagram between the two overtook, or was overtaken   *)
(* by, one of them.                                                        *)
(***************************************************************************)
EXTENDS StreamUDP, StreamTransmit_proofs, SequenceTheorems, FiniteSetTheorems

LEMMA Sizes ==
  /\ NDgrams \in Nat /\ NDgrams > 0 /\ MAX_DATAGRAM_WAIT \in Nat /\ MAX_DATAGRAM_WAIT > 0
  /\ MaxFrames \in Nat /\ QueueLen \in Nat /\ MaxSwaps \in Nat
  /\ 0 \in Parts /\ NDgrams - 1 \in Parts
  /\ \A p : p \in Parts <=> p \in Nat /\ p < NDgrams
BY UDPAssumption, TransmitAssumption DEF Parts

(* A char holds the index of every datagram of a frame.                    *)
LEMMA IndexSent ==
  ASSUME NEW p \in Parts
  PROVE  AsChar(p) = p
<1>1. CHAR_RANGE \in Nat /\ NDgrams \in Nat /\ 2 * NDgrams <= CHAR_RANGE /\ p \in 0 .. NDgrams - 1
  BY UDPAssumption DEF Parts
<1>2. NDgrams <= CHAR_RANGE \div 2
  BY <1>1
<1>3. p % CHAR_RANGE = p
  BY <1>1
<1> QED  BY <1>1, <1>2, <1>3 DEF AsChar

LEMMA DgramType == Dgram = [tx : Transmissions, index : Parts]
<1>1. {AsChar(p) : p \in Parts} = Parts
  BY IndexSent
<1> QED  BY <1>1 DEF Dgram

------------------------------------------------------------------------------
(* The transmissions that datagrams name have begun, and the receiver is   *)
(* where its variables say.                                                *)
TxInv ==
  /\ k # 0 => tpc = "send"
  /\ tpc \in {"data", "send"} => sent # <<>>
  /\ tpc # "ended"
  /\ \A i \in 1 .. Len(queue) : queue[i].tx \in 1 .. Len(sent)
  /\ \A p \in Parts : buff[p] \in 0 .. Len(sent)

SyncInv ==
  /\ rpc \in {"meta", "purge", "resync"} => abort_frame
  /\ rpc \in {"first", "next", "publish"} => ~abort_frame
  /\ rpc = "meta" => published = <<>>
  /\ rpc = "next" => loopOK /\ k_dgram # 0
  /\ rpc \in {"meta", "top"} => loopOK
  /\ rpc \in {"top", "first"} /\ ~abort_frame =>
       published # <<>> /\ published[Len(published)].parts = buff
  /\ rpc \notin {"meta", "resync"} => n_dgram_wait = 0

LinkInv == TypeOK /\ SourceInv /\ Answers(Len(sent)) /\ TxInv /\ SyncInv

Frames == [slot : Slices, parts : [Parts -> Transmissions]]
Records == [cnt1 : Slices, frame : 0 .. MaxFrames]

LEMMA StateTypes ==
  ASSUME LinkInv
  PROVE  /\ sent \in Seq(Records) /\ Len(sent) \in 0 .. MaxFrames
         /\ k \in Parts /\ queue \in Seq(Dgram) /\ Len(queue) \in Nat /\ Len(queue) <= QueueLen
         /\ \A i \in 1 .. Len(queue) : queue[i] \in Dgram
         /\ n_dgram_wait \in Nat /\ n_dgram_wait <= MAX_DATAGRAM_WAIT - 1
         /\ abort_frame \in BOOLEAN /\ loopOK \in BOOLEAN /\ CTRLexit \in BOOLEAN
         /\ k_dgram \in Parts /\ buff \in [Parts -> Transmissions]
         /\ published \in Seq(Frames) /\ Len(published) \in Nat
         /\ lost \in Nat /\ swaps \in Nat /\ swaps <= MaxSwaps
         /\ tpc \in {"wait", "slice", "data", "send"}
         /\ slice \in Slices /\ oldslice \in Slices /\ drained \in BOOLEAN
<1>1. sent \in Seq(Records) /\ Len(sent) \in Nat
  BY DEF LinkInv, TypeOK, Records
<1>2. Len(sent) \in 0 .. MaxFrames
  BY <1>1, AnswersWithin DEF LinkInv
<1>3. n_dgram_wait \in Nat /\ n_dgram_wait <= MAX_DATAGRAM_WAIT - 1
  BY Sizes DEF LinkInv, TypeOK
<1>4. swaps \in Nat /\ swaps <= MaxSwaps
  BY Sizes DEF LinkInv, TypeOK
<1>5. queue \in Seq(Dgram) /\ Len(queue) \in Nat /\ Len(queue) <= QueueLen
      /\ \A i \in 1 .. Len(queue) : queue[i] \in Dgram
  BY ElementOfSeq DEF LinkInv, TypeOK
<1>6. published \in Seq(Frames) /\ Len(published) \in Nat
  BY DEF LinkInv, TypeOK, Frames
<1>7. abort_frame \in BOOLEAN /\ loopOK \in BOOLEAN /\ CTRLexit \in BOOLEAN /\ drained \in BOOLEAN
  BY DEF LinkInv, TypeOK, TransmitTypeOK
<1>8. tpc \in {"wait", "slice", "data", "send"} /\ slice \in Slices /\ oldslice \in Slices
  BY DEF LinkInv, TypeOK, TransmitTypeOK, TxInv
<1>9. k \in Parts /\ k_dgram \in Parts /\ buff \in [Parts -> Transmissions] /\ lost \in Nat
  BY DEF LinkInv, TypeOK
<1> QED  BY <1>1, <1>2, <1>3, <1>4, <1>5, <1>6, <1>7, <1>8, <1>9

(* How the queue changes.                                                  *)
LEMMA TakesHead ==
  ASSUME LinkInv, Takes
  PROVE  /\ queue' \in Seq(Dgram) /\ Len(queue') = Len(queue) - 1 /\ Len(queue) >= 1
         /\ \A i \in 1 .. Len(queue') : queue'[i] = queue[i + 1]
         /\ Received = queue[1] /\ Received \in Dgram
         /\ Received.tx \in 1 .. Len(sent) /\ Received.index \in Parts
<1>1. queue \in Seq(Dgram) /\ queue # <<>> /\ queue' = Tail(queue)
  BY StateTypes DEF Takes
<1>2. Len(queue) \in Nat /\ Len(queue) >= 1
  BY <1>1, EmptySeq
<1>3. /\ queue' \in Seq(Dgram) /\ Len(queue') = Len(queue) - 1
      /\ \A i \in 1 .. Len(queue') : queue'[i] = queue[i + 1]
  BY <1>1, HeadTailProperties
<1>4. Received = queue[1] /\ 1 \in 1 .. Len(queue)
  BY <1>1, <1>2 DEF Received
<1>5. Received \in Dgram /\ Received.tx \in 1 .. Len(sent)
  BY <1>4, StateTypes DEF LinkInv, TxInv
<1> QED  BY <1>2, <1>3, <1>4, <1>5, DgramType

(* Steps of the writer and the transmitter.                                *)
LEMMA LinkQuiet ==
  ASSUME LinkInv, SourceInv', Answers(Len(sent))',
         UNCHANGED <<linkVars, queue, recvVars, lost, swaps>>, CTRLexit' \in BOOLEAN,
         tpc' # "ended", k # 0 => tpc' = "send",
         tpc' \in {"data", "send"} => tpc \in {"data", "send"}
  PROVE  LinkInv'
<1>1. UNCHANGED <<sent, k, rpc, n_dgram_wait, abort_frame, loopOK, k_dgram, buff, published>>
  BY DEF linkVars, recvVars
<1>2. TypeOK'
  BY <1>1 DEF LinkInv, TypeOK, SourceInv
<1>3. TxInv' /\ SyncInv'
  BY <1>1 DEF LinkInv, TxInv, SyncInv
<1> QED  BY <1>2, <1>3 DEF LinkInv

LEMMA LinkWriter ==
  ASSUME LinkInv, Writer, UNCHANGED <<linkVars, queue, recvVars, CTRLexit, lost, swaps>>
  PROVE  LinkInv' /\ UNCHANGED <<tpc, slice>>
<1>1. PICK n \in Nat : n = Len(sent)
  BY StateTypes
<1>2. Answers(n)
  BY <1>1 DEF LinkInv
<1>3. SourceInv' /\ Answers(n)'
  BY <1>2, WriterKeeps DEF LinkInv
<1>4. Answers(Len(sent))'
  BY <1>1, <1>3 DEF linkVars, Answers
<1>5. UNCHANGED <<tpc, slice>>
  BY DEF Writer, WriterWrites, WriterPublishes, transmitVars
<1>6. CTRLexit' \in BOOLEAN /\ tpc # "ended" /\ (k # 0 => tpc = "send")
  BY StateTypes DEF LinkInv, TxInv
<1> QED  BY <1>3, <1>4, <1>5, <1>6, LinkQuiet

LEMMA LinkWaits ==
  ASSUME LinkInv, Wakes \/ WaitTimesOut, NotTheReceiver, UNCHANGED <<linkVars, queue, lost>>
  PROVE  LinkInv' /\ tpc = "wait" /\ tpc' \in {"wait", "slice"}
<1>1. PICK n \in Nat : n = Len(sent)
  BY StateTypes
<1>2. Answers(n)
  BY <1>1 DEF LinkInv
<1>3. SourceInv' /\ Answers(n)'
  BY <1>2, WaitKeeps DEF LinkInv
<1>4. Answers(Len(sent))'
  BY <1>1, <1>3 DEF linkVars, Answers
<1>5. tpc = "wait" /\ tpc' \in {"wait", "slice"} /\ CTRLexit' \in BOOLEAN
  BY StateTypes DEF Wakes, WaitTimesOut, NotTheReceiver
<1>6. k = 0
  BY <1>5 DEF LinkInv, TxInv
<1> QED  BY <1>3, <1>4, <1>5, <1>6, LinkQuiet DEF NotTheReceiver

LEMMA LinkMetadata ==
  ASSUME LinkInv, CopiesMetadata
  PROVE  /\ LinkInv' /\ tpc = "slice" /\ tpc' = "data" /\ Len(sent') = Len(sent) + 1 /\ k = 0
         /\ UNCHANGED <<k, queue, recvVars, CTRLexit, lost, swaps>>
<1> DEFINE e == [cnt1 |-> cnt1, frame |-> 0]
<1>1. /\ tpc = "slice" /\ tpc' = "data" /\ slice' = NextSlice(oldslice) /\ sent' = Append(sent, e)
      /\ UNCHANGED <<sourceVars, k, queue, cnt, drained, oldslice, recvVars, CTRLexit, lost, swaps>>
  BY DEF CopiesMetadata, NotTheReceiver
<1>2. PICK n \in Nat : n = Len(sent)
  BY StateTypes
<1>3. /\ Answers(n) /\ SourceInv /\ drained \in BOOLEAN /\ oldslice \in Slices
      /\ sent \in Seq(Records)
  BY <1>2, StateTypes DEF LinkInv
<1>4. slice' \in Slices
  BY <1>1, <1>3, PickedIsWritten
<1>5. SourceInv' /\ Answers(n + 1)'
  BY <1>1, <1>3, <1>4, TransmissionKeeps
<1>6. sent' \in Seq(Records) /\ Len(sent') = n + 1 /\ sent' # <<>>
  <2>1. e \in Records
    BY <1>3, Sizes DEF SourceInv, TransmitTypeOK, Records
  <2> QED  BY <1>1, <1>2, <1>3, <2>1, AppendProperties
<1>7. Answers(Len(sent))'
  BY <1>5, <1>6 DEF Answers
<1>8. UNCHANGED <<rpc, n_dgram_wait, abort_frame, loopOK, k_dgram, buff, published>>
  BY <1>1 DEF recvVars
<1>9. TypeOK'
  BY <1>1, <1>5, <1>6, <1>8 DEF LinkInv, TypeOK, SourceInv, Records
<1>10. k = 0
  BY <1>1 DEF LinkInv, TxInv
<1>11. TxInv'
  BY <1>1, <1>2, <1>6, <1>8, <1>10 DEF LinkInv, TxInv
<1>12. SyncInv'
  BY <1>8 DEF LinkInv, SyncInv
<1> QED  BY <1>1, <1>2, <1>5, <1>6, <1>7, <1>9, <1>10, <1>11, <1>12 DEF LinkInv

LEMMA LinkCopies ==
  ASSUME LinkInv, CopiesData
  PROVE  /\ LinkInv' /\ tpc = "data" /\ tpc' = "send" /\ Len(sent') = Len(sent)
         /\ UNCHANGED <<k, queue, recvVars, CTRLexit, lost, swaps>>
<1>1. /\ tpc = "data" /\ tpc' = "send" /\ sent' = [sent EXCEPT ![Len(sent)].frame = image[slice]]
      /\ UNCHANGED <<sourceVars, k, queue, cnt, drained, slice, oldslice, recvVars, CTRLexit, lost, swaps>>
  BY DEF CopiesData, NotTheReceiver
<1>2. PICK n \in Nat : n = Len(sent)
  BY StateTypes
<1>3. /\ Answers(n) /\ SourceInv /\ drained \in BOOLEAN /\ slice \in Slices /\ oldslice \in Slices
      /\ sent \in Seq(Records) /\ sent # <<>> /\ image[slice] \in 0 .. MaxFrames
  BY <1>1, <1>2, StateTypes DEF LinkInv, TxInv, SourceInv, TransmitTypeOK
<1>4. n \in 1 .. Len(sent) /\ sent[n] \in Records
  <2>1. n # 0
    BY <1>2, <1>3, EmptySeq
  <2>2. n \in 1 .. Len(sent)
    BY <1>2, <2>1
  <2> QED  BY <1>3, <2>2, ElementOfSeq
<1>5. sent' \in Seq(Records) /\ Len(sent') = n /\ sent' # <<>>
  <2> DEFINE copied == [sent[n] EXCEPT !.frame = image[slice]]
  <2>1. copied \in Records
    BY <1>3, <1>4 DEF Records
  <2>2. sent' = [sent EXCEPT ![n] = copied]
    BY <1>1, <1>2
  <2> HIDE DEF copied
  <2>3. sent' \in Seq(Records) /\ Len(sent') = Len(sent)
    BY <1>3, <1>4, <2>1, <2>2, ExceptSeq
  <2> QED  BY <1>2, <1>4, <2>3
<1>6. SourceInv' /\ Answers(n)'
  BY <1>1, <1>3, TransmissionKeeps
<1>7. Answers(Len(sent))'
  BY <1>5, <1>6 DEF Answers
<1>8. UNCHANGED <<rpc, n_dgram_wait, abort_frame, loopOK, k_dgram, buff, published>>
  BY <1>1 DEF recvVars
<1>9. TypeOK'
  BY <1>1, <1>5, <1>6, <1>8 DEF LinkInv, TypeOK, SourceInv, Records
<1>10. TxInv'
  BY <1>1, <1>2, <1>5, <1>8 DEF LinkInv, TxInv
<1>11. SyncInv'
  BY <1>8 DEF LinkInv, SyncInv
<1> QED  BY <1>1, <1>2, <1>5, <1>6, <1>7, <1>9, <1>10, <1>11 DEF LinkInv

(* A datagram is queued or lost, and the next one is due.                  *)
QueueGrows == /\ Len(queue') = Len(queue) + 1 /\ UNCHANGED lost
              /\ \A i \in 1 .. Len(queue) : queue'[i] = queue[i]
              /\ queue'[Len(queue) + 1] = [tx |-> Len(sent), index |-> k]
Loses == lost' = lost + 1 /\ UNCHANGED queue
Advances == \/ k = NDgrams - 1 /\ k' = 0 /\ tpc' = "wait"
            \/ k < NDgrams - 1 /\ k' = k + 1 /\ tpc' = "send"

LEMMA LinkSends ==
  ASSUME LinkInv, Sends
  PROVE  /\ LinkInv' /\ tpc = "send" /\ UNCHANGED <<sent, recvVars, CTRLexit, swaps>>
         /\ QueueGrows \/ Loses
         /\ Advances
<1> DEFINE e == [tx |-> Len(sent), index |-> k]
<1>1. /\ tpc = "send" /\ UNCHANGED <<sourceVars, sent, cnt, drained, slice, recvVars, CTRLexit, swaps>>
      /\ \/ k = NDgrams - 1 /\ k' = 0 /\ oldslice' = slice /\ tpc' = "wait"
         \/ k # NDgrams - 1 /\ k' = k + 1 /\ oldslice' = oldslice /\ tpc' = tpc
  BY DEF Sends, NotTheReceiver, Transmitted, transmitVars
<1>2. PICK n \in Nat : n = Len(sent)
  BY StateTypes
<1>3. /\ Answers(n) /\ SourceInv /\ drained \in BOOLEAN /\ slice \in Slices /\ oldslice \in Slices
      /\ queue \in Seq(Dgram) /\ Len(queue) \in Nat /\ Len(queue) <= QueueLen
      /\ k \in Parts /\ n <= MaxFrames /\ sent # <<>> /\ lost \in Nat
  BY <1>1, <1>2, StateTypes DEF LinkInv, TxInv
<1>4. n >= 1
  BY <1>2, <1>3, EmptySeq
<1>5. e \in Dgram /\ AsChar(k) = k
  <2>1. AsChar(k) = k
    BY <1>3, IndexSent
  <2>2. n \in Transmissions
    BY <1>3, <1>4, Sizes DEF Transmissions, Nothing
  <2> QED  BY <1>2, <1>3, <2>1, <2>2, DgramType
<1>6. Advances /\ k' \in Parts
  BY <1>1, <1>3, Sizes DEF Advances
<1>7. SourceInv' /\ Answers(n)'
  BY <1>1, <1>3, TransmissionKeeps
<1>8. Answers(Len(sent))'
  BY <1>1, <1>2, <1>7 DEF Answers
<1>9. UNCHANGED <<rpc, n_dgram_wait, abort_frame, loopOK, k_dgram, buff, published>>
  BY <1>1 DEF recvVars
<1>10. SyncInv'
  BY <1>9 DEF LinkInv, SyncInv
<1>11. (\A p \in Parts : buff[p] \in 0 .. Len(sent))' /\ tpc' # "ended" /\ (k' # 0 => tpc' = "send")
       /\ sent' # <<>>
  BY <1>1, <1>3, <1>9 DEF LinkInv, TxInv
<1>12. CASE Len(queue) < QueueLen /\ queue' = Append(queue, e) /\ UNCHANGED lost
  <2>1. /\ queue' \in Seq(Dgram) /\ Len(queue') = Len(queue) + 1 /\ queue'[Len(queue) + 1] = e
        /\ \A i \in 1 .. Len(queue) : queue'[i] = queue[i]
    <3> HIDE DEF e
    <3> QED  BY <1>3, <1>5, <1>12, AppendProperties
  <2>2. Len(queue') <= QueueLen
    BY <1>3, <1>12, <2>1, Sizes
  <2>3. TypeOK'
    BY <1>1, <1>6, <1>7, <1>9, <1>12, <2>1, <2>2 DEF LinkInv, TypeOK, SourceInv
  <2>4. \A i \in 1 .. Len(queue') : queue'[i].tx \in 1 .. Len(sent')
    <3>1. e.tx \in 1 .. Len(sent)
      BY <1>2, <1>4
    <3> QED  BY <1>1, <1>3, <2>1, <3>1 DEF LinkInv, TxInv
  <2>5. TxInv'
    BY <1>11, <2>4 DEF TxInv
  <2> QED  BY <1>1, <1>6, <1>7, <1>8, <1>10, <1>12, <2>1, <2>3, <2>5 DEF LinkInv, QueueGrows
<1>13. CASE lost' = lost + 1 /\ UNCHANGED queue
  <2>1. TypeOK'
    BY <1>1, <1>3, <1>6, <1>7, <1>9, <1>13 DEF LinkInv, TypeOK, SourceInv
  <2>2. TxInv'
    BY <1>1, <1>11, <1>13 DEF LinkInv, TxInv
  <2> QED  BY <1>1, <1>6, <1>7, <1>8, <1>10, <1>13, <2>1, <2>2 DEF LinkInv, Loses
<1> QED  BY <1>5, <1>12, <1>13 DEF Sends

LEMMA LinkStill ==
  ASSUME LinkInv, UNCHANGED <<sourceVars, transmitVars>>
  PROVE  SourceInv' /\ (UNCHANGED sent => Answers(Len(sent))')
<1>1. UNCHANGED <<image, cnt0, cnt1, semval, writing, tpc, cnt, drained, slice, oldslice>>
  BY DEF sourceVars, transmitVars
<1> QED  BY <1>1 DEF LinkInv, SourceInv, ImageInv, TransmitTypeOK, Answers

LEMMA LinkOvertakes ==
  ASSUME LinkInv, Overtakes
  PROVE  /\ LinkInv' /\ swaps' = swaps + 1 /\ Len(queue') = Len(queue)
         /\ UNCHANGED <<transmitVars, linkVars, recvVars, CTRLexit, lost>>
         /\ \E i \in 1 .. Len(queue) - 1 : /\ queue'[i] = queue[i + 1] /\ queue'[i + 1] = queue[i]
                                           /\ \A l \in (1 .. Len(queue)) \ {i, i + 1} : queue'[l] = queue[l]
<1>1. /\ swaps < MaxSwaps /\ swaps' = swaps + 1
      /\ UNCHANGED <<sourceVars, transmitVars, linkVars, recvVars, CTRLexit, lost>>
  BY DEF Overtakes
<1>2. PICK i \in 1 .. Len(queue) - 1 :
        queue' = [queue EXCEPT ![i] = queue[i + 1], ![i + 1] = queue[i]]
  BY DEF Overtakes
<1>3. /\ queue \in Seq(Dgram) /\ Len(queue) \in Nat /\ i \in 1 .. Len(queue) /\ i + 1 \in 1 .. Len(queue)
      /\ queue[i] \in Dgram /\ queue[i + 1] \in Dgram /\ i # i + 1
  BY StateTypes, ElementOfSeq
<1> DEFINE q == [queue EXCEPT ![i] = queue[i + 1]]
<1>4. /\ q \in Seq(Dgram) /\ Len(q) = Len(queue)
      /\ \A l \in 1 .. Len(queue) : q[l] = IF l = i THEN queue[i + 1] ELSE queue[l]
  BY <1>3, ExceptSeq
<1>5. queue' = [q EXCEPT ![i + 1] = queue[i]]
  BY <1>2
<1> HIDE DEF q
<1>6. /\ queue' \in Seq(Dgram) /\ Len(queue') = Len(q)
      /\ \A l \in 1 .. Len(q) : queue'[l] = IF l = i + 1 THEN queue[i] ELSE q[l]
  BY <1>3, <1>4, <1>5, ExceptSeq
<1>7. /\ queue'[i] = queue[i + 1] /\ queue'[i + 1] = queue[i]
      /\ \A l \in (1 .. Len(queue)) \ {i, i + 1} : queue'[l] = queue[l]
  BY <1>3, <1>4, <1>6
<1>8. UNCHANGED <<sent, k, rpc, n_dgram_wait, abort_frame, loopOK, k_dgram, buff, published, tpc>>
  BY <1>1 DEF linkVars, recvVars, transmitVars
<1>9. SourceInv' /\ Answers(Len(sent))'
  BY <1>1, <1>8, LinkStill
<1>10. swaps' \in 0 .. MaxSwaps
  <2>1. swaps \in Nat /\ MaxSwaps \in Nat
    BY StateTypes, Sizes
  <2> QED  BY <1>1, <2>1
<1>11. TypeOK'
  BY <1>1, <1>4, <1>6, <1>8, <1>9, <1>10 DEF LinkInv, TypeOK, SourceInv
<1>12. TxInv'
  <2>1. \A l \in 1 .. Len(queue) : queue'[l].tx \in 1 .. Len(sent)
    BY <1>3, <1>4, <1>6 DEF LinkInv, TxInv
  <2> QED  BY <1>4, <1>6, <1>8, <2>1 DEF LinkInv, TxInv
<1>13. SyncInv'
  BY <1>8 DEF LinkInv, SyncInv
<1> QED  BY <1>1, <1>4, <1>6, <1>7, <1>9, <1>11, <1>12, <1>13 DEF LinkInv

LEMMA LinkIdle ==
  ASSUME LinkInv, AsksForExit \/ UNCHANGED vars
  PROVE  LinkInv' /\ UNCHANGED <<transmitVars, linkVars, queue, recvVars, lost, swaps>>
<1>1. /\ CTRLexit' \in BOOLEAN
      /\ UNCHANGED <<sourceVars, transmitVars, linkVars, queue, recvVars, lost, swaps>>
  <2>1. CASE AsksForExit
    BY <2>1 DEF AsksForExit
  <2>2. CASE UNCHANGED vars
    BY <2>2, StateTypes DEF vars
  <2> QED  BY <2>1, <2>2
<1>2. UNCHANGED <<tpc, sent>>
  BY <1>1 DEF transmitVars, linkVars
<1>3. SourceInv' /\ Answers(Len(sent))'
  BY <1>1, <1>2, LinkStill
<1>4. tpc # "ended" /\ (k # 0 => tpc = "send")
  BY DEF LinkInv, TxInv
<1> QED  BY <1>1, <1>2, <1>3, <1>4, LinkQuiet

------------------------------------------------------------------------------
(* Steps of the receiver.                                                  *)

LEMMA LinkReceives ==
  ASSUME LinkInv, NotTheTransmitter,
         queue' \in Seq(Dgram), Len(queue') <= Len(queue),
         \A i \in 1 .. Len(queue') : queue'[i].tx \in 1 .. Len(sent),
         rpc' \in {"meta", "top", "purge", "resync", "first", "next", "publish", "ended"},
         n_dgram_wait' \in 0 .. MAX_DATAGRAM_WAIT - 1,
         abort_frame' \in BOOLEAN, loopOK' \in BOOLEAN, k_dgram' \in Parts,
         buff' \in [Parts -> Transmissions], \A p \in Parts : buff'[p] \in 0 .. Len(sent),
         published' \in Seq(Frames), SyncInv'
  PROVE  LinkInv'
<1>1. UNCHANGED <<sourceVars, transmitVars, sent, k, CTRLexit, lost, swaps, tpc>>
  BY DEF NotTheTransmitter, linkVars, transmitVars
<1>2. SourceInv' /\ Answers(Len(sent))'
  BY <1>1, LinkStill
<1>3. Len(queue') <= QueueLen
  <2>1. Len(queue') \in Nat /\ Len(queue) \in Nat /\ QueueLen \in Nat /\ Len(queue) <= QueueLen
    BY StateTypes, Sizes
  <2> QED  BY <2>1
<1>4. TypeOK'
  BY <1>1, <1>2, <1>3 DEF LinkInv, TypeOK, SourceInv, Frames
<1>5. TxInv'
  BY <1>1 DEF LinkInv, TxInv
<1> QED  BY <1>2, <1>4, <1>5 DEF LinkInv

(* What a receiver that takes a datagram leaves in the queue.              *)
LEMMA TakenQueue ==
  ASSUME LinkInv, Takes
  PROVE  /\ queue' \in Seq(Dgram) /\ Len(queue') <= Len(queue)
         /\ \A i \in 1 .. Len(queue') : queue'[i].tx \in 1 .. Len(sent)
<1>1. /\ queue' \in Seq(Dgram) /\ Len(queue') = Len(queue) - 1 /\ Len(queue) \in Nat
      /\ \A i \in 1 .. Len(queue') : queue'[i] = queue[i + 1]
  BY TakesHead, StateTypes
<1>2. ASSUME NEW i \in 1 .. Len(queue')  PROVE queue'[i].tx \in 1 .. Len(sent)
  <2>1. i + 1 \in 1 .. Len(queue)
    BY <1>1, <1>2
  <2> QED  BY <1>1, <2>1 DEF LinkInv, TxInv
<1> QED  BY <1>1, <1>2

LEMMA KeptQueue ==
  ASSUME LinkInv
  PROVE  /\ queue \in Seq(Dgram) /\ Len(queue) <= Len(queue)
         /\ \A i \in 1 .. Len(queue) : queue[i].tx \in 1 .. Len(sent)
         /\ \A p \in Parts : buff[p] \in 0 .. Len(sent)
BY StateTypes DEF LinkInv, TxInv

LEMMA ReceiverTypes ==
  ASSUME LinkInv
  PROVE  /\ rpc \in {"meta", "top", "purge", "resync", "first", "next", "publish", "ended"}
         /\ n_dgram_wait \in 0 .. MAX_DATAGRAM_WAIT - 1 /\ 0 \in 0 .. MAX_DATAGRAM_WAIT - 1
         /\ abort_frame \in BOOLEAN /\ loopOK \in BOOLEAN /\ CTRLexit \in BOOLEAN
         /\ k_dgram \in Parts /\ buff \in [Parts -> Transmissions] /\ published \in Seq(Frames)
BY StateTypes, Sizes DEF LinkInv, TypeOK

(* A part is written with a transmission that has begun.                   *)
LEMMA PartWritten ==
  ASSUME LinkInv, NEW p \in Parts, NEW t \in 1 .. Len(sent), NEW b, b = [buff EXCEPT ![p] = t]
  PROVE  /\ b \in [Parts -> Transmissions] /\ \A i \in Parts : b[i] \in 0 .. Len(sent)
         /\ \A i \in Parts : b[i] = IF i = p THEN t ELSE buff[i]
<1>1. Len(sent) \in Nat /\ Len(sent) <= MaxFrames /\ MaxFrames \in Nat
  BY StateTypes, Sizes
<1>2. t \in Transmissions /\ t \in 0 .. Len(sent)
  BY <1>1 DEF Transmissions, Nothing
<1> QED  BY <1>2, ReceiverTypes, KeptQueue

(* A frame is begun, or after an exit was asked for published as it is.    *)
LEMMA FrameBegun ==
  ASSUME LinkInv, Takes, BeginsFrame
  PROVE  /\ buff' \in [Parts -> Transmissions] /\ \A p \in Parts : buff'[p] \in 0 .. Len(sent)
         /\ k_dgram' \in Parts /\ rpc' \in {"next", "publish"}
         /\ rpc' = "next" => loopOK /\ k_dgram' = 1 /\ NDgrams > 1
         /\ loopOK => /\ \A p \in Parts : buff'[p] = IF p = 0 THEN Received.tx ELSE buff[p]
                      /\ rpc' = "publish" <=> NDgrams = 1
         /\ ~loopOK => rpc' = "publish" /\ UNCHANGED buff
<1>1. CASE loopOK
  <2>1. /\ buff' = [buff EXCEPT ![0] = Received.tx]
        /\ k_dgram' = IF NDgrams > 1 THEN 1 ELSE 0
        /\ rpc' = IF NDgrams > 1 THEN "next" ELSE "publish"
    BY <1>1 DEF BeginsFrame
  <2>2. Received.tx \in 1 .. Len(sent)
    BY TakesHead
  <2>3. /\ buff' \in [Parts -> Transmissions] /\ \A p \in Parts : buff'[p] \in 0 .. Len(sent)
        /\ \A p \in Parts : buff'[p] = IF p = 0 THEN Received.tx ELSE buff[p]
    <3>1. PICK t \in 1 .. Len(sent) : t = Received.tx
      BY <2>2
    <3>2. buff' = [buff EXCEPT ![0] = t] /\ 0 \in Parts
      BY <2>1, <3>1, Sizes
    <3> QED  BY <3>1, <3>2, PartWritten
  <2> QED  BY <1>1, <2>1, <2>3, Sizes
<1>2. CASE ~loopOK
  <2>1. rpc' = "publish" /\ UNCHANGED <<buff, k_dgram>>
    BY <1>2 DEF BeginsFrame
  <2> QED  BY <1>2, <2>1, ReceiverTypes, KeptQueue
<1> QED  BY <1>1, <1>2

LEMMA LinkMeta ==
  ASSUME LinkInv, WaitsForMetadata
  PROVE  LinkInv'
<1>1. /\ rpc = "meta" /\ Takes /\ rpc' \in {"ended", "top", "meta"}
      /\ n_dgram_wait' = IF rpc' = "meta" THEN n_dgram_wait + 1 ELSE 0
      /\ rpc' = "meta" => ~WaitedEnough
      /\ NotTheTransmitter /\ UNCHANGED <<abort_frame, loopOK, k_dgram, buff, published>>
  BY DEF WaitsForMetadata
<1>2. n_dgram_wait' \in 0 .. MAX_DATAGRAM_WAIT - 1
  BY <1>1, ReceiverTypes, Sizes DEF WaitedEnough
<1>3. abort_frame /\ published = <<>>
  BY <1>1 DEF LinkInv, SyncInv
<1>4. loopOK
  BY <1>1 DEF LinkInv, SyncInv
<1>5. SyncInv'
  BY <1>1, <1>3, <1>4 DEF SyncInv
<1> QED  BY <1>1, <1>2, <1>5, TakenQueue, KeptQueue, ReceiverTypes, LinkReceives

LEMMA LinkBegins ==
  ASSUME LinkInv, BeginsIteration
  PROVE  LinkInv'
<1>1. /\ rpc = "top" /\ loopOK' = ~CTRLexit /\ rpc' = IF abort_frame THEN "purge" ELSE "first"
      /\ NotTheTransmitter
      /\ UNCHANGED <<queue, n_dgram_wait, abort_frame, k_dgram, buff, published>>
  BY DEF BeginsIteration
<1>2. loopOK' \in BOOLEAN /\ rpc' \in {"purge", "first"}
  BY <1>1
<1>3. SyncInv'
  BY <1>1 DEF LinkInv, SyncInv
<1> QED  BY <1>1, <1>2, <1>3, KeptQueue, ReceiverTypes, LinkReceives

LEMMA LinkPurges ==
  ASSUME LinkInv, Purges
  PROVE  LinkInv'
<1>1. /\ rpc = "purge" /\ NotTheTransmitter
      /\ UNCHANGED <<n_dgram_wait, abort_frame, loopOK, k_dgram, buff, published>>
      /\ rpc' \in {"purge", "resync"} /\ (UNCHANGED queue \/ Takes)
  BY DEF Purges
<1>2. abort_frame
  BY <1>1 DEF LinkInv, SyncInv
<1>3. SyncInv'
  BY <1>1, <1>2 DEF LinkInv, SyncInv
<1>4. CASE UNCHANGED queue
  BY <1>1, <1>3, <1>4, KeptQueue, ReceiverTypes, LinkReceives
<1>5. CASE Takes
  BY <1>1, <1>3, <1>5, TakenQueue, KeptQueue, ReceiverTypes, LinkReceives
<1> QED  BY <1>1, <1>4, <1>5

LEMMA LinkResyncs ==
  ASSUME LinkInv, Resyncs
  PROVE  LinkInv'
<1>1. rpc = "resync" /\ Takes /\ NotTheTransmitter /\ UNCHANGED <<loopOK, published>> /\ abort_frame
  BY DEF Resyncs, LinkInv, SyncInv
<1>2. CASE WaitedEnough
  <2>1. rpc' = "ended" /\ n_dgram_wait' = 0 /\ UNCHANGED <<abort_frame, k_dgram, buff>>
    BY <1>2 DEF Resyncs
  <2>2. SyncInv'
    BY <2>1 DEF SyncInv
  <2> QED  BY <1>1, <2>1, <2>2, TakenQueue, KeptQueue, ReceiverTypes, LinkReceives
<1>3. CASE ~WaitedEnough /\ Received.index = 0
  <2>1. abort_frame' = FALSE /\ n_dgram_wait' = 0 /\ BeginsFrame
    BY <1>3 DEF Resyncs
  <2>2. SyncInv'
    BY <1>1, <2>1, FrameBegun DEF SyncInv
  <2> QED  BY <1>1, <2>1, <2>2, FrameBegun, TakenQueue, ReceiverTypes, LinkReceives
<1>4. CASE ~WaitedEnough /\ Received.index # 0
  <2>1. n_dgram_wait' = n_dgram_wait + 1 /\ UNCHANGED <<rpc, abort_frame, k_dgram, buff>>
    BY <1>4 DEF Resyncs
  <2>2. n_dgram_wait' \in 0 .. MAX_DATAGRAM_WAIT - 1
    BY <1>4, <2>1, ReceiverTypes, Sizes DEF WaitedEnough
  <2>3. SyncInv'
    BY <1>1, <2>1 DEF LinkInv, SyncInv
  <2> QED  BY <1>1, <2>1, <2>2, <2>3, TakenQueue, KeptQueue, ReceiverTypes, LinkReceives
<1> QED  BY <1>2, <1>3, <1>4

LEMMA LinkFirst ==
  ASSUME LinkInv, FirstArrives
  PROVE  LinkInv'
<1>1. /\ rpc = "first" /\ Takes /\ NotTheTransmitter /\ UNCHANGED <<n_dgram_wait, loopOK, published>>
      /\ ~abort_frame /\ n_dgram_wait = 0
  BY DEF FirstArrives, LinkInv, SyncInv
<1>2. CASE Received.index = 0 \/ ~loopOK
  <2>1. BeginsFrame /\ UNCHANGED abort_frame
    BY <1>2 DEF FirstArrives
  <2>2. SyncInv'
    BY <1>1, <2>1, FrameBegun DEF SyncInv
  <2> QED  BY <1>1, <2>1, <2>2, FrameBegun, TakenQueue, ReceiverTypes, LinkReceives
<1>3. CASE ~(Received.index = 0 \/ ~loopOK)
  <2>1. abort_frame' = TRUE /\ rpc' = "top" /\ UNCHANGED <<k_dgram, buff>>
    BY <1>3 DEF FirstArrives
  <2>2. SyncInv'
    BY <1>1, <1>3, <2>1 DEF SyncInv
  <2> QED  BY <1>1, <2>1, <2>2, TakenQueue, KeptQueue, ReceiverTypes, LinkReceives
<1> QED  BY <1>2, <1>3

LEMMA LinkNext ==
  ASSUME LinkInv, NextArrives
  PROVE  LinkInv'
<1>1. /\ rpc = "next" /\ Takes /\ NotTheTransmitter /\ UNCHANGED <<n_dgram_wait, loopOK, published>>
      /\ ~abort_frame /\ n_dgram_wait = 0 /\ loopOK /\ k_dgram # 0
  BY DEF NextArrives, LinkInv, SyncInv
<1>2. CASE Follows
  <2>1. /\ buff' = [buff EXCEPT ![k_dgram] = Received.tx] /\ UNCHANGED abort_frame
        /\ \/ k_dgram = NDgrams - 1 /\ rpc' = "publish" /\ k_dgram' = 0
           \/ k_dgram # NDgrams - 1 /\ rpc' = rpc /\ k_dgram' = k_dgram + 1
    BY <1>2 DEF NextArrives
  <2>2. buff' \in [Parts -> Transmissions] /\ \A p \in Parts : buff'[p] \in 0 .. Len(sent)
    <3>1. PICK t \in 1 .. Len(sent) : t = Received.tx
      BY <1>1, TakesHead
    <3>2. PICK p \in Parts : p = k_dgram
      BY ReceiverTypes
    <3>3. buff' = [buff EXCEPT ![p] = t]
      BY <2>1, <3>1, <3>2
    <3> QED  BY <3>3, PartWritten
  <2>3. k_dgram' \in Parts /\ (rpc' = "next" => k_dgram' # 0)
    BY <2>1, ReceiverTypes, Sizes
  <2>4. SyncInv'
    BY <1>1, <2>1, <2>3 DEF SyncInv
  <2> QED  BY <1>1, <2>1, <2>2, <2>3, <2>4, TakenQueue, ReceiverTypes, LinkReceives
<1>3. CASE ~Follows
  <2>1. abort_frame' = TRUE /\ rpc' = "top" /\ k_dgram' = 0 /\ UNCHANGED buff
    BY <1>3 DEF NextArrives
  <2>2. SyncInv'
    BY <1>1, <2>1 DEF SyncInv
  <2> QED  BY <1>1, <2>1, <2>2, TakenQueue, KeptQueue, ReceiverTypes, Sizes, LinkReceives
<1> QED  BY <1>2, <1>3

LEMMA LinkPublishes ==
  ASSUME LinkInv, Publishes
  PROVE  /\ LinkInv' /\ Len(published') = Len(published) + 1
         /\ published'[Len(published) + 1].parts = buff
         /\ published'[Len(published) + 1].slot = Slot(buff[0])
         /\ \A i \in 1 .. Len(published) : published'[i] = published[i]
<1> DEFINE pub == [slot |-> Slot(buff[0]), parts |-> buff]
<1>1. /\ rpc = "publish" /\ published' = Append(published, pub)
      /\ rpc' = (IF loopOK THEN "top" ELSE "ended") /\ NotTheTransmitter
      /\ UNCHANGED <<queue, n_dgram_wait, abort_frame, loopOK, k_dgram, buff>>
  BY DEF Publishes
<1>2. pub \in Frames
  <2>1. buff[0] = 0 \/ buff[0] \in 1 .. Len(sent)
    <3>1. 0 \in Parts /\ Len(sent) \in Nat
      BY StateTypes, Sizes
    <3>2. buff[0] \in 0 .. Len(sent)
      BY <3>1, KeptQueue
    <3> QED  BY <3>1, <3>2
  <2>2. \A t \in 1 .. Len(sent) : sent[t].cnt1 \in Slices
    <3>1. \A t \in 1 .. Len(sent) : sent[t] \in Records
      BY StateTypes, ElementOfSeq
    <3> QED  BY <3>1 DEF Records
  <2>3. 0 \in Slices
    BY TransmitAssumption DEF Slices
  <2>4. Slot(buff[0]) \in Slices
    BY <2>1, <2>2, <2>3 DEF Slot, Nothing
  <2> QED  BY <2>4, ReceiverTypes DEF Frames
<1>3. /\ published' \in Seq(Frames) /\ published' # <<>> /\ Len(published') = Len(published) + 1
      /\ published'[Len(published) + 1] = pub
      /\ \A i \in 1 .. Len(published) : published'[i] = published[i]
  <2> HIDE DEF pub
  <2> QED  BY <1>1, <1>2, ReceiverTypes, AppendProperties
<1>4. rpc' \in {"top", "ended"} /\ ~abort_frame /\ n_dgram_wait = 0
  BY <1>1 DEF LinkInv, SyncInv
<1>5. SyncInv'
  <2>1. published'[Len(published')].parts = buff
    BY <1>3
  <2> QED  BY <1>1, <1>3, <1>4, <2>1 DEF SyncInv
<1>6. LinkInv'
  BY <1>1, <1>3, <1>4, <1>5, KeptQueue, ReceiverTypes, LinkReceives
<1> QED  BY <1>3, <1>6

------------------------------------------------------------------------------
LEMMA LinkInit == Init => LinkInv
<1> SUFFICES ASSUME Init  PROVE LinkInv
  OBVIOUS
<1>1. /\ TransmitInit /\ sent = <<>> /\ k = 0 /\ queue = <<>>
      /\ rpc = "meta" /\ n_dgram_wait = 0 /\ abort_frame = TRUE /\ loopOK = TRUE /\ CTRLexit = FALSE
      /\ k_dgram = 0 /\ buff = [p \in Parts |-> 0] /\ published = <<>> /\ lost = 0 /\ swaps = 0
  BY DEF Init, Nothing
<1>2. SourceInv /\ Answers(0) /\ tpc = "wait"
  BY <1>1, InitSource DEF TransmitInit
<1>3. Len(sent) = 0 /\ Len(queue) = 0
  BY <1>1
<1>4. Answers(Len(sent))
  BY <1>2, <1>3
<1>5. buff \in [Parts -> Transmissions]
  BY <1>1, Sizes DEF Transmissions, Nothing
<1>6. TypeOK
  <2>1. queue \in Seq(Dgram) /\ Len(queue) <= QueueLen
    BY <1>1, <1>3, EmptySeq, Sizes
  <2>2. sent \in Seq([cnt1 : Slices, frame : 0 .. MaxFrames])
    BY <1>1
  <2>3. published \in Seq([slot : Slices, parts : [Parts -> Transmissions]])
    BY <1>1
  <2>4. TransmitTypeOK /\ abort_frame \in BOOLEAN /\ loopOK \in BOOLEAN /\ CTRLexit \in BOOLEAN
    BY <1>1, <1>2 DEF SourceInv
  <2>5. /\ k \in Parts /\ k_dgram \in Parts /\ n_dgram_wait \in 0 .. MAX_DATAGRAM_WAIT - 1
        /\ lost \in Nat /\ swaps \in 0 .. MaxSwaps /\ rpc = "meta"
    BY <1>1, Sizes
  <2> QED  BY <1>5, <2>1, <2>2, <2>3, <2>4, <2>5 DEF TypeOK
<1>7. TxInv
  BY <1>1, <1>2, <1>3 DEF TxInv
<1>8. SyncInv
  BY <1>1 DEF SyncInv
<1> QED  BY <1>2, <1>4, <1>6, <1>7, <1>8 DEF LinkInv

LEMMA LinkStep == LinkInv /\ [Next]_vars => LinkInv'
<1> SUFFICES ASSUME LinkInv, [Next]_vars  PROVE LinkInv'
  OBVIOUS
<1>1. CASE Writer /\ UNCHANGED <<linkVars, queue, recvVars, CTRLexit, lost, swaps>>
  BY <1>1, LinkWriter
<1>2. CASE Transmitter
  BY <1>2, LinkWaits, LinkMetadata, LinkCopies, LinkSends DEF Transmitter
<1>3. CASE Overtakes
  BY <1>3, LinkOvertakes
<1>4. CASE Receiver
  BY <1>4, LinkMeta, LinkBegins, LinkPurges, LinkResyncs, LinkFirst, LinkNext, LinkPublishes
  DEF Receiver
<1>5. CASE AsksForExit \/ UNCHANGED vars
  BY <1>5, LinkIdle
<1> QED  BY <1>1, <1>2, <1>3, <1>4, <1>5 DEF Next

(* The link keeps its types, its transmissions and the bookkeeping of the  *)
(* receiver.                                                               *)
THEOREM LinkInvariance == Spec => []LinkInv
BY LinkInit, LinkStep, PTL DEF Spec

(* Type correctness; in particular the receiver never waits for more       *)
(* datagrams than it means to.                                             *)
THEOREM TypeCorrect == Spec => []TypeOK
<1>1. LinkInv => TypeOK
  BY DEF LinkInv
<1> QED  BY <1>1, LinkInvariance, PTL

------------------------------------------------------------------------------
(* How long the receiver waits for a datagram 0.  Between two datagrams 0  *)
(* that were sent there are the others of one frame, so a run of datagrams *)
(* without one is longer than a frame by what faults took out of it or put *)
(* into it: at most the other datagrams of one frame for each fault.  The  *)
(* run counts from the first datagram the receiver waited in vain for, and *)
(* the last run only to the datagrams sent so far.                         *)
Allowed(f) == (NDgrams - 1) * f
Margin(d) == IF d = 0 THEN NDgrams - 1 ELSE d - 1

WaitedBefore(i) == IF i = 1 THEN n_dgram_wait ELSE 0
NoneFirst(i, j) == \A l \in i .. j : queue[l].index # 0
Waits(i, j) == WaitedBefore(i) + (j - i + 1)
MayWait(j) == Allowed(lost + swaps) + (IF j = Len(queue) THEN Margin(k) ELSE NDgrams - 1)

WaitInv ==
  /\ \A i \in 1 .. Len(queue) + 1, j \in 0 .. Len(queue) :
       i <= j + 1 /\ NoneFirst(i, j) => Waits(i, j) <= MayWait(j)
  /\ GivesUpOnlyAfterLoss

LEMMA AllowedGrows ==
  ASSUME NEW f \in Nat
  PROVE  /\ Allowed(f) \in Nat /\ Allowed(f + 1) = Allowed(f) + (NDgrams - 1)
         /\ Allowed(f) = (NDgrams - 1) * f
<1>1. PICK m \in Nat : m = NDgrams - 1
  BY Sizes
<1>2. m * f \in Nat /\ m * (f + 1) = m * f + m
  OBVIOUS
<1> QED  BY <1>1, <1>2 DEF Allowed

LEMMA MarginRange ==
  ASSUME NEW d \in Parts
  PROVE  Margin(d) \in Nat /\ Margin(d) <= NDgrams - 1
BY Sizes DEF Margin

LEMMA WaitTypes ==
  ASSUME LinkInv
  PROVE  /\ NDgrams \in Nat /\ NDgrams > 0
         /\ lost \in Nat /\ swaps \in Nat /\ lost + swaps \in Nat
         /\ Allowed(lost + swaps) \in Nat
         /\ Margin(k) \in Nat /\ Margin(k) <= NDgrams - 1
         /\ Len(queue) \in Nat /\ n_dgram_wait \in Nat
<1>1. lost \in Nat /\ swaps \in Nat /\ k \in Parts /\ Len(queue) \in Nat /\ n_dgram_wait \in Nat
  BY StateTypes
<1>2. lost + swaps \in Nat
  BY <1>1
<1> QED  BY <1>1, <1>2, AllowedGrows, MarginRange, Sizes

LEMMA WaitQuiet ==
  ASSUME WaitInv, UNCHANGED <<queue, k, n_dgram_wait, lost, swaps, rpc, loopOK>>
  PROVE  WaitInv'
BY DEF WaitInv, NoneFirst, Waits, WaitedBefore, MayWait, GivesUpOnlyAfterLoss

(* A fault never makes giving up wrong.                                    *)
LEMMA GivesUpStays ==
  ASSUME LinkInv, GivesUpOnlyAfterLoss, UNCHANGED <<rpc, loopOK>>,
         (lost + swaps)' \in {lost + swaps, lost + swaps + 1}
  PROVE  GivesUpOnlyAfterLoss'
<1>1. PICK f \in Nat : f = lost + swaps
  BY WaitTypes
<1>2. f + 1 \in Nat /\ f + 1 + 1 \in Nat
  OBVIOUS
<1>3. Allowed(f + 1) \in Nat /\ Allowed(f + 1 + 1) \in Nat /\ Allowed(f + 1) <= Allowed(f + 1 + 1)
  <2>1. PICK g \in Nat : g = f + 1
    BY <1>2
  <2>2. Allowed(g) \in Nat /\ Allowed(g + 1) \in Nat /\ Allowed(g + 1) = Allowed(g) + (NDgrams - 1)
    <3>1. g + 1 \in Nat
      OBVIOUS
    <3> QED  BY <3>1, AllowedGrows
  <2>3. NDgrams \in Nat /\ NDgrams > 0
    BY Sizes
  <2>4. Allowed(g) <= Allowed(g + 1)
    BY <2>2, <2>3
  <2> QED  BY <2>1, <2>2, <2>4
<1>4. MAX_DATAGRAM_WAIT \in Nat
  BY Sizes
<1>5. CASE rpc = "ended" /\ loopOK
  <2>1. Allowed(f + 1) >= MAX_DATAGRAM_WAIT - 1
    BY <1>1, <1>5 DEF GivesUpOnlyAfterLoss, Allowed
  <2>2. Allowed(f + 1 + 1) >= MAX_DATAGRAM_WAIT - 1
    BY <1>3, <1>4, <2>1
  <2>3. (lost + swaps)' = f \/ (lost + swaps)' = f + 1
    BY <1>1
  <2> QED  BY <2>1, <2>2, <2>3 DEF GivesUpOnlyAfterLoss, Allowed
<1>6. CASE ~(rpc = "ended" /\ loopOK)
  BY <1>6 DEF GivesUpOnlyAfterLoss
<1> QED  BY <1>5, <1>6

LEMMA WaitSent ==
  ASSUME LinkInv, WaitInv, QueueGrows, Advances, UNCHANGED <<recvVars, swaps>>, k' \in Parts
  PROVE  WaitInv'
<1>1. /\ Len(queue') = Len(queue) + 1 /\ UNCHANGED <<lost, swaps, n_dgram_wait, rpc, loopOK>>
      /\ \A l \in 1 .. Len(queue) : queue'[l] = queue[l]
      /\ queue'[Len(queue) + 1].index = k
  BY DEF QueueGrows, recvVars
<1>2. Margin(k') \in Nat /\ k \in Nat /\ (k # 0 => Margin(k') = k /\ Margin(k) = k - 1)
  <2>1. k \in Parts /\ k \in Nat /\ NDgrams \in Nat
    BY StateTypes, Sizes
  <2>2. Margin(k') \in Nat
    BY MarginRange
  <2>3. Margin(k') = k
    <3>1. CASE k = NDgrams - 1 /\ k' = 0
      BY <3>1 DEF Margin
    <3>2. CASE k' = k + 1
      <4>1. k' # 0 /\ k' - 1 = k
        BY <2>1, <3>2
      <4> QED  BY <4>1 DEF Margin
    <3> QED  BY <3>1, <3>2 DEF Advances
  <2>4. k # 0 => Margin(k) = k - 1
    BY DEF Margin
  <2> QED  BY <2>1, <2>2, <2>3, <2>4
<1>3. ASSUME NEW i \in 1 .. Len(queue') + 1, NEW j \in 0 .. Len(queue'), i <= j + 1, NoneFirst(i, j)'
      PROVE  (Waits(i, j) <= MayWait(j))'
  <2>1. WaitedBefore(i)' = WaitedBefore(i) /\ WaitedBefore(i) \in Nat
    BY <1>1, WaitTypes DEF WaitedBefore
  <2>2. CASE j <= Len(queue)
    <3>1. NoneFirst(i, j)
      BY <1>1, <1>3, <2>2 DEF NoneFirst
    <3>2. i \in 1 .. Len(queue) + 1 /\ j \in 0 .. Len(queue)
      BY <1>3, <2>2, WaitTypes
    <3>3. Waits(i, j) <= MayWait(j)
      BY <1>3, <3>1, <3>2 DEF WaitInv
    <3>4. Waits(i, j)' = Waits(i, j) /\ Waits(i, j) \in Int
      BY <2>1, <3>2 DEF Waits
    <3>5. MayWait(j) \in Int /\ MayWait(j)' \in Int /\ MayWait(j) <= MayWait(j)'
      <4>1. MayWait(j)' = Allowed(lost + swaps) + (NDgrams - 1)
        BY <1>1, <2>2, <3>2, WaitTypes DEF MayWait
      <4>2. PICK a \in Nat, m \in Nat, d \in Nat :
              a = Allowed(lost + swaps) /\ m = Margin(k) /\ d = NDgrams /\ d > 0 /\ m <= d - 1
        BY WaitTypes
      <4>3. MayWait(j) = a + m \/ MayWait(j) = a + (d - 1)
        BY <4>2 DEF MayWait
      <4> QED  BY <4>1, <4>2, <4>3
    <3> QED  BY <3>3, <3>4, <3>5
  <2>3. CASE j = Len(queue) + 1 /\ i <= Len(queue) + 1
    <3>1. k # 0
      <4>1. Len(queue) + 1 \in i .. j
        BY <1>3, <2>3, WaitTypes
      <4> QED  BY <1>1, <1>3, <4>1 DEF NoneFirst
    <3>2. NoneFirst(i, Len(queue))
      BY <1>1, <1>3, <2>3, WaitTypes DEF NoneFirst
    <3>3. Waits(i, Len(queue)) <= MayWait(Len(queue))
      <4>1. i \in 1 .. Len(queue) + 1 /\ Len(queue) \in 0 .. Len(queue)
        BY <1>3, <2>3, WaitTypes
      <4> QED  BY <2>3, <3>2, <4>1 DEF WaitInv
    <3>4. MayWait(j)' = Allowed(lost + swaps) + k /\ MayWait(Len(queue)) = Allowed(lost + swaps) + (k - 1)
      BY <1>1, <1>2, <2>3, <3>1 DEF MayWait
    <3>5. Waits(i, j)' = Waits(i, Len(queue)) + 1 /\ Waits(i, Len(queue)) \in Int
      <4>1. PICK n \in Nat : n = Len(queue)
        BY WaitTypes
      <4>2. Waits(i, j)' = WaitedBefore(i) + (n + 1 - i + 1)
        BY <2>1, <2>3, <4>1 DEF Waits
      <4>3. Waits(i, Len(queue)) = WaitedBefore(i) + (n - i + 1)
        BY <4>1 DEF Waits
      <4> QED  BY <1>3, <2>1, <4>2, <4>3
    <3>6. MayWait(j)' = MayWait(Len(queue)) + 1 /\ MayWait(Len(queue)) \in Int
      <4>1. PICK a \in Nat, d \in Nat : a = Allowed(lost + swaps) /\ d = k
        BY <1>2, WaitTypes
      <4> QED  BY <3>4, <4>1
    <3> QED  BY <3>3, <3>5, <3>6
  <2>4. CASE j = Len(queue) + 1 /\ i = Len(queue) + 2
    <3>1. PICK n \in Nat : n = Len(queue)
      BY WaitTypes
    <3>2. WaitedBefore(i) = 0 /\ i = n + 2 /\ j = n + 1
      BY <2>4, <3>1 DEF WaitedBefore
    <3>3. Waits(i, j)' = 0
      BY <2>1, <3>2 DEF Waits
    <3>4. MayWait(j)' = Allowed(lost + swaps) + Margin(k')
      BY <1>1, <2>4 DEF MayWait
    <3>5. MayWait(j)' \in Nat
      <4>1. PICK a \in Nat, m \in Nat : a = Allowed(lost + swaps) /\ m = Margin(k')
        BY <1>2, WaitTypes
      <4> QED  BY <3>4, <4>1
    <3> QED  BY <3>3, <3>5
  <2> QED  BY <1>1, <1>3, <2>2, <2>3, <2>4, WaitTypes
<1>4. GivesUpOnlyAfterLoss'
  BY <1>1, GivesUpStays DEF WaitInv
<1> QED  BY <1>3, <1>4 DEF WaitInv

LEMMA WaitLoses ==
  ASSUME LinkInv, WaitInv, Loses, UNCHANGED <<recvVars, swaps>>, k' \in Parts
  PROVE  WaitInv'
<1>1. UNCHANGED <<queue, swaps, n_dgram_wait, rpc, loopOK>> /\ lost' = lost + 1
  BY DEF Loses, recvVars
<1>2. Margin(k') \in Nat
  BY MarginRange
<1>3. (lost + swaps)' = lost + swaps + 1 /\ Allowed((lost + swaps)') = Allowed(lost + swaps) + (NDgrams - 1)
  <2>1. (lost + swaps)' = lost + swaps + 1
    BY <1>1, WaitTypes
  <2> QED  BY <2>1, AllowedGrows, WaitTypes
<1>4. ASSUME NEW i \in 1 .. Len(queue') + 1, NEW j \in 0 .. Len(queue'), i <= j + 1, NoneFirst(i, j)'
      PROVE  (Waits(i, j) <= MayWait(j))'
  <2>1. Waits(i, j) <= MayWait(j)
    BY <1>1, <1>4 DEF WaitInv, NoneFirst
  <2>2. Waits(i, j)' = Waits(i, j) /\ Waits(i, j) \in Int
    <3>1. WaitedBefore(i)' = WaitedBefore(i) /\ WaitedBefore(i) \in Nat
      BY <1>1, WaitTypes DEF WaitedBefore
    <3>2. i \in Int /\ j \in Int
      BY <1>4
    <3> QED  BY <3>1, <3>2 DEF Waits
  <2>3. MayWait(j) \in Int /\ MayWait(j)' \in Int /\ MayWait(j) <= MayWait(j)'
    <3>1. MayWait(j)' = Allowed(lost + swaps) + (NDgrams - 1)
                         + (IF j = Len(queue) THEN Margin(k') ELSE NDgrams - 1)
      BY <1>1, <1>3 DEF MayWait
    <3>2. MayWait(j) = Allowed(lost + swaps) + (IF j = Len(queue) THEN Margin(k) ELSE NDgrams - 1)
      BY DEF MayWait
    <3>3. PICK a \in Nat, m \in Nat, b \in Nat, c \in Nat :
            a = Allowed(lost + swaps) /\ m = NDgrams - 1 /\ b = Margin(k) /\ c = Margin(k') /\ b <= m
      <4>1. /\ Allowed(lost + swaps) \in Nat /\ Margin(k) \in Nat /\ Margin(k) <= NDgrams - 1
            /\ NDgrams \in Nat /\ NDgrams > 0
        BY WaitTypes
      <4>2. NDgrams - 1 \in Nat
        BY <4>1
      <4> QED  BY <1>2, <4>1, <4>2
    <3>4. CASE j = Len(queue)
      <4>1. MayWait(j)' = a + m + c /\ MayWait(j) = a + b
        BY <3>1, <3>2, <3>3, <3>4
      <4>2. b <= m
        BY <3>3
      <4>3. a + b <= a + m + c /\ a + b \in Int /\ a + m + c \in Int
        BY <4>2
      <4> QED  BY <4>1, <4>3
    <3>5. CASE j # Len(queue)
      <4>1. MayWait(j)' = a + m + m /\ MayWait(j) = a + m
        BY <3>1, <3>2, <3>3, <3>5
      <4>2. a + m <= a + m + m /\ a + m \in Int /\ a + m + m \in Int
        OBVIOUS
      <4> QED  BY <4>1, <4>2
    <3> QED  BY <3>4, <3>5
  <2> QED  BY <2>1, <2>2, <2>3
<1>5. GivesUpOnlyAfterLoss'
  BY <1>1, <1>3, GivesUpStays DEF WaitInv
<1> QED  BY <1>4, <1>5 DEF WaitInv

LEMMA OneMore ==
  ASSUME NEW w \in Int, NEW b \in Int, NEW m \in Nat, m > 0, w <= b,
         NEW v \in Int, v <= w + 1, NEW c \in Int, c = b + m
  PROVE  v <= c
OBVIOUS

LEMMA WaitNumbers ==
  ASSUME LinkInv, NEW i \in Nat, NEW j \in Nat
  PROVE  /\ WaitedBefore(i) \in Nat /\ Waits(i, j) \in Int /\ MayWait(j) \in Int
         /\ Waits(i, j + 1) = Waits(i, j) + 1
         /\ j < Len(queue) => MayWait(j) = Allowed(lost + swaps) + (NDgrams - 1)
<1>1. WaitedBefore(i) \in Nat
  BY WaitTypes DEF WaitedBefore
<1>2. Waits(i, j) \in Int /\ Waits(i, j + 1) = Waits(i, j) + 1
  BY <1>1 DEF Waits
<1>3. MayWait(j) \in Int
  BY WaitTypes DEF MayWait
<1>4. j < Len(queue) => MayWait(j) = Allowed(lost + swaps) + (NDgrams - 1)
  BY WaitTypes DEF MayWait
<1> QED  BY <1>1, <1>2, <1>3, <1>4

LEMMA WaitOvertakes ==
  ASSUME LinkInv, WaitInv, Overtakes
  PROVE  WaitInv'
<1>1. /\ swaps' = swaps + 1 /\ Len(queue') = Len(queue)
      /\ UNCHANGED <<k, lost, n_dgram_wait, rpc, loopOK>> /\ LinkInv'
  BY LinkOvertakes DEF linkVars, recvVars
<1>2. PICK s \in 1 .. Len(queue) - 1 :
        /\ queue'[s] = queue[s + 1] /\ queue'[s + 1] = queue[s]
        /\ \A l \in (1 .. Len(queue)) \ {s, s + 1} : queue'[l] = queue[l]
  BY LinkOvertakes
<1>3. PICK n \in Nat : n = Len(queue) /\ s \in Nat /\ s > 0 /\ s < n
  BY WaitTypes
<1>4. (lost + swaps)' = lost + swaps + 1 /\ Allowed((lost + swaps)') = Allowed(lost + swaps) + (NDgrams - 1)
  <2>1. (lost + swaps)' = lost + swaps + 1
    BY <1>1, WaitTypes
  <2> QED  BY <2>1, AllowedGrows, WaitTypes
<1>5. ASSUME NEW i \in 1 .. Len(queue') + 1, NEW j \in 0 .. Len(queue'), i <= j + 1, NoneFirst(i, j)'
      PROVE  (Waits(i, j) <= MayWait(j))'
  <2>1. i \in 1 .. Len(queue) + 1 /\ j \in 0 .. Len(queue) /\ i \in Nat /\ j \in Nat /\ i >= 1 /\ j <= n /\ i <= n + 1
    BY <1>1, <1>3, <1>5
  <2>2. MayWait(j)' = MayWait(j) + (NDgrams - 1) /\ MayWait(j) \in Int
    <3>1. MayWait(j)' = Allowed(lost + swaps) + (NDgrams - 1)
                         + (IF j = Len(queue) THEN Margin(k) ELSE NDgrams - 1)
      BY <1>1, <1>4 DEF MayWait
    <3>2. MayWait(j) = Allowed(lost + swaps) + (IF j = Len(queue) THEN Margin(k) ELSE NDgrams - 1)
      BY DEF MayWait
    <3>3. PICK a \in Nat, m \in Nat, b \in Nat :
            a = Allowed(lost + swaps) /\ m = NDgrams - 1 /\ b = Margin(k)
      BY WaitTypes
    <3>4. PICK x \in Nat : x = IF j = Len(queue) THEN Margin(k) ELSE NDgrams - 1
      BY <3>3
    <3>5. MayWait(j)' = a + m + x /\ MayWait(j) = a + x
      BY <3>1, <3>2, <3>3, <3>4
    <3>6. MayWait(j)' = MayWait(j) + m
      BY <3>5
    <3> QED  BY <3>3, <3>5, <3>6
  <2>3. Waits(i, j)' = Waits(i, j)
    BY <1>1 DEF Waits, WaitedBefore
  <2>4. NDgrams - 1 \in Nat /\ (i <= j => NDgrams - 1 > 0)
    <3>1. NDgrams - 1 \in Nat
      BY WaitTypes
    <3>2. ASSUME i <= j  PROVE NDgrams # 1
      <4>1. i \in 1 .. Len(queue) /\ i \in i .. j
        BY <2>1, <3>2
      <4>2. queue'[i].index # 0
        BY <1>5, <4>1 DEF NoneFirst
      <4>3. \A l \in 1 .. Len(queue) : queue[l] \in Dgram
        BY StateTypes
      <4>4. queue'[i] \in Dgram
        BY <1>2, <1>3, <4>1, <4>3
      <4>5. queue'[i].index \in Parts
        BY <4>4, DgramType
      <4> QED  BY <4>2, <4>5 DEF Parts
    <3>3. NDgrams \in Nat /\ NDgrams > 0
      BY WaitTypes
    <3> QED  BY <3>1, <3>2, <3>3
  <2>5. CASE i > j \/ (s \in i .. j <=> s + 1 \in i .. j)
    <3>1. NoneFirst(i, j)
      <4>1. ASSUME NEW l \in i .. j  PROVE queue[l].index # 0
        <5>1. l \in 1 .. Len(queue) /\ i <= j
          BY <2>1
        <5>2. CASE l # s /\ l # s + 1
          BY <1>2, <1>5, <5>1, <5>2 DEF NoneFirst
        <5>3. CASE l = s
          BY <1>2, <1>5, <2>5, <5>1, <5>3, <2>1 DEF NoneFirst
        <5>4. CASE l = s + 1
          BY <1>2, <1>5, <2>5, <5>1, <5>4, <2>1 DEF NoneFirst
        <5> QED  BY <5>2, <5>3, <5>4
      <4> QED  BY <4>1 DEF NoneFirst
    <3>2. Waits(i, j) <= MayWait(j)
      BY <1>5, <2>1, <3>1 DEF WaitInv
    <3>3. Waits(i, j) \in Int
      BY <2>1, WaitNumbers
    <3> QED  BY <2>2, <2>3, <2>4, <3>2, <3>3
  <2>6. CASE i <= j /\ s = j
    <3>1. PICK g \in Nat : j = g + 1
      BY <1>3, <2>6
    <3>2. NoneFirst(i, g)
      <4>1. ASSUME NEW l \in i .. g  PROVE queue[l].index # 0
        <5>1. l \in i .. j /\ l \in (1 .. Len(queue)) \ {s, s + 1}
          BY <2>1, <2>6, <3>1
        <5> QED  BY <1>2, <1>5, <5>1 DEF NoneFirst
      <4> QED  BY <4>1 DEF NoneFirst
    <3>3. Waits(i, g) <= MayWait(g)
      <4>1. g \in 0 .. Len(queue) /\ i <= g + 1
        BY <2>1, <2>6, <3>1
      <4> QED  BY <2>1, <3>2, <4>1 DEF WaitInv
    <3>4. Waits(i, g) \in Int /\ MayWait(g) \in Int /\ Waits(i, g + 1) = Waits(i, g) + 1
      BY <2>1, WaitNumbers
    <3>5. MayWait(g) = MayWait(j)
      <4>1. g < Len(queue) /\ j < Len(queue)
        BY <1>3, <2>6, <3>1
      <4> QED  BY <2>1, <4>1, WaitNumbers
    <3> QED  BY <2>2, <2>3, <2>4, <2>6, <3>1, <3>3, <3>4, <3>5, OneMore
  <2>7. CASE i <= j /\ s + 1 = i
    <3>1. NoneFirst(i + 1, j)
      <4>1. ASSUME NEW l \in i + 1 .. j  PROVE queue[l].index # 0
        <5>1. l \in i .. j /\ l \in (1 .. Len(queue)) \ {s, s + 1}
          BY <2>1, <2>7, <1>3
        <5> QED  BY <1>2, <1>5, <5>1 DEF NoneFirst
      <4> QED  BY <4>1 DEF NoneFirst
    <3>2. Waits(i + 1, j) <= MayWait(j)
      <4>1. i + 1 \in 1 .. Len(queue) + 1 /\ i + 1 <= j + 1
        BY <2>1, <2>7, <1>3
      <4> QED  BY <2>1, <3>1, <4>1 DEF WaitInv
    <3>3. Waits(i, j) = Waits(i + 1, j) + 1 /\ Waits(i + 1, j) \in Int
      <4>1. WaitedBefore(i) = 0 /\ WaitedBefore(i + 1) = 0
        BY <1>3, <2>7 DEF WaitedBefore
      <4> QED  BY <2>1, <4>1 DEF Waits
    <3>4. MayWait(j) \in Int
      BY <2>1, WaitNumbers
    <3> QED  BY <2>2, <2>3, <2>4, <2>7, <3>2, <3>3, <3>4, OneMore
  <2> QED  BY <1>3, <2>1, <2>5, <2>6, <2>7
<1>6. GivesUpOnlyAfterLoss'
  BY <1>1, <1>4, GivesUpStays DEF WaitInv
<1> QED  BY <1>5, <1>6 DEF WaitInv

LEMMA WaitTaken ==
  ASSUME LinkInv, WaitInv, Takes, UNCHANGED <<k, lost, swaps>>, GivesUpOnlyAfterLoss',
         n_dgram_wait' = 0 \/ (n_dgram_wait' = n_dgram_wait + 1 /\ Received.index # 0)
  PROVE  WaitInv'
<1>1. PICK n \in Nat : n = Len(queue') /\ Len(queue) = n + 1
  BY TakesHead, WaitTypes
<1>2. /\ \A l \in 1 .. Len(queue') : queue'[l] = queue[l + 1]
      /\ Received = queue[1]
  BY TakesHead
<1>3. ASSUME NEW i \in 1 .. Len(queue') + 1, NEW j \in 0 .. Len(queue'), i <= j + 1, NoneFirst(i, j)'
      PROVE  (Waits(i, j) <= MayWait(j))'
  <2>1. i \in Nat /\ j \in Nat /\ i >= 1 /\ i <= n + 1 /\ j <= n
    BY <1>1
  <2>2. MayWait(j)' = MayWait(j + 1)
    <3>1. j = Len(queue') <=> j + 1 = Len(queue)
      BY <1>1, <2>1
    <3> QED  BY <3>1 DEF MayWait
  <2>3. NoneFirst(i + 1, j + 1)
    <3>1. ASSUME NEW l \in i + 1 .. j + 1  PROVE queue[l].index # 0
      <4>1. PICK g \in Nat : l = g + 1
        BY <2>1
      <4>2. g \in i .. j /\ g \in 1 .. Len(queue')
        BY <1>1, <2>1, <4>1
      <4> QED  BY <1>2, <1>3, <4>1, <4>2 DEF NoneFirst
    <3> QED  BY <3>1 DEF NoneFirst
  <2>4. j + 1 \in 0 .. Len(queue) /\ j + 1 \in Nat
    BY <1>1, <2>1
  <2>5. CASE i # 1 \/ n_dgram_wait' = 0
    <3>1. i + 1 \in 1 .. Len(queue) + 1 /\ i + 1 <= j + 1 + 1
      BY <1>1, <1>3, <2>1
    <3>2. Waits(i + 1, j + 1) <= MayWait(j + 1)
      BY <2>3, <2>4, <3>1 DEF WaitInv
    <3>3. WaitedBefore(i)' = 0 /\ WaitedBefore(i + 1) = 0
      BY <2>1, <2>5 DEF WaitedBefore
    <3>4. Waits(i, j)' = Waits(i + 1, j + 1)
      BY <2>1, <3>3 DEF Waits
    <3> QED  BY <2>2, <3>2, <3>4
  <2>6. CASE i = 1 /\ n_dgram_wait' = n_dgram_wait + 1 /\ Received.index # 0
    <3>1. NoneFirst(1, j + 1)
      <4>1. ASSUME NEW l \in 1 .. j + 1  PROVE queue[l].index # 0
        <5>1. l = 1 \/ l \in i + 1 .. j + 1
          BY <2>1, <2>6
        <5> QED  BY <1>2, <2>3, <2>6, <5>1 DEF NoneFirst
      <4> QED  BY <4>1 DEF NoneFirst
    <3>2. 1 \in 1 .. Len(queue) + 1 /\ 1 <= j + 1 + 1
      BY <1>1, <2>1
    <3>3. Waits(1, j + 1) <= MayWait(j + 1)
      BY <2>4, <3>1, <3>2 DEF WaitInv
    <3>4. Waits(1, j)' = Waits(1, j + 1)
      <4>1. WaitedBefore(1)' = n_dgram_wait + 1 /\ WaitedBefore(1) = n_dgram_wait
        BY <2>6 DEF WaitedBefore
      <4> QED  BY <2>1, <4>1, WaitTypes DEF Waits
    <3> QED  BY <2>2, <2>6, <3>3, <3>4
  <2> QED  BY <2>5, <2>6
<1> QED  BY <1>3 DEF WaitInv

(* The receiver that waited for as many datagrams as it means to gives up. *)
LEMMA WaitGivesUp ==
  ASSUME LinkInv, WaitInv, Takes, WaitedEnough, UNCHANGED <<lost, swaps>>
  PROVE  GivesUpOnlyAfterLoss'
<1>1. Len(queue) \in Nat /\ Len(queue) >= 1 /\ n_dgram_wait \in Nat
  BY TakesHead, WaitTypes
<1>2. Waits(1, 0) <= MayWait(0)
  <2>1. NoneFirst(1, 0) /\ 1 \in 1 .. Len(queue) + 1 /\ 0 \in 0 .. Len(queue)
    BY <1>1 DEF NoneFirst
  <2> QED  BY <2>1 DEF WaitInv
<1>3. Waits(1, 0) = n_dgram_wait
  BY <1>1 DEF Waits, WaitedBefore
<1>4. MayWait(0) = Allowed(lost + swaps + 1)
  <2>1. MayWait(0) = Allowed(lost + swaps) + (NDgrams - 1)
    BY <1>1, WaitNumbers
  <2> QED  BY <2>1, WaitTypes, AllowedGrows
<1>5. n_dgram_wait >= MAX_DATAGRAM_WAIT - 1 /\ MAX_DATAGRAM_WAIT \in Nat
  BY Sizes DEF WaitedEnough
<1>6. Allowed(lost + swaps + 1) \in Nat
  <2>1. lost + swaps + 1 \in Nat
    BY WaitTypes
  <2> QED  BY <2>1, AllowedGrows
<1>7. Allowed(lost + swaps + 1) >= MAX_DATAGRAM_WAIT - 1
  BY <1>1, <1>2, <1>3, <1>4, <1>5, <1>6
<1> QED  BY <1>7 DEF GivesUpOnlyAfterLoss, Allowed

LEMMA WaitReceiver ==
  ASSUME LinkInv, WaitInv, Receiver
  PROVE  WaitInv'
<1>1. NotTheTransmitter /\ UNCHANGED <<k, lost, swaps>>
  BY DEF Receiver, WaitsForMetadata, BeginsIteration, Purges, Resyncs, FirstArrives, NextArrives,
         Publishes, NotTheTransmitter, linkVars
<1>2. CASE WaitsForMetadata \/ Resyncs
  <2>1. Takes
    BY <1>2 DEF WaitsForMetadata, Resyncs
  <2>2. CASE WaitedEnough
    <3>1. n_dgram_wait' = 0
      BY <1>2, <2>2 DEF WaitsForMetadata, Resyncs
    <3> QED  BY <1>1, <2>1, <2>2, <3>1, WaitGivesUp, WaitTaken
  <2>3. CASE ~WaitedEnough
    <3>1. rpc' # "ended"
      BY <1>2, <2>3 DEF WaitsForMetadata, Resyncs, BeginsFrame
    <3>2. n_dgram_wait' = 0 \/ (n_dgram_wait' = n_dgram_wait + 1 /\ Received.index # 0)
      BY <1>2, <2>3 DEF WaitsForMetadata, Resyncs
    <3>3. GivesUpOnlyAfterLoss'
      BY <3>1 DEF GivesUpOnlyAfterLoss
    <3> QED  BY <1>1, <2>1, <3>2, <3>3, WaitTaken
  <2> QED  BY <2>2, <2>3
<1>3. CASE Purges \/ FirstArrives \/ NextArrives
  <2>1. UNCHANGED n_dgram_wait /\ (Takes \/ UNCHANGED queue) /\ rpc' # "ended" /\ rpc \notin {"meta", "resync"}
    BY <1>3 DEF Purges, FirstArrives, NextArrives, BeginsFrame
  <2>2. n_dgram_wait = 0
    BY <2>1 DEF LinkInv, SyncInv
  <2>3. GivesUpOnlyAfterLoss'
    BY <2>1 DEF GivesUpOnlyAfterLoss
  <2>4. CASE Takes
    BY <1>1, <2>1, <2>2, <2>3, <2>4, WaitTaken
  <2>5. CASE UNCHANGED queue
    BY <1>1, <2>1, <2>3, <2>5 DEF WaitInv, NoneFirst, Waits, WaitedBefore, MayWait
  <2> QED  BY <2>1, <2>4, <2>5
<1>4. CASE BeginsIteration \/ Publishes
  <2>1. UNCHANGED <<n_dgram_wait, queue>> /\ (rpc' = "ended" => ~loopOK')
    BY <1>4 DEF BeginsIteration, Publishes
  <2>2. GivesUpOnlyAfterLoss'
    BY <2>1 DEF GivesUpOnlyAfterLoss
  <2> QED  BY <1>1, <2>1, <2>2 DEF WaitInv, NoneFirst, Waits, WaitedBefore, MayWait
<1> QED  BY <1>2, <1>3, <1>4 DEF Receiver

LEMMA WaitInit == Init => WaitInv
<1> SUFFICES ASSUME Init  PROVE WaitInv
  OBVIOUS
<1>1. /\ queue = <<>> /\ n_dgram_wait = 0 /\ k = 0 /\ lost = 0 /\ swaps = 0 /\ rpc = "meta"
      /\ Len(queue) = 0
  BY DEF Init
<1>2. MayWait(0) \in Nat
  <2>1. 0 \in Nat /\ lost + swaps = 0
    BY <1>1
  <2>2. Allowed(lost + swaps) \in Nat /\ Margin(k) \in Nat
    BY <1>1, <2>1, AllowedGrows, MarginRange, Sizes
  <2> QED  BY <1>1, <2>2 DEF MayWait
<1>3. ASSUME NEW i \in 1 .. Len(queue) + 1, NEW j \in 0 .. Len(queue)
      PROVE  Waits(i, j) <= MayWait(j)
  <2>1. i = 1 /\ j = 0
    BY <1>1
  <2>2. Waits(i, j) = 0
    BY <1>1, <2>1 DEF Waits, WaitedBefore
  <2> QED  BY <1>2, <2>1, <2>2
<1>4. GivesUpOnlyAfterLoss
  BY <1>1 DEF GivesUpOnlyAfterLoss
<1> QED  BY <1>3, <1>4 DEF WaitInv

LEMMA WaitStep == LinkInv /\ WaitInv /\ [Next]_vars => WaitInv'
<1> SUFFICES ASSUME LinkInv, WaitInv, [Next]_vars  PROVE WaitInv'
  OBVIOUS
<1>1. CASE Writer /\ UNCHANGED <<linkVars, queue, recvVars, CTRLexit, lost, swaps>>
  BY <1>1, WaitQuiet DEF linkVars, recvVars
<1>2. CASE Transmitter
  <2>1. CASE (Wakes \/ WaitTimesOut) /\ NotTheReceiver /\ UNCHANGED <<linkVars, queue, lost>>
    BY <2>1, WaitQuiet DEF NotTheReceiver, linkVars, recvVars
  <2>2. CASE CopiesMetadata \/ CopiesData
    <3>1. UNCHANGED <<k, queue, recvVars, CTRLexit, lost, swaps>>
      BY <2>2, LinkMetadata, LinkCopies
    <3> QED  BY <3>1, WaitQuiet DEF recvVars
  <2>3. CASE Sends
    <3>1. /\ UNCHANGED <<recvVars, swaps>> /\ (QueueGrows \/ Loses) /\ Advances /\ LinkInv'
      BY <2>3, LinkSends
    <3>2. k' \in Parts
      BY <3>1 DEF LinkInv, TypeOK
    <3> QED  BY <3>1, <3>2, WaitSent, WaitLoses
  <2> QED  BY <1>2, <2>1, <2>2, <2>3 DEF Transmitter
<1>3. CASE Overtakes
  BY <1>3, WaitOvertakes
<1>4. CASE Receiver
  BY <1>4, WaitReceiver
<1>5. CASE AsksForExit \/ UNCHANGED vars
  <2>1. UNCHANGED <<transmitVars, linkVars, queue, recvVars, lost, swaps>>
    BY <1>5, LinkIdle
  <2> QED  BY <2>1, WaitQuiet DEF linkVars, recvVars
<1> QED  BY <1>1, <1>2, <1>3, <1>4, <1>5 DEF Next

(* The receiver gives up only when faults explain that it found no         *)
(* datagram 0 for so long: each stands for at most the other datagrams of  *)
(* one frame.                                                              *)
THEOREM GivesUpAfterLoss == Spec => []GivesUpOnlyAfterLoss
<1>1. WaitInv => GivesUpOnlyAfterLoss
  BY DEF WaitInv
<1> QED  BY <1>1, WaitInit, WaitStep, LinkInvariance, PTL DEF Spec

------------------------------------------------------------------------------
(* The account of gaps.  The datagrams from the one read last, At(0), to   *)
(* the one to be sent next form a chain.  Where it breaks, faults were     *)
(* counted: one for a loss, three for one overtaken.  A receiver that      *)
(* reads past a break owes a gap for it at most; the frame that is         *)
(* published then shows it.                                                *)
AsNr(b) == IF b THEN 1 ELSE 0
Over == rpc = "ended" \/ (rpc = "publish" /\ ~loopOK)
From == IF abort_frame \/ Over THEN 1 ELSE 0
NextDgram == IF tpc \in {"data", "send"} THEN [tx |-> Len(sent), index |-> k]
             ELSE [tx |-> Len(sent) + 1, index |-> 0]
Read == IF rpc = "next" THEN k_dgram ELSE NDgrams
At(j) == IF j = 0 THEN [tx |-> buff[Read - 1], index |-> Read - 1]
         ELSE IF j <= Len(queue) THEN queue[j] ELSE NextDgram
Succ(x, y) == IF x.index = NDgrams - 1 THEN y.tx = x.tx + 1 /\ y.index = 0
              ELSE y.tx = x.tx /\ y.index = x.index + 1
Breaks == {j \in From .. Len(queue) : ~Succ(At(j), At(j + 1))}

\* The frame being put together is not the one due, or not all of one transmission.
Late == published # <<>> /\ buff[0] # TxOf(Len(published)) + 1
Torn == buff[Read - 1] # buff[0]
Owed == IF abort_frame THEN AsNr(published # <<>>)
        ELSE AsNr(rpc \in {"next", "publish"} /\ Late) + AsNr(Torn)
Due == IF Over THEN 0 ELSE Owed + Cardinality(Breaks)
Gaps == {i \in Regulars : Gap(i)}
GapInv == Cardinality(Gaps) + Due <= lost + 3 * swaps

LEMMA UpTo ==
  ASSUME NEW S, NEW n \in Nat, S \subseteq 0 .. n
  PROVE  IsFiniteSet(S) /\ Cardinality(S) \in Nat
<1>1. IsFiniteSet(0 .. n)
  BY FS_Interval
<1> QED  BY <1>1, FS_Subset, FS_CardinalityType

LEMMA Shifted ==
  ASSUME NEW S, NEW T, IsFiniteSet(T), \A j \in S : j \in Int /\ j + 1 \in T
  PROVE  Cardinality(S) <= Cardinality(T)
<1> DEFINE f == [j \in S |-> j + 1]
<1>1. f \in [S -> T]
  OBVIOUS
<1>2. \A a, b \in S : f[a] = f[b] => a = b
  OBVIOUS
<1>3. f \in Injection(S, T)
  BY <1>1, <1>2 DEF Injection, IsInjective
<1> HIDE DEF f
<1> QED  BY <1>3, FS_Injection

LEMMA Added ==
  ASSUME NEW S, IsFiniteSet(S), NEW x, NEW T, T \subseteq S \cup {x}
  PROVE  Cardinality(T) <= Cardinality(S) + 1 /\ IsFiniteSet(T) /\ Cardinality(T) \in Nat
<1>1. /\ IsFiniteSet(S \cup {x}) /\ Cardinality(S) \in Nat
      /\ Cardinality(S \cup {x}) = IF x \in S THEN Cardinality(S) ELSE Cardinality(S) + 1
  BY FS_AddElement, FS_CardinalityType
<1>2. IsFiniteSet(T) /\ Cardinality(T) <= Cardinality(S \cup {x})
  BY <1>1, FS_Subset
<1>3. Cardinality(T) \in Nat
  BY <1>2, FS_CardinalityType
<1> QED  BY <1>1, <1>2, <1>3

LEMMA AccountTypes ==
  ASSUME LinkInv
  PROVE  /\ IsFiniteSet(Breaks) /\ Cardinality(Breaks) \in Nat
         /\ IsFiniteSet(Gaps) /\ Cardinality(Gaps) \in Nat
         /\ Owed \in Nat /\ Owed <= 2 /\ Due \in Nat /\ lost \in Nat /\ swaps \in Nat
         /\ Regulars = 1 .. Regular /\ Regular \in Int
<1>1. Len(queue) \in Nat /\ Len(published) \in Nat /\ lost \in Nat /\ swaps \in Nat
  BY StateTypes
<1>2. Breaks \subseteq 0 .. Len(queue)
  BY <1>1 DEF Breaks, From
<1>3. Gaps \subseteq 0 .. Len(published) /\ Regulars = 1 .. Regular /\ Regular \in Int
  BY <1>1 DEF Gaps, Regulars, Regular
<1>4. Owed \in Nat /\ Owed <= 2
  BY DEF Owed, AsNr
<1>5. IsFiniteSet(Breaks) /\ Cardinality(Breaks) \in Nat /\ IsFiniteSet(Gaps) /\ Cardinality(Gaps) \in Nat
  BY <1>1, <1>2, <1>3, UpTo
<1>6. Due \in Nat
  BY <1>4, <1>5 DEF Due
<1> QED  BY <1>1, <1>3, <1>4, <1>5, <1>6

LEMMA AccountTypesNext ==
  ASSUME LinkInv'
  PROVE  /\ IsFiniteSet(Breaks') /\ Cardinality(Breaks') \in Nat
         /\ Owed' \in Nat /\ Due' \in Nat
<1>1. Len(queue') \in Nat
  BY DEF LinkInv, TypeOK
<1>2. Breaks' \subseteq 0 .. Len(queue')
  BY <1>1 DEF Breaks, From
<1>3. Owed' \in Nat
  BY DEF Owed, AsNr
<1>4. IsFiniteSet(Breaks') /\ Cardinality(Breaks') \in Nat
  BY <1>1, <1>2, UpTo
<1>5. Due' \in Nat
  BY <1>3, <1>4 DEF Due
<1> QED  BY <1>3, <1>4, <1>5

(* Steps that leave the receiver alone.                                    *)
LEMMA GapElsewhere ==
  ASSUME LinkInv, LinkInv', GapInv, UNCHANGED recvVars, NEW d \in Nat,
         Cardinality(Breaks') <= Cardinality(Breaks) + d,
         lost' + 3 * swaps' >= lost + 3 * swaps + d,
         lost' \in Nat, swaps' \in Nat
  PROVE  GapInv'
<1>1. UNCHANGED <<rpc, n_dgram_wait, abort_frame, loopOK, k_dgram, buff, published>>
  BY DEF recvVars
<1>2. Gaps' = Gaps
  BY <1>1 DEF Gaps, Regulars, Regular, Gap, TxOf
<1>3. Over' = Over /\ Owed' = Owed
  BY <1>1 DEF Over, Owed, Late, Torn, Read, TxOf
<1>4. Due' <= Due + d
  <2>1. CASE Over
    BY <1>3, <2>1 DEF Due
  <2>2. CASE ~Over
    <3>1. Due = Owed + Cardinality(Breaks) /\ Due' = Owed + Cardinality(Breaks')
      BY <1>3, <2>2 DEF Due
    <3>2. PICK o \in Nat, b \in Nat, c \in Nat : o = Owed /\ b = Cardinality(Breaks) /\ c = Cardinality(Breaks')
      BY AccountTypes, AccountTypesNext
    <3>3. Due = o + b /\ Due' = o + c /\ c <= b + d
      BY <3>1, <3>2
    <3>4. o + c <= o + b + d
      BY <3>3
    <3> QED  BY <3>3, <3>4
  <2> QED  BY <2>1, <2>2
<1>5. PICK g \in Nat, e \in Nat, f \in Nat, l \in Nat, s \in Nat, m \in Nat, t \in Nat :
        /\ g = Cardinality(Gaps) /\ e = Due /\ f = Due' /\ l = lost /\ s = swaps /\ m = lost' /\ t = swaps'
  BY AccountTypes, AccountTypesNext
<1>6. g + e <= l + 3 * s /\ f <= e + d /\ m + 3 * t >= l + 3 * s + d
  BY <1>4, <1>5 DEF GapInv
<1>7. g + f <= m + 3 * t
  BY <1>6
<1> QED  BY <1>2, <1>5, <1>7 DEF GapInv

(* A break is made at the end of the chain by a datagram lost, and at the  *)
(* three places where one overtaken meets its neighbours.                  *)
LEMMA GapQuiet ==
  ASSUME LinkInv, LinkInv', GapInv, UNCHANGED <<recvVars, queue, lost, swaps>>, NextDgram' = NextDgram
  PROVE  GapInv'
<1>1. UNCHANGED <<rpc, n_dgram_wait, abort_frame, loopOK, k_dgram, buff, published>>
  BY DEF recvVars
<1>2. From' = From /\ Read' = Read
  BY <1>1 DEF From, Over, Read
<1>3. Breaks' = Breaks
  BY <1>1, <1>2 DEF Breaks, At
<1>4. Cardinality(Breaks') <= Cardinality(Breaks) + 0 /\ lost' \in Nat /\ swaps' \in Nat
      /\ lost' + 3 * swaps' >= lost + 3 * swaps + 0
  BY <1>3, AccountTypes
<1> QED  BY <1>1, <1>4, GapElsewhere

LEMMA GapSent ==
  ASSUME LinkInv, LinkInv', GapInv, tpc = "send", QueueGrows, Advances,
         UNCHANGED <<sent, recvVars, swaps>>
  PROVE  GapInv'
<1>1. /\ UNCHANGED <<rpc, abort_frame, loopOK, k_dgram, buff, lost>>
      /\ Len(queue') = Len(queue) + 1
      /\ \A i \in 1 .. Len(queue) : queue'[i] = queue[i]
      /\ queue'[Len(queue) + 1] = NextDgram
  BY DEF recvVars, QueueGrows, NextDgram
<1>2. PICK n \in Nat : n = Len(queue)
  BY StateTypes
<1>3. From' = From /\ Read' = Read /\ From \in {0, 1}
  BY <1>1 DEF From, Over, Read
<1>4. \A j \in 0 .. n + 1 : At(j)' = At(j)
  BY <1>1, <1>2, <1>3 DEF At
<1>5. At(n + 1) = NextDgram /\ At(n + 2)' = NextDgram'
  BY <1>1, <1>2 DEF At
<1>6. Succ(NextDgram, NextDgram')
  <2>1. k \in Nat /\ NDgrams \in Nat
    BY StateTypes, Sizes
  <2>2. NextDgram = [tx |-> Len(sent), index |-> k]
    BY DEF NextDgram
  <2>3. CASE k = NDgrams - 1 /\ k' = 0 /\ tpc' = "wait"
    BY <2>2, <2>3 DEF NextDgram, Succ
  <2>4. CASE k < NDgrams - 1 /\ k' = k + 1 /\ tpc' = "send"
    <3>1. NextDgram' = [tx |-> Len(sent), index |-> k + 1]
      BY <2>4 DEF NextDgram
    <3>2. k # NDgrams - 1
      BY <2>1, <2>4
    <3> QED  BY <2>2, <3>1, <3>2 DEF Succ
  <2> QED  BY <2>3, <2>4 DEF Advances
<1>7. Breaks' \subseteq Breaks
  <2>1. ASSUME NEW j \in Breaks'  PROVE j \in Breaks
    <3>1. j \in From .. n + 1 /\ j \in Int /\ ~Succ(At(j)', At(j + 1)')
      BY <1>1, <1>2, <1>3 DEF Breaks
    <3>2. CASE j = n + 1
      <4>1. At(j)' = NextDgram
        BY <1>4, <1>5, <3>2
      <4>2. At(j + 1)' = NextDgram'
        BY <1>5, <3>2
      <4> QED  BY <1>6, <3>1, <4>1, <4>2
    <3>3. CASE j # n + 1
      <4>1. j \in 0 .. n + 1 /\ j + 1 \in 0 .. n + 1 /\ j \in From .. n
        BY <1>3, <3>1, <3>3
      <4>2. At(j)' = At(j) /\ At(j + 1)' = At(j + 1)
        BY <1>4, <4>1
      <4> QED  BY <1>2, <3>1, <4>1, <4>2 DEF Breaks
    <3> QED  BY <3>2, <3>3
  <2> QED  BY <2>1
<1>8. Cardinality(Breaks') <= Cardinality(Breaks) + 0
  <2>1. IsFiniteSet(Breaks) /\ Cardinality(Breaks) \in Nat
    BY AccountTypes
  <2> QED  BY <1>7, <2>1, FS_Subset
<1>9. lost' \in Nat /\ swaps' \in Nat /\ lost' + 3 * swaps' >= lost + 3 * swaps + 0
  BY <1>1, AccountTypes
<1> QED  BY <1>8, <1>9, GapElsewhere

LEMMA GapLoses ==
  ASSUME LinkInv, LinkInv', GapInv, Loses, UNCHANGED <<recvVars, swaps>>
  PROVE  GapInv'
<1>1. UNCHANGED <<rpc, abort_frame, loopOK, k_dgram, buff, queue>> /\ lost' = lost + 1
  BY DEF recvVars, Loses
<1>2. PICK n \in Nat : n = Len(queue)
  BY StateTypes
<1>3. From' = From /\ Read' = Read /\ From \in {0, 1}
  BY <1>1 DEF From, Over, Read
<1>4. \A j \in 0 .. n : At(j)' = At(j)
  BY <1>1, <1>2, <1>3 DEF At
<1>5. Breaks' \subseteq Breaks \cup {n}
  <2>1. ASSUME NEW j \in Breaks', j # n  PROVE j \in Breaks
    <3>1. j \in From .. n /\ j \in 0 .. n /\ j + 1 \in 0 .. n /\ ~Succ(At(j)', At(j + 1)')
      BY <1>1, <1>2, <1>3, <2>1 DEF Breaks
    <3>2. At(j)' = At(j) /\ At(j + 1)' = At(j + 1)
      BY <1>4, <3>1
    <3> QED  BY <1>2, <3>1, <3>2 DEF Breaks
  <2> QED  BY <2>1
<1>6. Cardinality(Breaks') <= Cardinality(Breaks) + 1
  BY <1>5, AccountTypes, Added
<1>7. lost' \in Nat /\ swaps' \in Nat /\ lost' + 3 * swaps' >= lost + 3 * swaps + 1
  BY <1>1, AccountTypes
<1> QED  BY <1>6, <1>7, GapElsewhere

LEMMA GapOvertakes ==
  ASSUME LinkInv, GapInv, Overtakes
  PROVE  GapInv'
<1>1. /\ swaps' = swaps + 1 /\ Len(queue') = Len(queue) /\ LinkInv'
      /\ UNCHANGED <<transmitVars, linkVars, recvVars, CTRLexit, lost>>
  BY LinkOvertakes
<1>2. PICK s \in 1 .. Len(queue) - 1 :
        /\ queue'[s] = queue[s + 1] /\ queue'[s + 1] = queue[s]
        /\ \A l \in (1 .. Len(queue)) \ {s, s + 1} : queue'[l] = queue[l]
  BY LinkOvertakes
<1>3. UNCHANGED <<rpc, abort_frame, loopOK, k_dgram, buff, tpc, sent, k>>
  BY <1>1 DEF transmitVars, linkVars, recvVars
<1>4. PICK n \in Nat : n = Len(queue) /\ s \in Nat /\ s > 0 /\ s < n
  BY StateTypes
<1>5. From' = From /\ Read' = Read /\ NextDgram' = NextDgram /\ From \in {0, 1}
  BY <1>3 DEF From, Over, Read, NextDgram
<1>6. \A j \in (0 .. n + 1) \ {s, s + 1} : At(j)' = At(j)
  <2>1. ASSUME NEW j \in (0 .. n + 1) \ {s, s + 1}  PROVE At(j)' = At(j)
    <3>1. CASE j = 0
      BY <1>3, <1>5, <3>1 DEF At
    <3>2. CASE j # 0 /\ j <= n
      <4>1. j \in (1 .. Len(queue)) \ {s, s + 1}
        BY <1>4, <2>1, <3>2
      <4>2. queue'[j] = queue[j]
        BY <1>2, <4>1
      <4> QED  BY <1>1, <1>4, <3>2, <4>2 DEF At
    <3>3. CASE j # 0 /\ ~(j <= n)
      BY <1>1, <1>4, <1>5, <3>3 DEF At
    <3> QED  BY <3>1, <3>2, <3>3
  <2> QED  BY <2>1
<1>7. Breaks' \subseteq ((Breaks \cup {s - 1}) \cup {s}) \cup {s + 1}
  <2>1. ASSUME NEW j \in Breaks', j \notin {s - 1, s, s + 1}  PROVE j \in Breaks
    <3>1. j \in From .. n /\ ~Succ(At(j)', At(j + 1)')
      BY <1>1, <1>4, <1>5 DEF Breaks
    <3>2. j \in (0 .. n + 1) \ {s, s + 1} /\ j + 1 \in (0 .. n + 1) \ {s, s + 1}
      BY <1>4, <1>5, <2>1, <3>1
    <3>3. At(j)' = At(j) /\ At(j + 1)' = At(j + 1)
      BY <1>6, <3>2
    <3> QED  BY <1>4, <3>1, <3>3 DEF Breaks
  <2> QED  BY <2>1
<1>8. Cardinality(Breaks') <= Cardinality(Breaks) + 3
  <2> DEFINE S1 == Breaks \cup {s - 1}
             S2 == S1 \cup {s}
             S3 == S2 \cup {s + 1}
  <2>1. /\ Cardinality(S1) <= Cardinality(Breaks) + 1 /\ IsFiniteSet(S1) /\ Cardinality(S1) \in Nat
        /\ Cardinality(Breaks) \in Nat
    BY AccountTypes, Added
  <2>2. Cardinality(S2) <= Cardinality(S1) + 1 /\ IsFiniteSet(S2) /\ Cardinality(S2) \in Nat
    BY <2>1, Added
  <2>3. Cardinality(Breaks') <= Cardinality(S2) + 1 /\ Cardinality(Breaks') \in Nat
    <3>1. Breaks' \subseteq S2 \cup {s + 1}
      BY <1>7
    <3> HIDE DEF S2
    <3> QED  BY <2>2, <3>1, Added
  <2> HIDE DEF S1, S2
  <2> QED  BY <2>1, <2>2, <2>3
<1>9. lost' \in Nat /\ swaps' \in Nat /\ lost' + 3 * swaps' >= lost + 3 * swaps + 3
  <2>1. lost \in Nat /\ swaps \in Nat /\ lost' = lost /\ swaps' = swaps + 1
    BY <1>1, AccountTypes
  <2> QED  BY <2>1
<1> QED  BY <1>1, <1>8, <1>9, GapElsewhere

(* A datagram is taken: the chain is one shorter, and so is the list of    *)
(* its breaks if the datagram did not follow the one read before.          *)
LEMMA TakenChain ==
  ASSUME LinkInv, Takes, UNCHANGED <<sent, k, tpc>>, From' = 0 => At(0)' = At(1)
  PROVE  /\ Len(queue') = Len(queue) - 1 /\ Len(queue) \in Nat /\ Len(queue) >= 1
         /\ From \in {0, 1} /\ From' \in {0, 1}
         /\ \A j \in From' .. Len(queue') + 1 : j \in Nat /\ At(j)' = At(j + 1)
<1>1. /\ Len(queue') = Len(queue) - 1 /\ Len(queue) \in Nat /\ Len(queue) >= 1
      /\ \A i \in 1 .. Len(queue') : queue'[i] = queue[i + 1]
  BY TakesHead, StateTypes
<1>2. PICK n \in Nat : n = Len(queue') /\ Len(queue) = n + 1
  BY <1>1
<1>3. From \in {0, 1} /\ From' \in {0, 1} /\ NextDgram' = NextDgram
  BY DEF From, NextDgram
<1>4. ASSUME NEW j \in From' .. n + 1  PROVE j \in Nat /\ At(j)' = At(j + 1)
  <2>1. j \in Nat /\ (j = 0 => From' = 0)
    BY <1>3, <1>4
  <2>2. CASE j = 0
    <3>1. At(0)' = At(1)
      BY <2>1, <2>2
    <3> QED  BY <2>1, <2>2, <3>1
  <2>3. CASE j # 0 /\ j <= n
    <3>1. queue'[j] = queue[j + 1] /\ j + 1 # 0 /\ j + 1 <= n + 1
      BY <1>1, <1>2, <2>1, <2>3
    <3> QED  BY <1>2, <2>1, <2>3, <3>1 DEF At
  <2>4. CASE j # 0 /\ ~(j <= n)
    <3>1. j + 1 # 0 /\ ~(j + 1 <= n + 1)
      BY <2>1, <2>4
    <3> QED  BY <1>2, <1>3, <2>1, <2>4, <3>1 DEF At
  <2> QED  BY <2>2, <2>3, <2>4
<1> QED  BY <1>1, <1>2, <1>3, <1>4

LEMMA TakenBreaks ==
  ASSUME LinkInv, Takes, UNCHANGED <<sent, k, tpc>>, From' = 0 => At(0)' = At(1)
  PROVE  /\ Cardinality(Breaks') <= Cardinality(Breaks)
         /\ 0 \in Breaks => Cardinality(Breaks') <= Cardinality(Breaks) - 1
<1>1. PICK n \in Nat : n = Len(queue') /\ Len(queue) = n + 1
  <2>1. Len(queue') = Len(queue) - 1 /\ Len(queue) \in Nat /\ Len(queue) >= 1
    BY TakesHead, StateTypes
  <2>2. Len(queue') \in Nat /\ Len(queue) = Len(queue') + 1
    BY <2>1
  <2> QED  BY <2>2
<1>2. /\ From \in {0, 1} /\ From' \in {0, 1}
      /\ \A j \in From' .. n + 1 : j \in Nat /\ At(j)' = At(j + 1)
  BY <1>1, TakenChain
<1>3. ASSUME NEW j \in Breaks'  PROVE j \in Int /\ j + 1 \in Breaks \ {0}
  <2>1. j \in From' .. n /\ ~Succ(At(j)', At(j + 1)')
    BY <1>1 DEF Breaks
  <2>2. j \in Nat /\ j + 1 \in From .. n + 1 /\ j \in From' .. n + 1 /\ j + 1 \in From' .. n + 1
    BY <1>2, <2>1
  <2>3. At(j)' = At(j + 1) /\ At(j + 1)' = At(j + 1 + 1)
    BY <1>2, <2>2
  <2>4. j + 1 \in Breaks
    BY <1>1, <2>1, <2>2, <2>3 DEF Breaks
  <2> QED  BY <2>2, <2>4
<1>4. /\ IsFiniteSet(Breaks \ {0}) /\ Cardinality(Breaks) \in Nat
      /\ Cardinality(Breaks \ {0}) = IF 0 \in Breaks THEN Cardinality(Breaks) - 1 ELSE Cardinality(Breaks)
  BY AccountTypes, FS_RemoveElement
<1>5. Cardinality(Breaks') <= Cardinality(Breaks \ {0})
  BY <1>3, <1>4, Shifted
<1>6. Cardinality(Breaks \ {0}) \in Nat
  BY <1>4, FS_CardinalityType
<1>7. Cardinality(Breaks') \in Nat
  <2>1. Breaks' \subseteq 0 .. n
    BY <1>1, <1>2 DEF Breaks
  <2> QED  BY <2>1, UpTo
<1>8. CASE 0 \in Breaks
  <2>1. Cardinality(Breaks') <= Cardinality(Breaks) - 1 /\ Cardinality(Breaks') \in Nat
    BY <1>4, <1>5, <1>8, <1>7
  <2> QED  BY <1>4, <2>1
<1>9. CASE 0 \notin Breaks
  <2>1. Cardinality(Breaks') <= Cardinality(Breaks)
    BY <1>4, <1>5, <1>9
  <2> QED  BY <1>9, <2>1
<1> QED  BY <1>4, <1>8, <1>9

(* The receiver publishes nothing: what is due may become owed.            *)
LEMMA GapReads ==
  ASSUME LinkInv, LinkInv', GapInv, UNCHANGED <<published, lost, swaps>>,
         rpc # "ended", Due' <= Due
  PROVE  GapInv'
<1>1. Gaps' \subseteq Gaps
  <2>1. Len(published) \in Nat
    BY StateTypes
  <2>2. Regular = Len(published) /\ Regular' <= Len(published) /\ Regular' \in Int
    BY <2>1 DEF Regular
  <2>3. Regulars' \subseteq Regulars
    BY <2>1, <2>2 DEF Regulars
  <2> QED  BY <2>3 DEF Gaps, Gap, TxOf
<1>2. Cardinality(Gaps') <= Cardinality(Gaps) /\ Cardinality(Gaps') \in Nat
  BY <1>1, AccountTypes, FS_Subset, FS_CardinalityType
<1>3. PICK g \in Nat, h \in Nat, e \in Nat, f \in Nat :
        g = Cardinality(Gaps) /\ h = Cardinality(Gaps') /\ e = Due /\ f = Due'
  BY <1>2, AccountTypes, AccountTypesNext
<1>4. PICK m \in Nat : m = lost + 3 * swaps
  BY AccountTypes
<1>5. g + e <= m /\ h <= g /\ f <= e
  BY <1>2, <1>3, <1>4 DEF GapInv
<1>6. h + f <= m
  BY <1>5
<1> QED  BY <1>3, <1>4, <1>6 DEF GapInv

LEMMA DueOver ==
  ASSUME LinkInv, Over'
  PROVE  Due' <= Due
<1>1. Due' = 0 /\ Due \in Nat
  BY AccountTypes DEF Due
<1> QED  BY <1>1

LEMMA DueSum ==
  ASSUME LinkInv, LinkInv', ~Over, ~Over', Owed' + Cardinality(Breaks') <= Owed + Cardinality(Breaks)
  PROVE  Due' <= Due
BY DEF Due

LEMMA Sum ==
  ASSUME NEW o \in Nat, NEW b \in Nat, NEW p \in Nat, NEW c \in Nat, NEW d \in {0, 1},
         p <= o + d, c <= b - d
  PROVE  p + c <= o + b
OBVIOUS

(* What is owed grows by one at most, and only past a break.               *)
LEMMA DueTaken ==
  ASSUME LinkInv, LinkInv', Takes, UNCHANGED <<sent, k, tpc>>, From' = 0 => At(0)' = At(1),
         ~Over, Over' \/ Owed' <= Owed \/ (0 \in Breaks /\ Owed' <= Owed + 1)
  PROVE  Due' <= Due
<1>1. CASE Over'
  BY <1>1, DueOver
<1>2. CASE ~Over'
  <2>1. /\ Owed \in Nat /\ Owed' \in Nat /\ Cardinality(Breaks) \in Nat /\ Cardinality(Breaks') \in Nat
    BY AccountTypes, AccountTypesNext
  <2>2. CASE Owed' <= Owed
    <3>1. Owed' <= Owed + 0 /\ Cardinality(Breaks') <= Cardinality(Breaks) - 0
      BY <2>1, <2>2, TakenBreaks
    <3> QED  BY <1>2, <2>1, <3>1, Sum, DueSum
  <2>3. CASE 0 \in Breaks /\ Owed' <= Owed + 1
    <3>1. Cardinality(Breaks') <= Cardinality(Breaks) - 1
      BY <2>3, TakenBreaks
    <3> QED  BY <1>2, <2>1, <2>3, <3>1, Sum, DueSum
  <2> QED  BY <1>2, <2>2, <2>3
<1> QED  BY <1>1, <1>2

LEMMA GapWaits ==
  ASSUME LinkInv, LinkInv', GapInv, WaitsForMetadata \/ Purges \/ BeginsIteration
  PROVE  GapInv'
<1>1. /\ UNCHANGED <<sent, k, tpc, lost, swaps, abort_frame, buff, published>>
      /\ rpc \in {"meta", "purge", "top"} /\ rpc' \notin {"next", "publish"}
      /\ rpc # "top" => abort_frame
  BY DEF WaitsForMetadata, Purges, BeginsIteration, NotTheTransmitter, linkVars, transmitVars, LinkInv, SyncInv
<1>2. Read' = NDgrams /\ Read = NDgrams /\ ~Over
  BY <1>1 DEF Read, Over
<1>3. CASE Over'
  BY <1>1, <1>3, DueOver, GapReads
<1>4. CASE ~Over'
  <2>1. Owed' = Owed /\ From' = From
    <3>1. Torn' = Torn
      BY <1>1, <1>2 DEF Torn
    <3> QED  BY <1>1, <1>2, <1>4, <3>1 DEF Owed, From
  <2>2. CASE Takes
    <3>1. Owed \in Nat /\ Owed' <= Owed
      BY <2>1, AccountTypes
    <3>2. From' = 1
      BY <1>1, <2>1, <2>2 DEF From, WaitsForMetadata, Purges, BeginsIteration, Takes
    <3>3. Due' <= Due
      BY <1>1, <1>2, <2>2, <3>1, <3>2, DueTaken
    <3> QED  BY <1>1, <3>3, GapReads
  <2>3. CASE UNCHANGED queue
    <3>1. Breaks' = Breaks
      BY <1>1, <1>2, <2>1, <2>3 DEF Breaks, At, NextDgram
    <3>2. Due' <= Due
      <4>1. Due' = Due
        BY <1>2, <1>4, <2>1, <3>1 DEF Due
      <4> QED  BY <4>1, AccountTypes
    <3> QED  BY <1>1, <3>2, GapReads
  <2> QED  BY <2>2, <2>3 DEF WaitsForMetadata, Purges, BeginsIteration
<1> QED  BY <1>3, <1>4

(* The datagram 0 of a frame is read.                                      *)
LEMMA FrameHead ==
  ASSUME LinkInv, Takes, BeginsFrame, loopOK, Received.index = 0
  PROVE  /\ rpc' \in {"next", "publish"} /\ Read' = 1 /\ buff'[0] = Received.tx
         /\ ~Torn' /\ At(0)' = At(1) /\ At(1) = Received
<1>1. /\ rpc' = IF NDgrams > 1 THEN "next" ELSE "publish"
      /\ k_dgram' = IF NDgrams > 1 THEN 1 ELSE 0
      /\ buff' = [buff EXCEPT ![0] = Received.tx]
  BY DEF BeginsFrame
<1>2. Read' = 1
  BY <1>1, Sizes DEF Read
<1>3. buff'[0] = Received.tx
  BY <1>1, StateTypes, Sizes
<1>4. ~Torn'
  BY <1>2 DEF Torn
<1>5. At(0)' = [tx |-> Received.tx, index |-> 0]
  BY <1>2, <1>3 DEF At
<1>6. At(1) = Received /\ Received \in [tx : Transmissions, index : Parts]
  BY TakesHead, StateTypes, DgramType DEF At
<1>7. Received = [tx |-> Received.tx, index |-> 0]
  BY <1>6
<1> QED  BY <1>1, <1>2, <1>3, <1>4, <1>5, <1>6, <1>7

LEMMA GapResyncs ==
  ASSUME LinkInv, LinkInv', GapInv, Resyncs
  PROVE  GapInv'
<1>1. /\ rpc = "resync" /\ Takes /\ UNCHANGED <<loopOK, published, sent, k, tpc, lost, swaps>>
      /\ abort_frame /\ ~Over
  BY DEF Resyncs, NotTheTransmitter, linkVars, transmitVars, LinkInv, SyncInv, Over
<1>2. Owed = AsNr(published # <<>>) /\ Owed \in Nat
  BY <1>1, AccountTypes DEF Owed
<1>3. CASE Over'
  BY <1>1, <1>3, DueOver, GapReads
<1>4. CASE ~Over' /\ ~(Received.index = 0)
  <2>1. UNCHANGED <<rpc, abort_frame>>
    BY <1>1, <1>4 DEF Resyncs, Over
  <2>2. Owed' = Owed /\ From' = 1
    BY <1>1, <2>1 DEF Owed, From
  <2>3. Owed' <= Owed
    BY <1>2, <2>2
  <2>4. Due' <= Due
    BY <1>1, <2>2, <2>3, DueTaken
  <2> QED  BY <1>1, <2>4, GapReads
<1>5. CASE ~Over' /\ Received.index = 0
  <2>1. BeginsFrame /\ abort_frame' = FALSE /\ loopOK
    <3>1. ~WaitedEnough
      BY <1>5 DEF Resyncs, Over
    <3>2. BeginsFrame /\ abort_frame' = FALSE
      BY <1>5, <3>1 DEF Resyncs
    <3>3. ~loopOK => rpc' = "publish"
      BY <3>2 DEF BeginsFrame
    <3> QED  BY <1>1, <1>5, <3>2, <3>3 DEF Over
  <2>2. rpc' \in {"next", "publish"} /\ ~Torn' /\ At(0)' = At(1)
    BY <1>1, <1>5, <2>1, FrameHead
  <2>3. Owed' = AsNr(Late') + 0
    BY <2>1, <2>2 DEF Owed, AsNr
  <2>4. Late' => published # <<>>
    BY <1>1 DEF Late
  <2>5. Owed' <= Owed
    BY <1>2, <2>3, <2>4 DEF AsNr
  <2>6. Due' <= Due
    BY <1>1, <2>2, <2>5, DueTaken
  <2> QED  BY <1>1, <2>6, GapReads
<1> QED  BY <1>3, <1>4, <1>5

LEMMA ChainHead ==
  ASSUME LinkInv, Takes, ~abort_frame, ~Over
  PROVE  /\ 0 \in Breaks <=> ~Succ(At(0), Received)
         /\ At(0) = [tx |-> buff[Read - 1], index |-> Read - 1] /\ At(1) = Received
<1>1. Len(queue) \in Nat /\ Len(queue) >= 1 /\ Received = queue[1]
  BY TakesHead, StateTypes
<1>2. From = 0 /\ 0 \in 0 .. Len(queue)
  BY <1>1 DEF From
<1>3. At(0) = [tx |-> buff[Read - 1], index |-> Read - 1] /\ At(1) = Received
  BY <1>1 DEF At
<1> QED  BY <1>2, <1>3 DEF Breaks

LEMMA GapFirst ==
  ASSUME LinkInv, LinkInv', GapInv, FirstArrives
  PROVE  GapInv'
<1>1. /\ rpc = "first" /\ Takes /\ UNCHANGED <<loopOK, published, sent, k, tpc, lost, swaps>>
      /\ ~abort_frame /\ ~Over /\ published # <<>> /\ published[Len(published)].parts = buff
  BY DEF FirstArrives, NotTheTransmitter, linkVars, transmitVars, LinkInv, SyncInv, Over
<1>2. Owed = 0 + AsNr(Torn) /\ Owed \in Nat /\ Read = NDgrams
  BY <1>1, AccountTypes DEF Owed, AsNr, Read
<1>3. /\ 0 \in Breaks <=> ~Succ(At(0), Received)
      /\ At(0) = [tx |-> buff[NDgrams - 1], index |-> NDgrams - 1]
  BY <1>1, <1>2, ChainHead
<1>4. CASE Over'
  BY <1>1, <1>4, DueOver, GapReads
<1>5. CASE ~Over' /\ loopOK /\ Received.index = 0
  <2>1. BeginsFrame /\ abort_frame' = FALSE
    BY <1>1, <1>5 DEF FirstArrives
  <2>2. rpc' \in {"next", "publish"} /\ buff'[0] = Received.tx /\ ~Torn' /\ At(0)' = At(1)
    BY <1>1, <1>5, <2>1, FrameHead
  <2>3. Owed' = AsNr(Late') + 0
    BY <2>1, <2>2 DEF Owed, AsNr
  <2>4. Owed' <= Owed + 1
    BY <1>2, <2>3 DEF AsNr
  <2>5. ASSUME 0 \notin Breaks  PROVE Owed' <= Owed
    <3>1. Received.tx = buff[NDgrams - 1] + 1
      BY <1>3, <2>5 DEF Succ
    <3>2. TxOf(Len(published)) = buff[0]
      BY <1>1 DEF TxOf
    <3>3. Late' <=> buff[NDgrams - 1] + 1 # buff[0] + 1
      BY <1>1, <2>2, <3>1, <3>2 DEF Late, TxOf
    <3>4. ~Torn => ~Late'
      BY <1>2, <3>3 DEF Torn
    <3> QED  BY <1>2, <2>3, <3>4 DEF AsNr
  <2>6. Due' <= Due
    BY <1>1, <2>2, <2>4, <2>5, DueTaken
  <2> QED  BY <1>1, <2>6, GapReads
<1>6. CASE ~Over' /\ loopOK /\ Received.index # 0
  <2>1. abort_frame' = TRUE
    BY <1>6 DEF FirstArrives
  <2>2. 0 \in Breaks
    BY <1>3, <1>6 DEF Succ
  <2>3. Owed' <= Owed + 1 /\ From' = 1
    BY <1>2, <2>1 DEF Owed, AsNr, From
  <2>4. Due' <= Due
    BY <1>1, <2>2, <2>3, DueTaken
  <2> QED  BY <1>1, <2>4, GapReads
<1>7. ~loopOK => Over'
  BY <1>1 DEF FirstArrives, BeginsFrame, Over
<1> QED  BY <1>4, <1>5, <1>6, <1>7

LEMMA GapNext ==
  ASSUME LinkInv, LinkInv', GapInv, NextArrives
  PROVE  GapInv'
<1>1. /\ rpc = "next" /\ Takes /\ UNCHANGED <<loopOK, published, sent, k, tpc, lost, swaps>>
      /\ ~abort_frame /\ ~Over /\ loopOK /\ k_dgram # 0
  BY DEF NextArrives, NotTheTransmitter, linkVars, transmitVars, LinkInv, SyncInv, Over
<1>2. Read = k_dgram /\ k_dgram \in Nat /\ k_dgram > 0 /\ k_dgram < NDgrams /\ NDgrams \in Nat
      /\ k_dgram \in Parts
  <2>1. k_dgram \in Parts /\ NDgrams \in Nat
    BY StateTypes, Sizes
  <2> QED  BY <1>1, <2>1 DEF Read, Parts
<1>3. Owed = AsNr(Late) + AsNr(Torn) /\ Owed \in Nat
  BY <1>1, AccountTypes DEF Owed, AsNr
<1>4. /\ 0 \in Breaks <=> ~Succ(At(0), Received)
      /\ At(0) = [tx |-> buff[k_dgram - 1], index |-> k_dgram - 1] /\ At(1) = Received
  BY <1>1, <1>2, ChainHead
<1>5. k_dgram - 1 # NDgrams - 1 /\ k_dgram - 1 + 1 = k_dgram
  BY <1>2
<1>6. CASE Follows
  <2>1. /\ buff' = [buff EXCEPT ![k_dgram] = Received.tx] /\ UNCHANGED abort_frame
        /\ \/ k_dgram = NDgrams - 1 /\ rpc' = "publish" /\ k_dgram' = 0
           \/ k_dgram # NDgrams - 1 /\ rpc' = "next" /\ k_dgram' = k_dgram + 1
        /\ Received.index = k_dgram
    BY <1>1, <1>6 DEF NextArrives, Follows
  <2>2. Read' - 1 = k_dgram /\ rpc' \in {"next", "publish"} /\ ~Over'
    BY <1>1, <1>2, <2>1 DEF Read, Over
  <2>3. buff'[k_dgram] = Received.tx /\ buff'[0] = buff[0]
    BY <1>1, <1>2, <2>1, StateTypes, Sizes
  <2>4. At(0)' = At(1)
    <3>1. At(0)' = [tx |-> Received.tx, index |-> k_dgram]
      BY <2>2, <2>3 DEF At
    <3>2. Received \in [tx : Transmissions, index : Parts]
      BY <1>1, TakesHead, DgramType
    <3>3. Received = [tx |-> Received.tx, index |-> k_dgram]
      BY <2>1, <3>2
    <3> QED  BY <1>4, <3>1, <3>3
  <2>5. (Late' <=> Late) /\ (Torn' <=> Received.tx # buff[0])
    BY <1>1, <2>2, <2>3 DEF Late, TxOf, Torn
  <2>6. Owed' = AsNr(Late) + AsNr(Torn')
    BY <1>1, <2>1, <2>2, <2>5 DEF Owed, AsNr
  <2>7. Owed' <= Owed + 1
    BY <1>3, <2>6 DEF AsNr
  <2>8. ASSUME 0 \notin Breaks  PROVE Owed' <= Owed
    <3>1. Received.tx = buff[k_dgram - 1]
      BY <1>4, <1>5, <2>8 DEF Succ
    <3>2. Torn' <=> Torn
      BY <1>2, <2>5, <3>1 DEF Torn
    <3> QED  BY <1>3, <2>6, <3>2 DEF AsNr
  <2>9. Due' <= Due
    BY <1>1, <2>4, <2>7, <2>8, DueTaken
  <2> QED  BY <1>1, <2>9, GapReads
<1>7. CASE ~Follows
  <2>1. abort_frame' = TRUE
    BY <1>7 DEF NextArrives
  <2>2. 0 \in Breaks
    BY <1>4, <1>5, <1>7 DEF Succ, Follows
  <2>3. Owed' <= Owed + 1 /\ From' = 1
    BY <1>3, <2>1 DEF Owed, AsNr, From
  <2>4. Due' <= Due
    BY <1>1, <2>2, <2>3, DueTaken
  <2> QED  BY <1>1, <2>4, GapReads
<1> QED  BY <1>6, <1>7

LEMMA GapPublishes ==
  ASSUME LinkInv, LinkInv', GapInv, Publishes
  PROVE  GapInv'
<1>1. /\ rpc = "publish" /\ rpc' = (IF loopOK THEN "top" ELSE "ended")
      /\ UNCHANGED <<queue, abort_frame, loopOK, buff, sent, k, tpc, lost, swaps>>
      /\ ~abort_frame
  BY DEF Publishes, NotTheTransmitter, linkVars, transmitVars, LinkInv, SyncInv
<1>2. PICK n \in Nat : n = Len(published) /\ Len(published') = n + 1
  BY LinkPublishes, StateTypes
<1>3. /\ published'[n + 1].parts = buff
      /\ \A i \in 1 .. n : published'[i] = published[i]
  BY <1>2, LinkPublishes
<1>4. Regulars = 1 .. n
  BY <1>1, <1>2 DEF Regulars, Regular
<1>5. \A i \in 1 .. n : Gap(i)' <=> Gap(i)
  <2>1. ASSUME NEW i \in 1 .. n  PROVE Gap(i)' <=> Gap(i)
    <3>1. CASE i = 1
      BY <3>1 DEF Gap
    <3>2. CASE i > 1
      <4>1. i - 1 \in 1 .. n
        BY <2>1, <3>2
      <4> QED  BY <1>3, <2>1, <4>1 DEF Gap, TxOf
    <3> QED  BY <2>1, <3>1, <3>2
  <2> QED  BY <2>1
<1>6. CASE ~loopOK
  <2>1. Regulars' = 1 .. n
    BY <1>1, <1>2, <1>6 DEF Regulars, Regular
  <2>2. Gaps' = Gaps
    BY <1>4, <1>5, <2>1 DEF Gaps
  <2>3. Due' = 0 /\ Due = 0
    BY <1>1, <1>6 DEF Due, Over
  <2> QED  BY <1>1, <2>2, <2>3 DEF GapInv
<1>7. CASE loopOK
  <2>1. Regulars' = 1 .. n + 1
    BY <1>1, <1>2, <1>7 DEF Regulars, Regular
  <2>2. ~Over /\ ~Over' /\ From' = From /\ Read' = NDgrams /\ Read = NDgrams
    BY <1>1, <1>7 DEF Over, From, Read
  <2>3. Breaks' = Breaks
    BY <1>1, <2>2 DEF Breaks, At, NextDgram
  <2>4. Torn' <=> Torn
    BY <1>1, <2>2 DEF Torn
  <2>5. Owed = AsNr(Late) + AsNr(Torn)
    BY <1>1 DEF Owed, AsNr
  <2>6. Owed' = AsNr(Torn)
    BY <1>1, <1>7, <2>4 DEF Owed, AsNr
  <2>7. Gap(n + 1)' <=> Late
    <3>1. Gap(n + 1)' <=> n + 1 > 1 /\ TxOf(n + 1)' # TxOf(n + 1 - 1)' + 1
      BY DEF Gap
    <3>2. TxOf(n + 1)' = buff[0]
      BY <1>3 DEF TxOf
    <3>3. n + 1 > 1 <=> published # <<>>
      <4>1. published = <<>> <=> n = 0
        BY <1>2, StateTypes, EmptySeq
      <4> QED  BY <1>2, <4>1
    <3>4. n + 1 > 1 => TxOf(n + 1 - 1)' = TxOf(n)
      <4>1. ASSUME n + 1 > 1  PROVE n + 1 - 1 = n /\ n \in 1 .. n
        BY <4>1
      <4> QED  BY <1>3, <4>1 DEF TxOf
    <3> QED  BY <1>2, <3>1, <3>2, <3>3, <3>4 DEF Late
  <2>8. Gaps' = Gaps \cup (IF Late THEN {n + 1} ELSE {})
    <3>1. Gaps = {i \in 1 .. n : Gap(i)} /\ Gaps' = {i \in 1 .. n + 1 : Gap(i)'}
      BY <1>4, <2>1 DEF Gaps
    <3>2. 1 .. n + 1 = 1 .. n \cup {n + 1}
      OBVIOUS
    <3> QED  BY <1>5, <2>7, <3>1, <3>2
  <2>9. Cardinality(Gaps') <= Cardinality(Gaps) + AsNr(Late) /\ Cardinality(Gaps') \in Nat
    <3>1. CASE Late
      <4>1. Gaps' \subseteq Gaps \cup {n + 1}
        BY <2>8, <3>1
      <4>2. Cardinality(Gaps') <= Cardinality(Gaps) + 1 /\ Cardinality(Gaps') \in Nat
        BY <4>1, AccountTypes, Added
      <4> QED  BY <3>1, <4>2 DEF AsNr
    <3>2. CASE ~Late
      <4>1. Gaps' = Gaps
        BY <2>8, <3>2
      <4> QED  BY <3>2, <4>1, AccountTypes DEF AsNr
    <3> QED  BY <3>1, <3>2
  <2>10. PICK g \in Nat, h \in Nat, b \in Nat, l \in Nat, t \in Nat, m \in Nat :
           /\ g = Cardinality(Gaps) /\ h = Cardinality(Gaps') /\ b = Cardinality(Breaks)
           /\ l = AsNr(Late) /\ t = AsNr(Torn) /\ m = lost + 3 * swaps
    <3>1. AsNr(Late) \in Nat /\ AsNr(Torn) \in Nat
      BY DEF AsNr
    <3>2. lost + 3 * swaps \in Nat
      BY AccountTypes
    <3> QED  BY <2>9, <3>1, <3>2, AccountTypes
  <2>11. Due = l + t + b /\ Due' = t + b
    BY <2>2, <2>3, <2>5, <2>6, <2>10 DEF Due
  <2>12. g + (l + t + b) <= m /\ h <= g + l
    BY <2>9, <2>10, <2>11 DEF GapInv
  <2>13. h + (t + b) <= m
    BY <2>12
  <2>14. lost' + 3 * swaps' = m
    BY <1>1, <2>10
  <2> QED  BY <2>10, <2>11, <2>13, <2>14 DEF GapInv
<1> QED  BY <1>6, <1>7

LEMMA GapInit == Init => GapInv
<1> SUFFICES ASSUME Init  PROVE GapInv
  OBVIOUS
<1>1. /\ tpc = "wait" /\ queue = <<>> /\ sent = <<>> /\ rpc = "meta" /\ abort_frame = TRUE
      /\ published = <<>> /\ lost = 0 /\ swaps = 0 /\ Len(queue) = 0 /\ Len(published) = 0
  BY DEF Init, TransmitInit
<1>2. Breaks = {} /\ Gaps = {}
  BY <1>1 DEF Breaks, From, Gaps, Regulars, Regular
<1>3. Cardinality(Breaks) = 0 /\ Cardinality(Gaps) = 0
  BY <1>2, FS_EmptySet
<1>4. Due = 0
  BY <1>1, <1>3 DEF Due, Owed, AsNr
<1> QED  BY <1>1, <1>3, <1>4 DEF GapInv

LEMMA GapStep == LinkInv /\ LinkInv' /\ GapInv /\ [Next]_vars => GapInv'
<1> SUFFICES ASSUME LinkInv, LinkInv', GapInv, [Next]_vars  PROVE GapInv'
  OBVIOUS
<1>1. CASE Writer /\ UNCHANGED <<linkVars, queue, recvVars, CTRLexit, lost, swaps>>
  <2>1. NextDgram' = NextDgram
    BY <1>1, LinkWriter DEF linkVars, NextDgram
  <2> QED  BY <1>1, <2>1, GapQuiet
<1>2. CASE Transmitter
  <2>1. CASE (Wakes \/ WaitTimesOut) /\ NotTheReceiver /\ UNCHANGED <<linkVars, queue, lost>>
    <3>1. NextDgram' = NextDgram
      BY <2>1, LinkWaits DEF linkVars, NextDgram
    <3> QED  BY <2>1, <3>1, GapQuiet DEF NotTheReceiver
  <2>2. CASE CopiesMetadata
    <3>1. /\ tpc = "slice" /\ tpc' = "data" /\ Len(sent') = Len(sent) + 1 /\ k = 0
          /\ UNCHANGED <<k, queue, recvVars, lost, swaps>>
      BY <2>2, LinkMetadata
    <3>2. NextDgram' = NextDgram
      BY <3>1 DEF NextDgram
    <3> QED  BY <3>1, <3>2, GapQuiet
  <2>3. CASE CopiesData
    <3>1. /\ tpc = "data" /\ tpc' = "send" /\ Len(sent') = Len(sent)
          /\ UNCHANGED <<k, queue, recvVars, lost, swaps>>
      BY <2>3, LinkCopies
    <3>2. NextDgram' = NextDgram
      BY <3>1 DEF NextDgram
    <3> QED  BY <3>1, <3>2, GapQuiet
  <2>4. CASE Sends
    <3>1. /\ tpc = "send" /\ UNCHANGED <<sent, recvVars, swaps>> /\ (QueueGrows \/ Loses) /\ Advances
      BY <2>4, LinkSends
    <3> QED  BY <3>1, GapSent, GapLoses
  <2> QED  BY <1>2, <2>1, <2>2, <2>3, <2>4 DEF Transmitter
<1>3. CASE Overtakes
  BY <1>3, GapOvertakes
<1>4. CASE Receiver
  BY <1>4, GapWaits, GapResyncs, GapFirst, GapNext, GapPublishes DEF Receiver
<1>5. CASE AsksForExit \/ UNCHANGED vars
  <2>1. UNCHANGED <<transmitVars, linkVars, queue, recvVars, lost, swaps>>
    BY <1>5, LinkIdle
  <2>2. NextDgram' = NextDgram
    BY <2>1 DEF transmitVars, linkVars, NextDgram
  <2> QED  BY <2>1, <2>2, GapQuiet
<1> QED  BY <1>1, <1>2, <1>3, <1>4, <1>5 DEF Next

LEMMA GapInvariance == Spec => []GapInv
BY GapInit, GapStep, LinkInvariance, PTL DEF Spec

(* A place at which frames are skipped or one is published twice is the    *)
(* work of a fault, and a fault has at most the three places to show at    *)
(* where what it moved meets its neighbours: the receiver always finds its *)
(* way back into sync.  At one place several frames may be skipped.        *)
THEOREM GapsHaveFaults ==
  Spec => [](Cardinality({i \in Regulars : Gap(i)}) <= lost + 3 * swaps)
<1>1. LinkInv /\ GapInv => Cardinality({i \in Regulars : Gap(i)}) <= lost + 3 * swaps
  <2> SUFFICES ASSUME LinkInv, GapInv
               PROVE  Cardinality(Gaps) <= lost + 3 * swaps
    BY DEF Gaps
  <2>1. PICK g \in Nat, d \in Nat, m \in Nat : g = Cardinality(Gaps) /\ d = Due /\ m = lost + 3 * swaps
    BY AccountTypes
  <2>2. g + d <= m
    BY <2>1 DEF GapInv
  <2> QED  BY <2>1, <2>2
<1> QED  BY <1>1, LinkInvariance, GapInvariance, PTL

(* What the runs check of it, when the network keeps the order of the      *)
(* datagrams or a frame is a single one: as many gaps as losses, and three *)
(* for each datagram overtaken.                                            *)
THEOREM GapsInOrder == Spec => [](swaps = 0 \/ NDgrams = 1 => GapsAreFaults)
<1>1. LinkInv /\ Cardinality({i \in Regulars : Gap(i)}) <= lost + 3 * swaps
        => (swaps = 0 \/ NDgrams = 1 => GapsAreFaults)
  <2> SUFFICES ASSUME LinkInv, Cardinality({i \in Regulars : Gap(i)}) <= lost + 3 * swaps,
                      swaps = 0 \/ NDgrams = 1
               PROVE  GapsAreFaults
    OBVIOUS
  <2>1. CASE NDgrams = 1
    BY <2>1 DEF GapsAreFaults
  <2>2. CASE swaps = 0
    <3>1. lost + 3 * swaps = lost /\ lost + (IF NDgrams = 1 THEN 3 ELSE 1) * swaps = lost
      BY <2>2, StateTypes
    <3> QED  BY <3>1 DEF GapsAreFaults
  <2> QED  BY <2>1, <2>2
<1> QED  BY <1>1, LinkInvariance, GapsHaveFaults, PTL

------------------------------------------------------------------------------
(* Frames of two transmissions.  A datagram may be taken for the next part *)
(* of the frame when it is a part of another transmission; say that it     *)
(* joins the one before it.  As sent, it does so only when the datagrams   *)
(* lost before it are as many as a frame has; one overtaken may make three *)
(* joints, or two and the next datagram sent another one.                  *)
Nr(d) == d.tx * NDgrams + d.index
Worth(c) == NDgrams * c
Joins(x, y) == y.tx # x.tx /\ y.index = x.index + 1
Joints == {j \in From .. Len(queue) - 1 : Joins(At(j), At(j + 1))}

(* Every datagram of the chain was sent before the one that is next; those *)
(* sent between the last of the chain and the next one are Pending.        *)
Older == \A j \in From .. Len(queue) : Nr(At(j)) < Nr(NextDgram)
Pending == IF From <= Len(queue) THEN Nr(NextDgram) - Nr(At(Len(queue))) - 1 ELSE 0

Mixing == rpc \in {"next", "publish"} /\ \E p \in 0 .. Read - 1 : buff[p] # buff[0]
MixedFrames == {i \in Regulars : Mixed(i)}
MixedSoon == Cardinality(MixedFrames) + AsNr(Mixing) + Cardinality(Joints)
Budget == lost + Worth(3 * swaps)

(* c joints are paid for, and either the datagrams that are pending or one *)
(* joint more, with the next datagram sent.                                *)
Paid(c, p, b) == Worth(c) + p <= b \/ Worth(c + 1) <= b

MixedInv == IF Over THEN Worth(Cardinality(MixedFrames)) <= Budget
            ELSE Older /\ Paid(MixedSoon, Pending, Budget)

LEMMA WorthGrows ==
  ASSUME NEW c \in Nat
  PROVE  /\ Worth(c) \in Nat /\ Worth(c + 1) = Worth(c) + NDgrams
         /\ \A d \in Nat : d <= c => Worth(d) <= Worth(c)
<1>1. PICK m \in Nat : m = NDgrams
  BY Sizes
<1>2. m * c \in Nat /\ m * (c + 1) = m * c + m
  OBVIOUS
<1>3. ASSUME NEW d \in Nat, d <= c  PROVE m * d <= m * c
  <2>1. PICK e \in Nat : c = d + e
    BY <1>3
  <2>2. m * (d + e) = m * d + m * e /\ m * e \in Nat /\ m * d \in Nat
    OBVIOUS
  <2> QED  BY <2>1, <2>2
<1> QED  BY <1>1, <1>2, <1>3 DEF Worth

LEMMA NrType ==
  ASSUME NEW d, d.tx \in Nat, d.index \in Nat
  PROVE  Nr(d) \in Nat
<1>1. PICK t \in Nat, i \in Nat, m \in Nat : t = d.tx /\ i = d.index /\ m = NDgrams
  BY Sizes
<1>2. t * m + i \in Nat
  OBVIOUS
<1> QED  BY <1>1, <1>2 DEF Nr

LEMMA Further ==
  ASSUME NEW m \in Nat, NEW f \in Nat, NEW g \in Nat, NEW a \in Nat,
         f * m + a < g * m + (a + 1), f # g
  PROVE  m <= (g * m + (a + 1)) - (f * m + a) - 1
<1>1. f * m \in Nat /\ g * m \in Nat /\ f * m <= g * m
  OBVIOUS
<1>2. CASE f < g
  <2>1. PICK e \in Nat : g = f + 1 + e
    BY <1>2
  <2>2. (f + 1 + e) * m = f * m + m + e * m /\ e * m \in Nat
    OBVIOUS
  <2> QED  BY <1>1, <2>1, <2>2
<1>3. CASE g < f
  <2>1. PICK e \in Nat : f = g + 1 + e
    BY <1>3
  <2>2. (g + 1 + e) * m = g * m + m + e * m /\ e * m \in Nat
    OBVIOUS
  <2>3. m = 0
    BY <1>1, <2>1, <2>2
  <2> QED  BY <2>3
<1> QED  BY <1>2, <1>3

LEMMA AtType ==
  ASSUME LinkInv, NEW j \in 0 .. Len(queue) + 1
  PROVE  At(j).tx \in Nat /\ At(j).index \in Nat /\ Nr(At(j)) \in Nat
<1>1. At(j).tx \in Nat /\ At(j).index \in Nat
  <2>1. CASE j = 0
    <3>1. Read - 1 \in Parts /\ Read - 1 \in Nat
      <4>1. CASE rpc = "next"
        <5>1. k_dgram \in Nat /\ k_dgram # 0 /\ k_dgram < NDgrams /\ NDgrams \in Nat
          BY <4>1, StateTypes, Sizes DEF LinkInv, SyncInv
        <5>2. k_dgram - 1 \in Nat /\ k_dgram - 1 < NDgrams
          BY <5>1
        <5> QED  BY <4>1, <5>2, Sizes DEF Read
      <4>2. CASE rpc # "next"
        BY <4>2, Sizes DEF Read
      <4> QED  BY <4>1, <4>2
    <3>2. buff[Read - 1] \in Nat
      BY <3>1, StateTypes, KeptQueue
    <3> QED  BY <2>1, <3>1, <3>2 DEF At
  <2>2. CASE j # 0 /\ j <= Len(queue)
    <3>1. j \in 1 .. Len(queue) /\ Len(sent) \in Nat
      BY <2>2, StateTypes
    <3>2. queue[j].tx \in 1 .. Len(sent) /\ queue[j] \in [tx : Transmissions, index : Parts]
      BY <3>1, StateTypes, KeptQueue, DgramType
    <3>3. queue[j].tx \in Nat /\ queue[j].index \in Nat
      BY <3>1, <3>2, Sizes
    <3> QED  BY <2>2, <3>3 DEF At
  <2>3. CASE j # 0 /\ ~(j <= Len(queue))
    <3>1. NextDgram.tx \in Nat /\ NextDgram.index \in Nat
      BY StateTypes, Sizes DEF NextDgram
    <3> QED  BY <2>3, <3>1 DEF At
  <2> QED  BY <2>1, <2>2, <2>3
<1> QED  BY <1>1, NrType

LEMMA PaidStays ==
  ASSUME NEW c \in Nat, NEW d \in Nat, NEW p \in Nat, NEW q \in Nat, NEW b \in Nat, NEW e \in Nat,
         Paid(c, p, b), d <= c, q <= p + (e - b), b <= e
  PROVE  Paid(d, q, e)
<1>1. PICK v \in Nat, w \in Nat, x \in Nat, y \in Nat :
        /\ v = Worth(d) /\ w = Worth(c) /\ x = Worth(d + 1) /\ y = Worth(c + 1)
        /\ v <= w /\ x <= y
  <2>1. d + 1 \in Nat /\ c + 1 \in Nat /\ d + 1 <= c + 1
    OBVIOUS
  <2> QED  BY <2>1, WorthGrows
<1>2. w + p <= b \/ y <= b
  BY <1>1 DEF Paid
<1>3. v + q <= e \/ x <= e
  BY <1>1, <1>2
<1> QED  BY <1>1, <1>3 DEF Paid

LEMMA PaidFor ==
  ASSUME NEW c \in Nat, NEW d \in Nat, NEW p \in Nat, NEW b \in Nat, Paid(c, p, b), d <= c
  PROVE  Worth(d) <= b
<1>1. PICK v \in Nat, w \in Nat, y \in Nat :
        v = Worth(d) /\ w = Worth(c) /\ y = Worth(c + 1) /\ v <= w /\ w <= y
  <2>1. c + 1 \in Nat /\ c <= c + 1
    OBVIOUS
  <2> QED  BY <2>1, WorthGrows
<1>2. w + p <= b \/ y <= b
  BY <1>1 DEF Paid
<1> QED  BY <1>1, <1>2

LEMMA BudgetType ==
  ASSUME NEW l \in Nat, NEW s \in Nat
  PROVE  l + Worth(3 * s) \in Nat
<1>1. PICK t \in Nat : t = 3 * s
  OBVIOUS
<1>2. PICK w \in Nat : w = Worth(t)
  BY WorthGrows
<1> QED  BY <1>1, <1>2

LEMMA MixedTypes ==
  ASSUME LinkInv
  PROVE  /\ IsFiniteSet(MixedFrames) /\ Cardinality(MixedFrames) \in Nat
         /\ IsFiniteSet(Joints) /\ Cardinality(Joints) \in Nat
         /\ AsNr(Mixing) \in {0, 1} /\ MixedSoon \in Nat /\ Cardinality(MixedFrames) <= MixedSoon
         /\ From \in {0, 1} /\ Len(queue) \in Nat /\ lost \in Nat /\ swaps \in Nat /\ Budget \in Nat
<1>1. Len(published) \in Nat /\ Len(queue) \in Nat /\ lost \in Nat /\ swaps \in Nat
  BY StateTypes
<1>2. MixedFrames \subseteq 0 .. Len(published)
  BY <1>1 DEF MixedFrames, Regulars, Regular
<1>3. AsNr(Mixing) \in {0, 1} /\ From \in {0, 1}
  BY DEF AsNr, From
<1>4. Joints \subseteq 0 .. Len(queue)
  BY <1>1, <1>3 DEF Joints
<1>5. /\ IsFiniteSet(MixedFrames) /\ Cardinality(MixedFrames) \in Nat
      /\ IsFiniteSet(Joints) /\ Cardinality(Joints) \in Nat
  BY <1>1, <1>2, <1>4, UpTo
<1>6. MixedSoon \in Nat /\ Cardinality(MixedFrames) <= MixedSoon
  BY <1>3, <1>5 DEF MixedSoon
<1>7. Budget \in Nat
  BY <1>1, BudgetType DEF Budget
<1> QED  BY <1>1, <1>3, <1>5, <1>6, <1>7

LEMMA MixedTypesNext ==
  ASSUME LinkInv'
  PROVE  /\ Cardinality(MixedFrames') \in Nat /\ Cardinality(Joints') \in Nat
         /\ AsNr(Mixing') \in {0, 1} /\ MixedSoon' \in Nat /\ Budget' \in Nat
<1>1. Len(published') \in Nat /\ Len(queue') \in Nat /\ lost' \in Nat
  BY DEF LinkInv, TypeOK
<1>2. swaps' \in Nat
  <2>1. swaps' \in 0 .. MaxSwaps /\ MaxSwaps \in Nat
    BY Sizes DEF LinkInv, TypeOK
  <2> QED  BY <2>1
<1>3. MixedFrames' \subseteq 0 .. Len(published')
  BY <1>1 DEF MixedFrames, Regulars, Regular
<1>4. AsNr(Mixing') \in {0, 1} /\ From' \in {0, 1}
  BY DEF AsNr, From
<1>5. Joints' \subseteq 0 .. Len(queue')
  BY <1>1, <1>4 DEF Joints
<1>6. Cardinality(MixedFrames') \in Nat /\ Cardinality(Joints') \in Nat
  BY <1>1, <1>3, <1>5, UpTo
<1>7. MixedSoon' \in Nat
  BY <1>4, <1>6 DEF MixedSoon
<1>8. Budget' \in Nat
  BY <1>1, <1>2, BudgetType DEF Budget
<1> QED  BY <1>4, <1>6, <1>7, <1>8

(* The chain ends with the datagram that is next.                          *)
LEMMA PendingType ==
  ASSUME LinkInv, Older
  PROVE  Pending \in Nat
<1>1. PICK n \in Nat, f \in {0, 1} : n = Len(queue) /\ f = From
  BY MixedTypes
<1>2. CASE f <= n
  <2>1. n \in f .. n /\ n \in 0 .. n + 1 /\ n + 1 \in 0 .. n + 1
    BY <1>2
  <2>2. Nr(At(n)) \in Nat /\ Nr(At(n + 1)) \in Nat /\ At(n + 1) = NextDgram
    BY <1>1, <2>1, AtType DEF At
  <2>3. Nr(At(n)) < Nr(NextDgram)
    BY <1>1, <2>1 DEF Older
  <2>4. Pending = Nr(NextDgram) - Nr(At(n)) - 1
    BY <1>1, <1>2 DEF Pending
  <2> QED  BY <2>2, <2>3, <2>4
<1>3. CASE ~(f <= n)
  BY <1>1, <1>3 DEF Pending
<1> QED  BY <1>2, <1>3

(* Before the receiver gives up, or an exit, the account is the weaker for *)
(* what the chain may still make of it.                                    *)
LEMMA MixedSoFar ==
  ASSUME LinkInv, MixedInv
  PROVE  Worth(Cardinality(MixedFrames)) <= Budget
<1>1. CASE Over
  BY <1>1 DEF MixedInv
<1>2. CASE ~Over
  BY <1>2, MixedTypes, PendingType, PaidFor DEF MixedInv
<1> QED  BY <1>1, <1>2

(* The chain, and what was made of it, is left alone.                      *)
LEMMA MixedStill ==
  ASSUME MixedInv, UNCHANGED <<buff, published, queue, lost, swaps>>, NextDgram' = NextDgram,
         From' = From, Read' = Read, Over' = Over, Regular' = Regular, Mixing' = Mixing
  PROVE  MixedInv'
<1>1. Joints' = Joints /\ Pending' = Pending /\ Older' = Older
  BY DEF Joints, Pending, Older, At
<1>2. MixedFrames' = MixedFrames
  BY DEF MixedFrames, Regulars, Mixed, TxOf
<1> QED  BY <1>1, <1>2 DEF MixedInv, MixedSoon, Budget

LEMMA MixedQuiet ==
  ASSUME MixedInv, UNCHANGED <<recvVars, queue, lost, swaps>>, NextDgram' = NextDgram
  PROVE  MixedInv'
<1>1. UNCHANGED <<rpc, abort_frame, loopOK, k_dgram, buff, published>>
  BY DEF recvVars
<1>2. From' = From /\ Read' = Read /\ Over' = Over /\ Regular' = Regular /\ Mixing' = Mixing
  BY <1>1 DEF From, Over, Read, Regular, Mixing
<1> QED  BY <1>1, <1>2, MixedStill

(* Steps that leave the receiver alone.                                    *)
LEMMA MixedElsewhere ==
  ASSUME LinkInv, LinkInv', MixedInv, UNCHANGED recvVars, Budget' >= Budget,
         ~Over => Older' /\ Paid(MixedSoon', Pending', Budget')
  PROVE  MixedInv'
<1>1. MixedFrames' = MixedFrames /\ Over' = Over
  BY DEF recvVars, MixedFrames, Regulars, Regular, Mixed, TxOf, Over
<1>2. CASE Over
  <2>1. Worth(Cardinality(MixedFrames)) <= Budget /\ Worth(Cardinality(MixedFrames)) \in Nat
    BY MixedSoFar, MixedTypes, WorthGrows
  <2>2. Worth(Cardinality(MixedFrames)) <= Budget'
    BY <2>1, MixedTypes, MixedTypesNext
  <2> QED  BY <1>1, <1>2, <2>2 DEF MixedInv
<1> QED  BY <1>1, <1>2 DEF MixedInv

(* The datagram sent next follows the last one, and joins another one only *)
(* if a frame is pending.                                                  *)
LEMMA NextNr ==
  ASSUME LinkInv, tpc = "send", Advances, UNCHANGED sent
  PROVE  Nr(NextDgram') = Nr(NextDgram) + 1 /\ Nr(NextDgram) \in Nat
<1>1. PICK d \in Nat, m \in Nat, t \in Nat : d = k /\ m = NDgrams /\ t = Len(sent)
  <2>1. k \in Nat /\ NDgrams \in Nat /\ Len(sent) \in Nat
    BY StateTypes, Sizes
  <2> QED  BY <2>1
<1>2. Nr(NextDgram) = t * m + d /\ t * m \in Nat
  BY <1>1 DEF NextDgram, Nr
<1>3. CASE k = NDgrams - 1 /\ k' = 0 /\ tpc' = "wait"
  <2>1. Nr(NextDgram') = (t + 1) * m + 0
    BY <1>1, <1>3 DEF NextDgram, Nr
  <2>2. (t + 1) * m = t * m + m /\ t * m \in Nat
    OBVIOUS
  <2>3. m = d + 1
    BY <1>1, <1>3
  <2> QED  BY <1>2, <2>1, <2>2, <2>3
<1>4. CASE k < NDgrams - 1 /\ k' = k + 1 /\ tpc' = "send"
  <2>1. Nr(NextDgram') = t * m + (d + 1)
    BY <1>1, <1>4 DEF NextDgram, Nr
  <2> QED  BY <1>2, <2>1
<1> QED  BY <1>3, <1>4 DEF Advances

LEMMA JoinsPending ==
  ASSUME LinkInv, Older, From <= Len(queue), Joins(At(Len(queue)), NextDgram)
  PROVE  NDgrams <= Pending
<1>1. PICK n \in Nat, e \in {0, 1} : n = Len(queue) /\ e = From
  BY MixedTypes
<1>2. At(n + 1) = NextDgram /\ n \in 0 .. n + 1 /\ n + 1 \in 0 .. n + 1 /\ n \in e .. n
  BY <1>1 DEF At
<1>3. PICK f \in Nat, g \in Nat, a \in Nat, m \in Nat :
        f = At(n).tx /\ g = NextDgram.tx /\ a = At(n).index /\ m = NDgrams
  BY <1>1, <1>2, AtType, Sizes
<1>4. Nr(At(n)) = f * m + a /\ Nr(NextDgram) = g * m + (a + 1) /\ f # g
  BY <1>1, <1>3 DEF Nr, Joins
<1>5. f * m + a < g * m + (a + 1)
  BY <1>1, <1>2, <1>4 DEF Older
<1>6. m <= (g * m + (a + 1)) - (f * m + a) - 1
  BY <1>4, <1>5, Further
<1> QED  BY <1>1, <1>3, <1>4, <1>6 DEF Pending

LEMMA MixedGrows ==
  ASSUME LinkInv, LinkInv', MixedInv, tpc = "send", QueueGrows, Advances,
         UNCHANGED <<sent, recvVars, swaps>>
  PROVE  MixedInv'
<1>1. UNCHANGED <<rpc, abort_frame, loopOK, k_dgram, buff, published, lost>>
  BY DEF recvVars, QueueGrows
<1>2. From' = From /\ Read' = Read /\ Budget' = Budget
  BY <1>1 DEF From, Over, Read, Budget
<1>3. MixedFrames' = MixedFrames /\ Mixing' = Mixing
  BY <1>1, <1>2 DEF MixedFrames, Regulars, Regular, Mixed, TxOf, Mixing
<1>4. PICK n \in Nat, f \in {0, 1} : n = Len(queue) /\ f = From
  BY MixedTypes
<1>5. /\ Len(queue') = n + 1 /\ queue'[n + 1] = NextDgram
      /\ \A i \in 1 .. n : queue'[i] = queue[i]
  BY <1>4 DEF QueueGrows, NextDgram
<1>6. At(n + 1) = NextDgram /\ \A j \in 0 .. n + 1 : At(j)' = At(j) /\ Nr(At(j)) \in Nat
  BY <1>1, <1>2, <1>4, <1>5, AtType DEF At
<1>7. Nr(NextDgram') = Nr(NextDgram) + 1 /\ Nr(NextDgram) \in Nat
  BY NextNr
<1>8. Pending' = 0
  <2>1. Pending' = IF f <= n + 1 THEN Nr(NextDgram') - Nr(At(n + 1)') - 1 ELSE 0
    BY <1>2, <1>4, <1>5 DEF Pending
  <2>2. f <= n + 1 /\ At(n + 1)' = NextDgram
    BY <1>6
  <2> QED  BY <1>7, <2>1, <2>2
<1>9. CASE ~Over
  <2>1. Older /\ Paid(MixedSoon, Pending, Budget) /\ Pending \in Nat
    BY <1>9, PendingType DEF MixedInv
  <2>2. Older'
    <3> SUFFICES ASSUME NEW j \in f .. n + 1  PROVE Nr(At(j)') < Nr(NextDgram')
      BY <1>2, <1>4, <1>5 DEF Older
    <3>1. j \in 0 .. n + 1
      OBVIOUS
    <3>2. CASE j = n + 1
      BY <1>6, <1>7, <3>1, <3>2
    <3>3. CASE j # n + 1
      <4>1. j \in f .. n
        BY <3>3
      <4>2. Nr(At(j)) < Nr(NextDgram)
        BY <1>4, <2>1, <4>1 DEF Older
      <4> QED  BY <1>6, <1>7, <3>1, <4>2
    <3> QED  BY <3>2, <3>3
  <2>3. Joints' \subseteq Joints \cup {n} /\ (n \in Joints' => f <= n /\ Joins(At(n), NextDgram))
    <3>1. ASSUME NEW j \in Joints'
          PROVE  j \in f .. n /\ Joins(At(j), At(j + 1))
      <4>1. j \in f .. n + 1 - 1 /\ Joins(At(j)', At(j + 1)')
        BY <1>2, <1>4, <1>5 DEF Joints
      <4>2. j \in f .. n /\ j \in 0 .. n + 1 /\ j + 1 \in 0 .. n + 1
        BY <4>1
      <4> QED  BY <1>6, <4>1, <4>2
    <3>2. ASSUME NEW j \in Joints', j # n  PROVE j \in Joints
      <4>1. j \in f .. n - 1
        BY <3>1, <3>2
      <4> QED  BY <1>4, <3>1, <4>1 DEF Joints
    <3>3. n \in Joints' => f <= n /\ Joins(At(n), NextDgram)
      BY <1>6, <3>1
    <3> QED  BY <3>2, <3>3
  <2>4. PICK a \in Nat, b \in {0, 1}, c \in Nat, d \in Nat, p \in Nat, l \in Nat :
          /\ a = Cardinality(MixedFrames) /\ b = AsNr(Mixing) /\ c = Cardinality(Joints)
          /\ d = Cardinality(Joints') /\ p = Pending /\ l = Budget
    BY <2>1, MixedTypes, MixedTypesNext
  <2>5. MixedSoon = a + b + c /\ MixedSoon' = a + b + d /\ Paid(a + b + c, p, l)
    BY <1>3, <2>1, <2>4 DEF MixedSoon
  <2>6. CASE n \notin Joints'
    <3>1. Joints' \subseteq Joints
      BY <2>3, <2>6
    <3>2. d <= c
      BY <2>4, <3>1, MixedTypes, FS_Subset
    <3>3. a + b + d <= a + b + c /\ a + b + d \in Nat /\ a + b + c \in Nat /\ 0 <= p + (l - l)
      BY <3>2
    <3>4. Paid(a + b + d, 0, l)
      BY <2>5, <3>3, PaidStays
    <3> QED  BY <1>2, <1>8, <2>2, <2>4, <2>5, <3>4, MixedElsewhere, MixedTypes
  <2>7. CASE n \in Joints'
    <3>1. NDgrams <= p
      BY <1>4, <2>1, <2>3, <2>4, <2>7, JoinsPending
    <3>2. d <= c + 1
      BY <2>3, <2>4, MixedTypes, Added
    <3>3. PICK w \in Nat, x \in Nat, m \in Nat : w = Worth(a + b + c) /\ x = Worth(a + b + c + 1)
                                                 /\ m = NDgrams /\ x = w + m
      <4>1. a + b + c \in Nat /\ a + b + c + 1 \in Nat
        OBVIOUS
      <4> QED  BY <4>1, WorthGrows, Sizes
    <3>4. w + p <= l \/ x <= l
      BY <2>5, <3>3 DEF Paid
    <3>5. x + 0 <= l
      BY <3>1, <3>3, <3>4
    <3>6. Paid(a + b + c + 1, 0, l)
      BY <3>3, <3>5 DEF Paid
    <3>7. a + b + d <= a + b + c + 1 /\ a + b + d \in Nat /\ a + b + c + 1 \in Nat /\ 0 <= 0 + (l - l)
      BY <3>2
    <3>8. Paid(a + b + d, 0, l)
      BY <3>6, <3>7, PaidStays
    <3> QED  BY <1>2, <1>8, <2>2, <2>4, <2>5, <3>8, MixedElsewhere, MixedTypes
  <2> QED  BY <2>6, <2>7
<1>10. Budget' >= Budget
  BY <1>2, MixedTypes
<1> QED  BY <1>9, <1>10, MixedElsewhere

LEMMA MixedLoses ==
  ASSUME LinkInv, LinkInv', MixedInv, tpc = "send", Loses, Advances,
         UNCHANGED <<sent, recvVars, swaps>>
  PROVE  MixedInv'
<1>1. UNCHANGED <<rpc, abort_frame, loopOK, k_dgram, buff, published, queue>> /\ lost' = lost + 1
  BY DEF recvVars, Loses
<1>2. From' = From /\ Read' = Read
  BY <1>1 DEF From, Over, Read
<1>3. Budget' = Budget + 1 /\ Budget \in Nat
  <2>1. PICK l \in Nat, w \in Nat : l = lost /\ w = Worth(3 * swaps)
    <3>1. 3 * swaps \in Nat
      BY MixedTypes
    <3> QED  BY <3>1, MixedTypes, WorthGrows
  <2>2. Worth(3 * swaps') = w
    BY <2>1
  <2> QED  BY <1>1, <2>1, <2>2 DEF Budget
<1>4. MixedFrames' = MixedFrames /\ Mixing' = Mixing
  BY <1>1, <1>2 DEF MixedFrames, Regulars, Regular, Mixed, TxOf, Mixing
<1>5. PICK n \in Nat, f \in {0, 1} : n = Len(queue) /\ f = From
  BY MixedTypes
<1>6. \A j \in 0 .. n : At(j)' = At(j) /\ Nr(At(j)) \in Nat
  <2>1. \A j \in 0 .. n : j \in 0 .. n + 1
    OBVIOUS
  <2> QED  BY <1>1, <1>2, <1>5, <2>1, AtType DEF At
<1>7. Nr(NextDgram') = Nr(NextDgram) + 1 /\ Nr(NextDgram) \in Nat
  BY NextNr
<1>8. Joints' = Joints
  <2>1. Joints = {j \in f .. n - 1 : Joins(At(j), At(j + 1))}
        /\ Joints' = {j \in f .. n - 1 : Joins(At(j)', At(j + 1)')}
    BY <1>1, <1>2, <1>5 DEF Joints
  <2>2. \A j \in f .. n - 1 : j \in 0 .. n /\ j + 1 \in 0 .. n
    OBVIOUS
  <2> QED  BY <1>6, <2>1, <2>2
<1>9. MixedSoon' = MixedSoon
  BY <1>4, <1>8 DEF MixedSoon
<1>10. CASE ~Over
  <2>1. Older /\ Paid(MixedSoon, Pending, Budget) /\ Pending \in Nat /\ MixedSoon \in Nat
    BY <1>10, PendingType, MixedTypes DEF MixedInv
  <2>2. Older'
    <3> SUFFICES ASSUME NEW j \in f .. n  PROVE Nr(At(j)') < Nr(NextDgram')
      BY <1>1, <1>2, <1>5 DEF Older
    <3>1. j \in 0 .. n /\ Nr(At(j)) < Nr(NextDgram)
      BY <1>5, <2>1 DEF Older
    <3> QED  BY <1>6, <1>7, <3>1
  <2>3. Pending' \in Nat /\ Pending' <= Pending + 1
    <3>1. CASE f <= n
      <4>1. Pending = Nr(NextDgram) - Nr(At(n)) - 1 /\ Pending' = Nr(NextDgram') - Nr(At(n)') - 1
        BY <1>1, <1>2, <1>5, <3>1 DEF Pending
      <4>2. n \in 0 .. n
        OBVIOUS
      <4>3. At(n)' = At(n) /\ Nr(At(n)) \in Nat
        BY <1>6, <4>2
      <4> QED  BY <1>7, <2>1, <4>1, <4>3
    <3>2. CASE ~(f <= n)
      BY <1>1, <1>2, <1>5, <2>1, <3>2 DEF Pending
    <3> QED  BY <3>1, <3>2
  <2>4. PICK c \in Nat, p \in Nat, q \in Nat, l \in Nat, m \in Nat :
          c = MixedSoon /\ p = Pending /\ q = Pending' /\ l = Budget /\ m = Budget'
          /\ q <= p + (m - l) /\ l <= m /\ c <= c
    <3>1. Budget' \in Nat /\ Budget' - Budget = 1 /\ Budget <= Budget'
      BY <1>3
    <3> QED  BY <2>1, <2>3, <1>3, <3>1
  <2>5. Paid(c, p, l)
    BY <2>1, <2>4
  <2>6. Paid(c, q, m)
    BY <2>4, <2>5, PaidStays
  <2>7. Paid(MixedSoon', Pending', Budget')
    BY <1>9, <2>4, <2>6
  <2> QED  BY <1>3, <2>2, <2>7, MixedElsewhere
<1> QED  BY <1>3, <1>10, MixedElsewhere

LEMMA MixedOvertakes ==
  ASSUME LinkInv, MixedInv, Overtakes
  PROVE  MixedInv'
<1>1. /\ swaps' = swaps + 1 /\ Len(queue') = Len(queue) /\ LinkInv'
      /\ UNCHANGED <<transmitVars, linkVars, recvVars, CTRLexit, lost>>
  BY LinkOvertakes
<1>2. PICK s \in 1 .. Len(queue) - 1 :
        /\ queue'[s] = queue[s + 1] /\ queue'[s + 1] = queue[s]
        /\ \A l \in (1 .. Len(queue)) \ {s, s + 1} : queue'[l] = queue[l]
  BY LinkOvertakes
<1>3. UNCHANGED <<rpc, abort_frame, loopOK, k_dgram, buff, published, tpc, sent, k>>
  BY <1>1 DEF transmitVars, linkVars, recvVars
<1>4. PICK n \in Nat, f \in {0, 1} : n = Len(queue) /\ f = From /\ s \in Nat /\ s > 0 /\ s < n
  BY MixedTypes
<1>5. From' = From /\ Read' = Read /\ NextDgram' = NextDgram
  BY <1>3 DEF From, Over, Read, NextDgram
<1>6. MixedFrames' = MixedFrames /\ Mixing' = Mixing
  BY <1>3, <1>5 DEF MixedFrames, Regulars, Regular, Mixed, TxOf, Mixing
<1> DEFINE w(j) == IF j = s THEN s + 1 ELSE IF j = s + 1 THEN s ELSE j
<1>7. \A j \in 0 .. n + 1 : At(j)' = At(w(j))
  <2>1. ASSUME NEW j \in 0 .. n + 1  PROVE At(j)' = At(w(j))
    <3>1. CASE j = 0
      BY <1>3, <1>4, <1>5, <3>1 DEF At
    <3>2. CASE j # 0 /\ j <= n
      <4>1. j \in 1 .. n /\ w(j) \in 1 .. n /\ w(j) # 0 /\ w(j) <= n /\ queue'[j] = queue[w(j)]
        BY <1>2, <1>4, <2>1, <3>2
      <4>2. At(j)' = queue'[j]
        BY <1>1, <1>4, <3>2 DEF At
      <4>3. At(w(j)) = queue[w(j)]
        BY <1>4, <4>1 DEF At
      <4> QED  BY <4>1, <4>2, <4>3
    <3>3. CASE j # 0 /\ ~(j <= n)
      BY <1>1, <1>4, <1>5, <3>3 DEF At
    <3> QED  BY <3>1, <3>2, <3>3
  <2> QED  BY <2>1
<1>8. \A j \in f .. n : w(j) \in f .. n /\ j \in 0 .. n + 1
  BY <1>4
<1>9. \A j \in (0 .. n + 1) \ {s, s + 1} : At(j)' = At(j)
  BY <1>7
<1> HIDE DEF w
<1>10. \A j \in Joints' : j \in f .. n - 1 /\ (j \notin {s - 1, s, s + 1} => j \in Joints)
  <2>1. ASSUME NEW j \in Joints'  PROVE j \in f .. n - 1 /\ (j \notin {s - 1, s, s + 1} => j \in Joints)
    <3>1. j \in f .. n - 1 /\ Joins(At(j)', At(j + 1)')
      BY <1>1, <1>4, <1>5 DEF Joints
    <3>2. ASSUME j \notin {s - 1, s, s + 1}  PROVE j \in Joints
      <4>1. j \in (0 .. n + 1) \ {s, s + 1} /\ j + 1 \in (0 .. n + 1) \ {s, s + 1}
        BY <1>4, <3>1, <3>2
      <4>2. At(j)' = At(j) /\ At(j + 1)' = At(j + 1)
        BY <1>9, <4>1
      <4> QED  BY <1>4, <3>1, <4>2 DEF Joints
    <3> QED  BY <3>1, <3>2
  <2> QED  BY <2>1
<1>11. PICK a \in Nat, b \in {0, 1}, c \in Nat, d \in Nat, l \in Nat, e \in Nat :
         /\ a = Cardinality(MixedFrames) /\ b = AsNr(Mixing) /\ c = Cardinality(Joints)
         /\ d = Cardinality(Joints') /\ l = Budget /\ e = Budget'
  BY <1>1, MixedTypes, MixedTypesNext
<1>12. d <= c + 3 /\ (s + 1 = n => d <= c + 2)
  <2> DEFINE S1 == Joints \cup {s - 1}
             S2 == S1 \cup {s}
  <2>1. Cardinality(S1) <= c + 1 /\ IsFiniteSet(S1) /\ Cardinality(S1) \in Nat
    BY <1>11, MixedTypes, Added
  <2>2. Cardinality(S2) <= Cardinality(S1) + 1 /\ IsFiniteSet(S2) /\ Cardinality(S2) \in Nat
    <3> HIDE DEF S1
    <3> QED  BY <2>1, Added
  <2>3. Cardinality(S2) <= c + 2
    <3> HIDE DEF S1, S2
    <3> QED  BY <2>1, <2>2
  <2>4. Joints' \subseteq S2 \cup {s + 1} /\ (s + 1 = n => Joints' \subseteq S2)
    <3>1. s + 1 = n => \A j \in f .. n - 1 : j # s + 1
      BY <1>4
    <3> QED  BY <1>10, <3>1
  <2> HIDE DEF S1, S2
  <2>5. d <= Cardinality(S2) + 1
    BY <1>11, <2>2, <2>4, Added
  <2>6. s + 1 = n => d <= Cardinality(S2)
    BY <1>11, <2>2, <2>4, FS_Subset
  <2> QED  BY <2>2, <2>3, <2>5, <2>6
<1>13. PICK m \in Nat : m = NDgrams /\ e = l + 3 * m
  <2>1. PICK m \in Nat, t \in Nat, o \in Nat : m = NDgrams /\ t = swaps /\ o = lost
    BY MixedTypes, Sizes
  <2>2. m * (3 * (t + 1)) = m * (3 * t) + 3 * m
    OBVIOUS
  <2>3. e = o + m * (3 * (t + 1)) /\ l = o + m * (3 * t)
    BY <1>1, <1>11, <2>1 DEF Budget, Worth
  <2>4. m * (3 * t) \in Nat
    OBVIOUS
  <2> QED  BY <2>1, <2>2, <2>3, <2>4
<1>14. CASE ~Over
  <2>1. Older /\ Paid(MixedSoon, Pending, Budget) /\ Pending \in Nat
    BY <1>14, PendingType DEF MixedInv
  <2>2. Older'
    <3>1. ASSUME NEW j \in f .. n  PROVE Nr(At(j)') < Nr(NextDgram')
      <4>1. At(j)' = At(w(j)) /\ Nr(At(w(j))) < Nr(NextDgram)
        BY <1>4, <1>7, <1>8, <2>1 DEF Older
      <4> QED  BY <1>5, <4>1
    <3> QED  BY <1>1, <1>4, <1>5, <3>1 DEF Older
  <2>3. PICK g \in Nat, h \in Nat, p \in Nat :
          g = a + b + c /\ h = a + b + d /\ g = MixedSoon /\ h = MixedSoon' /\ p = Pending
          /\ h <= g + 3 /\ (s + 1 = n => h <= g + 2)
    <3>1. MixedSoon = a + b + c /\ MixedSoon' = a + b + d
      BY <1>6, <1>11 DEF MixedSoon
    <3>2. a + b + c \in Nat /\ a + b + d \in Nat
      OBVIOUS
    <3>3. a + b + d <= a + b + c + 3 /\ (s + 1 = n => a + b + d <= a + b + c + 2)
      BY <1>12
    <3> QED  BY <2>1, <3>1, <3>2, <3>3
  <2>4. PICK u \in Nat, v \in Nat, x \in Nat, y \in Nat :
          /\ u = Worth(g) /\ v = Worth(g + 1) /\ x = Worth(h) /\ y = Worth(h + 1)
          /\ v = u + m /\ y = x + m /\ x <= u + 3 * m /\ (s + 1 = n => y <= u + 3 * m)
    <3>1. /\ Worth(g + 1) = Worth(g) + m /\ Worth(g + 2) = Worth(g + 1) + m
          /\ Worth(g + 3) = Worth(g + 2) + m /\ Worth(h + 1) = Worth(h) + m
          /\ Worth(g) \in Nat /\ Worth(h) \in Nat
      <4>1. /\ Worth(g + 1) = Worth(g) + m /\ Worth(g + 1 + 1) = Worth(g + 1) + m
            /\ Worth(g + 1 + 1 + 1) = Worth(g + 1 + 1) + m /\ Worth(h + 1) = Worth(h) + m
            /\ Worth(g) \in Nat /\ Worth(h) \in Nat
        <5>1. g + 1 \in Nat /\ g + 1 + 1 \in Nat
          OBVIOUS
        <5> QED  BY <1>13, <5>1, WorthGrows
      <4>2. g + 1 + 1 = g + 2 /\ g + 1 + 1 + 1 = g + 3
        OBVIOUS
      <4> QED  BY <4>1, <4>2
    <3>2. Worth(h) <= Worth(g + 3) /\ (s + 1 = n => Worth(h + 1) <= Worth(g + 3))
      <4>1. g + 3 \in Nat /\ h + 1 \in Nat /\ (s + 1 = n => h + 1 <= g + 3)
        BY <2>3
      <4> QED  BY <2>3, <4>1, WorthGrows
    <3>3. Worth(g + 3) = Worth(g) + 3 * m
      BY <3>1
    <3> QED  BY <3>1, <3>2, <3>3
  <2>5. u + p <= l \/ v <= l
    BY <1>11, <2>1, <2>3, <2>4 DEF Paid
  <2>6. CASE s + 1 = n
    <3>1. y <= e
      <4>1. u <= l
        <5>1. CASE u + p <= l
          BY <1>13, <5>1
        <5>2. CASE v <= l
          <6>1. v = u + m
            BY <2>4
          <6> QED  BY <1>13, <5>2, <6>1
        <5> QED  BY <2>5, <5>1, <5>2
      <4>2. y <= u + 3 * m
        BY <2>4, <2>6
      <4> QED  BY <1>13, <4>1, <4>2
    <3>2. Paid(h, Pending', e)
      BY <2>4, <3>1 DEF Paid
    <3>3. Budget' >= Budget
      BY <1>11, <1>13
    <3> QED  BY <1>1, <1>11, <2>2, <2>3, <3>2, <3>3, MixedElsewhere
  <2>7. CASE s + 1 # n
    <3>1. Pending' = Pending
      <4>1. n \in (0 .. n + 1) \ {s, s + 1}
        BY <1>4, <2>7
      <4>2. At(n)' = At(n)
        BY <1>9, <4>1
      <4> QED  BY <1>1, <1>4, <1>5, <4>2 DEF Pending
    <3>2. x + p <= e \/ y <= e
      <4>1. CASE u + p <= l
        <5>1. x <= u + 3 * m
          BY <2>4
        <5> QED  BY <1>13, <4>1, <5>1
      <4>2. CASE v <= l
        <5>1. v = u + m /\ y = x + m /\ x <= u + 3 * m
          BY <2>4
        <5> QED  BY <1>13, <4>2, <5>1
      <4> QED  BY <2>5, <4>1, <4>2
    <3>3. Paid(h, p, e)
      BY <2>4, <3>2 DEF Paid
    <3>4. Budget' >= Budget
      BY <1>11, <1>13
    <3> QED  BY <1>1, <1>11, <2>2, <2>3, <3>1, <3>3, <3>4, MixedElsewhere
  <2> QED  BY <2>6, <2>7
<1>15. Budget' >= Budget
  BY <1>11, <1>13
<1> QED  BY <1>1, <1>14, <1>15, MixedElsewhere

(* A datagram is taken: the chain is one shorter, and so is the list of    *)
(* its joints if the datagram joined the one read before.                  *)
LEMMA TakenJoints ==
  ASSUME LinkInv, LinkInv', Older, Takes, UNCHANGED <<sent, k, tpc>>, From' = 0 => At(0)' = At(1)
  PROVE  /\ Older' /\ Pending' \in Nat /\ Pending' <= Pending
         /\ Cardinality(Joints') <= Cardinality(Joints)
         /\ 0 \in Joints => Cardinality(Joints') + 1 <= Cardinality(Joints)
<1>1. PICK n \in Nat : n = Len(queue') /\ Len(queue) = n + 1
  <2>1. Len(queue') = Len(queue) - 1 /\ Len(queue) \in Nat /\ Len(queue) >= 1
    BY TakesHead, StateTypes
  <2>2. Len(queue') \in Nat /\ Len(queue) = Len(queue') + 1
    BY <2>1
  <2> QED  BY <2>2
<1>2. PICK f \in {0, 1}, g \in {0, 1} : f = From /\ g = From'
  BY DEF From
<1>3. /\ NextDgram' = NextDgram
      /\ \A j \in g .. n + 1 : j \in Nat /\ At(j)' = At(j + 1)
  BY <1>1, <1>2, TakenChain DEF NextDgram
<1>4. \A j \in g .. n : j + 1 \in f .. n + 1 /\ j \in g .. n + 1
  BY <1>2
<1>5. Older'
  <2>1. \A j \in f .. n + 1 : Nr(At(j)) < Nr(NextDgram)
    BY <1>1, <1>2 DEF Older
  <2>2. \A j \in g .. n : Nr(At(j)') < Nr(NextDgram')
    BY <1>3, <1>4, <2>1
  <2> QED  BY <1>1, <1>2, <2>2 DEF Older
<1>6. Pending' \in Nat /\ Pending' <= Pending
  <2>1. Pending \in Nat
    BY PendingType
  <2>2. CASE g <= n
    <3>1. Pending' = Nr(NextDgram') - Nr(At(n)') - 1
      BY <1>1, <1>2, <2>2 DEF Pending
    <3>2. f <= n + 1
      OBVIOUS
    <3>3. Pending = Nr(NextDgram) - Nr(At(n + 1)) - 1
      BY <1>1, <1>2, <3>2 DEF Pending
    <3>4. At(n)' = At(n + 1)
      <4>1. n \in g .. n + 1
        BY <2>2
      <4> QED  BY <1>3, <4>1
    <3>5. Pending' = Pending
      BY <1>3, <3>1, <3>3, <3>4
    <3> QED  BY <2>1, <3>5
  <2>3. CASE ~(g <= n)
    BY <1>1, <1>2, <2>1, <2>3 DEF Pending
  <2> QED  BY <2>2, <2>3
<1>7. ASSUME NEW j \in Joints'  PROVE j \in Int /\ j + 1 \in Joints \ {0}
  <2>1. j \in g .. n - 1 /\ Joins(At(j)', At(j + 1)')
    BY <1>1, <1>2 DEF Joints
  <2>2. j \in Nat /\ j + 1 \in f .. n /\ j \in g .. n + 1 /\ j + 1 \in g .. n + 1 /\ j + 1 # 0
    BY <1>2, <2>1
  <2>3. At(j)' = At(j + 1) /\ At(j + 1)' = At(j + 1 + 1)
    BY <1>3, <2>2
  <2>4. j + 1 \in Joints
    <3>1. n + 1 - 1 = n
      OBVIOUS
    <3> QED  BY <1>1, <1>2, <2>1, <2>2, <2>3, <3>1 DEF Joints
  <2> QED  BY <2>2, <2>4
<1>8. /\ IsFiniteSet(Joints \ {0}) /\ Cardinality(Joints) \in Nat
      /\ Cardinality(Joints \ {0}) = IF 0 \in Joints THEN Cardinality(Joints) - 1 ELSE Cardinality(Joints)
  BY MixedTypes, FS_RemoveElement
<1>9. Cardinality(Joints') <= Cardinality(Joints \ {0}) /\ Cardinality(Joints \ {0}) \in Nat
      /\ Cardinality(Joints') \in Nat
  BY <1>7, <1>8, Shifted, FS_CardinalityType, MixedTypesNext
<1> QED  BY <1>5, <1>6, <1>8, <1>9

LEMMA MixedTaken ==
  ASSUME LinkInv, LinkInv', MixedInv, Takes, UNCHANGED <<sent, k, tpc, published, lost, swaps>>,
         From' = 0 => At(0)' = At(1), rpc # "ended", ~Over,
         \/ Over' \/ (Mixing' => Mixing)
         \/ From = 0 /\ 0 \in Joints
  PROVE  MixedInv'
<1>1. MixedFrames' \subseteq MixedFrames
  <2>1. Len(published) \in Nat
    BY StateTypes
  <2>2. Regular = Len(published) /\ Regular' <= Len(published) /\ Regular' \in Int
    BY <2>1 DEF Regular
  <2>3. Regulars' \subseteq Regulars
    BY <2>1, <2>2 DEF Regulars
  <2> QED  BY <2>3 DEF MixedFrames, Mixed, TxOf
<1>2. PICK c \in Nat, d \in Nat : c = Cardinality(MixedFrames) /\ d = Cardinality(MixedFrames') /\ d <= c
  BY <1>1, MixedTypes, FS_Subset, FS_CardinalityType
<1>3. Budget' = Budget /\ Budget \in Nat
  BY MixedTypes DEF Budget
<1>4. CASE Over'
  <2>1. Worth(c) <= Budget
    BY <1>2, MixedSoFar
  <2>2. Worth(d) <= Worth(c) /\ Worth(d) \in Nat /\ Worth(c) \in Nat
    BY <1>2, WorthGrows
  <2>3. Worth(d) <= Budget
    BY <1>3, <2>1, <2>2
  <2> QED  BY <1>2, <1>3, <1>4, <2>3 DEF MixedInv
<1>5. CASE ~Over'
  <2>1. Older /\ Paid(MixedSoon, Pending, Budget) /\ Pending \in Nat
    BY PendingType DEF MixedInv
  <2>2. /\ Older' /\ Pending' \in Nat /\ Pending' <= Pending
        /\ Cardinality(Joints') <= Cardinality(Joints)
        /\ 0 \in Joints => Cardinality(Joints') + 1 <= Cardinality(Joints)
    BY <2>1, TakenJoints
  <2>3. PICK a \in {0, 1}, b \in {0, 1}, x \in Nat, y \in Nat :
          /\ a = AsNr(Mixing) /\ b = AsNr(Mixing') /\ x = Cardinality(Joints) /\ y = Cardinality(Joints')
    BY MixedTypes, MixedTypesNext
  <2>4. b + y <= a + x
    <3>1. CASE Mixing' => Mixing
      <4>1. b <= a
        BY <2>3, <3>1 DEF AsNr
      <4> QED  BY <2>2, <2>3, <4>1
    <3>2. CASE 0 \in Joints
      BY <2>2, <2>3, <3>2
    <3> QED  BY <1>5, <3>1, <3>2
  <2>5. MixedSoon = c + a + x /\ MixedSoon' = d + b + y
    BY <1>2, <2>3 DEF MixedSoon
  <2>6. PICK g \in Nat, h \in Nat, p \in Nat, q \in Nat, l \in Nat :
          g = MixedSoon /\ h = MixedSoon' /\ p = Pending /\ q = Pending' /\ l = Budget
          /\ h <= g /\ q <= p + (l - l) /\ l <= l
    <3>1. MixedSoon \in Nat /\ MixedSoon' \in Nat /\ MixedSoon' <= MixedSoon
      BY <1>2, <2>4, <2>5
    <3> QED  BY <1>3, <2>1, <2>2, <3>1
  <2>7. Paid(h, q, l)
    <3>1. Paid(g, p, l)
      BY <2>1, <2>6
    <3> QED  BY <2>6, <3>1, PaidStays
  <2> QED  BY <1>3, <1>5, <2>2, <2>6, <2>7 DEF MixedInv
<1> QED  BY <1>4, <1>5

LEMMA MixedWaits ==
  ASSUME LinkInv, LinkInv', MixedInv, WaitsForMetadata \/ Purges \/ BeginsIteration
  PROVE  MixedInv'
<1>1. /\ UNCHANGED <<sent, k, tpc, lost, swaps, abort_frame, buff, published>>
      /\ rpc \in {"meta", "purge", "top"} /\ rpc' \notin {"next", "publish"}
      /\ rpc # "top" => abort_frame
  BY DEF WaitsForMetadata, Purges, BeginsIteration, NotTheTransmitter, linkVars, transmitVars, LinkInv, SyncInv
<1>2. Read' = NDgrams /\ Read = NDgrams /\ ~Over /\ ~Mixing /\ ~Mixing'
  BY <1>1 DEF Read, Over, Mixing
<1>3. CASE Takes
  <2>1. From' = 1
    BY <1>1, <1>3 DEF From, WaitsForMetadata, Purges, BeginsIteration, Takes
  <2> QED  BY <1>1, <1>2, <1>3, <2>1, MixedTaken
<1>4. CASE UNCHANGED queue /\ rpc' # "ended"
  <2>1. From' = From /\ ~Over' /\ Regular' = Regular /\ NextDgram' = NextDgram
    BY <1>1, <1>2, <1>4 DEF From, Over, Regular, NextDgram
  <2>2. Over' = Over /\ Mixing' = Mixing
    BY <1>2, <2>1 DEF Over, Mixing
  <2> QED  BY <1>1, <1>2, <1>4, <2>1, <2>2, MixedStill
<1> QED  BY <1>3, <1>4 DEF WaitsForMetadata, Purges, BeginsIteration

(* A frame is begun with its first part, and nothing is mixed into it yet. *)
LEMMA MixedBegins ==
  ASSUME LinkInv, Takes, BeginsFrame, Received.index = 0, UNCHANGED loopOK
  PROVE  Over' \/ (~Mixing' /\ At(0)' = At(1))
<1>1. CASE ~loopOK
  BY <1>1 DEF BeginsFrame, Over
<1>2. CASE loopOK
  <2>1. Read' = 1 /\ At(0)' = At(1)
    BY <1>2, FrameHead
  <2>2. ~Mixing'
    BY <2>1 DEF Mixing
  <2> QED  BY <2>1, <2>2
<1> QED  BY <1>1, <1>2

LEMMA MixedResyncs ==
  ASSUME LinkInv, LinkInv', MixedInv, Resyncs \/ FirstArrives
  PROVE  MixedInv'
<1>1. /\ rpc \in {"resync", "first"} /\ Takes
      /\ UNCHANGED <<loopOK, published, sent, k, tpc, lost, swaps>> /\ ~Over
  BY DEF Resyncs, FirstArrives, NotTheTransmitter, linkVars, transmitVars, Over
<1>2. CASE Over'
  <2>1. From' = 1
    BY <1>2 DEF From
  <2> QED  BY <1>1, <1>2, <2>1, MixedTaken
<1>3. CASE ~Over' /\ BeginsFrame /\ Received.index = 0
  <2>1. ~Mixing' /\ At(0)' = At(1)
    BY <1>1, <1>3, MixedBegins
  <2> QED  BY <1>1, <2>1, MixedTaken
<1>4. CASE abort_frame' /\ rpc' \in {"resync", "top"}
  <2>1. From' = 1 /\ ~Mixing'
    BY <1>4 DEF From, Mixing
  <2> QED  BY <1>1, <2>1, MixedTaken
<1>5. CASE Resyncs
  <2>1. CASE WaitedEnough
    BY <1>2, <1>5, <2>1 DEF Resyncs, Over
  <2>2. CASE ~WaitedEnough /\ Received.index = 0
    BY <1>2, <1>3, <1>5, <2>2 DEF Resyncs
  <2>3. CASE ~WaitedEnough /\ Received.index # 0
    BY <1>4, <1>5, <2>3 DEF Resyncs, LinkInv, SyncInv
  <2> QED  BY <2>1, <2>2, <2>3
<1>6. CASE FirstArrives
  <2>1. CASE ~loopOK
    <3>1. Over'
      BY <1>1, <1>6, <2>1 DEF FirstArrives, BeginsFrame, Over
    <3> QED  BY <1>2, <3>1
  <2>2. CASE loopOK /\ Received.index = 0
    BY <1>2, <1>3, <1>6, <2>2 DEF FirstArrives
  <2>3. CASE loopOK /\ Received.index # 0
    BY <1>4, <1>6, <2>3 DEF FirstArrives
  <2> QED  BY <2>1, <2>2, <2>3
<1> QED  BY <1>5, <1>6

LEMMA MixedNext ==
  ASSUME LinkInv, LinkInv', MixedInv, NextArrives
  PROVE  MixedInv'
<1>1. /\ rpc = "next" /\ Takes /\ UNCHANGED <<loopOK, published, sent, k, tpc, lost, swaps>>
      /\ ~abort_frame /\ ~Over /\ loopOK /\ k_dgram # 0
  BY DEF NextArrives, NotTheTransmitter, linkVars, transmitVars, LinkInv, SyncInv, Over
<1>2. Read = k_dgram /\ k_dgram \in Nat /\ k_dgram > 0 /\ k_dgram < NDgrams /\ NDgrams \in Nat
      /\ k_dgram \in Parts
  <2>1. k_dgram \in Parts /\ NDgrams \in Nat
    BY StateTypes, Sizes
  <2> QED  BY <1>1, <2>1 DEF Read, Parts
<1>3. At(0) = [tx |-> buff[k_dgram - 1], index |-> k_dgram - 1] /\ At(1) = Received
  BY <1>1, <1>2, ChainHead
<1>4. CASE Follows
  <2>1. /\ buff' = [buff EXCEPT ![k_dgram] = Received.tx] /\ UNCHANGED abort_frame
        /\ \/ k_dgram = NDgrams - 1 /\ rpc' = "publish" /\ k_dgram' = 0
           \/ k_dgram # NDgrams - 1 /\ rpc' = "next" /\ k_dgram' = k_dgram + 1
        /\ Received.index = k_dgram
    BY <1>1, <1>4 DEF NextArrives, Follows
  <2>2. Read' - 1 = k_dgram /\ rpc' \in {"next", "publish"} /\ ~Over'
    BY <1>1, <1>2, <2>1 DEF Read, Over
  <2>3. \A p \in Parts : buff'[p] = IF p = k_dgram THEN Received.tx ELSE buff[p]
    BY <2>1, StateTypes
  <2>4. At(0)' = At(1) /\ At(1).index = At(0).index + 1 /\ At(1).tx = Received.tx
    <3>1. At(0)' = [tx |-> Received.tx, index |-> k_dgram]
      BY <1>2, <2>2, <2>3 DEF At
    <3>2. Received \in [tx : Transmissions, index : Parts]
      BY <1>1, TakesHead, DgramType
    <3>3. Received = [tx |-> Received.tx, index |-> k_dgram]
      BY <2>1, <3>2
    <3>4. k_dgram = k_dgram - 1 + 1
      BY <1>2
    <3> QED  BY <1>3, <3>1, <3>3, <3>4
  <2>5. From = 0 /\ From' = 0
    BY <1>1, <2>1, <2>2 DEF From
  <2>6. CASE Received.tx = buff[k_dgram - 1]
    <3>1. Mixing' => Mixing
      <4> SUFFICES ASSUME NEW p \in 0 .. k_dgram, buff'[p] # buff'[0]
                   PROVE  \E q \in 0 .. k_dgram - 1 : buff[q] # buff[0]
        BY <1>1, <1>2, <2>2 DEF Mixing
      <4>1. p \in Parts /\ 0 \in Parts /\ buff'[0] = buff[0] /\ k_dgram - 1 \in 0 .. k_dgram - 1
        BY <1>2, <2>3, Sizes
      <4>2. CASE p = k_dgram
        <5>1. buff[k_dgram - 1] # buff[0]
          BY <2>3, <2>6, <4>1, <4>2
        <5> QED  BY <4>1, <5>1
      <4>3. CASE p # k_dgram
        <5>1. p \in 0 .. k_dgram - 1 /\ buff[p] # buff[0]
          BY <1>2, <2>3, <4>1, <4>3
        <5> QED  BY <5>1
      <4> QED  BY <4>2, <4>3
    <3> QED  BY <1>1, <2>4, <3>1, MixedTaken
  <2>7. CASE Received.tx # buff[k_dgram - 1]
    <3>1. Joins(At(0), At(1))
      BY <1>3, <2>4, <2>7 DEF Joins
    <3>2. 0 \in From .. Len(queue) - 1 /\ 0 + 1 = 1
      BY <1>1, <2>5, TakesHead, StateTypes
    <3>3. 0 \in Joints
      BY <3>1, <3>2 DEF Joints
    <3> QED  BY <1>1, <2>4, <2>5, <3>3, MixedTaken
  <2> QED  BY <2>6, <2>7
<1>5. CASE ~Follows
  <2>1. abort_frame' = TRUE /\ rpc' = "top"
    BY <1>5 DEF NextArrives
  <2>2. From' = 1 /\ ~Mixing'
    BY <2>1 DEF From, Mixing
  <2> QED  BY <1>1, <2>2, MixedTaken
<1> QED  BY <1>4, <1>5

LEMMA MixedPublishes ==
  ASSUME LinkInv, LinkInv', MixedInv, Publishes
  PROVE  MixedInv'
<1>1. /\ rpc = "publish" /\ rpc' = (IF loopOK THEN "top" ELSE "ended")
      /\ UNCHANGED <<queue, abort_frame, loopOK, buff, sent, k, tpc, lost, swaps>>
      /\ ~abort_frame
  BY DEF Publishes, NotTheTransmitter, linkVars, transmitVars, LinkInv, SyncInv
<1>2. PICK n \in Nat : n = Len(published) /\ Len(published') = n + 1
  BY LinkPublishes, StateTypes
<1>3. /\ published'[n + 1].parts = buff
      /\ \A i \in 1 .. n : published'[i] = published[i]
  BY <1>2, LinkPublishes
<1>4. Regulars = 1 .. n
  BY <1>1, <1>2 DEF Regulars, Regular
<1>5. \A i \in 1 .. n : Mixed(i)' <=> Mixed(i)
  BY <1>3 DEF Mixed, TxOf
<1>6. CASE ~loopOK
  <2>1. Regulars' = 1 .. n
    BY <1>1, <1>2, <1>6 DEF Regulars, Regular
  <2>2. MixedFrames' = MixedFrames
    BY <1>4, <1>5, <2>1 DEF MixedFrames
  <2>3. Over /\ Over'
    BY <1>1, <1>6 DEF Over
  <2> QED  BY <1>1, <2>2, <2>3 DEF MixedInv, Budget
<1>7. CASE loopOK
  <2>1. Regulars' = 1 .. n + 1
    BY <1>1, <1>2, <1>7 DEF Regulars, Regular
  <2>2. ~Over /\ ~Over' /\ From' = From /\ Read' = NDgrams /\ Read = NDgrams /\ ~Mixing'
    BY <1>1, <1>7 DEF Over, From, Read, Mixing
  <2>3. Older' = Older /\ Pending' = Pending /\ Joints' = Joints /\ Budget' = Budget
    BY <1>1, <2>2 DEF Older, Pending, Joints, At, NextDgram, Budget
  <2>4. Mixed(n + 1)' <=> Mixing
    BY <1>1, <1>3, <2>2 DEF Mixed, TxOf, Mixing, Parts
  <2>5. MixedFrames' = MixedFrames \cup (IF Mixing THEN {n + 1} ELSE {})
    <3>1. MixedFrames = {i \in 1 .. n : Mixed(i)} /\ MixedFrames' = {i \in 1 .. n + 1 : Mixed(i)'}
      BY <1>4, <2>1 DEF MixedFrames
    <3>2. 1 .. n + 1 = 1 .. n \cup {n + 1}
      OBVIOUS
    <3> QED  BY <1>5, <2>4, <3>1, <3>2
  <2>6. Cardinality(MixedFrames') <= Cardinality(MixedFrames) + AsNr(Mixing)
        /\ Cardinality(MixedFrames') \in Nat
    <3>1. CASE Mixing
      <4>1. MixedFrames' \subseteq MixedFrames \cup {n + 1}
        BY <2>5, <3>1
      <4>2. Cardinality(MixedFrames') <= Cardinality(MixedFrames) + 1 /\ Cardinality(MixedFrames') \in Nat
        BY <4>1, MixedTypes, Added
      <4> QED  BY <3>1, <4>2 DEF AsNr
    <3>2. CASE ~Mixing
      <4>1. MixedFrames' = MixedFrames
        BY <2>5, <3>2
      <4> QED  BY <3>2, <4>1, MixedTypes DEF AsNr
    <3> QED  BY <3>1, <3>2
  <2>7. PICK c \in Nat, d \in Nat, a \in {0, 1}, x \in Nat :
          /\ c = Cardinality(MixedFrames) /\ d = Cardinality(MixedFrames')
          /\ a = AsNr(Mixing) /\ x = Cardinality(Joints) /\ d <= c + a
    BY <2>6, MixedTypes
  <2>8. MixedSoon = c + a + x /\ MixedSoon' = d + 0 + x
    BY <2>2, <2>3, <2>7 DEF MixedSoon, AsNr
  <2>9. Older /\ Paid(MixedSoon, Pending, Budget) /\ Pending \in Nat
    BY <2>2, PendingType DEF MixedInv
  <2>10. PICK g \in Nat, h \in Nat, p \in Nat, l \in Nat :
           g = MixedSoon /\ h = MixedSoon' /\ p = Pending /\ l = Budget /\ h <= g
    <3>1. MixedSoon \in Nat /\ MixedSoon' \in Nat /\ MixedSoon' <= MixedSoon
      BY <2>7, <2>8
    <3>2. Budget \in Nat
      BY MixedTypes
    <3> QED  BY <2>9, <3>1, <3>2
  <2>11. Paid(h, p, l)
    <3>1. Paid(g, p, l) /\ p <= p + (l - l) /\ l <= l
      BY <2>9, <2>10
    <3> QED  BY <2>10, <3>1, PaidStays
  <2> QED  BY <2>2, <2>3, <2>9, <2>10, <2>11 DEF MixedInv
<1> QED  BY <1>6, <1>7

LEMMA MixedInit == Init => MixedInv
<1> SUFFICES ASSUME Init  PROVE MixedInv
  OBVIOUS
<1>1. /\ rpc = "meta" /\ abort_frame = TRUE /\ lost = 0 /\ swaps = 0
      /\ Len(queue) = 0 /\ Len(published) = 0
  BY DEF Init, TransmitInit
<1>2. MixedFrames = {} /\ From = 1 /\ ~Over /\ ~Mixing
  BY <1>1 DEF MixedFrames, Regulars, Regular, From, Over, Mixing
<1>3. Joints = {} /\ Pending = 0 /\ Older
  BY <1>1, <1>2 DEF Joints, Pending, Older
<1>4. MixedSoon = 0
  BY <1>2, <1>3, FS_EmptySet DEF MixedSoon, AsNr
<1>5. Worth(0) = 0
  BY Sizes DEF Worth
<1>6. Budget = 0
  BY <1>1, <1>5 DEF Budget
<1> QED  BY <1>2, <1>3, <1>4, <1>5, <1>6 DEF MixedInv, Paid

LEMMA MixedStep == LinkInv /\ LinkInv' /\ MixedInv /\ [Next]_vars => MixedInv'
<1> SUFFICES ASSUME LinkInv, LinkInv', MixedInv, [Next]_vars  PROVE MixedInv'
  OBVIOUS
<1>1. CASE Writer /\ UNCHANGED <<linkVars, queue, recvVars, CTRLexit, lost, swaps>>
  <2>1. NextDgram' = NextDgram
    BY <1>1, LinkWriter DEF linkVars, NextDgram
  <2> QED  BY <1>1, <2>1, MixedQuiet
<1>2. CASE Transmitter
  <2>1. CASE (Wakes \/ WaitTimesOut) /\ NotTheReceiver /\ UNCHANGED <<linkVars, queue, lost>>
    <3>1. NextDgram' = NextDgram
      BY <2>1, LinkWaits DEF linkVars, NextDgram
    <3> QED  BY <2>1, <3>1, MixedQuiet DEF NotTheReceiver
  <2>2. CASE CopiesMetadata
    <3>1. /\ tpc = "slice" /\ tpc' = "data" /\ Len(sent') = Len(sent) + 1 /\ k = 0
          /\ UNCHANGED <<k, queue, recvVars, lost, swaps>>
      BY <2>2, LinkMetadata
    <3>2. NextDgram' = NextDgram
      BY <3>1 DEF NextDgram
    <3> QED  BY <3>1, <3>2, MixedQuiet
  <2>3. CASE CopiesData
    <3>1. /\ tpc = "data" /\ tpc' = "send" /\ Len(sent') = Len(sent)
          /\ UNCHANGED <<k, queue, recvVars, lost, swaps>>
      BY <2>3, LinkCopies
    <3>2. NextDgram' = NextDgram
      BY <3>1 DEF NextDgram
    <3> QED  BY <3>1, <3>2, MixedQuiet
  <2>4. CASE Sends
    <3>1. /\ tpc = "send" /\ UNCHANGED <<sent, recvVars, swaps>> /\ (QueueGrows \/ Loses) /\ Advances
      BY <2>4, LinkSends
    <3> QED  BY <3>1, MixedGrows, MixedLoses
  <2> QED  BY <1>2, <2>1, <2>2, <2>3, <2>4 DEF Transmitter
<1>3. CASE Overtakes
  BY <1>3, MixedOvertakes
<1>4. CASE Receiver
  BY <1>4, MixedWaits, MixedResyncs, MixedNext, MixedPublishes DEF Receiver
<1>5. CASE AsksForExit \/ UNCHANGED vars
  <2>1. UNCHANGED <<transmitVars, linkVars, queue, recvVars, lost, swaps>>
    BY <1>5, LinkIdle
  <2>2. NextDgram' = NextDgram
    BY <2>1 DEF transmitVars, linkVars, NextDgram
  <2> QED  BY <2>1, <2>2, MixedQuiet
<1> QED  BY <1>1, <1>2, <1>3, <1>4, <1>5 DEF Next

LEMMA MixedInvariance == Spec => []MixedInv
BY MixedInit, MixedStep, LinkInvariance, PTL DEF Spec

(* A frame of two transmissions costs a loss of as many datagrams as a     *)
(* frame has, but for three of them for each datagram overtaken: fewer and *)
(* the indices that recvUDP looks at do not join up.                       *)
THEOREM MixedHaveFaults ==
  Spec => [](NDgrams * (Cardinality({i \in Regulars : Mixed(i)}) - 3 * swaps) <= lost)
<1>1. LinkInv /\ MixedInv => NDgrams * (Cardinality({i \in Regulars : Mixed(i)}) - 3 * swaps) <= lost
  <2> SUFFICES ASSUME LinkInv, MixedInv
               PROVE  NDgrams * (Cardinality(MixedFrames) - 3 * swaps) <= lost
    BY DEF MixedFrames
  <2>1. PICK c \in Nat, s \in Nat, l \in Nat, m \in Nat :
          c = Cardinality(MixedFrames) /\ s = swaps /\ l = lost /\ m = NDgrams
    BY MixedTypes, Sizes
  <2>2. m * c <= l + m * (3 * s)
    BY <2>1, MixedSoFar DEF Worth, Budget
  <2>3. m * (c - 3 * s) = m * c - m * (3 * s) /\ m * c \in Nat /\ m * (3 * s) \in Nat
    OBVIOUS
  <2>4. m * (c - 3 * s) <= l
    BY <2>2, <2>3
  <2> QED  BY <2>1, <2>4
<1> QED  BY <1>1, LinkInvariance, MixedInvariance, PTL

(* What the runs check of it, as long as the network keeps the order.      *)
THEOREM MixedInOrder == Spec => [](swaps = 0 => MixedOnlyByFaults)
<1>1. LinkInv /\ NDgrams * (Cardinality({i \in Regulars : Mixed(i)}) - 3 * swaps) <= lost
        => (swaps = 0 => MixedOnlyByFaults)
  <2> SUFFICES ASSUME LinkInv, NDgrams * (Cardinality({i \in Regulars : Mixed(i)}) - 3 * swaps) <= lost,
                      swaps = 0
               PROVE  MixedOnlyByFaults
    OBVIOUS
  <2>1. 3 * swaps = swaps
    OBVIOUS
  <2> QED  BY <2>1 DEF MixedOnlyByFaults
<1> QED  BY <1>1, LinkInvariance, MixedHaveFaults, PTL

------------------------------------------------------------------------------
(* The order of frames.  The datagrams between one that was overtaken and  *)
(* a datagram 0 that comes too early each overtook, or were overtaken by,  *)
(* one of the two; with a frame between them, that is as many as the frame *)
(* has.                                                                    *)

(* The transmission whose datagram 0 is sent next.                         *)
NextZero == IF tpc \in {"data", "send"} /\ k = 0 THEN Len(sent) ELSE Len(sent) + 1

(* Datagram j begins a frame that is not newer than transmission t.        *)
BeginsOld(j, t) == queue[j].index = 0 /\ queue[j].tx <= t

Forming == rpc \in {"next", "publish"} /\ loopOK
LastTx == TxOf(Len(published))

QueueOrder ==
  /\ \A i \in 1 .. Len(queue) : queue[i].index = 0 => queue[i].tx < NextZero
  /\ \A i, j \in 1 .. Len(queue) :
       i < j /\ queue[i].index = 0 /\ BeginsOld(j, queue[i].tx) => j - i <= swaps
FormingOrder ==
  Forming => /\ buff[0] \in 1 .. Len(sent) /\ buff[0] < NextZero
             /\ \A j \in 1 .. Len(queue) : BeginsOld(j, buff[0]) => Read + j - 1 <= swaps
LastOrder ==
  ~Over /\ published # <<>> =>
    /\ LastTx < NextZero
    /\ \A j \in 1 .. Len(queue) : BeginsOld(j, LastTx) => NDgrams <= swaps
    /\ Forming /\ buff[0] <= LastTx => NDgrams <= swaps

OrderInv == QueueOrder /\ FormingOrder /\ LastOrder

LEMMA OrderTypes ==
  ASSUME LinkInv
  PROVE  /\ Len(queue) \in Nat /\ Len(sent) \in Nat /\ swaps \in Nat /\ NDgrams \in Nat
         /\ NextZero \in Nat /\ Read \in Nat /\ 0 \in Parts /\ buff[0] \in Nat
         /\ \A i \in 1 .. Len(queue) : queue[i].tx \in Nat
         /\ published # <<>> => LastTx \in Nat
<1>1. Len(queue) \in Nat /\ Len(sent) \in Nat /\ swaps \in Nat /\ NDgrams \in Nat /\ 0 \in Parts
  BY StateTypes, Sizes
<1>2. NextZero \in Nat
  BY <1>1 DEF NextZero
<1>3. Read \in Nat
  BY StateTypes, Sizes DEF Read
<1>4. buff[0] \in Nat
  BY <1>1, KeptQueue
<1>5. \A i \in 1 .. Len(queue) : queue[i].tx \in Nat
  BY <1>1, KeptQueue
<1>6. published # <<>> => LastTx \in Nat
  <2>1. ASSUME published # <<>>  PROVE published[Len(published)] \in Frames
    <3>1. Len(published) \in 1 .. Len(published)
      BY <2>1, StateTypes, EmptySeq
    <3> QED  BY <3>1, StateTypes, ElementOfSeq
  <2> QED  BY <1>1, <2>1, Sizes DEF LastTx, TxOf, Frames, Transmissions, Nothing
<1> QED  BY <1>1, <1>2, <1>3, <1>4, <1>5, <1>6

(* Steps that leave the queue and the receiver alone.                      *)
LEMMA OrderStill ==
  ASSUME LinkInv, LinkInv', OrderInv, UNCHANGED <<queue, recvVars, swaps>>,
         NextZero' >= NextZero, Len(sent') >= Len(sent)
  PROVE  OrderInv'
<1>1. UNCHANGED <<rpc, abort_frame, loopOK, k_dgram, buff, published>> /\ LastTx' = LastTx
  BY DEF recvVars, LastTx, TxOf
<1>2. Forming' = Forming /\ Over' = Over /\ Read' = Read /\ \A j, t : BeginsOld(j, t)' = BeginsOld(j, t)
  BY <1>1 DEF Forming, Over, Read, BeginsOld
<1>3. PICK z \in Nat, zz \in Nat, l \in Nat, ll \in Nat :
        z = NextZero /\ zz = NextZero' /\ l = Len(sent) /\ ll = Len(sent') /\ z <= zz /\ l <= ll
  <2>1. NextZero' \in Nat /\ Len(sent') \in Nat
    BY DEF LinkInv, TypeOK, NextZero
  <2> QED  BY <2>1, OrderTypes
<1>4. \A x \in Nat : (x < z => x < zz) /\ (x \in 1 .. l => x \in 1 .. ll)
  BY <1>3
<1>5. QueueOrder'
  BY <1>2, <1>3, <1>4, OrderTypes DEF OrderInv, QueueOrder
<1>6. FormingOrder'
  BY <1>1, <1>2, <1>3, <1>4, OrderTypes DEF OrderInv, FormingOrder
<1>7. LastOrder'
  BY <1>1, <1>2, <1>3, <1>4, OrderTypes DEF OrderInv, LastOrder
<1> QED  BY <1>5, <1>6, <1>7 DEF OrderInv

LEMMA OrderSends ==
  ASSUME LinkInv, LinkInv', OrderInv, tpc = "send", QueueGrows \/ Loses, Advances,
         UNCHANGED <<sent, recvVars, swaps>>
  PROVE  OrderInv'
<1>1. /\ NextZero' >= NextZero /\ NextZero' \in Nat
      /\ k = 0 => NextZero = Len(sent) /\ NextZero' = Len(sent) + 1
  <2>1. k \in Nat /\ k' \in Nat /\ NDgrams \in Nat /\ Len(sent) \in Nat
    <3>1. k \in Parts /\ k' \in Parts
      BY DEF LinkInv, TypeOK
    <3> QED  BY <3>1, OrderTypes, Sizes
  <2> QED  BY <2>1 DEF Advances, NextZero
<1>2. CASE Loses
  BY <1>1, <1>2, OrderStill, OrderTypes DEF Loses
<1>3. CASE QueueGrows
  <2>1. PICK n \in Nat, z \in Nat, zz \in Nat : n = Len(queue) /\ z = NextZero /\ zz = NextZero' /\ z <= zz
    BY <1>1, OrderTypes
  <2>2. UNCHANGED <<rpc, abort_frame, loopOK, k_dgram, buff, published>> /\ LastTx' = LastTx
    BY DEF recvVars, LastTx, TxOf
  <2>3. Forming' = Forming /\ Over' = Over /\ Read' = Read
    BY <2>2 DEF Forming, Over, Read
  <2>4. /\ Len(queue') = n + 1 /\ queue'[n + 1] = [tx |-> Len(sent), index |-> k]
        /\ \A i \in 1 .. n : queue'[i] = queue[i]
    BY <1>3, <2>1 DEF QueueGrows
  <2>5. \A j \in 1 .. n : queue'[j] = queue[j] /\ queue[j].tx \in Nat
    BY <2>1, <2>4, OrderTypes
  <2>6. ASSUME NEW t \in Nat, t < z  PROVE ~BeginsOld(n + 1, t)'
    <3>1. queue'[n + 1].index = 0 => k = 0 /\ queue'[n + 1].tx = z
      BY <1>1, <2>1, <2>4
    <3> QED  BY <2>1, <2>6, <3>1 DEF BeginsOld
  <2>7. queue'[n + 1].index = 0 => queue'[n + 1].tx < zz
    BY <1>1, <2>1, <2>4, OrderTypes
  <2>8. \A j \in 1 .. n + 1 : j # n + 1 => j \in 1 .. n
    OBVIOUS
  <2>9. QueueOrder'
    <3>1. ASSUME NEW i \in 1 .. n + 1, queue'[i].index = 0  PROVE queue'[i].tx < zz
      <4>1. CASE i = n + 1
        BY <2>7, <3>1, <4>1
      <4>2. CASE i # n + 1
        <5>1. i \in 1 .. n /\ queue'[i] = queue[i] /\ queue[i].tx \in Nat
          BY <2>5, <2>8, <4>2
        <5>2. queue[i].tx < z
          BY <2>1, <3>1, <5>1 DEF OrderInv, QueueOrder
        <5> QED  BY <2>1, <5>1, <5>2
      <4> QED  BY <4>1, <4>2
    <3>2. ASSUME NEW i \in 1 .. n + 1, NEW j \in 1 .. n + 1, i < j, queue'[i].index = 0,
                 BeginsOld(j, queue[i].tx)'
          PROVE  j - i <= swaps
      <4>1. i \in 1 .. n
        BY <3>2
      <4>2. queue'[i] = queue[i] /\ queue[i].tx \in Nat /\ queue[i].tx < z
        BY <2>1, <2>5, <3>2, <4>1 DEF OrderInv, QueueOrder
      <4>3. j # n + 1
        BY <2>6, <3>2, <4>2 DEF BeginsOld
      <4>4. j \in 1 .. n /\ queue'[j] = queue[j]
        BY <2>5, <2>8, <4>3
      <4> QED  BY <2>1, <3>2, <4>1, <4>2, <4>4 DEF OrderInv, QueueOrder, BeginsOld
    <3> QED  BY <2>1, <2>4, <3>1, <3>2 DEF QueueOrder
  <2>10. ASSUME NEW t \in Nat, t < z, NEW j \in 1 .. n + 1, BeginsOld(j, t)'
         PROVE  j \in 1 .. n /\ BeginsOld(j, t)
    <3>1. j \in 1 .. n /\ queue'[j] = queue[j]
      BY <2>5, <2>6, <2>8, <2>10
    <3> QED  BY <2>10, <3>1 DEF BeginsOld
  <2>11. FormingOrder'
    <3> SUFFICES ASSUME Forming
                 PROVE  /\ buff[0] \in 1 .. Len(sent) /\ buff[0] < zz
                        /\ \A j \in 1 .. n + 1 : BeginsOld(j, buff[0])' => Read + j - 1 <= swaps
      BY <2>1, <2>2, <2>3, <2>4 DEF FormingOrder, BeginsOld
    <3>1. /\ buff[0] \in 1 .. Len(sent) /\ buff[0] < z /\ buff[0] \in Nat
          /\ \A j \in 1 .. n : BeginsOld(j, buff[0]) => Read + j - 1 <= swaps
      BY <2>1, OrderTypes DEF OrderInv, FormingOrder
    <3>2. PICK b \in Nat : b = buff[0]
      BY <3>1
    <3>3. \A j \in 1 .. n + 1 : BeginsOld(j, b)' => Read + j - 1 <= swaps
      BY <2>10, <3>1, <3>2
    <3> QED  BY <2>1, <2>2, <3>1, <3>2, <3>3 DEF BeginsOld
  <2>12. LastOrder'
    <3> SUFFICES ASSUME ~Over, published # <<>>
                 PROVE  /\ LastTx < zz
                        /\ \A j \in 1 .. n + 1 : BeginsOld(j, LastTx)' => NDgrams <= swaps
                        /\ Forming /\ buff[0] <= LastTx => NDgrams <= swaps
      BY <2>1, <2>2, <2>3, <2>4 DEF LastOrder, BeginsOld
    <3>1. PICK b \in Nat : b = LastTx
      BY OrderTypes
    <3>2. /\ b < z /\ \A j \in 1 .. n : BeginsOld(j, b) => NDgrams <= swaps
          /\ Forming /\ buff[0] <= LastTx => NDgrams <= swaps
      BY <2>1, <3>1 DEF OrderInv, LastOrder
    <3>3. \A j \in 1 .. n + 1 : BeginsOld(j, b)' => NDgrams <= swaps
      BY <2>10, <3>2
    <3> QED  BY <2>1, <2>2, <3>1, <3>2, <3>3 DEF BeginsOld
  <2> QED  BY <2>9, <2>11, <2>12 DEF OrderInv
<1> QED  BY <1>2, <1>3

(* One datagram more overtaken, and none moves by more than one place.     *)
LEMMA OrderOvertakes ==
  ASSUME LinkInv, LinkInv', OrderInv, Overtakes
  PROVE  OrderInv'
<1>1. /\ swaps' = swaps + 1 /\ Len(queue') = Len(queue)
      /\ UNCHANGED <<transmitVars, linkVars, recvVars>>
  BY LinkOvertakes
<1>2. PICK m \in 1 .. Len(queue) - 1 :
        /\ queue'[m] = queue[m + 1] /\ queue'[m + 1] = queue[m]
        /\ \A l \in (1 .. Len(queue)) \ {m, m + 1} : queue'[l] = queue[l]
  BY LinkOvertakes
<1>3. PICK n \in Nat, s \in Nat, r \in Nat, N \in Nat :
        n = Len(queue) /\ s = swaps /\ r = Read /\ N = NDgrams
  BY OrderTypes
<1>4. /\ UNCHANGED <<tpc, k, sent, rpc, abort_frame, loopOK, k_dgram, buff, published>>
      /\ LastTx' = LastTx
  BY <1>1 DEF transmitVars, linkVars, recvVars, LastTx, TxOf
<1>5. NextZero' = NextZero /\ Forming' = Forming /\ Over' = Over /\ Read' = Read
  BY <1>4 DEF NextZero, Forming, Over, Read
<1> DEFINE w(i) == IF i = m THEN m + 1 ELSE IF i = m + 1 THEN m ELSE i
<1>6. \A i \in 1 .. n : w(i) \in 1 .. n /\ queue'[i] = queue[w(i)]
  BY <1>2, <1>3
<1>7. ASSUME NEW i \in 1 .. n  PROVE i <= w(i) + 1
  BY <1>2
<1>8. ASSUME NEW i \in 1 .. n, NEW j \in 1 .. n, i < j
      PROVE  \/ w(i) < w(j) /\ j - i <= w(j) - w(i) + 1
             \/ j - i = 1
  BY <1>2, <1>8
<1> HIDE DEF w
<1>9. \A i \in 1 .. n : \A t : BeginsOld(i, t)' <=> BeginsOld(w(i), t)
  BY <1>6 DEF BeginsOld
<1>10. QueueOrder'
  <2>1. \A i \in 1 .. n : queue'[i].index = 0 => queue'[i].tx < NextZero
    BY <1>3, <1>6 DEF OrderInv, QueueOrder
  <2>2. ASSUME NEW i \in 1 .. n, NEW j \in 1 .. n, i < j, queue'[i].index = 0,
               queue'[j].index = 0, queue'[j].tx <= queue'[i].tx
        PROVE  j - i <= s + 1
    <3>1. w(i) \in 1 .. n /\ w(j) \in 1 .. n /\ queue'[i] = queue[w(i)] /\ queue'[j] = queue[w(j)]
      BY <1>6
    <3>2. CASE w(i) < w(j) /\ j - i <= w(j) - w(i) + 1
      <4>1. w(j) - w(i) <= s
        BY <1>3, <2>2, <3>1, <3>2 DEF OrderInv, QueueOrder, BeginsOld
      <4> QED  BY <3>1, <3>2, <4>1
    <3> QED  BY <1>8, <2>2, <3>2
  <2> QED  BY <1>1, <1>3, <1>5, <2>1, <2>2 DEF QueueOrder, BeginsOld
<1>11. FormingOrder'
  <2> SUFFICES ASSUME Forming
               PROVE  /\ buff[0] \in 1 .. Len(sent) /\ buff[0] < NextZero
                      /\ \A j \in 1 .. n : BeginsOld(j, buff[0])' => r + j - 1 <= s + 1
    BY <1>1, <1>3, <1>4, <1>5 DEF FormingOrder, BeginsOld
  <2>1. \A j \in 1 .. n : BeginsOld(j, buff[0]) => r + j - 1 <= s
    BY <1>3 DEF OrderInv, FormingOrder
  <2>2. ASSUME NEW j \in 1 .. n, BeginsOld(w(j), buff[0])  PROVE r + j - 1 <= s + 1
    <3>1. w(j) \in 1 .. n /\ r + w(j) - 1 <= s /\ j <= w(j) + 1
      BY <1>6, <1>7, <2>1, <2>2
    <3> QED  BY <3>1
  <2>3. \A j \in 1 .. n : BeginsOld(j, buff[0])' => BeginsOld(w(j), buff[0])
    BY <1>4, <1>9 DEF BeginsOld
  <2> QED  BY <2>2, <2>3 DEF OrderInv, FormingOrder
<1>12. LastOrder'
  <2> SUFFICES ASSUME ~Over, published # <<>>
               PROVE  /\ LastTx < NextZero
                      /\ \A j \in 1 .. n : BeginsOld(j, LastTx)' => N <= s + 1
                      /\ Forming /\ buff[0] <= LastTx => N <= s + 1
    BY <1>1, <1>3, <1>4, <1>5 DEF LastOrder, BeginsOld
  <2>1. /\ LastTx < NextZero
        /\ \A j \in 1 .. n : BeginsOld(j, LastTx) => N <= s
        /\ Forming /\ buff[0] <= LastTx => N <= s
    BY <1>3 DEF OrderInv, LastOrder
  <2>2. N <= s => N <= s + 1
    OBVIOUS
  <2>3. \A j \in 1 .. n : BeginsOld(j, LastTx)' => BeginsOld(w(j), LastTx)
    BY <1>4, <1>9 DEF BeginsOld
  <2> QED  BY <1>6, <2>1, <2>2, <2>3
<1> QED  BY <1>10, <1>11, <1>12 DEF OrderInv


(* A datagram is taken, or none.                                           *)
LEMMA OrderTaken ==
  ASSUME LinkInv, OrderInv, ~Over, Takes \/ UNCHANGED queue,
         UNCHANGED <<sent, k, tpc, published, swaps>>,
         Forming' /\ published # <<>> /\ buff'[0] <= LastTx => NDgrams <= swaps
  PROVE  QueueOrder' /\ LastOrder'
<1>1. PICK m \in {0, 1}, n \in Nat :
        /\ n = Len(queue') /\ Len(queue) = n + m
        /\ \A i \in 1 .. n : queue'[i] = queue[i + m]
  <2>1. CASE Takes
    <3>1. /\ Len(queue') = Len(queue) - 1 /\ Len(queue) >= 1 /\ Len(queue) \in Nat
          /\ \A i \in 1 .. Len(queue') : queue'[i] = queue[i + 1]
      BY <2>1, TakesHead, StateTypes
    <3>2. Len(queue') \in Nat /\ Len(queue) = Len(queue') + 1
      BY <3>1
    <3> QED  BY <3>1, <3>2
  <2>2. CASE UNCHANGED queue
    <3>1. Len(queue') \in Nat /\ Len(queue) = Len(queue') + 0
      BY <2>2, StateTypes
    <3>2. \A i \in 1 .. Len(queue') : queue'[i] = queue[i + 0]
      BY <2>2
    <3> QED  BY <3>1, <3>2
  <2> QED  BY <2>1, <2>2
<1>2. NextZero' = NextZero /\ LastTx' = LastTx
  BY DEF NextZero, LastTx, TxOf
<1>3. \A i \in 1 .. n : i + m \in 1 .. n + m
  OBVIOUS
<1>4. QueueOrder'
  <2>1. \A i \in 1 .. n : queue'[i].index = 0 => queue'[i].tx < NextZero
    BY <1>1, <1>3 DEF OrderInv, QueueOrder
  <2>2. ASSUME NEW i \in 1 .. n, NEW j \in 1 .. n, i < j, queue'[i].index = 0,
               queue'[j].index = 0, queue'[j].tx <= queue'[i].tx
        PROVE  j - i <= swaps
    <3>1. i + m < j + m /\ (j + m) - (i + m) = j - i
      BY <2>2
    <3>2. (j + m) - (i + m) <= swaps
      BY <1>1, <1>3, <2>2, <3>1 DEF OrderInv, QueueOrder, BeginsOld
    <3> QED  BY <3>1, <3>2
  <2> QED  BY <1>1, <1>2, <2>1, <2>2 DEF QueueOrder, BeginsOld
<1>5. LastOrder'
  <2> SUFFICES ASSUME published # <<>>
               PROVE  /\ LastTx < NextZero
                      /\ \A j \in 1 .. n : BeginsOld(j, LastTx)' => NDgrams <= swaps
    BY <1>1, <1>2 DEF LastOrder, BeginsOld
  <2>1. /\ LastTx < NextZero
        /\ \A j \in 1 .. n + m : BeginsOld(j, LastTx) => NDgrams <= swaps
    BY <1>1 DEF OrderInv, LastOrder
  <2>2. \A j \in 1 .. n : BeginsOld(j, LastTx)' => BeginsOld(j + m, LastTx)
    BY <1>1, <1>2 DEF BeginsOld
  <2> QED  BY <1>3, <2>1, <2>2
<1> QED  BY <1>4, <1>5

LEMMA OrderIdles ==
  ASSUME LinkInv, OrderInv, ~Over, Takes \/ UNCHANGED queue,
         UNCHANGED <<sent, k, tpc, published, swaps>>, ~Forming'
  PROVE  OrderInv'
<1>1. QueueOrder' /\ LastOrder'
  BY OrderTaken
<1> QED  BY <1>1 DEF OrderInv, FormingOrder

LEMMA OrderWaits ==
  ASSUME LinkInv, OrderInv, WaitsForMetadata \/ Purges \/ BeginsIteration
  PROVE  OrderInv'
<1>1. /\ UNCHANGED <<sent, k, tpc, swaps, published>> /\ (Takes \/ UNCHANGED queue)
      /\ rpc \in {"meta", "purge", "top"} /\ rpc' \notin {"next", "publish"}
  BY DEF WaitsForMetadata, Purges, BeginsIteration, NotTheTransmitter, linkVars, transmitVars
<1>2. ~Over /\ ~Forming'
  BY <1>1 DEF Over, Forming
<1> QED  BY <1>1, <1>2, OrderIdles

(* A frame is begun with the datagram 0 that was at the head of the queue. *)
LEMMA OrderBegins ==
  ASSUME LinkInv, OrderInv, ~Over, Takes, BeginsFrame, Received.index = 0, loopOK,
         UNCHANGED <<sent, k, tpc, published, swaps, loopOK>>
  PROVE  OrderInv'
<1>1. /\ Read' = 1 /\ buff'[0] = Received.tx
  BY FrameHead
<1>2. /\ Len(queue') = Len(queue) - 1 /\ Len(queue) >= 1 /\ Len(queue) \in Nat
      /\ \A i \in 1 .. Len(queue') : queue'[i] = queue[i + 1]
      /\ Received = queue[1] /\ Received.tx \in 1 .. Len(sent)
  BY TakesHead, StateTypes
<1>3. PICK t \in Nat : t = Received.tx
  BY <1>2, OrderTypes
<1>4. PICK n \in Nat : n = Len(queue') /\ Len(queue) = n + 1
  BY <1>2
<1>5. NextZero' = NextZero /\ swaps \in Nat
  BY OrderTypes DEF NextZero
<1>6. FormingOrder'
  <2>1. t \in 1 .. Len(sent) /\ t < NextZero
    BY <1>2, <1>3 DEF OrderInv, QueueOrder
  <2>2. ASSUME NEW j \in 1 .. n, BeginsOld(j + 1, t)  PROVE 1 + j - 1 <= swaps
    <3>1. j + 1 \in 1 .. n + 1 /\ 1 \in 1 .. n + 1 /\ 1 < j + 1
      OBVIOUS
    <3>2. (j + 1) - 1 <= swaps
      BY <1>2, <1>3, <1>4, <2>2, <3>1 DEF OrderInv, QueueOrder
    <3> QED  BY <1>5, <3>2
  <2>3. \A j \in 1 .. n : BeginsOld(j, t)' => BeginsOld(j + 1, t)
    BY <1>2, <1>4 DEF BeginsOld
  <2>4. \A j \in 1 .. n : BeginsOld(j, t)' => 1 + j - 1 <= swaps
    BY <2>2, <2>3
  <2> QED  BY <1>1, <1>3, <1>4, <1>5, <2>1, <2>4 DEF FormingOrder, BeginsOld
<1>7. published # <<>> /\ buff'[0] <= LastTx => NDgrams <= swaps
  <2>1. 1 \in 1 .. Len(queue)
    BY <1>2
  <2> QED  BY <1>1, <1>2, <2>1 DEF OrderInv, LastOrder, BeginsOld
<1>8. QueueOrder' /\ LastOrder'
  BY <1>7, OrderTaken
<1> QED  BY <1>6, <1>8 DEF OrderInv

LEMMA OrderResyncs ==
  ASSUME LinkInv, OrderInv, Resyncs \/ FirstArrives
  PROVE  OrderInv'
<1>1. /\ rpc \in {"resync", "first"} /\ Takes /\ ~Over
      /\ UNCHANGED <<loopOK, published, sent, k, tpc, swaps>>
  BY DEF Resyncs, FirstArrives, NotTheTransmitter, linkVars, transmitVars, Over
<1>2. CASE BeginsFrame /\ loopOK /\ Received.index = 0
  BY <1>1, <1>2, OrderBegins
<1>3. CASE rpc' \notin {"next", "publish"} \/ ~loopOK
  <2>1. ~Forming'
    BY <1>1, <1>3 DEF Forming
  <2> QED  BY <1>1, <2>1, OrderIdles
<1> QED  BY <1>1, <1>2, <1>3 DEF Resyncs, FirstArrives

LEMMA OrderNext ==
  ASSUME LinkInv, OrderInv, NextArrives
  PROVE  OrderInv'
<1>1. /\ rpc = "next" /\ Takes /\ UNCHANGED <<loopOK, published, sent, k, tpc, swaps>>
      /\ ~Over /\ loopOK /\ k_dgram # 0 /\ k_dgram \in Parts
  BY StateTypes DEF NextArrives, NotTheTransmitter, linkVars, transmitVars, LinkInv, SyncInv, Over
<1>2. CASE ~Follows
  <2>1. ~Forming'
    BY <1>2 DEF NextArrives, Forming
  <2> QED  BY <1>1, <2>1, OrderIdles
<1>3. CASE Follows
  <2>1. /\ buff' = [buff EXCEPT ![k_dgram] = Received.tx]
        /\ \/ k_dgram = NDgrams - 1 /\ rpc' = "publish" /\ k_dgram' = 0
           \/ k_dgram # NDgrams - 1 /\ rpc' = "next" /\ k_dgram' = k_dgram + 1
    BY <1>1, <1>3 DEF NextArrives
  <2>2. buff'[0] = buff[0]
    BY <1>1, <2>1, StateTypes, Sizes
  <2>3. Read' = Read + 1 /\ Read \in Nat
    <3>1. k_dgram \in Nat /\ NDgrams \in Nat
      BY <1>1, Sizes
    <3> QED  BY <1>1, <2>1, <3>1 DEF Read
  <2>4. /\ Len(queue') = Len(queue) - 1 /\ Len(queue) >= 1 /\ Len(queue) \in Nat
        /\ \A i \in 1 .. Len(queue') : queue'[i] = queue[i + 1]
    BY <1>1, TakesHead, StateTypes
  <2>5. PICK n \in Nat, r \in Nat, b \in Nat :
          n = Len(queue') /\ Len(queue) = n + 1 /\ r = Read /\ b = buff[0]
    BY <2>3, <2>4, OrderTypes
  <2>6. NextZero' = NextZero /\ swaps \in Nat
    BY <1>1, OrderTypes DEF NextZero
  <2>7. Forming
    BY <1>1 DEF Forming
  <2>8. /\ b \in 1 .. Len(sent) /\ b < NextZero
        /\ \A j \in 1 .. n + 1 : BeginsOld(j, b) => r + j - 1 <= swaps
    BY <2>5, <2>7 DEF OrderInv, FormingOrder
  <2>9. ASSUME NEW j \in 1 .. n, BeginsOld(j + 1, b)  PROVE (r + 1) + j - 1 <= swaps
    <3>1. j + 1 \in 1 .. n + 1
      OBVIOUS
    <3>2. r + (j + 1) - 1 <= swaps
      BY <2>8, <2>9, <3>1
    <3> QED  BY <2>6, <3>2
  <2>10. \A j \in 1 .. n : BeginsOld(j, b)' => BeginsOld(j + 1, b)
    BY <2>4, <2>5 DEF BeginsOld
  <2>11. \A j \in 1 .. n : BeginsOld(j, b)' => (r + 1) + j - 1 <= swaps
    BY <2>9, <2>10
  <2>12. FormingOrder'
    BY <1>1, <2>2, <2>3, <2>5, <2>6, <2>8, <2>11 DEF FormingOrder, BeginsOld
  <2>13. published # <<>> /\ buff'[0] <= LastTx => NDgrams <= swaps
    BY <1>1, <2>2, <2>7 DEF OrderInv, LastOrder
  <2>14. QueueOrder' /\ LastOrder'
    BY <1>1, <2>13, OrderTaken
  <2> QED  BY <2>12, <2>14 DEF OrderInv
<1> QED  BY <1>2, <1>3

LEMMA OrderPublishes ==
  ASSUME LinkInv, OrderInv, Publishes
  PROVE  OrderInv'
<1>1. /\ rpc = "publish" /\ rpc' = (IF loopOK THEN "top" ELSE "ended")
      /\ UNCHANGED <<queue, loopOK, buff, sent, k, tpc, swaps>>
  BY DEF Publishes, NotTheTransmitter, linkVars, transmitVars
<1>2. LastTx' = buff[0]
  <2>1. Len(published') = Len(published) + 1 /\ published'[Len(published) + 1].parts = buff
    BY LinkPublishes
  <2> QED  BY <2>1 DEF LastTx, TxOf
<1>3. NextZero' = NextZero /\ ~Forming' /\ \A j, t : BeginsOld(j, t)' = BeginsOld(j, t)
  BY <1>1 DEF NextZero, Forming, BeginsOld
<1>4. QueueOrder'
  BY <1>1, <1>3 DEF OrderInv, QueueOrder, BeginsOld
<1>5. LastOrder'
  <2>1. CASE ~loopOK
    BY <1>1, <2>1 DEF LastOrder, Over
  <2>2. CASE loopOK
    <3>1. /\ buff[0] < NextZero
          /\ \A j \in 1 .. Len(queue) : BeginsOld(j, buff[0]) => NDgrams + j - 1 <= swaps
      BY <1>1, <2>2 DEF OrderInv, FormingOrder, Forming, Read
    <3>2. ASSUME NEW j \in 1 .. Len(queue), NDgrams + j - 1 <= swaps  PROVE NDgrams <= swaps
      <4>1. PICK a \in Nat, s \in Nat, i \in Nat : a = NDgrams /\ s = swaps /\ i = j /\ i >= 1
        BY OrderTypes
      <4> QED  BY <3>2, <4>1
    <3> QED  BY <1>1, <1>2, <1>3, <3>1, <3>2 DEF LastOrder, BeginsOld
  <2> QED  BY <2>1, <2>2
<1> QED  BY <1>3, <1>4, <1>5 DEF OrderInv, FormingOrder

LEMMA OrderInit == Init => OrderInv
<1> SUFFICES ASSUME Init  PROVE OrderInv
  OBVIOUS
<1>1. rpc = "meta" /\ published = <<>> /\ Len(queue) = 0
  BY DEF Init
<1> QED  BY <1>1 DEF OrderInv, QueueOrder, FormingOrder, LastOrder, Forming

LEMMA OrderStep == LinkInv /\ LinkInv' /\ OrderInv /\ [Next]_vars => OrderInv'
<1> SUFFICES ASSUME LinkInv, LinkInv', OrderInv, [Next]_vars  PROVE OrderInv'
  OBVIOUS
<1>1. CASE \/ Writer /\ UNCHANGED <<linkVars, queue, recvVars, CTRLexit, lost, swaps>>
           \/ (Wakes \/ WaitTimesOut) /\ NotTheReceiver /\ UNCHANGED <<linkVars, queue, lost>>
           \/ CopiesData \/ AsksForExit \/ UNCHANGED vars
  <2>1. /\ UNCHANGED <<queue, recvVars, swaps, k>> /\ Len(sent') = Len(sent)
        /\ tpc' \in {"data", "send"} <=> tpc \in {"data", "send"}
    BY <1>1, LinkWriter, LinkWaits, LinkCopies, LinkIdle DEF linkVars, transmitVars, NotTheReceiver
  <2>2. NextZero' = NextZero
    BY <2>1 DEF NextZero
  <2> QED  BY <2>1, <2>2, OrderTypes, OrderStill
<1>2. CASE CopiesMetadata
  <2>1. /\ tpc = "slice" /\ tpc' = "data" /\ Len(sent') = Len(sent) + 1 /\ k = 0
        /\ UNCHANGED <<k, queue, recvVars, swaps>>
    BY <1>2, LinkMetadata
  <2>2. NextZero' = NextZero
    BY <2>1 DEF NextZero
  <2> QED  BY <2>1, <2>2, OrderTypes, OrderStill
<1>3. CASE Sends
  <2>1. /\ tpc = "send" /\ UNCHANGED <<sent, recvVars, swaps>> /\ (QueueGrows \/ Loses) /\ Advances
    BY <1>3, LinkSends
  <2> QED  BY <2>1, OrderSends
<1>4. CASE Overtakes
  BY <1>4, OrderOvertakes
<1>5. CASE Receiver
  BY <1>5, OrderWaits, OrderResyncs, OrderNext, OrderPublishes DEF Receiver
<1> QED  BY <1>1, <1>2, <1>3, <1>4, <1>5 DEF Next, Transmitter


------------------------------------------------------------------------------
(* The link implements the relay.                                          *)

LEMMA SameNamed ==
  ASSUME UNCHANGED sent
  PROVE  Named' = Named
BY DEF Named

LEMMA SameDelivered ==
  ASSUME UNCHANGED published, Regular' = Regular
  PROVE  Delivered' = Delivered
BY DEF Delivered, Regulars, TxOf

(* A receiver that does not publish takes no frame back: the one that      *)
(* gives up does so in the midst of aborting a frame.                      *)
LEMMA RegularStays ==
  ASSUME LinkInv, WaitsForMetadata \/ BeginsIteration \/ Purges \/ Resyncs \/ FirstArrives \/ NextArrives
  PROVE  UNCHANGED <<published, sent>> /\ Regular' = Regular
<1>1. UNCHANGED <<published, sent>>
  BY DEF WaitsForMetadata, BeginsIteration, Purges, Resyncs, FirstArrives, NextArrives,
         NotTheTransmitter, linkVars
<1>2. rpc # "ended"
  BY DEF WaitsForMetadata, BeginsIteration, Purges, Resyncs, FirstArrives, NextArrives
<1>3. rpc' = "ended" => abort_frame'
  <2>1. CASE WaitsForMetadata
    BY <2>1 DEF WaitsForMetadata, LinkInv, SyncInv
  <2>2. CASE BeginsIteration \/ Purges
    BY <1>2, <2>2 DEF BeginsIteration, Purges
  <2>3. CASE Resyncs
    BY <2>3 DEF Resyncs, BeginsFrame, LinkInv, SyncInv
  <2>4. CASE FirstArrives \/ NextArrives
    BY <2>4 DEF FirstArrives, NextArrives, BeginsFrame
  <2> QED  BY <2>1, <2>2, <2>3, <2>4
<1> QED  BY <1>1, <1>2, <1>3 DEF Regular

LEMMA MetadataTransmits ==
  ASSUME LinkInv, CopiesMetadata
  PROVE  Relay!Next
<1> DEFINE e == [cnt1 |-> cnt1, frame |-> 0]
<1>1. sent' = Append(sent, e) /\ UNCHANGED recvVars
  BY DEF CopiesMetadata, NotTheReceiver
<1>2. Delivered' = Delivered
  <2>1. UNCHANGED published /\ Regular' = Regular
    BY <1>1 DEF recvVars, Regular
  <2> QED  BY <2>1, SameDelivered
<1>3. cnt1 \in Slices
  BY DEF LinkInv, SourceInv, TransmitTypeOK
<1>4. PICK n \in Nat : n = Len(sent)
  BY StateTypes
<1>5. /\ Len(sent') = n + 1 /\ sent'[n + 1] = e
      /\ \A t \in 1 .. n : sent'[t] = sent[t]
  <2>1. e \in Records
    BY <1>3, Sizes DEF Records
  <2> HIDE DEF e
  <2> QED  BY <1>1, <1>4, <2>1, StateTypes, AppendProperties
<1>6. Named' = Append(Named, cnt1)
  <2>1. Named = [t \in 1 .. n |-> sent[t].cnt1]
    BY <1>4 DEF Named
  <2>2. Append(Named, cnt1) = [t \in 1 .. n + 1 |-> IF t = n + 1 THEN cnt1 ELSE Named[t]]
    <3>1. Named = [t \in 1 .. n |-> Named[t]]
      BY <2>1
    <3> QED  BY <3>1, AppendedTo
  <2>3. Named' = [t \in 1 .. n + 1 |-> sent'[t].cnt1]
    BY <1>5 DEF Named
  <2>4. \A t \in 1 .. n + 1 : sent'[t].cnt1 = IF t = n + 1 THEN cnt1 ELSE Named[t]
    <3>1. \A t \in 1 .. n + 1 : t # n + 1 => t \in 1 .. n
      OBVIOUS
    <3> QED  BY <1>5, <2>1, <3>1
  <2> QED  BY <2>2, <2>3, <2>4
<1>7. Relay!Transmit(cnt1)
  BY <1>2, <1>6 DEF Relay!Transmit
<1> QED  BY <1>3, <1>7 DEF Relay!Next

LEMMA CopiesNamesNone ==
  ASSUME LinkInv, CopiesData
  PROVE  Named' = Named
<1>1. sent' = [sent EXCEPT ![Len(sent)].frame = image[slice]]
  BY DEF CopiesData
<1>2. PICK n \in Nat : n = Len(sent)
  BY StateTypes
<1>3. sent \in Seq(Records) /\ Len(sent') = n
  BY <1>2, StateTypes, LinkCopies
<1>4. \A t \in 1 .. n : sent'[t].cnt1 = sent[t].cnt1
  <2>1. ASSUME NEW t \in 1 .. n  PROVE sent'[t].cnt1 = sent[t].cnt1
    <3>1. sent[t] \in Records
      BY <1>2, <1>3
    <3>2. sent'[t] = IF t = n THEN [sent[n] EXCEPT !.frame = image[slice]] ELSE sent[t]
      BY <1>1, <1>2, <1>3
    <3> QED  BY <3>1, <3>2 DEF Records
  <2> QED  BY <2>1
<1>5. Named = [t \in 1 .. n |-> sent[t].cnt1] /\ Named' = [t \in 1 .. n |-> sent'[t].cnt1]
  BY <1>2, <1>3 DEF Named
<1> QED  BY <1>4, <1>5

(* The frame published when the loop goes on is delivered; the buffer      *)
(* published after an exit was asked for is not.                           *)
LEMMA PublishesDelivers ==
  ASSUME LinkInv, OrderInv, swaps < NDgrams, Publishes
  PROVE  Relay!Next \/ UNCHANGED Relay!vars
<1> DEFINE T == buff[0]
           d == [tx |-> T, slot |-> Named[T]]
<1>1. /\ rpc = "publish" /\ rpc' = (IF loopOK THEN "top" ELSE "ended") /\ ~abort_frame
      /\ UNCHANGED <<sent, buff, loopOK, abort_frame>>
      /\ published' = Append(published, [slot |-> Slot(T), parts |-> buff])
  BY DEF Publishes, NotTheTransmitter, linkVars, LinkInv, SyncInv
<1>2. PICK n \in Nat : n = Len(published)
  BY StateTypes
<1>3. /\ Len(published') = n + 1 /\ published'[n + 1].parts = buff /\ published'[n + 1].slot = Slot(T)
      /\ \A i \in 1 .. n : published'[i] = published[i]
  BY <1>2, LinkPublishes
<1>4. Regular = n /\ Delivered = [i \in 1 .. n |-> [tx |-> TxOf(i), slot |-> published[i].slot]]
  BY <1>1, <1>2 DEF Regular, Delivered, Regulars
<1>5. Named' = Named
  BY <1>1, SameNamed
<1>6. \A i \in 1 .. n : TxOf(i)' = TxOf(i) /\ published'[i].slot = published[i].slot
  BY <1>3 DEF TxOf
<1>7. CASE ~loopOK
  <2>1. Regular' = n
    BY <1>1, <1>3, <1>7 DEF Regular
  <2>2. Delivered' = [i \in 1 .. n |-> [tx |-> TxOf(i)', slot |-> published'[i].slot]]
    BY <2>1 DEF Delivered, Regulars
  <2>3. Delivered' = Delivered
    BY <1>4, <1>6, <2>2
  <2> QED  BY <1>5, <2>3 DEF Relay!vars
<1>8. CASE loopOK
  <2>1. Regular' = n + 1
    BY <1>1, <1>3, <1>8 DEF Regular
  <2>2. Delivered' = [i \in 1 .. n + 1 |-> [tx |-> TxOf(i)', slot |-> published'[i].slot]]
    BY <2>1 DEF Delivered, Regulars
  <2>3. T \in 1 .. Len(sent) /\ T # Nothing /\ Len(sent) \in Nat
    BY <1>1, <1>8, OrderTypes DEF OrderInv, FormingOrder, Forming, Nothing
  <2>4. Slot(T) = Named[T] /\ Len(Named) = Len(sent)
    BY <2>3 DEF Slot, Named
  <2>5. TxOf(n + 1)' = T /\ published'[n + 1].slot = Named[T]
    BY <1>3, <2>4 DEF TxOf
  <2>6. Len(Delivered) = n /\ Append(Delivered, d) = [i \in 1 .. n + 1 |-> IF i = n + 1 THEN d ELSE Delivered[i]]
    <3>1. Delivered = [i \in 1 .. n |-> Delivered[i]]
      BY <1>4
    <3> HIDE DEF d
    <3> QED  BY <3>1, AppendedTo
  <2>7. Delivered' = Append(Delivered, d)
    <3>1. ASSUME NEW i \in 1 .. n + 1
          PROVE  [tx |-> TxOf(i)', slot |-> published'[i].slot] = IF i = n + 1 THEN d ELSE Delivered[i]
      <4>1. CASE i = n + 1
        BY <2>5, <4>1
      <4>2. CASE i # n + 1
        <5>1. i \in 1 .. n
          BY <4>2
        <5> QED  BY <1>4, <1>6, <4>2, <5>1
      <4> QED  BY <4>1, <4>2
    <3> HIDE DEF d
    <3> QED  BY <2>2, <2>6, <3>1
  <2>8. Relay!IsNext(T)
    <3> SUFFICES ASSUME Delivered # <<>>  PROVE T > Delivered[n].tx
      BY <2>6 DEF Relay!IsNext
    <3>1. n \in 1 .. n
      <4>1. n = 0 => Delivered = <<>>
        BY <1>4
      <4> QED  BY <4>1
    <3>2. Delivered[n].tx = LastTx /\ published # <<>>
      BY <1>2, <1>4, <3>1, EmptySeq, StateTypes DEF LastTx
    <3>3. ~(T <= LastTx)
      <4>1. ~(NDgrams <= swaps)
        BY OrderTypes
      <4> QED  BY <1>1, <1>8, <3>2, <4>1 DEF OrderInv, LastOrder, Over, Forming
    <3> QED  BY <3>2, <3>3, OrderTypes
  <2>9. Relay!Deliver(T)
    BY <1>5, <2>7, <2>8 DEF Relay!Deliver
  <2> QED  BY <2>3, <2>4, <2>9 DEF Relay!Next
<1> QED  BY <1>7, <1>8

LEMMA RelayInit == Init => Relay!Init
<1> SUFFICES ASSUME Init  PROVE Named = <<>> /\ Delivered = <<>>
  BY DEF Relay!Init
<1>1. Len(sent) = 0 /\ Regular = 0
  BY DEF Init, Regular
<1> QED  BY <1>1 DEF Named, Delivered, Regulars

LEMMA RelayStep ==
  ASSUME LinkInv, OrderInv, swaps < NDgrams, [Next]_vars
  PROVE  [Relay!Next]_Relay!vars
<1>1. CASE UNCHANGED <<sent, recvVars>>
  <2>1. UNCHANGED published /\ Regular' = Regular
    BY <1>1 DEF recvVars, Regular
  <2> QED  BY <1>1, <2>1, SameNamed, SameDelivered DEF Relay!vars
<1>2. CASE CopiesMetadata
  BY <1>2, MetadataTransmits
<1>3. CASE CopiesData
  <2>1. UNCHANGED published /\ Regular' = Regular
    BY <1>3 DEF CopiesData, NotTheReceiver, recvVars, Regular
  <2> QED  BY <1>3, <2>1, CopiesNamesNone, SameDelivered DEF Relay!vars
<1>4. CASE Publishes
  BY <1>4, PublishesDelivers
<1>5. CASE WaitsForMetadata \/ BeginsIteration \/ Purges \/ Resyncs \/ FirstArrives \/ NextArrives
  BY <1>5, RegularStays, SameNamed, SameDelivered DEF Relay!vars
<1>6. CASE \/ (Writer \/ Wakes \/ WaitTimesOut) /\ UNCHANGED <<linkVars, recvVars>>
           \/ Sends \/ Overtakes \/ AsksForExit \/ UNCHANGED vars
  BY <1>1, <1>6 DEF Sends, Overtakes, AsksForExit, NotTheReceiver, vars, linkVars
<1> QED  BY <1>2, <1>3, <1>4, <1>5, <1>6 DEF Next, Transmitter, Receiver, NotTheReceiver

(* As long as fewer datagrams are overtaken than a frame has, a UDP link   *)
(* publishes frames in the order of their transmissions, none twice, each  *)
(* in the slice that its metadata names, however many datagrams are lost:  *)
(* recvUDP takes a frame to be a datagram 0 and those that follow it.      *)
THEOREM LinkImplementsRelay == Spec /\ [](swaps < NDgrams) => ImplementsRelay
<1>1. LinkInv /\ LinkInv' /\ OrderInv /\ [Next]_vars => OrderInv'
  BY OrderStep
<1>2. LinkInv /\ OrderInv /\ swaps < NDgrams /\ [Next]_vars => [Relay!Next]_Relay!vars
  BY RelayStep
<1> QED  BY <1>1, <1>2, OrderInit, RelayInit, LinkInvariance, PTL DEF Spec, ImplementsRelay, Relay!Spec
=============================================================================
