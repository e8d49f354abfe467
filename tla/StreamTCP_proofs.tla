--------------------------- MODULE StreamTCP_proofs ---------------------------
(***************************************************************************)
(* The receiver of a TCP link keeps its place in the byte stream, and puts *)
(* every frame in the slice it was read from, whatever the sizes of the    *)
(* frame, of the stream and of the connection.                             *)
(*                                                                         *)
(* The invariant says where the receiver is: the units of the connection   *)
(* follow each other, and the first of them has the place in its frame     *)
(* that the count of what was received, or thrown away, calls for.         *)
(*                                                                         *)
(* Units that follow each other also belong to frames that follow each     *)
(* other: the link delivers every frame after its first, and implements    *)
(* the lossless StreamRelay.                                               *)
(***************************************************************************)
EXTENDS StreamTCP, StreamTransmit_proofs, SequenceTheorems

(* The units of the connection, and the one the transmitter sends next.    *)
UnitAt(i) == IF i <= Len(conn) THEN conn[i] ELSE [tx |-> Len(sent), part |-> k]

(* Unit v comes d units after unit u, whose frame may have been the last.  *)
After(u, v, d) ==
  /\ d < FrameUnits - u.part => v.part = u.part + d /\ v.tx = u.tx
  /\ d = FrameUnits - u.part => v.part = 0

Contiguous ==
  \A i, j \in 1 .. Len(conn) + 1 : i <= j => After(UnitAt(i), UnitAt(j), j - i)

(* The place in its frame of the unit the receiver is to read next.        *)
Expected == IF rpc = "flushrest" /\ recvsize > 0 THEN FrameUnits - recvsize
            ELSE IF recvsize = FrameUnits THEN 0 ELSE recvsize

Aligned == UnitAt(1).part = Expected \/ (Closed /\ recvsize = 0)

(* A frame that is copied, and whose slice is the one it was read from.    *)
Complete(t) ==
  /\ t \in 1 .. Len(sent)
  /\ sent[t].slice = sent[t].frame % NBslices
  /\ tpc = "data" => t < Len(sent)

SentInv ==
  /\ tpc = "data" => /\ sent # <<>> /\ sent[Len(sent)].slice = slice
                     /\ image[slice] % NBslices = slice
  /\ tpc = "send" => Complete(Len(sent))
  /\ k # 0 => tpc \in {"send", "ended"}
  /\ \A i \in 1 .. Len(conn) : Complete(conn[i].tx)

(* What was received of a frame is of one transmission.                    *)
BuffInv ==
  /\ \A p \in Parts : buff[p].part = p /\ (buff[p].tx = 0 \/ Complete(buff[p].tx))
  /\ rpc \in {"flush", "top", "ended"} => recvsize = 0
  /\ rpc \in {"flush", "flushrest"} => published = <<>>
  /\ rpc = "recv" /\ recvsize > 0 => Complete(buff[0].tx)
  /\ rpc = "recv" => \A p \in 0 .. recvsize - 1 : buff[p].tx = buff[0].tx
  /\ rpc = "recv" /\ recvsize \in 1 .. FrameUnits - 1 => UnitAt(1).tx = buff[0].tx

(* What was published is whole, but for the last frame of a dead           *)
(* transmitter, after which nothing is received.                           *)
InPlace(i) ==
  Whole(i) => /\ Complete(published[i].parts[Trailer].tx)
              /\ published[i].slot = sent[published[i].parts[Trailer].tx].slice
LastOfAll(i) == /\ i = Len(published) /\ tpc = "ended" /\ k # 0
                /\ conn = <<>> /\ recvsize = 0

PubInv ==
  \A i \in 1 .. Len(published) :
    /\ \A p \in Parts : published[i].parts[p].part = p
    /\ InPlace(i)
    /\ Whole(i) \/ LastOfAll(i)

LinkInv == TypeOK /\ SourceInv /\ Answers(Len(sent)) /\ SentInv /\ Contiguous
RecvInv == Aligned /\ BuffInv /\ PubInv
Inv == LinkInv /\ RecvInv

------------------------------------------------------------------------------
(* Operators.                                                              *)

LEMMA PartsType ==
  /\ Trailer \in Parts /\ 0 \in Parts /\ FrameUnits \in Nat /\ FrameUnits > 0
  /\ ConnLen \in Nat /\ MaxFrames \in Nat
  /\ \A p : p \in Parts <=> p \in Nat /\ p < FrameUnits
BY TCPAssumption, TransmitAssumption DEF Trailer, Parts

LEMMA OneMore ==
  ASSUME NEW a \in Int, NEW b \in Int
  PROVE  a + 1 = b <=> a = b - 1
OBVIOUS

LEMMA AfterNext ==
  ASSUME NEW u \in Unit, NEW v \in Unit, NEW w \in Unit, NEW d \in Nat,
         After(u, v, d),
         v.part < FrameUnits - 1 => w.part = v.part + 1 /\ w.tx = v.tx,
         v.part = FrameUnits - 1 => w.part = 0
  PROVE  After(u, w, d + 1)
<1>1. /\ u.part \in Nat /\ u.part < FrameUnits /\ v.part \in Nat /\ v.part < FrameUnits
      /\ w.part \in Nat /\ FrameUnits \in Nat
  BY PartsType DEF Unit
<1> QED  BY <1>1 DEF After

LEMMA AfterItself ==
  ASSUME NEW u \in Unit
  PROVE  After(u, u, 0)
BY PartsType DEF Unit, After

(* What the type of the state says of the units.                           *)
LEMMA UnitTypes ==
  ASSUME LinkInv
  PROVE  /\ Len(sent) \in 0 .. MaxFrames /\ Len(conn) \in Nat
         /\ \A i \in 1 .. Len(conn) : conn[i] \in Unit /\ UnitAt(i) = conn[i]
         /\ UnitAt(Len(conn) + 1) = [tx |-> Len(sent), part |-> k]
         /\ \A i \in 1 .. Len(conn) + 1 : UnitAt(i) \in Unit
         /\ conn = <<>> <=> Len(conn) = 0
<1>1. conn \in Seq(Unit) /\ Len(conn) \in Nat /\ Len(sent) \in Nat /\ k \in Parts
  BY DEF LinkInv, TypeOK
<1>2. Len(sent) \in 0 .. MaxFrames
  BY <1>1, AnswersWithin DEF LinkInv
<1>3. [tx |-> Len(sent), part |-> k] \in Unit
  BY <1>1, <1>2 DEF Unit
<1>4. \A i \in 1 .. Len(conn) : conn[i] \in Unit /\ UnitAt(i) = conn[i]
  BY <1>1 DEF UnitAt
<1>5. UnitAt(Len(conn) + 1) = [tx |-> Len(sent), part |-> k]
  BY <1>1 DEF UnitAt
<1>6. \A i \in 1 .. Len(conn) + 1 : UnitAt(i) \in Unit
  BY <1>1, <1>3, <1>4, <1>5
<1>7. conn = <<>> <=> Len(conn) = 0
  BY <1>1, EmptySeq
<1> QED  BY <1>1, <1>2, <1>4, <1>5, <1>6, <1>7

(* Complete frames are what they were, and transmissions only come to be.  *)
Grows == \A t \in 1 .. Len(sent) : Complete(t) => Complete(t)' /\ sent'[t] = sent[t]

LEMMA SameSentGrows ==
  ASSUME UNCHANGED sent, tpc' = "data" => tpc = "data"
  PROVE  Grows
BY DEF Grows, Complete

(* A connection that only gets shorter.                                    *)
LEMMA Dropped ==
  ASSUME LinkInv, NEW m \in 0 .. Len(conn), conn' \in Seq(Unit), Len(conn') = Len(conn) - m,
         \A i \in 1 .. Len(conn') : conn'[i] = conn[i + m],
         UNCHANGED <<sent, k>>
  PROVE  Contiguous' /\ \A i \in 1 .. Len(conn') + 1 : UnitAt(i)' = UnitAt(i + m)
<1>1. Len(conn) \in Nat /\ m \in Nat /\ Len(conn') \in Nat
  BY UnitTypes
<1>2. \A i \in 1 .. Len(conn') + 1 : UnitAt(i)' = UnitAt(i + m)
  BY <1>1 DEF UnitAt
<1>3. ASSUME NEW i \in 1 .. Len(conn') + 1, NEW j \in 1 .. Len(conn') + 1, i <= j
      PROVE  After(UnitAt(i)', UnitAt(j)', j - i)
  <2>1. /\ i + m \in 1 .. Len(conn) + 1 /\ j + m \in 1 .. Len(conn) + 1 /\ i + m <= j + m
        /\ (j + m) - (i + m) = j - i
    BY <1>1, <1>3
  <2>2. After(UnitAt(i + m), UnitAt(j + m), (j + m) - (i + m))
    BY <2>1 DEF LinkInv, Contiguous
  <2> QED  BY <1>2, <2>1, <2>2
<1> QED  BY <1>2, <1>3 DEF Contiguous, After

(* The first unit read.                                                    *)
LEMMA TailDropped ==
  ASSUME LinkInv, conn # <<>>, conn' = Tail(conn), UNCHANGED <<sent, k>>
  PROVE  /\ conn' \in Seq(Unit) /\ Len(conn') = Len(conn) - 1 /\ Len(conn) \in Nat \ {0}
         /\ \A i \in 1 .. Len(conn') : conn'[i] = conn[i + 1]
         /\ Head(conn) = UnitAt(1) /\ Head(conn) = conn[1]
         /\ Contiguous'
         /\ UnitAt(1)' = UnitAt(2) /\ UnitAt(2) \in Unit /\ UnitAt(1) \in Unit
         /\ After(UnitAt(1), UnitAt(2), 1)
<1>1. conn \in Seq(Unit) /\ Len(conn) \in Nat \ {0}
  BY EmptySeq DEF LinkInv, TypeOK
<1>2. /\ conn' \in Seq(Unit) /\ Len(conn') = Len(conn) - 1
      /\ \A i \in 1 .. Len(conn') : conn'[i] = conn[i + 1]
  BY <1>1, HeadTailProperties
<1>3. Head(conn) = conn[1] /\ Head(conn) = UnitAt(1)
  BY <1>1 DEF UnitAt
<1>4. Contiguous' /\ \A i \in 1 .. Len(conn') + 1 : UnitAt(i)' = UnitAt(i + 1)
  BY <1>1, <1>2, Dropped
<1>5. 1 \in 1 .. Len(conn') + 1 /\ 2 \in 1 .. Len(conn) + 1 /\ 1 \in 1 .. Len(conn) + 1
  BY <1>1, <1>2
<1>6. UnitAt(1)' = UnitAt(2)
  BY <1>4, <1>5
<1>7. UnitAt(2) \in Unit /\ UnitAt(1) \in Unit
  BY <1>5, UnitTypes
<1>8. After(UnitAt(1), UnitAt(2), 1)
  BY <1>5 DEF LinkInv, Contiguous
<1> QED  BY <1>1, <1>2, <1>3, <1>4, <1>6, <1>7, <1>8

(* What the receiver knows stays true while the transmitter works.         *)
LEMMA RecvKeeps ==
  ASSUME LinkInv, RecvInv, UNCHANGED recvVars, Grows,
         UnitAt(1)'.part = UnitAt(1).part, Closed => Closed',
         recvsize \in 1 .. FrameUnits - 1 => UnitAt(1)'.tx = UnitAt(1).tx,
         tpc = "ended" => UNCHANGED <<tpc, k, conn>>
  PROVE  RecvInv'
<1>1. UNCHANGED <<rpc, recvsize, loopOK, buff, published>>
  BY DEF recvVars
<1>2. \A t : Complete(t) => Complete(t)' /\ sent'[t] = sent[t]
  BY DEF Grows, Complete
<1>3. Aligned'
  BY <1>1 DEF RecvInv, Aligned, Expected
<1>4. BuffInv'
  BY <1>1, <1>2 DEF RecvInv, BuffInv
<1>5. PubInv'
  <2>1. ASSUME NEW i \in 1 .. Len(published)  
        PROVE  /\ \A p \in Parts : published[i].parts[p].part = p
               /\ InPlace(i)'
               /\ Whole(i)' \/ LastOfAll(i)'
    <3>1. InPlace(i) /\ (Whole(i) \/ LastOfAll(i))
      BY <2>1 DEF RecvInv, PubInv
    <3>2. InPlace(i)' /\ (Whole(i) => Whole(i)')
      BY <1>1, <1>2, <3>1 DEF InPlace, Whole
    <3>3. LastOfAll(i) => LastOfAll(i)'
      BY <1>1 DEF LastOfAll
    <3> QED  BY <2>1, <3>1, <3>2, <3>3 DEF RecvInv, PubInv
  <2> QED  BY <1>1, <2>1 DEF PubInv
<1> QED  BY <1>3, <1>4, <1>5 DEF RecvInv

------------------------------------------------------------------------------
(* One lemma for each step of the transmitter and of the writer.           *)

(* A step that sends nothing and receives nothing.                         *)
LEMMA QuietKeeps ==
  ASSUME Inv, SourceInv', Answers(Len(sent))', UNCHANGED <<linkVars, conn, recvVars>>,
         CTRLexit' \in BOOLEAN,
         tpc = "ended" => tpc' = "ended",
         tpc' = "data" => tpc = "data" /\ UNCHANGED slice,
         tpc' = "send" => tpc = "send",
         k # 0 => tpc' \in {"send", "ended"},
         tpc = "data" /\ image[slice] % NBslices = slice => image'[slice] % NBslices = slice
  PROVE  Inv'
<1>1. UNCHANGED <<sent, k, conn, rpc, recvsize, loopOK, buff, published>>
  BY DEF linkVars, recvVars
<1>2. TypeOK'
  BY <1>1 DEF Inv, LinkInv, TypeOK, SourceInv
<1>3. Grows
  BY <1>1, SameSentGrows
<1>4. SentInv'
  <2>1. \A t : Complete(t) => Complete(t)'
    BY <1>3 DEF Grows, Complete
  <2>2. tpc' = "send" => Complete(Len(sent))'
    BY <1>1 DEF Inv, LinkInv, SentInv, Complete
  <2>3. (\A i \in 1 .. Len(conn) : Complete(conn[i].tx))'
    BY <1>1, <2>1 DEF Inv, LinkInv, SentInv
  <2> QED  BY <1>1, <2>2, <2>3 DEF Inv, LinkInv, SentInv
<1>5. \A i : UnitAt(i)' = UnitAt(i)
  BY <1>1 DEF UnitAt
<1>6. Contiguous'
  BY <1>1, <1>5 DEF Inv, LinkInv, Contiguous, After
<1>7. RecvInv'
  <2>1. Closed => Closed'
    BY <1>1 DEF Closed
  <2> QED  BY <1>1, <1>3, <1>5, <2>1, RecvKeeps DEF Inv
<1> QED  BY <1>2, <1>4, <1>6, <1>7 DEF Inv, LinkInv

LEMMA WriterStep ==
  ASSUME Inv, Writer, UNCHANGED <<linkVars, conn, recvVars, CTRLexit>>
  PROVE  Inv'
<1>1. PICK n \in Nat : n = Len(sent)
  BY DEF Inv, LinkInv, TypeOK
<1>2. Answers(n)
  BY <1>1 DEF Inv, LinkInv
<1>3. /\ SourceInv' /\ Answers(n)'
      /\ \A s \in Slices : image[s] % NBslices = s => image'[s] % NBslices = s
  BY <1>2, WriterKeeps DEF Inv, LinkInv
<1>4. Answers(Len(sent))'
  BY <1>1, <1>3 DEF linkVars, Answers
<1>5. UNCHANGED transmitVars
  BY DEF Writer, WriterWrites, WriterPublishes
<1>6. slice \in Slices
  BY DEF Inv, LinkInv, TypeOK, TransmitTypeOK
<1>7. k # 0 => tpc \in {"send", "ended"}
  BY DEF Inv, LinkInv, SentInv
<1>8. UNCHANGED <<tpc, slice>> /\ CTRLexit' \in BOOLEAN
  BY <1>5 DEF transmitVars, Inv, LinkInv, TypeOK
<1> QED  BY <1>3, <1>4, <1>6, <1>7, <1>8, QuietKeeps

LEMMA WaitStep ==
  ASSUME Inv, Wakes \/ WaitTimesOut, NotTheReceiver, UNCHANGED <<linkVars, conn>>
  PROVE  Inv'
<1>1. PICK n \in Nat : n = Len(sent)
  BY DEF Inv, LinkInv, TypeOK
<1>2. Answers(n)
  BY <1>1 DEF Inv, LinkInv
<1>3. SourceInv' /\ Answers(n)'
  BY <1>2, WaitKeeps DEF Inv, LinkInv
<1>4. Answers(Len(sent))'
  BY <1>1, <1>3 DEF linkVars, Answers
<1>5. tpc = "wait" /\ tpc' \in {"wait", "slice"} /\ CTRLexit' \in BOOLEAN
  BY DEF Wakes, WaitTimesOut, NotTheReceiver, Inv, LinkInv, TypeOK
<1>6. k = 0
  BY <1>5 DEF Inv, LinkInv, SentInv
<1> QED  BY <1>3, <1>4, <1>5, <1>6, QuietKeeps DEF NotTheReceiver

LEMMA StopStep ==
  ASSUME Inv, SendFails \/ TransmitterStops
  PROVE  Inv'
<1>1. /\ tpc' = "ended" /\ NotTheReceiver
      /\ UNCHANGED <<sourceVars, linkVars, conn, cnt, drained, slice, oldslice>>
  BY DEF SendFails, TransmitterStops
<1>2. PICK n \in Nat : n = Len(sent)
  BY DEF Inv, LinkInv, TypeOK
<1>3. Answers(n) /\ SourceInv /\ drained \in BOOLEAN /\ slice \in Slices /\ oldslice \in Slices
  BY <1>2 DEF Inv, LinkInv, TypeOK, TransmitTypeOK
<1>4. SourceInv' /\ Answers(n)'
  BY <1>1, <1>3, TransmissionKeeps
<1>5. Answers(Len(sent))'
  BY <1>1, <1>2, <1>4 DEF linkVars, Answers
<1>6. CTRLexit' \in BOOLEAN
  BY <1>1 DEF NotTheReceiver, Inv, LinkInv, TypeOK
<1>7. UNCHANGED <<recvVars, linkVars, conn, image>>
  BY <1>1 DEF NotTheReceiver, sourceVars
<1> QED  BY <1>1, <1>4, <1>5, <1>6, <1>7, QuietKeeps

LEMMA PickStep ==
  ASSUME Inv, PicksSlice
  PROVE  Inv'
<1> DEFINE e == [slice |-> slice', frame |-> 0]
<1>1. /\ tpc = "slice" /\ tpc' = "data" /\ slice' = NextSlice(oldslice) /\ sent' = Append(sent, e)
      /\ UNCHANGED <<sourceVars, k, conn, cnt, drained, oldslice, recvVars, CTRLexit>>
  BY DEF PicksSlice, NotTheReceiver, TrailerSlice
<1>2. PICK n \in Nat : n = Len(sent)
  BY DEF Inv, LinkInv, TypeOK
<1>3. /\ Answers(n) /\ SourceInv /\ drained \in BOOLEAN /\ oldslice \in Slices
      /\ sent \in Seq([slice : Slices, frame : 0 .. MaxFrames])
  BY <1>2 DEF Inv, LinkInv, TypeOK, TransmitTypeOK
<1>4. slice' \in Slices /\ image'[slice'] % NBslices = slice'
  BY <1>1, <1>3, PickedIsWritten DEF sourceVars
<1>5. SourceInv' /\ Answers(n + 1)'
  BY <1>1, <1>3, <1>4, TransmissionKeeps
<1>6. /\ sent' \in Seq([slice : Slices, frame : 0 .. MaxFrames]) /\ Len(sent') = n + 1
      /\ \A t \in 1 .. n : sent'[t] = sent[t]
      /\ sent'[n + 1] = e /\ sent' # <<>>
  <2>1. e \in [slice : Slices, frame : 0 .. MaxFrames]
    BY <1>4, PartsType
  <2> QED  BY <1>1, <1>2, <1>3, <2>1, AppendProperties
<1>7. Answers(Len(sent))'
  BY <1>5, <1>6 DEF Answers
<1>8. UNCHANGED <<k, conn, rpc, recvsize, loopOK, buff, published, CTRLexit>>
  BY <1>1 DEF recvVars
<1>9. TypeOK'
  BY <1>5, <1>6, <1>8 DEF Inv, LinkInv, TypeOK, SourceInv
<1>10. \A t : Complete(t) => Complete(t)' /\ sent'[t] = sent[t]
  BY <1>2, <1>6 DEF Complete
<1>11. Grows
  BY <1>10 DEF Grows
<1>12. k = 0
  BY <1>1 DEF Inv, LinkInv, SentInv
<1>13. SentInv'
  <2>1. (\A i \in 1 .. Len(conn) : Complete(conn[i].tx))'
    BY <1>8, <1>10 DEF Inv, LinkInv, SentInv
  <2>2. sent'[Len(sent')].slice = slice'
    BY <1>6
  <2> QED  BY <1>1, <1>4, <1>6, <1>8, <1>12, <2>1, <2>2 DEF SentInv
<1>14. /\ \A i \in 1 .. Len(conn) : UnitAt(i)' = UnitAt(i)
       /\ \A i \in 1 .. Len(conn) + 1 : UnitAt(i)'.part = UnitAt(i).part
  BY <1>8, UnitTypes DEF UnitAt, Inv
<1>15. Contiguous'
  <2>1. ASSUME NEW i \in 1 .. Len(conn) + 1, NEW j \in 1 .. Len(conn) + 1, i <= j
        PROVE  After(UnitAt(i)', UnitAt(j)', j - i)
    <3>1. UnitAt(i) \in Unit /\ UnitAt(j) \in Unit /\ After(UnitAt(i), UnitAt(j), j - i)
      BY <2>1, UnitTypes DEF Inv, LinkInv, Contiguous
    <3>2. CASE j <= Len(conn)
      <4>1. UnitAt(i)' = UnitAt(i) /\ UnitAt(j)' = UnitAt(j)
        BY <1>14, <2>1, <3>2
      <4> QED  BY <3>1, <4>1
    <3>3. CASE i = j
      BY <1>14, <3>1, <3>3, PartsType DEF After, Unit
    <3>4. CASE i <= Len(conn) /\ j = Len(conn) + 1
      <4>1. UnitAt(j).part = 0 /\ UnitAt(j)'.part = 0 /\ UnitAt(i)' = UnitAt(i)
        BY <1>12, <1>14, <3>4, UnitTypes DEF Inv
      <4>2. Len(conn) \in Nat /\ i \in Nat /\ UnitAt(i).part \in Nat /\ FrameUnits \in Nat
        BY <3>1, UnitTypes, PartsType DEF Inv, Unit
      <4>3. ~(j - i < FrameUnits - UnitAt(i).part)
        BY <3>1, <3>4, <4>1, <4>2 DEF After
      <4> QED  BY <4>1, <4>3 DEF After
    <3> QED  BY <2>1, <3>2, <3>3, <3>4, UnitTypes DEF Inv
  <2> QED  BY <1>8, <2>1 DEF Contiguous, After
<1>16. RecvInv'
  <2>1. ~Closed /\ tpc # "ended"
    BY <1>1 DEF Closed
  <2>2. UnitAt(1)'.part = UnitAt(1).part
    BY <1>14, UnitTypes DEF Inv
  <2>3. recvsize \in 1 .. FrameUnits - 1 => UnitAt(1)'.tx = UnitAt(1).tx
    <3>1. CASE Len(conn) = 0
      <4>1. UnitAt(1).part = 0
        BY <1>12, <3>1, UnitTypes DEF Inv
      <4>2. recvsize \in 1 .. FrameUnits - 1 => Expected # 0
        BY PartsType DEF Expected
      <4> QED  BY <2>1, <4>1, <4>2 DEF Inv, RecvInv, Aligned
    <3>2. CASE Len(conn) # 0
      BY <1>14, <3>2, UnitTypes DEF Inv
    <3> QED  BY <3>1, <3>2
  <2> QED  BY <1>1, <1>11, <2>1, <2>2, <2>3, RecvKeeps DEF Inv
<1> QED  BY <1>5, <1>7, <1>9, <1>13, <1>15, <1>16 DEF Inv, LinkInv

LEMMA CopyStep ==
  ASSUME Inv, CopiesData
  PROVE  Inv'
<1>1. /\ tpc = "data" /\ tpc' = "send" /\ sent' = [sent EXCEPT ![Len(sent)].frame = image[slice]]
      /\ UNCHANGED <<sourceVars, k, conn, cnt, drained, slice, oldslice, recvVars, CTRLexit>>
  BY DEF CopiesData, NotTheReceiver
<1>2. PICK n \in Nat : n = Len(sent)
  BY DEF Inv, LinkInv, TypeOK
<1>3. /\ Answers(n) /\ SourceInv /\ drained \in BOOLEAN /\ slice \in Slices /\ oldslice \in Slices
      /\ sent \in Seq([slice : Slices, frame : 0 .. MaxFrames])
      /\ image[slice] \in 0 .. MaxFrames /\ image[slice] % NBslices = slice
      /\ sent # <<>> /\ sent[n].slice = slice
  BY <1>1, <1>2 DEF Inv, LinkInv, TypeOK, TransmitTypeOK, SentInv
<1>4. n \in 1 .. n /\ n \in 1 .. Len(sent) /\ sent[n] \in [slice : Slices, frame : 0 .. MaxFrames]
  <2>1. n # 0
    BY <1>2, <1>3, EmptySeq
  <2>2. n \in 1 .. n /\ n \in 1 .. Len(sent)
    BY <1>2, <2>1
  <2> QED  BY <1>3, <2>2, ElementOfSeq
<1>5. /\ sent' \in Seq([slice : Slices, frame : 0 .. MaxFrames]) /\ Len(sent') = n
      /\ \A t \in 1 .. n - 1 : sent'[t] = sent[t]
      /\ sent'[n].slice = slice /\ sent'[n].frame = image[slice]
  <2> DEFINE copied == [sent[n] EXCEPT !.frame = image[slice]]
  <2>1. /\ copied \in [slice : Slices, frame : 0 .. MaxFrames]
        /\ copied.slice = slice /\ copied.frame = image[slice]
    BY <1>3, <1>4
  <2>2. sent' = [sent EXCEPT ![n] = copied]
    BY <1>1, <1>2
  <2> HIDE DEF copied
  <2>3. /\ sent' \in Seq([slice : Slices, frame : 0 .. MaxFrames]) /\ Len(sent') = Len(sent)
        /\ \A t \in 1 .. Len(sent) : sent'[t] = IF t = n THEN copied ELSE sent[t]
    BY <1>3, <1>4, <2>1, <2>2, ExceptSeq
  <2> QED  BY <1>2, <1>4, <2>1, <2>3
<1>6. SourceInv' /\ Answers(n)'
  BY <1>1, <1>3, TransmissionKeeps
<1>7. Answers(Len(sent))'
  BY <1>5, <1>6 DEF Answers
<1>8. UNCHANGED <<k, conn, rpc, recvsize, loopOK, buff, published, CTRLexit>>
  BY <1>1 DEF recvVars
<1>9. TypeOK'
  BY <1>5, <1>6, <1>8 DEF Inv, LinkInv, TypeOK, SourceInv
<1>10. \A t : Complete(t) => Complete(t)' /\ sent'[t] = sent[t]
  BY <1>1, <1>2, <1>5 DEF Complete
<1>11. Grows
  BY <1>10 DEF Grows
<1>12. SentInv'
  <2>1. (\A i \in 1 .. Len(conn) : Complete(conn[i].tx))'
    BY <1>8, <1>10 DEF Inv, LinkInv, SentInv
  <2>2. Complete(n)'
    BY <1>1, <1>3, <1>4, <1>5 DEF Complete
  <2>3. Complete(Len(sent))'
    BY <1>5, <2>2 DEF Complete
  <2> QED  BY <1>1, <2>1, <2>3 DEF SentInv
<1>13. \A i : UnitAt(i)' = UnitAt(i)
  BY <1>2, <1>5, <1>8 DEF UnitAt
<1>14. Contiguous'
  BY <1>8, <1>13 DEF Inv, LinkInv, Contiguous, After
<1>15. RecvInv'
  <2>1. ~Closed /\ tpc # "ended"
    BY <1>1 DEF Closed
  <2> QED  BY <1>1, <1>11, <1>13, <2>1, RecvKeeps DEF Inv
<1> QED  BY <1>6, <1>7, <1>9, <1>12, <1>14, <1>15 DEF Inv, LinkInv

LEMMA SendStep ==
  ASSUME Inv, Sends
  PROVE  Inv'
<1> DEFINE e == [tx |-> Len(sent), part |-> k]
<1>1. /\ tpc = "send" /\ Len(conn) < ConnLen /\ conn' = Append(conn, e)
      /\ UNCHANGED <<sourceVars, sent, cnt, drained, slice, recvVars, CTRLexit>>
      /\ \/ k = FrameUnits - 1 /\ k' = 0 /\ oldslice' = slice /\ tpc' = "wait"
         \/ k # FrameUnits - 1 /\ k' = k + 1 /\ oldslice' = oldslice /\ tpc' = tpc
  BY DEF Sends, NotTheReceiver, Transmitted, transmitVars
<1>2. PICK n \in Nat : n = Len(sent)
  BY DEF Inv, LinkInv, TypeOK
<1>3. /\ Answers(n) /\ SourceInv /\ drained \in BOOLEAN /\ slice \in Slices /\ oldslice \in Slices
      /\ conn \in Seq(Unit) /\ Len(conn) \in Nat /\ e \in Unit /\ k \in Parts /\ n <= MaxFrames
  <2>1. e = UnitAt(Len(conn) + 1) /\ Len(conn) + 1 \in 1 .. Len(conn) + 1 /\ Len(sent) <= MaxFrames
    BY UnitTypes DEF Inv
  <2> QED  BY <1>2, <2>1, UnitTypes DEF Inv, LinkInv, TypeOK, TransmitTypeOK
<1>4. SourceInv' /\ Answers(n)'
  BY <1>1, <1>3, TransmissionKeeps
<1>5. Answers(Len(sent))'
  BY <1>1, <1>2, <1>4 DEF Answers
<1>6. UNCHANGED <<rpc, recvsize, loopOK, buff, published, CTRLexit>>
  BY <1>1 DEF recvVars
<1>7. /\ conn' \in Seq(Unit) /\ Len(conn') = Len(conn) + 1 /\ conn'[Len(conn) + 1] = e
      /\ \A i \in 1 .. Len(conn) : conn'[i] = conn[i]
  <2> HIDE DEF e
  <2> QED  BY <1>1, <1>3, AppendProperties
<1>8. k' \in Parts
  BY <1>1, <1>3, PartsType
<1>9. TypeOK'
  BY <1>1, <1>3, <1>4, <1>6, <1>7, <1>8, PartsType DEF Inv, LinkInv, TypeOK, SourceInv
<1>10. Grows
  BY <1>1, SameSentGrows
<1>11. \A t : Complete(t) => Complete(t)'
  BY <1>10 DEF Grows, Complete
<1>12. SentInv'
  <2>1. Complete(Len(sent)) /\ Complete(Len(sent))'
    BY <1>1 DEF Inv, LinkInv, SentInv, Complete
  <2>2. \A i \in 1 .. Len(conn') : Complete(conn'[i].tx)
    BY <1>3, <1>7, <2>1 DEF Inv, LinkInv, SentInv
  <2>3. (\A i \in 1 .. Len(conn) : Complete(conn[i].tx))'
    BY <1>11, <2>2
  <2> QED  BY <1>1, <2>1, <2>3 DEF SentInv
<1>13. /\ \A i \in 1 .. Len(conn) + 1 : UnitAt(i)' = UnitAt(i)
       /\ UnitAt(Len(conn) + 1) = e
       /\ (UnitAt(Len(conn) + 1))' = [tx |-> n, part |-> k']
  BY <1>1, <1>2, <1>3, <1>7 DEF UnitAt
<1>14. Contiguous'
  <2>1. ASSUME NEW i \in 1 .. Len(conn) + 1, NEW j \in 1 .. Len(conn) + 1, i <= j
        PROVE  After(UnitAt(i)', UnitAt(j)', j - i)
    BY <1>13, <2>1 DEF Inv, LinkInv, Contiguous
  <2> DEFINE w == [tx |-> n, part |-> k']
  <2>2. w \in Unit
    BY <1>3, <1>8, PartsType DEF Unit
  <2>3. ASSUME NEW i \in 1 .. Len(conn) + 1
        PROVE  After(UnitAt(i)', w, Len(conn) + 2 - i)
    <3>1. /\ UnitAt(i) \in Unit /\ i \in Nat /\ Len(conn) + 1 - i \in Nat
          /\ After(UnitAt(i), e, Len(conn) + 1 - i)
      BY <1>3, <1>13, <2>3, UnitTypes DEF Inv, LinkInv, Contiguous
    <3>2. /\ e.part < FrameUnits - 1 => w.part = e.part + 1 /\ w.tx = e.tx
          /\ e.part = FrameUnits - 1 => w.part = 0
      BY <1>1, <1>2, <1>3, PartsType
    <3>3. After(UnitAt(i), w, (Len(conn) + 1 - i) + 1)
      <4> HIDE DEF e, w
      <4> QED  BY <1>3, <2>2, <3>1, <3>2, AfterNext
    <3>4. (Len(conn) + 1 - i) + 1 = Len(conn) + 2 - i
      BY <1>3, <3>1
    <3> QED  BY <1>13, <3>3, <3>4
  <2>4. After(w, w, 0)
    BY <2>2, AfterItself
  <2> QED  BY <1>3, <1>7, <1>13, <2>1, <2>3, <2>4 DEF Contiguous
<1>15. RecvInv'
  <2>1. ~Closed /\ tpc # "ended"
    BY <1>1 DEF Closed
  <2>2. UnitAt(1)' = UnitAt(1)
    BY <1>3, <1>13
  <2> QED  BY <1>1, <1>10, <2>1, <2>2, RecvKeeps DEF Inv
<1> QED  BY <1>4, <1>5, <1>9, <1>12, <1>14, <1>15 DEF Inv, LinkInv

------------------------------------------------------------------------------
(* One lemma for each step of the receiver.                                *)

(* The receiver may take m units, and leaves the transmitter alone.        *)
LEMMA ReceiverKeepsLink ==
  ASSUME Inv, NotTheTransmitter, NEW m \in 0 .. Len(conn),
         conn' \in Seq(Unit), Len(conn') = Len(conn) - m,
         \A i \in 1 .. Len(conn') : conn'[i] = conn[i + m],
         rpc' \in {"flush", "flushrest", "top", "recv", "ended"},
         recvsize' \in 0 .. FrameUnits, loopOK' \in BOOLEAN, buff' \in [Parts -> Unit],
         published' \in Seq([slot : Slices, parts : [Parts -> Unit]])
  PROVE  /\ LinkInv'
         /\ \A i \in 1 .. Len(conn') + 1 : UnitAt(i)' = UnitAt(i + m)
         /\ \A t : Complete(t) => Complete(t)'
         /\ Closed => Closed'
<1>1. UNCHANGED <<sourceVars, transmitVars, sent, k, CTRLexit>>
  BY DEF NotTheTransmitter, linkVars
<1>2. UNCHANGED <<image, cnt0, cnt1, semval, writing, tpc, cnt, drained, slice, oldslice>>
  BY <1>1 DEF sourceVars, transmitVars
<1>3. Len(conn) \in Nat /\ Len(conn') \in Nat /\ Len(conn') <= Len(conn) /\ conn \in Seq(Unit)
  BY UnitTypes DEF Inv, LinkInv, TypeOK
<1>4. SourceInv' /\ Answers(Len(sent))'
  BY <1>1, <1>2 DEF Inv, LinkInv, SourceInv, ImageInv, TransmitTypeOK, Answers
<1>5. TypeOK'
  BY <1>1, <1>3, <1>4, PartsType DEF Inv, LinkInv, TypeOK, SourceInv
<1>6. \A t : Complete(t) => Complete(t)'
  BY <1>1, <1>2 DEF Complete
<1>7. SentInv'
  <2>1. ASSUME NEW i \in 1 .. Len(conn')  PROVE Complete(conn'[i].tx)
    <3>1. i + m \in 1 .. Len(conn) /\ conn'[i] = conn[i + m]
      BY <1>3, <2>1
    <3> QED  BY <3>1 DEF Inv, LinkInv, SentInv
  <2>2. (\A i \in 1 .. Len(conn) : Complete(conn[i].tx))'
    BY <1>6, <2>1
  <2>3. tpc' = "send" => Complete(Len(sent))'
    BY <1>1, <1>2 DEF Inv, LinkInv, SentInv, Complete
  <2> QED  BY <1>1, <1>2, <2>2, <2>3 DEF Inv, LinkInv, SentInv
<1>8. Contiguous' /\ \A i \in 1 .. Len(conn') + 1 : UnitAt(i)' = UnitAt(i + m)
  BY <1>1, Dropped DEF Inv
<1>9. Closed => Closed'
  <2>1. Closed => Len(conn) = 0
    BY UnitTypes DEF Closed, Inv
  <2>2. ASSUME Len(conn) = 0  PROVE Len(conn') = 0
    <3>1. Len(conn') <= 0 /\ Len(conn') \in Nat
      BY <1>3, <2>2, Zenon
    <3> QED  BY <3>1
  <2>3. Len(conn') = 0 => conn' = <<>>
    BY EmptySeq
  <2> QED  BY <1>2, <2>1, <2>2, <2>3 DEF Closed
<1> QED  BY <1>4, <1>5, <1>6, <1>7, <1>8, <1>9 DEF LinkInv

LEMMA RecvTypes ==
  ASSUME Inv
  PROVE  /\ rpc \in {"flush", "flushrest", "top", "recv", "ended"}
         /\ recvsize \in 0 .. FrameUnits /\ loopOK \in BOOLEAN /\ CTRLexit \in BOOLEAN
         /\ buff \in [Parts -> Unit]
         /\ published \in Seq([slot : Slices, parts : [Parts -> Unit]])
         /\ conn \in Seq(Unit) /\ Len(conn) \in Nat /\ 0 \in 0 .. Len(conn)
         /\ UnitAt(1) \in Unit /\ UnitAt(1).part \in Nat /\ UnitAt(1).part < FrameUnits
         /\ FrameUnits \in Nat /\ FrameUnits > 0 /\ 0 \in 0 .. FrameUnits
<1>1. UnitAt(1) \in Unit
  BY UnitTypes DEF Inv
<1> QED  BY <1>1, PartsType DEF Inv, LinkInv, TypeOK, Unit

LEMMA ReceiverTakesNone ==
  ASSUME Inv, NotTheTransmitter, UNCHANGED conn,
         rpc' \in {"flush", "flushrest", "top", "recv", "ended"},
         recvsize' \in 0 .. FrameUnits, loopOK' \in BOOLEAN, buff' \in [Parts -> Unit],
         published' \in Seq([slot : Slices, parts : [Parts -> Unit]])
  PROVE  /\ LinkInv' /\ UnitAt(1)' = UnitAt(1)
         /\ \A t : Complete(t) => Complete(t)'
         /\ Closed => Closed'
<1>1. /\ conn' \in Seq(Unit) /\ 0 \in 0 .. Len(conn) /\ Len(conn') = Len(conn) - 0
      /\ \A i \in 1 .. Len(conn') : conn'[i] = conn[i + 0]
  BY RecvTypes
<1>2. LinkInv' /\ (\A t : Complete(t) => Complete(t)') /\ (Closed => Closed')
  BY <1>1, ReceiverKeepsLink
<1>3. UnitAt(1)' = UnitAt(1)
  BY DEF UnitAt, NotTheTransmitter, linkVars
<1> QED  BY <1>2, <1>3

(* The frames published stay in place when no more are.                    *)
LEMMA PublishedKeeps ==
  ASSUME Inv, UNCHANGED <<sent, tpc, k, published>>,
         published # <<>> /\ conn = <<>> /\ recvsize = 0 => conn' = <<>> /\ recvsize' = 0
  PROVE  PubInv'
<1>1. ASSUME NEW i \in 1 .. Len(published)
      PROVE  /\ \A p \in Parts : published[i].parts[p].part = p
             /\ InPlace(i)'
             /\ Whole(i)' \/ LastOfAll(i)'
  <2>1. InPlace(i) /\ (Whole(i) \/ LastOfAll(i))
    BY <1>1 DEF Inv, RecvInv, PubInv
  <2>2. InPlace(i)' /\ (Whole(i) => Whole(i)')
    BY <2>1 DEF InPlace, Whole, Complete
  <2>3. published # <<>>
    BY <1>1, EmptySeq, RecvTypes
  <2>4. LastOfAll(i) => LastOfAll(i)'
    BY <2>3 DEF LastOfAll
  <2> QED  BY <1>1, <2>1, <2>2, <2>4 DEF Inv, RecvInv, PubInv
<1> QED  BY <1>1 DEF PubInv

LEMMA FlushStep ==
  ASSUME Inv, Flushes
  PROVE  Inv'
<1> DEFINE size == IF Len(conn) < FrameUnits THEN Len(conn) ELSE FrameUnits
<1>1. /\ rpc = "flush" /\ conn' = SubSeq(conn, size + 1, Len(conn))
      /\ recvsize' = IF size \in 1 .. FrameUnits - 1 THEN FrameUnits - size ELSE 0
      /\ rpc' = IF size = FrameUnits THEN "flush" ELSE IF size = 0 THEN "top" ELSE "flushrest"
      /\ NotTheTransmitter /\ UNCHANGED <<loopOK, buff, published>>
  BY DEF Flushes, FlushRest
<1>2. size \in 0 .. Len(conn) /\ size \in 0 .. FrameUnits /\ Len(conn) \in Nat
  BY RecvTypes
<1>3. /\ conn' \in Seq(Unit) /\ Len(conn') = Len(conn) - size
      /\ \A i \in 1 .. Len(conn') : conn'[i] = conn[i + size]
  <2>1. \A i \in size + 1 .. Len(conn) : conn[i] \in Unit
    BY <1>2, UnitTypes DEF Inv
  <2>2. size + 1 \in Int /\ Len(conn) \in Int
    BY <1>2
  <2> HIDE DEF size
  <2>3. /\ conn' \in Seq(Unit)
        /\ Len(conn') = IF size + 1 <= Len(conn) THEN Len(conn) - (size + 1) + 1 ELSE 0
        /\ \A i \in 1 .. Len(conn) - (size + 1) + 1 : conn'[i] = conn[size + 1 + i - 1]
    BY <1>1, <2>1, <2>2, SubSeqProperties
  <2>4. Len(conn') = Len(conn) - size /\ Len(conn) - (size + 1) + 1 = Len(conn) - size
    BY <1>2, <2>3
  <2>5. ASSUME NEW i \in 1 .. Len(conn')  PROVE conn'[i] = conn[i + size]
    <3>1. i \in 1 .. Len(conn) - (size + 1) + 1 /\ size + 1 + i - 1 = i + size
      BY <1>2, <2>4, <2>5
    <3> QED  BY <2>3, <3>1
  <2> QED  BY <2>3, <2>4, <2>5
<1>4. rpc' \in {"flush", "flushrest", "top"} /\ recvsize' \in 0 .. FrameUnits
  BY <1>1, <1>2, RecvTypes
<1> HIDE DEF size
<1>5. /\ LinkInv' /\ (\A t : Complete(t) => Complete(t)') /\ (Closed => Closed')
      /\ \A i \in 1 .. Len(conn') + 1 : UnitAt(i)' = UnitAt(i + size)
  BY <1>1, <1>2, <1>3, <1>4, RecvTypes, ReceiverKeepsLink
<1>6. UnitAt(1)' = UnitAt(size + 1)
  BY <1>2, <1>3, <1>5
<1>7. recvsize = 0 /\ published = <<>>
  BY <1>1 DEF Inv, RecvInv, BuffInv
<1>8. Aligned'
  <2>1. CASE Closed
    <3>1. Len(conn) = 0
      BY <2>1, UnitTypes DEF Closed, Inv
    <3>2. size = 0
      BY <1>2, <3>1
    <3> QED  BY <1>1, <1>5, <2>1, <3>2 DEF Aligned
  <2>2. CASE ~Closed
    <3>1. UnitAt(1).part = 0
      BY <1>1, <1>7, <2>2, RecvTypes DEF Inv, RecvInv, Aligned, Expected
    <3>2. After(UnitAt(1), UnitAt(size + 1), size)
      <4>1. 1 \in 1 .. Len(conn) + 1 /\ size + 1 \in 1 .. Len(conn) + 1 /\ (size + 1) - 1 = size
        BY <1>2
      <4> QED  BY <4>1 DEF Inv, LinkInv, Contiguous
    <3>3. UnitAt(size + 1).part = IF size = FrameUnits THEN 0 ELSE size
      BY <1>2, <3>1, <3>2, RecvTypes DEF After
    <3>4. Expected' = IF size = FrameUnits THEN 0 ELSE size
      BY <1>1, <1>2, RecvTypes DEF Expected
    <3> QED  BY <1>6, <3>3, <3>4 DEF Aligned
  <2> QED  BY <2>1, <2>2
<1>9. BuffInv'
  <2>1. rpc' = "flush" \/ rpc' = "top" => recvsize' = 0
    BY <1>1, <1>2, RecvTypes
  <2> QED  BY <1>1, <1>4, <1>5, <1>7, <2>1 DEF Inv, RecvInv, BuffInv
<1>10. PubInv'
  BY <1>1, <1>5, <1>7, PublishedKeeps DEF NotTheTransmitter, linkVars, transmitVars
<1> QED  BY <1>5, <1>8, <1>9, <1>10 DEF Inv, RecvInv

LEMMA FlushRestStep ==
  ASSUME Inv, FlushesRest
  PROVE  Inv'
<1>1. rpc = "flushrest" /\ NotTheTransmitter /\ UNCHANGED <<loopOK, buff, published>>
  BY DEF FlushesRest
<1>2. UNCHANGED <<sent, tpc, k>>
  BY <1>1 DEF NotTheTransmitter, linkVars, transmitVars
<1>3. published = <<>>
  BY <1>1 DEF Inv, RecvInv, BuffInv
<1>4. CASE (recvsize = 0 \/ Closed) /\ rpc' = "top" /\ recvsize' = 0 /\ UNCHANGED conn
  <2>1. /\ LinkInv' /\ (\A t : Complete(t) => Complete(t)') /\ (Closed => Closed')
        /\ UnitAt(1)' = UnitAt(1)
    BY <1>1, <1>4, RecvTypes, ReceiverTakesNone
  <2>3. Aligned'
    BY <1>1, <1>4, <2>1, RecvTypes DEF Inv, RecvInv, Aligned, Expected
  <2>4. BuffInv'
    BY <1>1, <1>4, <2>1 DEF Inv, RecvInv, BuffInv
  <2>5. PubInv'
    BY <1>1, <1>2, <1>3, <2>1, PublishedKeeps
  <2> QED  BY <2>1, <2>3, <2>4, <2>5 DEF Inv, RecvInv
<1>5. CASE /\ recvsize # 0 /\ ~Closed /\ conn # <<>> /\ conn' = Tail(conn)
           /\ recvsize' = recvsize - 1 /\ UNCHANGED rpc
  <2>1. /\ conn' \in Seq(Unit) /\ Len(conn') = Len(conn) - 1 /\ Len(conn) \in Nat \ {0}
        /\ \A i \in 1 .. Len(conn') : conn'[i] = conn[i + 1]
        /\ UnitAt(1)' = UnitAt(2) /\ UnitAt(2) \in Unit /\ UnitAt(1) \in Unit
        /\ After(UnitAt(1), UnitAt(2), 1)
    BY <1>2, <1>5, TailDropped DEF Inv
  <2>2. recvsize \in 1 .. FrameUnits /\ recvsize' \in 0 .. FrameUnits /\ 1 \in 0 .. Len(conn)
    BY <1>5, <2>1, RecvTypes
  <2>3. LinkInv' /\ (\A t : Complete(t) => Complete(t)')
    BY <1>1, <1>5, <2>1, <2>2, RecvTypes, ReceiverKeepsLink
  <2>4. UnitAt(1).part = FrameUnits - recvsize
    BY <1>1, <1>5, <2>2, RecvTypes DEF Inv, RecvInv, Aligned, Expected
  <2>5. UnitAt(2).part = IF recvsize = 1 THEN 0 ELSE FrameUnits - recvsize + 1
    BY <2>1, <2>2, <2>4, RecvTypes DEF After
  <2>6. Expected' = IF recvsize = 1 THEN 0 ELSE FrameUnits - recvsize + 1
    BY <1>1, <1>5, <2>2, RecvTypes DEF Expected
  <2>7. Aligned'
    BY <2>1, <2>5, <2>6 DEF Aligned
  <2>8. BuffInv'
    BY <1>1, <1>5, <2>3 DEF Inv, RecvInv, BuffInv
  <2>9. PubInv'
    BY <1>1, <1>2, <1>3, <2>3, PublishedKeeps
  <2> QED  BY <2>3, <2>7, <2>8, <2>9 DEF Inv, RecvInv
<1> QED  BY <1>4, <1>5 DEF FlushesRest

LEMMA BeginStep ==
  ASSUME Inv, BeginsIteration
  PROVE  Inv'
<1>1. /\ rpc = "top" /\ rpc' = "recv" /\ loopOK' = ~CTRLexit
      /\ NotTheTransmitter /\ UNCHANGED <<conn, recvsize, buff, published>>
  BY DEF BeginsIteration
<1>2. UNCHANGED <<sent, tpc, k>>
  BY <1>1 DEF NotTheTransmitter, linkVars, transmitVars
<1>3. loopOK' \in BOOLEAN
  BY <1>1
<1>4. /\ LinkInv' /\ (\A t : Complete(t) => Complete(t)') /\ (Closed => Closed')
      /\ UnitAt(1)' = UnitAt(1)
  BY <1>1, <1>3, RecvTypes, ReceiverTakesNone
<1>6. recvsize = 0
  BY <1>1 DEF Inv, RecvInv, BuffInv
<1>7. Aligned'
  BY <1>1, <1>4 DEF Inv, RecvInv, Aligned, Expected
<1>8. BuffInv'
  BY <1>1, <1>4, <1>6, RecvTypes DEF Inv, RecvInv, BuffInv
<1>9. PubInv'
  BY <1>1, <1>2, <1>4, PublishedKeeps
<1> QED  BY <1>4, <1>7, <1>8, <1>9 DEF Inv, RecvInv

LEMMA ReceiveStep ==
  ASSUME Inv, Receives
  PROVE  Inv'
<1>1. /\ rpc = "recv" /\ ~ReceivedAll /\ conn # <<>> /\ conn' = Tail(conn)
      /\ buff' = [buff EXCEPT ![recvsize] = Head(conn)] /\ recvsize' = recvsize + 1
      /\ NotTheTransmitter /\ UNCHANGED <<rpc, loopOK, published>>
  BY DEF Receives
<1>2. UNCHANGED <<sent, tpc, k>>
  BY <1>1 DEF NotTheTransmitter, linkVars, transmitVars
<1>3. /\ conn' \in Seq(Unit) /\ Len(conn') = Len(conn) - 1 /\ Len(conn) \in Nat \ {0}
      /\ \A i \in 1 .. Len(conn') : conn'[i] = conn[i + 1]
      /\ Head(conn) = UnitAt(1) /\ Head(conn) = conn[1]
      /\ UnitAt(1)' = UnitAt(2) /\ UnitAt(2) \in Unit /\ UnitAt(1) \in Unit
      /\ After(UnitAt(1), UnitAt(2), 1)
  BY <1>1, <1>2, TailDropped DEF Inv
<1>4. /\ recvsize \in 0 .. FrameUnits - 1 /\ recvsize \in Parts /\ recvsize' \in 0 .. FrameUnits
      /\ 1 \in 0 .. Len(conn)
  BY <1>1, <1>3, RecvTypes, PartsType DEF ReceivedAll
<1>5. /\ buff' \in [Parts -> Unit]
      /\ \A p \in Parts : buff'[p] = IF p = recvsize THEN UnitAt(1) ELSE buff[p]
  BY <1>1, <1>3, <1>4, RecvTypes
<1>6. LinkInv' /\ (\A t : Complete(t) => Complete(t)')
  BY <1>1, <1>3, <1>4, <1>5, RecvTypes, ReceiverKeepsLink
<1>7. UnitAt(1).part = recvsize
  <2>1. ~Closed
    BY <1>1 DEF Closed
  <2> QED  BY <1>1, <1>4, <2>1, RecvTypes DEF Inv, RecvInv, Aligned, Expected
<1>8. UnitAt(2).part = IF recvsize = FrameUnits - 1 THEN 0 ELSE recvsize + 1
  BY <1>3, <1>4, <1>7, RecvTypes DEF After
<1>9. recvsize # FrameUnits - 1 => UnitAt(2).tx = UnitAt(1).tx
  BY <1>3, <1>4, <1>7, RecvTypes DEF After
<1>10. Aligned'
  <2>1. Expected' = IF recvsize = FrameUnits - 1 THEN 0 ELSE recvsize + 1
    <3>1. recvsize' = FrameUnits <=> recvsize = FrameUnits - 1
      <4>1. recvsize \in Int /\ FrameUnits \in Int
        BY <1>4, RecvTypes
      <4>2. recvsize + 1 = FrameUnits <=> recvsize = FrameUnits - 1
        BY <4>1, OneMore, Zenon
      <4> QED  BY <1>1, <4>2
    <3> QED  BY <1>1, <3>1 DEF Expected
  <2> QED  BY <1>3, <1>8, <2>1 DEF Aligned
<1>11. Complete(UnitAt(1).tx)
  <2>1. 1 \in 1 .. Len(conn)
    BY <1>3
  <2> QED  BY <1>3, <2>1 DEF Inv, LinkInv, SentInv
<1>12. BuffInv'
  <2>1. (\A p \in Parts : buff[p].part = p /\ (buff[p].tx = 0 \/ Complete(buff[p].tx)))'
    <3>1. ASSUME NEW p \in Parts
          PROVE  (buff[p].part = p /\ (buff[p].tx = 0 \/ Complete(buff[p].tx)))'
      <4>1. buff'[p].part = p /\ (buff'[p].tx = 0 \/ Complete(buff'[p].tx))
        BY <1>5, <1>7, <1>11 DEF Inv, RecvInv, BuffInv
      <4> QED  BY <1>2, <4>1 DEF Complete
    <3> QED  BY <3>1
  <2>2. buff'[0].tx = IF recvsize = 0 THEN UnitAt(1).tx ELSE buff[0].tx
    BY <1>5, PartsType
  <2>3. Complete(buff'[0].tx)
    BY <1>1, <1>4, <1>11, <2>2 DEF Inv, RecvInv, BuffInv
  <2>4. Complete(buff[0].tx)'
    BY <1>6, <2>3
  <2>5. recvsize # 0 => UnitAt(1).tx = buff[0].tx
    BY <1>1, <1>4 DEF Inv, RecvInv, BuffInv
  <2>6. ASSUME NEW p \in 0 .. recvsize  PROVE buff'[p].tx = buff'[0].tx
    <3>1. p \in Parts
      BY <1>4, <2>6, PartsType
    <3>2. CASE p = recvsize
      BY <1>5, <2>2, <2>5, <3>1, <3>2
    <3>3. CASE p # recvsize
      <4>1. p \in 0 .. recvsize - 1 /\ recvsize # 0
        BY <1>4, <2>6, <3>3
      <4> QED  BY <1>1, <1>5, <2>2, <3>1, <3>3, <4>1 DEF Inv, RecvInv, BuffInv
    <3> QED  BY <3>2, <3>3
  <2>7. recvsize' \in 1 .. FrameUnits - 1 => UnitAt(1)'.tx = buff'[0].tx
    BY <1>1, <1>3, <1>4, <1>9, <2>2, <2>5
  <2>8. 0 .. recvsize' - 1 = 0 .. recvsize
    BY <1>1, <1>4
  <2> QED  BY <1>1, <2>1, <2>4, <2>6, <2>7, <2>8 DEF BuffInv
<1>13. PubInv'
  BY <1>1, <1>2, <1>6, PublishedKeeps
<1> QED  BY <1>6, <1>10, <1>12, <1>13 DEF Inv, RecvInv

LEMMA NothingStep ==
  ASSUME Inv, ReceivesNothing
  PROVE  Inv'
<1>1. /\ rpc = "recv" /\ rpc' = "ended" /\ Closed /\ recvsize = 0
      /\ NotTheTransmitter /\ UNCHANGED <<conn, recvsize, loopOK, buff, published>>
  BY DEF ReceivesNothing
<1>2. UNCHANGED <<sent, tpc, k>>
  BY <1>1 DEF NotTheTransmitter, linkVars, transmitVars
<1>3. /\ LinkInv' /\ (\A t : Complete(t) => Complete(t)') /\ Closed'
  BY <1>1, RecvTypes, ReceiverTakesNone
<1>4. Aligned' /\ BuffInv'
  BY <1>1, <1>3 DEF Inv, RecvInv, Aligned, BuffInv
<1>5. PubInv'
  BY <1>1, <1>2, <1>3, PublishedKeeps
<1> QED  BY <1>3, <1>4, <1>5 DEF Inv, RecvInv

LEMMA PublishStep ==
  ASSUME Inv, Publishes
  PROVE  Inv'
<1> DEFINE pub == [slot |-> Slot(buff[Trailer].tx), parts |-> buff]
<1>1. /\ rpc = "recv" /\ ReceivedAll /\ published' = Append(published, pub)
      /\ recvsize' = 0 /\ rpc' \in {"top", "ended"}
      /\ NotTheTransmitter /\ UNCHANGED <<conn, loopOK, buff>>
  BY DEF Publishes
<1>2. UNCHANGED <<sent, tpc, k>>
  BY <1>1 DEF NotTheTransmitter, linkVars, transmitVars
<1>3. sent \in Seq([slice : Slices, frame : 0 .. MaxFrames]) /\ Len(sent) \in Nat
  BY DEF Inv, LinkInv, TypeOK
<1>4. recvsize > 0 /\ recvsize \in Nat /\ Complete(buff[0].tx)
  BY <1>1, RecvTypes DEF ReceivedAll, Inv, RecvInv, BuffInv
<1>5. /\ buff \in [Parts -> Unit]
      /\ \A p \in Parts : buff[p].part = p /\ (buff[p].tx = 0 \/ Complete(buff[p].tx))
  BY RecvTypes DEF Inv, RecvInv, BuffInv
<1>6. pub \in [slot : Slices, parts : [Parts -> Unit]]
  <2>1. buff[Trailer].tx = 0 \/ buff[Trailer].tx \in 1 .. Len(sent)
    BY <1>5, PartsType DEF Complete
  <2>2. \A t \in 1 .. Len(sent) : sent[t].slice \in Slices
    <3>1. \A t \in 1 .. Len(sent) : sent[t] \in [slice : Slices, frame : 0 .. MaxFrames]
      BY <1>3, ElementOfSeq
    <3> QED  BY <3>1
  <2>3. 0 \in Slices
    BY TransmitAssumption DEF Slices
  <2>4. Slot(buff[Trailer].tx) \in Slices
    BY <2>1, <2>2, <2>3 DEF Slot
  <2> QED  BY <1>5, <2>4
<1>7. /\ published' \in Seq([slot : Slices, parts : [Parts -> Unit]])
      /\ Len(published') = Len(published) + 1 /\ published'[Len(published) + 1] = pub
      /\ \A i \in 1 .. Len(published) : published'[i] = published[i]
      /\ Len(published) \in Nat
  <2> HIDE DEF pub
  <2> QED  BY <1>1, <1>6, RecvTypes, AppendProperties
<1>8. /\ LinkInv' /\ (\A t : Complete(t) => Complete(t)') /\ (Closed => Closed')
      /\ UnitAt(1)' = UnitAt(1)
  BY <1>1, <1>7, RecvTypes, ReceiverTakesNone
<1>9. Aligned'
  <2>1. CASE recvsize = FrameUnits
    <3>1. UnitAt(1).part = 0
      BY <1>1, <1>4, <2>1, RecvTypes DEF Inv, RecvInv, Aligned, Expected
    <3>2. Expected' = 0
      BY <1>1, RecvTypes DEF Expected
    <3> QED  BY <1>8, <3>1, <3>2 DEF Aligned
  <2>2. CASE Closed
    BY <1>1, <1>8, <2>2 DEF Aligned
  <2> QED  BY <1>1, <2>1, <2>2 DEF ReceivedAll
<1>10. BuffInv'
  BY <1>1, <1>5, <1>8 DEF BuffInv
<1>11. \A p \in Parts : pub.parts[p].part = p
  BY <1>5
<1>12. ASSUME NEW i \in 1 .. Len(published'), i = Len(published) + 1
      PROVE  InPlace(i)' /\ (Whole(i)' \/ LastOfAll(i)')
  <2>1. published'[i].parts = buff /\ published'[i].slot = Slot(buff[Trailer].tx)
    BY <1>7, <1>12
  <2>2. ASSUME buff[Trailer].tx = buff[0].tx
        PROVE  /\ Complete(buff[Trailer].tx)
               /\ Slot(buff[Trailer].tx) = sent[buff[Trailer].tx].slice
    <3>1. Complete(buff[Trailer].tx)
      BY <1>4, <2>2
    <3>2. buff[Trailer].tx # 0
      BY <1>3, <3>1 DEF Complete
    <3> QED  BY <3>1, <3>2 DEF Slot
  <2>3. InPlace(i)'
    <3> SUFFICES ASSUME Whole(i)'
                 PROVE  /\ Complete(published[i].parts[Trailer].tx)'
                        /\ published'[i].slot = sent'[published'[i].parts[Trailer].tx].slice
      BY DEF InPlace
    <3>1. buff[0].tx = buff[Trailer].tx
      <4>1. buff[0] = [tx |-> buff[Trailer].tx, part |-> 0]
        BY <2>1, PartsType DEF Whole
      <4> QED  BY <4>1
    <3> QED  BY <1>2, <2>1, <2>2, <3>1 DEF Complete
  <2>4. CASE recvsize = FrameUnits
    <3>1. \A p \in Parts : p \in 0 .. recvsize - 1
      BY <2>4, PartsType
    <3>2. \A p \in Parts : buff[p].tx = buff[0].tx
      BY <1>1, <3>1 DEF Inv, RecvInv, BuffInv
    <3>3. \A p \in Parts : buff[p].tx = buff[Trailer].tx
      BY <3>2, PartsType
    <3>4. \A p \in Parts : buff[p] = [tx |-> buff[Trailer].tx, part |-> p]
      BY <1>5, <3>3 DEF Unit
    <3> QED  BY <2>1, <2>3, <3>4 DEF Whole
  <2>5. CASE recvsize # FrameUnits
    <3>1. Closed /\ recvsize \in 1 .. FrameUnits - 1 /\ conn = <<>>
      BY <1>1, <1>4, <2>5, RecvTypes DEF ReceivedAll, Closed
    <3>2. UnitAt(1).part = k
      BY <3>1, EmptySeq DEF UnitAt
    <3>3. k = recvsize
      BY <1>1, <3>1, <3>2, RecvTypes DEF Inv, RecvInv, Aligned, Expected
    <3> QED  BY <1>1, <1>2, <1>7, <1>12, <2>3, <3>1, <3>3 DEF LastOfAll, Closed
  <2> QED  BY <2>4, <2>5
<1>13. ASSUME NEW i \in 1 .. Len(published)  PROVE InPlace(i)' /\ Whole(i)'
  <2>1. ~LastOfAll(i)
    BY <1>4 DEF LastOfAll
  <2>2. InPlace(i) /\ Whole(i) /\ published'[i] = published[i]
    BY <1>7, <1>13, <2>1 DEF Inv, RecvInv, PubInv
  <2> QED  BY <1>2, <2>2 DEF InPlace, Whole, Complete
<1>14. \A i \in 1 .. Len(published') : \A p \in Parts : published'[i].parts[p].part = p
  BY <1>7, <1>11 DEF Inv, RecvInv, PubInv
<1>15. PubInv'
  BY <1>7, <1>12, <1>13, <1>14 DEF PubInv
<1> QED  BY <1>8, <1>9, <1>10, <1>15 DEF Inv, RecvInv

LEMMA ExitStep ==
  ASSUME Inv, AsksForExit
  PROVE  Inv'
<1>1. /\ CTRLexit' \in BOOLEAN
      /\ UNCHANGED <<sourceVars, transmitVars, linkVars, conn, recvVars>>
  BY DEF AsksForExit
<1>2. UNCHANGED <<image, cnt0, cnt1, semval, writing, tpc, cnt, drained, slice, oldslice, sent>>
  BY <1>1 DEF sourceVars, transmitVars, linkVars
<1>3. SourceInv' /\ Answers(Len(sent))'
  BY <1>2 DEF Inv, LinkInv, SourceInv, ImageInv, TransmitTypeOK, Answers
<1>4. k # 0 => tpc \in {"send", "ended"}
  BY DEF Inv, LinkInv, SentInv
<1> QED  BY <1>1, <1>2, <1>3, <1>4, QuietKeeps

LEMMA StutterStep ==
  ASSUME Inv, UNCHANGED vars
  PROVE  Inv'
<1>1. /\ UNCHANGED <<image, cnt0, cnt1, semval, writing, tpc, cnt, drained, slice, oldslice>>
      /\ UNCHANGED <<sent, linkVars, conn, recvVars, CTRLexit>>
  BY DEF vars, sourceVars, transmitVars, linkVars
<1>2. SourceInv' /\ Answers(Len(sent))' /\ CTRLexit' \in BOOLEAN
  BY <1>1 DEF Inv, LinkInv, TypeOK, SourceInv, ImageInv, TransmitTypeOK, Answers
<1>3. k # 0 => tpc \in {"send", "ended"}
  BY DEF Inv, LinkInv, SentInv
<1> QED  BY <1>1, <1>2, <1>3, QuietKeeps

------------------------------------------------------------------------------
LEMMA InitInv == Init => Inv
<1> SUFFICES ASSUME Init  PROVE Inv
  OBVIOUS
<1>1. TransmitInit /\ sent = <<>> /\ k = 0 /\ conn = <<>> /\ rpc = "flush" /\ recvsize = 0
      /\ loopOK = TRUE /\ CTRLexit = FALSE /\ published = <<>>
      /\ buff = [p \in Parts |-> [tx |-> 0, part |-> p]]
  BY DEF Init
<1>2. SourceInv /\ Answers(0) /\ tpc = "wait"
  BY <1>1, InitSource DEF TransmitInit
<1>3. Len(sent) = 0 /\ Len(conn) = 0 /\ Len(published) = 0
  BY <1>1
<1>4. Answers(Len(sent))
  BY <1>2, <1>3
<1>5. \A p \in Parts : [tx |-> 0, part |-> p] \in Unit
  BY TransmitAssumption DEF Unit
<1>6. buff \in [Parts -> Unit] /\ \A p \in Parts : buff[p].part = p /\ buff[p].tx = 0
  BY <1>1, <1>5
<1>7. TypeOK
  <2>1. conn \in Seq(Unit) /\ Len(conn) <= ConnLen
    BY <1>1, <1>3, EmptySeq, PartsType
  <2>2. sent \in Seq([slice : Slices, frame : 0 .. MaxFrames])
    BY <1>1
  <2>3. published \in Seq([slot : Slices, parts : [Parts -> Unit]])
    BY <1>1
  <2>4. TransmitTypeOK /\ loopOK \in BOOLEAN /\ CTRLexit \in BOOLEAN
    BY <1>1, <1>2 DEF SourceInv
  <2>5. k \in Parts /\ recvsize \in 0 .. FrameUnits /\ rpc = "flush"
    BY <1>1, PartsType
  <2> QED  BY <1>6, <2>1, <2>2, <2>3, <2>4, <2>5 DEF TypeOK
<1>8. SentInv
  BY <1>1, <1>2, <1>3 DEF SentInv
<1>9. UnitAt(1) = [tx |-> 0, part |-> 0]
  BY <1>1, <1>3 DEF UnitAt
<1>10. Contiguous
  BY <1>3, <1>9, PartsType DEF Contiguous, After
<1>11. Aligned
  BY <1>1, <1>9, PartsType DEF Aligned, Expected
<1>12. BuffInv
  BY <1>1, <1>6 DEF BuffInv
<1>13. PubInv
  BY <1>3 DEF PubInv
<1> QED  BY <1>2, <1>4, <1>7, <1>8, <1>10, <1>11, <1>12, <1>13 DEF Inv, LinkInv, RecvInv

LEMMA NextInv == Inv /\ [Next]_vars => Inv'
<1> SUFFICES ASSUME Inv, [Next]_vars  PROVE Inv'
  OBVIOUS
<1>1. CASE Writer /\ UNCHANGED <<linkVars, conn, recvVars, CTRLexit>>
  BY <1>1, WriterStep
<1>2. CASE Transmitter \/ TransmitterStops
  BY <1>2, WaitStep, PickStep, CopyStep, SendStep, StopStep DEF Transmitter
<1>3. CASE Receiver
  BY <1>3, FlushStep, FlushRestStep, BeginStep, ReceiveStep, NothingStep, PublishStep
  DEF Receiver
<1>4. CASE AsksForExit
  BY <1>4, ExitStep
<1>5. CASE UNCHANGED vars
  BY <1>5, StutterStep
<1> QED  BY <1>1, <1>2, <1>3, <1>4, <1>5 DEF Next

(* The link and the receiver's socket stay as their invariants say.        *)
THEOREM Invariance == Spec => []Inv
BY InitInv, NextInv, PTL DEF Spec

(* Type correctness; a transmission is one of the MaxFrames frames, as the *)
(* transmitter sends no more than it was woken for.                        *)
THEOREM TypeCorrect == Spec => []TypeOK
<1>1. Inv => TypeOK
  BY DEF Inv, LinkInv
<1> QED  BY <1>1, Invariance, PTL

(* The receiver never loses its place in the byte stream, wherever the     *)
(* frames it threw away ended and wherever the transmitter died.           *)
THEOREM FramesWhole == Spec => []PublishedWhole
<1>1. Inv => PublishedWhole
  BY DEF Inv, RecvInv, PubInv, LastOfAll, PublishedWhole
<1> QED  BY <1>1, Invariance, PTL

(* A whole frame goes to the slice it was read from: the trailer names it, *)
(* and what the slice held when it was copied belongs there.               *)
THEOREM FramesInPlace == Spec => []SlicesInPlace
<1>1. ASSUME Inv, NEW i \in 1 .. Len(published), Whole(i)
      PROVE  published[i].slot = Frame(i) % NBslices
  BY <1>1 DEF Inv, RecvInv, PubInv, InPlace, Complete, Frame
<1>2. Inv => SlicesInPlace
  BY <1>1 DEF SlicesInPlace
<1> QED  BY <1>2, Invariance, PTL


------------------------------------------------------------------------------
(* Frames come one after the other: a unit that ends a frame is followed   *)
(* by one of the next transmission, in the connection, from what was read  *)
(* to the connection, and from what was published to what was read.        *)

(* The transmission of the unit to be sent next, and of those to be read.  *)
NextTx == IF tpc \in {"data", "send"} THEN Len(sent) ELSE Len(sent) + 1
TxAt(j) == IF j <= Len(conn) THEN conn[j].tx ELSE NextTx

InTurn(u, t) == t = IF u.part = Trailer THEN u.tx + 1 ELSE u.tx
ConnOrder ==
  \A j \in 1 .. Len(conn) : (j = Len(conn) /\ tpc = "ended") \/ InTurn(conn[j], TxAt(j + 1))

LastTx == published[Len(published)].parts[Trailer].tx
ReadOrder == rpc = "recv" /\ recvsize = FrameUnits => Closed \/ TxAt(1) = buff[0].tx + 1
FrameOrder ==
  rpc \in {"top", "recv"} /\ published # <<>> =>
    IF recvsize = 0 THEN Closed \/ TxAt(1) = LastTx + 1 ELSE buff[0].tx = LastTx + 1

OrderInv == ConnOrder /\ ReadOrder /\ FrameOrder

(* A step that neither sends nor receives.                                 *)
LEMMA OrderWaits ==
  ASSUME Inv, OrderInv, UNCHANGED <<conn, recvVars>>,
         tpc' = "ended" \/ (tpc # "ended" /\ NextTx' = NextTx)
  PROVE  OrderInv'
<1>1. UNCHANGED <<rpc, recvsize, buff, published>> /\ LastTx' = LastTx
  BY DEF recvVars, LastTx
<1>2. Len(conn) \in Nat /\ (conn = <<>> <=> Len(conn) = 0)
  BY UnitTypes DEF Inv
<1>3. \A j \in 1 .. Len(conn) : TxAt(j)' = TxAt(j)
  BY DEF TxAt
<1>4. ASSUME NEW j \in Nat, j = Len(conn) + 1, tpc' # "ended"  PROVE TxAt(j)' = TxAt(j)
  BY <1>2, <1>4 DEF TxAt
<1>5. ConnOrder'
  <2>1. ASSUME NEW j \in 1 .. Len(conn), ~(j = Len(conn) /\ tpc' = "ended")
        PROVE  InTurn(conn[j], TxAt(j + 1)')
    <3>1. InTurn(conn[j], TxAt(j + 1))
      BY <2>1 DEF OrderInv, ConnOrder
    <3>2. j + 1 \in Nat /\ (j = Len(conn) \/ j + 1 \in 1 .. Len(conn))
      BY <1>2
    <3>3. TxAt(j + 1)' = TxAt(j + 1)
      BY <1>3, <1>4, <2>1, <3>2
    <3> QED  BY <3>1, <3>3
  <2> QED  BY <2>1 DEF ConnOrder, InTurn
<1>6. Closed => Closed'
  BY DEF Closed
<1>7. Closed' \/ TxAt(1)' = TxAt(1)
  <2>1. 1 = Len(conn) + 1 \/ 1 \in 1 .. Len(conn)
    BY <1>2
  <2> QED  BY <1>2, <1>3, <1>4, <2>1 DEF Closed
<1>8. ReadOrder' /\ FrameOrder'
  BY <1>1, <1>6, <1>7 DEF OrderInv, ReadOrder, FrameOrder
<1> QED  BY <1>5, <1>8 DEF OrderInv

LEMMA OrderSends ==
  ASSUME Inv, OrderInv, Sends
  PROVE  OrderInv'
<1> DEFINE e == [tx |-> Len(sent), part |-> k]
<1>1. /\ tpc = "send" /\ tpc' \in {"send", "wait"} /\ conn' = Append(conn, e) /\ UNCHANGED sent
      /\ tpc' = IF k = FrameUnits - 1 THEN "wait" ELSE "send"
      /\ UNCHANGED <<rpc, recvsize, buff, published>> /\ LastTx' = LastTx
  BY DEF Sends, NotTheReceiver, recvVars, Transmitted, transmitVars, LastTx
<1>2. /\ conn \in Seq(Unit) /\ Len(conn) \in Nat /\ e \in Unit
      /\ k \in Nat /\ FrameUnits \in Nat /\ Len(sent) \in Nat
  <2>1. e = UnitAt(Len(conn) + 1) /\ Len(conn) + 1 \in 1 .. Len(conn) + 1
    BY UnitTypes DEF Inv
  <2>2. k \in Parts
    BY DEF Inv, LinkInv, TypeOK
  <2> QED  BY <2>1, <2>2, UnitTypes, PartsType DEF Inv, LinkInv, TypeOK
<1>3. /\ Len(conn') = Len(conn) + 1 /\ conn'[Len(conn) + 1] = e
      /\ \A i \in 1 .. Len(conn) : conn'[i] = conn[i]
  <2> HIDE DEF e
  <2> QED  BY <1>1, <1>2, AppendProperties
<1>4. \A j \in 1 .. Len(conn) + 1 : TxAt(j)' = TxAt(j)
  <2>1. NextTx = e.tx
    BY <1>1 DEF NextTx
  <2>2. ASSUME NEW j \in 1 .. Len(conn) + 1  PROVE TxAt(j)' = TxAt(j)
    BY <1>2, <1>3, <2>1 DEF TxAt
  <2> QED  BY <2>2
<1>5. InTurn(e, NextTx')
  BY <1>1, <1>2 DEF NextTx, InTurn, Trailer
<1>6. ConnOrder'
  <2>1. ASSUME NEW j \in 1 .. Len(conn) + 1  PROVE InTurn(conn'[j], TxAt(j + 1)')
    <3>1. CASE j = Len(conn) + 1
      <4>1. conn'[j] = e /\ ~(j + 1 <= Len(conn'))
        BY <1>2, <1>3, <3>1
      <4>2. TxAt(j + 1)' = NextTx'
        BY <4>1 DEF TxAt
      <4> QED  BY <1>5, <4>1, <4>2
    <3>2. CASE j # Len(conn) + 1
      <4>1. j \in 1 .. Len(conn) /\ j + 1 \in 1 .. Len(conn) + 1
        BY <1>2, <3>2
      <4>2. InTurn(conn[j], TxAt(j + 1))
        BY <1>1, <4>1 DEF OrderInv, ConnOrder
      <4>3. conn'[j] = conn[j] /\ TxAt(j + 1)' = TxAt(j + 1)
        BY <1>3, <1>4, <4>1
      <4> QED  BY <4>2, <4>3
    <3> QED  BY <3>1, <3>2
  <2> QED  BY <1>3, <2>1 DEF ConnOrder, InTurn
<1>7. TxAt(1)' = TxAt(1) /\ ~Closed
  BY <1>1, <1>2, <1>4 DEF Closed
<1>8. ReadOrder' /\ FrameOrder'
  BY <1>1, <1>7 DEF OrderInv, ReadOrder, FrameOrder
<1> QED  BY <1>6, <1>8 DEF OrderInv

(* The receiver takes m units.                                             *)
LEMMA OrderDropped ==
  ASSUME Inv, OrderInv, UNCHANGED <<sent, tpc>>, NEW m \in 0 .. Len(conn), Len(conn') = Len(conn) - m,
         \A i \in 1 .. Len(conn') : conn'[i] = conn[i + m]
  PROVE  ConnOrder' /\ TxAt(1)' = TxAt(m + 1)
<1>1. Len(conn) \in Nat /\ m \in Nat /\ Len(conn') \in Nat /\ NextTx' = NextTx
  BY UnitTypes DEF Inv, NextTx
<1>2. \A i \in 1 .. Len(conn') + 1 : TxAt(i)' = TxAt(i + m)
  BY <1>1 DEF TxAt
<1>3. ASSUME NEW j \in 1 .. Len(conn'), ~(j = Len(conn') /\ tpc = "ended")
      PROVE  InTurn(conn'[j], TxAt(j + 1)')
  <2>1. /\ j + m \in 1 .. Len(conn) /\ ~(j + m = Len(conn) /\ tpc = "ended")
        /\ j + 1 \in 1 .. Len(conn') + 1 /\ (j + 1) + m = (j + m) + 1
    BY <1>1, <1>3
  <2>2. InTurn(conn[j + m], TxAt((j + m) + 1))
    BY <2>1 DEF OrderInv, ConnOrder
  <2>3. TxAt(j + 1)' = TxAt((j + 1) + m)
    BY <1>2, <2>1
  <2> QED  BY <2>1, <2>2, <2>3
<1>4. TxAt(1)' = TxAt(m + 1)
  <2>1. 1 \in 1 .. Len(conn') + 1 /\ 1 + m = m + 1
    BY <1>1
  <2> QED  BY <1>2, <2>1
<1> QED  BY <1>3, <1>4 DEF ConnOrder, InTurn

LEMMA OrderTakesNone ==
  ASSUME Inv, OrderInv, UNCHANGED <<sent, tpc, conn>>
  PROVE  ConnOrder' /\ TxAt(1)' = TxAt(1) /\ Closed' = Closed
<1>1. Len(conn) \in Nat /\ 0 \in 0 .. Len(conn) /\ Len(conn') = Len(conn) - 0
  BY UnitTypes DEF Inv
<1>2. \A i \in 1 .. Len(conn') : conn'[i] = conn[i + 0]
  OBVIOUS
<1>3. ConnOrder' /\ TxAt(1)' = TxAt(0 + 1)
  BY <1>1, <1>2, OrderDropped
<1> QED  BY <1>3 DEF Closed

(* What is thrown away comes before anything is received or published.     *)
LEMMA OrderFlushes ==
  ASSUME Inv, OrderInv, Flushes \/ FlushesRest
  PROVE  OrderInv'
<1>1. /\ rpc \in {"flush", "flushrest"} /\ rpc' \in {"flush", "flushrest", "top"}
      /\ UNCHANGED <<sent, tpc, published>>
  BY DEF Flushes, FlushesRest, NotTheTransmitter, linkVars, transmitVars
<1>2. published = <<>>
  BY <1>1 DEF Inv, RecvInv, BuffInv
<1>3. PICK m \in 0 .. Len(conn) : /\ Len(conn') = Len(conn) - m
                                  /\ \A i \in 1 .. Len(conn') : conn'[i] = conn[i + m]
  <2>1. CASE Flushes
    <3> DEFINE size == IF Len(conn) < FrameUnits THEN Len(conn) ELSE FrameUnits
    <3>1. conn' = SubSeq(conn, size + 1, Len(conn))
      BY <2>1 DEF Flushes
    <3>2. size \in 0 .. Len(conn) /\ Len(conn) \in Nat
      BY RecvTypes
    <3>3. \A i \in size + 1 .. Len(conn) : conn[i] \in Unit
      BY <3>2, UnitTypes DEF Inv
    <3>4. size + 1 \in Int /\ Len(conn) \in Int
      BY <3>2
    <3> HIDE DEF size
    <3>5. /\ Len(conn') = IF size + 1 <= Len(conn) THEN Len(conn) - (size + 1) + 1 ELSE 0
          /\ \A i \in 1 .. Len(conn) - (size + 1) + 1 : conn'[i] = conn[size + 1 + i - 1]
      BY <3>1, <3>3, <3>4, SubSeqProperties
    <3>6. Len(conn') = Len(conn) - size /\ Len(conn) - (size + 1) + 1 = Len(conn) - size
      BY <3>2, <3>5
    <3>7. ASSUME NEW i \in 1 .. Len(conn')  PROVE conn'[i] = conn[i + size]
      <4>1. i \in 1 .. Len(conn) - (size + 1) + 1 /\ size + 1 + i - 1 = i + size
        BY <3>2, <3>6, <3>7
      <4> QED  BY <3>5, <4>1
    <3> QED  BY <3>2, <3>6, <3>7
  <2>2. CASE UNCHANGED conn
    <3>1. 0 \in 0 .. Len(conn) /\ Len(conn') = Len(conn) - 0
      BY <2>2, RecvTypes
    <3>2. \A i \in 1 .. Len(conn') : conn'[i] = conn[i + 0]
      BY <2>2
    <3> QED  BY <3>1, <3>2
  <2>3. CASE conn # <<>> /\ conn' = Tail(conn)
    <3>1. UNCHANGED <<sent, k>>
      BY DEF Flushes, FlushesRest, NotTheTransmitter, linkVars
    <3>2. /\ Len(conn') = Len(conn) - 1 /\ Len(conn) \in Nat \ {0}
          /\ \A i \in 1 .. Len(conn') : conn'[i] = conn[i + 1]
      BY <2>3, <3>1, TailDropped DEF Inv
    <3>3. 1 \in 0 .. Len(conn)
      BY <3>2
    <3> QED  BY <3>2, <3>3
  <2> QED  BY <2>1, <2>2, <2>3 DEF FlushesRest
<1>4. ConnOrder'
  BY <1>1, <1>3, OrderDropped
<1> QED  BY <1>1, <1>2, <1>4 DEF OrderInv, ReadOrder, FrameOrder

LEMMA OrderBegins ==
  ASSUME Inv, OrderInv, BeginsIteration \/ ReceivesNothing
  PROVE  OrderInv'
<1>1. /\ rpc \in {"top", "recv"} /\ UNCHANGED <<sent, tpc, conn, recvsize, buff, published>>
      /\ LastTx' = LastTx /\ rpc' \in {"recv", "ended"} /\ recvsize = 0
  BY DEF BeginsIteration, ReceivesNothing, NotTheTransmitter, linkVars, transmitVars, LastTx,
         Inv, RecvInv, BuffInv
<1>2. ConnOrder' /\ TxAt(1)' = TxAt(1) /\ Closed' = Closed
  BY <1>1, OrderTakesNone
<1>3. FrameUnits # 0
  BY PartsType
<1> QED  BY <1>1, <1>2, <1>3 DEF OrderInv, ReadOrder, FrameOrder

LEMMA OrderReceives ==
  ASSUME Inv, Inv', OrderInv, Receives
  PROVE  OrderInv'
<1>1. /\ rpc = "recv" /\ ~ReceivedAll /\ conn # <<>> /\ conn' = Tail(conn)
      /\ buff' = [buff EXCEPT ![recvsize] = Head(conn)] /\ recvsize' = recvsize + 1
      /\ UNCHANGED <<sent, k, tpc, rpc, published>> /\ LastTx' = LastTx
  BY DEF Receives, NotTheTransmitter, linkVars, transmitVars, LastTx
<1>2. /\ Len(conn') = Len(conn) - 1 /\ Len(conn) \in Nat \ {0}
      /\ \A i \in 1 .. Len(conn') : conn'[i] = conn[i + 1]
      /\ Head(conn) = UnitAt(1) /\ Head(conn) = conn[1] /\ 1 \in 0 .. Len(conn)
  <2>1. /\ Len(conn') = Len(conn) - 1 /\ Len(conn) \in Nat \ {0}
        /\ \A i \in 1 .. Len(conn') : conn'[i] = conn[i + 1]
        /\ Head(conn) = UnitAt(1) /\ Head(conn) = conn[1]
    BY <1>1, TailDropped DEF Inv
  <2> QED  BY <2>1
<1>3. ConnOrder' /\ TxAt(1)' = TxAt(2)
  <2>1. ConnOrder' /\ TxAt(1)' = TxAt(1 + 1)
    BY <1>1, <1>2, OrderDropped
  <2> QED  BY <2>1
<1>4. ~Closed /\ TxAt(1) = conn[1].tx
  BY <1>1, <1>2 DEF Closed, TxAt
<1>5. recvsize \in 0 .. FrameUnits - 1 /\ recvsize \in Parts /\ FrameUnits \in Nat /\ FrameUnits > 0
  BY <1>1, <1>2, RecvTypes, PartsType DEF ReceivedAll
<1>6. /\ \A p \in Parts : buff'[p] = IF p = recvsize THEN conn[1] ELSE buff[p]
      /\ 0 \in Parts
  BY <1>1, <1>2, <1>5, RecvTypes, PartsType
<1>7. FrameOrder'
  <2> SUFFICES ASSUME published # <<>>  PROVE buff'[0].tx = LastTx + 1
    BY <1>1, <1>5 DEF FrameOrder
  <2>1. CASE recvsize = 0
    BY <1>1, <1>4, <1>6, <2>1 DEF OrderInv, FrameOrder
  <2>2. CASE recvsize # 0
    BY <1>1, <1>6, <2>2 DEF OrderInv, FrameOrder
  <2> QED  BY <2>1, <2>2
<1>8. ReadOrder'
  <2> SUFFICES ASSUME recvsize' = FrameUnits, ~Closed'
               PROVE  TxAt(2) = buff'[0].tx + 1
    BY <1>3 DEF ReadOrder
  <2>1. recvsize = Trailer
    BY <1>1, <1>5 DEF Trailer
  <2>2. conn[1].part = Trailer /\ buff'[0].tx = conn[1].tx
    <3>1. recvsize \in 0 .. recvsize' - 1 /\ buff'[recvsize] = conn[1]
      BY <1>1, <1>5, <1>6
    <3>2. buff'[recvsize].tx = buff'[0].tx /\ buff'[recvsize].part = recvsize
      BY <1>1, <1>5, <3>1 DEF Inv, RecvInv, BuffInv
    <3> QED  BY <2>1, <3>1, <3>2
  <2>3. ~(1 = Len(conn) /\ tpc = "ended")
    <3>1. 1 = Len(conn) => conn' = <<>>
      <4>1. ASSUME 1 = Len(conn)  PROVE Len(conn') = 0
        <5>1. Len(conn') = 1 - 1
          BY <1>2, <4>1
        <5> QED  BY <5>1
      <4> QED  BY <4>1, UnitTypes DEF Inv
    <3> QED  BY <1>1, <3>1 DEF Closed
  <2>4. InTurn(conn[1], TxAt(2))
    <3>1. 1 \in 1 .. Len(conn) /\ 1 + 1 = 2
      BY <1>2
    <3>2. InTurn(conn[1], TxAt(1 + 1))
      BY <2>3, <3>1 DEF OrderInv, ConnOrder
    <3> QED  BY <3>1, <3>2
  <2> QED  BY <2>2, <2>4 DEF InTurn
<1> QED  BY <1>3, <1>7, <1>8 DEF OrderInv

(* What a step of publishing adds.                                         *)
LEMMA PublishedType ==
  ASSUME Inv, Inv', Publishes
  PROVE  /\ Len(published) \in Nat /\ Len(published') = Len(published) + 1
         /\ published'[Len(published')] = [slot |-> Slot(buff[Trailer].tx), parts |-> buff]
         /\ \A i \in 1 .. Len(published) : published'[i] = published[i]
<1> DEFINE pub == [slot |-> Slot(buff[Trailer].tx), parts |-> buff]
<1>1. published' = Append(published, pub)
  BY DEF Publishes
<1>2. Len(published) \in Nat
  BY RecvTypes
<1> HIDE DEF pub
<1>3. /\ Len(published') = Len(published) + 1 /\ published'[Len(published) + 1] = pub
      /\ \A i \in 1 .. Len(published) : published'[i] = published[i]
  BY <1>1, <1>2, RecvTypes
<1> QED  BY <1>2, <1>3 DEF pub

LEMMA OrderPublishes ==
  ASSUME Inv, Inv', OrderInv, Publishes
  PROVE  OrderInv'
<1>1. /\ rpc = "recv" /\ ReceivedAll /\ recvsize' = 0 /\ rpc' \in {"top", "ended"}
      /\ UNCHANGED <<sent, tpc, conn, buff>>
  BY DEF Publishes, NotTheTransmitter, linkVars, transmitVars
<1>2. ConnOrder' /\ TxAt(1)' = TxAt(1) /\ Closed' = Closed
  BY <1>1, OrderTakesNone
<1>3. LastTx' = buff[Trailer].tx
  BY PublishedType DEF LastTx
<1>4. FrameOrder'
  <2> SUFFICES ASSUME ~Closed  PROVE TxAt(1) = LastTx' + 1
    BY <1>1, <1>2 DEF FrameOrder
  <2>1. recvsize = FrameUnits
    BY <1>1 DEF ReceivedAll
  <2>2. Trailer \in 0 .. recvsize - 1
    BY <2>1, PartsType DEF Trailer
  <2>3. buff[Trailer].tx = buff[0].tx
    BY <1>1, <2>2 DEF Inv, RecvInv, BuffInv
  <2> QED  BY <1>1, <1>3, <2>1, <2>3 DEF OrderInv, ReadOrder
<1> QED  BY <1>1, <1>2, <1>4 DEF OrderInv, ReadOrder

LEMMA OrderInit == Init => OrderInv
BY DEF Init, TransmitInit, OrderInv, ConnOrder, ReadOrder, FrameOrder

LEMMA OrderStep == Inv /\ Inv' /\ OrderInv /\ [Next]_vars => OrderInv'
<1> SUFFICES ASSUME Inv, Inv', OrderInv, [Next]_vars  PROVE OrderInv'
  OBVIOUS
<1>1. CASE Writer /\ UNCHANGED <<linkVars, conn, recvVars, CTRLexit>>
  <2>1. UNCHANGED <<tpc, sent, conn, recvVars>>
    BY <1>1 DEF Writer, WriterWrites, WriterPublishes, transmitVars, linkVars
  <2> QED  BY <2>1, OrderWaits DEF NextTx
<1>2. CASE (Wakes \/ WaitTimesOut) /\ NotTheReceiver /\ UNCHANGED <<linkVars, conn>>
  <2>1. tpc = "wait" /\ tpc' \in {"wait", "slice"} /\ UNCHANGED <<sent, conn, recvVars>>
    BY <1>2 DEF Wakes, WaitTimesOut, NotTheReceiver, linkVars
  <2> QED  BY <2>1, OrderWaits DEF NextTx
<1>3. CASE PicksSlice
  <2> DEFINE e == [slice |-> slice', frame |-> 0]
  <2>1. /\ tpc = "slice" /\ tpc' = "data" /\ sent' = Append(sent, e)
        /\ UNCHANGED <<conn, recvVars>>
    BY <1>3 DEF PicksSlice, NotTheReceiver, TrailerSlice
  <2> HIDE DEF e
  <2>2. sent \in Seq([slice : Slices, frame : 0 .. MaxFrames]) /\ Len(sent) \in Nat
    BY DEF Inv, LinkInv, TypeOK
  <2>3. Len(sent') = Len(sent) + 1
    BY <2>1, <2>2
  <2> QED  BY <2>1, <2>3, OrderWaits DEF NextTx
<1>4. CASE CopiesData
  <2>1. /\ tpc = "data" /\ tpc' = "send" /\ UNCHANGED <<conn, recvVars>>
        /\ sent' = [sent EXCEPT ![Len(sent)].frame = image[slice]]
    BY <1>4 DEF CopiesData, NotTheReceiver
  <2>2. sent \in Seq([slice : Slices, frame : 0 .. MaxFrames])
    BY DEF Inv, LinkInv, TypeOK
  <2>3. Len(sent') = Len(sent)
    BY <2>1, <2>2
  <2> QED  BY <2>1, <2>3, OrderWaits DEF NextTx
<1>5. CASE SendFails \/ TransmitterStops
  <2>1. tpc' = "ended" /\ UNCHANGED <<conn, recvVars>>
    BY <1>5 DEF SendFails, TransmitterStops, NotTheReceiver
  <2> QED  BY <2>1, OrderWaits
<1>6. CASE Sends
  BY <1>6, OrderSends
<1>7. CASE Receiver
  BY <1>7, OrderFlushes, OrderBegins, OrderReceives, OrderPublishes DEF Receiver
<1>8. CASE AsksForExit \/ UNCHANGED vars
  <2>1. UNCHANGED <<tpc, sent, conn, recvVars>>
    BY <1>8 DEF AsksForExit, vars, transmitVars, linkVars
  <2> QED  BY <2>1, OrderWaits DEF NextTx
<1> QED  BY <1>1, <1>2, <1>3, <1>4, <1>5, <1>6, <1>7, <1>8 DEF Next, Transmitter


------------------------------------------------------------------------------
(* The link implements the relay.                                          *)

LEMMA SameDelivered ==
  ASSUME UNCHANGED published
  PROVE  Delivered' = Delivered
BY DEF Delivered, NbWhole, Whole

LEMMA SameNamed ==
  ASSUME UNCHANGED sent
  PROVE  Named' = Named
BY DEF Named

LEMMA PicksTransmits ==
  ASSUME Inv, Inv', PicksSlice
  PROVE  Relay!Next
<1> DEFINE e == [slice |-> slice', frame |-> 0]
<1>1. sent' = Append(sent, e) /\ UNCHANGED published
  BY DEF PicksSlice, TrailerSlice, NotTheReceiver, recvVars
<1>2. sent \in Seq([slice : Slices, frame : 0 .. MaxFrames])
  BY DEF Inv, LinkInv, TypeOK
<1>3. slice' \in Slices
  BY DEF Inv, LinkInv, TypeOK, TransmitTypeOK
<1>4. PICK n \in Nat : n = Len(sent)
  BY <1>2
<1>5. /\ Len(sent') = n + 1 /\ sent'[n + 1] = e
      /\ \A t \in 1 .. n : sent'[t] = sent[t]
  <2> HIDE DEF e
  <2> QED  BY <1>1, <1>2, <1>4
<1>6. Named' = Append(Named, slice')
  <2>1. Named = [t \in 1 .. n |-> sent[t].slice]
    BY <1>4 DEF Named
  <2>2. Named = [t \in 1 .. n |-> Named[t]]
    BY <2>1
  <2>3. Append(Named, slice') = [t \in 1 .. n + 1 |-> IF t = n + 1 THEN slice' ELSE Named[t]]
    BY <2>2, AppendedTo
  <2>4. Named' = [t \in 1 .. n + 1 |-> sent'[t].slice]
    BY <1>5 DEF Named
  <2>5. \A t \in 1 .. n + 1 : sent'[t].slice = IF t = n + 1 THEN slice' ELSE Named[t]
    <3>1. ASSUME NEW t \in 1 .. n + 1, t # n + 1
          PROVE  t \in 1 .. n
      BY <3>1
    <3> QED  BY <1>5, <2>1, <3>1
  <2> QED  BY <2>3, <2>4, <2>5
<1>7. Relay!Transmit(slice')
  BY <1>1, <1>6, SameDelivered DEF Relay!Transmit
<1> QED  BY <1>3, <1>7 DEF Relay!Next

LEMMA CopiesNamesNone ==
  ASSUME Inv, CopiesData
  PROVE  Named' = Named
<1>1. sent' = [sent EXCEPT ![Len(sent)].frame = image[slice]]
  BY DEF CopiesData
<1>2. sent \in Seq([slice : Slices, frame : 0 .. MaxFrames])
  BY DEF Inv, LinkInv, TypeOK
<1>3. PICK n \in Nat : n = Len(sent)
  BY <1>2
<1>4. Len(sent') = n
  BY <1>1, <1>2, <1>3
<1>5. \A t \in 1 .. n : sent'[t].slice = sent[t].slice
  <2>1. ASSUME NEW t \in 1 .. n  PROVE sent'[t].slice = sent[t].slice
    <3>1. sent[t] \in [slice : Slices, frame : 0 .. MaxFrames]
      BY <1>2, <1>3, ElementOfSeq
    <3>2. sent'[t] = IF t = n THEN [sent[n] EXCEPT !.frame = image[slice]] ELSE sent[t]
      BY <1>1, <1>2, <1>3
    <3> QED  BY <3>1, <3>2
  <2> QED  BY <2>1
<1>6. Named = [t \in 1 .. n |-> sent[t].slice] /\ Named' = [t \in 1 .. n |-> sent'[t].slice]
  BY <1>3, <1>4 DEF Named
<1> QED  BY <1>5, <1>6

(* All that was published is whole when a frame is.                        *)
LEMMA DeliveredIsPublished ==
  ASSUME Inv, \A i \in 1 .. Len(published) : ~LastOfAll(i)
  PROVE  /\ NbWhole = Len(published)
         /\ Delivered = [i \in 1 .. Len(published) |->
                           [tx |-> published[i].parts[Trailer].tx, slot |-> published[i].slot]]
<1>1. Len(published) \in Nat /\ published # <<>> => Len(published) \in 1 .. Len(published)
  BY EmptySeq, RecvTypes
<1>2. published # <<>> => Whole(Len(published))
  BY <1>1, RecvTypes DEF Inv, RecvInv, PubInv
<1>3. NbWhole = Len(published)
  BY <1>2 DEF NbWhole
<1> QED  BY <1>3 DEF Delivered

LEMMA PublishesDelivers ==
  ASSUME Inv, Inv', OrderInv, Publishes
  PROVE  Relay!Next \/ UNCHANGED Relay!vars
<1> DEFINE T == buff[Trailer].tx
<1>1. /\ rpc = "recv" /\ ReceivedAll /\ UNCHANGED <<sent, buff>>
  BY DEF Publishes, NotTheTransmitter, linkVars
<1>2. recvsize \in Nat /\ recvsize > 0 /\ Complete(buff[0].tx)
  BY <1>1, RecvTypes DEF ReceivedAll, Inv, RecvInv, BuffInv
<1>3. \A i \in 1 .. Len(published) : ~LastOfAll(i)
  BY <1>2 DEF LastOfAll
<1>4. PICK n \in Nat : n = Len(published)
  BY RecvTypes
<1>5. /\ Len(published') = n + 1
      /\ published'[n + 1] = [slot |-> Slot(T), parts |-> buff]
      /\ \A i \in 1 .. n : published'[i] = published[i]
  BY <1>4, PublishedType
<1>6. /\ published' # <<>> /\ (published = <<>> <=> n = 0)
  <2>1. published' \in Seq([slot : Slices, parts : [Parts -> Unit]])
    BY RecvTypes, PublishedType DEF Inv, LinkInv, TypeOK
  <2> QED  BY <1>4, <1>5, <2>1, EmptySeq, RecvTypes
<1>7. Delivered = [i \in 1 .. n |->
                     [tx |-> published[i].parts[Trailer].tx, slot |-> published[i].slot]]
  BY <1>3, <1>4, DeliveredIsPublished
<1>8. Named' = Named
  BY <1>1, SameNamed
<1>9. Whole(n + 1)' <=> \A p \in Parts : buff[p] = [tx |-> T, part |-> p]
  BY <1>5 DEF Whole
<1>10. CASE ~Whole(n + 1)'
  <2>1. NbWhole' = n
    BY <1>5, <1>6, <1>10 DEF NbWhole
  <2>2. Delivered' = [i \in 1 .. n |->
                        [tx |-> published'[i].parts[Trailer].tx, slot |-> published'[i].slot]]
    BY <2>1 DEF Delivered
  <2>3. Delivered' = Delivered
    BY <1>5, <1>7, <2>2
  <2> QED  BY <1>8, <2>3 DEF Relay!vars
<1>11. CASE Whole(n + 1)'
  <2>1. NbWhole' = n + 1
    BY <1>5, <1>6, <1>11 DEF NbWhole
  <2>2. Delivered' = [i \in 1 .. n + 1 |->
                        [tx |-> published'[i].parts[Trailer].tx, slot |-> published'[i].slot]]
    BY <2>1 DEF Delivered
  <2>3. T = buff[0].tx /\ Complete(T)
    <3>1. buff[0] = [tx |-> T, part |-> 0]
      BY <1>9, <1>11, PartsType
    <3> QED  BY <1>2, <3>1
  <2>4. Slot(T) = Named[T] /\ T \in 1 .. Len(sent)
    <3>1. T \in 1 .. Len(sent) /\ T # 0
      BY <2>3 DEF Complete
    <3> QED  BY <3>1 DEF Slot, Named
  <2> DEFINE d == [tx |-> T, slot |-> Named[T]]
  <2>5. Len(Delivered) = n /\ (n > 0 => Delivered[n].tx = LastTx) /\ (Delivered # <<>> => n > 0)
    <3>1. n > 0 => n \in 1 .. n
      OBVIOUS
    <3>2. n > 0 => Delivered[n].tx = LastTx
      BY <1>4, <1>7, <3>1 DEF LastTx
    <3>3. n = 0 => Delivered = <<>>
      BY <1>7
    <3> QED  BY <1>7, <3>2, <3>3
  <2>6. Delivered' = Append(Delivered, d)
    <3>1. Append(Delivered, d) = [i \in 1 .. n + 1 |-> IF i = n + 1 THEN d ELSE Delivered[i]]
      <4>1. Delivered = [i \in 1 .. n |-> Delivered[i]]
        BY <1>7
      <4> HIDE DEF d
      <4> QED  BY <4>1, AppendedTo
    <3>2. ASSUME NEW i \in 1 .. n + 1
          PROVE  [tx |-> published'[i].parts[Trailer].tx, slot |-> published'[i].slot]
                   = IF i = n + 1 THEN d ELSE Delivered[i]
      <4>1. CASE i = n + 1
        BY <1>5, <2>4, <4>1
      <4>2. CASE i # n + 1
        <5>1. i \in 1 .. n
          BY <4>2
        <5> QED  BY <1>5, <1>7, <4>2, <5>1
      <4> QED  BY <4>1, <4>2
    <3> HIDE DEF d
    <3> QED  BY <2>2, <3>1, <3>2
  <2>7. Relay!IsNext(T)
    <3>1. n > 0 => buff[0].tx = LastTx + 1
      BY <1>1, <1>2, <1>6 DEF OrderInv, FrameOrder
    <3> QED  BY <2>3, <2>5, <3>1 DEF Relay!IsNext
  <2>8. Relay!Deliver(T)
    BY <1>8, <2>6, <2>7 DEF Relay!Deliver
  <2>9. Len(Named) = Len(sent)
    <3>1. Len(sent) \in Nat
      BY DEF Inv, LinkInv, TypeOK
    <3> QED  BY <3>1 DEF Named
  <2> QED  BY <2>4, <2>8, <2>9 DEF Relay!Next
<1> QED  BY <1>10, <1>11

LEMMA RelayInit == Init => Relay!Init
<1> SUFFICES ASSUME Init  PROVE Named = <<>> /\ Delivered = <<>>
  BY DEF Relay!Init
<1>1. sent = <<>> /\ published = <<>>
  BY DEF Init
<1>2. Len(sent) = 0 /\ NbWhole = 0
  BY <1>1 DEF NbWhole
<1> QED  BY <1>2 DEF Named, Delivered

LEMMA RelayStep ==
  ASSUME Inv, Inv', OrderInv, [Next]_vars
  PROVE  [Relay!Next]_Relay!vars
<1>1. CASE UNCHANGED <<sent, published>>
  BY <1>1, SameNamed, SameDelivered DEF Relay!vars
<1>2. CASE PicksSlice
  BY <1>2, PicksTransmits
<1>3. CASE CopiesData
  <2>1. UNCHANGED published
    BY <1>3 DEF CopiesData, NotTheReceiver, recvVars
  <2> QED  BY <1>3, <2>1, CopiesNamesNone, SameDelivered DEF Relay!vars
<1>4. CASE Publishes
  BY <1>4, PublishesDelivers
<1>5. CASE (Writer \/ Wakes \/ WaitTimesOut) /\ UNCHANGED <<linkVars, recvVars>>
  BY <1>1, <1>5 DEF linkVars, recvVars
<1>6. CASE Sends \/ SendFails \/ TransmitterStops \/ AsksForExit \/ UNCHANGED vars
  BY <1>1, <1>6
  DEF Sends, SendFails, TransmitterStops, AsksForExit, NotTheReceiver, vars, linkVars, recvVars
<1>7. CASE Flushes \/ FlushesRest \/ BeginsIteration \/ Receives \/ ReceivesNothing
  BY <1>1, <1>7
  DEF Flushes, FlushesRest, BeginsIteration, Receives, ReceivesNothing, NotTheTransmitter, linkVars
<1> QED  BY <1>2, <1>3, <1>4, <1>5, <1>6, <1>7 DEF Next, Transmitter, Receiver, NotTheReceiver

(* A TCP link delivers every frame that is transmitted once it has begun,  *)
(* once, in order and in the slice it was read from: recvTCP waits for     *)
(* whole frames, before the loop and in it.                                *)
THEOREM LinkImplementsRelay == Spec => ImplementsRelay
<1>1. Inv /\ Inv' /\ OrderInv /\ [Next]_vars => OrderInv'
  BY OrderStep
<1>2. Inv /\ Inv' /\ OrderInv /\ [Next]_vars => [Relay!Next]_Relay!vars
  BY RelayStep
<1> QED  BY <1>1, <1>2, OrderInit, RelayInit, Invariance, PTL DEF Spec, ImplementsRelay, Relay!Spec
=============================================================================
