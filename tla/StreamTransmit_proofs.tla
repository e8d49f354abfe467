------------------------ MODULE StreamTransmit_proofs ------------------------
(***************************************************************************)
(* What the two network links may assume of the stream and of its          *)
(* transmitter, whatever they send: where the frames are, and that no more *)
(* is sent than was written.                                               *)
(***************************************************************************)
EXTENDS StreamTransmit, TLAPS, SequenceTheorems

(* A slice holds a frame that belongs there, unless none was written there *)
(* yet, and the next frame is where it belongs before it is counted.       *)
ImageInv ==
  /\ \A s \in Slices : image[s] % NBslices = s \/ cnt0 < s
  /\ writing => cnt0 < MaxFrames /\ image[(cnt0 + 1) % NBslices] = cnt0 + 1

SourceInv == TransmitTypeOK /\ ImageInv /\ cnt1 <= cnt0 /\ cnt <= cnt0

(* n transmissions, and the one that is due, are not more than the frames  *)
(* the transmitter was woken for: those posted and taken, or the counter.  *)
Answers(n) ==
  /\ UseSem => n + semval <= cnt0 /\ (tpc = "slice" => n + semval < cnt0)
  /\ ~UseSem => n <= cnt /\ (tpc = "slice" => n < cnt)

------------------------------------------------------------------------------
LEMMA SliceOf ==
  ASSUME NEW n \in Nat
  PROVE  n % NBslices \in Slices /\ n % NBslices <= n
<1>1. NBslices \in Nat /\ NBslices > 0
  BY TransmitAssumption
<1> QED  BY <1>1 DEF Slices

LEMMA SliceOfSlice ==
  ASSUME NEW s \in Slices
  PROVE  s \in Nat /\ s % NBslices = s
<1>1. NBslices \in Nat /\ NBslices > 0 /\ s \in Nat /\ s < NBslices
  BY TransmitAssumption DEF Slices
<1> QED  BY <1>1

(* One post more is covered by one frame more; one taken is due.           *)
LEMMA PostsCovered ==
  ASSUME NEW n \in Int, NEW s \in Int, NEW ss \in Int, NEW c \in Int, NEW cc \in Int,
         cc = c + 1, ss <= s + 1
  PROVE  (n + s <= c => n + ss <= cc) /\ (n + s < c => n + ss < cc)
  OBVIOUS

LEMMA PostTaken ==
  ASSUME NEW n \in Int, NEW s \in Int, NEW ss \in Int, NEW c \in Int,
         ss < s, n + s <= c
  PROVE  n + ss < c /\ n + ss <= c
  OBVIOUS

LEMMA InitSource == TransmitInit => SourceInv /\ Answers(0)
<1> SUFFICES ASSUME TransmitInit  PROVE SourceInv /\ Answers(0)
  OBVIOUS
<1>1. 0 \in Slices /\ 0 % NBslices = 0
  BY TransmitAssumption, SliceOf DEF Slices
<1>2. \A s \in Slices : image[s] % NBslices = s \/ cnt0 < s
  BY <1>1 DEF TransmitInit, Slices
<1>3. TransmitTypeOK
  <2>1. /\ image \in [Slices -> 0 .. MaxFrames]
        /\ cnt0 \in 0 .. MaxFrames /\ cnt1 \in Slices /\ cnt \in 0 .. MaxFrames
        /\ semval \in 0 .. SEMAPHORE_MAXVAL /\ slice \in Slices /\ oldslice \in Slices
    BY <1>1, TransmitAssumption DEF TransmitInit
  <2>2. writing \in BOOLEAN /\ drained \in BOOLEAN /\ tpc = "wait"
    BY DEF TransmitInit
  <2> QED  BY <2>1, <2>2 DEF TransmitTypeOK
<1>4. ImageInv /\ cnt1 <= cnt0 /\ cnt <= cnt0
  BY <1>2 DEF TransmitInit, ImageInv
<1>5. Answers(0)
  BY TransmitAssumption DEF TransmitInit, Answers
<1> QED  BY <1>3, <1>4, <1>5 DEF SourceInv

(* The writer keeps every slice for the frames that belong there.          *)
LEMMA WriterKeeps ==
  ASSUME SourceInv, Writer, NEW n \in Nat, Answers(n)
  PROVE  /\ SourceInv' /\ Answers(n)'
         /\ \A s \in Slices : image[s] % NBslices = s => image'[s] % NBslices = s
<1> USE TransmitAssumption DEF SourceInv, TransmitTypeOK
<1>1. cnt0 + 1 \in Nat /\ (cnt0 + 1) % NBslices \in Slices /\ (cnt0 + 1) % NBslices <= cnt0 + 1
  BY SliceOf
<1>2. CASE WriterWrites
  <2>1. /\ image' = [image EXCEPT ![(cnt0 + 1) % NBslices] = cnt0 + 1]
        /\ cnt0 + 1 \in 0 .. MaxFrames /\ writing' = TRUE
        /\ UNCHANGED <<cnt0, cnt1, semval, transmitVars>>
    BY <1>2, TransmitAssumption DEF WriterWrites
  <2>2. \A s \in Slices :
          image'[s] = IF s = (cnt0 + 1) % NBslices THEN cnt0 + 1 ELSE image[s]
    BY <1>1, <2>1
  <2>3. image' \in [Slices -> 0 .. MaxFrames]
    BY <1>1, <2>1
  <2>4. ImageInv'
    <3>1. (\A s \in Slices : image[s] % NBslices = s \/ cnt0 < s)'
      BY <1>1, <2>1, <2>2 DEF ImageInv
    <3>2. image'[(cnt0 + 1) % NBslices] = cnt0 + 1
      BY <1>1, <2>2
    <3> QED  BY <2>1, <3>1, <3>2, <1>2 DEF ImageInv, WriterWrites
  <2>5. Answers(n)'
    BY <2>1 DEF transmitVars, Answers
  <2>6. \A s \in Slices : image[s] % NBslices = s => image'[s] % NBslices = s
    BY <1>1, <2>2
  <2> QED  BY <2>1, <2>3, <2>4, <2>5, <2>6 DEF transmitVars
<1>3. CASE WriterPublishes
  <2>1. /\ writing /\ writing' = FALSE /\ cnt0' = cnt0 + 1 /\ cnt1' = (cnt0 + 1) % NBslices
        /\ semval' \in 0 .. SEMAPHORE_MAXVAL /\ semval' <= semval + 1
        /\ UNCHANGED <<image, transmitVars>>
    BY <1>3, TransmitAssumption DEF WriterPublishes
  <2>2. cnt0' \in 0 .. MaxFrames
    BY <2>1, TransmitAssumption DEF ImageInv
  <2>3. ImageInv'
    <3>1. ASSUME NEW s \in Slices, ~(image[s] % NBslices = s)  PROVE cnt0 + 1 < s
      <4>1. s \in Nat /\ cnt0 < s
        BY <3>1 DEF ImageInv, Slices
      <4>2. s # cnt0 + 1
        <5> SUFFICES ASSUME s = cnt0 + 1  PROVE FALSE
          OBVIOUS
        <5>1. s % NBslices = s
          BY SliceOfSlice
        <5>2. image[s] = s
          BY <2>1, <5>1 DEF ImageInv
        <5> QED  BY <3>1, <5>1, <5>2
      <4> QED  BY <4>1, <4>2
    <3> QED  BY <2>1, <3>1 DEF ImageInv
  <2>4. Answers(n)'
    <3>1. /\ semval \in Int /\ semval' \in Int /\ cnt0 \in Int /\ cnt0' \in Int
          /\ n \in Int /\ cnt \in Int
          /\ cnt0' = cnt0 + 1 /\ semval' <= semval + 1 /\ cnt' = cnt /\ tpc' = tpc
      BY <2>1 DEF transmitVars
    <3> HIDE DEF SourceInv
    <3>2. CASE UseSem
      <4>1. /\ n + semval <= cnt0 => n + semval' <= cnt0'
            /\ n + semval < cnt0 => n + semval' < cnt0'
        BY <3>1, PostsCovered, Zenon
      <4> QED  BY <3>1, <3>2, <4>1, Zenon DEF Answers
    <3>3. CASE ~UseSem
      BY <3>1, <3>3 DEF Answers
    <3> QED  BY <3>2, <3>3
  <2>5. cnt1' \in Slices /\ cnt1' <= cnt0' /\ cnt' <= cnt0'
    BY <1>1, <2>1 DEF transmitVars
  <2>6. TransmitTypeOK'
    BY <2>1, <2>2, <2>5 DEF transmitVars
  <2> QED  BY <2>1, <2>3, <2>4, <2>5, <2>6
<1> QED  BY <1>2, <1>3 DEF Writer

(* The transmitter that waits leaves the slices alone, and a wake-up is    *)
(* another frame written.                                                  *)
LEMMA WaitKeeps ==
  ASSUME SourceInv, Wakes \/ WaitTimesOut, NEW n \in Nat, Answers(n)
  PROVE  SourceInv' /\ Answers(n)'
<1> USE TransmitAssumption DEF SourceInv, TransmitTypeOK
<1>1. /\ UNCHANGED <<image, cnt0, cnt1, writing, slice, oldslice>>
      /\ tpc = "wait" /\ tpc' \in {"wait", "slice"} /\ drained' \in BOOLEAN
      /\ semval' \in 0 .. semval /\ cnt' \in {cnt, cnt0}
  <2>1. CASE Wakes /\ UseSem
    <3>1. /\ semval > 0 /\ semval' \in {semval - 1, 0} /\ drained' = TRUE /\ cnt' = cnt
      BY <2>1, Zenon DEF Wakes
    <3> QED  BY <2>1, <3>1 DEF Wakes
  <2>2. CASE Wakes /\ ~UseSem
    BY <2>2 DEF Wakes
  <2>3. CASE WaitTimesOut
    BY <2>3 DEF WaitTimesOut
  <2> QED  BY <2>1, <2>2, <2>3
<1>2. semval' \in 0 .. SEMAPHORE_MAXVAL
  BY <1>1, TransmitAssumption
<1>3. ImageInv'
  BY <1>1 DEF ImageInv
<1>4. Answers(n)'
  <2>1. CASE Wakes /\ UseSem
    <3>1. semval' \in {semval - 1, 0} /\ semval > 0 /\ cnt0' = cnt0
      BY <2>1, Zenon DEF Wakes
    <3>2. semval \in Int /\ semval' \in Int /\ cnt0 \in Int /\ n \in Int /\ semval' < semval
      BY <3>1
    <3>3. n + semval' < cnt0' /\ n + semval' <= cnt0'
      <4>1. n + semval <= cnt0
        BY <2>1, Zenon DEF Answers
      <4> QED  BY <3>1, <3>2, <4>1, PostTaken
    <3> QED  BY <2>1, <3>3, Zenon DEF Answers
  <2>2. CASE Wakes /\ ~UseSem
    BY <1>1, <2>2 DEF Wakes, Answers
  <2>3. CASE WaitTimesOut
    BY <1>1, <2>3 DEF WaitTimesOut, Answers
  <2> QED  BY <2>1, <2>2, <2>3
<1> QED  BY <1>1, <1>2, <1>3, <1>4

(* A slice that is picked was written.                                     *)
LEMMA PickedIsWritten ==
  ASSUME SourceInv
  PROVE  /\ NextSlice(oldslice) \in Slices
         /\ image[NextSlice(oldslice)] % NBslices = NextSlice(oldslice)
<1>1. /\ cnt1 \in 0 .. NBslices - 1 /\ cnt1 <= cnt0 /\ cnt0 \in Nat
      /\ oldslice \in 0 .. NBslices - 1
  BY TransmitAssumption DEF SourceInv, TransmitTypeOK, Slices
<1>2. NextSlice(oldslice) \in 0 .. cnt1
  BY <1>1, TransmitAssumption DEF NextSlice
<1>3. NextSlice(oldslice) \in Slices /\ ~(cnt0 < NextSlice(oldslice))
  BY <1>1, <1>2, TransmitAssumption DEF Slices
<1> QED  BY <1>3 DEF SourceInv, ImageInv

(* What is transmitted was written.                                        *)
LEMMA AnswersWithin ==
  ASSUME SourceInv, NEW n \in Nat, Answers(n)
  PROVE  n <= cnt0 /\ n <= MaxFrames /\ (tpc = "slice" => n < cnt0 /\ n < MaxFrames)
<1>1. /\ cnt0 \in Nat /\ cnt \in Nat /\ semval \in Nat /\ cnt <= cnt0 /\ cnt0 <= MaxFrames
      /\ UseSem \in BOOLEAN /\ MaxFrames \in Nat
  BY TransmitAssumption DEF SourceInv, TransmitTypeOK
<1>2. CASE UseSem
  BY <1>1, <1>2 DEF Answers
<1>3. CASE ~UseSem
  BY <1>1, <1>3 DEF Answers
<1> QED  BY <1>1, <1>2, <1>3

(* The rest of a transmission leaves the stream alone.                     *)
LEMMA TransmissionKeeps ==
  ASSUME SourceInv, UNCHANGED <<sourceVars, cnt>>,
         tpc' \in {"wait", "data", "send", "ended"}, drained' \in BOOLEAN,
         slice' \in Slices, oldslice' \in Slices
  PROVE  /\ SourceInv'
         /\ \A n \in Nat : Answers(n) => Answers(n)' /\ (tpc = "slice" => Answers(n + 1)')
<1>1. UNCHANGED <<image, cnt0, cnt1, semval, writing, cnt>>
  BY DEF sourceVars
<1>2. SourceInv'
  BY <1>1 DEF SourceInv, TransmitTypeOK, ImageInv
<1>3. ASSUME NEW n \in Nat, Answers(n)  PROVE Answers(n)' /\ (tpc = "slice" => Answers(n + 1)')
  <2>1. /\ cnt0 \in Nat /\ cnt \in Nat /\ semval \in Nat /\ UseSem \in BOOLEAN
    BY TransmitAssumption DEF SourceInv, TransmitTypeOK
  <2>2. Answers(n)'
    BY <1>1, <1>3, Zenon DEF Answers
  <2>3. CASE tpc = "slice" /\ UseSem
    <3>1. n + semval < cnt0
      BY <1>3, <2>3 DEF Answers
    <3>2. (n + 1) + semval <= cnt0
      BY <2>1, <3>1
    <3> QED  BY <1>1, <2>2, <2>3, <3>2, Zenon DEF Answers
  <2>4. CASE tpc = "slice" /\ ~UseSem
    <3>1. n < cnt
      BY <1>3, <2>4 DEF Answers
    <3>2. n + 1 <= cnt
      BY <2>1, <3>1
    <3> QED  BY <1>1, <2>2, <2>4, <3>2, Zenon DEF Answers
  <2> QED  BY <2>2, <2>3, <2>4
<1> QED  BY <1>2, <1>3


(* A sequence written as a function, and what is appended to it.           *)
LEMMA AppendedTo ==
  ASSUME NEW n \in Nat, NEW s, s = [i \in 1 .. n |-> s[i]], NEW e
  PROVE  /\ Len(s) = n
         /\ Append(s, e) = [i \in 1 .. n + 1 |-> IF i = n + 1 THEN e ELSE s[i]]
<1> DEFINE S == {s[i] : i \in 1 .. n} \cup {e}
           r == [i \in 1 .. n + 1 |-> IF i = n + 1 THEN e ELSE s[i]]
<1>1. s \in [1 .. n -> S] /\ e \in S
  OBVIOUS
<1>2. r \in [1 .. n + 1 -> S] /\ n + 1 \in Nat
  <2>1. \A i \in 1 .. n + 1 : (IF i = n + 1 THEN e ELSE s[i]) \in S
    <3>1. \A i \in 1 .. n + 1 : i # n + 1 => i \in 1 .. n
      OBVIOUS
    <3> QED  BY <3>1
  <2> QED  BY <2>1
<1> HIDE DEF S, r
<1>3. s \in Seq(S) /\ Len(s) = n /\ r \in Seq(S) /\ Len(r) = n + 1
  <2>1. s \in Seq(S) /\ r \in Seq(S)
    BY <1>1, <1>2, SeqDef
  <2> QED  BY <1>1, <1>2, <2>1, LenProperties
<1>4. /\ Append(s, e) \in Seq(S) /\ Len(Append(s, e)) = n + 1
      /\ \A i \in 1 .. n : Append(s, e)[i] = s[i]
      /\ Append(s, e)[n + 1] = e
  BY <1>1, <1>3, AppendProperties
<1>5. ASSUME NEW i \in 1 .. n + 1  PROVE Append(s, e)[i] = r[i]
  <2>1. i = n + 1 \/ i \in 1 .. n
    OBVIOUS
  <2> QED  BY <1>4, <2>1 DEF r
<1>6. Append(s, e) = r
  BY <1>3, <1>4, <1>5, SeqEqual
<1> QED  BY <1>3, <1>6 DEF r
=============================================================================
