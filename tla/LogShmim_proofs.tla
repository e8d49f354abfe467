--------------------------- MODULE LogShmim_proofs ---------------------------
(***************************************************************************)
(* The safety of the stream logger: its types, the limits it keeps, the    *)
(* order of the rows it records, that the loop and the thread use          *)
(* different buffers, and that what an undisturbed thread saves is what    *)
(* was recorded.  The last one rests on what the loop and the thread may   *)
(* assume of each other, conjunct by conjunct, in ThreadInv.               *)
(***************************************************************************)
EXTENDS LogShmim, SequenceTheorems, TLAPS

(* A cube is being recorded, or is recorded and not yet handed over.       *)
InProgress == pc = "copy" \/ (frameindex > 0 /\ pc # "swap")

(* Where the indices stand: there is room in the buffer for another frame  *)
(* until the loop decides, and no more cubes than frames.                  *)
IndexInv ==
  /\ pc \in {"wait", "test", "copy", "end", "exited"} => frameindex < CubeSize
  /\ pc \in {"name", "fill", "join"} => frameindex > 0
  /\ fname <= lastcnt0 /\ lastcnt0 <= cnt0
  /\ pc = "test" => fname < lastcnt0

(* The counts since saving was turned on never exceed those of the loop,   *)
(* and leave room while saving may go on.                                  *)
LimitsInv ==
  /\ nframes <= framecnt /\ nframes <= MaxFrameCnt
  /\ (pc = "test" /\ saveON) \/ pc = "copy" => nframes < MaxFrameCnt
  /\ pc = "wait" /\ saveON /\ ~saveON_last => nframes = 0 /\ nfiles = 0
  /\ nfiles <= MaxFileCnt
  /\ nfiles <= IF pc = "swap" /\ frameindex > 0 THEN filecnt + 1 ELSE filecnt
  /\ pc \in {"test", "copy"} \/ frameindex > 0 => lastcube \/ filecnt < MaxFileCnt - 1
  /\ pc # "swap" /\ (saveON \/ frameindex > 0 \/ pc = "copy") => nfiles < MaxFileCnt
  /\ pc = "swap" /\ saveON => lastcube \/ lastcubeON \/ nfiles < MaxFileCnt

(* The rows recorded so far are not younger than the stream, nor than the  *)
(* row whose stamp is written.                                             *)
RowsInv ==
  /\ RowsFollowStream
  /\ \A f \in Names : \A k \in DOMAIN cubes[f] : cubes[f][k].img <= cnt0
  /\ pc = "copy" =>
       LET stamp == buff[buffindex][frameindex + 1].stamp
       IN  stamp <= cnt0 /\ \A k \in DOMAIN cubes[fname] : cubes[fname][k].img <= stamp

(* The first rows of buffer b are the given ones.                          *)
InBuffer(rows, b) ==
  Len(rows) <= CubeSize /\ \A k \in 1 .. Len(rows) : rows[k] = buff[b][k]

(* The cube in progress is in the buffer of the loop, and its message is   *)
(* its own when the thread is created.                                     *)
CubeInv ==
  /\ \A f \in Names : f > fname => cubes[f] = <<>>
  /\ InProgress => Len(cubes[fname]) = frameindex /\ InBuffer(cubes[fname], buffindex)
  /\ pc \in {"fill", "join"} => tmsg.fname = fname
  /\ pc = "join" => /\ tmsg.cubesize = frameindex /\ tmsg.buf = buffindex
                    /\ (tmsg.partial \/ frameindex = CubeSize)

(* The thread works on an earlier cube, and on no saved one; its message   *)
(* and buffer are those it was created with unless they were disturbed.    *)
ThreadInv ==
  /\ \A f \in saved : f <= fname /\ (InProgress => f # fname)
  /\ Saving => /\ saver.cube <= fname /\ (InProgress => saver.cube # fname)
               /\ saver.cube \notin saved /\ tmsg.fname \notin saved
               /\ pc \in {"fill", "join", "exited"} => disturbed
  /\ Saving /\ ~disturbed =>
       /\ InBuffer(cubes[saver.cube], saver.home)
       /\ tmsg.fname = saver.cube /\ tmsg.buf = saver.home
       /\ tmsg.cubesize = Len(cubes[saver.cube]) /\ (tmsg.partial \/ tmsg.cubesize = CubeSize)
       /\ saver.step # "open" => saver.n = tmsg.cubesize /\ saver.buf = tmsg.buf
       /\ saver.step = "rename" => saver.imgs = Imgs(cubes[saver.cube])
       /\ saver.step = "ascii" => fits[saver.cube] = Imgs(cubes[saver.cube])

(* The buffers are apart but for the end of an iteration that saves.       *)
ApartInv ==
  Saving /\ ~swapped => (saver.home = buffindex <=> (pc = "swap" /\ frameindex > 0))

BaseInv == TypeOK /\ IndexInv

------------------------------------------------------------------------------
(* Types.                                                                  *)

LEMMA BufferRow ==
  ASSUME TypeOK, NEW b \in {0, 1}, NEW k \in 1 .. CubeSize
  PROVE  buff[b][k] \in Row
BY DEF TypeOK

LEMMA FirstRowsProperties ==
  ASSUME TypeOK, NEW b \in {0, 1}, NEW n \in 0 .. CubeSize
  PROVE  /\ FirstRows(b, n) \in Seq(Row) /\ Len(FirstRows(b, n)) = n
         /\ \A k \in 1 .. n : FirstRows(b, n)[k] = buff[b][k]
<1>1. FirstRows(b, n) \in [1 .. n -> Row]
  BY BufferRow, ConstantsAssumption DEF FirstRows
<1>2. n \in Nat
  BY ConstantsAssumption
<1> QED  BY <1>1, <1>2 DEF FirstRows

(* The columns of a table.                                                 *)
LEMMA Columns ==
  ASSUME NEW rows \in Seq(Row)
  PROVE  /\ Imgs(rows) \in Seq(Frames) /\ Stamps(rows) \in Seq(Frames)
         /\ Len(Imgs(rows)) = Len(rows) /\ Len(Stamps(rows)) = Len(rows)
<1>1. /\ Len(rows) \in Nat /\ DOMAIN rows = 1 .. Len(rows)
      /\ \A k \in 1 .. Len(rows) : rows[k] \in Row
  BY LenProperties, ElementOfSeq
<1>2. /\ Imgs(rows) \in [1 .. Len(rows) -> Frames]
      /\ Stamps(rows) \in [1 .. Len(rows) -> Frames]
  BY <1>1 DEF Imgs, Stamps, Row
<1> QED  BY <1>1, <1>2

(* The message and the thread, field by field.                             *)
LEMMA Fields ==
  ASSUME TypeOK
  PROVE  /\ tmsg.fname \in Names /\ tmsg.cubesize \in 0 .. CubeSize
         /\ tmsg.partial \in BOOLEAN /\ tmsg.buf \in {0, 1}
         /\ saver.n \in 0 .. CubeSize /\ saver.buf \in {0, 1} /\ saver.imgs \in Seq(Frames)
         /\ saver.cube \in Names /\ saver.home \in {0, 1}
BY DEF TypeOK, Message, Saver

LEMMA InitBase == Init => BaseInv
<1> SUFFICES ASSUME Init  PROVE BaseInv
  OBVIOUS
<1>1. NoRow \in Row
  BY ConstantsAssumption DEF NoRow, Row, Frames
<1>2. buff \in [{0, 1} -> [1 .. CubeSize -> Row]]
  BY <1>1 DEF Init
<1>3. <<>> \in Seq(Row) /\ <<>> \in Seq(Frames)
  OBVIOUS
<1>4. cubes \in [Names -> Seq(Row)] /\ fits \in [Names -> Seq(Frames)]
      /\ txt \in [Names -> Seq(Frames)]
  BY <1>3 DEF Init
<1>5. tmsg \in Message
  BY ConstantsAssumption DEF Init, Message, Names
<1>6. saver \in Saver
  BY <1>3, ConstantsAssumption DEF Init, Saver, Names
<1>7. /\ cnt0 = 0 /\ lastcnt0 = 0 /\ fname = 0 /\ frameindex = 0 /\ framecnt = 0 /\ filecnt = 0
      /\ nframes = 0 /\ nfiles = 0 /\ nkeys = 0 /\ pc = "wait" /\ buffindex = 0 /\ saved = {}
  BY DEF Init
<1>8. /\ saveON \in BOOLEAN /\ lastcubeON \in BOOLEAN /\ nextcube \in BOOLEAN
      /\ saveON_last \in BOOLEAN /\ lastcube \in BOOLEAN
      /\ disturbed \in BOOLEAN /\ swapped \in BOOLEAN
  BY DEF Init
<1>9. TypeOK
  BY <1>2, <1>4, <1>5, <1>6, <1>7, <1>8, ConstantsAssumption DEF TypeOK, Frames, Names
<1> QED
  BY <1>7, <1>9, ConstantsAssumption DEF BaseInv, IndexInv

(* The loop.                                                               *)
LEMMA BodyBase ==
  ASSUME BaseInv, Body
  PROVE  BaseInv'
<1> USE ConstantsAssumption DEF BaseInv
<1>1. CASE NewFrame
  <2>1. framecnt' \in Nat /\ filecnt' \in Nat /\ lastcube' \in BOOLEAN /\ saveON' \in BOOLEAN
    BY <1>1 DEF NewFrame, TypeOK, FramesDone, FilesDone
  <2> QED
    BY <1>1, <2>1 DEF NewFrame, TypeOK, IndexInv, fileVars, sinceVars, Frames, Names
<1>2. CASE SameFrame
  BY <1>2 DEF SameFrame, TypeOK, IndexInv, paramVars, countVars, loopVars, fileVars, sinceVars
<1>3. CASE TestsSaving
  <2>1. CASE saveON
    <3>1. buff' \in [{0, 1} -> [1 .. CubeSize -> Row]]
      <4> DEFINE row == [buff[buffindex][frameindex + 1] EXCEPT !.stamp = cnt0]
      <4>1. frameindex + 1 \in 1 .. CubeSize /\ buffindex \in {0, 1}
        BY <1>3 DEF TestsSaving, TypeOK, IndexInv
      <4>2. row \in Row
        BY <4>1, BufferRow DEF Row, TypeOK
      <4>3. buff' = [buff EXCEPT ![buffindex] = [buff[buffindex] EXCEPT ![frameindex + 1] = row]]
        BY <1>3, <2>1 DEF TestsSaving, Stamp
      <4> QED  BY <4>1, <4>2, <4>3 DEF TypeOK
    <3>2. fname' \in Names /\ fname' <= lastcnt0
      <4>1. pc = "test" /\ (fname' = fname \/ fname' = fname + 1)
        BY <1>3, <2>1 DEF TestsSaving
      <4>2. fname \in 0 .. MaxFrames /\ lastcnt0 \in 0 .. MaxFrames
        BY DEF TypeOK, Names, Frames
      <4>3. fname < lastcnt0
        BY <4>1 DEF IndexInv
      <4> QED  BY <4>1, <4>2, <4>3 DEF Names
    <3>3. disturbed' \in BOOLEAN
      BY <1>3, <2>1 DEF TestsSaving, TypeOK, DisturbsBuffer
    <3> QED
      BY <1>3, <2>1, <3>1, <3>2, <3>3
         DEF TestsSaving, TypeOK, IndexInv, paramVars, countVars, fileVars, sinceVars
  <2>2. CASE ~saveON
    BY <1>3, <2>2 DEF TestsSaving, TypeOK, IndexInv, paramVars, countVars, fileVars, sinceVars
  <2> QED  BY <2>1, <2>2
<1>4. CASE CopiesFrame
  <2> DEFINE row == [buff[buffindex][frameindex + 1] EXCEPT !.img = cnt0]
  <2>1. frameindex + 1 \in 1 .. CubeSize /\ buffindex \in {0, 1} /\ fname \in Names
    <3>1. pc = "copy"
      BY <1>4 DEF CopiesFrame
    <3> QED  BY <3>1 DEF TypeOK, IndexInv
  <2>2. row \in Row
    BY <2>1, BufferRow DEF Row, TypeOK
  <2>3. buff' \in [{0, 1} -> [1 .. CubeSize -> Row]]
    <3>1. buff' = [buff EXCEPT ![buffindex] = [buff[buffindex] EXCEPT ![frameindex + 1] = row]]
      BY <1>4 DEF CopiesFrame
    <3> QED  BY <2>1, <2>2, <3>1 DEF TypeOK
  <2>4. cubes' \in [Names -> Seq(Row)]
    <3>1. Append(cubes[fname], row) \in Seq(Row)
      BY <2>1, <2>2 DEF TypeOK
    <3> QED  BY <1>4, <3>1 DEF CopiesFrame, TypeOK
  <2>5. disturbed' \in BOOLEAN
    BY <1>4 DEF CopiesFrame, TypeOK, DisturbsBuffer
  <2>6. frameindex' \in 0 .. CubeSize /\ framecnt' \in Nat /\ nframes' \in Nat
    <3>1. frameindex' = frameindex + 1 /\ framecnt' = framecnt + 1 /\ nframes' = nframes + 1
      BY <1>4 DEF CopiesFrame
    <3> QED  BY <2>1, <3>1 DEF TypeOK
  <2> QED
    BY <1>4, <2>3, <2>4, <2>5, <2>6
       DEF CopiesFrame, TypeOK, IndexInv, paramVars, loopVars, fileVars
<1>5. CASE DecidesToSave
  <2>1. TypeOK'
    BY <1>5 DEF DecidesToSave, TypeOK, countVars, loopVars, fileVars, sinceVars
  <2>2. /\ pc' \in {"end", "name", "swap"} /\ UNCHANGED <<cnt0, lastcnt0, fname, frameindex>>
        /\ pc' = "end" => ~SaveCube
        /\ pc' = "name" => frameindex > 0
    BY <1>5 DEF DecidesToSave, countVars, loopVars
  <2> QED  BY <2>1, <2>2 DEF IndexInv, SaveCube, TypeOK
<1>6. CASE FillsName
  <2>1. tmsg' \in Message
    BY <1>6 DEF FillsName, TypeOK, Message
  <2> QED
    BY <1>6, <2>1 DEF FillsName, TypeOK, IndexInv, paramVars, countVars, loopVars, fileVars,
                      sinceVars, Saving
<1>7. CASE FillsMessage
  <2>1. tmsg' \in Message
    BY <1>7 DEF FillsMessage, TypeOK, Message, Partial
  <2> QED
    BY <1>7, <2>1 DEF FillsMessage, TypeOK, IndexInv, paramVars, countVars, loopVars, fileVars,
                      sinceVars
<1>8. CASE JoinsAndCreates
  <2>1. saver' \in Saver
    BY <1>8 DEF JoinsAndCreates, TypeOK, Saver
  <2>2. nfiles' \in Nat /\ pc' = "swap" /\ disturbed' \in BOOLEAN /\ swapped' \in BOOLEAN
    <3>1. nfiles' = nfiles + 1
      BY <1>8 DEF JoinsAndCreates
    <3>2. pc' = "swap" /\ disturbed' \in BOOLEAN /\ swapped' \in BOOLEAN
      BY <1>8 DEF JoinsAndCreates
    <3> QED  BY <3>1, <3>2 DEF TypeOK
  <2>3. UNCHANGED <<cnt0, paramVars, countVars, loopVars, buff, tmsg, fileVars, cubes, nframes, nkeys>>
    BY <1>8 DEF JoinsAndCreates
  <2> QED
    BY <2>1, <2>2, <2>3 DEF TypeOK, IndexInv, paramVars, countVars, loopVars, fileVars
<1>9. CASE SwapsBuffers
  <2>1. saveON' \in BOOLEAN /\ lastcubeON' \in BOOLEAN
    BY <1>9 DEF SwapsBuffers, TypeOK
  <2> QED
    BY <1>9, <2>1 DEF SwapsBuffers, NextBuffer, TypeOK, IndexInv, fileVars, sinceVars
<1>10. CASE EndsIteration
  BY <1>10 DEF EndsIteration, TypeOK, IndexInv, paramVars, countVars, fileVars, sinceVars
<1> QED
  BY <1>1, <1>2, <1>3, <1>4, <1>5, <1>6, <1>7, <1>8, <1>9, <1>10 DEF Body

(* The thread and the others.                                              *)
LEMMA ThreadBase ==
  ASSUME BaseInv, SaveThread
  PROVE  BaseInv'
<1> USE DEF BaseInv
<1>0. NotTheThread
  BY DEF SaveThread, OpensFits, WritesFits, RenamesFits, WritesAscii, FailsAfterFree
<1>1. saver' \in Saver
  <2>1. CASE OpensFits
    <3>1. (IF tmsg.partial THEN tmsg.cubesize ELSE CubeSize) \in 0 .. CubeSize
      BY Fields, ConstantsAssumption
    <3> QED  BY <2>1, <3>1, Fields DEF OpensFits, TypeOK, Saver
  <2>2. CASE WritesFits
    <3>1. Imgs(FirstRows(saver.buf, saver.n)) \in Seq(Frames)
      BY Fields, FirstRowsProperties, Columns
    <3> QED  BY <2>2, <3>1 DEF WritesFits, TypeOK, Saver
  <2>3. CASE RenamesFits
    <3>1. <<>> \in Seq(Frames)
      OBVIOUS
    <3> QED  BY <2>3, <3>1 DEF RenamesFits, TypeOK, Saver
  <2>4. CASE WritesAscii
    BY <2>4 DEF WritesAscii, TypeOK, Saver
  <2>5. CASE FailsAfterFree
    BY <2>5 DEF FailsAfterFree, TypeOK, Saver
  <2> QED  BY <2>1, <2>2, <2>3, <2>4, <2>5 DEF SaveThread
<1>2. fits' \in [Names -> Seq(Frames)] /\ txt' \in [Names -> Seq(Frames)] /\ saved' \subseteq Names
  <2>1. CASE RenamesFits
    BY <2>1, Fields DEF RenamesFits, TypeOK
  <2>2. CASE WritesAscii
    <3>1. Stamps(FirstRows(tmsg.buf, tmsg.cubesize)) \in Seq(Frames)
      BY Fields, FirstRowsProperties, Columns
    <3> QED  BY <2>2, <3>1, Fields DEF WritesAscii, TypeOK
  <2>3. CASE OpensFits \/ WritesFits \/ FailsAfterFree
    BY <2>3 DEF OpensFits, WritesFits, FailsAfterFree, fileVars, TypeOK
  <2> QED  BY <2>1, <2>2, <2>3 DEF SaveThread
<1> QED
  BY <1>0, <1>1, <1>2 DEF NotTheThread, TypeOK, IndexInv, paramVars, countVars, loopVars, sinceVars

LEMMA StepBase == BaseInv /\ [Next]_vars => BaseInv'
<1> SUFFICES ASSUME BaseInv, [Next]_vars  PROVE BaseInv'
  OBVIOUS
<1> USE DEF BaseInv
<1>1. CASE Body
  BY <1>1, BodyBase
<1>2. CASE SaveThread
  BY <1>2, ThreadBase
<1>3. CASE LeavesLoop
  BY <1>3 DEF LeavesLoop, TypeOK, IndexInv, paramVars, countVars, loopVars, fileVars, sinceVars,
              Saving
<1>4. CASE WriterWrites
  BY <1>4, ConstantsAssumption
     DEF WriterWrites, TypeOK, IndexInv, paramVars, countVars, loopVars, fileVars, sinceVars, Frames
<1>5. CASE OperatorSets
  <2>1. /\ saveON' \in BOOLEAN /\ lastcubeON' \in BOOLEAN /\ nextcube' \in BOOLEAN
        /\ nframes' \in Nat /\ nfiles' \in Nat
    <3>1. saveON' \in BOOLEAN /\ lastcubeON' \in BOOLEAN /\ nextcube' \in BOOLEAN
      BY <1>5 DEF OperatorSets, TypeOK
    <3>2. nframes' \in {nframes, 0} /\ nfiles' \in {nfiles, 0}
      BY <1>5 DEF OperatorSets, sinceVars
    <3> QED  BY <3>1, <3>2 DEF TypeOK
  <2> QED
    BY <1>5, <2>1, ConstantsAssumption
       DEF OperatorSets, TypeOK, IndexInv, countVars, loopVars, fileVars
<1>6. CASE UNCHANGED vars
  BY <1>6 DEF vars, TypeOK, IndexInv, paramVars, countVars, loopVars, fileVars, sinceVars
<1> QED  BY <1>1, <1>2, <1>3, <1>4, <1>5, <1>6 DEF Next

(* The logger is well typed whatever the frames, keys and interleavings.   *)
THEOREM LogTypeCorrect == Spec => []TypeOK
<1>1. BaseInv /\ [Next]_vars => BaseInv'
  BY StepBase
<1>2. BaseInv => TypeOK
  BY DEF BaseInv
<1> QED  BY InitBase, <1>1, <1>2, PTL DEF Spec

------------------------------------------------------------------------------
(* The limits.                                                             *)

(* What the counts are made of is numbers.                                 *)
LEMMA CountTypes ==
  ASSUME TypeOK
  PROVE  /\ cnt0 \in Nat /\ lastcnt0 \in Nat /\ fname \in Nat
         /\ frameindex \in Nat /\ framecnt \in Nat /\ filecnt \in Nat
         /\ nframes \in Nat /\ nfiles \in Nat
         /\ saveON \in BOOLEAN /\ lastcubeON \in BOOLEAN
         /\ saveON_last \in BOOLEAN /\ lastcube \in BOOLEAN
BY ConstantsAssumption DEF TypeOK, Frames, Names

(* What LimitsInv is about.                                                *)
limitVars == <<nframes, framecnt, pc, saveON, saveON_last, nfiles, frameindex, filecnt, lastcube,
               lastcubeON>>

LEMMA StepLimits ==
  ASSUME BaseInv, LimitsInv, [Next]_vars
  PROVE  LimitsInv'
<1> USE CountTypes, ConstantsAssumption DEF BaseInv
<1>0. CASE UNCHANGED limitVars
  BY <1>0 DEF limitVars, LimitsInv
<1>1. CASE NewFrame
  <2>1. /\ pc = "wait" /\ pc' = "test" /\ UNCHANGED <<frameindex, saveON_last, lastcubeON, nframes, nfiles>>
        /\ framecnt' = IF ~saveON_last /\ saveON THEN 0 ELSE framecnt
        /\ filecnt' = IF ~saveON_last /\ saveON THEN 0 ELSE filecnt
    BY <1>1 DEF NewFrame, sinceVars
  <2>2. (FilesDone(filecnt') => lastcube') /\ (saveON' => saveON /\ ~FramesDone(framecnt'))
    BY <1>1, Zenon DEF NewFrame
  <2>3. (lastcube' \/ filecnt' < MaxFileCnt - 1) /\ (saveON' => saveON /\ framecnt' < MaxFrameCnt)
    <3>1. framecnt' \in Nat /\ filecnt' \in Nat
      BY <2>1
    <3> QED  BY <2>2, <3>1 DEF FilesDone, FramesDone
  <2>4. CASE ~saveON_last /\ saveON
    <3>1. nframes' = 0 /\ nfiles' = 0
      BY <2>1, <2>4 DEF LimitsInv
    <3>2. framecnt' = 0 /\ filecnt' = 0
      BY <2>1, <2>4
    <3>3. 0 < MaxFrameCnt /\ 0 < MaxFileCnt
      OBVIOUS
    <3> HIDE ConstantsAssumption
    <3> QED  BY <2>1, <2>3, <3>1, <3>2, <3>3 DEF LimitsInv
  <2>5. CASE ~(~saveON_last /\ saveON)
    <3>1. framecnt' = framecnt /\ filecnt' = filecnt
      BY <2>1, <2>5
    <3> QED  BY <2>1, <2>3, <3>1 DEF LimitsInv
  <2> QED  BY <2>4, <2>5
<1>2. CASE SameFrame
  BY <1>2 DEF SameFrame, LimitsInv, paramVars, countVars, loopVars, sinceVars
<1>3. CASE TestsSaving
  <2>1. /\ pc = "test" /\ pc' \in {"copy", "decide"} /\ (pc' = "copy" => saveON)
        /\ UNCHANGED <<saveON, saveON_last, lastcube, lastcubeON, frameindex, framecnt, filecnt,
                       nframes, nfiles>>
    BY <1>3 DEF TestsSaving, paramVars, countVars, sinceVars
  <2> QED
    BY <2>1 DEF LimitsInv
<1>4. CASE CopiesFrame
  <2>1. /\ pc = "copy" /\ pc' = "decide"
        /\ frameindex' = frameindex + 1 /\ framecnt' = framecnt + 1 /\ nframes' = nframes + 1
        /\ UNCHANGED <<saveON, saveON_last, lastcube, lastcubeON, filecnt, nfiles>>
    BY <1>4 DEF CopiesFrame, paramVars, loopVars
  <2> QED
    BY <2>1 DEF LimitsInv
<1>5. CASE DecidesToSave
  <2>1. /\ pc = "decide" /\ pc' \in {"end", "name", "swap"} /\ (pc' = "swap" => ~(frameindex > 0))
        /\ UNCHANGED <<saveON, saveON_last, lastcube, lastcubeON, frameindex, framecnt, filecnt,
                       nframes, nfiles>>
    BY <1>5 DEF DecidesToSave, countVars, loopVars, sinceVars
  <2> QED
    BY <2>1 DEF LimitsInv
<1>6. CASE FillsName
  BY <1>6 DEF FillsName, LimitsInv, paramVars, countVars, loopVars, sinceVars
<1>7. CASE FillsMessage
  BY <1>7 DEF FillsMessage, LimitsInv, paramVars, countVars, loopVars, sinceVars
<1>8. CASE JoinsAndCreates
  <2>1. /\ pc = "join" /\ pc' = "swap" /\ nfiles' = nfiles + 1
        /\ UNCHANGED <<saveON, saveON_last, lastcube, lastcubeON, frameindex, framecnt, filecnt,
                       nframes>>
    BY <1>8 DEF JoinsAndCreates, paramVars, countVars, loopVars
  <2>2. frameindex > 0
    BY <2>1 DEF IndexInv
  <2> QED
    BY <2>1, <2>2 DEF LimitsInv
<1>9. CASE SwapsBuffers
  <2>1. /\ pc = "swap" /\ pc' = "end" /\ frameindex' = 0 /\ filecnt' = filecnt + 1
        /\ saveON' => saveON /\ ~lastcube /\ ~lastcubeON
        /\ UNCHANGED <<saveON_last, lastcube, framecnt, nframes, nfiles>>
    BY <1>9 DEF SwapsBuffers, sinceVars
  <2> QED
    BY <2>1 DEF LimitsInv
<1>10. CASE EndsIteration
  <2>1. /\ pc = "end" /\ pc' = "wait" /\ saveON_last' = saveON
        /\ UNCHANGED <<saveON, lastcube, lastcubeON, frameindex, framecnt, filecnt, nframes, nfiles>>
    BY <1>10 DEF EndsIteration, paramVars, countVars, sinceVars
  <2> QED
    BY <2>1 DEF LimitsInv
<1>11. CASE LeavesLoop
  BY <1>11 DEF LeavesLoop, LimitsInv, paramVars, countVars, loopVars, sinceVars
<1>12. CASE OperatorSets
  <2>1. /\ UNCHANGED <<pc, saveON_last, lastcube, frameindex, framecnt, filecnt>>
        /\ lastcubeON => lastcubeON'
        /\ \/ (saveON' => saveON) /\ UNCHANGED <<nframes, nfiles>>
           \/ nframes' = 0 /\ nfiles' = 0
    BY <1>12 DEF OperatorSets, countVars, loopVars, sinceVars
  <2> QED
    BY <2>1 DEF LimitsInv
<1>13. CASE SaveThread \/ WriterWrites \/ UNCHANGED vars
  <2>1. UNCHANGED limitVars
    BY <1>13 DEF SaveThread, OpensFits, WritesFits, RenamesFits, WritesAscii, FailsAfterFree,
                 NotTheThread, WriterWrites, vars, limitVars, paramVars, countVars, loopVars,
                 sinceVars
  <2> QED  BY <1>0, <2>1
<1> QED
  BY <1>1, <1>2, <1>3, <1>4, <1>5, <1>6, <1>7, <1>8, <1>9, <1>10, <1>11, <1>12, <1>13 DEF Next, Body

(* From saving turned on to saving turned off no more frames are recorded  *)
(* and no more files saved than the limits say.                            *)
THEOREM LimitsAreHeld == Spec => []LimitsHold
<1>1. Init => LimitsInv
  BY ConstantsAssumption DEF Init, LimitsInv
<1>2. BaseInv /\ LimitsInv /\ [Next]_vars => LimitsInv'
  BY StepLimits
<1>3. LimitsInv => LimitsHold
  BY DEF LimitsInv, LimitsHold
<1> QED  BY <1>1, <1>2, <1>3, InitBase, StepBase, PTL DEF Spec

------------------------------------------------------------------------------
(* The rows.                                                               *)

(* A table of which the last row may still be written to.                  *)
LEMMA Appended ==
  ASSUME NEW rows \in Seq(Row), NEW row \in Row
  PROVE  /\ Len(Append(rows, row)) = Len(rows) + 1
         /\ DOMAIN Append(rows, row) = 1 .. Len(rows) + 1
         /\ \A k \in 1 .. Len(rows) : Append(rows, row)[k] = rows[k]
         /\ Append(rows, row)[Len(rows) + 1] = row
BY LenProperties, AppendProperties

(* The rows are those of a table, and the numbers in them frames.          *)
LEMMA RowTypes ==
  ASSUME TypeOK, NEW f \in Names
  PROVE  /\ cubes[f] \in Seq(Row) /\ Len(cubes[f]) \in Nat
         /\ DOMAIN cubes[f] = 1 .. Len(cubes[f])
         /\ \A k \in 1 .. Len(cubes[f]) : cubes[f][k].stamp \in Nat /\ cubes[f][k].img \in Nat
<1>1. cubes[f] \in Seq(Row)
  BY DEF TypeOK
<1>2. /\ Len(cubes[f]) \in Nat /\ DOMAIN cubes[f] = 1 .. Len(cubes[f])
      /\ \A k \in 1 .. Len(cubes[f]) : cubes[f][k] \in Row
  BY <1>1, LenProperties, ElementOfSeq
<1> QED  BY <1>1, <1>2, ConstantsAssumption DEF Row, Frames

(* The frame that is copied: its row, and where it goes.                   *)
LEMMA CopiedRow ==
  ASSUME BaseInv, CopiesFrame
  PROVE  \E row \in Row :
           /\ row.stamp = buff[buffindex][frameindex + 1].stamp /\ row.img = cnt0
           /\ buffindex \in {0, 1} /\ frameindex + 1 \in 1 .. CubeSize /\ fname \in Names
           /\ buff' = [buff EXCEPT ![buffindex] = [buff[buffindex] EXCEPT ![frameindex + 1] = row]]
           /\ cubes' = [cubes EXCEPT ![fname] = Append(cubes[fname], row)]
<1> DEFINE row == [buff[buffindex][frameindex + 1] EXCEPT !.img = cnt0]
<1>1. pc = "copy"
  BY DEF CopiesFrame
<1>2. frameindex + 1 \in 1 .. CubeSize /\ buffindex \in {0, 1} /\ fname \in Names
  BY <1>1, ConstantsAssumption DEF BaseInv, TypeOK, IndexInv
<1>3. row \in Row /\ row.stamp = buff[buffindex][frameindex + 1].stamp /\ row.img = cnt0
  BY <1>2, BufferRow DEF Row, TypeOK, BaseInv
<1>4. /\ buff' = [buff EXCEPT ![buffindex] = [buff[buffindex] EXCEPT ![frameindex + 1] = row]]
      /\ cubes' = [cubes EXCEPT ![fname] = Append(cubes[fname], row)]
  BY DEF CopiesFrame
<1> QED  BY <1>2, <1>3, <1>4

rowVars == <<cnt0, cubes, fname, frameindex, buffindex, buff>>

LEMMA StepRows ==
  ASSUME BaseInv, RowsInv, [Next]_vars
  PROVE  RowsInv'
<1> USE CountTypes, ConstantsAssumption DEF BaseInv
<1>1. CASE TestsSaving /\ saveON
  <2>1. /\ pc' = "copy" /\ UNCHANGED <<cnt0, cubes, frameindex, buffindex>>
        /\ fname' \in {fname, fname + 1} /\ pc = "test"
    BY <1>1 DEF TestsSaving, countVars
  <2>2. frameindex + 1 \in 1 .. CubeSize /\ buffindex \in {0, 1} /\ fname' \in Names
    <3>1. fname < lastcnt0 /\ frameindex < CubeSize
      BY <2>1 DEF IndexInv
    <3> QED  BY <2>1, <3>1 DEF TypeOK, Names, Frames
  <2>3. buff'[buffindex][frameindex + 1].stamp = cnt0
    <3> DEFINE row == [buff[buffindex][frameindex + 1] EXCEPT !.stamp = cnt0]
    <3>1. row.stamp = cnt0
      BY <2>2, BufferRow DEF Row
    <3>2. buff' = [buff EXCEPT ![buffindex] = [buff[buffindex] EXCEPT ![frameindex + 1] = row]]
      BY <1>1 DEF TestsSaving, Stamp
    <3> QED  BY <2>2, <3>1, <3>2 DEF TypeOK
  <2> QED
    BY <2>1, <2>2, <2>3 DEF RowsInv, RowsFollowStream
<1>2. CASE CopiesFrame
  <2>1. PICK row \in Row :
           /\ row.stamp = buff[buffindex][frameindex + 1].stamp /\ row.img = cnt0
           /\ buffindex \in {0, 1} /\ frameindex + 1 \in 1 .. CubeSize /\ fname \in Names
           /\ buff' = [buff EXCEPT ![buffindex] = [buff[buffindex] EXCEPT ![frameindex + 1] = row]]
           /\ cubes' = [cubes EXCEPT ![fname] = Append(cubes[fname], row)]
    BY <1>2, CopiedRow
  <2>2. pc = "copy" /\ pc' = "decide" /\ cnt0' = cnt0
    BY <1>2 DEF CopiesFrame
  <2>3. row.stamp <= cnt0 /\ \A k \in DOMAIN cubes[fname] : cubes[fname][k].img <= row.stamp
    BY <2>1, <2>2 DEF RowsInv
  <2>4. ASSUME NEW f \in Names, NEW k \in DOMAIN cubes'[f]
        PROVE  /\ cubes'[f][k].stamp <= cubes'[f][k].img /\ cubes'[f][k].img <= cnt0
               /\ k < Len(cubes'[f]) => cubes'[f][k].img <= cubes'[f][k + 1].stamp
    <3>1. CASE f # fname
      <4>1. cubes'[f] = cubes[f]
        BY <2>1, <3>1 DEF TypeOK
      <4> QED  BY <2>4, <4>1 DEF RowsInv, RowsFollowStream
    <3>2. CASE f = fname
      <4> DEFINE n == Len(cubes[fname])
      <4>1. cubes'[f] = Append(cubes[fname], row)
        BY <2>1, <3>2 DEF TypeOK
      <4>2. /\ cubes[fname] \in Seq(Row) /\ n \in Nat /\ DOMAIN cubes[fname] = 1 .. n
        BY <2>1, RowTypes
      <4>3. /\ Len(cubes'[f]) = n + 1 /\ k \in 1 .. n + 1
            /\ \A i \in 1 .. n : cubes'[f][i] = cubes[fname][i]
            /\ cubes'[f][n + 1] = row
        BY <2>4, <4>1, <4>2, Appended
      <4>4. CASE k = n + 1
        <5>1. cubes'[f][k] = row
          BY <4>3, <4>4
        <5>2. row.stamp <= cnt0 /\ cnt0 <= cnt0
          BY <2>3
        <5> QED  BY <5>1, <5>2, <4>2, <4>3, <4>4, <2>1
      <4>5. CASE k = n
        <5>1. k \in 1 .. n /\ cubes'[f][k] = cubes[fname][k] /\ cubes'[f][k + 1] = row
          <6>1. n \in 1 .. n
            BY <4>2, <4>3, <4>5
          <6> QED  BY <6>1, <4>3, <4>5
        <5>2. /\ cubes[fname][k].stamp <= cubes[fname][k].img
              /\ cubes[fname][k].img <= cnt0 /\ cubes[fname][k].img <= row.stamp
          BY <5>1, <4>2, <2>1, <2>3 DEF RowsInv, RowsFollowStream
        <5> QED  BY <5>1, <5>2
      <4>6. CASE k < n
        <5>1. k \in 1 .. n /\ k + 1 \in 1 .. n
          BY <4>2, <4>3, <4>6
        <5> QED  BY <5>1, <4>2, <4>3, <4>6, <2>1 DEF RowsInv, RowsFollowStream
      <4> QED  BY <4>2, <4>3, <4>4, <4>5, <4>6
    <3> QED  BY <3>1, <3>2
  <2> QED
    BY <2>2, <2>4 DEF RowsInv, RowsFollowStream
<1>3. CASE WriterWrites
  <2>1. cnt0' = cnt0 + 1 /\ UNCHANGED <<pc, cubes, fname, frameindex, buffindex, buff>>
    BY <1>3 DEF WriterWrites, countVars, loopVars
  <2>2. \A f \in Names : \A k \in DOMAIN cubes[f] : cubes[f][k].img \in Nat
    BY RowTypes
  <2>3. pc = "copy" => buff[buffindex][frameindex + 1].stamp \in Nat
    <3> SUFFICES ASSUME pc = "copy"  PROVE buff[buffindex][frameindex + 1].stamp \in Nat
      OBVIOUS
    <3>1. frameindex + 1 \in 1 .. CubeSize /\ buffindex \in {0, 1}
      BY DEF TypeOK, IndexInv
    <3>2. buff[buffindex][frameindex + 1] \in Row
      BY <3>1, BufferRow
    <3> QED  BY <3>2 DEF Row, Frames
  <2>4. \A f \in Names : \A k \in DOMAIN cubes'[f] : cubes'[f][k].img <= cnt0'
    BY <2>1, <2>2 DEF RowsInv
  <2>5. RowsFollowStream'
    BY <2>1 DEF RowsInv, RowsFollowStream
  <2>6. pc' = "copy" =>
          LET stamp == buff'[buffindex'][frameindex' + 1].stamp
          IN  stamp <= cnt0' /\ \A k \in DOMAIN cubes'[fname'] : cubes'[fname'][k].img <= stamp
    BY <2>1, <2>3 DEF RowsInv
  <2> QED
    BY <2>4, <2>5, <2>6 DEF RowsInv
<1>4. CASE /\ Next /\ ~(TestsSaving /\ saveON) /\ ~CopiesFrame /\ ~WriterWrites
  <2>1. (UNCHANGED <<cnt0, cubes>> /\ pc' # "copy") \/ UNCHANGED <<rowVars, pc>>
    BY <1>4 DEF Next, Body, NewFrame, SameFrame, TestsSaving, DecidesToSave, FillsName,
            FillsMessage, JoinsAndCreates, SwapsBuffers, EndsIteration, LeavesLoop, SaveThread,
            OpensFits, WritesFits, RenamesFits, WritesAscii, FailsAfterFree, NotTheThread,
            OperatorSets, rowVars, countVars, loopVars
  <2> QED  BY <2>1 DEF RowsInv, RowsFollowStream, rowVars
<1>5. CASE UNCHANGED vars
  BY <1>5 DEF vars, RowsInv, RowsFollowStream, countVars, loopVars
<1> QED  BY <1>1, <1>2, <1>3, <1>4, <1>5

(* The rows follow the stream, however the frames fall.                    *)
THEOREM RowsAreInOrder == Spec => []RowsFollowStream
<1>1. Init => RowsInv
  BY ConstantsAssumption DEF Init, RowsInv, RowsFollowStream
<1>2. BaseInv /\ RowsInv /\ [Next]_vars => RowsInv'
  BY StepRows
<1>3. RowsInv => RowsFollowStream
  BY DEF RowsInv
<1> QED  BY <1>1, <1>2, <1>3, InitBase, StepBase, PTL DEF Spec

------------------------------------------------------------------------------
(* The cube in progress.                                                   *)

(* A frame written to the row after those of a cube keeps the cube.        *)
LEMMA InBufferKept ==
  ASSUME TypeOK, NEW rows \in Seq(Row), NEW b \in {0, 1}, InBuffer(rows, b),
         NEW c \in {0, 1}, NEW n \in Nat, NEW row,
         c # b \/ Len(rows) <= n,
         buff' = [buff EXCEPT ![c] = [buff[c] EXCEPT ![n + 1] = row]]
  PROVE  Len(rows) <= CubeSize /\ \A k \in 1 .. Len(rows) : rows[k] = buff'[b][k]
<1>1. Len(rows) \in Nat /\ buff \in [{0, 1} -> [1 .. CubeSize -> Row]]
  BY LenProperties DEF TypeOK
<1>2. ASSUME NEW k \in 1 .. Len(rows)  PROVE buff'[b][k] = buff[b][k]
  <2>1. CASE c # b
    BY <1>1, <2>1
  <2>2. CASE c = b /\ Len(rows) <= n
    <3>1. k # n + 1
      BY <1>1, <1>2, <2>2
    <3>2. buff'[b] = [buff[b] EXCEPT ![n + 1] = row]
      BY <1>1, <2>2
    <3> QED  BY <1>1, <3>1, <3>2, ConstantsAssumption DEF InBuffer
  <2> QED  BY <2>1, <2>2
<1> QED  BY <1>2 DEF InBuffer

(* The stamp that is noted, and where.                                     *)
LEMMA StampedRow ==
  ASSUME BaseInv, TestsSaving, saveON
  PROVE  \E row \in Row :
           /\ buffindex \in {0, 1} /\ frameindex + 1 \in 1 .. CubeSize
           /\ buff' = [buff EXCEPT ![buffindex] = [buff[buffindex] EXCEPT ![frameindex + 1] = row]]
           /\ fname \in Names /\ fname' \in Names
           /\ fname' = IF frameindex = 0 THEN fname + 1 ELSE fname
<1> DEFINE row == [buff[buffindex][frameindex + 1] EXCEPT !.stamp = cnt0]
<1>1. pc = "test" /\ fname' = IF frameindex = 0 THEN fname + 1 ELSE fname
  BY DEF TestsSaving
<1>2. frameindex + 1 \in 1 .. CubeSize /\ buffindex \in {0, 1} /\ fname \in Names
  BY <1>1, ConstantsAssumption DEF BaseInv, TypeOK, IndexInv
<1>3. row \in Row
  BY <1>2, BufferRow DEF Row, TypeOK, BaseInv
<1>4. buff' = [buff EXCEPT ![buffindex] = [buff[buffindex] EXCEPT ![frameindex + 1] = row]]
  BY DEF TestsSaving, Stamp
<1>5. fname' \in Names
  <2>1. fname \in 0 .. MaxFrames /\ lastcnt0 \in 0 .. MaxFrames /\ fname < lastcnt0
    BY <1>1 DEF BaseInv, TypeOK, IndexInv, Frames, Names
  <2> QED  BY <1>1, <2>1, ConstantsAssumption DEF Names
<1> QED  BY <1>1, <1>2, <1>3, <1>4, <1>5

LEMMA StepCube ==
  ASSUME BaseInv, CubeInv, [Next]_vars
  PROVE  CubeInv'
<1> USE CountTypes, ConstantsAssumption DEF BaseInv
<1>0. buffindex \in {0, 1} /\ fname \in Names /\ cubes[fname] \in Seq(Row)
  BY DEF TypeOK
<1>1. CASE TestsSaving /\ saveON
  <2>1. PICK row \in Row :
           /\ buffindex \in {0, 1} /\ frameindex + 1 \in 1 .. CubeSize
           /\ buff' = [buff EXCEPT ![buffindex] = [buff[buffindex] EXCEPT ![frameindex + 1] = row]]
           /\ fname \in Names /\ fname' \in Names
           /\ fname' = IF frameindex = 0 THEN fname + 1 ELSE fname
    BY <1>1, StampedRow
  <2>2. pc = "test" /\ pc' = "copy" /\ UNCHANGED <<cubes, frameindex, buffindex, tmsg>>
    BY <1>1 DEF TestsSaving, countVars
  <2>3. \A f \in Names : f > fname' => cubes[f] = <<>>
    BY <2>1 DEF CubeInv, Names
  <2>4. Len(cubes[fname])' = frameindex /\ InBuffer(cubes[fname], buffindex)'
    <3>1. CASE frameindex = 0
      <4>1. cubes'[fname'] = <<>>
        <5>1. fname' > fname
          BY <2>1, <3>1
        <5> QED  BY <2>1, <2>2, <5>1 DEF CubeInv
      <4> QED  BY <3>1, <4>1, <2>2 DEF InBuffer
    <3>2. CASE frameindex > 0
      <4>1. /\ fname' = fname /\ Len(cubes[fname]) = frameindex
            /\ InBuffer(cubes[fname], buffindex)
        BY <2>1, <2>2, <3>2 DEF CubeInv, InProgress
      <4> DEFINE rows == cubes[fname]
      <4>2. rows \in Seq(Row) /\ InBuffer(rows, buffindex) /\ Len(rows) <= frameindex
        BY <4>1, <1>0
      <4>3. rows' = rows /\ buffindex' = buffindex
        BY <2>2, <4>1
      <4> HIDE DEF rows
      <4>4. \A k \in 1 .. Len(rows) : rows[k] = buff'[buffindex][k]
        BY <4>2, <2>1, InBufferKept
      <4> QED  BY <4>1, <4>2, <4>3, <4>4 DEF InBuffer, rows
    <3> QED  BY <3>1, <3>2
  <2> QED  BY <2>2, <2>3, <2>4 DEF CubeInv
<1>2. CASE CopiesFrame
  <2>1. PICK row \in Row :
           /\ row.stamp = buff[buffindex][frameindex + 1].stamp /\ row.img = cnt0
           /\ buffindex \in {0, 1} /\ frameindex + 1 \in 1 .. CubeSize /\ fname \in Names
           /\ buff' = [buff EXCEPT ![buffindex] = [buff[buffindex] EXCEPT ![frameindex + 1] = row]]
           /\ cubes' = [cubes EXCEPT ![fname] = Append(cubes[fname], row)]
    BY <1>2, CopiedRow
  <2>2. /\ pc = "copy" /\ pc' = "decide" /\ frameindex' = frameindex + 1
        /\ UNCHANGED <<fname, buffindex>>
    BY <1>2 DEF CopiesFrame, loopVars
  <2>3. \A f \in Names : f > fname => cubes'[f] = <<>>
    BY <2>1 DEF CubeInv, TypeOK
  <2>4. Len(cubes[fname]) = frameindex /\ InBuffer(cubes[fname], buffindex)
    BY <2>2 DEF CubeInv, InProgress
  <2>5. /\ Len(cubes'[fname]) = frameindex + 1
        /\ \A k \in 1 .. frameindex : cubes'[fname][k] = cubes[fname][k]
        /\ cubes'[fname][frameindex + 1] = row
    <3>1. cubes'[fname] = Append(cubes[fname], row)
      BY <2>1 DEF TypeOK
    <3> QED  BY <1>0, <2>4, <3>1, Appended
  <2>6. /\ \A k \in 1 .. frameindex : buff'[buffindex][k] = buff[buffindex][k]
        /\ buff'[buffindex][frameindex + 1] = row
    <3>1. buff'[buffindex] = [buff[buffindex] EXCEPT ![frameindex + 1] = row]
      BY <2>1 DEF TypeOK
    <3>2. buff[buffindex] \in [1 .. CubeSize -> Row]
      BY <1>0 DEF TypeOK
    <3> QED  BY <2>1, <3>1, <3>2
  <2>7. \A k \in 1 .. frameindex + 1 : cubes'[fname][k] = buff'[buffindex][k]
    <3> SUFFICES ASSUME NEW k \in 1 .. frameindex + 1
                 PROVE  cubes'[fname][k] = buff'[buffindex][k]
      OBVIOUS
    <3>1. CASE k = frameindex + 1
      BY <3>1, <2>5, <2>6
    <3>2. CASE k \in 1 .. frameindex
      BY <3>2, <2>4, <2>5, <2>6 DEF InBuffer
    <3> QED  BY <3>1, <3>2
  <2>8. InBuffer(cubes[fname], buffindex)'
    <3>1. /\ Len(cubes'[fname']) = frameindex + 1
          /\ \A k \in 1 .. frameindex + 1 : cubes'[fname'][k] = buff'[buffindex'][k]
      BY <2>2, <2>5, <2>7
    <3>2. frameindex + 1 <= CubeSize
      BY <2>1
    <3> QED  BY <3>1, <3>2 DEF InBuffer
  <2> QED  BY <2>2, <2>3, <2>5, <2>8 DEF CubeInv
<1>3. CASE FillsName
  BY <1>3 DEF FillsName, CubeInv, InProgress, InBuffer, countVars, loopVars, TypeOK, Message
<1>4. CASE FillsMessage
  <2>1. /\ tmsg'.fname = tmsg.fname /\ tmsg'.cubesize = frameindex /\ tmsg'.buf = buffindex
        /\ tmsg'.partial = (frameindex # CubeSize)
    BY <1>4 DEF FillsMessage, Partial, TypeOK, Message
  <2>2. pc = "fill" /\ pc' = "join" /\ UNCHANGED <<fname, cubes, frameindex, buffindex, buff>>
    BY <1>4 DEF FillsMessage, countVars, loopVars
  <2> QED  BY <2>1, <2>2 DEF CubeInv, InProgress, InBuffer
<1>5. CASE JoinsAndCreates
  <2>1. pc' = "swap" /\ UNCHANGED <<fname, cubes, frameindex, buffindex, buff>>
    BY <1>5 DEF JoinsAndCreates, countVars, loopVars
  <2> QED  BY <2>1 DEF CubeInv, InProgress
<1>6. CASE SwapsBuffers
  <2>1. frameindex' = 0 /\ pc' = "end" /\ UNCHANGED <<fname, cubes>>
    BY <1>6 DEF SwapsBuffers
  <2> QED  BY <2>1 DEF CubeInv, InProgress
<1>7. CASE /\ [Next]_vars
           /\ ~(TestsSaving /\ saveON) /\ ~CopiesFrame /\ ~FillsName /\ ~FillsMessage
           /\ ~JoinsAndCreates /\ ~SwapsBuffers
  <2>1. /\ UNCHANGED <<fname, cubes, frameindex, buffindex, buff, tmsg>>
        /\ pc' = pc \/ pc' \in {"end", "name", "swap", "wait", "test", "decide", "exited"}
        /\ pc = "copy" => pc' = "copy"
        /\ pc = "swap" => pc' = "swap"
    BY <1>7 DEF Next, Body, NewFrame, SameFrame, TestsSaving, DecidesToSave, EndsIteration,
            LeavesLoop, SaveThread, OpensFits, WritesFits, RenamesFits, WritesAscii,
            FailsAfterFree, NotTheThread, WriterWrites, OperatorSets, vars, countVars, loopVars
  <2> QED  BY <2>1 DEF CubeInv, InProgress, InBuffer
<1> QED  BY <1>1, <1>2, <1>3, <1>4, <1>5, <1>6, <1>7

------------------------------------------------------------------------------
(* The buffers.                                                            *)

LEMMA StepApart ==
  ASSUME BaseInv, ApartInv, [Next]_vars
  PROVE  ApartInv'
<1> USE CountTypes, ConstantsAssumption DEF BaseInv
<1>0. saver \in Saver /\ buffindex \in {0, 1} /\ saver.home \in {0, 1}
  BY Fields DEF TypeOK
<1>1. CASE CopiesFrame
  <2>1. /\ UNCHANGED <<saver, buffindex, swapped>>
        /\ pc = "copy" /\ pc' = "decide"
    BY <1>1 DEF CopiesFrame, loopVars
  <2> QED  BY <2>1 DEF ApartInv, Saving
<1>2. CASE DecidesToSave
  <2>1. /\ UNCHANGED <<saver, buffindex, swapped, frameindex>>
        /\ pc = "decide" /\ (pc' = "swap" => ~(frameindex > 0))
    BY <1>2 DEF DecidesToSave, loopVars, countVars
  <2> QED  BY <2>1 DEF ApartInv, Saving
<1>3. CASE JoinsAndCreates
  <2>1. /\ UNCHANGED <<buffindex, frameindex>> /\ pc = "join" /\ pc' = "swap"
        /\ saver'.home = buffindex
    BY <1>0, <1>3 DEF JoinsAndCreates, loopVars, countVars, Saver
  <2>2. frameindex > 0
    BY <2>1 DEF IndexInv
  <2> QED  BY <2>1, <2>2 DEF ApartInv
<1>4. CASE SwapsBuffers
  <2>1. /\ saver' = saver /\ pc = "swap" /\ pc' = "end" /\ buffindex' = 1 - buffindex
        /\ swapped' = (swapped \/ frameindex = 0)
    BY <1>4 DEF SwapsBuffers, NextBuffer
  <2>2. ~swapped' => ~swapped /\ frameindex # 0
    BY <2>1, Zenon
  <2>3. Saving /\ ~swapped' => saver.home = buffindex
    BY <2>1, <2>2 DEF ApartInv
  <2> QED  BY <1>0, <2>1, <2>3 DEF ApartInv, Saving
<1>5. CASE SaveThread
  <2>1. /\ UNCHANGED <<buffindex, swapped, pc, frameindex>> /\ saver'.home = saver.home
        /\ Saving
    BY <1>0, <1>5 DEF SaveThread, OpensFits, WritesFits, RenamesFits, WritesAscii, FailsAfterFree,
                      NotTheThread, countVars, loopVars, Saving, Saver
  <2> QED  BY <2>1 DEF ApartInv
<1>6. CASE /\ [Next]_vars /\ ~SaveThread
           /\ ~CopiesFrame /\ ~DecidesToSave /\ ~JoinsAndCreates /\ ~SwapsBuffers
  <2>1. /\ UNCHANGED <<saver, buffindex, swapped, frameindex>>
        /\ pc' = pc \/ (pc # "swap" /\ pc' # "swap")
    BY <1>6 DEF Next, Body, NewFrame, SameFrame, TestsSaving, FillsName, FillsMessage,
            EndsIteration, LeavesLoop, WriterWrites, OperatorSets, vars, countVars, loopVars
  <2> QED  BY <2>1 DEF ApartInv, Saving
<1> QED  BY <1>1, <1>2, <1>3, <1>4, <1>5, <1>6

(* While a thread saves a buffer the loop writes to the other one, unless  *)
(* it has given up an empty buffer since it created the thread.            *)
BuffersApart == Saving /\ pc \in {"test", "copy"} /\ saver.home = buffindex => swapped

THEOREM BuffersAreApart == Spec => []BuffersApart
<1>1. Init => ApartInv
  BY DEF Init, ApartInv, Saving
<1>2. BaseInv /\ ApartInv /\ [Next]_vars => ApartInv'
  BY StepApart
<1>3. ApartInv => BuffersApart
  BY DEF ApartInv, BuffersApart
<1> QED  BY <1>1, <1>2, <1>3, InitBase, StepBase, PTL DEF Spec

------------------------------------------------------------------------------
(* The thread.                                                             *)

LEMMA RowsOfBuffer ==
  ASSUME TypeOK, NEW rows \in Seq(Row), NEW b \in {0, 1}, InBuffer(rows, b)
  PROVE  FirstRows(b, Len(rows)) = rows
<1>1. Len(rows) \in 0 .. CubeSize
  BY LenProperties, ConstantsAssumption DEF InBuffer
<1>2. /\ FirstRows(b, Len(rows)) \in Seq(Row) /\ Len(FirstRows(b, Len(rows))) = Len(rows)
      /\ \A k \in 1 .. Len(rows) : FirstRows(b, Len(rows))[k] = buff[b][k]
  BY <1>1, FirstRowsProperties
<1>3. \A k \in 1 .. Len(rows) : FirstRows(b, Len(rows))[k] = rows[k]
  BY <1>2 DEF InBuffer
<1> QED  BY <1>2, <1>3, SeqEqual

(* What a step may do that leaves the thread and its buffer alone.         *)
LEMMA ThreadKept ==
  ASSUME ThreadInv, SavedAsRecorded,
         UNCHANGED <<saver, saved, fits, txt, cubes, buff, tmsg, fname>>,
         InProgress' => InProgress,
         disturbed => disturbed',
         pc' \in {"fill", "join", "exited"} /\ Saving => disturbed' \/ pc' = pc
  PROVE  ThreadInv' /\ SavedAsRecorded'
<1>1. SavedAsRecorded'
  BY DEF SavedAsRecorded
<1>2. Saving' <=> Saving
  BY DEF Saving
<1>3. (\A f \in saved : f <= fname /\ (InProgress => f # fname))'
  BY DEF ThreadInv
<1>4. (Saving => /\ saver.cube <= fname /\ (InProgress => saver.cube # fname)
                 /\ saver.cube \notin saved /\ tmsg.fname \notin saved
                 /\ pc \in {"fill", "join", "exited"} => disturbed)'
  BY <1>2 DEF ThreadInv
<1>5. Saving' /\ ~disturbed' => Saving /\ ~disturbed
  BY <1>2
<1> QED
  BY <1>1, <1>2, <1>3, <1>4, <1>5 DEF ThreadInv, InBuffer

LEMMA LoopThread ==
  ASSUME BaseInv, CubeInv, ThreadInv, SavedAsRecorded, BuffersApart, Body
  PROVE  ThreadInv' /\ SavedAsRecorded'
<1> USE CountTypes, ConstantsAssumption DEF BaseInv
<1>0. /\ buffindex \in {0, 1} /\ fname \in Names /\ saved \subseteq Names
      /\ \A f \in Names : cubes[f] \in Seq(Row)
      /\ saver.cube \in Names /\ saver.home \in {0, 1}
  BY Fields DEF TypeOK
<1>1. CASE NewFrame \/ SameFrame \/ DecidesToSave \/ EndsIteration \/ (TestsSaving /\ ~saveON)
  <2>1. /\ UNCHANGED <<saver, saved, fits, txt, cubes, buff, tmsg, fname, disturbed, frameindex>>
        /\ pc' \in {"test", "decide", "end", "name", "swap", "wait"}
        /\ pc # "swap"
    BY <1>1 DEF NewFrame, SameFrame, DecidesToSave, EndsIteration, TestsSaving, fileVars,
                countVars, loopVars
  <2>2. InProgress' => InProgress
    BY <2>1 DEF InProgress
  <2> QED  BY <2>1, <2>2, ThreadKept
<1>2. CASE TestsSaving /\ saveON
  <2>1. PICK row \in Row :
           /\ buffindex \in {0, 1} /\ frameindex + 1 \in 1 .. CubeSize
           /\ buff' = [buff EXCEPT ![buffindex] = [buff[buffindex] EXCEPT ![frameindex + 1] = row]]
           /\ fname \in Names /\ fname' \in Names
           /\ fname' = IF frameindex = 0 THEN fname + 1 ELSE fname
    BY <1>2, StampedRow
  <2>2. /\ pc = "test" /\ pc' = "copy"
        /\ UNCHANGED <<saver, saved, fits, txt, cubes, tmsg, frameindex>>
        /\ disturbed' = (disturbed \/ (Saving /\ saver.home = buffindex /\ swapped))
    BY <1>2 DEF TestsSaving, countVars, fileVars, DisturbsBuffer
  <2>3. \A f \in Names : f <= fname /\ (InProgress => f # fname) => f <= fname' /\ f # fname'
    <3>1. CASE frameindex = 0
      BY <2>1, <3>1 DEF Names
    <3>2. CASE frameindex > 0
      BY <2>1, <2>2, <3>2 DEF InProgress
    <3> QED  BY <3>1, <3>2
  <2>4. Saving' <=> Saving
    BY <2>2 DEF Saving
  <2>5. Saving /\ ~disturbed' => InBuffer(cubes[saver.cube], saver.home)'
    <3> SUFFICES ASSUME Saving, ~disturbed'  PROVE InBuffer(cubes[saver.cube], saver.home)'
      OBVIOUS
    <3>i. ~disturbed /\ ~(saver.home = buffindex /\ swapped)
      BY <2>2, Zenon
    <3>1. ~disturbed /\ saver.home # buffindex
      BY <3>i, <2>2 DEF BuffersApart
    <3>2. InBuffer(cubes[saver.cube], saver.home)
      BY <3>1 DEF ThreadInv
    <3>3. /\ Len(cubes[saver.cube]) <= CubeSize
          /\ \A k \in 1 .. Len(cubes[saver.cube]) : cubes[saver.cube][k] = buff'[saver.home][k]
      <4> DEFINE rows == cubes[saver.cube]
                 home == saver.home
      <4>1. rows \in Seq(Row) /\ home \in {0, 1} /\ InBuffer(rows, home) /\ buffindex # home
        BY <1>0, <3>1, <3>2
      <4> HIDE DEF rows, home
      <4>2. Len(rows) <= CubeSize /\ \A k \in 1 .. Len(rows) : rows[k] = buff'[home][k]
        BY <4>1, <2>1, InBufferKept
      <4> QED  BY <4>2 DEF rows, home
    <3> QED  BY <3>3, <2>2 DEF InBuffer
  <2>6. SavedAsRecorded'
    BY <2>2 DEF SavedAsRecorded
  <2>7. (\A f \in saved : f <= fname /\ (InProgress => f # fname))'
    BY <1>0, <2>2, <2>3 DEF ThreadInv
  <2>8. (Saving => /\ saver.cube <= fname /\ (InProgress => saver.cube # fname)
                   /\ saver.cube \notin saved /\ tmsg.fname \notin saved
                   /\ pc \in {"fill", "join", "exited"} => disturbed)'
    BY <1>0, <2>2, <2>3, <2>4 DEF ThreadInv
  <2>9. Saving' /\ ~disturbed' => Saving /\ ~disturbed
    BY <2>2, <2>4, Zenon
  <2> QED  BY <2>2, <2>4, <2>5, <2>6, <2>7, <2>8, <2>9 DEF ThreadInv
<1>3. CASE CopiesFrame
  <2>1. PICK row \in Row :
           /\ row.stamp = buff[buffindex][frameindex + 1].stamp /\ row.img = cnt0
           /\ buffindex \in {0, 1} /\ frameindex + 1 \in 1 .. CubeSize /\ fname \in Names
           /\ buff' = [buff EXCEPT ![buffindex] = [buff[buffindex] EXCEPT ![frameindex + 1] = row]]
           /\ cubes' = [cubes EXCEPT ![fname] = Append(cubes[fname], row)]
    BY <1>3, CopiedRow
  <2>2. /\ pc = "copy" /\ pc' = "decide"
        /\ UNCHANGED <<saver, saved, fits, txt, tmsg, fname>>
        /\ disturbed' = (disturbed \/ (Saving /\ saver.home = buffindex /\ swapped))
    BY <1>3 DEF CopiesFrame, loopVars, fileVars, DisturbsBuffer
  <2>3. InProgress
    BY <2>2 DEF InProgress
  <2>4. \A f \in Names : f # fname => cubes'[f] = cubes[f]
    BY <2>1 DEF TypeOK
  <2>5. Saving' <=> Saving
    BY <2>2 DEF Saving
  <2>6. Saving => cubes'[saver.cube] = cubes[saver.cube]
    BY <1>0, <2>3, <2>4 DEF ThreadInv
  <2>7. Saving /\ ~disturbed' => InBuffer(cubes[saver.cube], saver.home)'
    <3> SUFFICES ASSUME Saving, ~disturbed'  PROVE InBuffer(cubes[saver.cube], saver.home)'
      OBVIOUS
    <3>i. ~disturbed /\ ~(saver.home = buffindex /\ swapped)
      BY <2>2, Zenon
    <3>1. ~disturbed /\ saver.home # buffindex
      BY <3>i, <2>2 DEF BuffersApart
    <3>2. InBuffer(cubes[saver.cube], saver.home)
      BY <3>1 DEF ThreadInv
    <3>3. /\ Len(cubes[saver.cube]) <= CubeSize
          /\ \A k \in 1 .. Len(cubes[saver.cube]) : cubes[saver.cube][k] = buff'[saver.home][k]
      <4> DEFINE rows == cubes[saver.cube]
                 home == saver.home
      <4>1. rows \in Seq(Row) /\ home \in {0, 1} /\ InBuffer(rows, home) /\ buffindex # home
        BY <1>0, <3>1, <3>2
      <4> HIDE DEF rows, home
      <4>2. Len(rows) <= CubeSize /\ \A k \in 1 .. Len(rows) : rows[k] = buff'[home][k]
        BY <4>1, <2>1, InBufferKept
      <4> QED  BY <4>2 DEF rows, home
    <3> QED  BY <3>3, <2>2, <2>6 DEF InBuffer
  <2>8. SavedAsRecorded'
    <3>1. \A f \in saved : cubes'[f] = cubes[f]
      BY <1>0, <2>3, <2>4 DEF ThreadInv
    <3> QED  BY <3>1, <2>2 DEF SavedAsRecorded
  <2>9. (\A f \in saved : f <= fname /\ (InProgress => f # fname))'
    BY <2>2, <2>3 DEF ThreadInv
  <2>10. (Saving => /\ saver.cube <= fname /\ (InProgress => saver.cube # fname)
                    /\ saver.cube \notin saved /\ tmsg.fname \notin saved
                    /\ pc \in {"fill", "join", "exited"} => disturbed)'
    BY <2>2, <2>3, <2>5 DEF ThreadInv
  <2>11. Saving' /\ ~disturbed' => Saving /\ ~disturbed
    BY <2>2, <2>5, Zenon
  <2> QED  BY <2>2, <2>5, <2>6, <2>7, <2>8, <2>9, <2>10, <2>11 DEF ThreadInv
<1>4. CASE FillsName
  <2>1. /\ pc = "name" /\ pc' = "fill" /\ disturbed' = (disturbed \/ Saving)
        /\ UNCHANGED <<saver, saved, fits, txt, cubes, fname, frameindex>>
        /\ tmsg'.fname = fname
    BY <1>4, Fields DEF FillsName, countVars, loopVars, fileVars, TypeOK, Message
  <2>2. InProgress
    BY <2>1 DEF InProgress, IndexInv
  <2>3. Saving' <=> Saving
    BY <2>1 DEF Saving
  <2>4. SavedAsRecorded'
    BY <2>1 DEF SavedAsRecorded
  <2>5. Saving' => disturbed'
    BY <2>1, <2>3, Zenon
  <2>6. \A f \in saved : f <= fname /\ f # fname
    BY <2>2 DEF ThreadInv
  <2> QED  BY <2>1, <2>2, <2>3, <2>4, <2>5, <2>6 DEF ThreadInv
<1>5. CASE FillsMessage
  <2>1. /\ pc = "fill" /\ pc' = "join"
        /\ UNCHANGED <<saver, saved, fits, txt, cubes, fname, frameindex, disturbed>>
        /\ tmsg'.fname = tmsg.fname
    BY <1>5, Fields DEF FillsMessage, countVars, loopVars, fileVars, TypeOK, Message
  <2>2. InProgress
    BY <2>1 DEF InProgress, IndexInv
  <2>3. Saving' <=> Saving
    BY <2>1 DEF Saving
  <2>4. SavedAsRecorded'
    BY <2>1 DEF SavedAsRecorded
  <2>5. Saving' => disturbed'
    BY <2>1, <2>3 DEF ThreadInv
  <2> QED  BY <2>1, <2>2, <2>3, <2>4, <2>5 DEF ThreadInv
<1>6. CASE JoinsAndCreates
  <2>1. /\ pc = "join" /\ pc' = "swap"
        /\ UNCHANGED <<saved, fits, txt, cubes, buff, tmsg, fname, frameindex>>
        /\ saver'.step = "open" /\ saver'.cube = fname /\ saver'.home = buffindex
    BY <1>6 DEF JoinsAndCreates, countVars, loopVars, fileVars, TypeOK, Saver
  <2>2. InProgress /\ ~InProgress'
    BY <2>1 DEF InProgress, IndexInv
  <2>3. SavedAsRecorded'
    BY <2>1 DEF SavedAsRecorded
  <2>4. fname \notin saved /\ \A f \in saved : f <= fname
    BY <2>2 DEF ThreadInv
  <2>5. /\ Len(cubes[fname]) = frameindex /\ InBuffer(cubes[fname], buffindex)
        /\ tmsg.fname = fname /\ tmsg.cubesize = frameindex /\ tmsg.buf = buffindex
        /\ (tmsg.partial \/ frameindex = CubeSize)
    BY <2>1, <2>2 DEF CubeInv
  <2>6. InBuffer(cubes[saver.cube], saver.home)'
    BY <2>1, <2>5 DEF InBuffer
  <2>7. (/\ tmsg.fname = saver.cube /\ tmsg.buf = saver.home
         /\ tmsg.cubesize = Len(cubes[saver.cube]) /\ (tmsg.partial \/ tmsg.cubesize = CubeSize))'
    BY <2>1, <2>5
  <2> QED  BY <2>1, <2>2, <2>3, <2>4, <2>5, <2>6, <2>7 DEF ThreadInv
<1>7. CASE SwapsBuffers
  <2>1. /\ UNCHANGED <<saver, saved, fits, txt, cubes, buff, tmsg, fname, disturbed>>
        /\ pc' = "end" /\ frameindex' = 0
    BY <1>7 DEF SwapsBuffers, fileVars
  <2>2. ~InProgress'
    BY <2>1 DEF InProgress
  <2> QED  BY <2>1, <2>2, ThreadKept
<1> QED  BY <1>1, <1>2, <1>3, <1>4, <1>5, <1>6, <1>7 DEF Body

LEMMA ThreadThread ==
  ASSUME BaseInv, ThreadInv, SavedAsRecorded, SaveThread
  PROVE  ThreadInv' /\ SavedAsRecorded'
<1> USE CountTypes, ConstantsAssumption DEF BaseInv
<1>0. /\ saved \subseteq Names /\ \A f \in Names : cubes[f] \in Seq(Row)
      /\ saver \in Saver /\ saver.cube \in Names /\ saver.home \in {0, 1}
      /\ tmsg.fname \in Names
  BY Fields DEF TypeOK
<1>1. UNCHANGED <<cubes, buff, tmsg, fname, disturbed, pc, frameindex>>
  BY DEF SaveThread, OpensFits, WritesFits, RenamesFits, WritesAscii, FailsAfterFree,
         NotTheThread, countVars, loopVars
<1>2. (InProgress' <=> InProgress) /\ \A rows, b : InBuffer(rows, b)' <=> InBuffer(rows, b)
  BY <1>1 DEF InProgress, InBuffer
<1>3. ASSUME Saving  PROVE FirstRows(saver.home, Len(cubes[saver.cube])) = cubes[saver.cube] \/ disturbed
  BY <1>0, <1>3, RowsOfBuffer DEF ThreadInv
<1>4. CASE OpensFits
  <2>1. /\ saver.step = "open" /\ saver'.step = "write"
        /\ saver'.cube = saver.cube /\ saver'.home = saver.home
        /\ saver'.buf = tmsg.buf /\ saver'.n = IF tmsg.partial THEN tmsg.cubesize ELSE CubeSize
        /\ UNCHANGED <<saved, fits, txt>>
    BY <1>0, <1>4 DEF OpensFits, Saver, fileVars
  <2>2. Saving /\ Saving'
    BY <2>1 DEF Saving
  <2>3. ~disturbed => saver'.n = tmsg.cubesize
    <3> SUFFICES ASSUME ~disturbed  PROVE saver'.n = tmsg.cubesize
      OBVIOUS
    <3>1. tmsg.partial \/ tmsg.cubesize = CubeSize
      BY <2>2 DEF ThreadInv
    <3> QED  BY <2>1, <3>1
  <2>4. SavedAsRecorded'
    BY <1>1, <2>1 DEF SavedAsRecorded
  <2> QED  BY <1>1, <1>2, <2>1, <2>2, <2>3, <2>4 DEF ThreadInv, InBuffer
<1>5. CASE WritesFits
  <2>1. /\ saver.step = "write" /\ saver'.step = "rename"
        /\ saver'.cube = saver.cube /\ saver'.home = saver.home
        /\ saver'.buf = saver.buf /\ saver'.n = saver.n
        /\ saver'.imgs = Imgs(FirstRows(saver.buf, saver.n))
        /\ UNCHANGED <<saved, fits, txt>>
    BY <1>0, <1>5 DEF WritesFits, Saver, fileVars
  <2>2. Saving /\ Saving'
    BY <2>1 DEF Saving
  <2>3. ~disturbed => saver'.imgs = Imgs(cubes[saver.cube])
    <3> SUFFICES ASSUME ~disturbed  PROVE saver'.imgs = Imgs(cubes[saver.cube])
      OBVIOUS
    <3>1. saver.n = Len(cubes[saver.cube]) /\ saver.buf = saver.home
      BY <2>1, <2>2 DEF ThreadInv
    <3> QED  BY <2>1, <2>2, <3>1, <1>3
  <2>4. SavedAsRecorded'
    BY <1>1, <2>1 DEF SavedAsRecorded
  <2>5. (saver.imgs = Imgs(cubes[saver.cube]))' <=> saver'.imgs = Imgs(cubes[saver.cube])
    BY <1>1, <2>1 DEF Imgs
  <2> QED  BY <1>1, <1>2, <2>1, <2>2, <2>3, <2>4, <2>5 DEF ThreadInv, InBuffer
<1>6. CASE RenamesFits
  <2>1. /\ saver.step = "rename" /\ saver'.step = "ascii"
        /\ saver'.cube = saver.cube /\ saver'.home = saver.home
        /\ saver'.buf = saver.buf /\ saver'.n = saver.n
        /\ fits' = [fits EXCEPT ![tmsg.fname] = saver.imgs]
        /\ UNCHANGED <<saved, txt>>
    BY <1>0, <1>6 DEF RenamesFits, Saver
  <2>2. Saving /\ Saving'
    BY <2>1 DEF Saving
  <2>3. tmsg.fname \notin saved
    BY <2>2 DEF ThreadInv
  <2>4. \A f \in saved : fits'[f] = fits[f]
    BY <1>0, <2>1, <2>3 DEF TypeOK
  <2>5. SavedAsRecorded'
    BY <1>1, <2>1, <2>4 DEF SavedAsRecorded
  <2>6. ~disturbed => fits'[saver.cube] = Imgs(cubes[saver.cube])
    <3> SUFFICES ASSUME ~disturbed  PROVE fits'[saver.cube] = Imgs(cubes[saver.cube])
      OBVIOUS
    <3>1. saver.imgs = Imgs(cubes[saver.cube]) /\ tmsg.fname = saver.cube
      BY <2>1, <2>2 DEF ThreadInv
    <3> QED  BY <1>0, <2>1, <3>1 DEF TypeOK
  <2>7. (fits[saver.cube] = Imgs(cubes[saver.cube]))' <=> fits'[saver.cube] = Imgs(cubes[saver.cube])
    BY <1>1, <2>1 DEF Imgs
  <2> QED  BY <1>1, <1>2, <2>1, <2>2, <2>5, <2>6, <2>7 DEF ThreadInv, InBuffer
<1>7. CASE WritesAscii
  <2>1. /\ saver.step = "ascii" /\ saver'.step = "idle"
        /\ txt' = [txt EXCEPT ![tmsg.fname] = Stamps(FirstRows(tmsg.buf, tmsg.cubesize))]
        /\ saved' = IF disturbed THEN saved ELSE saved \cup {saver.cube}
        /\ fits' = fits
    BY <1>0, <1>7 DEF WritesAscii, Saver
  <2>2. Saving /\ ~Saving'
    BY <2>1 DEF Saving
  <2>3. tmsg.fname \notin saved
    BY <2>2 DEF ThreadInv
  <2>4. \A f \in saved : txt'[f] = txt[f]
    BY <1>0, <2>1, <2>3 DEF TypeOK
  <2>5. \A f \in saved : fits'[f] = Imgs(cubes[f]) /\ txt'[f] = Stamps(cubes[f])
    BY <2>1, <2>4 DEF SavedAsRecorded
  <2>6. ~disturbed => /\ fits'[saver.cube] = Imgs(cubes[saver.cube])
                     /\ txt'[saver.cube] = Stamps(cubes[saver.cube])
    <3> SUFFICES ASSUME ~disturbed
                 PROVE  /\ fits'[saver.cube] = Imgs(cubes[saver.cube])
                        /\ txt'[saver.cube] = Stamps(cubes[saver.cube])
      OBVIOUS
    <3>1. /\ fits[saver.cube] = Imgs(cubes[saver.cube]) /\ tmsg.fname = saver.cube
          /\ tmsg.buf = saver.home /\ tmsg.cubesize = Len(cubes[saver.cube])
      BY <2>1, <2>2 DEF ThreadInv
    <3>2. Stamps(FirstRows(tmsg.buf, tmsg.cubesize)) = Stamps(cubes[saver.cube])
      BY <2>2, <3>1, <1>3
    <3> QED  BY <1>0, <2>1, <3>1, <3>2 DEF TypeOK
  <2>7. \A f \in saved' : fits'[f] = Imgs(cubes[f]) /\ txt'[f] = Stamps(cubes[f])
    BY <2>1, <2>5, <2>6
  <2>8. SavedAsRecorded'
    BY <1>1, <2>7 DEF SavedAsRecorded, Imgs, Stamps
  <2>9. \A f \in saved' : f <= fname /\ (InProgress => f # fname)
    BY <2>1, <2>2 DEF ThreadInv
  <2> QED  BY <1>1, <1>2, <2>2, <2>8, <2>9 DEF ThreadInv
<1>8. CASE FailsAfterFree
  <2>1. saver'.step = "crashed" /\ UNCHANGED <<saved, fits, txt>>
    BY <1>0, <1>8 DEF FailsAfterFree, Saver, fileVars
  <2>2. ~Saving'
    BY <2>1 DEF Saving
  <2>3. SavedAsRecorded'
    BY <1>1, <2>1 DEF SavedAsRecorded
  <2> QED  BY <1>1, <1>2, <2>1, <2>2, <2>3 DEF ThreadInv
<1> QED  BY <1>4, <1>5, <1>6, <1>7, <1>8 DEF SaveThread

LEMMA StepThread ==
  ASSUME BaseInv, CubeInv, ThreadInv, SavedAsRecorded, BuffersApart, [Next]_vars
  PROVE  ThreadInv' /\ SavedAsRecorded'
<1>1. CASE Body
  BY <1>1, LoopThread
<1>2. CASE SaveThread
  BY <1>2, ThreadThread
<1>3. CASE LeavesLoop
  <2>1. /\ UNCHANGED <<saver, saved, fits, txt, cubes, buff, tmsg, fname, frameindex>>
        /\ pc = "wait" /\ pc' = "exited" /\ disturbed' = (disturbed \/ Saving)
    BY <1>3 DEF LeavesLoop, countVars, loopVars, fileVars
  <2>2. InProgress' => InProgress
    BY <2>1 DEF InProgress
  <2>3. (disturbed => disturbed') /\ (Saving => disturbed')
    BY <2>1, Zenon
  <2> QED  BY <2>1, <2>2, <2>3, ThreadKept
<1>4. CASE WriterWrites \/ OperatorSets \/ UNCHANGED vars
  <2>1. UNCHANGED <<saver, saved, fits, txt, cubes, buff, tmsg, fname, frameindex, pc, disturbed>>
    BY <1>4 DEF WriterWrites, OperatorSets, vars, countVars, loopVars, fileVars
  <2>2. InProgress' => InProgress
    BY <2>1 DEF InProgress
  <2> QED  BY <2>1, <2>2, ThreadKept
<1> QED  BY <1>1, <1>2, <1>3, <1>4 DEF Next

(* What a thread saves is what was recorded, and stays so, unless its      *)
(* message was filled again or freed while it ran, or the loop wrote into  *)
(* its buffer after giving up an empty one: double buffering suffices for  *)
(* all other writes, by BuffersAreApart.                                   *)
THEOREM SavedIsRecorded == Spec => []SavedAsRecorded
<1>1. Init => CubeInv /\ ThreadInv /\ SavedAsRecorded
  <2> SUFFICES ASSUME Init  PROVE CubeInv /\ ThreadInv /\ SavedAsRecorded
    OBVIOUS
  <2>1. /\ \A f \in Names : cubes[f] = <<>>
        /\ ~InProgress /\ pc = "wait" /\ saved = {} /\ saver.step = "idle"
    BY DEF Init, InProgress
  <2> QED  BY <2>1 DEF CubeInv, ThreadInv, SavedAsRecorded, Saving
<1>2. BaseInv /\ CubeInv /\ [Next]_vars => CubeInv'
  BY StepCube
<1>3. BaseInv /\ CubeInv /\ ThreadInv /\ SavedAsRecorded /\ BuffersApart /\ [Next]_vars
        => ThreadInv' /\ SavedAsRecorded'
  BY StepThread
<1> QED  BY <1>1, <1>2, <1>3, InitBase, StepBase, BuffersAreApart, PTL DEF Spec
=============================================================================
