------------------------------ MODULE LogShmim ------------------------------
(***************************************************************************)
(* The stream logger (streamFITSlog): a loop that copies the frames of a   *)
(* stream into two buffers in turn, and a save thread that writes the      *)
(* other buffer to a FITS file and its timing table to a text file.  The   *)
(* loop and the thread share one message, tmsg, and the buffers, with no   *)
(* lock: the only synchronisation is that the loop joins a thread before   *)
(* it creates the next one.  The stream is written, and the parameters     *)
(* saveON, lastcubeON and nextcube are set, at any time by others.         *)
(*                                                                         *)
(* A frame is the value of cnt0 it was written with.  The name of a file   *)
(* is the time at which its cube was begun, to the nanosecond: here the    *)
(* number of the cube.  Headers and compression are left out.              *)
(***************************************************************************)
EXTENDS Integers, Sequences

CONSTANTS
  CubeSize,       \* cubesize: frames in a buffer
  MaxFrameCnt,    \* maxframecnt: frames after which saving is turned off
  MaxFileCnt,     \* maxfilecnt: files after which saving is turned off
  ExtraTriggers,  \* may the loop be triggered without a new frame?
  MaxFrames,      \* bound: frames written to the stream
  MaxKeys         \* bound: parameters set by the operator

ASSUME ConstantsAssumption ==
  /\ CubeSize \in Nat \ {0}
  /\ MaxFrameCnt \in Nat \ {0} /\ MaxFileCnt \in Nat \ {0}
  /\ ExtraTriggers \in BOOLEAN
  /\ MaxFrames \in Nat /\ MaxKeys \in Nat

VARIABLES
  cnt0,                             \* the stream: frames written
  saveON, lastcubeON, nextcube,     \* parameters, set by the operator and by the loop
  frameindex, framecnt, filecnt,    \* parameters, output of the loop
  pc, lastcnt0, saveON_last, lastcube, buffindex, fname,  \* locals of the loop
  buff,                             \* the two buffers, with their timing tables
  tmsg,                             \* the message to the save thread
  saver,                            \* the save thread
  fits, txt,                        \* the files written
  cubes,                            \* history: the frames recorded for each file
  saved,                            \* history: cubes saved by a thread left undisturbed
  disturbed,                        \* history: may what the thread works on have been changed?
  swapped,                          \* history: an empty buffer given up since it began?
  nframes, nfiles,                  \* history: recorded and saved since saving was turned on
  nkeys

paramVars == <<saveON, lastcubeON, nextcube>>
countVars == <<frameindex, framecnt, filecnt>>
loopVars  == <<lastcnt0, saveON_last, lastcube, buffindex, fname>>
fileVars  == <<fits, txt, saved>>
sinceVars == <<nframes, nfiles>>
vars == <<cnt0, paramVars, countVars, pc, loopVars, buff, tmsg, saver, fileVars, cubes, disturbed,
          swapped, sinceVars, nkeys>>

Frames == 0 .. MaxFrames
Names  == 0 .. MaxFrames
Row    == [stamp : Frames, img : Frames]

\* arraycnt0 and the like point into the timing table of the buffer named by iname.
Message == [fname : Names, cubesize : 0 .. CubeSize, partial : BOOLEAN, buf : {0, 1}]

\* cube and home are history: the cube it was created for, and the buffer that held it.
Saver == [step : {"idle", "open", "write", "rename", "ascii", "crashed"},
          n : 0 .. CubeSize, buf : {0, 1}, imgs : Seq(Frames), cube : Names, home : {0, 1}]

Saving == saver.step \notin {"idle", "crashed"}

FirstRows(b, n) == [k \in 1 .. n |-> buff[b][k]]
Imgs(rows)   == [k \in DOMAIN rows |-> rows[k].img]
Stamps(rows) == [k \in DOMAIN rows |-> rows[k].stamp]

TypeOK ==
  /\ cnt0 \in Frames
  /\ saveON \in BOOLEAN /\ lastcubeON \in BOOLEAN /\ nextcube \in BOOLEAN
  /\ frameindex \in 0 .. CubeSize /\ framecnt \in Nat /\ filecnt \in Nat
  /\ pc \in {"wait", "test", "copy", "decide", "name", "fill", "join", "swap", "end", "exited"}
  /\ lastcnt0 \in Frames /\ saveON_last \in BOOLEAN /\ lastcube \in BOOLEAN
  /\ buffindex \in {0, 1} /\ fname \in Names
  /\ buff \in [{0, 1} -> [1 .. CubeSize -> Row]]
  /\ tmsg \in Message /\ saver \in Saver
  /\ fits \in [Names -> Seq(Frames)] /\ txt \in [Names -> Seq(Frames)]
  /\ cubes \in [Names -> Seq(Row)] /\ saved \subseteq Names
  /\ disturbed \in BOOLEAN /\ swapped \in BOOLEAN
  /\ nframes \in Nat /\ nfiles \in Nat /\ nkeys \in 0 .. MaxKeys

------------------------------------------------------------------------------

NoRow == [stamp |-> 0, img |-> 0]

Init ==
  /\ cnt0 = 0
  /\ saveON \in BOOLEAN /\ lastcubeON = FALSE /\ nextcube = FALSE
  /\ frameindex = 0 /\ framecnt = 0 /\ filecnt = 0
  /\ pc = "wait" /\ lastcnt0 = 0 /\ saveON_last = saveON /\ lastcube = FALSE
  /\ buffindex = 0 /\ fname = 0
  /\ buff = [b \in {0, 1} |-> [k \in 1 .. CubeSize |-> NoRow]]
  /\ tmsg = [fname |-> 0, cubesize |-> 0, partial |-> FALSE, buf |-> 0]
  /\ saver = [step |-> "idle", n |-> 0, buf |-> 0, imgs |-> <<>>, cube |-> 0, home |-> 0]
  /\ fits = [f \in Names |-> <<>>] /\ txt = [f \in Names |-> <<>>]
  /\ cubes = [f \in Names |-> <<>>] /\ saved = {}
  /\ disturbed = FALSE /\ swapped = FALSE
  /\ nframes = 0 /\ nfiles = 0 /\ nkeys = 0

------------------------------------------------------------------------------
(* The loop, from a trigger to the next.  A trigger that times out skips   *)
(* the body altogether (the macro's continue).                             *)

FramesDone(n) == n >= MaxFrameCnt

\* Fault: saving stops one file late.
FilesDoneLate(n) == n >= MaxFileCnt
FilesDone(n) == n >= MaxFileCnt - 1

\* A new frame: the counts restart when saving was turned on since the last
\* iteration, and the limits are looked at.
NewFrame ==
  /\ pc = "wait" /\ cnt0 # lastcnt0
  /\ lastcnt0' = cnt0
  /\ LET restarts == ~saveON_last /\ saveON
     IN /\ framecnt' = IF restarts THEN 0 ELSE framecnt
        /\ filecnt' = IF restarts THEN 0 ELSE filecnt
        /\ lastcube' = (FilesDone(filecnt') \/ (lastcube /\ ~restarts))
        /\ saveON' = (saveON /\ ~FramesDone(framecnt'))
  /\ pc' = "test"
  /\ UNCHANGED <<cnt0, lastcubeON, nextcube, frameindex, saveON_last, buffindex, fname, buff, tmsg,
                 saver, fileVars, cubes, disturbed, swapped, sinceVars, nkeys>>

SameFrame ==
  /\ pc = "wait" /\ cnt0 = lastcnt0 /\ ExtraTriggers
  /\ pc' = "decide"
  /\ UNCHANGED <<cnt0, paramVars, countVars, loopVars, buff, tmsg, saver, fileVars, cubes,
                 disturbed, swapped, sinceVars, nkeys>>

\* What the save thread reads may be written to, when an empty buffer was given
\* up since the thread began: otherwise the buffers are to be apart.
DisturbsBuffer == disturbed' = (disturbed \/ (Saving /\ saver.home = buffindex /\ swapped))

\* Fault: the counter the next frame will have is noted.
StampNext == cnt0 + 1
Stamp == cnt0

\* The first frame of a cube names its files; cnt0 is read again for the table.
TestsSaving ==
  /\ pc = "test"
  /\ IF saveON
     THEN /\ fname' = IF frameindex = 0 THEN fname + 1 ELSE fname
          /\ buff' = [buff EXCEPT ![buffindex][frameindex + 1].stamp = Stamp]
          /\ DisturbsBuffer
          /\ pc' = "copy"
     ELSE pc' = "decide" /\ UNCHANGED <<fname, buff, disturbed>>
  /\ UNCHANGED <<cnt0, paramVars, countVars, lastcnt0, saveON_last, lastcube, buffindex, tmsg, saver,
                 fileVars, cubes, swapped, sinceVars, nkeys>>

CopiesFrame ==
  /\ pc = "copy"
  /\ LET row == [buff[buffindex][frameindex + 1] EXCEPT !.img = cnt0]
     IN /\ buff' = [buff EXCEPT ![buffindex][frameindex + 1] = row]
        /\ cubes' = [cubes EXCEPT ![fname] = Append(@, row)]
  /\ DisturbsBuffer
  /\ frameindex' = frameindex + 1
  /\ framecnt' = framecnt + 1
  /\ nframes' = nframes + 1
  /\ pc' = "decide"
  /\ UNCHANGED <<cnt0, paramVars, filecnt, loopVars, tmsg, saver, fileVars, swapped, nfiles, nkeys>>

\* Fault: a partial cube is kept when saving is turned off.
SaveCubeNotWhenOff == frameindex >= CubeSize \/ nextcube
SaveCube == frameindex >= CubeSize \/ (saveON_last /\ ~saveON) \/ nextcube

\* A timed out trigger never comes here.
DecidesToSave ==
  /\ pc = "decide"
  /\ nextcube' = FALSE
  /\ pc' = IF ~SaveCube THEN "end" ELSE IF frameindex > 0 THEN "name" ELSE "swap"
  /\ UNCHANGED <<cnt0, saveON, lastcubeON, countVars, loopVars, buff, tmsg, saver, fileVars, cubes,
                 disturbed, swapped, sinceVars, nkeys>>

\* The message is filled while the previous thread may still be reading it.
FillsName ==
  /\ pc = "name"
  /\ tmsg' = [tmsg EXCEPT !.fname = fname]
  /\ disturbed' = (disturbed \/ Saving)
  /\ pc' = "fill"
  /\ UNCHANGED <<cnt0, paramVars, countVars, loopVars, buff, saver, fileVars, cubes, swapped,
                 sinceVars, nkeys>>

Partial == frameindex # CubeSize

FillsMessage ==
  /\ pc = "fill"
  /\ tmsg' = [tmsg EXCEPT !.cubesize = frameindex, !.partial = Partial, !.buf = buffindex]
  /\ pc' = "join"
  /\ UNCHANGED <<cnt0, paramVars, countVars, loopVars, buff, saver, fileVars, cubes, disturbed,
                 swapped, sinceVars, nkeys>>

\* The previous thread is joined, the next one created.
JoinsAndCreates ==
  /\ pc = "join" /\ ~Saving
  /\ saver' = [saver EXCEPT !.step = "open", !.cube = fname, !.home = buffindex]
  /\ disturbed' = FALSE /\ swapped' = FALSE
  /\ nfiles' = nfiles + 1
  /\ pc' = "swap"
  /\ UNCHANGED <<cnt0, paramVars, countVars, loopVars, buff, tmsg, fileVars, cubes, nframes, nkeys>>

\* Fault: the buffers do not change roles.
SameBuffer == buffindex
NextBuffer == 1 - buffindex

\* The buffers change roles, also when nothing was saved.
SwapsBuffers ==
  /\ pc = "swap"
  /\ frameindex' = 0
  /\ filecnt' = filecnt + 1
  /\ buffindex' = NextBuffer
  /\ swapped' = (swapped \/ frameindex = 0)
  /\ IF lastcube \/ lastcubeON
     THEN saveON' = FALSE /\ lastcubeON' = FALSE
     ELSE UNCHANGED <<saveON, lastcubeON>>
  /\ pc' = "end"
  /\ UNCHANGED <<cnt0, nextcube, framecnt, lastcnt0, saveON_last, lastcube, fname, buff, tmsg, saver,
                 fileVars, cubes, disturbed, sinceVars, nkeys>>

EndsIteration ==
  /\ pc = "end"
  /\ saveON_last' = saveON
  /\ pc' = "wait"
  /\ UNCHANGED <<cnt0, paramVars, countVars, lastcnt0, lastcube, buffindex, fname, buff, tmsg, saver,
                 fileVars, cubes, disturbed, swapped, sinceVars, nkeys>>

\* The process control ends the loop: the message and the timing tables are freed.
LeavesLoop ==
  /\ pc = "wait"
  /\ pc' = "exited"
  /\ disturbed' = (disturbed \/ Saving)
  /\ UNCHANGED <<cnt0, paramVars, countVars, loopVars, buff, tmsg, saver, fileVars, cubes, swapped,
                 sinceVars, nkeys>>

Body ==
  \/ NewFrame \/ SameFrame \/ TestsSaving \/ CopiesFrame \/ DecidesToSave
  \/ FillsName \/ FillsMessage \/ JoinsAndCreates \/ SwapsBuffers \/ EndsIteration

------------------------------------------------------------------------------
(* The save thread, save_telemetry_fits_function.  It reads the message    *)
(* again for each thing it does: the arguments of saveFITS_opt_trunc,      *)
(* which writes a temporary file and gives it its name in the end; the     *)
(* name, the size and the tables of the text file.                         *)

NotTheThread ==
  UNCHANGED <<cnt0, paramVars, countVars, pc, loopVars, buff, tmsg, cubes, disturbed, swapped,
              sinceVars, nkeys>>

OpensFits ==
  /\ saver.step = "open"
  /\ saver' = [saver EXCEPT !.step = "write", !.buf = tmsg.buf,
                            !.n = IF tmsg.partial THEN tmsg.cubesize ELSE CubeSize]
  /\ NotTheThread /\ UNCHANGED fileVars

WritesFits ==
  /\ saver.step = "write"
  /\ saver' = [saver EXCEPT !.step = "rename", !.imgs = Imgs(FirstRows(saver.buf, saver.n))]
  /\ NotTheThread /\ UNCHANGED fileVars

RenamesFits ==
  /\ saver.step = "rename"
  /\ fits' = [fits EXCEPT ![tmsg.fname] = saver.imgs]
  /\ saver' = [saver EXCEPT !.step = "ascii", !.imgs = <<>>]
  /\ NotTheThread /\ UNCHANGED <<txt, saved>>

WritesAscii ==
  /\ saver.step = "ascii"
  /\ txt' = [txt EXCEPT ![tmsg.fname] = Stamps(FirstRows(tmsg.buf, tmsg.cubesize))]
  /\ saved' = IF disturbed THEN saved ELSE saved \cup {saver.cube}
  /\ saver' = [saver EXCEPT !.step = "idle"]
  /\ NotTheThread /\ UNCHANGED fits

\* A thread that goes on after the loop has freed the message may fail anywhere.
FailsAfterFree ==
  /\ pc = "exited" /\ Saving
  /\ saver' = [saver EXCEPT !.step = "crashed"]
  /\ NotTheThread /\ UNCHANGED fileVars

SaveThread == OpensFits \/ WritesFits \/ RenamesFits \/ WritesAscii \/ FailsAfterFree

------------------------------------------------------------------------------
(* The others: the writer of the stream and the operator.                  *)

WriterWrites ==
  /\ cnt0 < MaxFrames
  /\ cnt0' = cnt0 + 1
  /\ UNCHANGED <<paramVars, countVars, pc, loopVars, buff, tmsg, saver, fileVars, cubes, disturbed,
                 swapped, sinceVars, nkeys>>

OperatorSets ==
  /\ nkeys < MaxKeys
  /\ nkeys' = nkeys + 1
  /\ \/ /\ saveON' = ~saveON /\ UNCHANGED <<lastcubeON, nextcube>>
        /\ IF saveON THEN UNCHANGED sinceVars ELSE nframes' = 0 /\ nfiles' = 0
     \/ lastcubeON' = TRUE /\ UNCHANGED <<saveON, nextcube, sinceVars>>
     \/ nextcube' = TRUE /\ UNCHANGED <<saveON, lastcubeON, sinceVars>>
  /\ UNCHANGED <<cnt0, countVars, pc, loopVars, buff, tmsg, saver, fileVars, cubes, disturbed,
                 swapped>>

Next == Body \/ LeavesLoop \/ SaveThread \/ WriterWrites \/ OperatorSets

Spec == Init /\ [][Next]_vars

\* The loop and the thread are scheduled; triggers come as ExtraTriggers says.
FairSpec == Spec /\ WF_vars(Body) /\ WF_vars(SaveThread)

------------------------------------------------------------------------------
(* Properties.                                                             *)

\* Each file saved by a thread holds the frames recorded for its cube, in order,
\* with their counters, though the loop goes on filling its buffers: unless the
\* message was filled again or freed while the thread ran, or the loop came back
\* to the buffer of the thread by giving up an empty one.
SavedAsRecorded ==
  \A f \in saved : fits[f] = Imgs(cubes[f]) /\ txt[f] = Stamps(cubes[f])

\* "Wait for save thread to complete to launch next one": each cube handed to a
\* thread that has ended is saved under its name.
EveryCubeKept ==
  ~Saving /\ pc = "wait" /\ frameindex = 0 =>
    \A f \in Names : fits[f] = Imgs(cubes[f])

\* The table never names a later frame than the one saved in its row, and
\* the rows follow the stream, though frames come while rows are written.
RowsFollowStream ==
  \A f \in Names : \A k \in DOMAIN cubes[f] :
    /\ cubes[f][k].stamp <= cubes[f][k].img
    /\ k < Len(cubes[f]) => cubes[f][k].img <= cubes[f][k + 1].stamp

\* Since saving was turned on no more than maxframecnt frames were recorded and
\* no more than maxfilecnt files saved, also when the turning on is not seen.
LimitsHold == nframes <= MaxFrameCnt /\ nfiles <= MaxFileCnt

\* Saving turned off, by the operator or by the limit on frames, before the loop
\* decides whether to save: the partial cube is handed to a thread, unless saving
\* is turned on again or the loop is left.
PartialCubeSaved ==
  (pc \in {"wait", "test", "copy", "decide"} /\ saveON_last /\ ~saveON /\ frameindex > 0)
    ~> (frameindex = 0 \/ saveON \/ pc = "exited")
=============================================================================
