# milk: specifications, model checks and proofs

milk runs real-time image processing as many small processes on one computer. They share
*streams* (images in shared memory, with counters and semaphores), a *processinfo* structure per
process (control values, counters, trigger settings), a *list of processes*, and *function
parameter structures* (FPS: the parameters of a function, a status word and a signal word, shared
by the process that runs the function, the process that checks its parameters and the operator's
program `milk-fpsCTRL`). None of this shared memory is protected by a lock. Most of the
specifications here are about that part: what the processes and their threads do to the shared
words, in which order, and what remains true in every interleaving. Two more are about what
travels between computers (streams over UDP and TCP), and one is about a sequential algorithm, the
evaluation of image expressions.

Paths below are relative to `src/src/CommandLineInterface/` unless they start with `src/`.

## 1. Files

| File | What it is |
|---|---|
| `FpsTaskQueues.tla` | abstract specification: independent FIFO queues that run one task at a time |
| `FpsScheduler.tla` | the fpsCTRL task scheduler: fifo reader, scheduling pass, commands, run processes |
| `MCFpsScheduler.tla`, `FpsScheduler_*.cfg` | its instances (4 runs, 2 diagnostic configurations) |
| `FpsScheduler_proofs.tla` | operator lemmas, types, waiting for a run, purging enough, order of the tasks, stable candidates, purge safety, priorities, refinement of `FpsTaskQueues` |
| `FpsConf.tla`, `FpsConf_*.cfg` | the conf process of an FPS and the control loop that asks it for checks (2 runs, 1 diagnostic) |
| `FpsConf_proofs.tla` | types; no setting is forgotten |
| `ProcinfoLoop.tla`, `MCProcinfoLoop.tla`, `ProcinfoLoop_*.cfg` | the loop of a process under processinfo control (1 run, 1 diagnostic) |
| `ProcinfoLoop_proofs.tla` | types, pause, count of iterations, count of frames |
| `ProcinfoList.tla`, `ProcinfoList_*.cfg` | the list of processes, and the scan and display threads of procCTRL (1 run, 1 diagnostic) |
| `ProcinfoList_proofs.tla` | types, stable display, registration |
| `LogShmim.tla`, `LogShmim_*.cfg` | the stream logger: recording loop, two buffers, save thread (1 run, 1 diagnostic) |
| `LogShmim_proofs.tla` | types, limits, order of rows, saved as recorded, buffers apart |
| `StreamRelay.tla` | abstract specification: frames are delivered once, in order, in their slices, and by a lossless link all of them |
| `StreamTransmit.tla` | what the two network transmitters have in common, and the writer of the stream |
| `StreamUDP.tla`, `StreamUDP_udp.cfg` | a stream over UDP: transmitter, network, receiver (1 run) |
| `StreamTCP.tla`, `StreamTCP_tcp.cfg` | a stream over TCP (1 run) |
| `StreamTransmit_proofs.tla` | lemmas on the stream and its transmitter, for both links |
| `StreamUDP_proofs.tla` | types, when the receiver gives up, gaps and mixed frames are due to faults, refinement of `StreamRelay` |
| `StreamTCP_proofs.tla` | types, frames are whole, frames are in their slices, refinement of the lossless `StreamRelay` |
| `ExecuteArith.tla`, `MCExecuteArith.tla`, `ExecuteArith_arith.cfg` | the evaluation of image expressions, and the expressions it is checked on (1 run) |
| `PROJECT.json` | components, runs, mutants, the map from definitions to source lines, findings, hazards, theorems |

The definitions named "Fault" in a comment are deliberate errors; no specification uses them.
Each stands for a plausible bug in the definition that follows it, and each property of a passing
run is violated when one of them takes that definition's place (`mutants` in `PROJECT.json`).

A *diagnostic configuration* is a `.cfg` for a property that the code does not have. It is not one
of the runs; it is kept to be run by hand, and TLC ends it with the behaviour that breaks the property.

## 2. Inventory of the system

### Modelled

**fpsCTRL task scheduler** (`fps/fps_read_fpsCMD_fifo.c`, `fps/fps_process_fpsCMDarray.c`,
`fps/fps_processcmdline.c`, `fps/fps_RUNstart.c`, `fps/fps_RUNstop.c`, `fps/fps_RUNexit.c`).
State: an array of 5000 task slots, 100 queues with priorities, the static variables of the fifo
reader, and one status word per FPS that run processes write too. Operations: read a line, scan
the queues, purge, select, execute. Hard: the scan stores slots that are used after other queues
have been scanned and slots purged; the order is that of a 16-bit counter; ages come from a
settable clock; a run may start and end between two statements of the scheduler. Correct when each
queue is a FIFO that runs one task at a time, no queue waits for another, and a wait for a run is a
wait for a run.

**FPS conf process and parameter checks** (`fps/fps_FPCONFloopstep.c`, `fps/fps_checkparameter.c`,
`fps/fps_CONFstart.c`, `fps/fps_CONFstop.c`, and setval, confupdate, confwupdate of
`fps/fps_processcmdline.c`). State: the signal and status words, parameters, error count, write
permissions, the conf process's copy of the status. Hard: every update of a word is an unlocked
load and store; a parameter may be set at any point of a check; the conf process may be killed at
any point. Correct when each setting is eventually checked, a stop is obeyed, the process comes to
rest, permissions follow the run process, and the scheduler is not held for ever.

**processinfo: loop control and triggers** (`processinfo/processinfo_loopstep.c`,
`processtools_trigger.c`, `processinfo/processinfo_exec_start.c`, `processinfo_exec_end.c`, the
loop macros of `CLIcore/CLIcore_utils.h`). State: `CTRLval`, the loop counter, the trigger mode,
the counters of triggers and missed frames; of the stream: `cnt0`, `cnt1`, one semaphore. Hard: the
operator writes `CTRLval` between its four reads; the writer counts and posts separately, between
the three reads of the counter; signals interrupt a wait. Correct when a pause holds, an exit ends,
the iterations are counted, frames are taken and missed frames are not invented.

**process list and procCTRL** (`processinfo/processinfo_shm_list_create.c`,
`processinfo_shm_create.c`, `processinfo_shm_close.c`, `procCTRL/procCTRL_processinfo_scan.c`, the
thread, handshake and keys r and R of `procCTRL/procCTRL_TUI.c`). State: `active` and `PIDarray` of each
slot of the shared list, one file per process, the flags `SCANBLOCK_requested` and `SCANBLOCK_OK`,
the entries on display and the files mapped. Operations: a process finds a slot, writes its PID,
creates its file, marks the slot, and removes the file at its end; the scan frees slots without a
file, flags crashes, lists and maps entries; the display grants the scan its turn, removes files,
quits. Hard: nothing makes the steps of a registration one, so two processes, or a process and the
scan, may meet in it; processes crash anywhere; the two threads wait for each other through plain
flags and the display may quit while the scan waits. Correct when a process keeps its slot, slots
are given back, the list does not change under the display, and no thread waits for ever.

**stream logging** (`src/src/COREMOD_memory/logshmim.c`). State: two buffers with timing tables,
frame and file counts, the message to the save thread, switches the operator sets. Operations: the
statements of the recording loop from a trigger to the next; the save thread, which reads its
message four times and writes two files. Hard: message and buffers are shared with no lock, the
join comes after the message is filled; `cnt0` is read three times while the writer goes on; limits
and switches are tested at different points of the loop. Correct when a file holds what was
recorded for it, limits are kept and a partial cube is not lost.

**stream network links** (`src/src/COREMOD_memory/stream_UDP.c`, `stream_TCP.c`). State: the slices
and counters of the stream, the frame that is being sent, datagrams or bytes under way, the frame
that is being put together. Operations: wait, pick a slice, copy, send; receive, check the index,
abort and resynchronise; flush, receive, publish. Hard: datagrams are lost and overtake each other and
nothing names the frame they belong to; the byte stream of TCP has no marks; a transmitter lags
and sends slices that are being overwritten; either end may stop anywhere. Correct when what is
published is a frame of the stream or a fault is to blame, the receiver finds its way back, and
frames go to the slices they come from.

**image arithmetic: evaluation of expressions** (`src/src/COREMOD_arith/execute_arith.c`). State:
arrays of words, types and priorities, the temporaries, tables of variables and images. Operations:
check, remove parentheses, choose an operation, execute it, assign, clean up. Hard: words are moved
after each operation and types, priorities and parentheses must fit the next; priorities are kept
from one operation to the next. Correct when an expression is computed as it is written, nothing
else is changed, and evaluation ends.

### Not modelled

| Component | State and operations | Why not |
|---|---|---|
| image and variable tables (`src/src/COREMOD_memory/`) | table entries over connected streams: create, find, delete | linear tables of one process. `ExecuteArith` has them as functions from names; what connecting to a stream does with another process is in ImageStreamIO, which is not in the tree |
| FPS storage (`fps_connect.c`, `fps_*ToDisk.c`) | shared-memory layout, files | conversions between memory, files and text, one process at a time |
| fpsCTRL display and keys | screens; keys call functions modelled as commands | the display only reads |
| streamCTRL (`streamCTRL/`) | a display of streams and its scan thread | the handshake is the one of procCTRL; what the scan collects is only displayed |
| stream tools (`src/src/COREMOD_memory/stream_*.c` but the links) | delay, paste, merge, copy streams | the loop is that of `ProcinfoLoop`; the body moves pixels |
| FITS files (`src/src/COREMOD_iofits/`) | read and write through cfitsio | sequential; the write and the rename of `saveFITS_opt_trunc` are steps of the save thread of `LogShmim` |
| functions of image arithmetic (`imfunctions.c`, `mathfuncs.c` and others) | pixels | numeric code |
| tools (`src/src/COREMOD_tools/`) | sorting, fitting, strings, file counts | numeric and sequential helpers |
| command line interpreter, CLI data | readline, a generated parser, tables of commands | sequential; of the signal handler what a loop reads is in `ProcinfoLoop` |
| plugins (`src/plugins/`) | Fourier transforms, linear algebra, filters, PSFs, detectors | numeric code on floating-point arrays, which TLA+ has no use for; it is the larger part of the source tree, and the reason why the map covers a small share of it |
| Python bindings, scripts, example module | wrappers, tmux sessions, a template | no logic of their own |

The library ImageStreamIO (streams and semaphores) is not part of the source tree; what the models
need of it is taken from its use: `cnt0` and `cnt1` are counted before the semaphores are posted
(`src/src/COREMOD_memory/stream_UDP.c:994-1002`), and a semaphore at its maximum is not posted.

## 3. Modules and code

### FpsScheduler

One action per statement group of the control loop after which another process may have changed
what the loop reads next; the control loop itself is one thread.

| Variables | In the code |
|---|---|
| `status`, `entry`, `fpsindex`, `ctime` | `fpsctrltasklist[i]`: status bits, the submission's fields, `fpsindex`, `completiontime` |
| `queue`, `toggles`, `cmdinputcnt` | statics of `functionparameter_read_fpsCMD_fifo` |
| `prio` | `fpsctrlqueuelist[q].priority` |
| `qi`, `next`, `cur`, `oldest` | locals of `function_parameter_process_fpsCMDarray` |
| `cmdrun`, `checked` | bits CMDRUN of `md->status` and CHECKED of `md->signal`, one per FPS |
| `typed`, `alive` | lines waiting in the tmux window of the FPS; is its run process alive |
| `loaded` | the status word the conf process has loaded and not yet stored |
| `clock`, `nsteps` | the system clock; it advances at each completion and may be set back |
| `nsub`, `done`, `entry[i].seq` | history, read by no action |

| Actions | In the code |
|---|---|
| `TaskCntZero`, `SetQIndex`, `SetQPrio`, `SetWait`, `SubmitTask`, `FifoFull` | one line of the fifo (`fps_read_fpsCMD_fifo.c`) |
| `ScanEmpty/Ready/Wait/Complete/End` | the scan of a queue (`fps_process_fpsCMDarray.c:65-154`) |
| `PurgeOne`, `PurgeEnd` | the purge loop (`:156-204`) |
| `SelectTask`, `SelectNone` | the queue of highest priority (`:206-254`) |
| `Runstart*`, `Exec*` | `functionparameter_FPSprocess_cmdline` and what follows its return |
| `ShellStart`, `RunExit`, `RunCrash` | the tmux window and the run process |
| `ConfChecks`, `ConfLoads`, `ConfStores` | the conf process, as far as the scheduler sees it |

A task that resolves to no FPS stores an `fpsindex` that was never assigned; the completion test of
such a task reads through it, so it may yield anything (`MayWait`, `MayComplete`). Commands are
grouped by what they change. Abstracted: ages below the resolution of the clock (it advances at
each completion); the operator's keys, which call the same functions; leaving the loop by key or
signal, which only cuts a behaviour short. Not modelled: a line that is only partly in the fifo
(dropped by the code); a rescan that finds other FPSs; the time `runwait` spends in the loop.

### FpsTaskQueues

Three actions: Submit, Launch (the oldest pending task of an idle queue), Finish. It says what
the RULES comment of `fps_process_fpsCMDarray.c` promises to the writers of the fifo, and knows no
slots, counters or clocks. `FpsScheduler!TaskQueues` instantiates it: a task is pending while it is
active and not launched, and running until it is retired.

### FpsConf

The conf process (`ConfFirst` ... `ConfExits`) follows `FPS_CONFLOOP_START`,
`function_parameter_FPCONFloopstep`, `functionparameter_CheckParametersAll` and
`function_parameter_FPCONFexit` statement by statement where they touch shared words; the control
loop (`CtlBegins`, `CtlGoesOn`) executes setval, confupdate, confwupdate, confstart and confstop.
`signal |= x` is a load (`ConfLoads`, `CtlLoads`) and a store (`ConfWrites`, `CtlWrites`); with
`WordsRace` those of the two interleave. The parameters are one value with a rank, in its limits
or not; `writable` is the `WRITESTATUS` of a parameter that may be set in CONF and not in RUN. As
in the code, setval does not look at it. One conf process per FPS: two that overwrite each other's
`confpid` are not modelled.

### ProcinfoLoop

One location per statement of the loop that reads or writes shared memory.

| Actions | In the code |
|---|---|
| `LeavesPause`, `TestsSingle`, `StoresPause`, `TestsExit` | the four reads of `CTRLval` in `processinfo_loopstep` |
| `Waits`, `PollEnds`, `CountsMissed`, `UpdatesCount` | `processinfo_waitoninputstream`, counters; immediate and delay modes |
| `Drains`, `Drained`, `Timedwait`, `TimesOut` | the same, semaphores |
| `ExecStart`, `ExecEnd` | `processinfo_exec_start` and `_exec_end`, with the pause of a timing limit, and the reload of the trigger mode |
| `Key` | the keys p, c, s and e of procCTRL |
| `SwitchesMode` | the operator sets the trigger mode in the FPS |
| `WriterCounts`, `WriterPosts` | the writer of the trigger stream |
| `Signal` | SIGINT, and signals that are caught and ignored |

The wait follows the loop step even when that has said to leave, and a timeout skips the rest of the
iteration (`continue` in the macro): both are in the model (`TestsExit`, `TimesOut`, `NextRound`).
An interrupted `sem_timedwait` counts as a trigger, as in the code. The computation has no effect
of its own. Left out: `loopstat`, messages and timing statistics, which only displays read; signals
that end the process in the handler; writers that post before they count
(`stream_pixmapdecode.c`); an operator who changes `loopcntMax` on the way. The test and the store
of a key are one step. A timing limit may pause the process at any iteration: how the code computes
times is not modelled.

### ProcinfoList

| Variables | In the code |
|---|---|
| `active`, `PIDarray` | the list in shared memory; 1 is active, 2 is crashed |
| `files` | the processinfo files, each named after its PID |
| `index`, `update`, `missing`, `todo` | locals of the scan thread and `pinfodisp[i].updatestatus` |
| `requested`, `OK`, `loop`, `scanned` | `SCANBLOCK_requested`, `SCANBLOCK_OK`, `loop`, `loopcnt > 0` |
| `displayed`, `mapped` | `pindexActive` and `pinfommapped` |
| `raced` | history: processes whose registration met another process or the scan |

| Actions | In the code |
|---|---|
| `LooksAtSlot` | the search for a free slot in `processinfo_shm_list_create` |
| `WritesPID`, `CreatesFile`, `Activates` | the three stores of `processinfo_shm_create`, in their order |
| `Exits` | the clean exit, which removes the file |
| `AsksForScan`, `BeginsScan`, ..., `AddsEntry` | `processinfo_scan`, up to the end of the handshake |
| `Unmaps`, `Links`, `Sleeps` | the same, after it |
| `StartsDisplay`, ..., `Joins` | the handshake of `processinfo_CTRLscreen`, and its end |
| `Removes`, `Quits` | the keys r, R and x |

PIDs are not used again. The list exists: its creation by the first process is left out, as are the
layout and the sorting of the display and the figures it collects from `/proc`. The display thread waits for a
first scan before it draws (`StartsDisplay`).

### LogShmim

A frame is the value of `cnt0` with which it was written, and the name of a file, a time to the
nanosecond in the code, is the number of its cube. `stamp` is what the timing table says of a row,
`img` the frame copied: the code reads `cnt0` for the one and copies pixels later for the other.

| Actions | In the code |
|---|---|
| `NewFrame`, `SameFrame` | the test of `cnt0` after a trigger, the counts and the limits |
| `TestsSaving`, `CopiesFrame` | the row of the timing table, then the pixels |
| `DecidesToSave`, `FillsName`, `FillsMessage`, `JoinsAndCreates`, `SwapsBuffers` | the end of a cube, in the order of the code |
| `EndsIteration`, `LeavesLoop` | `saveON_last`, and the free of the message |
| `OpensFits`, `WritesFits`, `RenamesFits`, `WritesAscii` | `save_telemetry_fits_function`, split where it reads the message again |
| `FailsAfterFree` | the thread goes on after the message has been freed: anything may happen |
| `OperatorSets` | saveON, lastcubeON and nextcube are set |

Left out: headers, compression, the failures of the file system, and the messages on display.

### StreamTransmit, StreamUDP, StreamTCP, StreamRelay

`StreamTransmit` has the writer of the stream, the wait of a transmitter (`Wakes`, `WaitTimesOut`)
and its choice of a slice (`NextSlice`), which are the same code in both files. The links extend it.

| Actions | In the code |
|---|---|
| `CopiesMetadata`, `CopiesData`, `Sends` (UDP), `PicksSlice`, `CopiesData`, `Sends`, `SendFails` (TCP) | a transmission; metadata and pixels are copied one after the other with no lock |
| `WaitsForMetadata`, `Purges`, `Resyncs`, `FirstArrives`, `NextArrives` | the UDP receiver: what it does with a datagram in each place that reads one |
| `Flushes`, `FlushesRest`, `Receives`, `ReceivesNothing` | the TCP receiver: what came before the loop, `MSG_WAITALL`, the end of the connection |
| `Publishes` | the copy to the slice, the counters and the posts |
| `Overtakes`, loss in `Sends`, `TransmitterStops`, `AsksForExit` | the network, and ends that stop |

A part of a frame is known by its transmission, and the history `sent` says what that held. As in the
code the UDP receiver puts a frame in the slice its metadata name, which is the one written last, and
not the one sent; an exit that was asked for is noticed at the loop step, after which one more frame
is waited for. What it then puts together is not claimed to be a frame: `Regular` counts those
published before, and leaves the last one out only of a receiver that was stopped with nothing to
resynchronise. A TCP frame is cut into `FrameUnits` units of which the last holds the trailer. Left
out: making the connection, creating the stream of the receiver, keywords, statistics.

`StreamRelay` is what both links are for, with two actions. Transmit names the slice of a new
transmission: the copy of the metadata (UDP), the choice of a slice (TCP). Deliver is the
publication of a frame, which must be newer than the one before and, over a lossless link, the next
one. It knows no datagrams, bytes, buffers or counts. A frame delivered is named by its datagram 0
(UDP), whose parts are not all of the same transmission when datagrams were lost (that is
`MixedOnlyByFaults`), or by its trailer (TCP). Not delivered are the frame that a dead transmitter
left unfinished and what a UDP receiver publishes after an exit was asked for.

### ExecuteArith

The words of an expression are names: the split of the string into words is not modelled, but what it
does to `=-` and `=+` is (`Preprocessed`). A value is the tree of the operations that made it, so
that two expressions have the same value only when the same operations were applied to the same
operands. `Checks` is the syntax check and the save of numbers into variables, `Unwraps` and
`Negates` remove parentheses, `Chooses` finds `highest_priority_index`, `Executes` has the three
branches of the code (operand, function, function of several), `Assigns` and `DeletesTmps` its end.
The arrays keep what was in their places, as in the code: a priority of `^` is the one that was there
before. Reading outside of the arrays, or what does not exist, yields `Anything`.

`MCExecuteArith` writes expressions from trees, with the parentheses that the priorities make
necessary, and names the class of those that the code computes as written (`IsSafe`).

## 4. Runs

Each run asks one question. `pass` runs end with no error; the `violation` run shows that a comment
of the repository says what the code does not do.

| Run | Question | Bounds and why they are enough |
|---|---|---|
| `fifo` | do the slots, scans, purges and runs implement FIFO queues (`ImplementsQueues`, `RunningIsOldest`), with stable candidates, safe and sufficient purges, honoured waits? | 3 slots, purge size 2, 2 queues, 3 tasks of runstart and runstop: completed tasks are purged with others waiting, slots are reused, two queues act on one run process |
| `hostile` | are types kept whatever the counter, clock and words do? | a two-valued counter, taskcntzero, one backward step of the clock, crashing runs, racing words, 2 slots |
| `live` | does no queue wait for another (`QueuesIndependent`), is no startable task of higher priority passed over (`NoPriorityInversion`)? | 2 queues, priorities 0 and 2 besides the initial 1, pauses and exits by tasks, 2 tasks |
| `stuck` (violation) | does a blocked queue always have a run to wait for? | 2 tasks, fair scheduler, shell and run; no crash |
| `conf` | are settings judged, permissions followed, stops obeyed; does the process come to rest? | 3 commands, 1 start of the run process, 1 kill or interrupt, atomic words: a setting before, inside and after a check, with a restart |
| `confrace` | does confwupdate end, with lost updates too? | the same with interleaved loads and stores |
| `loop` | pause, exit, iterations, frames in all trigger modes | 8 starts (new and used streams, with and without FPS and semaphore, bounded and endless), 3 frames, 3 keys, 1 signal, 1 switch of mode; a semaphore limit of 2, so that posts are lost |
| `scan` | is the list stable while it is displayed, does the display never hang, are slots given back, does a process keep its slot unless it raced? | 2 processes and 2 slots: both may claim one slot, each may meet the scan, crash or exit at any step, one may take the slot of another. Safety holds with 3 processes too (12.8 million states, by hand) |
| `log` | are files what was recorded while the other buffer is filled, limits kept, partial cubes saved (with a trigger that always comes: `ExtraTriggers`)? | cubes of 2 frames, at most 3 frames and 2 files, 4 frames written, 2 keys: a limit is reached in the middle of a cube, the thread is one or two cubes late, saving goes off and on again |
| `udp` | is a fault to blame for each mixed frame and each gap, does the receiver give up only after losses, is a frame that waits whole published, are frames published in order and once (`ImplementsRelay`)? | 4 frames of 2 datagrams, a socket of 3, 2 losses besides those of a full socket, 1 datagram overtaken; indices of 2 bits of which one is the sign, and 3 datagrams waited for instead of 300. The transmitter is woken by a semaphore. The stream has one slice; that frames go to the slice they name is left to `tcp` and the theorems |
| `tcp` | are frames whole and in their slices, is none left out (`ImplementsRelay`), is a lagging transmitter fresh enough? | 5 frames of 2 units over a connection of 3 and a stream of 3 slices: the flush meets part of a frame, the transmitter lags over the wrap and dies within a frame. It polls the counter |
| `arith` | are expressions computed as written, does evaluation end? | 6,884 expressions: all with one operation of any kind, two of many kinds, three of few; targets that are new, used in the expression, or absent |

The bounds on histories are guards named `Max...` in the modules: `MaxTasks`, `MaxClockSteps`,
`MaxCmds`, `MaxRuns`, `MaxDeaths`, `MaxFrames`, `MaxKeys`, `MaxSignals`, `MaxSwitches`, `MaxLost`,
`MaxSwaps`; `MaxWords` is the length of the arrays of words. `ProcinfoList` needs none: a process
runs once. The values are small, but every action fires and every property meets a fault it excludes;
the theorems of section 6 hold for every value of them. Deadlock is not checked: a program that
has ended, or that waits for input that a bound has used up, takes no step.

### What the runs found

* `stuck`: `CMDRUN` is set after the run command has been typed; a run that ends in between clears
  it first, and its queue is blocked for ever (`fps/fps_RUNstart.c:110`).

The diagnostic configurations show what else the code does not keep to:

* `FpsScheduler_counter.cfg` (`RunningIsOldest`): `cmdinputcnt` is a `uint16_t` and tasks are ordered
  by it, so a task submitted after the wrap, or after `taskcntzero`, runs before earlier ones of its
  queue (`fps/fps_read_fpsCMD_fifo.c:29`, against the RULES comment).
* `FpsScheduler_waitonconf.cfg` (`ConfWaitHonored`): the test reads the CHECKED bit of the signal word
  in the status word, where it is never set: WAITONCONF never waits
  (`fps/fps_process_fpsCMDarray.c:123`).
* `FpsConf_stale.cfg` (`ConfwupdateIsFresh`): confwupdate waits for CHECKED to be cleared, which an
  older check does too; it then returns with the verdict on the old parameters
  (`fps/fps_processcmdline.c:554`).
* `ProcinfoLoop_slices.cfg` (`FramesAreCounted`): `cnt1` is the index of the last slice written, and
  its difference is added to the count of missed frames even when it is negative
  (`processtools_trigger.c:211`).
* `LogShmim_message.cfg` (`EveryCubeKept`): the message is filled before the previous thread is joined
  (`src/src/COREMOD_memory/logshmim.c:961`, join at 1012): a thread that is still in its first file then names it
  after the next cube.
* `ProcinfoList_remap.cfg` (`RemapsExclusively`): the scan gives the display its turn back and unmaps
  and maps the files on display afterwards (`procCTRL/procCTRL_processinfo_scan.c`, against its
  comment at 143-145 and `processtools.h:118`).

Seen while modelling, with no run of their own.

* Scheduler and conf: the comparison `!x & y` of `FPS_CONFLOOP_START` (`function_parameters.h:753`)
  negates before it masks; the purge loop never ends if the clock has been set back and
  `oldest_index` is a free slot; runstop clears `CMDRUN` while the process may live.
* Loop: in the semaphore mode a single post that is drained is counted as missed; a pause is not left
  by CTRL-C; key p pressed after e cancels the exit; a mode switched to a counter counts all earlier
  frames as missed.
* Process list: two processes may claim one slot, and the one whose PID is overwritten is not in the
  list; the scan may find the file of a process that is registering missing and free its slot after it
  has been marked active; `processinfo_shm_link` ends procCTRL when a file goes between the scan's
  test and its use, so the branch that would handle it is never reached; `active[pindex]` is read
  before the index is compared with the size of the list (`processinfo_shm_list_create.c:90`).
* Logger: an empty cube (saving turned off and on before a frame) also swaps the buffers, and frames
  then overwrite the buffer that is being saved; saving turned off and on between the test and the
  store of `saveON_last` goes unnoticed; a frame that arrives between the noticing of the previous
  one and its copy is recorded twice; a partial cube is lost when the loop is left, and the message
  is freed under the thread; the branch for a timed out trigger is never reached, because the macro
  skips the iteration.
* UDP: an index beyond 127 is negative at the receiver, so that frames of 129 datagrams and more are
  never put together, and two lost datagrams 0 of frames of about 127 use up the 300 the receiver waits for;
  a frame goes to the slice written last when it was sent; `cnt1` is announced before the frame is
  complete; when an exit was asked for, the old buffer is published once more.
* TCP: what was received of a frame whose transmitter died is published, completed with the frame
  before; a lagging transmitter that passes the last slice skips or repeats slices.
* Arithmetic: the first operation in the deepest parentheses loses its priority: `(8/4/2)` is `8/(4/2)`,
  `(sin(a)*b)` is `sin(a*b)` (`src/src/COREMOD_arith/execute_arith.c:720` says "the highest priority
  operation is executed"). The priority of `^` is left over from an earlier operation. `variable ^
  image` computes `(image + variable) ^ image`. `(-x)` changes the variable x, and the word after
  `(-1)` becomes `-`: `(-1)+a` is `-1-a` and `b=(1-(-1))/1` never ends. `sin((a))` applies sin to a
  parenthesis; `, (` is rejected. `b=im` renames the image; `a=a` deletes what it reads. `max`,
  `testlt` and `testmt` of two images read variables that do not exist; only `max` of an image and a
  variable, in this order, is an image, and the other arguments make nothing (`ComparesNames`,
  `MultfuncResult`). `imdx` of a variable ends the
  program. A comma outside of a function, or a wrong number of arguments, never ends.

## 5. Fairness

* `LiveSpec` of FpsScheduler: WF of `Pass`. The control loop polls the fifo without blocking and
  goes on to a pass; reading lines is not fair, since clients owe none. `QueuesIndependent` needs no
  more: it does not ask run processes to end.
* `FairSpec` of FpsScheduler adds WF of `ShellStart` and `RunExit`, so that `BlockedByARun` is
  refuted even when shells read their input and runs end.
* `FairSpec` of FpsConf: WF of `ConfStarts` (the shell), of `ConfLoop` (the conf process sleeps and
  polls, and blocks on nothing) and of `CtlGoesOn` (a command that has begun goes on; confwupdate
  polls with a limit). New commands, runs and deaths are not fair.
* `FairSpec` of ProcinfoLoop: WF of `Loop`. The kernel runs the process; a semaphore wait always ends
  by a post or by its timeout. A poll of a counter may starve: `ExitEnds` says so. Neither the
  writer nor the operator is fair.
* `FairSpec` of ProcinfoList: WF of `Scan` and of `Display`, the two threads, which sleep and poll.
  The operator's keys (`Removes`, `Quits`) and the processes are not fair.
* `FairSpec` of LogShmim: WF of `Body` (with `ExtraTriggers` a trigger always comes; without, only for
  a new frame) and of `SaveThread`, which only writes files. Frames, switches and the exit are not fair.
* `FairSpec` of StreamUDP: WF of `Receiver` only; neither transmitter nor network owes anything.
* `FairSpec` of StreamTCP: WF of `Transmitter` and `Receiver`, and of `WriterPublishes`: a writer that
  has written pixels counts them. New frames, ends that stop and the exit are not fair.
* `Spec` of ExecuteArith: WF of `Next`; the program waits for nothing.

## 6. Theorems

All are checked by TLAPS for every value of the constants that the named assumptions of the
modules (`SizesAssumption`, `InputsAssumption`, `ConstantsAssumption`, `ListAssumption`,
`TransmitAssumption`, `UDPAssumption`, `TCPAssumption`) allow.

| Theorem | Says | Assumes besides | Inductive invariant |
|---|---|---|---|
| `TypeCorrect` | `Spec => []TypeOK` of FpsScheduler | | `TypeInv` |
| `PurgeIsEnough` | the array is never left full of completed tasks | | `PurgeInv` |
| `WaitIsHonored` | a runstart with WAITONRUN is retired after a run has ended | `StatusIsAtomic` | `WaitInv` |
| `QueuesAreSequential` | tasks run in submission order, one at a time | `CounterIsMonotone` | `OrderInv` |
| `CandidatesAreStable` | the slot executed is the one scanned | `ClockIsMonotone` | `CandidateInv` |
| `PurgeIsSafe` | only completed tasks are dropped | `ClockIsMonotone` | `CandidateInv` |
| `PrioritiesAreKept` | no startable task of a queue of higher priority is passed over at a launch | `ClockIsMonotone` | `CandidateInv`, `ScannedInv` |
| `SchedulerImplementsQueues` | FpsScheduler implements FpsTaskQueues | `CounterIsMonotone`, `ClockIsMonotone` | `TypeInv`, `OrderInv`, `CandidateInv` |
| `ConfTypeCorrect` | `Spec => []TypeOK` of FpsConf | | `TypeOK /\ TimeLeft` |
| `NoSettingForgotten`, `CheckedMeansPending` | a setting is judged or a request for it is pending; CHECKED stands for a check to come | `SignalIsAtomic` | `ForgetInv` |
| `LoopTypeCorrect` | `Spec => []TypeOK` of ProcinfoLoop: the semaphore keeps to its limit | | `TypeOK` |
| `PauseIsHeld` | a paused process takes at most one more trigger | | `PauseInv` |
| `LoopEndsByCount` | the loop does its iterations, or one less after a timeout | | `CountInv` |
| `NoFrameIsInvented` | until the mode is switched: from `cnt0`, missed + taken ≤ written; with semaphores, missed + posts waiting ≤ written, and triggers + posts waiting ≤ written + signals caught (a drained post may be both missed and a trigger) | `NoSlices` | `FramesInv`, `TriggersInv` |
| `ListTypeCorrect` | `Spec => []TypeOK` of ProcinfoList | | `TypeOK` |
| `ListIsStable` | the list on display does not change while the display uses it | | `HandshakeInv` |
| `RegistrationHolds` | a process that met nobody while it registered keeps slot and file while it runs | | `OwnerInv`, `ScanInv`, `UndisputedInv` |
| `LogTypeCorrect` | `Spec => []TypeOK` of LogShmim: no row is written outside of a buffer | | `BaseInv` |
| `LimitsAreHeld` | no more frames and files than the limits since saving was turned on | | `LimitsInv` |
| `RowsAreInOrder` | the timing table and the frames follow the stream | | `RowsInv` |
| `SavedIsRecorded` | a file holds what was recorded for its cube, unless the message of its thread was filled again or freed, or the loop came back to its buffer by an empty cube | | `CubeInv`, `ApartInv`, `ThreadInv` |
| `BuffersAreApart` | unless an empty cube was swapped, the thread and the loop have different buffers | | `ApartInv` |
| `TypeCorrect` | `Spec => []TypeOK` of StreamTCP | | `LinkInv` |
| `FramesWhole` | the receiver never loses its place in the byte stream | | `LinkInv`, `RecvInv` |
| `FramesInPlace` | a frame goes to the slice it was read from | | `LinkInv`, `RecvInv` |
| `LinkImplementsRelay` | StreamTCP implements StreamRelay, lossless | | `LinkInv`, `RecvInv`, `OrderInv` |
| `TypeCorrect` | `Spec => []TypeOK` of StreamUDP | | `LinkInv` |
| `GivesUpAfterLoss` | the receiver gives up only after faults that explain it | | `WaitInv` |
| `GapsHaveFaults` | places where frames are skipped or published twice are at most the losses and three times the overtakings (one place may skip several frames) | | `GapInv` |
| `GapsInOrder` | `GapsAreFaults` | `swaps = 0` or `NDgrams = 1`, in the formula | `GapInv` |
| `MixedHaveFaults` | frames of two transmissions, but for three for each overtaking, cost a frame's worth of losses each | | `MixedInv` |
| `MixedInOrder` | `MixedOnlyByFaults` | `swaps = 0`, in the formula | `MixedInv` |
| `LinkImplementsRelay` | StreamUDP implements StreamRelay | `swaps < NDgrams` at all times, in the formula | `LinkInv`, `OrderInv` |

`TypeOK` is itself checked only by the run `hostile`; in the other modules these theorems stand for
it.

The assumptions are real restrictions, not conveniences: without each of them TLC finds the property
violated (set `MaxClockSteps = 1` or `WordsRace = TRUE` in the cfg of `fifo` or `conf`).

* `CounterIsMonotone` (`MaxTasks <= CNT_MOD`, no `taskcntzero`): the counter has not wrapped.
  `FpsScheduler_counter.cfg` shows what happens otherwise.
* `ClockIsMonotone` (`MaxClockSteps = 0`): otherwise the purge keeps `oldest_index = 0` when no
  completed task has a positive age, and frees slot 0 whatever it holds.
* `StatusIsAtomic`, `SignalIsAtomic` (`~WordsRace`): the code updates these words with unlocked loads
  and stores. With `WordsRace` the conf process can store back a status word without `CMDRUN`, and
  the control loop a signal word without `UPDATE`: `WaitHonored` and `NothingForgotten` then fail.
* `NoSlices`: no start in mode CNT1; see `ProcinfoLoop_slices.cfg`.

`RegistrationHolds` and `SavedIsRecorded` need no assumption because what the code does not exclude is
part of the property: the histories `raced` and `disturbed`. Both are as narrow as the code allows. A
process races only by taking a slot that another has taken and not yet marked, or by the scan finding
its slot without a file before it is marked; a thread is disturbed only by a store to the message
while it runs, by a row written into its buffer after an empty cube has made the buffers change roles
once more, or by the free at the end of the loop.

Why the invariants must be strengthened. `WaitHonored` speaks of retired tasks; `Waits` adds that
for a running one the word tested is that of its FPS, and CMDRUN is set there unless a run has
ended. `RunningIsOldest` needs `Ranked` (input indices are ranks of submission) and that the
candidates of all queues scanned so far are still the oldest, although lines and other queues come
in between. `CandidatesStayActive` needs `HasAged`: each completed task has a positive age, so the
purge finds one. `NothingForgotten` needs `Ordered`: what is judged was seen, what was seen was
set. `PauseHolds` needs `PauseInv`: one who has taken the trigger is past the wait. `EndsByCount`
needs `CountInv`: an iteration is left before the test, one more after it unless it is the last.
`FramesAreCounted` needs `FramesInv`: between the reads of the counter the difference only grows,
and what has been drained was posted after it was counted; and `TriggersInv`: what is drained gives at
most one trigger, which it owes until the drain ends. `ListStable` needs `HandshakeInv`: a scan
goes on only while the permission is given, and it is given only while the display is blocked.
`RegisteredUnlessRaced` needs that the scan, between its reads and its stores, is not about to free
or flag the slot of a process that met nobody (`UndisputedInv`), which needs that a PID is in one
slot only (`OwnerInv`). `LimitsHold` needs `LimitsInv`: the counts since the switch are behind those
of the loop, and there is room for one more wherever saving may go on. `SavedAsRecorded` needs
`CubeInv` (the cube in progress is in the buffer of the loop, and from the fill on in the message),
`ApartInv` (the buffers change roles after each thread that is created, so the loop writes to the
other one) and `ThreadInv` (what each step of the thread has read is that of its cube, and it never
names a file that was saved).

`NoPriorityInversion` relates the scan of a queue to a selection that comes after other scans and
purges. `ScannedInv` bridges them: a queue already scanned that has a startable task still has it as
its candidate. It needs `HasAged` again, for a purge that freed an active task would make the next
one of its queue the oldest.

The network links. `PublishedWhole` needs to know where the receiver is in the byte stream.
`Contiguous` says that the units of the connection, and the one to be sent next, follow each other
(with a claim on any two of them, so that taking one out is no new case); `Aligned` says that the
first has the place in its frame that the count of what was received or thrown away calls for.
`SlicesInPlace` adds that whatever is under way was copied completely, from a slice that holds a
frame that belongs there; this rests on `SourceInv` of `StreamTransmit_proofs`: the transmitter is
never ahead of the writer, and every slice it may pick has been written, or is the first.

`GivesUpOnlyAfterLoss` needs `WaitInv`, a claim on every run of datagrams without an index 0 that
the socket holds, counted from the first one the receiver has waited in vain for: it is no longer
than a frame but for `NDgrams - 1` for each fault. `GapsHaveFaults` needs an account (`GapInv`). The
datagrams from the one read last to the one sent next are a chain, which breaks where two that do
not follow each other meet. Breaks in the chain, gaps published and gaps the receiver already owes
(it is looking for a datagram 0, or is putting together a frame that does not follow) are together
at most the faults: a loss makes one break, an overtaking three, and no break is paid for twice.
`MixedHaveFaults` is another account (`MixedInv`), of *joints*: places in the chain where a datagram
is of another transmission than the one before, and fits it all the same. A datagram that is sent
makes one only when the datagrams between it and the end of the chain, all lost (`Pending`), are as
many as a frame has. A datagram overtaken makes at most three joints, or two and one more with the
next datagram that is sent; hence the two cases of `Paid`. Frames mixed, the one that is being mixed
and the joints still ahead are together paid for by the losses and three frames' worth for each
overtaking. `MixedInOrder` is what this says when there is none.

That a link implements `StreamRelay` needs an invariant of its own, the `OrderInv` of each proof
module. Over TCP it says that units that follow each other in the connection, in the buffer and in
what was published last belong to the same frame or, after a trailer, to the next one. Over UDP it
counts again. When a datagram 0 comes after the datagram 0 of a later frame, the later overtook it, and
each datagram between the two overtook one of them or was overtaken by it: their distance is at most
`swaps`. A frame is published only when `NDgrams` datagrams were read from
its datagram 0 on, so that what follows in the wrong order is at least that far away. The hypothesis
`swaps < NDgrams` is therefore not for convenience: `NDgrams` overtakings and one loss can deliver a
frame after a later one, and TLC finds that behaviour when `MaxSwaps` is 2 in the cfg of `udp`.

Three definitions were corrected when proofs failed. `GapsAreFaults` used to count one gap for an
overtaking whatever the size of a frame; with frames of a single datagram the order 1, 3, 2, 4 has
three. `TypeOK` of StreamUDP needs that the receiver waits for at least one datagram
(`MAX_DATAGRAM_WAIT # 0`; 300 in the code). `Regular` used to leave the last frame out of every
receiver that had ended after an exit was asked for, also of one that gave up while it
resynchronised and had published nothing since: a frame delivered would have been taken back.

The proof that a step preserves an invariant has one case per action. The refinement maps
`SubmitTask` to Submit, the return of a command to Launch, `ScanComplete` to Finish and every other
step to a stutter, one lemma each (`SubmitTaskSubmits`, `ReturnsLaunches`, `ScanCompleteFinishes`,
`QueuesStutter`); those of the links map `CopiesMetadata` or `PicksSlice` to Transmit and `Publishes`
to Deliver or to a stutter (`PublishesDelivers`, `RelayStep`).

**Only model-checked.** All liveness properties (`QueuesIndependent`, `EverySettingIsJudged`,
`Quiesces`, `WritableFollowsRun`, `StopIsHonored`, `ConfwupdateReturns`, `ExitEnds`,
`FramesAreTaken`, `DisplayGoesOn`, `SlotFreed`, `PartialCubeSaved`, `WholeFramePublished`,
`FreshEnough`, `Ends`): fairness and ENABLED are outside what the provers here can do. Also
`Computes`, whose instances are made by recursive operators. Of the UDP link two bounds are
proved with a larger coefficient than the runs check. With datagrams overtaken, `GapsAreFaults`
(in frames of several datagrams) and `MixedOnlyByFaults` allow one gap and one mixed frame for each
overtaking, `GapsHaveFaults` and `MixedHaveFaults` prove three. An overtaking touches the chain in
three places, of which the receiver finds no more than one to be a gap or takes no more than one for
a joint: that takes an account of which places lie within a frame. The run `udp` stands for it with
one overtaking; both bounds also hold with two, for frames of 2 datagrams and, with a loss, of 3
(6.4 million states, by hand).

About `Computes`: it is claimed for the class `IsSafe` of `MCExecuteArith`. The class is not chosen
for comfort: of the three-operation expressions of few kinds that it leaves out, 156, the code
computes every one wrongly. Ends is claimed for all expressions but those in which something follows a
negative number in parentheses (`NegativeIsLast`).

## 7. Hazards

`PROJECT.json` lists what is hard to test in this code at the line where it bites, with the
properties that cover it or the reason none does. Known and covered by no property: a run that
crashes leaves `CMDRUN` set (`fps/fps_RUNexit.c:10`, the code has no recovery); `runwait` holds the
control loop up to 1000 s (`fps/fps_processcmdline.c:638`); a rescan renumbers FPSs under running
tasks (`:245`); a line that is only partly in the fifo is dropped (`fps/fps_read_fpsCMD_fifo.c:52`);
an exit request between a read of 2 and the store of 1 is overwritten
(`processinfo/processinfo_loopstep.c:26`); the reload of a trigger mode after the fallback to `cnt0`;
a counter mode that starts from a stale value; runstop and lost updates of the status word, which
release waiting tasks early; `cnt1` taken for a count, and frames beyond the limit of a semaphore;
WAITONCONF and the answers of confwupdate, which are
wrong as the diagnostic configurations show.

## 8. Plan

Modules, most important first.

1. `FpsTaskQueues`, `FpsScheduler` with its proofs and the refinement: **done**.
2. `FpsConf` with its proofs: **done**.
3. `ProcinfoLoop` with its proofs: **done**.
4. `ProcinfoList` with its proofs: **done**.
5. `LogShmim` with its proofs: **done**.
6. `StreamTransmit`, `StreamUDP`, `StreamTCP` with their proofs, and `StreamRelay`, which both links are
   proved to implement: **done**.
7. `ExecuteArith`: **done**, model-checked.
8. What would come next: the rescan of FPSs and partial fifo lines in `FpsScheduler`; the creation of
   the process list by two processes at once; image tables over streams that other processes create
   and delete; the ring of `stream_delay.c`.
9. Proofs that would come next: the coefficients of the two bounds of StreamUDP with datagrams
   overtaken; what of `FpsConf` holds with `WordsRace`; an abstract trigger counter that
   `ProcinfoLoop` implements.

New questions join existing runs where the instance is the same.
