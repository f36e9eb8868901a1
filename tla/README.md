# A TLA+ model of the Baby MIND data acquisition

The Baby MIND DAQ reads front-end boards over USB, finds the accelerator
spills in the words they send, puts the fragments of one spill from all boards
together into an event and writes it to a file. The program is a finite-state
machine (`src/src/BMDStateMachine.cpp`) that hires worker threads
(`src/src/BMDWorkers.cpp`), which pass data containers through FIFOs; the data
structures and the fragment builder are in `src/src/BMDDataLib*`. This
directory holds TLA+ modules for these parts, TLC configurations that check
them on small instances, and proofs checked by TLAPS.

Source paths below are relative to the repository; `BMDWorkers.cpp:213` is
line 213 of `src/src/BMDWorkers.cpp`.

## Inventory

| Component | State it keeps | Operations | Talks to |
|---|---|---|---|
| `DataFragmentBuilder` (`BMDDataLib.cpp`) | board Id, memory bank of the open fragment | `process`, `moveToEventBank`, `clear` | called by the event builder with a container; appends to the spill bank |
| `BMDMemBank` (`BMDDataLib-inl.h`, `BMDDataHeaders.h`) | buffer, pointer to the header in it, header with size, count and event Id | construction, copy, move, `append`, `clear` | held by the builders |
| `BMDDataScanner` (`BMDWorkers.cpp`) | trigger tag, marks it adds to a container | `process` (`read`, `readAndCheck`) | takes raw containers, gives scanned ones |
| `BMDEventBuilder` (`BMDWorkers.cpp`) | a builder for each board, spill bank, event Id | `init`, `process`, `close` | takes scanned containers, writes to the recorder, recycles the containers |
| `BMDReadout` (`BMDWorkers.cpp`) | its device | `init`, `process` | takes empty containers, gives raw ones |
| FIFOs and workers (`BMDStandby`) | three FIFOs, containers, threads | connect, start, stop | all workers |
| State machine (`BMDStateMachine.cpp`) | state, devices, configuration with the run number, library session, workers, pointer to the event builder | `whenEntering`, `whenSameState`, `whenLeaving` of five states | operator commands, errors of workers, devices |
| Local control (`bm_daq_local_ctrl.cpp`) | the terminal, which may have failed | reads commands from a terminal | the state machine |
| Remote control (`BMDGui.cpp`, `bm_daq_gui.cpp`, `bm_daq_remote_ctrl.cpp`) | buttons and state of the window; socket | publish and receive commands | the state machine, over ZeroMQ |
| Crash handler (`GetBackTrace.h`) | none | prints a back trace on SIGSEGV | - |
| Libraries (not in the repository) | mic11api (`Fsm`, `Worker`, `PtrFifo`), libufec, libufecpp (`UFEDataContainer`, `UFEDevice`, `UFEContext`), bm-unpack (`MDdataWordBM`), ZeroMQ, Qt | | |

What is hard in this code, and what makes each part correct:

* **Cuts.** The USB readout cuts the words of a board into containers anywhere;
  a spill may span many containers, and its end may share one with the start of
  the next. The fragments must not depend on the cuts: none lost, none made
  up, header, size, marks and contents right, and healthy data must never end
  the run.
* **Two loops of the scanner.** A mark at the seam must be neither missed nor
  made twice; a trigger tag must be held against its own header.
* **Events of several boards.** The event builder counts fragments and does not
  look at their boards. With boards out of step, after failed writes and over
  several runs of one object, no fragment may be lost or mixed.
* **Threads.** Containers are shared by pointer between all threads. Each must
  be in one pair of hands, clean when filled, and no thread may wait for a
  container another one needs.
* **Errors in callbacks.** A callback may fail at any device and ask for
  another state while the machine is changing state. Devices, workers and the
  library session must match the state after any sequence of commands and
  errors.
* **Commands over a network.** The window publishes commands and gets no answer;
  some are lost, others wait while a callback is busy. What an operator may
  conclude from the buttons pressed must hold all the same.
* **Run numbers.** They live in memory and go to a file when the program ends,
  in one of two ways, and are loaded again while they live. A number that is
  known must not be given twice, after errors and restarts.
* **Pointers into buffers.** The header of a bank is a pointer into a buffer that
  moves when the bank grows, is copied or is moved.

The hazards, each at its line and with the properties that look for it, are
listed in `PROJECT.json`.

## Modules

| Module | What it is | Code |
|---|---|---|
| `DataLib` | words, containers with marks, banks; the case analysis of `DataFragmentBuilder::process` as operators | `BMDDataLib.cpp:43-155`, `BMDDataLib-inl.h:35-91` |
| `Spills` | the yardstick: the spills of a stream of words, defined with no reference to containers or banks | - |
| `FragmentBuilder` | one builder and the stream of its board; a step is one call of `process()` | same as `DataLib` |
| `DataScanner` | the two loops; a step reads one word | `BMDWorkers.cpp:59-151` |
| `EventWorker` | the builders of all boards, the spill bank, the recorder: each way a call of `init`, `process`, `close` or the destructor may go, given a container | `BMDWorkers.cpp:153-240` |
| `EventBuilder` | `EventWorker` fed with the boards' streams, each in order | same |
| `SpillEvents` | what the event builder promises: a fragment of each board, then an event | - |
| `Pipeline` | the threads, the FIFOs and the containers that go round | `BMDStateMachine.cpp:256-311`, `process()` of the workers |
| `Acquisition` | `Pipeline` with words in the containers, the marks the scanner makes, and `EventBuilder` at the end, whose specification it is shown to implement | same, and `BMDWorkers.cpp:93-116` |
| `RunControl` | the callbacks of the state machine, one action for each way a callback may go | `BMDStateMachine.cpp:51-448` |
| `RunNumbers` | `RunControl` with the run number in file, document and recorder, and a program that ends or is killed and is started again | same, in particular `BMDStateMachine.cpp:142`, `188`, `266`, `447` |
| `Controls` | `RunControl` with the two programs that give it commands, the window and the connection | `BMDGui.cpp`, `bm_daq_local_ctrl.cpp`, `bm_daq_remote_ctrl.cpp` |
| `MemBank` | several banks in shared memory: buffer, header pointer, header | `BMDDataLib-inl.h:28-91` |
| `MCFragmentBuilder`, `MCDataScanner`, `MCEventBuilder`, `MCAcquisition` | small streams and contents for TLC | - |
| `Spills_proofs` | lemmas about the data: what a container cut from a stream, a part appended to a bank, and a call of `process()` do, and what the spills of a longer stream are | - |
| `DataScanner_proofs`, `FragmentBuilder_proofs`, `EventBuilder_proofs`, `MemBank_proofs` | theorems about the module of that name; the middle two rest on `Spills_proofs` | - |
| `Acquisition_proofs` | theorems about `Pipeline`, with the containers filled as in `Acquisition`, and about the words that arrive; rests on `EventBuilder_proofs` | - |
| `RunControl_proofs` | theorems about `RunControl`, `RunNumbers` and `Controls` | - |

`FragmentBuilder`, `EventWorker` and `Spills` use the operators of `DataLib`;
`EventWorker` uses them for each board as `FragmentBuilder` does for one, so
what is found for one builder holds for the builders of an event. The actions of
`EventWorker` take the container as a parameter: `EventBuilder` gives them one
cut from a stream, `Acquisition` the one that has come through the FIFOs.
`EventBuilder` instantiates `SpillEvents`. `Acquisition` extends `Pipeline` and
`EventBuilder` and has the variables of both; `streams` and `pos` are history
there: what the boards send in the run, and how many words of each `process()`
has handled, whatever it was given. Its property `BuildsEvents` is the `Spec` of
`EventBuilder`: what comes out of the FIFOs are the next words of a board.
`Controls` and `RunNumbers` extend `RunControl` and join its actions, each with
what is new. Definitions keep the names of the code (`n_fragments`,
`trigger_tag`, `event_id`, `rec_proc`) where there is one.

### State and actions

* **Words.** A word is what `MDdataWordBM` tells of it: type, spill tag (or
  trigger tag), board Id. The code counts bytes, the model words. The
  header of a bank, one `size_t`, takes the first two places of its words,
  since the code reads positions of the whole buffer: `moveToEventBank` looks
  for the first word of the trailer two words before the marked one, which may
  be outside of the data.
* **Banks.** `size` is the field `header_->size_`, a variable of its own
  because the code sets it in two places (`BMDDataLib-inl.h:77-84` and
  `BMDDataLib.cpp:101`).
* **`FragmentBuilder`.** `Accept` is a call that returns, `Reject` one that
  throws; which of them depends on `Thrown`, the order of the tests in the
  code. After a throw the builder is not called again, as the error is FATAL
  and the event builder passes it on.
* **`DataScanner`.** `Begin` is the call, `Read` a turn of the first loop, `Found`
  its end, `ReadAndCheck` a turn of the second, `Return` the return; an empty
  container ends in `Error_s`.
* **`EventWorker`.** `Gather`, `Write`, `WriteFails`, `Corrupt` and `Stranger`
  are the ways `process()` may go, each a whole call: builder, count, write,
  clear. `Open` is `init()`, `Close` is `close()`, `Dismissed` the destructor and
  the construction of the next worker, with which event Ids start from 0. The
  Id goes round at `EventIds`, 2^32 for the `uint32_t` of the code. That
  `recorder_.init()` throws, as the first thing `init()` does, is
  `WorkersInitFails` of `RunControl`.
* **`Pipeline`.** A worker takes a container in one step and passes it on in
  another, and the steps of all workers interleave. `data` names what is in a
  container (the n-th data of a device), `marks` the data its marks were made
  for: a container that is not cleared has the marks of two. `Drain` is what a
  stop does to the FIFOs (see the assumptions).
* **`Acquisition`.** The containers are those of `Pipeline`. A feed has the
  stream of each board and the reads of each device: the n-th data of a device is
  the words of one board from a place up to another. The assumption on feeds says
  that a board is read by one device, on from where its last read ended, and to
  its end. `Arrived` makes of a container what the event builder finds in it,
  marks of older data included if there were any. Each action is one of
  `Pipeline` joined with what `EventWorker` does in it: `Ready`, `EventDone`,
  `EventError`, `Finish`, `Forget`.
* **`RunControl`.** `phase` and `other` say which callback is next and what it is
  told of the other state. Each action is one callback from its call to its
  return; a callback that fails half-way has an action for the failure, with
  the devices up to the one that failed changed and the rest not; a device that
  was opened and could not be configured stays open. `SessionCrashes` is a way
  out that meets a library that no `ufe_init` has set up; the other outcome, that
  the library bears the calls, is `Exit` or `EnterFatalError`.
* **`RunNumbers`.** `Other` is the callbacks that leave the number alone; the
  rest of `RunControl`'s actions are grouped by what they do to it. `Load` and
  `LoadAgain` are `loadBMConfig` at the start and in Idle, `Save` the
  `updateBMConfig(path)` of line 188, `SaveAtFatalError` the `updateBMConfig()` of
  line 447, which writes the same file if `SamePath`. `StartAgain`
  puts every variable of the program back, wherever it was, and keeps the file.
  `used` is history: the last number a run had and that may not come again.
  `Free` takes numbers from it where the program loses what it knew of their
  runs; each action that does so names which.
* **`Controls`.** `Obey` is what the machine makes of a command, given by `Type`,
  `Mistype`, `ReadNothing`, `Receive` or `ReceiveFails`. `inbox` is the commands
  that will come over: `Unlink` and `CloseWindow` cut off any number of the last
  of them. `Link` may come again, as ZeroMQ connects again.
* **`MemBank`.** A bank is its buffer, size and header pointer, by name of the
  block of memory; `bytes` is what the start of each block says. A block that a
  bank has left may be another's next, with its old bytes in it.

## Assumptions on code outside of the repository

They are stated in the modules that make them.

* `UFEDataContainer::append(c, pos, size)` copies the words and, moved, the
  marks in the range (`TestDataLib.cpp` reads both).
* `PtrFifo` is first in, first out; a push waits while the FIFO is full. A stop
  of the run leaves the FIFOs empty: each entry of Standby pushes a whole FIFO
  of new containers (`BMDStateMachine.cpp:302-305`), which would wait for ever
  otherwise.
* A worker whose `process()` does not return `OK_s` takes no more containers.
* `Fsm::changeState` called in a callback takes effect when the callback has
  returned; called in `whenLeavingStateDo` it replaces the new state. Commands
  move Idle - Standby - Active and back, Failure to Idle, and Idle to the end.
  A command that means nothing in a state calls `whenSameStateDo`. `Fsm` asks
  the input function for the next command when it has settled.
* A `UFEError` is SERIOUS or FATAL, the two severities the code names.
* The recorder is given the number of the next run (`BMDStateMachine.cpp:266`),
  goes on to the next at the end of a run and notes it in the configuration
  document: `BMDStateMachine.cpp:329` takes its number less one for the last run,
  and lines 185-188 save the document "to store the number of the last run".
* `updateBMConfig()` without a path (`BMDStateMachine.cpp:447`) writes the file
  that was loaded, `babyMIND-config.json`, as the call with that path at line 188
  does. libufecpp decides that, so it is a constant, `SamePath`; the run
  `run_control` and the theorem `NumbersFresh` have it `TRUE`. With `FALSE`
  TLC finds `RunNumbersFresh` violated: a FATAL error after a run, and the next
  start gives the number again.
* A load that throws leaves the document as it was, or empty; either may happen.
* ZeroMQ delivers the messages of a publisher in their order or not at all, and
  only those sent after the subscription has come through.
* `UFEDataContainer`: a copy copies the bytes, into the buffer it has if that is
  large enough; a move takes the buffer along and leaves none
  (`TestDataLib.cpp:68-84`, `127-148`).
* What a killed program leaves behind on the boards is not followed: a new start
  finds them as the first did.
* `BMDMemBank(size_t)` sets only the size in the header of a new bank; what its
  `n_fragments_` then is depends on what `resize` of libufecpp leaves in the
  buffer. It is any of `FreshCounts`, and the runs take `{0}`: the tests read 0
  (`TestDataLib.cpp:94`, and `TestWorkers.cpp:152` after a first fragment). With
  `{0, 1}` TLC finds `EventsWellCounted` violated: the whole first event depends
  on that assumption.
* All boards see the spills of one beam. With `KeepStep` a board finishes a spill
  only when no other has finished fewer; without it each goes at its own pace, as
  in `event_mixed` and `acquisition`.

## Runs

| Run | Shows | Bounds |
|---|---|---|
| `fragment_builder` | the fragments are the spills of the stream, whatever the cuts (`CutIndependent`); only genuine spills come out, whatever comes in (`FragmentsGenuine`); a header is never lost in silence (`NoHeaderLost`); healthy data, whose marks of a kind lie a container or more apart, never throws (`NoFalseAlarm`) | every sequence of up to 5 words of 5 kinds, and three pieces of a list of six (spills, torn spills, stray ends); containers of 1 to 4 words. The longest bank spans three containers, and the code tells apart only empty, one mark or several |
| `fragment_size` | violated: the size field is too large between the containers of a spill | |
| `data_scanner` | marks and reports, for every content | up to 4 words: each loop may read any of them, and a trigger needs two |
| `event_builder` | boards that keep step: no spill lost, mixed or doubled, over several runs with corrupt data and failed writes; implements `SpillEvents` | two boards, two spills in a run, runs as long as fewer than three events are written: the event Id and the banks meet at the seams of the runs |
| `event_mixed` | violated: an event may hold two fragments of one board | |
| `event_stranger` | violated: a board that is not configured crashes the process | |
| `acquisition` | containers are never shared, lost or dirty, order is kept, nothing jams; whatever thread is ahead, the event builder sees the streams of the boards and does what `EventBuilder` does with them; in a run without errors every spill becomes a fragment, events are written as soon as there are fragments for one, and all spills are written when the boards have sent as many (`EverySpillWritten`) | two devices with three boards between them, three containers: containers go round more than once, and there are fewer of them than workers; boards up to two spills ahead; a feed of good spills, as many from each board, one of good spills with a silent board, whose spills end up waiting, and one with cut spills and a corrupt one; every error of every worker; `MaxEvents` 1: a run is begun as long as the worker has written no event, so a run can end with fragments waiting and another begin |
| `run_control` | the next run has a number above those of all earlier runs that the file, the document or the recorder still knows (`RunNumbersFresh`, see below for what is not known any more); devices are ready in a run, silent outside, closed at the end | `SamePath`; four devices; the errors after which the machine ends or is as it was; three runs over any number of starts of the program |
| `run_errors` | the workers match the state, every change of state comes to rest, `Exit` ends the program, commands that have come over are served, and after Stop and Off the system is quiet | three devices; every error; either control; four uses of the window: enough to open it, press two buttons and close it, with the connection going at any time |
| `memory_bank` | the header of a bank is its own, through copies, moves and growth | two banks, three blocks of up to three sizes: a bank may grow out of its block, and into one another has left |
| `run_recovery` | violated: a SERIOUS error at the start, then Off and On, runs with devices that were never set up | |
| `run_stop` | violated: a device that cannot be stopped keeps the stop from the others | |

`fragment_builder` and `data_scanner` also run over malformed data, since
nothing in the code checks it before them. `CHECK_DEADLOCK FALSE` stands where
the system may stop: at the end of a stream, of the runs or of the process.
`event_mixed` runs on well-formed streams only, so its violation is not an
artefact of odd data. In `acquisition`, where nothing keeps the boards in step,
such events are written too: what is checked there is that no spill is lost and
none is written twice, not that events hold all boards.

### Fairness

* `acquisition`: `WF` of a step of each thread (readout of each device, scanner,
  event builder). A thread that can go on does; no fairness is assumed among
  the threads that compete for one FIFO, since how `PtrFifo` wakes its waiters
  is not known. `EveryReadBuilt` therefore says that what was read is built, and
  `EverySpillWritten` rests on what a device sends being bounded: the others
  get their turn when it is done. A run that ends, or a worker that fails, is
  under no fairness, and both properties make the exception.
* `run_errors`: `WF` of the callbacks. A callback that was called returns, as
  no callback waits for anything but the device library. `WF` of `Receive`: the
  loop of `Fsm` calls the input function whenever it has settled. The operator
  and the connection are under no fairness.

### Violated properties

* `HeaderSizeIsSize` (`BMDDataLib.cpp:101`): `process()` adds the size of a
  container to `header_->size_`, which `append` had already set. The next
  `append` puts it right, so the field is right in the event bank
  (`FragmentsGenuine` says so) and wrong only between calls. The test that
  would see it, `TestDataLib.cpp:203`, assigns where it means to compare.
* `EventsHoldAllBoards` (`BMDWorkers.cpp:213`): the number of fragments is
  compared with the number of boards, and their boards are not. With boards one
  spill apart an event may hold two fragments of one board. With boards that
  keep step it cannot happen (`EventIsOneSpill` in `event_builder`).
* `StrangerReported` (`BMDWorkers.cpp:210`): the error for data of a wrong
  board cannot be reached in the event builder, because the builder is looked
  up by the Id in the data: an unknown Id makes a null pointer. A builder alone
  does throw it.
* `DevicesReady` (`BMDStateMachine.cpp:119`): a SERIOUS error of a device at
  the start leads to Failure, from there to Idle, which sets up devices only
  when it comes from Undefined, and from Idle to Standby.
* `ReadsOnlyInActive` (`BMDStateMachine.cpp:390`): one `try` is around the
  loop that stops the devices, so the first failure ends the loop.

Two more are not runs of their own. `run_control` takes only SERIOUS for the
errors of reading the configuration again (`ReloadErrors = {"SERIOUS"}`). With
FATAL, `ClosedAtEnd` fails: Idle then calls `ufe_init` over the session that is
still open (`BMDStateMachine.cpp:158`), as it does at the start, where none is.

And `RunNumbersFresh` does not speak of numbers that nothing knows any more, and
says which: a kill or a crash frees the numbers of the runs since the last save,
whether it comes in a run or after it; a load in Idle those since the last load;
a document that a failed load has emptied, or that is saved empty, frees all. In
each of these a number is given twice, and TLC finds it when the action does not
free it. The load in Idle needs neither an error nor a kill: any command
without a meaning there loads the file (`BMDStateMachine.cpp:142`) over the
document with the numbers of the runs since, so that a run, Off, such a
command and Exit end with the number of that run not stored, under the
assumption on the recorder above. What the property does check is that every
other way, through errors, ends and new starts, hands the number on from
recorder to document to file and back.

## Proofs

TLAPS checks these theorems for every value of the constants that satisfies the
assumptions of the modules (streams are sequences of words, containers hold a
word or more, the boards are finitely many numbers, a FIFO has room for all
containers, and so on; TLC evaluates them in the runs) and the hypotheses in
the last column, which the theorem itself names.

| Theorem | Says | Hypotheses |
|---|---|---|
| `DataScanner_proofs!TypeCorrect`, `ScanExact` | types; the scan marks every spill header and the last word of every trailer once and in order | |
| `DataScanner_proofs!ReportsRight` | a mismatch is reported for exactly the trigger trailers that disagree with the last header before them, once a tag other than 0 was seen | |
| `FragmentBuilder_proofs!TypeCorrect`, `OnlyGenuine` | types; only complete spills with matching ends reach the event bank, whatever the board sends and after whatever error | |
| `FragmentBuilder_proofs!HeadersAccounted` | no spill header is lost in silence, however the stream is cut | |
| `FragmentBuilder_proofs!CutsHidden` | what was handed on is the spills of the stream, in its order, wherever the containers end | |
| `FragmentBuilder_proofs!HealthyPasses` | on a stream in which headers and trailers take turns and agree, and marks of a kind are a container apart, `process()` throws nothing but a wrong board Id | |
| `EventBuilder_proofs!TypeCorrect`, `IdsFresh` | types; an event Id is given again only when all `EventIds` of them have been given | |
| `EventBuilder_proofs!SpillsAllKept` | every spill of every board lies once in the events or in the spill bank, in the order of its board | |
| `EventBuilder_proofs!CountsCorrect` | the count is the number of fragments and never passes the number of boards | `BoardsCountable`, `FreshCounts = {0}` |
| `EventBuilder_proofs!EventsWhole`, `EventsAreSpills` | an event has a fragment of each board, and they are all of one spill | the same, and `KeepStep` |
| `EventBuilder_proofs!Implements` | `EventBuilder` implements `SpillEvents` | the same |
| `Acquisition_proofs!PipelineTypeCorrect`, `ContainersShared`, `PushesPass`, `ContainersClean`, `NothingOvertaken` | a container is in one pair of hands or one FIFO; no push waits; containers are used clean; the data of a device keeps its order | |
| `Acquisition_proofs!PipelineBuilds` | the pipeline implements `EventBuilder` | `~KeepStep` |
| `Acquisition_proofs!PipelineKeepsSpills` | from the readout to the events no spill is lost, doubled or mixed | `~KeepStep` |
| `Acquisition_proofs!PipelineCounts` | the count is right in the pipeline, too | `~KeepStep`, `BoardsCountable`, `FreshCounts = {0}` |
| `RunControl_proofs!TypeCorrect`, `CrewCorrect` | types; the workers hired match the state | |
| `RunControl_proofs!StopReaches` | nothing reads out when a run has ended | `"SERIOUS" \notin StopErrors` |
| `RunControl_proofs!StandbyReady` | Standby is entered with every device set up, and nothing in Standby or Active crashes | `"SERIOUS" \notin LoadErrors \cup InitErrors` |
| `RunControl_proofs!EndCloses` | a program that ends has closed what it opened | `"FATAL" \notin ReloadErrors` |
| `RunControl_proofs!NumbersFresh` | the next run has a number above those of all earlier runs that are still known, over all starts, kills, crashes and errors | `SamePath` |
| `RunControl_proofs!StopReachesAgain`, `StandbyReadyAgain`, `EndClosesAgain` | the three above, for a program that is killed and started again | as above |
| `RunControl_proofs!TypeCorrectControlled`, `CrewCorrectControlled`, `StopOffCorrect` | types and workers whoever gives the commands; after Stop and Off have come over the system is quiet | |
| `MemBank_proofs!ValuesCorrect` | the header of a bank is its own, through every copy, move and growth | |

The hypotheses are where the code needs them, and the runs show it:

* `"SERIOUS" \notin StopErrors`: a device that fails to stop with a SERIOUS error
  leaves the devices after it reading out (`run_stop`).
* `"SERIOUS" \notin LoadErrors \cup InitErrors`: a SERIOUS error at the start is
  the way into Standby with devices that were never set up (`run_recovery`).
* `"FATAL" \notin ReloadErrors`: a FATAL error of the second load calls `ufe_init`
  over the open session (see above).
* `SamePath`: with `FALSE` the numbers of the runs before a FATAL error come again.
* `FreshCounts = {0}`: with `{0, 1}` the first event is counted wrong.
* `BoardsCountable`, fewer than 2^16 boards: the count has 16 bits.
* `KeepStep`, boards that keep step: without it events are mixed
  (`event_mixed`).
* `~KeepStep`: this is no condition on the code. Nothing keeps the boards in step
  in `Acquisition`, and so it implements the `EventBuilder` of boards that go at their
  own pace.

### Along which argument

**Scanner.** `MarksExact` is stated for every word read, not only for the end
of a scan: the marks made so far are those of the words read so far. What it
lacks is that a scan starts from nothing; `IInv` adds `Rest`. For the reports,
`RInv` adds what the two loops carry from word to word: `trigger_tag` is the tag
of the last trigger header (`TagKept`), and the first loop stops behind the first such
tag other than 0, where the second goes on (`TwoLoops`).

**Fragment builder.** `FragmentsGenuine` and `NoHeaderLost` are not inductive: a
bank with a stray trailer or with words that are no prefix of a spill would
satisfy both and give a wrong fragment in the next step. `IInv` adds `Sound`:
between two calls that return, the bank is empty or it is *open*, that is, it
holds just the words from one header of the stream to the place where the last
container ended, no mark lies behind that header, the one header mark is on it,
and there is no trailer mark. `size` is only known to be a number, as
`HeaderSizeIsSize` fails. The proof goes in layers: marks of a container as
places of the stream (`Cut`, `HeaderIn`, `TrailerIn`, `NoMarkIn`); words and
marks after `append` (`PartStarts`, `PartGoesOn`); each way through `process()`
(`WhenOpens`, `WhenWhole`, `WhenEnds`, `WhenGoesOn`); and the call as a whole. After a
throw nothing more is said of the bank than its type.

For the order, `Fragments` is stated by rank: the n-th fragment ends at the
n-th place of the stream where a spill ends. `Firm` is `Sound` with no header
forgotten. `CallDelivers` shows that a call that returns adds one spill, which
ends behind all that were handed on, when it completes a fragment, and none
otherwise (`DeliversLast` is its form for one of several builders). For
`HealthyPasses`, marks of a kind that are a container apart are never two in one
(`HealthySingle`), and where marks take turns a trailer has its header in front
of it and a header in the container of an open fragment its trailer.

**Event builder.** `IInv` is the types, with those of the calls of the recorder.
`EventsWellCounted` is inductive with it: a call adds one fragment or none to a
count that is below the number of boards. `SpillsInv` says of each board
`Intact`: its builder is `Firm`, and its fragments, in the order of their places
in the rows of `writes` and `spill`, are the spills of the words it was given.
A call that completes a fragment adds a place behind all others
(`PlacesAfter`, `LastPlace`); writing the event moves a row and no place.
With boards in step, `Steady` says that no row has two fragments of a board and
that a board has a fragment for every event and perhaps one that waits, so that
as many fragments as boards are one of each (`OneOfEach`); `OneSpill` that the i-th
row has the i-th spills. The refinement of `SpillEvents` takes its steps from
these: a call that completes a fragment is `Take`, or `Take` and the event.

**Pipeline.** `PInv` says where the containers are: in no two FIFOs or hands
(`Apart`), nowhere else (`Somewhere`), none when off (`AtRest`), with `MarksFresh`.
The count in `EachContainerOnce` and the room in `NoPushWaits` follow. `Ordered` is
`OrderKept` along one sequence, from the end of the line back to the readout;
taking a container moves the seam between two parts of it and leaves the
sequence as it is.

For the words, `Reading` says that the devices read what one of the feeds has, and
`Reached` that `pos` of a board is the end of the last of its reads the event
builder has had. The container in the hands of the event builder is the first on
its way, so by `Ordered` all earlier data of its device have been built and no
later ones (`BuilderHasNext`); by the assumption on feeds the read before it on the
same board is among them, which makes its words those that follow `pos`
(`NextSlice`), and `MarksFresh` makes its marks the marks of these words alone
(`ArrivedIsInput`). Every call of `process()` in the pipeline is then one of `Deliver`
in `EventBuilder`, every other step is `Begin`, `End` or a stutter, and the theorems
of `EventBuilder` hold of the pipeline.

**State machine.** `IInv` adds to the types which state may follow which
(`Route`), who is hired on the way (`Staff`) and when a session is open
(`Sessions`). `Quiet`, `Ready` and `Closed` strengthen the three properties with the
states between two settled ones. `NumbersOK` adds `NextNumber`: where the number
of the next run is (in the file, the document or the recorder) in each state. `StopOffQuiets` rests on
`AskedOrServed`: the last commands pressed are the last in the connection, or
they were served, or they were cut off.

**Memory banks.** `BInv` adds to the property that a header pointer points to
its own buffer (`HeadersOwn`) and that no two banks have one (`BuffersApart`).

### Only model-checked

* Everything under fairness: `EveryReadBuilt`, `EverySpillWritten`, `Settles`,
  `CommandsServed`, `ExitEnds`. Liveness and `ENABLED` are out of the prover's reach.
* `HeaderSizeIsSize`, `EventsHoldAllBoards` with boards out of step,
  `StrangerReported`: they do not hold.

## Not modelled

* `setBoardId` of the fragment builder, which nothing calls, and a `setInput`
  after the start.
* Time stamps, the duration of a run, printed statistics, the verbose levels.
* `GetBackTrace.h`: it prints a back trace when the process is ended by a signal,
  and keeps no state.
* Layout of the window and parsing of arguments.
* What a killed program leaves on the boards (see the assumptions).
* Libraries outside of the repository, beyond the assumptions above.

## Plan

Done, in this order: `DataLib`, `Spills` and `FragmentBuilder` (everything else
rests on what a fragment is), `DataScanner`, `EventBuilder` with `SpillEvents`,
`Pipeline`, `RunControl`, `Controls`,
`EventWorker` with `Acquisition`, `RunNumbers` and `MemBank`.

An abstract machine (off, ready, running, failed, ended) that `RunControl`
implements is left out: its steps would be those of `state` in `RunControl` and
say nothing that `CrewMatchesState`, `ReadsOnlyInActive` and `ExitEnds` do not.

Proved since: every safety property of the passing runs, the refinement of
`SpillEvents` by `EventBuilder`, and that of `EventBuilder` by `Acquisition`.

Next: the theorems of `EventBuilder` for boards that keep step say what the
events hold when the beam keeps the boards together. A device that gives the data
of its boards in turn, or a limit on how far the containers let one board run
ahead, would be a reason in the code for such a bound; `Acquisition` has neither.
