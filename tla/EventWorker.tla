---------------------------- MODULE EventWorker ----------------------------
(***************************************************************************)
(* BMDEventBuilder (src/BMDWorkers.h, src/BMDWorkers.cpp): the worker that *)
(* hands each container to the fragment builder of its board and writes an *)
(* event when all fragments are there.  A step is one call of init(),      *)
(* close(), the destructor, or process(), given the container that comes.  *)
(***************************************************************************)
EXTENDS Spills

CONSTANTS
  Boards,      \* the boards of the devices in UFEContext
  Severities,  \* of the UFEErrors the recorder may throw
  EventIds,    \* the number of event Ids: 2^32, by the type of event_id_
  FreshCounts  \* what n_fragments_ of a new spill bank may be (see Open)

ASSUME BoardsAssumption ==
  IsFiniteSet(Boards) /\ Boards # {} /\ Boards \subseteq Nat
ASSUME FreshCountsAssumption == FreshCounts \subseteq 0 .. 2^16 - 1
ASSUME EventIdsAssumption == EventIds \in Nat \ {0}
ASSUME SeveritiesAssumption == Severities \subseteq {"SERIOUS", "FATAL"}

VARIABLES
  at,          \* "closed", "ready", or why process() stopped being called
  builders,    \* board_event_builders_, as the banks of the builders
  spill,       \* the fragments in *spill_mem_bank_
  n_fragments, \* spill_mem_bank_->header_->n_fragments_
  event_id,    \* event_id_
  writes,      \* history: the calls of recorder_.write in this run
  given        \* history: how many calls the object has made in all its runs

history    == <<writes, given>>
workerVars == <<at, builders, spill, n_fragments, event_id, history>>

NoBuilders == [b \in {} |-> EmptyBank]

WorkerInit ==
  /\ at = "closed"
  /\ builders = NoBuilders
  /\ spill = <<>> /\ n_fragments = 0
  /\ event_id = 0
  /\ writes = <<>> /\ given = 0

-----------------------------------------------------------------------------
\* New banks.  BMDMemBank(size_t) sets the size in the header and leaves the
\* count as resize() of libufecpp finds it.
NewBanks ==
  /\ at = "closed"
  /\ at' = "ready"
  /\ builders' = [b \in Boards |-> EmptyBank]
  /\ spill' = <<>> /\ n_fragments' \in FreshCounts
  /\ writes' = <<>> /\ UNCHANGED given

\* Mutant of Open: each run numbers its events from 0.
OpenFromZero == NewBanks /\ event_id' = 0

\* init().  The event Id goes on from the run before.  (recorder_.init() may
\* throw: before anything was done here, and WorkersInitFails of RunControl
\* has what follows.)
Open == NewBanks /\ UNCHANGED event_id

\* Mutant of Close: the spill bank is deleted, the builders are kept.
CloseSpillOnly ==
  /\ at \in {"ready", "error", "fatal"}
  /\ at' = "closed"
  /\ spill' = <<>> /\ n_fragments' = 0 /\ writes' = <<>>
  /\ UNCHANGED <<builders, event_id, given>>

\* close(): the banks are deleted with all that is in them.
Close ==
  /\ at \in {"ready", "error", "fatal"}
  /\ at' = "closed"
  /\ builders' = NoBuilders
  /\ spill' = <<>> /\ n_fragments' = 0 /\ writes' = <<>>
  /\ UNCHANGED <<event_id, given>>

\* The worker is dismissed, with close() or without; another will be hired.
Dismissed ==
  /\ at # "crashed"
  /\ at' = "closed"
  /\ builders' = NoBuilders
  /\ spill' = <<>> /\ n_fragments' = 0 /\ writes' = <<>>
  /\ event_id' = 0 /\ given' = 0

-----------------------------------------------------------------------------
\* The builder of the container's board returns.
Fed(c) ==
  /\ at = "ready" /\ c.board \in Boards
  /\ Thrown(c.board, builders[c.board], c) = NoError
  /\ builders' = [builders EXCEPT ![c.board] = BankAfter(@, c)]

\* The fragment it completes, if any.
Moved(c) ==
  IF Completes(builders[c.board], c)
  THEN <<[board |-> c.board, bank |-> Filled(builders[c.board], c)]>>
  ELSE <<>>

\* Mutant of SpillWith: a new fragment of a board takes the place of the old.
SpillWithLatest(c) ==
  IF Moved(c) = <<>> THEN spill
  ELSE SelectSeq(spill, LAMBDA f : f.board # c.board) \o Moved(c)

\* moveToEventBank: the spill bank and its count once the builder returns.
SpillWith(c) == spill \o Moved(c)
CountWith(c) == (n_fragments + Len(Moved(c))) % 2^16

\* Mutants of AllFragments: one short, and one too many.
AllButOne(c) == CountWith(c) + 1 = Cardinality(Boards)
MoreThanAll(c) == CountWith(c) > Cardinality(Boards)

AllFragments(c) == CountWith(c) = Cardinality(Boards)

\* The call of recorder_.write, and the event Id it has used up.
Recorded(c, ok) ==
  /\ writes' = Append(writes, [id |-> event_id, n |-> CountWith(c),
                               fragments |-> SpillWith(c), ok |-> ok])
  /\ event_id' = (event_id + 1) % EventIds
  /\ given' = given + 1

\* Fragments are missing: the container is recycled.
Gather(c) ==
  /\ Fed(c)
  /\ ~AllFragments(c)
  /\ spill' = SpillWith(c) /\ n_fragments' = CountWith(c)
  /\ UNCHANGED <<at, event_id, history>>

\* Mutant of Write: the spill bank is cleared, its count is not.
WriteUncounted(c) ==
  /\ Fed(c)
  /\ AllFragments(c)
  /\ Recorded(c, TRUE)
  /\ spill' = <<>> /\ n_fragments' = CountWith(c)
  /\ UNCHANGED at

\* Mutant of Write: the count is reset, the spill bank is not cleared.
WriteUncleared(c) ==
  /\ Fed(c)
  /\ AllFragments(c)
  /\ Recorded(c, TRUE)
  /\ spill' = SpillWith(c) /\ n_fragments' = 0
  /\ UNCHANGED at

\* All fragments are there: the event is written and the spill bank cleared.
Write(c) ==
  /\ Fed(c)
  /\ AllFragments(c)
  /\ Recorded(c, TRUE)
  /\ spill' = <<>> /\ n_fragments' = 0
  /\ UNCHANGED at

\* Mutant of WriteFails: the error is printed and process() returns OK_s.
WriteFailsQuietly(c) ==
  /\ Fed(c)
  /\ AllFragments(c)
  /\ Severities # {}
  /\ Recorded(c, FALSE)
  /\ spill' = SpillWith(c) /\ n_fragments' = CountWith(c)
  /\ UNCHANGED at

\* The recorder throws.  The event keeps its Id and stays in the spill bank.
WriteFails(c) ==
  /\ Fed(c)
  /\ AllFragments(c)
  /\ Recorded(c, FALSE)
  /\ spill' = SpillWith(c) /\ n_fragments' = CountWith(c)
  /\ \E s \in Severities : at' = IF s = "SERIOUS" THEN "error" ELSE "fatal"

\* The builder of the board throws.
Corrupt(c) ==
  /\ at = "ready" /\ c.board \in Boards
  /\ Thrown(c.board, builders[c.board], c) # NoError
  /\ builders' =
       [builders EXCEPT ![c.board] = BankAfterThrow(c.board, @, c)]
  /\ at' = "fatal"
  /\ UNCHANGED <<spill, n_fragments, event_id, history>>

\* A container of a board with no builder: operator[] of the map makes a null
\* pointer for it, and process() is called on that.
Stranger(c) ==
  /\ at = "ready" /\ c.board \notin Boards
  /\ at' = "crashed"
  /\ UNCHANGED <<builders, spill, n_fragments, event_id, history>>

\* process() returns OK_s, and its container is recycled; or it does not.
Returns(c) == Gather(c) \/ Write(c)
Fails(c)   == WriteFails(c) \/ Corrupt(c)

=============================================================================
