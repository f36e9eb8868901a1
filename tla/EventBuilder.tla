---------------------------- MODULE EventBuilder ----------------------------
(***************************************************************************)
(* The event builder at work: each board sends a stream of words, which    *)
(* reaches the worker of EventWorker in order, cut into containers.        *)
(***************************************************************************)
EXTENDS EventWorker

CONSTANTS
  Ids,         \* the board Ids a container may carry
  Streams,     \* the streams a board may send in a run
  Sizes,       \* the numbers of words a container may hold
  KeepStep,    \* whether the boards finish their spills together
  MaxEvents    \* no run is begun after so many calls of write (a bound)

ASSUME IdsAssumption == Boards \subseteq Ids /\ Ids \subseteq Nat
ASSUME StreamsAssumption == Streams \subseteq Seq(Word)
ASSUME SizesAssumption == Sizes \subseteq Nat \ {0}
ASSUME KeepStepAssumption == KeepStep \in BOOLEAN
ASSUME MaxEventsAssumption == MaxEvents \in Nat

VARIABLES
  streams,     \* what each board sends in this run
  pos          \* how many words of it process() has handled

boardVars == <<streams, pos>>
vars == <<workerVars, boardVars>>

Silence   == [b \in Boards |-> <<>>]
Beginning == [b \in Boards |-> 0]

Init == WorkerInit /\ streams = Silence /\ pos = Beginning

\* init(): a new run of the boards.
Begin ==
  /\ given < MaxEvents
  /\ Open
  /\ streams' \in [Boards -> Streams] /\ pos' = Beginning

\* close(), or the worker is dismissed.
End ==
  /\ Close \/ Dismissed
  /\ streams' = Silence /\ pos' = Beginning

\* The container with the next n words of a board.
Input(b, n) == Scanned(b, SubSeq(streams[b], pos[b] + 1, pos[b] + n))

\* The fragments of this run: those given to each call of write and, in the
\* row behind, those that wait in the spill bank; and where a board has its
\* own.
Row(i) == IF i <= Len(writes) THEN writes[i].fragments ELSE spill
Places(b) ==
  {p \in UNION {{i} \X DOMAIN Row(i) : i \in 1 .. Len(writes) + 1} :
     Row(p[1])[p[2]].board = b}
Finished(b) == Cardinality(Places(b))

\* The boards see the spills of one beam: when they keep step, none finishes
\* a spill that another has not come to.
InStep(c) ==
  KeepStep /\ Completes(builders[c.board], c) =>
    \A other \in Boards : Finished(c.board) <= Finished(other)

\* A call of process() with the next n words of a board.
Deliver(b, n) ==
  /\ at = "ready"
  /\ pos[b] + n <= Len(streams[b])
  /\ \E c \in {Input(b, n)} :
       /\ InStep(c)
       /\ \/ Returns(c) /\ pos' = [pos EXCEPT ![b] = @ + n]
          \/ Fails(c) /\ UNCHANGED pos
  /\ UNCHANGED streams

\* A call with a container of a board that is not in the configuration.
DeliverStranger(id) ==
  /\ Stranger(Scanned(id, <<SizeWord>>))
  /\ UNCHANGED boardVars

Next ==
  \/ Begin \/ End
  \/ \E b \in Boards, n \in Sizes : Deliver(b, n)
  \/ \E id \in Ids \ Boards : DeliverStranger(id)

Spec == Init /\ [][Next]_vars

-----------------------------------------------------------------------------
\* Every variable has its type, and there are builders while the worker is
\* between init() and close().
TypeOK ==
  /\ at \in {"closed", "ready", "error", "fatal", "crashed"}
  /\ streams \in [Boards -> Streams \cup {<<>>}]
  /\ \A b \in Boards : pos[b] \in 0..Len(streams[b])
  /\ builders \in [IF at = "closed" THEN {} ELSE Boards -> Bank]
  /\ spill \in Seq([board : Boards, bank : Bank])
  /\ n_fragments \in 0 .. 2^16 - 1
  /\ event_id \in 0 .. EventIds - 1 /\ given \in Nat
  /\ \A i \in DOMAIN writes : writes[i].ok \in BOOLEAN

\* The places of a board up to one of them.
UpTo(b, p) ==
  {q \in Places(b) : q[1] < p[1] \/ (q[1] = p[1] /\ q[2] <= p[2])}

(***************************************************************************)
(* From init() to close() no spill of a board is lost, doubled, put out of *)
(* order or mixed with a spill of an earlier run: the fragments of the     *)
(* board in the events of this run, then in the spill bank, are the spills *)
(* of the words its builder was given, the first the first and so on.      *)
(***************************************************************************)
SpillsKept ==
  at = "ready" =>
    \A b \in Boards :
      LET spills == Fragments(SubSeq(streams[b], 1, pos[b])) IN
      /\ Finished(b) = Len(spills)
      /\ \A p \in Places(b) :
           Row(p[1])[p[2]].bank.words = spills[Cardinality(UpTo(b, p))]

(***************************************************************************)
(* The count in the header of the spill bank is the number of fragments in *)
(* it, and never passes the number of boards, so that the test for         *)
(* equality cannot miss; every event is written with as many fragments as  *)
(* there are boards, counted right.                                        *)
(***************************************************************************)
EventsWellCounted ==
  /\ n_fragments = Len(spill)
  /\ at = "ready" => n_fragments < Cardinality(Boards)
  /\ \A i \in DOMAIN writes :
       /\ writes[i].n = Cardinality(Boards)
       /\ Len(writes[i].fragments) = writes[i].n

(***************************************************************************)
(* One worker gives an event Id again only when it has given all others,   *)
(* in this run or a later one, and after a write that failed too: the      *)
(* calls of write have the Ids 0, 1, 2 and so on, up to the highest that   *)
(* event_id_ holds, and then from 0 again.                                 *)
(***************************************************************************)
EventIdsFresh ==
  /\ event_id = given % EventIds
  /\ \A i \in DOMAIN writes :
       writes[i].id = (given - Len(writes) + i - 1) % EventIds

(***************************************************************************)
(* "If all fragments are completed, write the data" (BMDWorkers.cpp:212):  *)
(* an event holds a fragment of every board.                               *)
(***************************************************************************)
EventsHoldAllBoards ==
  \A i \in DOMAIN writes :
    {writes[i].fragments[j].board : j \in DOMAIN writes[i].fragments} = Boards

(***************************************************************************)
(* Boards that keep step: the k-th event of a run is the k-th spill of     *)
(* every board, and nothing else.                                          *)
(***************************************************************************)
EventIsOneSpill ==
  \A i \in DOMAIN writes :
    {<<f.board, f.bank.words>> : f \in Range(writes[i].fragments)}
      = {<<b, Fragments(streams[b])[i]>> : b \in Boards}

(***************************************************************************)
(* The builders with boards that keep step implement SpillEvents: one      *)
(* fragment of each board, then an event.                                  *)
(***************************************************************************)
Gathered  == IF at = "ready" THEN {spill[i].board : i \in DOMAIN spill} ELSE {}
Published ==
  IF at = "ready" THEN Cardinality({i \in DOMAIN writes : writes[i].ok}) ELSE 0

Abstract == INSTANCE SpillEvents WITH
  taking <- at = "ready", gathered <- Gathered, events <- Published

GathersSpills == Abstract!Spec

(***************************************************************************)
(* "Check the board Id of the data in the container."                      *)
(* (BMDDataLib.cpp:44): data of a board that is not in the configuration   *)
(* is answered with the error the builder throws for it.                   *)
(***************************************************************************)
StrangerReported == at # "crashed"

=============================================================================
