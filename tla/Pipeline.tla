------------------------------ MODULE Pipeline ------------------------------
(***************************************************************************)
(* The workers of a run and the FIFOs between them, as                     *)
(* BMDStandby::whenEnteringStateDo connects them: a readout worker for     *)
(* each device takes empty containers from one FIFO and puts them, full,   *)
(* into the raw FIFO; the scanner takes them from there to the scanned     *)
(* FIFO; the event builder clears them and puts them back into the first.  *)
(* The workers are threads: taking a container, and processing it and      *)
(* passing it on, are two steps, and the steps of all workers interleave.  *)
(*                                                                         *)
(* PtrFifo, Worker and Fsm are not in the repository.  Of them it is       *)
(* assumed that a push waits while the FIFO is full, that a worker whose   *)
(* process() does not return OK_s keeps its container and does nothing     *)
(* more, and that a stop ends all workers and empties the FIFOs: the code  *)
(* puts a full FIFO's worth of new containers into one at each stop.       *)
(***************************************************************************)
EXTENDS Integers, FiniteSets, SequencesExt

CONSTANTS
  Devices,     \* the devices in UFEContext
  Containers,  \* the containers made on entering Standby (maxSize of them)
  MaxSize,     \* maxSize, of each FIFO
  MaxReads     \* how many containers a device fills in a run (a bound)

ASSUME DevicesAssumption == Devices # {} /\ {"scanner", "builder"} \cap Devices = {}
ASSUME ContainersAssumption ==
  IsFiniteSet(Containers) /\ Cardinality(Containers) <= MaxSize
ASSUME NumbersAssumption == MaxSize \in Nat /\ MaxReads \in Nat

VARIABLES
  mode,      \* "off", "standby" or "active"
  recycled,  \* recycled_containers_fifo_
  raw,       \* raw_containers_fifo
  scanned,   \* scanned_containers_fifo
  held,      \* the container a worker has taken and not passed on
  data,      \* what is in a container: the n-th data of a device, or none
  marks,     \* the data its marks were made for
  stopped,   \* the workers whose process() did not return OK_s
  taken,     \* how many containers each device has filled in this run
  built      \* the data the event builder has processed in this run

fifos == <<recycled, raw, scanned>>
run   == <<taken, built>>
pipelineVars  == <<mode, fifos, held, data, marks, stopped, run>>

Workers == Devices \cup {"scanner", "builder"}
Nobody  == "nobody"
NoData  == [dev |-> Nobody, n |-> 0]
Data    == [dev : Devices, n : 1..MaxReads]

PipelineInit ==
  /\ mode = "off"
  /\ recycled = <<>> /\ raw = <<>> /\ scanned = <<>>
  /\ held = [w \in Workers |-> {}]
  /\ data = [c \in Containers |-> NoData]
  /\ marks = [c \in Containers |-> {}]
  /\ stopped = {}
  /\ taken = [d \in Devices |-> 0] /\ built = <<>>

-----------------------------------------------------------------------------
\* A FIFO's worth of new containers is pushed.
Fill == recycled' = recycled \o SetToSeq(Containers)

\* Standby is entered, from Idle, or from Active at the end of a run.
EnterStandby ==
  /\ mode = "off"
  /\ mode' = "standby"
  /\ Fill
  /\ UNCHANGED <<raw, scanned, held, data, marks, stopped, run>>

\* Active is entered: the devices and the workers start.
Start ==
  /\ mode = "standby"
  /\ mode' = "active"
  /\ UNCHANGED <<fifos, held, data, marks, stopped, run>>

\* Mutant of Drain: the FIFO of the empty containers is passed over.
DrainInput ==
  /\ raw' = <<>> /\ scanned' = <<>> /\ UNCHANGED recycled
  /\ held' = [w \in Workers |-> {}]
  /\ data' = [c \in Containers |-> NoData]
  /\ marks' = [c \in Containers |-> {}]
  /\ stopped' = {}
  /\ taken' = [d \in Devices |-> 0] /\ built' = <<>>

\* The workers end, and what is in the FIFOs and in their hands is deleted.
Drain ==
  /\ recycled' = <<>> /\ raw' = <<>> /\ scanned' = <<>>
  /\ held' = [w \in Workers |-> {}]
  /\ data' = [c \in Containers |-> NoData]
  /\ marks' = [c \in Containers |-> {}]
  /\ stopped' = {}
  /\ taken' = [d \in Devices |-> 0] /\ built' = <<>>

\* Active is left.
Stop == mode = "active" /\ mode' = "off" /\ Drain

\* Idle is entered, from Standby or from Failure: all is dismissed.
Dismiss == mode # "active" /\ mode' = "off" /\ Drain

-----------------------------------------------------------------------------
Working(w) == mode = "active" /\ w \notin stopped

\* Mutant of Take: a container waits for the next one behind it.
TakeOfTwo(w, fifo) ==
  /\ Working(w) /\ held[w] = {} /\ Len(fifo) > 1
  /\ held' = [held EXCEPT ![w] = {Head(fifo)}]
  /\ UNCHANGED <<mode, data, marks, stopped, run>>

\* A worker with empty hands takes the first container of a FIFO.
Take(w, fifo) ==
  /\ Working(w) /\ held[w] = {} /\ fifo # <<>>
  /\ held' = [held EXCEPT ![w] = {Head(fifo)}]
  /\ UNCHANGED <<mode, data, marks, stopped, run>>

\* Mutant of Pass: a container comes out of the FIFO before its elders.
PassAhead(w, c, fifo) ==
  /\ Len(fifo) < MaxSize
  /\ held' = [held EXCEPT ![w] = {}]
  /\ fifo' = <<c>> \o fifo

\* A worker passes its container on.
Pass(w, c, fifo) ==
  /\ Len(fifo) < MaxSize
  /\ held' = [held EXCEPT ![w] = {}]
  /\ fifo' = Append(fifo, c)

\* process() does not return OK_s.
GiveUp(w) ==
  /\ stopped' = stopped \cup {w}
  /\ UNCHANGED <<mode, fifos, held, data, marks, run>>

TakeEmpty(d) ==
  /\ Take(d, recycled)
  /\ recycled' = Tail(recycled)
  /\ UNCHANGED <<raw, scanned>>

\* BMDReadout::process.
Read(d) == \E c \in held[d] :
  /\ Working(d) /\ taken[d] < MaxReads
  /\ data' = [data EXCEPT ![c] = [dev |-> d, n |-> taken[d] + 1]]
  /\ taken' = [taken EXCEPT ![d] = @ + 1]
  /\ Pass(d, c, raw)
  /\ UNCHANGED <<mode, recycled, scanned, marks, stopped, built>>

\* The status of the device is not 0, or nothing was read.
ReadError(d) == held[d] # {} /\ Working(d) /\ GiveUp(d)

TakeRaw ==
  /\ Take("scanner", raw)
  /\ raw' = Tail(raw)
  /\ UNCHANGED <<recycled, scanned>>

\* BMDDataScanner::process.
Scan == \E c \in held["scanner"] :
  /\ Working("scanner") /\ data[c] # NoData
  /\ marks' = [marks EXCEPT ![c] = @ \cup {data[c]}]
  /\ Pass("scanner", c, scanned)
  /\ UNCHANGED <<mode, recycled, raw, data, stopped, run>>

\* The container is empty, or holds less than a word.
ScanError == held["scanner"] # {} /\ Working("scanner") /\ GiveUp("scanner")

TakeScanned ==
  /\ Take("builder", scanned)
  /\ scanned' = Tail(scanned)
  /\ UNCHANGED <<recycled, raw>>

\* Mutant of Clear: the mark of no data is made in place of the data's.
ClearNothing(c) ==
  /\ data' = [data EXCEPT ![c] = NoData]
  /\ marks' = [marks EXCEPT ![c] = {NoData}]

\* Mutant of Clear: the data goes, the marks stay.
ClearData(c) == data' = [data EXCEPT ![c] = NoData] /\ UNCHANGED marks

Clear(c) ==
  /\ data' = [data EXCEPT ![c] = NoData]
  /\ marks' = [marks EXCEPT ![c] = {}]

\* BMDEventBuilder::process returns OK_s: the container is cleared.
Build == \E c \in held["builder"] :
  /\ Working("builder")
  /\ built' = Append(built, data[c])
  /\ Clear(c)
  /\ Pass("builder", c, recycled)
  /\ UNCHANGED <<mode, raw, scanned, stopped, taken>>

\* It does not: the data is corrupt or the recorder fails.
BuildError == held["builder"] # {} /\ Working("builder") /\ GiveUp("builder")

ReadoutStep(d) == TakeEmpty(d) \/ Read(d)
ScannerStep    == TakeRaw \/ Scan
BuilderStep    == TakeScanned \/ Build

PipelineNext ==
  \/ EnterStandby \/ Start \/ Stop \/ Dismiss
  \/ \E d \in Devices : ReadoutStep(d) \/ ReadError(d)
  \/ ScannerStep \/ ScanError
  \/ BuilderStep \/ BuildError

-----------------------------------------------------------------------------
\* Every variable has its type; a worker holds one container at most.
PipelineTypeOK ==
  /\ mode \in {"off", "standby", "active"}
  /\ recycled \in Seq(Containers)
  /\ raw \in Seq(Containers)
  /\ scanned \in Seq(Containers)
  /\ held \in [Workers -> SUBSET Containers]
  /\ \A w \in Workers, c, e \in Containers : {c, e} \subseteq held[w] => c = e
  /\ data \in [Containers -> Data \cup {NoData}]
  /\ marks \in [Containers -> SUBSET Data]
  /\ stopped \subseteq Workers
  /\ taken \in [Devices -> 0..MaxReads]
  /\ built \in Seq(Data)

Queued == recycled \o raw \o scanned

(***************************************************************************)
(* The workers share containers by handing over pointers: a container is   *)
(* always in exactly one FIFO, once, or in the hands of one worker.  None  *)
(* is lost and no two workers ever write to the same one.                  *)
(***************************************************************************)
EachContainerOnce ==
  mode # "off" =>
    \A c \in Containers :
      Cardinality({i \in DOMAIN Queued : Queued[i] = c})
        + Cardinality({w \in Workers : c \in held[w]}) = 1

(***************************************************************************)
(* A worker with a container in its hands never finds a FIFO full, so no   *)
(* worker waits for another with a container the other one needs.          *)
(***************************************************************************)
NoPushWaits ==
  \A w \in Workers : held[w] # {} =>
    Len(recycled) < MaxSize /\ Len(raw) < MaxSize /\ Len(scanned) < MaxSize

(***************************************************************************)
(* A container is always used clean: empty and without marks when it is    *)
(* filled, without marks when it is scanned, and with the marks of its own *)
(* data, no older ones, when the event builder reads them.                 *)
(***************************************************************************)
Clean(c)    == data[c] = NoData /\ marks[c] = {}
Unmarked(c) == data[c] # NoData /\ marks[c] = {}
Marked(c)   == data[c] # NoData /\ marks[c] = {data[c]}

MarksFresh ==
  /\ \A c \in Range(recycled) \cup UNION {held[d] : d \in Devices} : Clean(c)
  /\ \A c \in Range(raw) \cup held["scanner"] : Unmarked(c)
  /\ \A c \in Range(scanned) \cup held["builder"] : Marked(c)

InHand(w) == SetToSeq(held[w])

\* The data between the readout and the end, the oldest first.
InFlight == built \o
  LET way == InHand("builder") \o scanned \o InHand("scanner") \o raw
  IN  [i \in DOMAIN way |-> data[way[i]]]

(***************************************************************************)
(* What the devices send arrives: of every device, what the event builder  *)
(* has had and what is on the way to it are the data 1, 2, 3 and so on up  *)
(* to the last one read, none lost, doubled or overtaken, whatever the     *)
(* workers of the other devices do meanwhile.                              *)
(***************************************************************************)
OrderKept ==
  mode = "active" =>
    LET flight == InFlight IN
    \A d \in Devices :
      LET places == {i \in DOMAIN flight : flight[i].dev = d}
      IN  /\ {flight[i].n : i \in places} = 1..taken[d]
          /\ \A i, j \in places : i < j => flight[i].n < flight[j].n

(***************************************************************************)
(* Data that was read is built into an event, unless the run ends or a     *)
(* worker fails: the pipeline does not jam.  (The reads of a run are       *)
(* bounded, so the event builder can catch up with them.)                  *)
(***************************************************************************)
AllBuilt ==
  \A d \in Devices : taken[d] = Len(SelectSeq(built, LAMBDA x : x.dev = d))

EveryReadBuilt ==
  ~AllBuilt ~> AllBuilt \/ mode # "active" \/ stopped # {}

=============================================================================
