---------------------------- MODULE Acquisition ----------------------------
(***************************************************************************)
(* A run as a whole: the threads and FIFOs of Pipeline, with the words the *)
(* devices read in the containers, the marks the scanner makes on them,    *)
(* and the worker of EventWorker at the end of the line.  The devices read *)
(* at their own pace: nothing keeps the boards in step here.               *)
(***************************************************************************)
EXTENDS Pipeline, EventBuilder

CONSTANT
  Feeds  \* what the boards may send in a run, and how the devices read it:
         \* the stream of each board, and the reads of each device in their
         \* order, each of the words of one board from a place up to another

Slice == [board : Boards, from : Nat, upto : Nat]

\* The words of a board are read by one device, each read goes on where the
\* last one of the board ended, and all words are read.
ASSUME FeedsAssumption ==
  \A f \in Feeds :
    /\ f.streams \in [Boards -> Streams]
    /\ f.reads \in [Devices -> Seq(Slice)]
    /\ \A d \in Devices : Len(f.reads[d]) <= MaxReads
    /\ \A d, e \in Devices :
         \A x \in Range(f.reads[d]), y \in Range(f.reads[e]) :
           x.board = y.board => d = e
    /\ \A d \in Devices : \A i \in DOMAIN f.reads[d] :
         LET x == f.reads[d][i]
             before == {y \in {f.reads[d][j] : j \in 1..i-1} : y.board = x.board}
         IN  /\ x.upto <= Len(f.streams[x.board])
             /\ x.upto - x.from + 1 \in Sizes
             /\ x.from = 1 \/ \E y \in before : x.from = y.upto + 1
             /\ \A y \in before : y.upto < x.from
    /\ \A b \in Boards : f.streams[b] # <<>> =>
         \E d \in Devices : \E x \in Range(f.reads[d]) :
           x.board = b /\ x.upto = Len(f.streams[b])

VARIABLE
  reads      \* how the devices read the streams in this run

acqVars == <<pipelineVars, vars, reads>>

NoReads == [d \in Devices |-> <<>>]

\* The container as process() of the event builder finds it: its words, and
\* the marks the scanner made.
Content(x) ==
  LET r == reads[x.dev][x.n]
  IN  Scanned(r.board, SubSeq(streams[r.board], r.from, r.upto))
Arrived(c) ==
  [Content(data[c]) EXCEPT
     !.headers  = UNION {Content(x).headers : x \in marks[c]},
     !.trailers = UNION {Content(x).trailers : x \in marks[c]}]
Arrivals == {Arrived(c) : c \in held["builder"]}

-----------------------------------------------------------------------------
AcqInit == PipelineInit /\ Init /\ reads = NoReads

\* The workers are initialized on entering Standby, closed on leaving Active.
Ready ==
  /\ given < MaxEvents
  /\ EnterStandby /\ Open
  /\ \E f \in Feeds : streams' = f.streams /\ reads' = f.reads
  /\ pos' = Beginning

Over   == streams' = Silence /\ reads' = NoReads /\ pos' = Beginning
Finish == Stop /\ Close /\ Over
Forget == Dismiss /\ Dismissed /\ Over

Go == Start /\ UNCHANGED <<vars, reads>>

Readout(d) ==
  /\ \/ TakeEmpty(d)
     \/ taken[d] < Len(reads[d]) /\ Read(d)
  /\ UNCHANGED <<vars, reads>>

Scanner == ScannerStep /\ UNCHANGED <<vars, reads>>

\* process() of the event builder returns OK_s, or it does not.
EventDone ==
  /\ Build
  /\ \E c \in Arrivals :
       Returns(c) /\ pos' = [pos EXCEPT ![c.board] = @ + Len(c.words)]
  /\ UNCHANGED <<streams, reads>>

EventError ==
  /\ BuildError
  /\ \E c \in Arrivals : Fails(c)
  /\ UNCHANGED <<boardVars, reads>>

Recorder ==
  \/ TakeScanned /\ UNCHANGED <<vars, reads>>
  \/ EventDone \/ EventError

Trouble ==
  /\ ScanError \/ \E d \in Devices : ReadError(d)
  /\ UNCHANGED <<vars, reads>>

AcqNext ==
  \/ Ready \/ Go \/ Finish \/ Forget
  \/ \E d \in Devices : Readout(d)
  \/ Scanner \/ Recorder \/ Trouble

AcqSpec == AcqInit /\ [][AcqNext]_acqVars

\* Each worker is a thread: it goes on while it has something to do.
FairAcqSpec ==
  /\ AcqSpec
  /\ \A d \in Devices : WF_acqVars(Readout(d))
  /\ WF_acqVars(Scanner)
  /\ WF_acqVars(Recorder)

-----------------------------------------------------------------------------
(***************************************************************************)
(* Through all the threads and FIFOs, the words of a board reach its       *)
(* fragment builder in order and marked as they are: the event builder in  *)
(* the pipeline does what EventBuilder says of one that is given the       *)
(* streams of the boards directly, whichever device and board is ahead.    *)
(***************************************************************************)
BuildsEvents == Spec

(***************************************************************************)
(* In a run that goes on with no error every spill of a board becomes a    *)
(* fragment, and the fragments are written as soon as there are as many as *)
(* boards: what waits for ever in the end does not make an event, and      *)
(* nothing waits when every board has sent as many spills as the others.   *)
(* (When one has sent fewer, or none, the last fragments of the others are *)
(* not written.)                                                           *)
(***************************************************************************)
Sent(b) == Len(Fragments(streams[b]))
InEvents(b) == Cardinality({p \in Places(b) : p[1] <= Len(writes)})

EverySpillWritten ==
  <>[](mode = "active" /\ stopped = {}) =>
    <>[](/\ \A b \in Boards : Finished(b) = Sent(b)
         /\ Len(spill) < Cardinality(Boards)
         /\ (\A a, b \in Boards : Sent(a) = Sent(b)) =>
              \A b \in Boards : InEvents(b) = Sent(b))

=============================================================================
