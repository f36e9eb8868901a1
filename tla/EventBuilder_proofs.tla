------------------------ MODULE EventBuilder_proofs ------------------------
(***************************************************************************)
(* The event builder with any number of boards, for streams of any length  *)
(* and content, cut into containers of any size.                           *)
(***************************************************************************)
EXTENDS EventBuilder, Spills_proofs

\* A container with its marks on its words.
Box(c) ==
  /\ c.words \in Seq(Word)
  /\ c.headers \subseteq 0..Len(c.words)-1
  /\ c.trailers \subseteq 0..Len(c.words)-1

Piece == [board : Boards, bank : Bank]
Call  == [id : Nat, n : Nat, fragments : Seq(Piece), ok : BOOLEAN]

IInv ==
  /\ TypeOK
  /\ pos \in [Boards -> Nat]
  /\ writes \in Seq(Call)

-----------------------------------------------------------------------------
(***************************************************************************)
(* The banks of the builders.                                              *)
(***************************************************************************)
\* A part of a container, appended to a bank.
LEMMA PartInBank ==
  ASSUME NEW k \in Bank, NEW c, Box(c), NEW f \in Nat, NEW m \in Nat,
         f + m <= Len(c.words)
  PROVE  AppendPart(k, c, f, m) \in Bank
<1>1. /\ k.words \in Seq(Word) /\ k.headers \subseteq Nat /\ k.trailers \subseteq Nat
      /\ Len(k.words) \in Nat
  BY DEF Bank
<1>2. SubSeq(c.words, f + 1, f + m) \in Seq(Word)
  <2>1. f + 1 \in Int /\ f + m \in Int
    OBVIOUS
  <2>2. \A i \in f + 1 .. f + m : i \in 1..Len(c.words)
    BY DEF Box
  <2>3. \A i \in f + 1 .. f + m : c.words[i] \in Word
    BY <2>2 DEF Box
  <2>4. QED
    BY <2>1, <2>3, SubSeqProperties
<1>3. k.words \o SubSeq(c.words, f + 1, f + m) \in Seq(Word)
  BY <1>1, <1>2, ConcatProperties
<1>4. ASSUME NEW marks, marks \subseteq 0..Len(c.words)-1
      PROVE  Shifted(marks, f, m, Len(k.words)) \subseteq Nat
  BY <1>1, <1>4 DEF Shifted, Box
<1>5. /\ Shifted(c.headers, f, m, Len(k.words)) \subseteq Nat
      /\ Shifted(c.trailers, f, m, Len(k.words)) \subseteq Nat
  BY <1>4 DEF Box
<1>6. Len(k.words) + m \in Nat
  BY <1>1
<1>7. QED
  BY <1>1, <1>3, <1>5, <1>6 DEF AppendPart, Bank

\* The bank is empty after its constructor and after clear().
LEMMA EmptyInBank == EmptyBank \in Bank
BY DEF EmptyBank, HeaderBlock, SizeWord, HeaderWords, Bank, Word, Kinds

\* Where the marks of a container are when it is not taken for several spills.
LEMMA MarksOfBox ==
  ASSUME NEW k, NEW c, Box(c), ~MultipleSpills(k, c)
  PROVE  /\ Len(c.words) \in Nat
         /\ c.headers # {} => First(c.headers) \in 0..Len(c.words)-1
         /\ c.trailers # {} => First(c.trailers) \in 0..Len(c.words)-1
<1>1. c.headers \subseteq Nat /\ c.trailers \subseteq Nat /\ Len(c.words) \in Nat
  BY DEF Box
<1>2. QED
  BY <1>1, OnlyMark DEF Box, MultipleSpills

\* The bank with a whole fragment.
LEMMA FilledInBank ==
  ASSUME NEW k \in Bank, NEW c, Box(c), ~MultipleSpills(k, c), Completes(k, c)
  PROVE  Filled(k, c) \in Bank
<1>1. CASE Whole(k, c)
  <2>1. /\ First(c.headers) \in Nat /\ First(c.trailers) - First(c.headers) + 1 \in Nat
        /\ First(c.headers) + (First(c.trailers) - First(c.headers) + 1) <= Len(c.words)
    BY <1>1, MarksOfBox DEF Whole, TrailerAfterHeader
  <2>2. QED
    BY <1>1, <2>1, PartInBank DEF Filled
<1>2. CASE ~Whole(k, c)
  <2>1. c.trailers # {}
    BY <1>2 DEF Completes, Ends, EndsAndStarts
  <2>2. First(c.trailers) + 1 \in Nat /\ 0 + (First(c.trailers) + 1) <= Len(c.words)
    BY <2>1, MarksOfBox
  <2>3. QED
    BY <1>2, <2>2, PartInBank DEF Filled
<1>3. QED
  BY <1>1, <1>2

\* The bank after a call that returns.
LEMMA AfterInBank ==
  ASSUME NEW k \in Bank, NEW c, Box(c), ~MultipleSpills(k, c), Expected(k, c)
  PROVE  BankAfter(k, c) \in Bank
<1>1. ASSUME NEW e \in Bank, c.headers # {}
      PROVE  FromHeader(e, c) \in Bank
  <2>1. /\ First(c.headers) \in Nat /\ Len(c.words) - First(c.headers) \in Nat
        /\ First(c.headers) + (Len(c.words) - First(c.headers)) <= Len(c.words)
    BY <1>1, MarksOfBox
  <2>2. QED
    BY <1>1, <2>1, PartInBank DEF FromHeader
<1>2. Grown(k, c) \in Bank
  <2>1. Len(c.words) \in Nat
    BY MarksOfBox
  <2>2. AppendAll(k, c) \in Bank
    BY <2>1, PartInBank DEF AppendAll
  <2>3. PICK a \in Bank : a = AppendAll(k, c)
    BY <2>2
  <2>4. Grown(k, c) = [a EXCEPT !.size = @ + Len(c.words)]
    BY <2>3 DEF Grown
  <2>5. a.size + Len(c.words) \in Nat
    BY <2>1, <2>3 DEF Bank
  <2>6. [a EXCEPT !.size = a.size + Len(c.words)] \in Bank
    BY <2>3, <2>5 DEF Bank
  <2>7. QED
    BY <2>4, <2>6
<1>3. Starts(k, c) \/ EndsAndStarts(k, c) => c.headers # {}
  BY DEF Starts, EndsAndStarts
<1>4. QED
  BY <1>1, <1>2, <1>3, BankAfterWay, EmptyInBank DEF Expected, Completes

\* The bank a call leaves when it throws.
LEMMA AfterThrowInBank ==
  ASSUME NEW b, NEW k \in Bank, NEW c, Box(c)
  PROVE  BankAfterThrow(b, k, c) \in Bank
BY ThrownCases, FilledInBank DEF BankAfterThrow

\* The next words of a board fill a container.
LEMMA InputBox ==
  ASSUME IInv, NEW b \in Boards, NEW n \in Sizes, pos[b] + n <= Len(streams[b])
  PROVE  Box(Input(b, n)) /\ Input(b, n).board = b
<1>1. /\ streams[b] \in Seq(Word) /\ pos[b] \in Nat /\ n \in Nat
      /\ Len(streams[b]) \in Nat
  BY StreamsAssumption, SizesAssumption DEF IInv, TypeOK
<1>2. SubSeq(streams[b], pos[b] + 1, pos[b] + n) \in Seq(Word)
  <2>1. pos[b] + 1 \in Int /\ pos[b] + n \in Int
    BY <1>1
  <2>2. \A i \in pos[b] + 1 .. pos[b] + n : streams[b][i] \in Word
    BY <1>1
  <2>3. QED
    BY <2>1, <2>2, SubSeqProperties
<1>3. QED
  BY <1>2 DEF Input, Scanned, Box, Marks

-----------------------------------------------------------------------------
(***************************************************************************)
(* The calls.                                                              *)
(***************************************************************************)
\* The fragment that a call completes is one at most.
LEMMA MovedPiece ==
  ASSUME IInv, at = "ready", NEW c, Box(c), Fed(c)
  PROVE  /\ Moved(c) \in Seq(Piece)
         /\ Len(Moved(c)) \in {0, 1}
         /\ SpillWith(c) \in Seq(Piece)
         /\ Len(SpillWith(c)) = Len(spill) + Len(Moved(c))
<1>1. /\ builders[c.board] \in Bank /\ c.board \in Boards
      /\ ~MultipleSpills(builders[c.board], c)
  BY ThrownCases DEF Fed, IInv, TypeOK
<1>2. Moved(c) \in Seq(Piece) /\ Len(Moved(c)) \in {0, 1}
  <2>1. CASE Completes(builders[c.board], c)
    <3>1. [board |-> c.board, bank |-> Filled(builders[c.board], c)] \in Piece
      BY <1>1, <2>1, FilledInBank DEF Piece
    <3>2. Moved(c) = <<[board |-> c.board, bank |-> Filled(builders[c.board], c)]>>
      BY <2>1 DEF Moved
    <3>3. QED
      BY <3>1, <3>2
  <2>2. CASE ~Completes(builders[c.board], c)
    BY <2>2 DEF Moved
  <2>3. QED
    BY <2>1, <2>2
<1>3. spill \in Seq(Piece)
  BY DEF IInv, TypeOK, Piece
<1>4. QED
  BY <1>2, <1>3, ConcatProperties DEF SpillWith

\* A call whose builder returns.
LEMMA FedBuilders ==
  ASSUME IInv, NEW c, Box(c), Fed(c)
  PROVE  builders' \in [Boards -> Bank]
<1>1. /\ builders \in [Boards -> Bank] /\ c.board \in Boards
      /\ builders' = [builders EXCEPT ![c.board] = BankAfter(@, c)]
      /\ ~MultipleSpills(builders[c.board], c) /\ Expected(builders[c.board], c)
  BY ThrownCases DEF Fed, IInv, TypeOK
<1>2. BankAfter(builders[c.board], c) \in Bank
  BY <1>1, AfterInBank
<1>3. QED
  BY <1>1, <1>2

\* The remainder of the next number follows from that of a number.
LEMMA NextRemainder ==
  ASSUME NEW m \in Nat \ {0}, NEW n \in Nat
  PROVE  ((n % m) + 1) % m = (n + 1) % m /\ n % m \in 0 .. m - 1
<1>1. PICK q \in Nat, r \in 0 .. m - 1 : n = (q * m) + r
  <2>1. /\ n \div m \in Nat /\ n % m \in 0 .. m - 1
        /\ n = ((n \div m) * m) + (n % m)
    OBVIOUS
  <2>2. QED
    BY <2>1
<1>2. ASSUME NEW p \in Nat, NEW x \in 0 .. m - 1 PROVE ((p * m) + x) % m = x
  OBVIOUS
<1>3. CASE r + 1 < m
  <2>1. r + 1 \in 0 .. m - 1
    BY <1>3
  <2>2. ((q * m) + (r + 1)) % m = r + 1 /\ ((0 * m) + (r + 1)) % m = r + 1
    BY <1>2, <2>1
  <2>3. n % m = r
    BY <1>1, <1>2
  <2>4. n + 1 = (q * m) + (r + 1) /\ (0 * m) + (r + 1) = r + 1
    BY <1>1
  <2>5. QED
    BY <2>2, <2>3, <2>4
<1>4. CASE r + 1 = m
  <2>1. n + 1 = ((q + 1) * m) + 0 /\ m = (1 * m) + 0
    BY <1>1, <1>4
  <2>2. (((q + 1) * m) + 0) % m = 0 /\ ((1 * m) + 0) % m = 0
    BY <1>2
  <2>3. n % m = r
    BY <1>1, <1>2
  <2>4. QED
    BY <2>1, <2>2, <2>3, <1>4
<1>5. n % m \in 0 .. m - 1
  OBVIOUS
<1>6. QED
  BY <1>3, <1>4, <1>5

\* A call in which the recorder is called.
LEMMA RecordedCall ==
  ASSUME IInv, NEW c, Box(c), Fed(c), NEW ok \in BOOLEAN, Recorded(c, ok)
  PROVE  /\ writes' \in Seq(Call) /\ event_id' \in 0 .. EventIds - 1 /\ given' \in Nat
         /\ Len(writes') = Len(writes) + 1 /\ Len(writes) \in Nat
         /\ \A i \in 1..Len(writes) : writes'[i] = writes[i]
         /\ writes'[Len(writes) + 1].id = event_id
         /\ writes'[Len(writes) + 1].n = CountWith(c)
         /\ writes'[Len(writes) + 1].fragments = SpillWith(c)
         /\ writes'[Len(writes) + 1].ok = ok
<1> DEFINE w == [id |-> event_id, n |-> CountWith(c), fragments |-> SpillWith(c), ok |-> ok]
<1>1. at = "ready" /\ SpillWith(c) \in Seq(Piece) /\ Len(Moved(c)) \in {0, 1}
  BY MovedPiece DEF Fed
<1>2. n_fragments \in Nat /\ event_id \in Nat /\ given \in Nat
  BY DEF IInv, TypeOK
<1>3. CountWith(c) \in Nat
  BY <1>1, <1>2 DEF CountWith
<1>4. w \in Call
  BY <1>1, <1>2, <1>3 DEF Call
<1>5. writes \in Seq(Call) /\ writes' = Append(writes, w)
      /\ event_id' = (event_id + 1) % EventIds /\ given' = given + 1
  BY DEF IInv, Recorded
<1> HIDE DEF w
<1>6. /\ Append(writes, w) \in Seq(Call) /\ Len(Append(writes, w)) = Len(writes) + 1
      /\ \A i \in 1..Len(writes) : Append(writes, w)[i] = writes[i]
      /\ Append(writes, w)[Len(writes) + 1] = w
  BY <1>4, <1>5, AppendProperties
<1>7. /\ w.id = event_id /\ w.n = CountWith(c)
      /\ w.fragments = SpillWith(c) /\ w.ok = ok
  BY DEF w
<1>8. event_id' \in 0 .. EventIds - 1
  BY <1>2, <1>5, EventIdsAssumption, NextRemainder
<1>9. QED
  BY <1>2, <1>5, <1>6, <1>7, <1>8, LenProperties

\* What is known of the calls of a sequence.
LEMMA CallOk ==
  ASSUME NEW w \in Seq(Call)
  PROVE  \A i \in DOMAIN w : w[i].ok \in BOOLEAN
<1>1. \A i \in DOMAIN w : w[i] \in Call
  OBVIOUS
<1>2. \A x \in Call : x.ok \in BOOLEAN
  BY DEF Call
<1>3. QED
  BY <1>1, <1>2

\* The types survive a call that returns.
LEMMA ReturnKeepsTypes ==
  ASSUME IInv, NEW b \in Boards, NEW n \in Sizes, NEW c, Box(c), Returns(c),
         pos[b] + n <= Len(streams[b]), pos' = [pos EXCEPT ![b] = @ + n],
         UNCHANGED streams
  PROVE  IInv'
<1>1. Fed(c) /\ at = "ready" /\ at' = at
  BY DEF Returns, Gather, Write, Fed
<1>2. builders' \in [Boards -> Bank]
  BY <1>1, FedBuilders
<1>3. /\ pos' \in [Boards -> Nat]
      /\ \A d \in Boards : pos'[d] \in 0..Len(streams[d])
  <2>1. pos \in [Boards -> Nat] /\ n \in Nat
        /\ \A d \in Boards : pos[d] \in 0..Len(streams[d])
    BY SizesAssumption DEF IInv, TypeOK
  <2>2. ASSUME NEW d \in Boards PROVE pos'[d] \in 0..Len(streams[d])
    <3>1. CASE d = b
      <4>1. pos'[d] = pos[b] + n
        BY <2>1, <3>1
      <4>2. Len(streams[b]) \in Nat
        BY StreamsAssumption DEF IInv, TypeOK
      <4>3. QED
        BY <2>1, <3>1, <4>1, <4>2
    <3>2. CASE d # b
      BY <2>1, <3>2
    <3>3. QED
      BY <3>1, <3>2
  <2>3. QED
    BY <2>1, <2>2
<1>4. /\ writes' \in Seq(Call) /\ event_id' \in 0 .. EventIds - 1 /\ given' \in Nat
      /\ spill' \in Seq(Piece) /\ n_fragments' \in 0 .. 2^16 - 1
  <2>1. SpillWith(c) \in Seq(Piece) /\ Len(Moved(c)) \in {0, 1}
    BY <1>1, MovedPiece
  <2>2. CountWith(c) \in 0 .. 2^16 - 1
    <3>1. n_fragments \in Nat
      BY DEF IInv, TypeOK
    <3>2. QED
      BY <2>1, <3>1 DEF CountWith
  <2>3. CASE Gather(c)
    BY <2>1, <2>2, <2>3 DEF Gather, IInv, TypeOK, history
  <2>4. CASE Write(c)
    <3>1. Recorded(c, TRUE) /\ spill' = <<>> /\ n_fragments' = 0
      BY <2>4 DEF Write
    <3>2. writes' \in Seq(Call) /\ event_id' \in 0 .. EventIds - 1 /\ given' \in Nat
      BY <1>1, <3>1, RecordedCall
    <3>3. QED
      BY <3>1, <3>2
  <2>5. QED
    BY <2>3, <2>4 DEF Returns
<1>5. \A i \in DOMAIN writes' : writes'[i].ok \in BOOLEAN
  BY <1>4, CallOk
<1>6. streams' \in [Boards -> Streams \cup {<<>>}]
  BY DEF IInv, TypeOK
<1>7. QED
  BY <1>1, <1>2, <1>3, <1>4, <1>5, <1>6 DEF IInv, TypeOK, Piece

\* And one that does not.
LEMMA FailKeepsTypes ==
  ASSUME IInv, NEW c, Box(c), Fails(c), UNCHANGED boardVars
  PROVE  IInv'
<1>1. UNCHANGED <<streams, pos>>
  BY DEF boardVars
<1>2. CASE WriteFails(c)
  <2>1. Fed(c) /\ at = "ready" /\ Recorded(c, FALSE)
        /\ spill' = SpillWith(c) /\ n_fragments' = CountWith(c)
        /\ at' \in {"error", "fatal"}
    BY <1>2 DEF WriteFails, Fed
  <2>2. builders' \in [Boards -> Bank]
    BY <2>1, FedBuilders
  <2>3. /\ writes' \in Seq(Call) /\ event_id' \in 0 .. EventIds - 1 /\ given' \in Nat
    BY <2>1, RecordedCall
  <2>4. spill' \in Seq(Piece) /\ Len(Moved(c)) \in {0, 1}
    BY <2>1, MovedPiece
  <2>5. n_fragments' \in 0 .. 2^16 - 1
    <3>1. n_fragments \in Nat
      BY DEF IInv, TypeOK
    <3>2. QED
      BY <2>1, <2>4, <3>1 DEF CountWith
  <2>6. \A i \in DOMAIN writes' : writes'[i].ok \in BOOLEAN
    BY <2>3, CallOk
  <2>7. QED
    BY <1>1, <2>1, <2>2, <2>3, <2>4, <2>5, <2>6 DEF IInv, TypeOK, Piece
<1>3. CASE Corrupt(c)
  <2>1. /\ at = "ready" /\ at' = "fatal" /\ c.board \in Boards
        /\ builders' = [builders EXCEPT ![c.board] = BankAfterThrow(c.board, @, c)]
        /\ UNCHANGED <<spill, n_fragments, event_id, writes, given>>
    BY <1>3 DEF Corrupt, history
  <2>2. builders \in [Boards -> Bank]
    BY <2>1 DEF IInv, TypeOK
  <2>3. builders' \in [Boards -> Bank]
    BY <2>1, <2>2, AfterThrowInBank
  <2>4. QED
    BY <1>1, <2>1, <2>3 DEF IInv, TypeOK
<1>4. QED
  BY <1>2, <1>3 DEF Fails

\* The types survive the beginning and the end of a run.
LEMMA BeginKeepsTypes ==
  ASSUME IInv, Begin
  PROVE  IInv'
<1>1. /\ at' = "ready" /\ builders' = [b \in Boards |-> EmptyBank]
      /\ spill' = <<>> /\ n_fragments' \in FreshCounts
      /\ writes' = <<>> /\ UNCHANGED <<given, event_id>>
      /\ streams' \in [Boards -> Streams] /\ pos' = [b \in Boards |-> 0]
  BY DEF Begin, Open, NewBanks, Beginning
<1>2. \A b \in Boards : pos'[b] \in 0..Len(streams'[b])
  BY <1>1, StreamsAssumption
<1>3. builders' \in [Boards -> Bank]
  BY <1>1, EmptyInBank
<1>4. n_fragments' \in 0 .. 2^16 - 1
  BY <1>1, FreshCountsAssumption
<1>5. QED
  BY <1>1, <1>2, <1>3, <1>4 DEF IInv, TypeOK

\* The worker closes, or is dismissed.
LEMMA EndKeepsTypes ==
  ASSUME IInv, End
  PROVE  IInv'
<1>1. /\ at' = "closed" /\ builders' = [b \in {} |-> EmptyBank]
      /\ spill' = <<>> /\ n_fragments' = 0 /\ writes' = <<>>
      /\ event_id' \in {event_id, 0} /\ given' \in {given, 0}
      /\ streams' = [b \in Boards |-> <<>>] /\ pos' = [b \in Boards |-> 0]
  BY DEF End, Close, Dismissed, NoBuilders, Silence, Beginning
<1>2. /\ streams' \in [Boards -> Streams \cup {<<>>}]
      /\ \A b \in Boards : pos'[b] \in 0..Len(streams'[b])
  BY <1>1
<1>3. builders' \in [{} -> Bank]
  BY <1>1
<1>4. event_id' \in 0 .. EventIds - 1 /\ given' \in Nat /\ n_fragments' \in 0 .. 2^16 - 1
  <2>1. event_id \in 0 .. EventIds - 1 /\ given \in Nat
    BY DEF IInv, TypeOK
  <2>2. 0 \in 0 .. 2^16 - 1 /\ 0 \in 0 .. EventIds - 1
    BY EventIdsAssumption
  <2>3. QED
    BY <1>1, <2>1, <2>2
<1>5. writes' \in Seq(Call) /\ spill' \in Seq(Piece)
      /\ \A i \in DOMAIN writes' : writes'[i].ok \in BOOLEAN
  BY <1>1
<1>6. TypeOK'
  BY <1>1, <1>2, <1>3, <1>4, <1>5 DEF TypeOK, Piece
<1>7. pos' \in [Boards -> Nat]
  BY <1>1
<1>8. QED
  BY <1>5, <1>6, <1>7 DEF IInv

\* The types survive every step, and a step that changes nothing.
LEMMA NextKeepsTypes == IInv /\ [Next]_vars => IInv'
<1> SUFFICES ASSUME IInv, [Next]_vars PROVE IInv'
  OBVIOUS
<1>1. ASSUME NEW b \in Boards, NEW n \in Sizes, Deliver(b, n) PROVE IInv'
  <2>1. PICK c \in {Input(b, n)} :
          /\ \/ Returns(c) /\ pos' = [pos EXCEPT ![b] = @ + n]
             \/ Fails(c) /\ UNCHANGED pos
          /\ UNCHANGED streams /\ pos[b] + n <= Len(streams[b])
    BY <1>1 DEF Deliver
  <2>2. Box(c)
    BY <2>1, InputBox
  <2>3. QED
    BY <2>1, <2>2, ReturnKeepsTypes, FailKeepsTypes DEF boardVars
<1>2. ASSUME NEW id \in Ids \ Boards, DeliverStranger(id) PROVE IInv'
  BY <1>2 DEF DeliverStranger, Stranger, boardVars, history, IInv, TypeOK
<1>3. CASE UNCHANGED vars
  BY <1>3 DEF vars, workerVars, boardVars, history, IInv, TypeOK
<1>4. QED
  BY <1>1, <1>2, <1>3, BeginKeepsTypes, EndKeepsTypes DEF Next

\* At first there is no worker.
LEMMA InitTypes == Init => IInv
<1> SUFFICES ASSUME Init PROVE IInv
  OBVIOUS
<1>1. /\ at = "closed" /\ builders = [b \in {} |-> EmptyBank]
      /\ spill = <<>> /\ n_fragments = 0 /\ writes = <<>> /\ event_id = 0 /\ given = 0
      /\ streams = [b \in Boards |-> <<>>] /\ pos = [b \in Boards |-> 0]
  BY DEF Init, WorkerInit, NoBuilders, Silence, Beginning
<1>2. /\ streams \in [Boards -> Streams \cup {<<>>}]
      /\ \A b \in Boards : pos[b] \in 0..Len(streams[b])
  BY <1>1
<1>3. builders \in [{} -> Bank]
  BY <1>1
<1>4. QED
  BY <1>1, <1>2, <1>3, EventIdsAssumption DEF IInv, TypeOK

\* The types hold in every state of the event builder.
LEMMA Types == Spec => []IInv
BY InitTypes, NextKeepsTypes, PTL DEF Spec

(***************************************************************************)
(* Whatever the boards send, every variable of the event builder has its   *)
(* type, and there are builders, of all boards, while the worker is        *)
(* between init() and close().                                             *)
(***************************************************************************)
THEOREM TypeCorrect == Spec => []TypeOK
<1>1. IInv => TypeOK
  BY DEF IInv
<1>2. QED
  BY <1>1, Types, PTL

-----------------------------------------------------------------------------
(***************************************************************************)
(* The Ids and the counts of the events.                                   *)
(***************************************************************************)
\* What a call of process() does to the Ids and the calls of the recorder.
LEMMA IdsAfterCall ==
  ASSUME IInv, EventIdsFresh, NEW c, Box(c), Returns(c) \/ Fails(c)
  PROVE  EventIdsFresh'
<1>1. CASE Gather(c) \/ Corrupt(c)
  BY <1>1 DEF Gather, Corrupt, history, EventIdsFresh
<1>2. CASE Write(c) \/ WriteFails(c)
  <2>1. PICK ok \in BOOLEAN : Fed(c) /\ Recorded(c, ok)
    BY <1>2 DEF Write, WriteFails
  <2>2. /\ writes' \in Seq(Call)
        /\ Len(writes') = Len(writes) + 1 /\ Len(writes) \in Nat
        /\ \A i \in 1..Len(writes) : writes'[i] = writes[i]
        /\ writes'[Len(writes) + 1].id = event_id
    BY <2>1, RecordedCall
  <2>3. /\ event_id' = (event_id + 1) % EventIds /\ given' = given + 1
        /\ event_id = given % EventIds /\ given \in Nat
        /\ \A i \in 1..Len(writes) :
             writes[i].id = (given - Len(writes) + i - 1) % EventIds
    BY <2>1, LenProperties DEF Recorded, EventIdsFresh, IInv, TypeOK
  <2>4. ASSUME NEW i \in 1..Len(writes) + 1
        PROVE  writes'[i].id = (given' - Len(writes') + i - 1) % EventIds
    <3>1. CASE i \in 1..Len(writes)
      <4>1. given' - Len(writes') + i - 1 = given - Len(writes) + i - 1
        BY <2>2, <2>3, <3>1
      <4>2. QED
        BY <2>2, <2>3, <3>1, <4>1
    <3>2. CASE i = Len(writes) + 1
      <4>1. given' - Len(writes') + i - 1 = given
        BY <2>2, <2>3, <3>2
      <4>2. QED
        BY <2>2, <2>3, <3>2, <4>1
    <3>3. QED
      BY <2>2, <3>1, <3>2
  <2>5. DOMAIN writes' = 1..Len(writes) + 1
    BY <2>2, LenProperties
  <2>6. event_id' = given' % EventIds
    BY <2>3, EventIdsAssumption, NextRemainder
  <2>7. QED
    BY <2>4, <2>5, <2>6 DEF EventIdsFresh
<1>3. QED
  BY <1>1, <1>2 DEF Returns, Fails

\* The Ids stay fresh in every step.
LEMMA NextKeepsIds == IInv /\ EventIdsFresh /\ [Next]_vars => EventIdsFresh'
<1> SUFFICES ASSUME IInv, EventIdsFresh, [Next]_vars PROVE EventIdsFresh'
  OBVIOUS
<1>1. CASE Begin \/ End
  <2>1. writes' = <<>> /\ event_id' = given' % EventIds
    BY <1>1, EventIdsAssumption
       DEF Begin, Open, NewBanks, End, Close, Dismissed, EventIdsFresh
  <2>2. QED
    BY <2>1 DEF EventIdsFresh
<1>2. ASSUME NEW b \in Boards, NEW n \in Sizes, Deliver(b, n) PROVE EventIdsFresh'
  <2>1. Box(Input(b, n)) /\ (Returns(Input(b, n)) \/ Fails(Input(b, n)))
    BY <1>2, InputBox DEF Deliver
  <2>2. QED
    BY <2>1, IdsAfterCall
<1>3. ASSUME NEW id \in Ids \ Boards, DeliverStranger(id) PROVE EventIdsFresh'
  BY <1>3 DEF DeliverStranger, Stranger, history, EventIdsFresh
<1>4. CASE UNCHANGED vars
  BY <1>4 DEF vars, workerVars, history, EventIdsFresh
<1>5. QED
  BY <1>1, <1>2, <1>3, <1>4 DEF Next

(***************************************************************************)
(* For any number of boards and runs, any errors of the recorder and any   *)
(* number of event Ids, one worker gives an Id again only when it has      *)
(* given all others: its calls of recorder_.write have the Ids 0, 1, 2 and *)
(* so on, modulo their number, also over a run that fails.                 *)
(***************************************************************************)
THEOREM IdsFresh == Spec => []EventIdsFresh
<1>1. Init => IInv /\ EventIdsFresh
  BY InitTypes, EventIdsAssumption DEF Init, WorkerInit, EventIdsFresh
<1>2. QED
  BY <1>1, NextKeepsTypes, NextKeepsIds, PTL DEF Spec

-----------------------------------------------------------------------------
\* A count of 16 bits can be the number of the boards.
BoardsCountable == Cardinality(Boards) < 2^16

\* The count of a call that adds no fragment, or one.
LEMMA CountAfter ==
  ASSUME BoardsCountable, IInv, EventsWellCounted, at = "ready",
         NEW c, Box(c), Fed(c)
  PROVE  /\ CountWith(c) = Len(SpillWith(c))
         /\ CountWith(c) \in 0..Cardinality(Boards)
<1>1. /\ Len(Moved(c)) \in {0, 1} /\ Len(SpillWith(c)) = Len(spill) + Len(Moved(c))
      /\ n_fragments = Len(spill) /\ n_fragments < Cardinality(Boards)
      /\ n_fragments \in Nat /\ Cardinality(Boards) \in Nat
  BY MovedPiece, BoardsAssumption, FS_CardinalityType DEF EventsWellCounted, IInv, TypeOK
<1>2. n_fragments + Len(Moved(c)) \in 0..Cardinality(Boards)
  <2>1. CASE Len(Moved(c)) = 0
    BY <1>1, <2>1
  <2>2. CASE Len(Moved(c)) = 1
    BY <1>1, <2>2
  <2>3. QED
    BY <1>1, <2>1, <2>2
<1>3. (n_fragments + Len(Moved(c))) % 2^16 = n_fragments + Len(Moved(c))
  BY <1>1, <1>2 DEF BoardsCountable
<1>4. QED
  BY <1>1, <1>2, <1>3 DEF CountWith

\* What a call of process() does to the counts.
LEMMA CountsAfterCall ==
  ASSUME BoardsCountable, IInv, EventsWellCounted,
         NEW c, Box(c), Returns(c) \/ Fails(c)
  PROVE  EventsWellCounted'
<1> DEFINE B == Cardinality(Boards)
<1>1. B \in Nat /\ B # 0
  BY BoardsAssumption, FS_CardinalityType, FS_EmptySet
<1>2. CASE Corrupt(c)
  BY <1>2 DEF Corrupt, history, EventsWellCounted
<1>3. CASE Gather(c)
  <2>1. /\ at = "ready" /\ Fed(c) /\ CountWith(c) # B
        /\ spill' = SpillWith(c) /\ n_fragments' = CountWith(c) /\ UNCHANGED writes
    BY <1>3 DEF Gather, Fed, AllFragments, history
  <2>2. CountWith(c) = Len(SpillWith(c)) /\ CountWith(c) < B
    BY <1>1, <2>1, CountAfter
  <2>3. QED
    BY <2>1, <2>2 DEF EventsWellCounted
<1>4. CASE Write(c) \/ WriteFails(c)
  <2>1. PICK ok \in BOOLEAN :
          /\ at = "ready" /\ Fed(c) /\ CountWith(c) = B /\ Recorded(c, ok)
          /\ \/ spill' = <<>> /\ n_fragments' = 0
             \/ spill' = SpillWith(c) /\ n_fragments' = CountWith(c) /\ at' # "ready"
    BY <1>4 DEF Write, WriteFails, Fed, AllFragments
  <2>2. CountWith(c) = Len(SpillWith(c))
    BY <2>1, CountAfter
  <2>3. n_fragments' = Len(spill') /\ (at' = "ready" => n_fragments' < B)
    BY <1>1, <2>1, <2>2
  <2>4. /\ writes' \in Seq(Call)
        /\ Len(writes') = Len(writes) + 1 /\ Len(writes) \in Nat
        /\ \A i \in 1..Len(writes) : writes'[i] = writes[i]
        /\ writes'[Len(writes) + 1].n = CountWith(c)
        /\ writes'[Len(writes) + 1].fragments = SpillWith(c)
    BY <2>1, RecordedCall
  <2>5. \A i \in 1..Len(writes) :
          writes[i].n = B /\ Len(writes[i].fragments) = writes[i].n
    BY LenProperties DEF EventsWellCounted, IInv
  <2>6. ASSUME NEW i \in 1..Len(writes) + 1
        PROVE  writes'[i].n = B /\ Len(writes'[i].fragments) = writes'[i].n
    <3>1. CASE i \in 1..Len(writes)
      BY <2>4, <2>5, <3>1
    <3>2. CASE i = Len(writes) + 1
      BY <2>1, <2>2, <2>4, <3>2
    <3>3. QED
      BY <2>4, <3>1, <3>2
  <2>7. DOMAIN writes' = 1..Len(writes) + 1
    BY <2>4, LenProperties
  <2>8. QED
    BY <2>3, <2>6, <2>7 DEF EventsWellCounted
<1>5. QED
  BY <1>2, <1>3, <1>4 DEF Returns, Fails

\* The counts stay right in every step, if the bank of a run starts with none.
LEMMA NextKeepsCounts ==
  ASSUME BoardsCountable, FreshCounts = {0}
  PROVE  IInv /\ EventsWellCounted /\ [Next]_vars => EventsWellCounted'
<1> SUFFICES ASSUME IInv, EventsWellCounted, [Next]_vars PROVE EventsWellCounted'
  OBVIOUS
<1>1. CASE Begin \/ End
  <2>1. writes' = <<>> /\ spill' = <<>> /\ n_fragments' = 0
    BY <1>1 DEF Begin, Open, NewBanks, End, Close, Dismissed
  <2>2. 0 < Cardinality(Boards)
    BY BoardsAssumption, FS_CardinalityType, FS_EmptySet
  <2>3. QED
    BY <2>1, <2>2 DEF EventsWellCounted
<1>2. ASSUME NEW b \in Boards, NEW n \in Sizes, Deliver(b, n) PROVE EventsWellCounted'
  <2>1. Box(Input(b, n)) /\ (Returns(Input(b, n)) \/ Fails(Input(b, n)))
    BY <1>2, InputBox DEF Deliver
  <2>2. QED
    BY <2>1, CountsAfterCall
<1>3. ASSUME NEW id \in Ids \ Boards, DeliverStranger(id) PROVE EventsWellCounted'
  BY <1>3 DEF DeliverStranger, Stranger, history, EventsWellCounted
<1>4. CASE UNCHANGED vars
  BY <1>4 DEF vars, workerVars, history, EventsWellCounted
<1>5. QED
  BY <1>1, <1>2, <1>3, <1>4 DEF Next

(***************************************************************************)
(* If a new bank starts with a count of 0 and the boards are fewer than    *)
(* the count can hold, then whatever the boards send, in step or not, the  *)
(* count in the spill bank is the number of its fragments and stays below  *)
(* the number of boards between two calls, and every event is written      *)
(* with as many fragments as there are boards, counted right.              *)
(***************************************************************************)
THEOREM CountsCorrect ==
  ASSUME BoardsCountable, FreshCounts = {0}
  PROVE  Spec => []EventsWellCounted
<1>1. Init => IInv /\ EventsWellCounted
  BY InitTypes DEF Init, WorkerInit, EventsWellCounted
<1>2. QED
  BY <1>1, NextKeepsTypes, NextKeepsCounts, PTL DEF Spec

-----------------------------------------------------------------------------
(***************************************************************************)
(* The fragments of a run and their places.                                *)
(***************************************************************************)
\* What it is to be one.
LEMMA PlacesAre ==
  ASSUME NEW b
  PROVE  /\ \A p \in Places(b) : p = <<p[1], p[2]>>
         /\ \A i, k : <<i, k>> \in Places(b) <=>
              i \in 1 .. Len(writes) + 1 /\ k \in DOMAIN Row(i) /\ Row(i)[k].board = b
BY DEF Places

\* And in the state behind a step.
LEMMA PlacesThen ==
  ASSUME NEW b
  PROVE  /\ \A p \in Places(b)' : p = <<p[1], p[2]>>
         /\ \A i, k : <<i, k>> \in Places(b)' <=>
              i \in 1 .. Len(writes') + 1 /\ k \in DOMAIN Row(i)'
                /\ (Row(i)[k].board = b)'
BY DEF Places

\* The rows, and the places in them.
LEMMA RowsAre ==
  ASSUME IInv
  PROVE  /\ Len(writes) \in Nat
         /\ \A i \in 1 .. Len(writes) + 1 :
              Row(i) \in Seq(Piece) /\ Len(Row(i)) \in Nat /\ DOMAIN Row(i) = 1..Len(Row(i))
         /\ Row(Len(writes) + 1) = spill
         /\ \A i \in 1..Len(writes) : Row(i) = writes[i].fragments
<1>1. writes \in Seq(Call) /\ spill \in Seq(Piece) /\ Len(writes) \in Nat
  BY DEF IInv, TypeOK, Piece
<1>2. ASSUME NEW i \in 1..Len(writes)
      PROVE  Row(i) \in Seq(Piece) /\ Row(i) = writes[i].fragments
  <2>1. writes[i] \in Call
    BY <1>1
  <2>2. QED
    BY <2>1 DEF Row, Call
<1>3. Row(Len(writes) + 1) = spill
  BY <1>1 DEF Row
<1>4. ASSUME NEW i \in 1 .. Len(writes) + 1 PROVE Row(i) \in Seq(Piece)
  <2>1. i \in 1..Len(writes) \/ i = Len(writes) + 1
    BY <1>1
  <2>2. QED
    BY <1>1, <1>2, <1>3, <2>1
<1>5. \A q \in Seq(Piece) : Len(q) \in Nat /\ DOMAIN q = 1..Len(q)
  BY LenProperties
<1>6. QED
  BY <1>1, <1>2, <1>3, <1>4, <1>5

\* A run starts with no fragment.
LEMMA NoPlaces ==
  ASSUME writes' = <<>>, spill' = <<>>, NEW b
  PROVE  Places(b)' = {} /\ IsFiniteSet(Places(b)') /\ Finished(b)' = 0
<1>1. \A i \in 1 .. Len(writes') + 1 : Row(i)' = <<>>
  BY DEF Row
<1>2. \A i \in 1 .. Len(writes') + 1 : DOMAIN Row(i)' = {}
  BY <1>1
<1>3. Places(b)' = {}
  BY <1>2, PlacesThen
<1>4. QED
  BY <1>3, FS_EmptySet DEF Finished

\* The rows after a call that returns: the fragment it has moved, if any, is
\* behind all others.
LEMMA RowsAfter ==
  ASSUME IInv, NEW c, Box(c), Returns(c), NEW n, n = Len(writes) + 1
  PROVE  /\ \A i \in 1 .. n - 1 : Row(i)' = Row(i)
         /\ Row(n)' = spill \o Moved(c)
         /\ \/ Len(writes') + 1 = n
            \/ Len(writes') + 1 = n + 1 /\ Row(n + 1)' = <<>>
<1>1. /\ Len(writes) \in Nat /\ n \in Nat /\ n - 1 = Len(writes)
      /\ \A i \in 1..Len(writes) : Row(i) = writes[i].fragments
  BY RowsAre
<1>2. CASE Gather(c)
  <2>1. writes' = writes /\ spill' = spill \o Moved(c)
    BY <1>2 DEF Gather, history, SpillWith
  <2>2. QED
    BY <1>1, <2>1 DEF Row
<1>3. CASE Write(c)
  <2>1. Fed(c) /\ Recorded(c, TRUE) /\ spill' = <<>>
    BY <1>3 DEF Write
  <2>2. /\ Len(writes') = Len(writes) + 1
        /\ \A i \in 1..Len(writes) : writes'[i] = writes[i]
        /\ writes'[Len(writes) + 1].fragments = spill \o Moved(c)
    BY <2>1, RecordedCall DEF SpillWith
  <2>3. \A i : Row(i)' = IF i <= Len(writes') THEN writes'[i].fragments ELSE spill'
    BY DEF Row
  <2>4. ASSUME NEW i \in 1..Len(writes) PROVE Row(i)' = Row(i)
    <3>1. i <= Len(writes')
      BY <1>1, <2>2
    <3>2. Row(i)' = writes'[i].fragments
      BY <2>3, <3>1
    <3>3. QED
      BY <1>1, <2>2, <3>2
  <2>5. Row(n)' = spill \o Moved(c)
    BY <1>1, <2>2, <2>3
  <2>6. Row(n + 1)' = <<>>
    BY <1>1, <2>1, <2>2, <2>3
  <2>7. QED
    BY <2>2, <2>4, <2>5, <2>6
<1>4. QED
  BY <1>2, <1>3 DEF Returns

\* The places of a board after a call that returns: as before, or one more.
LEMMA PlacesAfter ==
  ASSUME IInv, NEW c, Box(c), Returns(c), NEW d,
         NEW n, n = Len(writes) + 1, NEW m, m = Len(spill) + 1
  PROVE  /\ \A p \in Places(d) :
              /\ p[1] \in Nat /\ p[2] \in Nat
              /\ p[1] < n \/ (p[1] = n /\ p[2] < m)
              /\ Row(p[1])'[p[2]] = Row(p[1])[p[2]]
         /\ Completes(builders[c.board], c) =>
              (Row(n)'[m]).bank = Filled(builders[c.board], c)
         /\ Places(d)' =
              IF Completes(builders[c.board], c) /\ d = c.board
              THEN Places(d) \cup {<<n, m>>} ELSE Places(d)
<1> DEFINE x == [board |-> c.board, bank |-> Filled(builders[c.board], c)]
           added == Completes(builders[c.board], c)
<1>1. /\ Fed(c) /\ at = "ready" /\ c.board \in Boards
      /\ Moved(c) \in Seq(Piece) /\ spill \in Seq(Piece)
      /\ Moved(c) = IF added THEN <<x>> ELSE <<>>
  <2>1. Fed(c) /\ at = "ready" /\ c.board \in Boards
    BY DEF Returns, Gather, Write, Fed
  <2>2. Moved(c) \in Seq(Piece)
    BY <2>1, MovedPiece
  <2>3. QED
    BY <2>1, <2>2 DEF Moved, IInv, TypeOK, Piece
<1>2. /\ Len(writes) \in Nat /\ Row(n) = spill
      /\ \A i \in 1..n : Len(Row(i)) \in Nat /\ DOMAIN Row(i) = 1..Len(Row(i))
  BY RowsAre
<1>3. m - 1 = Len(spill) /\ m \in Nat /\ m > 0 /\ DOMAIN spill = 1 .. m - 1
  BY <1>1, LenProperties
<1>4. /\ \A i \in 1 .. n - 1 : Row(i)' = Row(i)
      /\ Row(n)' = spill \o Moved(c)
      /\ \/ Len(writes') + 1 = n
         \/ Len(writes') + 1 = n + 1 /\ Row(n + 1)' = <<>>
  BY <1>2, RowsAfter
<1>5. /\ \A k \in 1 .. m - 1 : (spill \o Moved(c))[k] = spill[k]
      /\ added => /\ (spill \o Moved(c))[m] = x
                  /\ DOMAIN (spill \o Moved(c)) = 1..m
      /\ ~added => DOMAIN (spill \o Moved(c)) = 1 .. m - 1
  <2>1. /\ Len(spill \o Moved(c)) = Len(spill) + Len(Moved(c))
        /\ \A k \in 1 .. Len(spill) + Len(Moved(c)) : (spill \o Moved(c))[k] =
             IF k <= Len(spill) THEN spill[k] ELSE Moved(c)[k - Len(spill)]
        /\ spill \o Moved(c) \in Seq(Piece)
    BY <1>1, ConcatProperties
  <2>2. DOMAIN (spill \o Moved(c)) = 1 .. Len(spill) + Len(Moved(c))
    BY <2>1, LenProperties
  <2>3. CASE added
    <3>1. Moved(c) = <<x>> /\ Len(Moved(c)) = 1 /\ Moved(c)[1] = x
      BY <1>1, <2>3
    <3> HIDE DEF x, added
    <3>2. QED
      BY <1>3, <2>1, <2>2, <2>3, <3>1
  <2>4. CASE ~added
    <3>1. Len(Moved(c)) = 0
      BY <1>1, <2>4
    <3> HIDE DEF x, added
    <3>2. DOMAIN (spill \o Moved(c)) = 1 .. m - 1
      BY <1>3, <2>2, <3>1
    <3>3. \A k \in 1 .. m - 1 : (spill \o Moved(c))[k] = spill[k]
      BY <1>3, <2>1, <3>1
    <3>4. QED
      BY <2>4, <3>2, <3>3
  <2>5. QED
    BY <2>3, <2>4
<1> HIDE DEF x, added
<1>6. n \in Nat /\ n - 1 = Len(writes) /\ n = Len(writes) + 1
  BY <1>2
<1>7. ASSUME NEW i \in 1 .. n, NEW k \in DOMAIN Row(i)
      PROVE  /\ k \in Nat /\ (i < n \/ (i = n /\ k < m))
             /\ Row(i)'[k] = Row(i)[k] /\ k \in DOMAIN Row(i)'
  <2>1. CASE i \in 1 .. n - 1
    BY <1>2, <1>4, <1>6, <2>1
  <2>2. CASE i = n
    <3>1. k \in 1 .. m - 1 /\ Row(i)[k] = spill[k]
      BY <1>2, <1>3, <2>2
    <3>2. Row(i)'[k] = spill[k]
      BY <1>4, <1>5, <2>2, <3>1
    <3>3. k \in DOMAIN Row(i)'
      <4>1. Row(i)' = spill \o Moved(c)
        BY <1>4, <2>2
      <4>2. k \in 1..m
        BY <1>3, <3>1
      <4>3. QED
        BY <1>5, <3>1, <4>1, <4>2
    <3>4. QED
      BY <1>3, <2>2, <3>1, <3>2, <3>3
  <2>3. QED
    BY <1>6, <2>1, <2>2
<1>8. ASSUME NEW p \in Places(d)
      PROVE  /\ p[1] \in Nat /\ p[2] \in Nat /\ p # <<n, m>>
             /\ p[1] < n \/ (p[1] = n /\ p[2] < m)
             /\ Row(p[1])'[p[2]] = Row(p[1])[p[2]]
             /\ p \in Places(d)'
  <2>1. PICK i, k :
          i \in 1..n /\ p = <<i, k>> /\ k \in DOMAIN Row(i) /\ Row(i)[k].board = d
    BY <1>6, PlacesAre
  <2>2. i \in 1 .. Len(writes') + 1
    BY <1>4, <1>6, <2>1
  <2>3. /\ i < n \/ (i = n /\ k < m)
        /\ Row(i)'[k] = Row(i)[k] /\ k \in DOMAIN Row(i)'
    BY <1>7, <2>1
  <2>4. (Row(i)'[k]).board = d
    BY <2>1, <2>3
  <2>5. p \in Places(d)'
    BY <2>1, <2>2, <2>3, <2>4, PlacesThen
  <2>6. k \in Nat /\ i \in Nat
    BY <1>2, <1>6, <2>1
  <2>7. QED
    BY <1>3, <1>6, <2>1, <2>3, <2>5, <2>6
<1>9. ASSUME NEW p \in Places(d)', p \notin Places(d)
      PROVE  added /\ d = c.board /\ p = <<n, m>>
  <2>1. PICK i, k :
          /\ i \in 1 .. Len(writes') + 1
          /\ p = <<i, k>> /\ k \in DOMAIN Row(i)' /\ (Row(i)[k].board = d)'
    BY PlacesThen
  <2>2. i \in 1..n
    <3>1. i = n + 1 => DOMAIN Row(i)' = {}
      BY <1>4, <1>6, <2>1
    <3>2. QED
      BY <1>4, <1>6, <2>1, <3>1
  <2>3. ~(k \in DOMAIN Row(i))
    <3>1. SUFFICES ASSUME k \in DOMAIN Row(i) PROVE FALSE
      OBVIOUS
    <3>2. Row(i)'[k] = Row(i)[k]
      BY <1>7, <2>2, <3>1
    <3>3. Row(i)[k].board = d
      BY <2>1, <3>2
    <3>4. QED
      BY <1>6, <1>9, <2>1, <2>2, <3>1, <3>3, PlacesAre
  <2>4. i = n
    BY <1>4, <1>6, <2>1, <2>2, <2>3
  <2>5. k \in DOMAIN (spill \o Moved(c)) /\ k \notin 1 .. m - 1
    BY <1>2, <1>3, <1>4, <2>1, <2>3, <2>4
  <2>6. added /\ k = m
    <3>1. added
      BY <1>5, <2>5
    <3>2. k \in 1..m
      BY <1>5, <2>5, <3>1
    <3>3. QED
      BY <1>3, <2>5, <3>1, <3>2
  <2>7. (Row(i)'[k]).board = c.board
    BY <1>4, <1>5, <2>4, <2>6 DEF x
  <2>8. QED
    BY <2>1, <2>4, <2>6, <2>7
<1>10. ASSUME added
       PROVE  /\ (Row(n)'[m]).bank = Filled(builders[c.board], c)
              /\ d = c.board => <<n, m>> \in Places(d)'
  <2>1. m \in DOMAIN Row(n)' /\ Row(n)'[m] = x
    BY <1>3, <1>4, <1>5, <1>10
  <2>2. x.board = c.board /\ x.bank = Filled(builders[c.board], c)
    BY DEF x
  <2>3. n \in 1 .. Len(writes') + 1
    BY <1>4, <1>6
  <2>4. QED
    BY <2>1, <2>2, <2>3, PlacesThen
<1>11. ASSUME added, d = c.board PROVE Places(d)' = Places(d) \cup {<<n, m>>}
  BY <1>8, <1>9, <1>10, <1>11
<1>12. ASSUME ~(added /\ d = c.board) PROVE Places(d)' = Places(d)
  BY <1>8, <1>9, <1>12
<1>13. QED
  BY <1>8, <1>10, <1>11, <1>12 DEF added

-----------------------------------------------------------------------------
(***************************************************************************)
(* No spill is lost, doubled or put out of order.                          *)
(***************************************************************************)
\* The places of P up to p.
Before(P, p) == {q \in P : q[1] < p[1] \/ (q[1] = p[1] /\ q[2] <= p[2])}

\* A place behind all others is the last one, and changes no other's rank.
LEMMA LastPlace ==
  ASSUME NEW P, IsFiniteSet(P), NEW n \in Nat, NEW m \in Nat,
         \A p \in P : /\ p[1] \in Nat /\ p[2] \in Nat
                      /\ p[1] < n \/ (p[1] = n /\ p[2] < m)
  PROVE  /\ Cardinality(P) \in Nat
         /\ IsFiniteSet(P \cup {<<n, m>>})
         /\ Cardinality(P \cup {<<n, m>>}) = Cardinality(P) + 1
         /\ Before(P \cup {<<n, m>>}, <<n, m>>) = P \cup {<<n, m>>}
         /\ \A p \in P : /\ Before(P \cup {<<n, m>>}, p) = Before(P, p)
                         /\ Cardinality(Before(P, p)) \in 1..Cardinality(P)
<1> DEFINE z == <<n, m>>
<1>1. z[1] = n /\ z[2] = m /\ z \notin P
  OBVIOUS
<1> HIDE DEF z
<1>2. Before(P \cup {z}, z) = P \cup {z}
  BY <1>1 DEF Before
<1>3. ASSUME NEW p \in P PROVE Before(P \cup {z}, p) = Before(P, p)
  BY <1>1 DEF Before
<1>4. Cardinality(P) \in Nat
  BY FS_CardinalityType
<1>5. IsFiniteSet(P \cup {z}) /\ Cardinality(P \cup {z}) = Cardinality(P) + 1
  BY <1>1, FS_AddElement
<1>6. ASSUME NEW p \in P PROVE Cardinality(Before(P, p)) \in 1..Cardinality(P)
  <2>1. Before(P, p) \subseteq P /\ p \in Before(P, p)
    BY DEF Before
  <2>2. /\ IsFiniteSet(Before(P, p))
        /\ Cardinality(Before(P, p)) <= Cardinality(P)
    BY <2>1, FS_Subset
  <2>3. Cardinality(Before(P, p)) \in Nat /\ Cardinality(Before(P, p)) # 0
    BY <2>1, <2>2, FS_CardinalityType, FS_EmptySet
  <2>4. QED
    BY <1>4, <2>2, <2>3
<1>7. QED
  BY <1>2, <1>3, <1>4, <1>5, <1>6 DEF z

\* A board whose spills are kept, and whose builder remembers what it must.
Intact(b) ==
  LET spills == Fragments(SubSeq(streams[b], 1, pos[b])) IN
  /\ Firm(builders[b], streams[b], pos[b])
  /\ IsFiniteSet(Places(b))
  /\ Finished(b) = Len(spills)
  /\ \A p \in Places(b) :
       Row(p[1])[p[2]].bank.words = spills[Cardinality(UpTo(b, p))]

SpillsInv == at = "ready" => \A b \in Boards : Intact(b)

\* A board that has no part in a step.
LEMMA IntactStays ==
  ASSUME NEW b, Intact(b), builders'[b] = builders[b], streams'[b] = streams[b],
         pos'[b] = pos[b], Places(b)' = Places(b),
         \A p \in Places(b) : Row(p[1])'[p[2]] = Row(p[1])[p[2]]
  PROVE  Intact(b)'
<1>1. \A p : UpTo(b, p)' = UpTo(b, p)
  BY DEF UpTo
<1>2. Finished(b)' = Finished(b)
  BY DEF Finished
<1>3. \A p \in Places(b) : (Row(p[1])[p[2]])' = Row(p[1])[p[2]]
  OBVIOUS
<1>4. QED
  BY <1>1, <1>2, <1>3 DEF Intact

\* The next words of a board, and its builder returns.
LEMMA IntactAfter ==
  ASSUME IInv, NEW b \in Boards, NEW n \in Sizes, pos[b] + n <= Len(streams[b]),
         NEW c, c = Input(b, n), Returns(c), Intact(b),
         pos' = [pos EXCEPT ![b] = @ + n], UNCHANGED streams
  PROVE  Intact(b)'
<1>1. PICK s, p, k : s = streams[b] /\ p = pos[b] /\ k = builders[b]
  OBVIOUS
<1>2. /\ s \in Seq(Word) /\ p \in Nat /\ n \in Nat /\ n > 0 /\ p + n <= Len(s)
  BY <1>1, StreamsAssumption, SizesAssumption DEF IInv, TypeOK
<1>3. Cut(s, p, n, c) /\ c.board = b /\ Box(c)
  <2>1. c = Scanned(b, SubSeq(s, p + 1, p + n))
    BY <1>1 DEF Input
  <2>2. QED
    BY <1>2, <2>1, CutOfInput, InputBox
<1>4. /\ at = "ready" /\ Thrown(b, k, c) = NoError
      /\ builders'[b] = BankAfter(k, c)
  <2>1. Fed(c) /\ at = "ready" /\ builders \in [Boards -> Bank]
    BY DEF Returns, Gather, Write, Fed, IInv, TypeOK
  <2>2. QED
    BY <1>1, <1>3, <2>1 DEF Fed
<1>5. ~MultipleSpills(k, c) /\ Expected(k, c)
  BY <1>4, ThrownCases
<1>6. Firm(k, s, p)
  BY <1>1 DEF Intact
<1> DEFINE old == Fragments(SubSeq(s, 1, p))
           new == Fragments(SubSeq(s, 1, p + n))
<1>7. /\ Firm(BankAfter(k, c), s, p + n)
      /\ Completes(k, c) => new = Append(old, Filled(k, c).words)
      /\ ~Completes(k, c) => new = old
  BY <1>2, <1>3, <1>5, <1>6, CallDelivers
<1>8. pos'[b] = p + n /\ streams'[b] = s
  BY <1>1 DEF IInv
<1> HIDE DEF old, new
<1>9. /\ IsFiniteSet(Places(b)) /\ Cardinality(Places(b)) = Len(old)
      /\ \A q \in Places(b) :
           Row(q[1])[q[2]].bank.words = old[Cardinality(Before(Places(b), q))]
  BY <1>1 DEF Intact, Finished, UpTo, Before, old
<1>10. SUFFICES /\ IsFiniteSet(Places(b)') /\ Cardinality(Places(b)') = Len(new)
                /\ \A q \in Places(b)' :
                     (Row(q[1])'[q[2]]).bank.words
                       = new[Cardinality(Before(Places(b)', q))]
  <2>1. Firm(builders[b], streams[b], pos[b])'
    BY <1>4, <1>7, <1>8
  <2>2. Fragments(SubSeq(streams[b], 1, pos[b]))' = new
    BY <1>8 DEF new
  <2>3. \A q : UpTo(b, q)' = Before(Places(b)', q)
    BY DEF UpTo, Before
  <2>4. QED
    BY <1>10, <2>1, <2>2, <2>3 DEF Intact, Finished
<1>11. PICK i, m : i = Len(writes) + 1 /\ m = Len(spill) + 1
  OBVIOUS
<1>12. /\ \A q \in Places(b) :
            /\ q[1] \in Nat /\ q[2] \in Nat
            /\ q[1] < i \/ (q[1] = i /\ q[2] < m)
            /\ Row(q[1])'[q[2]] = Row(q[1])[q[2]]
       /\ Completes(k, c) =>
            /\ (Row(i)'[m]).bank = Filled(k, c)
            /\ Places(b)' = Places(b) \cup {<<i, m>>}
       /\ ~Completes(k, c) => Places(b)' = Places(b)
  BY <1>1, <1>3, <1>11, PlacesAfter
<1>13. CASE ~Completes(k, c)
  BY <1>7, <1>9, <1>12, <1>13
<1>14. CASE Completes(k, c)
  <2>1. i \in Nat /\ m \in Nat
    <3>1. writes \in Seq(Call) /\ spill \in Seq(Piece)
      BY DEF IInv, TypeOK, Piece
    <3>2. Len(writes) \in Nat /\ Len(spill) \in Nat
      BY <3>1, LenProperties
    <3>3. QED
      BY <1>11, <3>2
  <2>2. /\ Cardinality(Places(b)) \in Nat
        /\ IsFiniteSet(Places(b)') /\ Cardinality(Places(b)') = Len(old) + 1
        /\ Before(Places(b)', <<i, m>>) = Places(b)'
        /\ \A q \in Places(b) :
             /\ Before(Places(b)', q) = Before(Places(b), q)
             /\ Cardinality(Before(Places(b), q)) \in 1..Len(old)
    <3>1. PICK P, Q : P = Places(b) /\ Q = Places(b)'
      OBVIOUS
    <3>2. /\ IsFiniteSet(P) /\ Cardinality(P) = Len(old) /\ Q = P \cup {<<i, m>>}
          /\ \A q \in P : /\ q[1] \in Nat /\ q[2] \in Nat
                          /\ q[1] < i \/ (q[1] = i /\ q[2] < m)
      BY <1>9, <1>12, <1>14, <3>1
    <3>3. /\ Cardinality(P) \in Nat
          /\ IsFiniteSet(Q) /\ Cardinality(Q) = Len(old) + 1
          /\ Before(Q, <<i, m>>) = Q
          /\ \A q \in P : /\ Before(Q, q) = Before(P, q)
                          /\ Cardinality(Before(P, q)) \in 1..Len(old)
      <4>1. /\ Cardinality(P) \in Nat
            /\ IsFiniteSet(P \cup {<<i, m>>})
            /\ Cardinality(P \cup {<<i, m>>}) = Cardinality(P) + 1
            /\ Before(P \cup {<<i, m>>}, <<i, m>>) = P \cup {<<i, m>>}
            /\ \A q \in P : /\ Before(P \cup {<<i, m>>}, q) = Before(P, q)
                            /\ Cardinality(Before(P, q)) \in 1..Cardinality(P)
        BY <2>1, <3>2, LastPlace, Zenon
      <4>2. QED
        BY <3>2, <4>1
    <3>4. QED
      BY <3>1, <3>3
  <2>3. /\ Len(new) = Len(old) + 1 /\ new[Len(old) + 1] = Filled(k, c).words
        /\ \A j \in 1..Len(old) : new[j] = old[j]
    BY <1>2, <1>3, <1>5, <1>6, <1>14, DeliversLast DEF old, new
  <2>4. ASSUME NEW q \in Places(b)
        PROVE  (Row(q[1])'[q[2]]).bank.words
                 = new[Cardinality(Before(Places(b)', q))]
    BY <1>9, <1>12, <2>2, <2>3
  <2>5. (Row(i)'[m]).bank.words = new[Cardinality(Before(Places(b)', <<i, m>>))]
    BY <1>12, <1>14, <2>2, <2>3
  <2>6. QED
    BY <1>12, <1>14, <2>2, <2>3, <2>4, <2>5
<1>15. QED
  BY <1>13, <1>14

\* A run starts with every board intact.
LEMMA IntactAtFirst ==
  ASSUME Begin, NEW b \in Boards
  PROVE  Intact(b)'
<1>1. /\ builders'[b] = EmptyBank /\ pos'[b] = 0
      /\ streams'[b] \in Seq(Word)
      /\ spill' = <<>> /\ writes' = <<>>
  BY StreamsAssumption DEF Begin, Open, NewBanks, Beginning
<1>2. /\ Firm(EmptyBank, streams'[b], 0)
      /\ Fragments(SubSeq(streams'[b], 1, 0)) = <<>>
  BY <1>1, FirmAtFirst
<1>3. Places(b)' = {} /\ IsFiniteSet(Places(b)') /\ Finished(b)' = 0
  BY <1>1, NoPlaces
<1>4. Len(<<>>) = 0
  OBVIOUS
<1>5. QED
  BY <1>1, <1>2, <1>3, <1>4 DEF Intact

\* The boards stay intact in every step.
LEMMA NextKeepsSpills == IInv /\ SpillsInv /\ [Next]_vars => SpillsInv'
<1> SUFFICES ASSUME IInv, SpillsInv, [Next]_vars, at' = "ready", NEW d \in Boards
             PROVE  Intact(d)'
  BY DEF SpillsInv
<1>1. CASE Begin
  BY <1>1, IntactAtFirst
<1>2. CASE End
  BY <1>2 DEF End, Close, Dismissed
<1>3. ASSUME NEW b \in Boards, NEW n \in Sizes, Deliver(b, n) PROVE Intact(d)'
  <2>1. PICK c : c = Input(b, n)
    OBVIOUS
  <2>2. /\ at = "ready" /\ Box(c) /\ c.board = b /\ pos[b] + n <= Len(streams[b])
        /\ Returns(c) /\ pos' = [pos EXCEPT ![b] = @ + n] /\ UNCHANGED streams
    BY <1>3, <2>1, InputBox DEF Deliver, Fails, WriteFails, Corrupt
  <2>3. CASE d = b
    BY <2>1, <2>2, <2>3, IntactAfter DEF SpillsInv
  <2>4. CASE d # b
    <3>1. /\ builders'[d] = builders[d] /\ pos'[d] = pos[d]
          /\ streams'[d] = streams[d]
      <4>1. Fed(c) /\ builders \in [Boards -> Bank] /\ pos \in [Boards -> Nat]
        BY <2>2 DEF Returns, Gather, Write, IInv, TypeOK
      <4>2. QED
        BY <2>2, <2>4, <4>1 DEF Fed
    <3>2. PICK i, m : i = Len(writes) + 1 /\ m = Len(spill) + 1
      OBVIOUS
    <3>3. /\ Places(d)' = Places(d)
          /\ \A p \in Places(d) : Row(p[1])'[p[2]] = Row(p[1])[p[2]]
      BY <2>2, <2>4, <3>2, PlacesAfter
    <3>4. QED
      BY <2>2, <3>1, <3>3, IntactStays DEF SpillsInv
  <2>5. QED
    BY <2>3, <2>4
<1>4. ASSUME NEW id \in Ids \ Boards, DeliverStranger(id) PROVE Intact(d)'
  BY <1>4 DEF DeliverStranger, Stranger
<1>5. CASE UNCHANGED vars
  <2>1. UNCHANGED <<at, spill, writes, builders, streams, pos>>
    BY <1>5 DEF vars, workerVars, boardVars, history
  <2>2. Places(d)' = Places(d) /\ \A i : Row(i)' = Row(i)
    BY <2>1 DEF Places, Row
  <2>3. QED
    BY <2>1, <2>2, IntactStays DEF SpillsInv
<1>6. QED
  BY <1>1, <1>2, <1>3, <1>4, <1>5 DEF Next

\* They are so in every state.
LEMMA SpillsInvHolds == Spec => [](IInv /\ SpillsInv)
<1>1. Init => SpillsInv
  BY DEF Init, WorkerInit, SpillsInv
<1>2. QED
  BY <1>1, InitTypes, NextKeepsTypes, NextKeepsSpills, PTL DEF Spec

(***************************************************************************)
(* Whatever the boards send, in step or not, and however it is cut into    *)
(* containers: from init() to close() no spill of a board is lost,         *)
(* doubled, put out of order or mixed with one of an earlier run on its    *)
(* way through its builder and the spill bank into the events.             *)
(***************************************************************************)
THEOREM SpillsAllKept == Spec => []SpillsKept
<1>1. SpillsInv => SpillsKept
  BY DEF SpillsInv, Intact, SpillsKept
<1>2. QED
  BY <1>1, SpillsInvHolds, PTL

-----------------------------------------------------------------------------
(***************************************************************************)
(* Boards that keep step.                                                  *)
(***************************************************************************)
BoardsOf(q)     == {q[i].board : i \in DOMAIN q}
OncePerBoard(q) == \A i, j \in DOMAIN q : q[i].board = q[j].board => i = j

\* No event, nor the spill bank, has two fragments of a board; until a write
\* fails each event was written, and a board has a fragment for each of them
\* and perhaps one that waits.
Steady ==
  /\ \A i \in DOMAIN writes : OncePerBoard(writes[i].fragments)
  /\ at = "ready" =>
       /\ OncePerBoard(spill)
       /\ \A i \in DOMAIN writes : writes[i].ok
       /\ \A b \in Boards :
            /\ IsFiniteSet(Places(b))
            /\ Finished(b) = Len(writes) + IF b \in BoardsOf(spill) THEN 1 ELSE 0

\* As many fragments as boards, and of no board two, are one of every board.
LEMMA OneOfEach ==
  ASSUME NEW q \in Seq(Piece), OncePerBoard(q), Len(q) = Cardinality(Boards)
  PROVE  BoardsOf(q) = Boards
<1> DEFINE f == [i \in 1..Len(q) |-> q[i].board]
<1>1. /\ Len(q) \in Nat /\ DOMAIN q = 1..Len(q)
      /\ \A i \in 1..Len(q) : q[i].board \in Boards
  <2>1. \A x \in Piece : x.board \in Boards
    BY DEF Piece
  <2>2. \A i \in 1..Len(q) : q[i] \in Piece
    OBVIOUS
  <2>3. QED
    BY <2>1, <2>2, LenProperties
<1>2. f \in Injection(1..Len(q), Boards)
  BY <1>1 DEF Injection, IsInjective, OncePerBoard
<1>3. Cardinality(1..Len(q)) = Cardinality(Boards)
  BY <1>1, FS_Interval
<1>4. f \in Surjection(1..Len(q), Boards)
  <2> HIDE DEF f
  <2>1. QED
    BY <1>2, <1>3, BoardsAssumption, FS_Injection
<1>5. \A b \in Boards : \E i \in 1..Len(q) : q[i].board = b
  BY <1>4 DEF Surjection
<1>6. QED
  BY <1>1, <1>5 DEF BoardsOf

\* Fragments of all boards are as many as the boards, at least.
LEMMA AllNeedMany ==
  ASSUME NEW q \in Seq(Piece), BoardsOf(q) = Boards
  PROVE  Cardinality(Boards) <= Len(q)
<1> DEFINE f == [i \in 1..Len(q) |-> q[i].board]
<1>1. Len(q) \in Nat /\ DOMAIN q = 1..Len(q)
  BY LenProperties
<1>2. f \in Surjection(1..Len(q), Boards)
  BY <1>1 DEF Surjection, BoardsOf
<1>3. IsFiniteSet(1..Len(q)) /\ Cardinality(1..Len(q)) = Len(q)
  <2>1. ASSUME NEW n \in Nat
        PROVE  IsFiniteSet(1..n) /\ Cardinality(1..n) = n
    <3>1. IsFiniteSet(1..n) /\ Cardinality(1..n) = IF 1 > n THEN 0 ELSE n - 1 + 1
      BY FS_Interval, SMTT(30)
    <3>2. QED
      BY <3>1
  <2>2. QED
    BY <1>1, <2>1
<1> HIDE DEF f
<1>4. Cardinality(Boards) <= Cardinality(1..Len(q))
  BY <1>2, <1>3, FS_Surjection, Zenon
<1>5. QED
  BY <1>3, <1>4

\* Fragments, and one more of a board that has none among them.
LEMMA OneMorePiece ==
  ASSUME NEW q \in Seq(Piece), NEW x \in Piece, OncePerBoard(q)
  PROVE  /\ BoardsOf(q \o <<x>>) = BoardsOf(q) \cup {x.board}
         /\ x.board \notin BoardsOf(q) => OncePerBoard(q \o <<x>>)
<1> DEFINE r == q \o <<x>>
<1>1. /\ Len(q) \in Nat /\ DOMAIN q = 1..Len(q) /\ DOMAIN r = 1..Len(q) + 1
      /\ \A i \in 1..Len(q) : r[i] = q[i]
      /\ r[Len(q) + 1] = x
  <2>1. r = Append(q, x)
    BY AppendIsConcat
  <2> HIDE DEF r
  <2>2. QED
    BY <2>1, AppendProperties, LenProperties
<1>2. 1..Len(q) + 1 = 1..Len(q) \cup {Len(q) + 1}
  BY <1>1
<1> HIDE DEF r
<1>3. BoardsOf(r) = BoardsOf(q) \cup {x.board}
  BY <1>1, <1>2 DEF BoardsOf
<1>4. ASSUME x.board \notin BoardsOf(q) PROVE OncePerBoard(r)
  BY <1>1, <1>2, <1>4 DEF BoardsOf, OncePerBoard
<1>5. QED
  BY <1>3, <1>4 DEF r

\* Boards that keep step: none finishes a spill of which a fragment waits.
LEMMA NotTwice ==
  ASSUME KeepStep, IInv, EventsWellCounted, Steady, at = "ready",
         NEW c, c.board \in Boards, InStep(c), Completes(builders[c.board], c)
  PROVE  c.board \notin BoardsOf(spill)
<1> SUFFICES ASSUME c.board \in BoardsOf(spill) PROVE FALSE
  OBVIOUS
<1>1. spill \in Seq(Piece) /\ OncePerBoard(spill)
  BY DEF IInv, TypeOK, Piece, Steady
<1>2. Len(spill) < Cardinality(Boards) /\ Len(spill) \in Nat
      /\ Cardinality(Boards) \in Nat
  BY <1>1, BoardsAssumption, FS_CardinalityType, LenProperties DEF EventsWellCounted
<1>3. BoardsOf(spill) \subseteq Boards
  <2>1. \A x \in Piece : x.board \in Boards
    BY DEF Piece
  <2>2. \A i \in DOMAIN spill : spill[i] \in Piece
    BY <1>1
  <2>3. QED
    BY <2>1, <2>2 DEF BoardsOf
<1>4. PICK other \in Boards : other \notin BoardsOf(spill)
  <2>1. BoardsOf(spill) = Boards => Cardinality(Boards) <= Len(spill)
    BY <1>1, AllNeedMany
  <2>2. BoardsOf(spill) # Boards
    BY <1>2, <2>1
  <2>3. QED
    BY <1>3, <2>2
<1>5. Finished(other) = Len(writes) /\ Finished(c.board) = Len(writes) + 1
  BY <1>4 DEF Steady
<1>6. Len(writes) \in Nat
  BY LenProperties DEF IInv
<1>7. Finished(c.board) <= Finished(other)
  BY DEF InStep
<1>8. QED
  BY <1>5, <1>6, <1>7

\* The spill bank once the builder returns.
LEMMA SpillInStep ==
  ASSUME KeepStep, IInv, EventsWellCounted, Steady, at = "ready",
         NEW c, Box(c), Fed(c), InStep(c)
  PROVE  /\ OncePerBoard(SpillWith(c))
         /\ Moved(c) = <<>> => SpillWith(c) = spill
         /\ Moved(c) # <<>> =>
              /\ Len(Moved(c)) = 1
              /\ c.board \in Boards \ BoardsOf(spill)
              /\ BoardsOf(SpillWith(c)) = BoardsOf(spill) \cup {c.board}
<1>1. spill \in Seq(Piece) /\ OncePerBoard(spill) /\ c.board \in Boards
  BY DEF IInv, TypeOK, Piece, Steady, Fed
<1>2. CASE ~Completes(builders[c.board], c)
  <2>1. Moved(c) = <<>>
    BY <1>2 DEF Moved
  <2>2. SpillWith(c) = spill
    BY <1>1, <2>1, ConcatEmptySeq DEF SpillWith
  <2>3. QED
    BY <1>1, <2>1, <2>2
<1>3. CASE Completes(builders[c.board], c)
  <2> DEFINE x == [board |-> c.board, bank |-> Filled(builders[c.board], c)]
  <2>1. Moved(c) = <<x>>
    BY <1>3 DEF Moved
  <2>2. x \in Piece
    <3>1. builders[c.board] \in Bank /\ ~MultipleSpills(builders[c.board], c)
      BY ThrownCases DEF Fed, IInv, TypeOK
    <3>2. QED
      BY <1>1, <1>3, <3>1, FilledInBank DEF Piece
  <2>3. x.board = c.board
    OBVIOUS
  <2>4. c.board \notin BoardsOf(spill)
    BY <1>1, <1>3, NotTwice
  <2> HIDE DEF x
  <2>5. Moved(c) # <<>> /\ Len(Moved(c)) = 1 /\ SpillWith(c) = spill \o <<x>>
    BY <2>1 DEF SpillWith
  <2>6. QED
    BY <1>1, <2>2, <2>3, <2>4, <2>5, OneMorePiece
<1>4. QED
  BY <1>2, <1>3

\* When all fragments are there, there is one of every board, and the last one
\* came with this call.
LEMMA AllInStep ==
  ASSUME KeepStep, BoardsCountable, IInv, EventsWellCounted, Steady,
         at = "ready", NEW c, Box(c), Fed(c), InStep(c)
  PROVE  AllFragments(c) <=> BoardsOf(SpillWith(c)) = Boards
<1>1. /\ CountWith(c) = Len(SpillWith(c)) /\ CountWith(c) \in 0..Cardinality(Boards)
      /\ SpillWith(c) \in Seq(Piece) /\ OncePerBoard(SpillWith(c))
  BY CountAfter, MovedPiece, SpillInStep
<1>2. AllFragments(c) => BoardsOf(SpillWith(c)) = Boards
  BY <1>1, OneOfEach DEF AllFragments
<1>3. ASSUME BoardsOf(SpillWith(c)) = Boards PROVE AllFragments(c)
  <2>1. Cardinality(Boards) <= Len(SpillWith(c))
    BY <1>1, <1>3, AllNeedMany
  <2>2. Cardinality(Boards) \in Nat
    BY BoardsAssumption, FS_CardinalityType
  <2>3. QED
    BY <1>1, <2>1, <2>2 DEF AllFragments
<1>4. QED
  BY <1>2, <1>3

\* The fragments of a board are as many after a call that returns, or one more.
LEMMA FinishedAfter ==
  ASSUME KeepStep, IInv, EventsWellCounted, Steady,
         NEW c, Box(c), InStep(c), Returns(c), NEW d \in Boards
  PROVE  /\ IsFiniteSet(Places(d)')
         /\ Finished(d)' =
              Len(writes) + IF d \in BoardsOf(SpillWith(c)) THEN 1 ELSE 0
<1> DEFINE added == Completes(builders[c.board], c)
<1>1. /\ at = "ready" /\ Fed(c) /\ c.board \in Boards /\ Len(writes) \in Nat
      /\ added <=> Moved(c) # <<>>
  BY RowsAre DEF Returns, Gather, Write, Fed, Moved
<1>2. /\ IsFiniteSet(Places(d)) /\ Finished(d) = Cardinality(Places(d))
      /\ Finished(d) = Len(writes) + IF d \in BoardsOf(spill) THEN 1 ELSE 0
  BY <1>1 DEF Steady, Finished
<1>3. Finished(d)' = Cardinality(Places(d)')
  BY DEF Finished
<1>4. PICK n, m : n = Len(writes) + 1 /\ m = Len(spill) + 1
  OBVIOUS
<1>5. Places(d)' = IF added /\ d = c.board
                   THEN Places(d) \cup {<<n, m>>} ELSE Places(d)
  BY <1>4, PlacesAfter
<1>6. <<n, m>> \notin Places(d)
  <2>1. \A p \in Places(d) :
          p[1] \in Nat /\ p[2] \in Nat /\ (p[1] < n \/ (p[1] = n /\ p[2] < m))
    BY <1>4, PlacesAfter
  <2>2. QED
    BY <2>1
<1>7. CASE ~added
  <2>1. SpillWith(c) = spill
    BY <1>1, <1>7, SpillInStep
  <2>2. QED
    BY <1>2, <1>3, <1>5, <1>7, <2>1
<1>8. CASE added /\ d = c.board
  <2>1. d \in BoardsOf(SpillWith(c)) /\ d \notin BoardsOf(spill)
    BY <1>1, <1>8, SpillInStep
  <2>2. Cardinality(Places(d)') = Cardinality(Places(d)) + 1 /\ IsFiniteSet(Places(d)')
    <3>1. Places(d)' = Places(d) \cup {<<n, m>>}
      BY <1>5, <1>8
    <3>2. /\ IsFiniteSet(Places(d) \cup {<<n, m>>})
          /\ Cardinality(Places(d) \cup {<<n, m>>}) = Cardinality(Places(d)) + 1
      BY <1>2, <1>6, FS_AddElement
    <3>3. QED
      BY <3>1, <3>2
  <2>3. Finished(d) = Len(writes)
    BY <1>1, <1>2, <2>1
  <2>4. Finished(d)' = Len(writes) + 1
    BY <1>2, <1>3, <2>2, <2>3
  <2>5. QED
    BY <2>1, <2>2, <2>4
<1>9. CASE added /\ d # c.board
  <2>1. d \in BoardsOf(SpillWith(c)) <=> d \in BoardsOf(spill)
    BY <1>1, <1>9, SpillInStep
  <2>2. QED
    BY <1>2, <1>3, <1>5, <1>9, <2>1
<1>10. QED
  BY <1>7, <1>8, <1>9

\* What a call of process() does when the boards keep step.
LEMMA SteadyAfterCall ==
  ASSUME KeepStep, BoardsCountable, IInv, EventsWellCounted, Steady,
         NEW c, Box(c), InStep(c), Returns(c) \/ Fails(c)
  PROVE  Steady'
<1>1. CASE Corrupt(c)
  BY <1>1 DEF Corrupt, history, Steady
<1>2. CASE Gather(c)
  <2>1. /\ at = "ready" /\ Fed(c) /\ spill' = SpillWith(c) /\ UNCHANGED <<at, writes>>
    BY <1>2 DEF Gather, Fed, history
  <2>2. OncePerBoard(spill')
    BY <2>1, SpillInStep
  <2>3. ASSUME NEW b \in Boards
        PROVE  /\ IsFiniteSet(Places(b)')
               /\ Finished(b)' = Len(writes') + IF b \in BoardsOf(spill') THEN 1 ELSE 0
    BY <1>2, <2>1, FinishedAfter DEF Returns
  <2>4. /\ \A i \in DOMAIN writes' : OncePerBoard(writes'[i].fragments)
        /\ \A i \in DOMAIN writes' : writes'[i].ok
    BY <2>1 DEF Steady
  <2>5. QED
    BY <2>2, <2>3, <2>4 DEF Steady, BoardsOf
<1>3. CASE Write(c) \/ WriteFails(c)
  <2>1. PICK ok \in BOOLEAN :
          /\ at = "ready" /\ Fed(c) /\ AllFragments(c) /\ Recorded(c, ok)
          /\ \/ ok = TRUE /\ spill' = <<>> /\ Returns(c)
             \/ at' # "ready"
    BY <1>3 DEF Write, WriteFails, Fed, Returns
  <2>2. /\ SpillWith(c) \in Seq(Piece) /\ OncePerBoard(SpillWith(c))
        /\ BoardsOf(SpillWith(c)) = Boards
    BY <2>1, MovedPiece, SpillInStep, AllInStep
  <2>3. /\ writes \in Seq(Call) /\ writes' \in Seq(Call)
        /\ Len(writes') = Len(writes) + 1 /\ Len(writes) \in Nat
        /\ \A i \in 1..Len(writes) : writes'[i] = writes[i]
        /\ writes'[Len(writes) + 1].fragments = SpillWith(c)
        /\ writes'[Len(writes) + 1].ok = ok
    <3>1. writes \in Seq(Call)
      BY DEF IInv
    <3>2. QED
      BY <2>1, <3>1, RecordedCall
  <2>4. /\ DOMAIN writes = 1..Len(writes) /\ DOMAIN writes' = 1..Len(writes) + 1
        /\ 1..Len(writes) + 1 = 1..Len(writes) \cup {Len(writes) + 1}
    BY <2>3, LenProperties
  <2>5. \A i \in DOMAIN writes' : OncePerBoard(writes'[i].fragments)
    BY <2>2, <2>3, <2>4 DEF Steady
  <2>6. ASSUME at' = "ready"
        PROVE  /\ OncePerBoard(spill')
               /\ \A i \in DOMAIN writes' : writes'[i].ok
    <3>1. spill' = <<>> /\ ok = TRUE
      BY <2>1, <2>6
    <3>2. \A i \in 1..Len(writes) : writes[i].ok
      BY <2>1, <2>4 DEF Steady
    <3>3. ASSUME NEW i \in DOMAIN writes' PROVE writes'[i].ok
      <4>1. CASE i \in 1..Len(writes)
        <5>1. writes'[i] = writes[i]
          BY <2>3, <4>1
        <5>2. QED
          BY <3>2, <4>1, <5>1, Zenon
      <4>2. CASE i = Len(writes) + 1
        <5>1. writes'[i].ok = TRUE
          BY <2>3, <3>1, <4>2, Zenon
        <5>2. QED
          BY <5>1
      <4>3. QED
        BY <2>4, <4>1, <4>2
    <3>4. OncePerBoard(spill')
      BY <3>1 DEF OncePerBoard
    <3>5. QED
      BY <3>3, <3>4
  <2>7. ASSUME at' = "ready", NEW b \in Boards
        PROVE  /\ IsFiniteSet(Places(b)')
               /\ Finished(b)' = Len(writes') + IF b \in BoardsOf(spill') THEN 1 ELSE 0
    <3>1. spill' = <<>> /\ Returns(c)
      BY <2>1, <2>7
    <3>2. /\ IsFiniteSet(Places(b)')
          /\ Finished(b)' = Len(writes) + 1
      BY <2>2, <3>1, FinishedAfter
    <3>3. BoardsOf(spill') = {}
      BY <3>1 DEF BoardsOf
    <3>4. QED
      BY <2>3, <3>2, <3>3
  <2>8. QED
    BY <2>5, <2>6, <2>7 DEF Steady, BoardsOf
<1>4. QED
  BY <1>1, <1>2, <1>3 DEF Returns, Fails

\* The boards keep step in every step, if their skew is none.
LEMMA NextKeepsSteady ==
  ASSUME KeepStep, BoardsCountable
  PROVE  IInv /\ EventsWellCounted /\ Steady /\ [Next]_vars => Steady'
<1> SUFFICES ASSUME IInv, EventsWellCounted, Steady, [Next]_vars PROVE Steady'
  OBVIOUS
<1>1. CASE Begin \/ End
  <2>1. writes' = <<>> /\ DOMAIN writes' = {} /\ Len(writes') = 0 /\ spill' = <<>>
    BY <1>1 DEF Begin, Open, NewBanks, End, Close, Dismissed
  <2>2. BoardsOf(spill)' = {} /\ OncePerBoard(spill)'
    BY <2>1 DEF BoardsOf, OncePerBoard
  <2>3. ASSUME NEW b \in Boards
        PROVE  IsFiniteSet(Places(b)') /\ Finished(b)' = 0
    BY <2>1, NoPlaces
  <2>4. QED
    BY <2>1, <2>2, <2>3 DEF Steady
<1>2. ASSUME NEW b \in Boards, NEW n \in Sizes, Deliver(b, n) PROVE Steady'
  <2>1. PICK c \in {Input(b, n)} : InStep(c) /\ (Returns(c) \/ Fails(c))
    BY <1>2 DEF Deliver
  <2>2. Box(c)
    BY <1>2, <2>1, InputBox DEF Deliver
  <2>3. QED
    BY <2>1, <2>2, SteadyAfterCall
<1>3. ASSUME NEW id \in Ids \ Boards, DeliverStranger(id) PROVE Steady'
  <2>1. at' # "ready" /\ UNCHANGED writes
    BY <1>3 DEF DeliverStranger, Stranger, history
  <2>2. QED
    BY <2>1 DEF Steady
<1>4. CASE UNCHANGED vars
  <2>1. UNCHANGED <<at, spill, writes>>
    BY <1>4 DEF vars, workerVars, history
  <2>2. \A b : Places(b)' = Places(b) /\ Finished(b)' = Finished(b)
    BY <2>1 DEF Places, Row, Finished
  <2>3. QED
    BY <2>1, <2>2 DEF Steady, BoardsOf
<1>5. QED
  BY <1>1, <1>2, <1>3, <1>4 DEF Next

\* The inductive invariant of boards that keep step.
StepInv == IInv /\ EventsWellCounted /\ Steady

\* It holds at first.
LEMMA InitSteady == Init => StepInv
<1> SUFFICES ASSUME Init PROVE StepInv
  OBVIOUS
<1>1. /\ IInv /\ at = "closed" /\ writes = <<>> /\ spill = <<>> /\ n_fragments = 0
  BY InitTypes DEF Init, WorkerInit
<1>2. QED
  BY <1>1 DEF StepInv, EventsWellCounted, Steady

\* It holds in every state.
LEMMA StepInvHolds ==
  ASSUME KeepStep, BoardsCountable, FreshCounts = {0}
  PROVE  Spec => []StepInv
<1>1. StepInv /\ [Next]_vars => StepInv'
  BY NextKeepsTypes, NextKeepsCounts, NextKeepsSteady DEF StepInv
<1>2. QED
  BY <1>1, InitSteady, PTL DEF Spec

\* Then an event has a fragment of every board.
LEMMA WholeEvent ==
  ASSUME StepInv, NEW i \in DOMAIN writes
  PROVE  BoardsOf(writes[i].fragments) = Boards
<1>1. writes[i] \in Call
  BY DEF StepInv, IInv
<1>2. writes[i].fragments \in Seq(Piece)
  BY <1>1 DEF Call
<1>3. /\ OncePerBoard(writes[i].fragments)
      /\ Len(writes[i].fragments) = Cardinality(Boards)
  BY DEF StepInv, Steady, EventsWellCounted
<1>4. QED
  BY <1>2, <1>3, OneOfEach

(***************************************************************************)
(* "If all fragments are completed, write the data" (BMDWorkers.cpp:212):  *)
(* with boards that never finish a spill before all have finished the one  *)
(* before, every event has a fragment of every board, whatever else the    *)
(* boards send and however it is cut into containers.                      *)
(***************************************************************************)
THEOREM EventsWhole ==
  ASSUME KeepStep, BoardsCountable, FreshCounts = {0}
  PROVE  Spec => []EventsHoldAllBoards
<1>1. StepInv => EventsHoldAllBoards
  BY WholeEvent DEF EventsHoldAllBoards, BoardsOf
<1>2. QED
  BY <1>1, StepInvHolds, PTL

-----------------------------------------------------------------------------
(***************************************************************************)
(* An event is one spill of the beam.                                      *)
(***************************************************************************)
\* The fragments of q are the i-th spills of their boards.
AllAre(q, i) ==
  \A j \in DOMAIN q : q[j].bank.words = Fragments(streams[q[j].board])[i]

\* The i-th event has the i-th spills, and the next are gathered.
OneSpill ==
  /\ \A i \in DOMAIN writes : AllAre(writes[i].fragments, i)
  /\ at = "ready" => AllAre(spill, Len(writes) + 1)

\* The fragment that a call adds belongs to those that wait.
LEMMA SpillBelongs ==
  ASSUME KeepStep, IInv, EventsWellCounted, Steady, SpillsInv, OneSpill,
         at = "ready", NEW b \in Boards, NEW n \in Sizes,
         pos[b] + n <= Len(streams[b]), NEW c, c = Input(b, n),
         Fed(c), InStep(c)
  PROVE  AllAre(SpillWith(c), Len(writes) + 1)
<1>1. Box(c) /\ c.board = b
  BY InputBox
<1>2. PICK s, p, k : s = streams[b] /\ p = pos[b] /\ k = builders[b]
  OBVIOUS
<1>3. CASE ~Completes(k, c)
  <2>1. Moved(c) = <<>>
    BY <1>1, <1>2, <1>3 DEF Moved
  <2>2. SpillWith(c) = spill
    BY <1>1, <2>1, SpillInStep
  <2>3. QED
    BY <2>2 DEF OneSpill
<1>4. CASE Completes(k, c)
  <2> DEFINE x == [board |-> b, bank |-> Filled(k, c)]
             old == Fragments(SubSeq(s, 1, p))
             new == Fragments(SubSeq(s, 1, p + n))
  <2>1. SpillWith(c) = spill \o <<x>>
    BY <1>1, <1>2, <1>4 DEF SpillWith, Moved
  <2>2. /\ s \in Seq(Word) /\ p \in Nat /\ n \in Nat /\ n > 0 /\ p + n <= Len(s)
    BY <1>2, StreamsAssumption, SizesAssumption DEF IInv, TypeOK
  <2>3. Cut(s, p, n, c)
    <3>1. c = Scanned(b, SubSeq(s, p + 1, p + n))
      BY <1>2 DEF Input
    <3>2. QED
      BY <2>2, <3>1, CutOfInput
  <2>4. ~MultipleSpills(k, c) /\ Expected(k, c)
    BY <1>1, <1>2, ThrownCases DEF Fed
  <2>5. Firm(k, s, p) /\ Len(old) = Len(writes)
    <3>1. Intact(b)
      BY DEF SpillsInv
    <3>2. b \notin BoardsOf(spill)
      BY <1>1, <1>2, <1>4, NotTwice
    <3>3. Finished(b) = Len(writes)
      BY <3>2, RowsAre DEF Steady
    <3>4. QED
      BY <1>2, <3>1, <3>3 DEF Intact
  <2>6. /\ Len(old) \in Nat /\ Len(new) = Len(old) + 1
        /\ new[Len(old) + 1] = Filled(k, c).words
    BY <1>4, <2>2, <2>3, <2>4, <2>5, DeliversLast
  <2>7. \A i \in 1..Len(new) : new[i] = Fragments(s)[i]
    BY <2>2, FragmentsArePrefix
  <2> HIDE DEF old, new
  <2>8. Filled(k, c).words = Fragments(s)[Len(writes) + 1]
    BY <2>5, <2>6, <2>7
  <2>9. x.board = b /\ x.bank.words = Fragments(streams[b])[Len(writes) + 1]
    BY <1>2, <2>8
  <2> HIDE DEF x
  <2>10. /\ DOMAIN (spill \o <<x>>) = 1 .. Len(spill) + 1 /\ Len(spill) \in Nat
         /\ DOMAIN spill = 1..Len(spill)
         /\ \A j \in 1..Len(spill) : (spill \o <<x>>)[j] = spill[j]
         /\ (spill \o <<x>>)[Len(spill) + 1] = x
    <3>1. PICK S : S = Piece \cup {x}
      OBVIOUS
    <3>2. spill \in Seq(Piece)
      BY DEF IInv, TypeOK, Piece
    <3>3. spill \in Seq(S) /\ x \in S
      BY <3>1, <3>2
    <3>4. spill \o <<x>> = Append(spill, x)
      BY <3>3, AppendIsConcat
    <3>5. /\ Append(spill, x) \in Seq(S) /\ Len(Append(spill, x)) = Len(spill) + 1
          /\ \A j \in 1..Len(spill) : Append(spill, x)[j] = spill[j]
          /\ Append(spill, x)[Len(spill) + 1] = x
      BY <3>3, AppendProperties
    <3>6. QED
      BY <3>3, <3>4, <3>5, LenProperties
  <2>11. AllAre(spill, Len(writes) + 1)
    BY DEF OneSpill
  <2>12. ASSUME NEW j \in 1 .. Len(spill) + 1
         PROVE  (spill \o <<x>>)[j].bank.words
                  = Fragments(streams[(spill \o <<x>>)[j].board])[Len(writes) + 1]
    <3>1. CASE j \in 1..Len(spill)
      BY <2>10, <2>11, <3>1 DEF AllAre
    <3>2. CASE j = Len(spill) + 1
      BY <2>9, <2>10, <3>2
    <3>3. QED
      BY <2>10, <3>1, <3>2
  <2>13. QED
    BY <2>1, <2>10, <2>12 DEF AllAre
<1>5. QED
  BY <1>3, <1>4

\* Every step leaves the events single spills.
LEMMA NextKeepsOneSpill ==
  ASSUME KeepStep
  PROVE  IInv /\ EventsWellCounted /\ Steady /\ SpillsInv /\ OneSpill /\ [Next]_vars
           => OneSpill'
<1> SUFFICES ASSUME IInv, EventsWellCounted, Steady, SpillsInv, OneSpill, [Next]_vars
             PROVE  OneSpill'
  OBVIOUS
<1>1. CASE Begin \/ End
  <2>1. DOMAIN writes' = {} /\ DOMAIN spill' = {}
    BY <1>1 DEF Begin, Open, NewBanks, End, Close, Dismissed
  <2>2. QED
    BY <2>1 DEF OneSpill, AllAre
<1>2. ASSUME NEW b \in Boards, NEW n \in Sizes, Deliver(b, n) PROVE OneSpill'
  <2>1. PICK c \in {Input(b, n)} :
          /\ at = "ready" /\ pos[b] + n <= Len(streams[b])
          /\ InStep(c) /\ (Returns(c) \/ Fails(c)) /\ UNCHANGED streams
    BY <1>2 DEF Deliver
  <2>2. Box(c)
    BY <2>1, InputBox
  <2>3. CASE Corrupt(c)
    BY <2>1, <2>3 DEF Corrupt, history, OneSpill, AllAre
  <2>4. CASE ~Corrupt(c)
    <3>1. AllAre(SpillWith(c), Len(writes) + 1)
      BY <2>1, <2>4, SpillBelongs DEF Returns, Fails, Gather, Write, WriteFails
    <3>2. CASE Gather(c)
      BY <2>1, <3>1, <3>2 DEF Gather, history, OneSpill, AllAre
    <3>3. CASE Write(c) \/ WriteFails(c)
      <4>1. PICK ok \in BOOLEAN :
              /\ Fed(c) /\ Recorded(c, ok)
              /\ spill' = <<>> \/ at' # "ready"
        BY <3>3 DEF Write, WriteFails
      <4>2. /\ writes' \in Seq(Call)
            /\ Len(writes') = Len(writes) + 1 /\ Len(writes) \in Nat
            /\ \A i \in 1..Len(writes) : writes'[i] = writes[i]
            /\ writes'[Len(writes) + 1].fragments = SpillWith(c)
        BY <2>2, <4>1, RecordedCall
      <4>3. \A i \in 1..Len(writes) : AllAre(writes[i].fragments, i)
        BY LenProperties DEF OneSpill, IInv
      <4>4. ASSUME NEW i \in 1 .. Len(writes) + 1
            PROVE  AllAre(writes'[i].fragments, i)
        <5>1. CASE i \in 1..Len(writes)
          BY <4>2, <4>3, <5>1
        <5>2. CASE i = Len(writes) + 1
          BY <3>1, <4>2, <5>2
        <5>3. QED
          BY <4>2, <5>1, <5>2
      <4>5. DOMAIN writes' = 1 .. Len(writes) + 1
        BY <4>2, LenProperties
      <4>6. ASSUME NEW i \in DOMAIN writes' PROVE AllAre(writes[i].fragments, i)'
        <5>1. AllAre(writes'[i].fragments, i)
          BY <4>4, <4>5
        <5>2. PICK q : q = writes'[i].fragments
          OBVIOUS
        <5>3. \A j \in DOMAIN q : q[j].bank.words = Fragments(streams'[q[j].board])[i]
          BY <2>1, <5>1, <5>2 DEF AllAre
        <5>4. QED
          BY <5>2, <5>3 DEF AllAre
      <4>7. at' = "ready" => AllAre(spill, Len(writes) + 1)'
        BY <4>1 DEF AllAre
      <4>8. QED
        BY <4>6, <4>7 DEF OneSpill
    <3>4. QED
      BY <2>1, <2>4, <3>2, <3>3 DEF Returns, Fails
  <2>5. QED
    BY <2>3, <2>4
<1>3. ASSUME NEW id \in Ids \ Boards, DeliverStranger(id) PROVE OneSpill'
  BY <1>3 DEF DeliverStranger, Stranger, history, boardVars, OneSpill, AllAre
<1>4. CASE UNCHANGED vars
  BY <1>4 DEF vars, workerVars, boardVars, history, OneSpill, AllAre
<1>5. QED
  BY <1>1, <1>2, <1>3, <1>4 DEF Next

(***************************************************************************)
(* With boards that keep step, the k-th event of a run is the k-th spill   *)
(* of every board, word for word, and nothing else, however the streams    *)
(* are cut into containers and in whatever order these come.               *)
(***************************************************************************)
THEOREM EventsAreSpills ==
  ASSUME KeepStep, BoardsCountable, FreshCounts = {0}
  PROVE  Spec => []EventIsOneSpill
<1>1. Init => OneSpill
  BY DEF Init, WorkerInit, OneSpill
<1>2. StepInv /\ SpillsInv /\ OneSpill /\ [Next]_vars => OneSpill'
  BY NextKeepsOneSpill DEF StepInv
<1>3. StepInv /\ OneSpill => EventIsOneSpill
  <2> SUFFICES ASSUME StepInv, OneSpill, NEW i \in DOMAIN writes
               PROVE  {<<f.board, f.bank.words>> : f \in Range(writes[i].fragments)}
                        = {<<b, Fragments(streams[b])[i]>> : b \in Boards}
    BY DEF EventIsOneSpill
  <2>1. PICK q : q = writes[i].fragments
    OBVIOUS
  <2>2. BoardsOf(q) = Boards
    BY <2>1, WholeEvent
  <2>3. \A j \in DOMAIN q : q[j].bank.words = Fragments(streams[q[j].board])[i]
    BY <2>1 DEF OneSpill, AllAre
  <2>4. Range(q) = {q[j] : j \in DOMAIN q}
    BY DEF Range
  <2>5. {<<f.board, f.bank.words>> : f \in Range(q)}
          = {<<q[j].board, q[j].bank.words>> : j \in DOMAIN q}
    BY <2>4
  <2>6. {<<q[j].board, q[j].bank.words>> : j \in DOMAIN q}
          = {<<q[j].board, Fragments(streams[q[j].board])[i]>> : j \in DOMAIN q}
    BY <2>3
  <2>7. {<<q[j].board, Fragments(streams[q[j].board])[i]>> : j \in DOMAIN q}
          = {<<b, Fragments(streams[b])[i]>> : b \in BoardsOf(q)}
    BY DEF BoardsOf
  <2>8. QED
    BY <2>1, <2>2, <2>5, <2>6, <2>7
<1>4. Spec => []OneSpill
  BY <1>1, <1>2, StepInvHolds, SpillsInvHolds, PTL DEF Spec
<1>5. QED
  BY <1>3, <1>4, StepInvHolds, PTL

-----------------------------------------------------------------------------
(***************************************************************************)
(* The event builder implements SpillEvents.                               *)
(***************************************************************************)
\* A run that starts, and a worker that is not ready.
LEMMA RunStarts ==
  ASSUME Begin
  PROVE  Abstract!Start
<1>1. /\ at = "closed" /\ at' = "ready" /\ spill' = <<>> /\ writes' = <<>>
      /\ DOMAIN spill' = {} /\ DOMAIN writes' = {}
  BY DEF Begin, Open, NewBanks
<1>2. Gathered = {} /\ Published = 0 /\ Gathered' = {}
  BY <1>1 DEF Gathered, Published
<1>3. Published' = 0
  <2>1. {i \in DOMAIN writes' : writes'[i].ok} = {}
    BY <1>1
  <2>2. QED
    BY <1>1, <2>1, FS_EmptySet DEF Published
<1>4. QED
  BY <1>1, <1>2, <1>3 DEF Abstract!Start

\* A step after which the worker is not ready ends the run, if there is one.
LEMMA RunStops ==
  ASSUME at' # "ready"
  PROVE  Abstract!Stop \/ UNCHANGED Abstract!vars
<1>1. Gathered' = {} /\ Published' = 0
  BY DEF Gathered, Published
<1>2. CASE at = "ready"
  BY <1>1, <1>2 DEF Abstract!Stop
<1>3. CASE at # "ready"
  <2>1. Gathered = {} /\ Published = 0
    BY <1>3 DEF Gathered, Published
  <2>2. QED
    BY <1>1, <1>3, <2>1 DEF Abstract!vars
<1>4. QED
  BY <1>2, <1>3

\* A call that leaves an event unfinished.
LEMMA GatherContributes ==
  ASSUME KeepStep, BoardsCountable, StepInv,
         NEW c, Box(c), InStep(c), Gather(c)
  PROVE  (\E b \in Boards : Abstract!Contribute(b)) \/ UNCHANGED Abstract!vars
<1>1. /\ at = "ready" /\ at' = "ready" /\ Fed(c) /\ ~AllFragments(c)
      /\ spill' = SpillWith(c) /\ writes' = writes
  BY DEF Gather, Fed, history
<1>2. /\ Gathered = BoardsOf(spill) /\ Gathered' = BoardsOf(SpillWith(c))
      /\ Published' = Published
  BY <1>1 DEF Gathered, Published, BoardsOf
<1>3. BoardsOf(SpillWith(c)) # Boards
  BY <1>1, AllInStep DEF StepInv
<1>4. CASE Moved(c) = <<>>
  <2>1. SpillWith(c) = spill
    BY <1>1, <1>4, SpillInStep DEF StepInv
  <2>2. QED
    BY <1>1, <1>2, <2>1 DEF Abstract!vars
<1>5. CASE Moved(c) # <<>>
  <2>1. /\ c.board \in Boards \ BoardsOf(spill)
        /\ BoardsOf(SpillWith(c)) = BoardsOf(spill) \cup {c.board}
    BY <1>1, <1>5, SpillInStep DEF StepInv
  <2>2. Abstract!Contribute(c.board)
    BY <1>1, <1>2, <1>3, <2>1 DEF Abstract!Contribute
  <2>3. QED
    BY <2>1, <2>2
<1>6. QED
  BY <1>4, <1>5

\* One more event written.
LEMMA OneMorePublished ==
  ASSUME StepInv, at = "ready", NEW c, Box(c), Fed(c), Recorded(c, TRUE),
         at' = "ready"
  PROVE  Published' = Published + 1
<1> DEFINE E == {i \in DOMAIN writes : writes[i].ok}
<1> DEFINE F == {i \in DOMAIN writes' : writes'[i].ok}
<1> DEFINE n == Len(writes) + 1
<1>1. /\ writes \in Seq(Call) /\ writes' \in Seq(Call) /\ Len(writes) \in Nat
      /\ Len(writes') = n /\ writes'[n].ok = TRUE
      /\ \A i \in 1..Len(writes) : writes'[i] = writes[i]
  BY RecordedCall DEF StepInv, IInv
<1>2. DOMAIN writes = 1..Len(writes) /\ DOMAIN writes' = 1..n
  BY <1>1, LenProperties
<1>3. 1..n = 1..Len(writes) \cup {n} /\ n \notin 1..Len(writes)
  BY <1>1
<1>4. \A i \in 1..Len(writes) : writes'[i].ok = writes[i].ok
  BY <1>1, Zenon
<1>5. writes'[n].ok
  BY <1>1
<1> HIDE DEF n
<1>6. F = E \cup {n} /\ n \notin E
  BY <1>2, <1>3, <1>4, <1>5, Zenon
<1>7. IsFiniteSet(E)
  <2>1. IsFiniteSet(1..Len(writes))
    BY <1>1, FS_Interval
  <2>2. E \subseteq 1..Len(writes)
    BY <1>2
  <2> HIDE DEF E
  <2>3. QED
    BY <2>1, <2>2, FS_Subset
<1>8. Cardinality(F) = Cardinality(E) + 1
  <2> HIDE DEF E, F
  <2>1. QED
    BY <1>6, <1>7, FS_AddElement
<1>9. Published = Cardinality(E) /\ Published' = Cardinality(F)
  BY DEF Published
<1>10. QED
  BY <1>8, <1>9

\* A call that writes an event.
LEMMA WritePublishes ==
  ASSUME KeepStep, BoardsCountable, StepInv,
         NEW c, Box(c), InStep(c), Write(c)
  PROVE  \E b \in Boards : Abstract!Publish(b)
<1>1. /\ at = "ready" /\ at' = "ready" /\ Fed(c) /\ AllFragments(c)
      /\ Recorded(c, TRUE) /\ DOMAIN spill' = {}
  <2>1. at = "ready" /\ at' = at /\ spill' = <<>>
    BY DEF Write, Fed
  <2>2. Fed(c) /\ AllFragments(c) /\ Recorded(c, TRUE)
    BY DEF Write
  <2>3. DOMAIN spill' = {}
    BY <2>1
  <2>4. QED
    BY <2>1, <2>2, <2>3
<1>2. Gathered = BoardsOf(spill) /\ Gathered' = {}
  BY <1>1 DEF Gathered, BoardsOf
<1>3. BoardsOf(SpillWith(c)) = Boards
  BY <1>1, AllInStep DEF StepInv
<1>4. Moved(c) # <<>>
  <2> SUFFICES ASSUME Moved(c) = <<>> PROVE FALSE
    OBVIOUS
  <2>1. SpillWith(c) = spill
    BY <1>1, SpillInStep DEF StepInv
  <2>2. CountWith(c) = Len(spill) /\ CountWith(c) = Cardinality(Boards)
    BY <1>1, <2>1, CountAfter DEF StepInv, AllFragments
  <2>3. Len(spill) < Cardinality(Boards) /\ Cardinality(Boards) \in Nat
    BY <1>1, BoardsAssumption, FS_CardinalityType DEF StepInv, EventsWellCounted
  <2>4. QED
    BY <2>2, <2>3
<1>5. /\ c.board \in Boards \ BoardsOf(spill)
      /\ BoardsOf(SpillWith(c)) = BoardsOf(spill) \cup {c.board}
  BY <1>1, <1>4, SpillInStep DEF StepInv
<1>6. Published' = Published + 1
  BY <1>1, OneMorePublished
<1>7. Abstract!Publish(c.board)
  BY <1>1, <1>2, <1>3, <1>5, <1>6 DEF Abstract!Publish
<1>8. QED
  BY <1>5, <1>7

\* Every step is one of SpillEvents, or none.
LEMMA StepGathers ==
  ASSUME KeepStep, BoardsCountable
  PROVE  StepInv /\ [Next]_vars => [Abstract!Next]_(Abstract!vars)
<1> SUFFICES ASSUME StepInv, [Next]_vars
             PROVE  Abstract!Next \/ UNCHANGED Abstract!vars
  OBVIOUS
<1>1. CASE Begin
  BY <1>1, RunStarts DEF Abstract!Next
<1>2. CASE End
  <2>1. at' # "ready"
    BY <1>2 DEF End, Close, Dismissed
  <2>2. QED
    BY <2>1, RunStops DEF Abstract!Next
<1>3. ASSUME NEW b \in Boards, NEW n \in Sizes, Deliver(b, n)
      PROVE  Abstract!Next \/ UNCHANGED Abstract!vars
  <2>1. PICK c \in {Input(b, n)} : InStep(c) /\ (Returns(c) \/ Fails(c))
    BY <1>3 DEF Deliver
  <2>2. Box(c)
    BY <1>3, <2>1, InputBox DEF Deliver, StepInv
  <2>3. CASE Gather(c)
    BY <2>1, <2>2, <2>3, GatherContributes DEF Abstract!Next
  <2>4. CASE Write(c)
    BY <2>1, <2>2, <2>4, WritePublishes DEF Abstract!Next
  <2>5. CASE Fails(c)
    <3>1. at' # "ready"
      BY <2>5 DEF Fails, WriteFails, Corrupt
    <3>2. QED
      BY <3>1, RunStops DEF Abstract!Next
  <2>6. QED
    BY <2>1, <2>3, <2>4, <2>5 DEF Returns
<1>4. ASSUME NEW id \in Ids \ Boards, DeliverStranger(id)
      PROVE  Abstract!Next \/ UNCHANGED Abstract!vars
  <2>1. at' # "ready"
    BY <1>4 DEF DeliverStranger, Stranger
  <2>2. QED
    BY <2>1, RunStops DEF Abstract!Next
<1>5. CASE UNCHANGED vars
  <2>1. UNCHANGED <<at, spill, writes>>
    BY <1>5 DEF vars, workerVars, history
  <2>2. QED
    BY <2>1 DEF Abstract!vars, Gathered, Published
<1>6. QED
  BY <1>1, <1>2, <1>3, <1>4, <1>5 DEF Next

(***************************************************************************)
(* The event builder, its fragment builders included, implements           *)
(* SpillEvents when the boards keep step: between init() and close() each  *)
(* board contributes one fragment, in any order, the last of them makes    *)
(* the event, and a run that ends drops what is gathered since then.       *)
(***************************************************************************)
THEOREM Implements ==
  ASSUME KeepStep, BoardsCountable, FreshCounts = {0}
  PROVE  Spec => GathersSpills
<1>1. Init => Abstract!Init
  BY DEF Init, WorkerInit, Abstract!Init, Gathered, Published
<1>2. StepInv /\ [Next]_vars => [Abstract!Next]_(Abstract!vars)
  BY StepGathers
<1>3. QED
  BY <1>1, <1>2, StepInvHolds, PTL DEF Spec, GathersSpills, Abstract!Spec

=============================================================================
