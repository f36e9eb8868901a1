----------------------- MODULE FragmentBuilder_proofs -----------------------
(***************************************************************************)
(* What comes out of a fragment builder, for streams of any length and     *)
(* content, cut into containers of any size.                               *)
(***************************************************************************)
EXTENDS FragmentBuilder, Spills_proofs

\* What is inductive.
IInv ==
  /\ TypeOK
  /\ FragmentsGenuine
  /\ raised = NoError => Sound(bank, stream, pos)
  /\ NoHeaderLost

-----------------------------------------------------------------------------
(***************************************************************************)
(* The calls.                                                              *)
(***************************************************************************)
\* What the invariant and the input tell at the start of a call.
LEMMA CallFacts ==
  ASSUME TypeOK, NEW b, NEW n \in 1..MaxChunk, pos + n <= Len(stream)
  PROVE  /\ stream \in Seq(Word) /\ pos \in Nat /\ n \in Nat
         /\ Cut(stream, pos, n, Input(b, n))
<1>1. stream \in Seq(Word) /\ pos \in Nat /\ n \in Nat /\ n > 0
  BY StreamsAssumption, MaxChunkAssumption DEF TypeOK
<1>2. Cut(stream, pos, n, Input(b, n))
  <2>1. PICK c : c = Scanned(b, SubSeq(stream, pos + 1, pos + n))
    OBVIOUS
  <2>2. Cut(stream, pos, n, c)
    BY <1>1, <2>1, CutOfInput
  <2>3. QED BY <2>1, <2>2 DEF Input
<1>3. QED BY <1>1, <1>2

\* What the invariant says of the bank.
LEMMA FirmBank == IInv /\ raised = NoError => Firm(bank, stream, pos)
BY DEF IInv, NoHeaderLost, Firm, Kept

\* The invariant survives a call that returns.
LEMMA AcceptStep ==
  ASSUME IInv, NEW b, NEW n \in 1..MaxChunk, Accept(b, n)
  PROVE  IInv'
<1>1. PICK c : c = Input(b, n)
  OBVIOUS
<1>2. /\ TypeOK /\ raised = NoError /\ Sound(bank, stream, pos)
      /\ pos + n <= Len(stream) /\ pos' = pos + n /\ bank' = BankAfter(bank, c)
      /\ out' = IF Completes(bank, c) THEN Append(out, Filled(bank, c)) ELSE out
      /\ stream' = stream /\ raised' = raised
      /\ Thrown(Board, bank, c) = NoError
  BY <1>1 DEF IInv, Accept
<1>3. /\ stream \in Seq(Word) /\ pos \in Nat /\ n \in Nat
      /\ Cut(stream, pos, n, c)
  BY <1>1, <1>2, CallFacts
<1>4. /\ ~MultipleSpills(bank, c) /\ Expected(bank, c)
      /\ Completes(bank, c) => SpillMatches(Filled(bank, c))
  BY <1>2, ThrownCases
<1>5. Firm(bank', stream, pos + n)
  <2>1. Firm(bank, stream, pos)
    BY <1>2, FirmBank
  <2>2. QED BY <1>2, <1>3, <1>4, <2>1, CallDelivers
<1>6. pos + n \in Nat /\ pos + n \in 0..Len(stream)
  BY <1>2, <1>3
<1>7. bank' \in Bank /\ MarksInside(bank')
  <2>1. Fields(bank') /\ MarksInside(bank')
    BY <1>2, <1>3, <1>5, <1>6, SoundFields DEF Firm
  <2>2. bank \in Bank
    BY <1>2 DEF TypeOK
  <2>3. bank' \in Bank
    BY <1>2, <1>4, <2>1, <2>2, BankShape
  <2>4. QED BY <2>1, <2>3
<1>8. ASSUME Completes(bank, c)
      PROVE  Filled(bank, c) \in Bank /\ GenuineIn(Filled(bank, c), stream, pos + n)
  <2>1. PICK h, t \in 1 .. pos + n : Holds(Filled(bank, c), stream, h, t)
    BY <1>2, <1>3, <1>4, <1>8, FilledHolds
  <2>2. Fields(Filled(bank, c))
    BY <1>2, <1>3, <1>6, <2>1, HoldsFields
  <2>3. bank \in Bank
    BY <1>2 DEF TypeOK
  <2>4. Filled(bank, c) \in Bank
    BY <2>2, <2>3, BankShape
  <2>5. GenuineIn(Filled(bank, c), stream, pos + n)
    BY <1>2, <1>3, <1>4, <1>6, <1>8, <2>1, HoldsGenuine
  <2>6. QED BY <2>4, <2>5
<1>9. out' \in Seq(Bank)
  <2>1. out \in Seq(Bank)
    BY <1>2 DEF TypeOK
  <2>2. QED BY <1>2, <1>8, <2>1
<1>10. TypeOK'
  <2>1. stream \in Streams
    BY <1>2 DEF TypeOK
  <2>2. QED BY <1>2, <1>6, <1>7, <1>9, <2>1 DEF TypeOK
<1>11. FragmentsGenuine'
  <2>1. \A i \in DOMAIN out : GenuineIn(out[i], stream, pos)
    BY DEF IInv, FragmentsGenuine, Genuine, GenuineIn
  <2>2. out \in Seq(Bank)
    BY <1>2 DEF TypeOK
  <2>3. ASSUME NEW i \in DOMAIN out' PROVE GenuineIn(out'[i], stream, pos + n)
    <3>1. CASE i \in DOMAIN out
      <4>1. out'[i] = out[i]
        BY <1>2, <2>2, <3>1
      <4>2. QED BY <1>3, <2>1, <3>1, <4>1, GenuineStays
    <3>2. CASE i \notin DOMAIN out
      <4>1. Completes(bank, c) /\ out' = Append(out, Filled(bank, c))
        BY <1>2, <3>2
      <4>2. out'[i] = Filled(bank, c)
        BY <2>2, <3>2, <4>1
      <4>3. QED BY <1>8, <4>1, <4>2
    <3>3. QED BY <3>1, <3>2
  <2>4. \A i \in DOMAIN out' : GenuineIn(out'[i], stream', pos')
    BY <1>2, <2>3
  <2>5. QED BY <2>4 DEF FragmentsGenuine, Genuine, GenuineIn
<1>12. NoHeaderLost'
  <2>1. Firm(bank', stream', pos')
    BY <1>2, <1>5
  <2>2. QED BY <2>1 DEF Firm, NoHeaderLost, Kept
<1>13. Sound(bank', stream', pos')
  BY <1>2, <1>5 DEF Firm
<1>14. QED BY <1>10, <1>11, <1>12, <1>13 DEF IInv, Sound

\* The invariant survives a call that throws.
LEMMA RejectStep ==
  ASSUME IInv, NEW b, NEW n \in 1..MaxChunk, Reject(b, n)
  PROVE  IInv'
<1>1. PICK c : c = Input(b, n)
  OBVIOUS
<1>2. /\ TypeOK /\ raised = NoError /\ Sound(bank, stream, pos)
      /\ pos + n <= Len(stream) /\ raised' # NoError
      /\ raised' = Thrown(Board, bank, c)
      /\ bank' = BankAfterThrow(Board, bank, c)
      /\ stream' = stream /\ pos' = pos /\ out' = out
  BY <1>1 DEF IInv, Reject
<1>3. /\ stream \in Seq(Word) /\ pos \in Nat /\ n \in Nat
      /\ Cut(stream, pos, n, c)
  BY <1>1, <1>2, CallFacts
<1>4. bank \in Bank /\ MarksInside(bank)
  BY <1>2 DEF TypeOK
<1>5. bank' \in Bank /\ MarksInside(bank')
  <2>1. CASE Thrown(Board, bank, c) = "spill data mismatch"
    <3>1. ~MultipleSpills(bank, c) /\ Completes(bank, c)
      BY <2>1, ThrownCases
    <3>2. PICK h, t \in 1 .. pos + n : Holds(Filled(bank, c), stream, h, t)
      BY <1>2, <1>3, <3>1, FilledHolds
    <3>3. pos + n \in Nat
      BY <1>3
    <3>4. Fields(Filled(bank, c)) /\ MarksInside(Filled(bank, c))
      BY <1>2, <1>3, <3>2, <3>3, HoldsFields
    <3>5. bank' = Filled(bank, c)
      BY <1>2, <2>1 DEF BankAfterThrow
    <3>6. QED BY <1>4, <3>4, <3>5, BankShape
  <2>2. CASE Thrown(Board, bank, c) # "spill data mismatch"
    BY <1>2, <1>4, <2>2 DEF BankAfterThrow
  <2>3. QED BY <2>1, <2>2
<1>6. TypeOK'
  BY <1>2, <1>5, ThrownCases DEF TypeOK
<1>7. FragmentsGenuine'
  BY <1>2 DEF IInv, FragmentsGenuine, Genuine
<1>8. NoHeaderLost'
  BY <1>2 DEF NoHeaderLost
<1>9. QED BY <1>2, <1>6, <1>7, <1>8 DEF IInv

\* At first the bank is empty.
LEMMA InitIInv == Init => IInv
<1> SUFFICES ASSUME Init PROVE IInv
  OBVIOUS
<1>1. stream \in Seq(Word) /\ pos = 0 /\ bank = EmptyBank /\ out = <<>>
  BY StreamsAssumption DEF Init
<1>2. bank \in Bank /\ MarksInside(bank)
  BY <1>1, HeaderBlockType DEF EmptyBank, Bank, MarksInside, HeaderWords
<1>3. TypeOK
  BY <1>1, <1>2 DEF Init, TypeOK
<1>4. FragmentsGenuine
  BY <1>1 DEF FragmentsGenuine
<1>5. NoHeaderLost
  BY <1>1 DEF NoHeaderLost
<1>6. QED BY <1>1, <1>3, <1>4, <1>5 DEF IInv, Sound

\* The invariant survives every step.
LEMMA NextIInv == IInv /\ [Next]_vars => IInv'
<1> SUFFICES ASSUME IInv, [Next]_vars PROVE IInv'
  OBVIOUS
<1>1. ASSUME NEW b \in Boards, NEW n \in 1..MaxChunk, Accept(b, n) PROVE IInv'
  BY <1>1, AcceptStep
<1>2. ASSUME NEW b \in Boards, NEW n \in 1..MaxChunk, Reject(b, n) PROVE IInv'
  BY <1>2, RejectStep
<1>3. CASE UNCHANGED vars
  BY <1>3 DEF vars, IInv, TypeOK, FragmentsGenuine, Genuine, NoHeaderLost
<1>4. QED BY <1>1, <1>2, <1>3 DEF Next

\* IInv holds in every reachable state of a builder.
THEOREM Invariance == Spec => []IInv
<1>1. QED BY InitIInv, NextIInv, PTL DEF Spec

\* Whatever the board sends and wherever its stream is cut, every variable of
\* the builder keeps its type, and the marks of the bank stay on its words
\* (BMDMemBank::append moves them right).
THEOREM TypeCorrect == Spec => []TypeOK
<1>1. IInv => TypeOK
  BY DEF IInv
<1>2. QED BY <1>1, Invariance, PTL

\* Whatever the board sends and wherever its stream is cut, what
\* DataFragmentBuilder::process hands to the event bank is a spill of the
\* stream, complete and unpadded, with the right size and matching ends.
THEOREM OnlyGenuine == Spec => []FragmentsGenuine
<1>1. IInv => FragmentsGenuine
  BY DEF IInv
<1>2. QED BY <1>1, Invariance, PTL

\* Until process() throws, every spill header it was given opened a fragment
\* that was handed on or is the open one: no spill is dropped in silence.
THEOREM HeadersAccounted == Spec => []NoHeaderLost
<1>1. IInv => NoHeaderLost
  BY DEF IInv
<1>2. QED BY <1>1, Invariance, PTL

-----------------------------------------------------------------------------
(***************************************************************************)
(* The order of the fragments.                                             *)
(***************************************************************************)
\* The fragments handed on stay the spills delivered, in order.
LEMMA AcceptKeepsOrder ==
  ASSUME IInv, CutIndependent, NEW b, NEW n \in 1..MaxChunk, Accept(b, n)
  PROVE  CutIndependent'
<1>1. PICK c : c = Input(b, n)
  OBVIOUS
<1>2. /\ TypeOK /\ raised = NoError /\ Sound(bank, stream, pos)
      /\ pos + n <= Len(stream) /\ pos' = pos + n
      /\ out' = IF Completes(bank, c) THEN Append(out, Filled(bank, c)) ELSE out
      /\ stream' = stream
      /\ Thrown(Board, bank, c) = NoError
  BY <1>1 DEF IInv, Accept
<1>3. /\ stream \in Seq(Word) /\ pos \in Nat /\ n \in Nat /\ out \in Seq(Bank)
      /\ Cut(stream, pos, n, c)
  BY <1>1, <1>2, CallFacts DEF TypeOK
<1>4. ~MultipleSpills(bank, c) /\ Expected(bank, c)
  BY <1>2, ThrownCases
<1> DEFINE given == Fragments(SubSeq(stream, 1, pos))
           z == Filled(bank, c)
<1>5. /\ [i \in DOMAIN out |-> out[i].words] = given
      /\ Delivered' = SubSeq(stream, 1, pos + n)
  BY <1>2 DEF CutIndependent, Delivered
<1>6. /\ Completes(bank, c) =>
           Fragments(SubSeq(stream, 1, pos + n)) = Append(given, z.words)
      /\ ~Completes(bank, c) => Fragments(SubSeq(stream, 1, pos + n)) = given
  BY <1>2, <1>3, <1>4, FirmBank, CallDelivers
<1> HIDE DEF z
<1>7. [i \in DOMAIN Append(out, z) |-> Append(out, z)[i].words]
        = Append([i \in DOMAIN out |-> out[i].words], z.words)
  BY <1>3
<1>8. [i \in DOMAIN out' |-> out'[i].words] = Fragments(SubSeq(stream, 1, pos + n))
  <2>1. CASE Completes(bank, c)
    <3>1. out' = Append(out, z)
      BY <1>2, <2>1 DEF z
    <3>2. QED BY <1>5, <1>6, <1>7, <2>1, <3>1
  <2>2. CASE ~Completes(bank, c)
    BY <1>2, <1>5, <1>6, <2>2
  <2>3. QED BY <2>1, <2>2
<1>9. QED BY <1>5, <1>8 DEF CutIndependent

(***************************************************************************)
(* Whatever the board sends and wherever its stream is cut, the fragments  *)
(* handed to the event bank are, until process() throws, exactly the       *)
(* spills of the words delivered so far, in their order.                   *)
(***************************************************************************)
THEOREM CutsHidden == Spec => []CutIndependent
<1>1. Init => CutIndependent
  <2> SUFFICES ASSUME Init PROVE CutIndependent
    OBVIOUS
  <2>1. stream \in Seq(Word) /\ pos = 0 /\ out = <<>>
    BY StreamsAssumption DEF Init
  <2>2. Fragments(SubSeq(stream, 1, 0)) = <<>>
    BY <2>1, FirmAtFirst
  <2>3. QED
    BY <2>1, <2>2 DEF CutIndependent, Delivered
<1>2. IInv /\ CutIndependent /\ [Next]_vars => CutIndependent'
  <2> SUFFICES ASSUME IInv, CutIndependent, [Next]_vars PROVE CutIndependent'
    OBVIOUS
  <2>1. ASSUME NEW b \in Boards, NEW n \in 1..MaxChunk, Accept(b, n)
        PROVE  CutIndependent'
    BY <2>1, AcceptKeepsOrder
  <2>2. ASSUME NEW b \in Boards, NEW n \in 1..MaxChunk, Reject(b, n)
        PROVE  CutIndependent'
    BY <2>2 DEF Reject, CutIndependent
  <2>3. CASE UNCHANGED vars
    BY <2>3 DEF vars, CutIndependent, Delivered
  <2>4. QED
    BY <2>1, <2>2, <2>3 DEF Next
<1>3. QED
  BY <1>1, <1>2, Invariance, PTL DEF Spec

-----------------------------------------------------------------------------
(***************************************************************************)
(* Healthy boards.                                                         *)
(***************************************************************************)
\* No container of a healthy board has two marks of a kind.
LEMMA HealthySingle ==
  ASSUME NEW s \in Seq(Word), NEW p \in Nat, NEW n \in 1..MaxChunk, NEW c,
         Cut(s, p, n, c), FarApart(s, MaxChunk), NEW k, Sound(k, s, p)
  PROVE  ~MultipleSpills(k, c)
<1>1. n \in Nat /\ MaxChunk \in Nat /\ n <= MaxChunk /\ Len(s) \in Nat
      /\ p + n <= Len(s)
  BY MaxChunkAssumption DEF Cut
<1>2. ASSUME NEW a \in 0..n-1, NEW b \in 0..n-1, a < b,
             MarkAt(s, p + a + 1), s[p + a + 1].kind = s[p + b + 1].kind
      PROVE  FALSE
  <2>1. /\ p + a + 1 \in 1..Len(s) /\ p + b + 1 \in 1..Len(s)
        /\ p + a + 1 < p + b + 1
        /\ ~((p + b + 1) - (p + a + 1) >= MaxChunk)
    BY <1>1, <1>2
  <2>2. DOMAIN s = 1..Len(s)
    BY LenProperties
  <2>3. QED
    BY <1>2, <2>1, <2>2 DEF FarApart
<1>3. ~Several(c.headers)
  <2>1. c.headers = {q \in 0..n-1 : HeaderAt(s, p + q + 1)}
    BY DEF Cut
  <2>2. ASSUME NEW a \in c.headers, NEW b \in c.headers, a # b PROVE FALSE
    <3>1. /\ a \in 0..n-1 /\ b \in 0..n-1
          /\ HeaderAt(s, p + a + 1) /\ HeaderAt(s, p + b + 1)
      BY <2>1
    <3>2. a < b \/ b < a
      BY <2>2, <3>1
    <3>3. QED
      BY <1>2, <3>1, <3>2 DEF MarkAt, HeaderAt
  <2>3. QED
    BY <2>2 DEF Several
<1>4. ~Several(c.trailers)
  <2>1. c.trailers = {q \in 0..n-1 : TrailerAt(s, p + q + 1)}
    BY DEF Cut
  <2>2. ASSUME NEW a \in c.trailers, NEW b \in c.trailers, a # b PROVE FALSE
    <3>1. /\ a \in 0..n-1 /\ b \in 0..n-1
          /\ TrailerAt(s, p + a + 1) /\ TrailerAt(s, p + b + 1)
      BY <2>1
    <3>2. a < b \/ b < a
      BY <2>2, <3>1
    <3>3. QED
      BY <1>2, <3>1, <3>2 DEF MarkAt, TrailerAt
  <2>3. QED
    BY <2>2 DEF Several
<1>5. k.trailers = {}
  BY EmptyFields DEF Sound, Opened
<1>6. QED
  BY <1>3, <1>4, <1>5 DEF MultipleSpills

\* A trailer in an empty bank's container has its header there, in front.
LEMMA HealthyWhenEmpty ==
  ASSUME NEW s \in Seq(Word), NEW p \in Nat, NEW n \in Nat, NEW c,
         Cut(s, p, n, c), TakeTurns(s), NEW k, k = EmptyBank,
         ~MultipleSpills(k, c),
         \A g \in 1..p : HeaderAt(s, g) => Kept(k, s, g, p)
  PROVE  c.trailers # {} => c.headers # {}
<1> SUFFICES ASSUME c.trailers # {}, c.headers = {} PROVE FALSE
  OBVIOUS
<1>1. PICK q \in Nat : Only(c.trailers, q)
  BY FirstMarks
<1> DEFINE t == p + q + 1
<1>2. q < n /\ TrailerAt(s, t)
  BY <1>1, TrailerIn
<1>3. p + n <= Len(s) /\ DOMAIN s = 1..Len(s) /\ Len(s) \in Nat
  BY LenProperties DEF Cut
<1>4. t \in DOMAIN s /\ t \in Nat
  BY <1>2, <1>3
<1>5. PICK h \in 1..t : IsSpill(s, h, t)
  BY <1>2, <1>4 DEF TakeTurns
<1>6. HeaderAt(s, h) /\ h < t
  BY <1>5 DEF IsSpill
<1>7. h \in 1..p
  <2>1. h \notin p + 1 .. p + n
    BY <1>6, NoMarkIn
  <2>2. QED
    BY <1>2, <1>6, <2>1
<1>8. Kept(k, s, h, p)
  BY <1>6, <1>7
<1>9. ASSUME NEW u \in 1..p, IsSpill(s, h, u) PROVE FALSE
  <2>1. h \in Nat /\ u \in Nat /\ u # t
    BY <1>7
  <2>2. QED
    BY <1>4, <1>5, <1>9, <2>1, SpillsApart
<1>10. k.words # Fragment(s, h, p)
  <2>1. h \in 1..Len(s) /\ p \in h..Len(s)
    BY <1>3, <1>7
  <2>2. Len(Fragment(s, h, p)) = p - h + 3
    BY <2>1, FragmentFacts
  <2>3. Len(k.words) = 2
    BY EmptyFields
  <2>4. p - h + 3 # 2
    BY <1>7
  <2>5. QED
    BY <2>2, <2>3, <2>4
<1>11. QED
  BY <1>8, <1>9, <1>10 DEF Kept

\* A header in the container of an open fragment has a trailer there, in front.
LEMMA HealthyWhenOpen ==
  ASSUME NEW s \in Seq(Word), NEW p \in Nat, NEW n \in Nat, NEW c,
         Cut(s, p, n, c), TakeTurns(s), NEW k, NEW h \in 1..p,
         Opened(k, s, h, p), ~MultipleSpills(k, c), c.headers # {}
  PROVE  c.trailers # {} /\ First(c.trailers) <= First(c.headers)
<1>1. PICK f \in Nat : f = First(c.headers) /\ Only(c.headers, f)
  BY FirstMarks
<1> DEFINE g == p + f + 1
<1>2. f < n /\ HeaderAt(s, g)
  BY <1>1, HeaderIn
<1>3. p + n <= Len(s) /\ DOMAIN s = 1..Len(s) /\ Len(s) \in Nat
  BY LenProperties DEF Cut
<1>4. g \in DOMAIN s /\ h \in DOMAIN s /\ h < g
  BY <1>2, <1>3
<1>5. HeaderAt(s, h) /\ PlainBetween(s, h, p)
  BY DEF Opened
<1>6. PICK t \in h..g : TrailerAt(s, t)
  BY <1>2, <1>4, <1>5 DEF TakeTurns
<1>7. t # h /\ t # g
  BY <1>2, <1>5, <1>6, KindsDiffer
<1>8. t \notin h + 1 .. p
  BY <1>5, <1>6 DEF PlainBetween, MarkAt
<1>9. t \in p + 1 .. p + n /\ t < g
  BY <1>2, <1>6, <1>7, <1>8
<1>10. c.trailers # {} /\ t = p + First(c.trailers) + 1
  BY <1>6, <1>9, LastTrailer
<1>11. First(c.trailers) \in Nat
  BY <1>10, FirstMarks
<1>12. QED
  BY <1>1, <1>9, <1>10, <1>11

\* A spill of a healthy board has a trailer that matches.
LEMMA HealthyMatches ==
  ASSUME NEW s \in Seq(Word), NEW p \in Nat, p <= Len(s), Agree(s),
         NEW h \in 1..p, NEW t \in 1..p, NEW k, Holds(k, s, h, t)
  PROVE  SpillMatches(k)
<1>1. Len(s) \in Nat /\ h \in 1..Len(s) /\ t \in 1..Len(s)
  BY LenProperties
<1>2. IsSpill(s, h, t) /\ h < t
  BY DEF Holds, IsSpill
<1>3. <<h, t>> \in SpillPlaces(s)
  BY <1>1, <1>2 DEF SpillPlaces
<1>4. /\ t - 2 > h /\ s[h].tag = s[t - 2].tag
      /\ s[h].board = s[t - 2].board
  BY <1>3 DEF Agree
<1>5. /\ First(k.headers) = 2 /\ First(k.trailers) = t - h + 2
  <2>1. 2 \in Nat /\ t - h + 2 \in Nat
    BY <1>2
  <2>2. k.headers = {2} /\ k.trailers = {t - h + 2}
    BY DEF Holds
  <2>3. QED
    BY <2>1, <2>2, OneMark
<1>6. k.words[First(k.headers) + 1] = s[h]
  <2>1. Fragment(s, h, t)[h - h + 3] = s[h]
    BY <1>1, <1>2, FragmentFacts
  <2>2. First(k.headers) + 1 = h - h + 3
    BY <1>1, <1>5
  <2>3. QED
    BY <2>1, <2>2 DEF Holds
<1>7. k.words[First(k.trailers) - 2 + 1] = s[t - 2]
  <2>1. Fragment(s, h, t)[(t - 2) - h + 3] = s[t - 2]
    <3>1. t - 2 \in h..t /\ t \in h..Len(s)
      BY <1>1, <1>2, <1>4
    <3>2. QED
      BY <1>1, <3>1, FragmentFacts
  <2>2. First(k.trailers) - 2 + 1 = (t - 2) - h + 3
    BY <1>1, <1>5
  <2>3. QED
    BY <2>1, <2>2 DEF Holds
<1>8. QED
  BY <1>4, <1>6, <1>7 DEF SpillMatches

\* What a call with the data of a healthy board may throw.
LEMMA HealthyCall ==
  ASSUME NEW s \in Seq(Word), NEW p \in Nat, NEW n \in 1..MaxChunk, NEW c,
         Cut(s, p, n, c), Healthy(s, MaxChunk), NEW k, Sound(k, s, p),
         \A g \in 1..p : HeaderAt(s, g) => Kept(k, s, g, p), NEW b
  PROVE  Thrown(b, k, c) \in {NoError, "wrong board Id"}
<1>1. TakeTurns(s) /\ Agree(s) /\ FarApart(s, MaxChunk) /\ n \in Nat
  BY DEF Healthy
<1>2. ~MultipleSpills(k, c)
  BY <1>1, HealthySingle
<1>3. Expected(k, c)
  <2>1. CASE k = EmptyBank
    <3>1. k.headers = {} /\ (c.trailers # {} => c.headers # {})
      BY <1>1, <1>2, <2>1, EmptyFields, HealthyWhenEmpty
    <3>2. QED
      BY <3>1, Zenon DEF Expected, Completes, Skips, Starts, Whole
  <2>2. ASSUME NEW h \in 1..p, Opened(k, s, h, p) PROVE Expected(k, c)
    <3>1. InSpill(k)
      BY <2>2 DEF Opened, InSpill, Several
    <3>2. c.headers # {} =>
            c.trailers # {} /\ First(c.trailers) <= First(c.headers)
      BY <1>1, <1>2, <2>2, HealthyWhenOpen
    <3>3. QED
      BY <3>1, <3>2, Zenon DEF Expected, Completes, Continues, Ends, EndsAndStarts
  <2>3. QED
    BY <2>1, <2>2 DEF Sound
<1>4. Completes(k, c) => SpillMatches(Filled(k, c))
  <2> SUFFICES ASSUME Completes(k, c) PROVE SpillMatches(Filled(k, c))
    OBVIOUS
  <2>1. PICK h, t \in 1 .. p + n : Holds(Filled(k, c), s, h, t)
    BY <1>1, <1>2, FilledHolds
  <2>2. p + n \in Nat /\ p + n <= Len(s)
    BY <1>1 DEF Cut
  <2>3. QED
    BY <1>1, <2>1, <2>2, HealthyMatches
<1>5. QED
  BY <1>2, <1>3, <1>4, Zenon DEF Thrown

(***************************************************************************)
(* Wherever the stream of a healthy board is cut into containers shorter   *)
(* than its spills, process() never ends the run over it: only data of     *)
(* another board makes it throw.                                           *)
(***************************************************************************)
THEOREM HealthyPasses == Spec => []NoFalseAlarm
<1>1. Init => NoFalseAlarm
  BY DEF Init, NoFalseAlarm
<1>2. IInv /\ NoFalseAlarm /\ [Next]_vars => NoFalseAlarm'
  <2> SUFFICES ASSUME IInv, NoFalseAlarm, [Next]_vars PROVE NoFalseAlarm'
    OBVIOUS
  <2>1. ASSUME NEW b \in Boards, NEW n \in 1..MaxChunk, Reject(b, n)
        PROVE  NoFalseAlarm'
    <3>1. PICK c : c = Input(b, n)
      OBVIOUS
    <3>2. /\ TypeOK /\ Sound(bank, stream, pos) /\ pos + n <= Len(stream)
          /\ raised' = Thrown(Board, bank, c) /\ stream' = stream
          /\ raised = NoError
      BY <2>1, <3>1 DEF IInv, Reject
    <3>3. /\ stream \in Seq(Word) /\ pos \in Nat /\ n \in Nat
          /\ Cut(stream, pos, n, c)
      BY <3>1, <3>2, CallFacts
    <3>4. \A g \in 1..pos : HeaderAt(stream, g) => Kept(bank, stream, g, pos)
      BY <3>2 DEF IInv, NoHeaderLost, Kept
    <3>5. Healthy(stream, MaxChunk) => raised' \in {NoError, "wrong board Id"}
      BY <3>2, <3>3, <3>4, HealthyCall
    <3>6. QED
      BY <3>2, <3>5 DEF NoFalseAlarm
  <2>2. ASSUME NEW b \in Boards, NEW n \in 1..MaxChunk, Accept(b, n)
        PROVE  NoFalseAlarm'
    BY <2>2 DEF Accept, NoFalseAlarm
  <2>3. CASE UNCHANGED vars
    BY <2>3 DEF vars, NoFalseAlarm
  <2>4. QED
    BY <2>1, <2>2, <2>3 DEF Next
<1>3. QED
  BY <1>1, <1>2, Invariance, PTL DEF Spec

=============================================================================
