-------------------------- MODULE FragmentBuilder --------------------------
(***************************************************************************)
(* One DataFragmentBuilder (src/BMDDataLib.h, src/BMDDataLib.cpp) and the  *)
(* stream of words of its board.  Each step is one call of process() with  *)
(* a scanned container: the next words of the stream, cut anywhere the     *)
(* USB readout may cut them.                                               *)
(***************************************************************************)
EXTENDS Spills

CONSTANTS
  Board,      \* board_id_ of the builder
  Boards,     \* the board Ids a container may carry
  Streams,    \* the streams the board may send
  MaxChunk    \* the most words a container holds

ASSUME BoardAssumption == Boards \subseteq Nat /\ Board \in Boards
ASSUME StreamsAssumption == Streams \subseteq Seq(Word)
ASSUME MaxChunkAssumption == MaxChunk \in Nat \ {0}

VARIABLES
  stream,     \* the stream the board sends
  pos,        \* how many of its words have been given to process()
  bank,       \* mem_bank_
  out,        \* the fragments appended to **out_data_, as banks
  raised      \* the UFEError a call threw, NoError if none did

vars == <<stream, pos, bank, out, raised>>

Init ==
  /\ stream \in Streams
  /\ pos = 0
  /\ bank = EmptyBank
  /\ out = <<>>
  /\ raised = NoError

\* The container of board Id b with the next n words of the stream.
Input(b, n) == Scanned(b, SubSeq(stream, pos + 1, pos + n))

\* process() returns; a fragment that is complete moves to the event bank.
Accept(b, n) ==
  LET c == Input(b, n) IN
  /\ raised = NoError
  /\ pos + n <= Len(stream)
  /\ Thrown(Board, bank, c) = NoError
  /\ pos' = pos + n
  /\ bank' = BankAfter(bank, c)
  /\ out' = IF Completes(bank, c) THEN Append(out, Filled(bank, c)) ELSE out
  /\ UNCHANGED <<stream, raised>>

\* process() throws.  The error is FATAL: BMDEventBuilder::process answers
\* FatalError_s, and the builder is not called again.
Reject(b, n) ==
  LET c == Input(b, n) IN
  /\ raised = NoError
  /\ pos + n <= Len(stream)
  /\ Thrown(Board, bank, c) # NoError
  /\ raised' = Thrown(Board, bank, c)
  /\ bank' = BankAfterThrow(Board, bank, c)
  /\ UNCHANGED <<stream, pos, out>>

Next == \E b \in Boards, n \in 1..MaxChunk : Accept(b, n) \/ Reject(b, n)

Spec == Init /\ [][Next]_vars

-----------------------------------------------------------------------------
\* Every variable has its type, and the marks of the bank are on its words.
TypeOK ==
  /\ stream \in Streams
  /\ pos \in 0..Len(stream)
  /\ bank \in Bank /\ MarksInside(bank)
  /\ out \in Seq(Bank)
  /\ raised \in Errors \cup {NoError}

Delivered == SubSeq(stream, 1, pos)

(***************************************************************************)
(* However the stream is cut into containers, the fragments handed to the  *)
(* event bank are exactly the spills of the words delivered so far: none   *)
(* lost, none invented, none cut short or padded, in order, as long as     *)
(* process() has not thrown.                                               *)
(***************************************************************************)
CutIndependent ==
  raised = NoError =>
    [i \in DOMAIN out |-> out[i].words] = Fragments(Delivered)

\* A fragment k is a spill of the stream, and its header agrees with it: the
\* size field with the words, the marks with the ends, and the tags and the
\* board Ids of header and trailer with one another.
Genuine(k) ==
  /\ \E h, t \in 1..pos :
       IsSpill(stream, h, t) /\ k.words = Fragment(stream, h, t)
  /\ k.size = Len(k.words)
  /\ k.headers = {HeaderWords}
  /\ k.trailers = {Len(k.words) - 1}
  /\ LET h == k.words[HeaderWords + 1]
         t == k.words[Len(k.words) - 2]
     IN  h.tag = t.tag /\ h.board = t.board

(***************************************************************************)
(* Whatever the board sends, garbage included, and also after an error,    *)
(* only genuine spills reach the event bank.                               *)
(***************************************************************************)
FragmentsGenuine == \A i \in DOMAIN out : Genuine(out[i])

(***************************************************************************)
(* The start of a spill is never lost in silence: as long as nothing was   *)
(* thrown, each header delivered opened a fragment that was handed on, or  *)
(* the one the bank holds now.                                             *)
(***************************************************************************)
NoHeaderLost ==
  raised = NoError =>
    \A h \in 1..pos : HeaderAt(stream, h) =>
      \/ \E t \in 1..pos : IsSpill(stream, h, t)
      \/ bank.words = Fragment(stream, h, pos)

(***************************************************************************)
(* A healthy board whose spills are longer than a container never stops    *)
(* the run, wherever its stream is cut.                                    *)
(***************************************************************************)
NoFalseAlarm ==
  Healthy(stream, MaxChunk) => raised \in {NoError, "wrong board Id"}

(***************************************************************************)
(* "The size of the data." (BMDDataHeaders.h:37): the size in the header   *)
(* of the bank is the number of its words, also between two containers,    *)
(* where the tests read it (TestDataLib.cpp:203).                          *)
(***************************************************************************)
HeaderSizeIsSize == bank.size = Len(bank.words)

=============================================================================
