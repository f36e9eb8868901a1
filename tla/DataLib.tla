------------------------------ MODULE DataLib ------------------------------
(***************************************************************************)
(* The data structures of src/BMDDataLib*: containers of 32-bit words with *)
(* the marks the scanner left on them, the memory bank of a fragment, and  *)
(* the case analysis of DataFragmentBuilder::process.                      *)
(*                                                                         *)
(* A word is what MDdataWordBM tells of it: its type, its spill tag and    *)
(* its board Id.  Sizes and positions are counted in words (the code       *)
(* counts bytes, four to a word).  spill_headers_ and spill_trailers_ are  *)
(* sets of positions: the scanner pushes them in ascending order, and the  *)
(* code only asks for their number and for the first.                      *)
(***************************************************************************)
EXTENDS Integers, Sequences

Kinds == {"SpillHeader", "SpillTrailer1", "SpillTrailer2",
          "TrigHeader", "TrigTrailer1", "Other"}

Word == [kind : Kinds, tag : Nat, board : Nat]

\* A container as BMDDataScanner::process leaves it when it got it cleared: a
\* mark on every spill header and on the last word of every spill trailer.
Marks(words, kind) == {p \in 0..Len(words)-1 : words[p + 1].kind = kind}

Scanned(b, words) ==
  [board |-> b, words |-> words, headers |-> Marks(words, "SpillHeader"),
   trailers |-> Marks(words, "SpillTrailer2")]

(***************************************************************************)
(* BMDMemBank<BMDDataFragmenHeader>: size is header_->size_, the size a    *)
(* reader of the file sees; Len(words) is what size() returns.  The header *)
(* occupies the first HeaderWords words of the buffer (its size_t is read  *)
(* as two words with no tag when a position points into it).               *)
(***************************************************************************)
Bank == [words : Seq(Word), headers : SUBSET Nat, trailers : SUBSET Nat,
         size : Nat]

\* The marks of a bank are on words of it.
MarksInside(k) == k.headers \cup k.trailers \subseteq 0..Len(k.words)-1

HeaderWords == 2
SizeWord == [kind |-> "Other", tag |-> 0, board |-> 0]
HeaderBlock == <<SizeWord, SizeWord>>

\* The bank after its constructor, and after clear().
EmptyBank == [words |-> HeaderBlock, headers |-> {}, trailers |-> {},
              size |-> HeaderWords]

\* Mutant of Shifted: a mark keeps its place in the container.
ShiftedByBank(marks, pos, n, len) ==
  {p + len : p \in {q \in marks : pos <= q /\ q < pos + n}}

\* The marks of a container that fall in [pos, pos + n), moved to where the
\* words land in a bank that holds len words.
Shifted(marks, pos, n, len) ==
  {p - pos + len : p \in {q \in marks : pos <= q /\ q < pos + n}}

\* BMDMemBank::append(c, pos, n): the words, the marks on them, and the size.
AppendPart(k, c, pos, n) ==
  [words    |-> k.words \o SubSeq(c.words, pos + 1, pos + n),
   headers  |-> k.headers \cup Shifted(c.headers, pos, n, Len(k.words)),
   trailers |-> k.trailers \cup Shifted(c.trailers, pos, n, Len(k.words)),
   size     |-> Len(k.words) + n]

\* BMDMemBank::append(c).
AppendAll(k, c) == AppendPart(k, c, 0, Len(c.words))

-----------------------------------------------------------------------------
(***************************************************************************)
(* DataFragmentBuilder::process, for a builder of board b with bank k and  *)
(* an input container c.                                                   *)
(***************************************************************************)
Several(marks) == \E p, q \in marks : p # q
First(marks)   == CHOOSE p \in marks : \A q \in marks : p <= q

WrongBoard(b, c) == c.board # b

\* Mutant of MultipleSpills: a header and a trailer are taken for two spills.
MultipleMarks(k, c) == Several(c.headers \cup c.trailers) \/ k.trailers # {}

MultipleSpills(k, c) ==
  Several(c.headers) \/ Several(c.trailers) \/ k.trailers # {}

TrailerAfterHeader(c) == First(c.trailers) >= First(c.headers)

\* No spill so far: nothing to keep, a spill starts, or a whole spill is here.
\* A trailer in front of the header is tolerated and dropped with the data
\* before the header.
Skips(k, c)  == k.headers = {} /\ c.headers = {} /\ c.trailers = {}
Starts(k, c) == /\ k.headers = {} /\ c.headers # {}
                /\ c.trailers = {} \/ ~TrailerAfterHeader(c)
Whole(k, c)  == /\ k.headers = {} /\ c.headers # {} /\ c.trailers # {}
                /\ TrailerAfterHeader(c)

\* In the middle of a spill: it goes on, it ends, or it ends and the next
\* one starts in the same container.
InSpill(k) == k.headers # {} /\ ~Several(k.headers)
Continues(k, c) == InSpill(k) /\ c.headers = {} /\ c.trailers = {}
Ends(k, c) == InSpill(k) /\ c.headers = {} /\ c.trailers # {}

\* Mutant of EndsAndStarts: the order of trailer and header is not looked at.
EndsAndStartsAnyOrder(k, c) ==
  InSpill(k) /\ c.headers # {} /\ c.trailers # {}

EndsAndStarts(k, c) ==
  /\ InSpill(k) /\ c.headers # {} /\ c.trailers # {}
  /\ First(c.trailers) <= First(c.headers)

Completes(k, c) == Whole(k, c) \/ Ends(k, c) \/ EndsAndStarts(k, c)

Expected(k, c) ==
  Skips(k, c) \/ Starts(k, c) \/ Continues(k, c) \/ Completes(k, c)

\* The words from the spill header to the end of the container.
FromHeader(k, c) ==
  AppendPart(k, c, First(c.headers), Len(c.words) - First(c.headers))

\* The bank when moveToEventBank is called: up to and including the trailer.
Filled(k, c) ==
  IF Whole(k, c)
  THEN AppendPart(k, c, First(c.headers),
                  First(c.trailers) - First(c.headers) + 1)
  ELSE AppendPart(k, c, 0, First(c.trailers) + 1)

\* A whole container in the middle of a spill.  header_->size_ was already
\* set by append; the code adds the container's size once more.
Grown(k, c) ==
  LET a == AppendAll(k, c) IN [a EXCEPT !.size = @ + Len(c.words)]

\* Mutant of SpillMatches: the board Ids are not compared.
TagMatches(k) ==
  k.words[First(k.headers) + 1].tag = k.words[First(k.trailers) - 2 + 1].tag

\* moveToEventBank compares the spill header with the first of the three
\* words of the trailer, two words before the marked one.
SpillMatches(k) ==
  LET h == k.words[First(k.headers) + 1]
      t == k.words[First(k.trailers) - 2 + 1]
  IN  h.tag = t.tag /\ h.board = t.board

Errors == {"wrong board Id", "multiple spills", "inconsistent data",
           "spill data mismatch"}
NoError == "none"

\* The UFEError the call throws, all of them FATAL.
Thrown(b, k, c) ==
  CASE WrongBoard(b, c) -> "wrong board Id"
    [] ~WrongBoard(b, c) /\ MultipleSpills(k, c) -> "multiple spills"
    [] ~WrongBoard(b, c) /\ ~MultipleSpills(k, c) /\ ~Expected(k, c) ->
         "inconsistent data"
    [] ~WrongBoard(b, c) /\ ~MultipleSpills(k, c) /\ Completes(k, c)
       /\ ~SpillMatches(Filled(k, c)) -> "spill data mismatch"
    [] OTHER -> NoError

\* Mutant of BankAfter: the start of the next spill is dropped.
BankAfterOneSpill(k, c) ==
  CASE Starts(k, c)    -> FromHeader(k, c)
    [] Continues(k, c) -> Grown(k, c)
    [] Completes(k, c) -> EmptyBank
    [] OTHER           -> k

\* The builder's bank after a call that returns.
BankAfter(k, c) ==
  CASE Starts(k, c)           -> FromHeader(k, c)
    [] Continues(k, c)        -> Grown(k, c)
    [] Whole(k, c) \/ Ends(k, c) -> EmptyBank
    [] EndsAndStarts(k, c)    -> FromHeader(EmptyBank, c)
    [] OTHER                  -> k

\* The bank a call leaves behind when it throws: untouched, except that a
\* fragment whose trailer does not match stays in the bank.
BankAfterThrow(b, k, c) ==
  IF Thrown(b, k, c) = "spill data mismatch" THEN Filled(k, c) ELSE k

=============================================================================
