------------------------------- MODULE Spills -------------------------------
(***************************************************************************)
(* What a stream of words from a board contains, defined with no reference *)
(* to containers or banks: the yardstick for what the builders of          *)
(* DataLib make of the same stream once it is cut into containers.         *)
(* Places in a stream are counted from 1.                                  *)
(***************************************************************************)
EXTENDS DataLib, SequencesExt

HeaderAt(s, i)  == s[i].kind = "SpillHeader"
TrailerAt(s, i) == s[i].kind = "SpillTrailer2"
MarkAt(s, i)    == HeaderAt(s, i) \/ TrailerAt(s, i)

\* Nothing but data in the places h+1..t of a stream.
PlainBetween(s, h, t) == \A i \in h + 1 .. t : ~MarkAt(s, i)

\* A spill: a header, and the next mark is a trailer.
IsSpill(s, h, t) ==
  HeaderAt(s, h) /\ TrailerAt(s, t) /\ h < t /\ PlainBetween(s, h, t - 1)

SpillPlaces(s) ==
  {p \in (1..Len(s)) \X (1..Len(s)) : IsSpill(s, p[1], p[2])}

\* The fragment of the spill between two places, as a bank holds it.
Fragment(s, h, t) == HeaderBlock \o SubSeq(s, h, t)

\* The i-th of some spills, by where they start.
Ranked(places, i) ==
  {p \in places : Cardinality({q \in places : q[1] <= p[1]}) = i}
Ith(places, i) == CHOOSE p \in Ranked(places, i) : TRUE

\* All of a stream's fragments, in the order of the stream.
Fragments(s) ==
  LET places == SpillPlaces(s)
  IN  [i \in 1..Cardinality(places) |->
         Fragment(s, Ith(places, i)[1], Ith(places, i)[2])]

-----------------------------------------------------------------------------
(***************************************************************************)
(* A stream a healthy board sends: headers and trailers take turns, a      *)
(* header first; the first word of each trailer agrees with its header;    *)
(* and marks of a kind are so far apart that no container of reach words   *)
(* holds two of them ("In principle this should never happen, unless the   *)
(* data container size is huge", BMDDataLib.cpp:51-52).                    *)
(***************************************************************************)
TakeTurns(s) ==
  /\ \A j \in DOMAIN s : TrailerAt(s, j) => \E h \in 1..j : IsSpill(s, h, j)
  /\ \A i, j \in DOMAIN s : i < j /\ HeaderAt(s, i) /\ HeaderAt(s, j)
                            => \E t \in i..j : TrailerAt(s, t)

Agree(s) ==
  \A p \in SpillPlaces(s) : /\ p[2] - 2 > p[1]
                            /\ s[p[1]].tag = s[p[2] - 2].tag
                            /\ s[p[1]].board = s[p[2] - 2].board

FarApart(s, reach) ==
  \A i, j \in DOMAIN s :
    i < j /\ MarkAt(s, i) /\ s[i].kind = s[j].kind => j - i >= reach

Healthy(s, reach) == TakeTurns(s) /\ Agree(s) /\ FarApart(s, reach)

=============================================================================
