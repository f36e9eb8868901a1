--------------------------- MODULE MCDataScanner ---------------------------
(***************************************************************************)
(* Small containers for DataScanner: every sequence of up to 4 words over  *)
(* the kinds the scanner tells apart, with trigger tags 0, 1 and 2.        *)
(***************************************************************************)
EXTENDS DataScanner

W(kind, tag) == [kind |-> kind, tag |-> tag, board |-> 0]

SmallWords ==
  {W("SpillHeader", 0), W("SpillTrailer1", 0), W("SpillTrailer2", 0)}
  \cup {W("TrigHeader", t) : t \in 0..2}
  \cup {W("TrigTrailer1", 1), W("TrigTrailer1", 2)}

SmallContents == UNION {[1..n -> SmallWords] : n \in 0..4}
=============================================================================
