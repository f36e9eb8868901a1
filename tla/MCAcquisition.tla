--------------------------- MODULE MCAcquisition ---------------------------
(***************************************************************************)
(* Small feeds for Acquisition: device 1 has the boards 0 and 1, device 2  *)
(* the board 2.  In one feed each board sends two spills; in one two       *)
(* boards do and the other is silent; and in one a board sends two that    *)
(* are cut, the second with a trailer of a third.                          *)
(***************************************************************************)
EXTENDS Acquisition

W(kind, tag) == [kind |-> kind, tag |-> tag, board |-> 0]
D == W("Other", 0)
Trailer(tag) == <<W("SpillTrailer1", tag), D, W("SpillTrailer2", 0)>>
Begun(tag) == <<W("SpillHeader", tag), D>>
Complete(tag) == <<W("SpillHeader", tag)>> \o Trailer(tag)
R(b, from, upto) == [board |-> b, from |-> from, upto |-> upto]

TwoSpills ==
  [streams |-> [b \in Boards |-> Complete(1) \o Complete(2)],
   reads   |-> [d \in Devices |->
     IF d = "d1" THEN <<R(0, 1, 4), R(1, 1, 4), R(0, 5, 8), R(1, 5, 8)>>
     ELSE <<R(2, 1, 4), R(2, 5, 8)>>]]

OneSilent ==
  [streams |-> [b \in Boards |->
     IF b = 1 THEN <<>> ELSE Complete(1) \o Complete(2)],
   reads   |-> [d \in Devices |->
     IF d = "d1" THEN <<R(0, 1, 4), R(0, 5, 8)>>
     ELSE <<R(2, 1, 4), R(2, 5, 8)>>]]

Cut ==
  [streams |-> [b \in Boards |->
     CASE b = 0 -> Begun(1) \o Trailer(1) \o Begun(2) \o Trailer(3)
       [] b = 1 -> <<>>
       [] b = 2 -> Complete(1)],
   reads   |-> [d \in Devices |->
     IF d = "d1" THEN <<R(0, 1, 2), R(0, 3, 7), R(0, 8, 10)>>
     ELSE <<R(2, 1, 4)>>]]

SomeFeeds == {TwoSpills, OneSilent, Cut}
SomeStreams == {f.streams[b] : f \in SomeFeeds, b \in Boards}
=============================================================================
