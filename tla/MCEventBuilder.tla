--------------------------- MODULE MCEventBuilder ---------------------------
(***************************************************************************)
(* Small streams for EventBuilder: spills 1 and 2, long and short, with    *)
(* and without data in front of them, and streams that break off or break  *)
(* the rules in the second spill.                                          *)
(***************************************************************************)
EXTENDS EventBuilder

W(kind, tag) == [kind |-> kind, tag |-> tag, board |-> 0]
D == W("Other", 0)
Trailer(tag) == <<W("SpillTrailer1", tag), D, W("SpillTrailer2", 0)>>
Short(tag) == <<W("SpillHeader", tag)>> \o Trailer(tag)
Long(tag)  == <<W("SpillHeader", tag), D, D>> \o Trailer(tag)
Torn(tag)  == <<W("SpillHeader", tag), D>>
Mixed(tag) == <<W("SpillHeader", tag)>> \o Trailer(tag + 1)

GoodStreams == {Short(1) \o Long(2) \o <<D, D>>,
                <<D>> \o Short(1) \o <<D>> \o Short(2) \o <<D, D>>}
MoreStreams == GoodStreams \cup {Long(1) \o Torn(2), Short(1) \o Mixed(2) \o <<D, D>>}
=============================================================================
