------------------------- MODULE MCFragmentBuilder -------------------------
(***************************************************************************)
(* Small streams for FragmentBuilder.  The builder under test has board    *)
(* Id 1; containers of board 0 reach it too.                               *)
(***************************************************************************)
EXTENDS FragmentBuilder

W(kind, tag) == [kind |-> kind, tag |-> tag, board |-> 1]
H(tag) == W("SpillHeader", tag)
T(tag) == W("SpillTrailer1", tag)
D == W("Other", 0)
E == W("SpillTrailer2", 0)
Alien(w) == [w EXCEPT !.board = 0]

\* Every sequence of at most n words over an alphabet with two spill tags:
\* boards that send garbage, marks in any order and at any distance.
Garbage(n) == UNION {[1..k -> {H(0), H(1), T(0), D, E}] : k \in 0..n}

\* What a board may send around and instead of a spill.
Pieces == {<<D>>,                                  \* data between spills
           <<H(0), D, T(0), D, E>>,                \* a spill
           <<H(1), T(1), D, E>>,                   \* a spill with no data
           <<H(0), D>>,                            \* a spill with no trailer
           <<T(1), D, E>>,                         \* the end of a spill
           <<H(1), D, Alien(T(1)), D, E>>}         \* a trailer of another board

Pieced == {a \o b \o c : a, b, c \in Pieces \cup {<<>>}}

SmallStreams == Garbage(5) \cup Pieced
=============================================================================
