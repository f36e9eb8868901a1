---------------------------- MODULE SpillEvents ----------------------------
(***************************************************************************)
(* What the event builder promises when the boards keep step: the boards   *)
(* contribute one fragment each, in any order, and the last of them makes  *)
(* the event.  A run may end at any time, and drops the fragments gathered *)
(* since the last event.                                                   *)
(***************************************************************************)
EXTENDS Naturals

CONSTANT Boards

VARIABLES
  taking,     \* a run takes data
  gathered,   \* the boards whose fragment of the current spill is there
  events      \* how many events the run has written

vars == <<taking, gathered, events>>

Init == taking = FALSE /\ gathered = {} /\ events = 0

Start == ~taking /\ taking' = TRUE /\ UNCHANGED <<gathered, events>>

Contribute(b) ==
  /\ taking
  /\ b \notin gathered
  /\ gathered \cup {b} # Boards
  /\ gathered' = gathered \cup {b}
  /\ UNCHANGED <<taking, events>>

Publish(b) ==
  /\ taking
  /\ b \notin gathered
  /\ gathered \cup {b} = Boards
  /\ gathered' = {}
  /\ events' = events + 1
  /\ UNCHANGED taking

Stop == taking /\ taking' = FALSE /\ gathered' = {} /\ events' = 0

Next == Start \/ Stop \/ \E b \in Boards : Contribute(b) \/ Publish(b)

Spec == Init /\ [][Next]_vars
=============================================================================
