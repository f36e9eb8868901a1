---------------------------- MODULE DataScanner ----------------------------
(***************************************************************************)
(* BMDDataScanner (src/BMDWorkers.cpp): finds the spill headers and        *)
(* trailers of one container after the other and checks the trigger tags.  *)
(* A step reads one word.  A container comes with the marks it has; the    *)
(* scanner adds to them and never removes any.                             *)
(***************************************************************************)
EXTENDS DataLib, SequencesExt

CONSTANT Contents     \* the words a container may come with

ASSUME ContentsAssumption == Contents \subseteq Seq(Word)

VARIABLES
  words,        \* the words of the container, none between two containers
  headers,      \* its spill_headers_
  trailers,     \* its spill_trailers_
  trigger_tag,  \* trigger_tag_, kept from one container to the next
  xDw,          \* the next word to read
  at,           \* "idle", or the loop of process(): "first" or "check"
  status,       \* what process() returned last
  reported      \* the words a "Trigger tag mismatch" was printed for

vars == <<words, headers, trailers, trigger_tag, xDw, at, status, reported>>

Init ==
  /\ words = <<>> /\ headers = <<>> /\ trailers = <<>>
  /\ trigger_tag = 0
  /\ xDw = 0
  /\ at = "idle"
  /\ status = "OK"
  /\ reported = {}

\* process() is called with a container that was cleared before it was filled.
Begin(w) ==
  /\ at = "idle" /\ status = "OK"
  /\ w # <<>>
  /\ words' = w
  /\ trigger_tag' = 0
  /\ at' = "first"
  /\ UNCHANGED <<headers, trailers, xDw, status, reported>>

\* An empty container: process() returns Error_s and the worker stops.
BeginEmpty(w) ==
  /\ at = "idle" /\ status = "OK"
  /\ w = <<>>
  /\ status' = "Error"
  /\ UNCHANGED <<words, headers, trailers, trigger_tag, xDw, at, reported>>

Current == words[xDw + 1]

\* Mutant of MarkSpill: the end of a spill is taken at the first of the three
\* words of its trailer.
MarkSpillEarly ==
  /\ headers' = IF Current.kind = "SpillHeader"
                THEN Append(headers, xDw) ELSE headers
  /\ trailers' = IF Current.kind = "SpillTrailer1"
                 THEN Append(trailers, xDw) ELSE trailers

\* The cases of a spill header and of the last word of a spill trailer.
MarkSpill ==
  /\ headers' = IF Current.kind = "SpillHeader"
                THEN Append(headers, xDw) ELSE headers
  /\ trailers' = IF Current.kind = "SpillTrailer2"
                 THEN Append(trailers, xDw) ELSE trailers

\* Mutant of NoteTrigger: only the first trigger tag is kept.
NoteFirstTrigger ==
  trigger_tag' = IF Current.kind = "TrigHeader" /\ trigger_tag = 0
                 THEN Current.tag ELSE trigger_tag

\* The case of a trigger header.
NoteTrigger ==
  trigger_tag' = IF Current.kind = "TrigHeader"
                 THEN Current.tag ELSE trigger_tag

\* read(), in the loop that runs until a trigger header is found.
Read ==
  /\ at = "first" /\ trigger_tag = 0 /\ xDw < Len(words)
  /\ MarkSpill
  /\ NoteTrigger
  /\ xDw' = xDw + 1
  /\ UNCHANGED <<words, at, status, reported>>

\* Mutant of Found: the first loop swallows a word.
FoundLate ==
  /\ at = "first" /\ ~(trigger_tag = 0 /\ xDw < Len(words))
  /\ at' = "check"
  /\ xDw' = xDw + 1
  /\ UNCHANGED <<words, headers, trailers, trigger_tag, status, reported>>

\* The first loop ends.
Found ==
  /\ at = "first" /\ ~(trigger_tag = 0 /\ xDw < Len(words))
  /\ at' = "check"
  /\ UNCHANGED <<words, headers, trailers, trigger_tag, xDw, status, reported>>

\* The case of a trigger trailer.
Mismatch == Current.kind = "TrigTrailer1" /\ Current.tag # trigger_tag

\* readAndCheck(), in the second loop: a mismatch is printed and passed over.
ReadAndCheck ==
  /\ at = "check" /\ xDw < Len(words)
  /\ MarkSpill
  /\ NoteTrigger
  /\ reported' = IF Mismatch THEN reported \cup {xDw} ELSE reported
  /\ xDw' = xDw + 1
  /\ UNCHANGED <<words, at, status>>

\* process() returns OK_s and the container goes on to the event builder.
Return ==
  /\ at = "check" /\ xDw = Len(words)
  /\ at' = "idle"
  /\ words' = <<>> /\ headers' = <<>> /\ trailers' = <<>>
  /\ xDw' = 0
  /\ reported' = {}
  /\ UNCHANGED <<trigger_tag, status>>

Next ==
  \/ \E w \in Contents : Begin(w) \/ BeginEmpty(w)
  \/ Read \/ Found \/ ReadAndCheck \/ Return

Spec == Init /\ [][Next]_vars

-----------------------------------------------------------------------------
\* Every variable has its type, and the marks are on words already read.
TypeOK ==
  /\ words \in Contents \cup {<<>>}
  /\ xDw \in 0..Len(words)
  /\ headers \in Seq(0..xDw-1) /\ trailers \in Seq(0..xDw-1)
  /\ trigger_tag \in Nat
  /\ at \in {"idle", "first", "check"}
  /\ status \in {"OK", "Error"}
  /\ reported \subseteq 0..xDw-1

Ascending(marks) ==
  \A i, j \in DOMAIN marks : i < j => marks[i] < marks[j]

\* What Scanned says of a container, for the words read so far.
MarksUpTo(n, marks, kind) ==
  Range(marks) = {p \in Marks(words, kind) : p < n}

(***************************************************************************)
(* The scan marks every spill header and the last word of every spill      *)
(* trailer, each once and in the order of the words, whichever of the two  *)
(* loops reads it: the container is what Scanned of DataLib says, and      *)
(* spill_headers_[0] and spill_trailers_[0] are the first of each.         *)
(***************************************************************************)
MarksExact ==
  /\ MarksUpTo(xDw, headers, "SpillHeader") /\ Ascending(headers)
  /\ MarksUpTo(xDw, trailers, "SpillTrailer2") /\ Ascending(trailers)

\* The last trigger header before a place.
LastTrigger(p) ==
  CHOOSE q \in 0..p-1 :
    /\ words[q + 1].kind = "TrigHeader"
    /\ \A r \in q + 1 .. p - 1 : words[r + 1].kind # "TrigHeader"

(***************************************************************************)
(* A mismatch is reported for exactly the trigger trailers that do not     *)
(* agree with the last trigger header before them in the container.  A     *)
(* trailer whose header is in an earlier container, or in a container with *)
(* no trigger tag but 0 so far, is never reported.                         *)
(***************************************************************************)
ReportsExact ==
  reported =
    {p \in 0..xDw-1 :
       /\ words[p + 1].kind = "TrigTrailer1"
       /\ \E q \in 0..p-1 : words[q+1].kind = "TrigHeader" /\ words[q+1].tag # 0
       /\ words[p + 1].tag # words[LastTrigger(p) + 1].tag}

=============================================================================
