------------------------------ MODULE MemBank ------------------------------
(***************************************************************************)
(* BMDMemBank (src/BMDDataLib.h, src/BMDDataLib-inl.h): a container whose  *)
(* first bytes are a header, with a pointer into its own buffer that must  *)
(* follow the buffer when it is copied, moved or grown.  The header is     *)
(* that of an event; a fragment's has the size only.                       *)
(*                                                                         *)
(* UFEDataContainer is not in the repository.  The tests                   *)
(* (TestDataLib.cpp:68-84, 127-148) say that a move takes the buffer along *)
(* and leaves a null pointer and the size 0, and that clear() keeps the    *)
(* buffer; that a copy copies the bytes, and that a buffer too small is    *)
(* replaced by another, is assumed.  Sizes are in units of the header.     *)
(***************************************************************************)
EXTENDS Integers, FiniteSets

CONSTANTS
  Banks,      \* the variables of type BMDMemBank
  Blocks,     \* the blocks of memory
  Rooms,      \* the sizes of blocks
  MaxCount    \* how many fragments are counted (a bound)

ASSUME BlocksAssumption ==
  IsFiniteSet(Banks) /\ Cardinality(Blocks) > Cardinality(Banks)
ASSUME RoomsAssumption == IsFiniteSet(Rooms) /\ Rooms \subseteq Nat \ {0}
ASSUME CountAssumption == MaxCount \in Nat

VARIABLES
  bank,      \* of each bank buffer(), size() and header_
  room,      \* the size of each block
  bytes,     \* what its first bytes say as a header: size_, n_fragments_
  value      \* history: the header each bank should have

vars == <<bank, room, bytes, value>>

Null == "null"
ASSUME NullAssumption == Null \notin Blocks
HeaderSize == 1
Gone == [buffer |-> Null, size |-> 0, header |-> Null]   \* no object
Husk == Gone                                \* an object that was moved from
NoValue == [size_ |-> 0, n_fragments_ |-> 0]

Own(blk, size) == [buffer |-> blk, size |-> size, header |-> blk]
Free == Blocks \ {bank[b].buffer : b \in Banks}
Whole(b) == bank[b].buffer # Null

Init ==
  /\ bank = [b \in Banks |-> Gone]
  /\ room \in [Blocks -> Rooms]
  /\ bytes = [k \in Blocks |-> NoValue]
  /\ value = [b \in Banks |-> NoValue]

-----------------------------------------------------------------------------
\* BMDMemBank(), BMDMemBank(size_t): the count is what the memory holds.
Construct(b) ==
  /\ ~Whole(b)
  /\ \E k \in Free :
       /\ bank' = [bank EXCEPT ![b] = Own(k, HeaderSize)]
       /\ bytes' = [bytes EXCEPT ![k].size_ = HeaderSize]
       /\ value' = [value EXCEPT ![b] = bytes'[k]]
  /\ UNCHANGED room

\* Mutant of Copied: the header of the other bank is taken over with the rest.
CopiedShallow(a, b, k) ==
  /\ bank' = [bank EXCEPT ![b] = [bank[a] EXCEPT !.buffer = k]]
  /\ bytes' = [bytes EXCEPT ![k] = bytes[bank[a].buffer]]

\* b has the bytes of a, in the block k.
Copied(a, b, k) ==
  /\ bank' = [bank EXCEPT ![b] = Own(k, bank[a].size)]
  /\ bytes' = [bytes EXCEPT ![k] = bytes[bank[a].buffer]]

\* The copy constructor and the copy assignment: into the bank's own block,
\* if it has one that is large enough, or into another.
Copy(a, b) ==
  /\ a # b /\ Whole(a)
  /\ \E k \in (Free \cup {bank[b].buffer}) \ {Null} :
       bank[a].size <= room[k] /\ Copied(a, b, k)
  /\ value' = [value EXCEPT ![b] = value[a]]
  /\ UNCHANGED room

\* The move constructor and the move assignment.
Move(a, b) ==
  /\ a # b
  /\ bank' = [bank EXCEPT ![b] = bank[a], ![a] = Husk]
  /\ value' = [value EXCEPT ![b] = value[a], ![a] = NoValue]
  /\ UNCHANGED <<room, bytes>>

\* append(c), append(c, pos, size): n is what is appended.  A bank that was
\* moved from has no header: append() and clear() take one for granted.
Append(b, n) ==
  /\ Whole(b)
  /\ LET old == bank[b]
         size == old.size + n
     IN  /\ \E k \in IF size <= room[old.buffer] THEN {old.buffer} ELSE Free :
              /\ size <= room[k]
              /\ bank' = [bank EXCEPT ![b] = Own(k, size)]
              /\ bytes' = [bytes EXCEPT ![k] = [bytes[old.buffer] EXCEPT
                                                  !.size_ = size]]
         /\ value' = [value EXCEPT ![b].size_ = size]
  /\ UNCHANGED room

\* ++header_->n_fragments_, by moveToEventBank.
Count(b) ==
  /\ Whole(b)
  /\ value[b].n_fragments_ < MaxCount
  /\ bytes' = [bytes EXCEPT ![bank[b].header].n_fragments_ = @ + 1]
  /\ value' = [value EXCEPT ![b].n_fragments_ = @ + 1]
  /\ UNCHANGED <<bank, room>>

\* clear() and header_clear().
Clear(b) ==
  /\ Whole(b)
  /\ bank' = [bank EXCEPT ![b].size = HeaderSize]
  /\ bytes' = [bytes EXCEPT ![bank[b].header] =
                 [size_ |-> HeaderSize, n_fragments_ |-> 0]]
  /\ value' = [value EXCEPT ![b] = [size_ |-> HeaderSize, n_fragments_ |-> 0]]
  /\ UNCHANGED room

\* The destructor.
Destroy(b) ==
  /\ Whole(b)
  /\ bank' = [bank EXCEPT ![b] = Gone]
  /\ value' = [value EXCEPT ![b] = NoValue]
  /\ UNCHANGED <<room, bytes>>

Next ==
  \E b \in Banks :
    \/ Construct(b) \/ Count(b) \/ Clear(b) \/ Destroy(b)
    \/ \E a \in Banks : Copy(a, b) \/ Move(a, b)
    \/ \E n \in Rooms : Append(b, n)

Spec == Init /\ [][Next]_vars

-----------------------------------------------------------------------------
(***************************************************************************)
(* Banks behave as values: through any copies, moves, assignments, growth  *)
(* and reuse of memory, what header_ of a bank points to, and the bytes at *)
(* the start of its buffer, which go to the file, are the size and count   *)
(* that its own operations gave it, and no operation on another bank.      *)
(***************************************************************************)
BanksAreValues ==
  \A b \in Banks : Whole(b) =>
    /\ bytes[bank[b].header] = value[b]
    /\ bytes[bank[b].buffer] = value[b]
    /\ value[b].size_ = bank[b].size

=============================================================================
