--------------------------- MODULE MemBank_proofs ---------------------------
(***************************************************************************)
(* The memory banks, however many there are, in blocks of any number and   *)
(* sizes.                                                                  *)
(***************************************************************************)
EXTENDS MemBank, TLAPS

Header == [size_ : Nat, n_fragments_ : Nat]
Bank   == [buffer : Blocks \cup {Null}, size : Nat, header : Blocks \cup {Null}]

TypeOK ==
  /\ bank \in [Banks -> Bank]
  /\ room \in [Blocks -> Rooms]
  /\ bytes \in [Blocks -> Header]
  /\ value \in [Banks -> Header]

\* header_ points to the start of the bank's own buffer.
HeadersOwn == \A b \in Banks : bank[b].header = bank[b].buffer

\* No two banks have one buffer.
BuffersApart ==
  \A a, b \in Banks : Whole(a) /\ bank[a].buffer = bank[b].buffer => a = b

\* What the buffer of a bank begins with.
ValuesKept ==
  \A b \in Banks : Whole(b) =>
    bytes[bank[b].buffer] = value[b] /\ value[b].size_ = bank[b].size

BInv == TypeOK /\ HeadersOwn /\ BuffersApart /\ ValuesKept

-----------------------------------------------------------------------------
\* A free block is no bank's, and the buffer of a bank is a block.
LEMMA FreeBlocks ==
  ASSUME TypeOK
  PROVE  /\ \A k \in Free : k \in Blocks /\ k # Null
                            /\ \A b \in Banks : bank[b].buffer # k
         /\ \A b \in Banks : Whole(b) => bank[b].buffer \in Blocks
BY NullAssumption DEF TypeOK, Bank, Free, Whole

\* At first there are no banks.
LEMMA InitBInv == Init => BInv
BY DEF Init, BInv, TypeOK, Bank, Header, Gone, NoValue, HeadersOwn,
       BuffersApart, ValuesKept, Whole

\* One bank gets a block that no other bank has, its own or a free one, with
\* the header that its value says.
LEMMA OneBankKeepsBInv ==
  ASSUME BInv, NEW b \in Banks, NEW k \in Blocks, NEW size \in Nat, NEW v \in Header,
         k \in Free \/ k = bank[b].buffer,
         v.size_ = size,
         bank' = [bank EXCEPT ![b] = Own(k, size)],
         bytes' = [bytes EXCEPT ![k] = v],
         value' = [value EXCEPT ![b] = v],
         room' = room
  PROVE  BInv'
<1>1. \A c \in Banks : c # b => bank[c].buffer # k
  BY FreeBlocks, NullAssumption DEF BInv, BuffersApart, Whole
<1>2. TypeOK'
  BY DEF BInv, TypeOK, Bank, Own
<1>3. \A c \in Banks : bank'[c] = IF c = b THEN Own(k, size) ELSE bank[c]
  BY DEF BInv, TypeOK
<1>4. \A c \in Banks : value'[c] = IF c = b THEN v ELSE value[c]
  BY DEF BInv, TypeOK
<1>5. \A j \in Blocks : bytes'[j] = IF j = k THEN v ELSE bytes[j]
  BY DEF BInv, TypeOK
<1>6. HeadersOwn'
  BY <1>3 DEF BInv, HeadersOwn, Own
<1>7. BuffersApart'
  BY <1>1, <1>3 DEF BInv, BuffersApart, Own, Whole
<1>8. ValuesKept'
  BY <1>1, <1>3, <1>4, <1>5, FreeBlocks DEF BInv, ValuesKept, Own, Whole
<1>9. QED
  BY <1>2, <1>6, <1>7, <1>8 DEF BInv

-----------------------------------------------------------------------------
\* A bank is made in a free block.
LEMMA ConstructKeepsBInv ==
  ASSUME BInv, NEW b \in Banks, Construct(b)
  PROVE  BInv'
<1>1. PICK k \in Free :
        /\ bank' = [bank EXCEPT ![b] = Own(k, HeaderSize)]
        /\ bytes' = [bytes EXCEPT ![k].size_ = HeaderSize]
        /\ value' = [value EXCEPT ![b] = bytes'[k]]
  BY DEF Construct
<1> DEFINE v == [bytes[k] EXCEPT !.size_ = HeaderSize]
<1>2. k \in Blocks
  BY FreeBlocks DEF BInv
<1>3. v \in Header /\ v.size_ = HeaderSize
  BY <1>2 DEF BInv, TypeOK, Header, HeaderSize
<1>4. bytes' = [bytes EXCEPT ![k] = v] /\ bytes'[k] = v
  BY <1>1, <1>2 DEF BInv, TypeOK
<1>5. HeaderSize \in Nat /\ room' = room
  BY DEF Construct, HeaderSize
<1> HIDE DEF v
<1>6. QED
  BY <1>1, <1>2, <1>3, <1>4, <1>5, OneBankKeepsBInv

\* A bank gets the value of another.
LEMMA CopyKeepsBInv ==
  ASSUME BInv, NEW a \in Banks, NEW b \in Banks, Copy(a, b)
  PROVE  BInv'
<1>1. PICK k \in (Free \cup {bank[b].buffer}) \ {Null} : Copied(a, b, k)
  BY DEF Copy
<1>2. k \in Blocks /\ bank[a].buffer \in Blocks
  BY FreeBlocks DEF Copy, BInv, Whole
<1>3. /\ bytes[bank[a].buffer] = value[a] /\ value[a].size_ = bank[a].size
      /\ value[a] \in Header /\ bank[a].size \in Nat
  BY DEF Copy, BInv, ValuesKept, TypeOK, Bank, Header
<1>4. QED
  BY <1>1, <1>2, <1>3, OneBankKeepsBInv DEF Copy, Copied

\* A bank grows, in place or into a free block.
LEMMA AppendKeepsBInv ==
  ASSUME BInv, NEW b \in Banks, NEW n \in Rooms, Append(b, n)
  PROVE  BInv'
<1> DEFINE size == bank[b].size + n
           v == [bytes[bank[b].buffer] EXCEPT !.size_ = size]
<1>1. PICK k \in IF size <= room[bank[b].buffer] THEN {bank[b].buffer} ELSE Free :
        /\ bank' = [bank EXCEPT ![b] = Own(k, size)]
        /\ bytes' = [bytes EXCEPT ![k] = v]
  BY DEF Append
<1>2. /\ bank[b].buffer \in Blocks /\ k \in Blocks
      /\ k \in Free \/ k = bank[b].buffer
  BY <1>1, FreeBlocks DEF Append, BInv
<1>3. size \in Nat
  BY RoomsAssumption DEF BInv, TypeOK, Bank
<1>4. v \in Header /\ v.size_ = size /\ v = [value[b] EXCEPT !.size_ = size]
  BY <1>2, <1>3 DEF Append, BInv, ValuesKept, TypeOK, Header
<1>5. value' = [value EXCEPT ![b] = v] /\ room' = room
  BY <1>4 DEF Append, BInv, TypeOK
<1>6. QED
  BY <1>1, <1>2, <1>3, <1>4, <1>5, OneBankKeepsBInv

\* A fragment is counted.
LEMMA CountKeepsBInv ==
  ASSUME BInv, NEW b \in Banks, Count(b)
  PROVE  BInv'
<1> DEFINE k == bank[b].buffer
           v == [value[b] EXCEPT !.n_fragments_ = @ + 1]
<1>1. k \in Blocks /\ bank[b].header = k /\ bytes[k] = value[b]
  BY FreeBlocks DEF Count, BInv, HeadersOwn, ValuesKept
<1>2. v \in Header /\ v.size_ = bank[b].size /\ bank[b].size \in Nat
  BY DEF Count, BInv, ValuesKept, TypeOK, Header, Bank
<1>3. bank' = [bank EXCEPT ![b] = Own(k, bank[b].size)]
  BY <1>1 DEF Count, BInv, TypeOK, Bank, Own
<1>4. bytes' = [bytes EXCEPT ![k] = v] /\ value' = [value EXCEPT ![b] = v]
  BY <1>1 DEF Count, BInv, TypeOK
<1>5. room' = room
  BY DEF Count
<1>6. QED
  BY <1>1, <1>2, <1>3, <1>4, <1>5, OneBankKeepsBInv

\* A bank is cleared.
LEMMA ClearKeepsBInv ==
  ASSUME BInv, NEW b \in Banks, Clear(b)
  PROVE  BInv'
<1> DEFINE k == bank[b].buffer
           v == [size_ |-> HeaderSize, n_fragments_ |-> 0]
<1>1. k \in Blocks /\ bank[b].header = k
  BY FreeBlocks DEF Clear, BInv, HeadersOwn
<1>2. v \in Header /\ v.size_ = HeaderSize /\ HeaderSize \in Nat
  BY DEF Header, HeaderSize
<1>3. bank' = [bank EXCEPT ![b] = Own(k, HeaderSize)]
  <2>1. bank[b] \in Bank /\ bank \in [Banks -> Bank]
    BY DEF BInv, TypeOK
  <2>2. [bank[b] EXCEPT !.size = HeaderSize] = Own(k, HeaderSize)
    BY <1>1, <2>1 DEF Own, Bank
  <2>3. bank' = [bank EXCEPT ![b] = [bank[b] EXCEPT !.size = HeaderSize]]
    BY <2>1 DEF Clear
  <2>4. QED
    BY <2>2, <2>3
<1>4. bytes' = [bytes EXCEPT ![k] = v] /\ value' = [value EXCEPT ![b] = v]
      /\ room' = room
  BY <1>1 DEF Clear
<1>5. QED
  BY <1>1, <1>2, <1>3, <1>4, OneBankKeepsBInv

\* A bank is moved: its buffer goes with it, and the other's is free.
LEMMA MoveKeepsBInv ==
  ASSUME BInv, NEW a \in Banks, NEW b \in Banks, Move(a, b)
  PROVE  BInv'
<1>1. TypeOK'
  BY DEF Move, BInv, TypeOK, Bank, Husk, Gone, NoValue, Header
<1>2. \A c \in Banks : bank'[c] = IF c = a THEN Gone
                                 ELSE IF c = b THEN bank[a] ELSE bank[c]
  BY DEF Move, BInv, TypeOK, Husk
<1>3. \A c \in Banks : value'[c] = IF c = a THEN NoValue
                                  ELSE IF c = b THEN value[a] ELSE value[c]
  BY DEF Move, BInv, TypeOK
<1>4. HeadersOwn'
  BY <1>2 DEF BInv, HeadersOwn, Gone
<1>5. BuffersApart'
  BY <1>2 DEF BInv, BuffersApart, Gone, Whole
<1>6. ValuesKept'
  <2> SUFFICES ASSUME NEW c \in Banks, Whole(c)'
               PROVE  bytes'[bank'[c].buffer] = value'[c]
                      /\ value'[c].size_ = bank'[c].size
    BY DEF ValuesKept
  <2>1. c # a /\ bytes' = bytes
    <3>1. bank'[a] = Gone /\ bank'[c].buffer # Null
      BY <1>2 DEF Whole
    <3>2. Gone.buffer = Null
      BY DEF Gone
    <3>3. bytes' = bytes
      BY DEF Move
    <3>4. QED
      BY <3>1, <3>2, <3>3
  <2>2. CASE c = b
    <3>1. bank'[c] = bank[a] /\ value'[c] = value[a]
      BY <1>2, <1>3, <2>1, <2>2
    <3>2. QED
      BY <2>1, <3>1 DEF BInv, ValuesKept, Whole
  <2>3. CASE c # b
    <3>1. bank'[c] = bank[c] /\ value'[c] = value[c]
      BY <1>2, <1>3, <2>1, <2>3
    <3>2. QED
      BY <2>1, <3>1 DEF BInv, ValuesKept, Whole
  <2>4. QED
    BY <2>2, <2>3
<1>7. QED
  BY <1>1, <1>4, <1>5, <1>6 DEF BInv

\* A bank is destroyed.
LEMMA DestroyKeepsBInv ==
  ASSUME BInv, NEW b \in Banks, Destroy(b)
  PROVE  BInv'
<1>1. TypeOK'
  BY DEF Destroy, BInv, TypeOK, Bank, Gone, NoValue, Header
<1>2. \A c \in Banks : bank'[c] = IF c = b THEN Gone ELSE bank[c]
  BY DEF Destroy, BInv, TypeOK
<1>3. \A c \in Banks : c # b => value'[c] = value[c]
  BY DEF Destroy, BInv, TypeOK
<1>4. HeadersOwn'
  BY <1>2 DEF BInv, HeadersOwn, Gone
<1>5. BuffersApart'
  BY <1>2 DEF BInv, BuffersApart, Gone, Whole
<1>6. ValuesKept'
  BY <1>2, <1>3 DEF Destroy, BInv, ValuesKept, Gone, Whole
<1>7. QED
  BY <1>1, <1>4, <1>5, <1>6 DEF BInv

(***************************************************************************)
(* Through any copies, moves, assignments, growth and reuse of memory, a   *)
(* bank has the size and the count that its own operations gave it, both   *)
(* where header_ points and in the bytes that go to the file.              *)
(***************************************************************************)
THEOREM ValuesCorrect == Spec => []BanksAreValues
<1>1. ASSUME BInv, [Next]_vars PROVE BInv'
  <2>1. CASE UNCHANGED vars
    BY <1>1, <2>1 DEF vars, BInv, TypeOK, HeadersOwn, BuffersApart, ValuesKept, Whole
  <2>2. QED
    BY <1>1, <2>1, ConstructKeepsBInv, CopyKeepsBInv, MoveKeepsBInv,
       AppendKeepsBInv, CountKeepsBInv, ClearKeepsBInv, DestroyKeepsBInv DEF Next
<1>2. BInv => BanksAreValues
  BY DEF BInv, HeadersOwn, ValuesKept, BanksAreValues
<1>3. QED
  BY <1>1, <1>2, InitBInv, PTL DEF Spec

=============================================================================
