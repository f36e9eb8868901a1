--------------------------- MODULE Spills_proofs ---------------------------
(***************************************************************************)
(* What a call of DataFragmentBuilder::process does to the bank of a       *)
(* builder and to the spills delivered, for streams of any length and      *)
(* content, cut anywhere: s is the stream, p of its words were given to    *)
(* process() before, c holds the next n of them, and k is the bank.        *)
(***************************************************************************)
EXTENDS Spills, SequenceTheorems, FiniteSetTheorems, TLAPS

\* The bank k holds the open fragment that starts at place h of s and goes on
\* to place p.
Opened(k, s, h, p) ==
  /\ HeaderAt(s, h) /\ PlainBetween(s, h, p)
  /\ k.words = Fragment(s, h, p)
  /\ k.headers = {HeaderWords} /\ k.trailers = {}
  /\ k.size \in Nat

\* What a bank is between two calls.
Sound(k, s, p) == k = EmptyBank \/ \E h \in 1..p : Opened(k, s, h, p)

-----------------------------------------------------------------------------
(***************************************************************************)
(* Marks, and the words of containers and fragments.                       *)
(***************************************************************************)
\* Of one mark, it is the first.
LEMMA OneMark ==
  ASSUME NEW m \in Nat
  PROVE  First({m}) = m /\ ~Several({m})
BY DEF First, Several

\* Marks that are there and not several are one.
LEMMA OnlyMark ==
  ASSUME NEW M, M \subseteq Nat, M # {}, ~Several(M)
  PROVE  M = {First(M)} /\ First(M) \in Nat
<1>1. PICK m \in M : TRUE
  OBVIOUS
<1>2. M = {m} /\ m \in Nat
  BY <1>1 DEF Several
<1>3. QED BY <1>2, OneMark

\* One mark is copied if it is in the part.
LEMMA ShiftOne ==
  ASSUME NEW q \in Nat, NEW a \in Nat, NEW n \in Nat, NEW len \in Nat
  PROVE  /\ a <= q /\ q < a + n => Shifted({q}, a, n, len) = {q - a + len}
         /\ q < a \/ a + n <= q => Shifted({q}, a, n, len) = {}
         /\ Shifted({}, a, n, len) = {}
BY DEF Shifted

\* c holds the next n words of a stream s, p of whose words were delivered
\* before, and its marks are the marks of these words.
Cut(s, p, n, c) ==
  /\ n > 0 /\ p + n <= Len(s)
  /\ c.words = SubSeq(s, p + 1, p + n)
  /\ c.headers = {q \in 0..n-1 : HeaderAt(s, p + q + 1)}
  /\ c.trailers = {q \in 0..n-1 : TrailerAt(s, p + q + 1)}

\* It is so for a scanned container.
LEMMA CutOfInput ==
  ASSUME NEW s \in Seq(Word), NEW p \in Nat, NEW n \in Nat, n > 0,
         p + n <= Len(s),
         NEW b, NEW c, c = Scanned(b, SubSeq(s, p + 1, p + n))
  PROVE  Cut(s, p, n, c)
<1>1. c.words = SubSeq(s, p + 1, p + n)
  BY DEF Scanned
<1>2. \A i \in p + 1 .. p + n : s[i] \in Word
  OBVIOUS
<1>3. /\ c.words \in Seq(Word)
      /\ Len(c.words) = n
      /\ \A i \in 1..n : c.words[i] = s[p + i]
  <2>1. p + 1 \in Int /\ p + n \in Int
    OBVIOUS
  <2>2. c.words \in Seq(Word)
    <3>1. SubSeq(s, p + 1, p + n) \in Seq(Word)
      BY <1>2, <2>1, SubSeqProperties
    <3>2. QED BY <1>1, <3>1
  <2>3. Len(c.words) = n
    BY <1>1
  <2>4. ASSUME NEW i \in 1..n PROVE c.words[i] = s[p + i]
    <3>1. c.words[i] = s[(p + 1) + i - 1]
      BY <1>1
    <3>2. (p + 1) + i - 1 = p + i
      OBVIOUS
    <3>3. QED BY <3>1, <3>2
  <2>5. QED BY <2>2, <2>3, <2>4
<1>4. \A q \in 0..n-1 : c.words[q + 1] = s[p + q + 1]
  BY <1>3
<1>5. /\ c.headers = {q \in 0..n-1 : c.words[q + 1].kind = "SpillHeader"}
      /\ c.trailers = {q \in 0..n-1 : c.words[q + 1].kind = "SpillTrailer2"}
  BY <1>1, <1>3 DEF Scanned, Marks
<1>6. /\ c.headers = {q \in 0..n-1 : HeaderAt(s, p + q + 1)}
      /\ c.trailers = {q \in 0..n-1 : TrailerAt(s, p + q + 1)}
  <2>1. {q \in 0..n-1 : c.words[q + 1].kind = "SpillHeader"}
          = {q \in 0..n-1 : HeaderAt(s, p + q + 1)}
    BY <1>4 DEF HeaderAt
  <2>2. {q \in 0..n-1 : c.words[q + 1].kind = "SpillTrailer2"}
          = {q \in 0..n-1 : TrailerAt(s, p + q + 1)}
    BY <1>4 DEF TrailerAt
  <2>3. QED BY <1>5, <2>1, <2>2
<1>7. QED BY <1>1, <1>6 DEF Cut

\* The header of a bank is two words.
LEMMA HeaderBlockType == HeaderBlock \in Seq(Word) /\ Len(HeaderBlock) = 2
BY DEF HeaderBlock, SizeWord, Word, Kinds

\* Words behind the header of a bank are two places further on.
LEMMA BehindHeader ==
  ASSUME NEW x \in Seq(Word)
  PROVE  /\ HeaderBlock \o x \in Seq(Word)
         /\ Len(HeaderBlock \o x) = 2 + Len(x)
         /\ \A i \in 1..Len(x) : (HeaderBlock \o x)[i + 2] = x[i]
<1>1. HeaderBlock \in Seq(Word) /\ Len(HeaderBlock) = 2 /\ Len(x) \in Nat
  BY HeaderBlockType
<1>2. HeaderBlock \o x \in Seq(Word)
  BY <1>1, ConcatProperties
<1>3. Len(HeaderBlock \o x) = Len(HeaderBlock) + Len(x)
  BY <1>1, ConcatProperties
<1>4. ASSUME NEW i \in 1..Len(x) PROVE (HeaderBlock \o x)[i + 2] = x[i]
  <2>1. i + 2 \in 1 .. Len(HeaderBlock) + Len(x) /\ ~(i + 2 <= Len(HeaderBlock))
    BY <1>1
  <2>2. ASSUME NEW j \in 1 .. Len(HeaderBlock) + Len(x), ~(j <= Len(HeaderBlock))
        PROVE  (HeaderBlock \o x)[j] = x[j - Len(HeaderBlock)]
    BY <1>1, <2>2, ConcatProperties
  <2>3. i + 2 - Len(HeaderBlock) = i
    BY <1>1
  <2>4. QED BY <2>1, <2>2, <2>3
<1>5. Len(HeaderBlock \o x) = 2 + Len(x)
  BY <1>1, <1>3
<1>6. QED BY <1>2, <1>4, <1>5

\* The words of a fragment: the header, then those of the stream from h to t.
LEMMA FragmentFacts ==
  ASSUME NEW s \in Seq(Word), NEW h \in 1..Len(s), NEW t \in h..Len(s)
  PROVE  /\ SubSeq(s, h, t) \in Seq(Word)
         /\ Fragment(s, h, t) \in Seq(Word)
         /\ Len(Fragment(s, h, t)) = t - h + 3
         /\ \A i \in h..t : Fragment(s, h, t)[i - h + 3] = s[i]
<1>1. /\ SubSeq(s, h, t) \in Seq(Word)
      /\ Len(SubSeq(s, h, t)) = t - h + 1
      /\ \A i \in 1 .. t - h + 1 : SubSeq(s, h, t)[i] = s[h + i - 1]
  BY SubSeqProperties
<1>2. Fragment(s, h, t) = HeaderBlock \o SubSeq(s, h, t)
  BY DEF Fragment
<1>3. /\ Fragment(s, h, t) \in Seq(Word)
      /\ Len(Fragment(s, h, t)) = t - h + 3
      /\ \A i \in 1 .. t - h + 1 :
           Fragment(s, h, t)[i + 2] = SubSeq(s, h, t)[i]
  <2>1. DEFINE x == SubSeq(s, h, t)
  <2>2. x \in Seq(Word) /\ Len(x) = t - h + 1
    BY <1>1
  <2> HIDE DEF x
  <2>3. /\ HeaderBlock \o x \in Seq(Word)
        /\ Len(HeaderBlock \o x) = 2 + Len(x)
        /\ \A i \in 1..Len(x) : (HeaderBlock \o x)[i + 2] = x[i]
    BY <2>2, BehindHeader
  <2>4. Fragment(s, h, t) = HeaderBlock \o x
    BY <1>2 DEF x
  <2>5. /\ Fragment(s, h, t) \in Seq(Word)
        /\ Len(Fragment(s, h, t)) = t - h + 3
        /\ \A i \in 1 .. t - h + 1 : Fragment(s, h, t)[i + 2] = x[i]
    BY <2>2, <2>3, <2>4
  <2>6. QED BY <2>5 DEF x
<1>4. ASSUME NEW i \in h..t PROVE Fragment(s, h, t)[i - h + 3] = s[i]
  <2>1. i - h + 1 \in 1 .. t - h + 1
    OBVIOUS
  <2>2. Fragment(s, h, t)[(i - h + 1) + 2] = SubSeq(s, h, t)[i - h + 1]
    BY <1>3, <2>1
  <2>3. SubSeq(s, h, t)[i - h + 1] = s[h + (i - h + 1) - 1]
    BY <1>1, <2>1
  <2>4. (i - h + 1) + 2 = i - h + 3 /\ h + (i - h + 1) - 1 = i
    OBVIOUS
  <2>5. QED BY <2>2, <2>3, <2>4
<1>5. QED BY <1>1, <1>3, <1>4

-----------------------------------------------------------------------------
(***************************************************************************)
(* Where the marks of a container are in the stream it was cut from.       *)
(***************************************************************************)
\* There is one mark, and it is x.
Only(marks, x) == marks = {x}

\* There is none.
NoMarks(c) == c.headers = {} /\ c.trailers = {}

\* A container cut from a stream has the length it was cut to.
LEMMA CutLength ==
  ASSUME NEW s \in Seq(Word), NEW p \in Nat, NEW n \in Nat, NEW c,
         Cut(s, p, n, c)
  PROVE  Len(c.words) = n
BY DEF Cut

\* A container with one header.
LEMMA HeaderIn ==
  ASSUME NEW s \in Seq(Word), NEW p \in Nat, NEW n \in Nat, NEW c,
         Cut(s, p, n, c), NEW f \in Nat, Only(c.headers, f)
  PROVE  /\ f < n /\ HeaderAt(s, p + f + 1)
         /\ \A g \in p + 1 .. p + n : HeaderAt(s, g) => g = p + f + 1
<1>1. c.headers = {q \in 0..n-1 : HeaderAt(s, p + q + 1)}
  BY DEF Cut
<1>2. f < n /\ HeaderAt(s, p + f + 1)
  <2>1. f \in c.headers
    BY DEF Only
  <2>2. QED BY <1>1, <2>1
<1>3. ASSUME NEW g \in p + 1 .. p + n, HeaderAt(s, g) PROVE g = p + f + 1
  <2>1. g - p - 1 \in 0..n-1 /\ p + (g - p - 1) + 1 = g
    OBVIOUS
  <2>2. g - p - 1 \in {q \in 0..n-1 : HeaderAt(s, p + q + 1)}
    BY <1>3, <2>1
  <2>3. g - p - 1 = f
    BY <1>1, <2>2 DEF Only
  <2>4. QED BY <2>3
<1>4. QED BY <1>2, <1>3

\* A container with one trailer.
LEMMA TrailerIn ==
  ASSUME NEW s \in Seq(Word), NEW p \in Nat, NEW n \in Nat, NEW c,
         Cut(s, p, n, c), NEW t \in Nat, Only(c.trailers, t)
  PROVE  /\ t < n /\ TrailerAt(s, p + t + 1)
         /\ \A g \in p + 1 .. p + n : TrailerAt(s, g) => g = p + t + 1
<1>1. c.trailers = {q \in 0..n-1 : TrailerAt(s, p + q + 1)}
  BY DEF Cut
<1>2. t < n /\ TrailerAt(s, p + t + 1)
  <2>1. t \in c.trailers
    BY DEF Only
  <2>2. QED BY <1>1, <2>1
<1>3. ASSUME NEW g \in p + 1 .. p + n, TrailerAt(s, g) PROVE g = p + t + 1
  <2>1. g - p - 1 \in 0..n-1 /\ p + (g - p - 1) + 1 = g
    OBVIOUS
  <2>2. g - p - 1 \in {q \in 0..n-1 : TrailerAt(s, p + q + 1)}
    BY <1>3, <2>1
  <2>3. g - p - 1 = t
    BY <1>1, <2>2 DEF Only
  <2>4. QED BY <2>3
<1>4. QED BY <1>2, <1>3

\* A container without marks of a kind.
LEMMA NoMarkIn ==
  ASSUME NEW s \in Seq(Word), NEW p \in Nat, NEW n \in Nat, NEW c,
         Cut(s, p, n, c)
  PROVE  /\ c.headers = {} => \A g \in p + 1 .. p + n : ~HeaderAt(s, g)
         /\ c.trailers = {} => \A g \in p + 1 .. p + n : ~TrailerAt(s, g)
<1> SUFFICES ASSUME NEW g \in p + 1 .. p + n
             PROVE  /\ HeaderAt(s, g) => c.headers # {}
                    /\ TrailerAt(s, g) => c.trailers # {}
  OBVIOUS
<1>1. g - p - 1 \in 0..n-1 /\ p + (g - p - 1) + 1 = g
  OBVIOUS
<1>2. HeaderAt(s, g) => g - p - 1 \in {q \in 0..n-1 : HeaderAt(s, p + q + 1)}
  BY <1>1
<1>3. TrailerAt(s, g) => g - p - 1 \in {q \in 0..n-1 : TrailerAt(s, p + q + 1)}
  BY <1>1
<1>4. QED BY <1>2, <1>3 DEF Cut

\* No word is both a header and a trailer.
LEMMA KindsDiffer ==
  ASSUME NEW s, NEW i PROVE ~(HeaderAt(s, i) /\ TrailerAt(s, i))
BY DEF HeaderAt, TrailerAt

-----------------------------------------------------------------------------
(***************************************************************************)
(* What append leaves in a bank.                                           *)
(***************************************************************************)
LEMMA EmptyFields ==
  /\ EmptyBank.words = HeaderBlock /\ Len(EmptyBank.words) = 2
  /\ EmptyBank.headers = {} /\ EmptyBank.trailers = {} /\ EmptyBank.size = 2
BY HeaderBlockType DEF EmptyBank, HeaderWords

\* The m words of a container from f on, put into an empty bank.
LEMMA PartStarts ==
  ASSUME NEW s \in Seq(Word), NEW p \in Nat, NEW n \in Nat, NEW c,
         Cut(s, p, n, c),
         NEW f \in Nat, NEW m \in Nat, m > 0, f + m <= n,
         NEW e, e = EmptyBank, NEW k, k = AppendPart(e, c, f, m)
  PROVE  /\ k.words = Fragment(s, p + f + 1, p + f + m)
         /\ k.headers = Shifted(c.headers, f, m, 2)
         /\ k.trailers = Shifted(c.trailers, f, m, 2)
         /\ k.size = 2 + m
<1>1. n > 0 /\ p + n <= Len(s) /\ c.words = SubSeq(s, p + 1, p + n)
  BY DEF Cut
<1>2. /\ k.words = HeaderBlock \o SubSeq(c.words, f + 1, f + m)
      /\ k.headers = Shifted(c.headers, f, m, 2)
      /\ k.trailers = Shifted(c.trailers, f, m, 2)
      /\ k.size = 2 + m
  <2>1. /\ k.words = e.words \o SubSeq(c.words, f + 1, f + m)
        /\ k.headers = e.headers \cup Shifted(c.headers, f, m, Len(e.words))
        /\ k.trailers = e.trailers \cup Shifted(c.trailers, f, m, Len(e.words))
        /\ k.size = Len(e.words) + m
    BY DEF AppendPart
  <2>2. e.words = HeaderBlock /\ Len(e.words) = 2 /\ e.headers = {} /\ e.trailers = {}
    BY EmptyFields
  <2>3. QED BY <2>1, <2>2
<1>3. SubSeq(c.words, f + 1, f + m) = SubSeq(s, p + f + 1, p + f + m)
  <2>1. /\ p + 1 \in 1..Len(s) /\ p + n \in 1..Len(s)
        /\ f + 1 \in 1 .. (p + n) - (p + 1) + 1
        /\ f + m \in 1 .. (p + n) - (p + 1) + 1
    BY <1>1
  <2>2. SubSeq(SubSeq(s, p + 1, p + n), f + 1, f + m)
          = SubSeq(s, (p + 1) + (f + 1) - 1, (p + 1) + (f + m) - 1)
    BY <2>1, SubSeqOfSubSeq
  <2>3. /\ (p + 1) + (f + 1) - 1 = p + f + 1
        /\ (p + 1) + (f + m) - 1 = p + f + m
    OBVIOUS
  <2>4. QED BY <1>1, <2>2, <2>3
<1>4. QED BY <1>2, <1>3 DEF Fragment

\* The first m words of a container, added to an open fragment.
LEMMA PartGoesOn ==
  ASSUME NEW s \in Seq(Word), NEW p \in Nat, NEW n \in Nat, NEW c,
         Cut(s, p, n, c),
         NEW k, NEW h \in Nat, 1 <= h, h <= p, k.words = Fragment(s, h, p),
         NEW m \in Nat, m > 0, m <= n,
         NEW r, r = AppendPart(k, c, 0, m)
  PROVE  /\ r.words = Fragment(s, h, p + m)
         /\ r.headers = k.headers \cup Shifted(c.headers, 0, m, p - h + 3)
         /\ r.trailers = k.trailers \cup Shifted(c.trailers, 0, m, p - h + 3)
         /\ r.size = p - h + 3 + m
<1>1. n > 0 /\ p + n <= Len(s) /\ c.words = SubSeq(s, p + 1, p + n)
  BY DEF Cut
<1>2. h \in 1..Len(s) /\ p \in h..Len(s)
  BY <1>1
<1>3. Len(k.words) = p - h + 3
  BY <1>2, FragmentFacts
<1>4. /\ r.words = k.words \o SubSeq(c.words, 0 + 1, 0 + m)
      /\ r.headers = k.headers \cup Shifted(c.headers, 0, m, p - h + 3)
      /\ r.trailers = k.trailers \cup Shifted(c.trailers, 0, m, p - h + 3)
      /\ r.size = p - h + 3 + m
  <2>1. /\ r.words = k.words \o SubSeq(c.words, 0 + 1, 0 + m)
        /\ r.headers = k.headers \cup Shifted(c.headers, 0, m, Len(k.words))
        /\ r.trailers = k.trailers \cup Shifted(c.trailers, 0, m, Len(k.words))
        /\ r.size = Len(k.words) + m
    BY DEF AppendPart
  <2>2. QED BY <1>3, <2>1
<1>5. SubSeq(c.words, 0 + 1, 0 + m) = SubSeq(s, p + 1, p + m)
  <2>1. /\ p + 1 \in 1..Len(s) /\ p + n \in 1..Len(s)
        /\ 0 + 1 \in 1 .. (p + n) - (p + 1) + 1
        /\ 0 + m \in 1 .. (p + n) - (p + 1) + 1
    BY <1>1
  <2>2. SubSeq(SubSeq(s, p + 1, p + n), 0 + 1, 0 + m)
          = SubSeq(s, (p + 1) + (0 + 1) - 1, (p + 1) + (0 + m) - 1)
    BY <2>1, SubSeqOfSubSeq
  <2>3. (p + 1) + (0 + 1) - 1 = p + 1 /\ (p + 1) + (0 + m) - 1 = p + m
    OBVIOUS
  <2>4. QED BY <1>1, <2>2, <2>3
<1>6. SubSeq(s, h, p) \o SubSeq(s, p + 1, p + m) = SubSeq(s, h, p + m)
  <2>1. h \in 1..Len(s)+1 /\ p \in h-1..Len(s) /\ p + m \in p..Len(s)
    BY <1>1, <1>2
  <2>2. QED BY <2>1, ConcatAdjacentSubSeq
<1>7. SubSeq(s, h, p) \in Seq(Word) /\ SubSeq(s, p + 1, p + m) \in Seq(Word)
  <2>1. p + 1 \in 1..Len(s) /\ p + m \in p + 1 .. Len(s)
    BY <1>1
  <2>2. QED BY <1>2, <2>1, FragmentFacts
<1>8. (HeaderBlock \o SubSeq(s, h, p)) \o SubSeq(s, p + 1, p + m)
        = HeaderBlock \o (SubSeq(s, h, p) \o SubSeq(s, p + 1, p + m))
  <2>1. HeaderBlock \in Seq(Word)
    BY HeaderBlockType
  <2>2. ASSUME NEW x \in Seq(Word), NEW y \in Seq(Word), NEW z \in Seq(Word)
        PROVE  (x \o y) \o z = x \o (y \o z)
    BY ConcatAssociative, SMTT(90)
  <2>3. QED BY <1>7, <2>1, <2>2
<1>9. QED BY <1>4, <1>5, <1>6, <1>8 DEF Fragment

-----------------------------------------------------------------------------
(***************************************************************************)
(* What each way through process() leaves in the bank, for a container     *)
(* with the mark f of a header and the mark q of a trailer.                *)
(***************************************************************************)
\* A bank k with a whole spill, as it is when moveToEventBank is called.
Holds(k, s, h, t) ==
  /\ IsSpill(s, h, t)
  /\ k.words = Fragment(s, h, t)
  /\ k.size = t - h + 3
  /\ k.headers = {2} /\ k.trailers = {t - h + 2}

\* No trailer comes after the header.
LEMMA NoTrailerBehind ==
  ASSUME NEW s \in Seq(Word), NEW p \in Nat, NEW n \in Nat, NEW c,
         Cut(s, p, n, c), NEW f \in Nat, Only(c.headers, f),
         c.trailers = {} \/ \E q \in Nat : q <= f /\ Only(c.trailers, q)
  PROVE  /\ \A g \in p + f + 2 .. p + n : ~TrailerAt(s, g)
         /\ \A q \in c.trailers : q \in Nat /\ q < f
<1>1. f < n /\ HeaderAt(s, p + f + 1)
  BY HeaderIn
<1>2. CASE c.trailers = {}
  <2>1. \A g \in p + 1 .. p + n : ~TrailerAt(s, g)
    BY <1>2, NoMarkIn
  <2>2. QED BY <1>2, <2>1
<1>3. CASE c.trailers # {}
  <2>1. PICK q \in Nat : q <= f /\ Only(c.trailers, q)
    BY <1>3
  <2>2. /\ TrailerAt(s, p + q + 1)
        /\ \A g \in p + 1 .. p + n : TrailerAt(s, g) => g = p + q + 1
    BY <2>1, TrailerIn
  <2>3. q < f
    <3>1. CASE q = f
      BY <1>1, <2>2, <3>1, KindsDiffer
    <3>2. QED BY <2>1, <3>1
  <2>4. ASSUME NEW g \in p + f + 2 .. p + n PROVE ~TrailerAt(s, g)
    <3>1. g \in p + 1 .. p + n /\ g # p + q + 1
      BY <2>3
    <3>2. QED BY <2>2, <3>1
  <2>5. \A u \in c.trailers : u = q
    BY <2>1 DEF Only
  <2>6. QED BY <2>3, <2>4, <2>5
<1>4. QED BY <1>2, <1>3

\* A spill starts in the container, and goes on after it.
LEMMA OpensFragment ==
  ASSUME NEW s \in Seq(Word), NEW p \in Nat, NEW n \in Nat, NEW c,
         Cut(s, p, n, c), NEW f \in Nat, Only(c.headers, f),
         c.trailers = {} \/ \E q \in Nat : q <= f /\ Only(c.trailers, q),
         NEW e, e = EmptyBank, NEW k, k = AppendPart(e, c, f, n - f)
  PROVE  p + f + 1 \in p + 1 .. p + n /\ Opened(k, s, p + f + 1, p + n)
<1>1. /\ f < n /\ HeaderAt(s, p + f + 1)
      /\ \A g \in p + 1 .. p + n : HeaderAt(s, g) => g = p + f + 1
  BY HeaderIn
<1>2. /\ \A g \in p + f + 2 .. p + n : ~TrailerAt(s, g)
      /\ \A q \in c.trailers : q \in Nat /\ q < f
  BY NoTrailerBehind
<1>3. PlainBetween(s, p + f + 1, p + n)
  <2>1. ASSUME NEW g \in p + f + 2 .. p + n PROVE ~HeaderAt(s, g)
    <3>1. g \in p + 1 .. p + n /\ g # p + f + 1
      OBVIOUS
    <3>2. QED BY <1>1, <3>1
  <2>2. (p + f + 1) + 1 = p + f + 2
    OBVIOUS
  <2>3. QED BY <1>2, <2>1, <2>2 DEF PlainBetween, MarkAt
<1>4. n - f \in Nat /\ n - f > 0 /\ f + (n - f) <= n /\ p + f + (n - f) = p + n
  BY <1>1
<1>5. /\ k.words = Fragment(s, p + f + 1, p + n)
      /\ k.headers = Shifted(c.headers, f, n - f, 2)
      /\ k.trailers = Shifted(c.trailers, f, n - f, 2)
      /\ k.size = 2 + (n - f)
  <2>1. ASSUME NEW m \in Nat, m > 0, f + m <= n, k = AppendPart(e, c, f, m)
        PROVE  /\ k.words = Fragment(s, p + f + 1, p + f + m)
               /\ k.headers = Shifted(c.headers, f, m, 2)
               /\ k.trailers = Shifted(c.trailers, f, m, 2)
               /\ k.size = 2 + m
    BY <2>1, PartStarts
  <2>2. QED BY <1>4, <2>1
<1>6. Shifted({f}, f, n - f, 2) = {2}
  BY <1>4 DEF Shifted
<1>7. Shifted(c.trailers, f, n - f, 2) = {}
  <2>1. {q \in c.trailers : f <= q /\ q < f + (n - f)} = {}
    BY <1>2
  <2>2. QED BY <2>1 DEF Shifted
<1>8. k.size \in Nat
  <2>1. 2 + (n - f) \in Nat
    BY <1>4
  <2>2. QED BY <1>5, <2>1
<1>9. k.headers = {HeaderWords} /\ k.trailers = {}
  BY <1>5, <1>6, <1>7 DEF HeaderWords, Only
<1>10. QED BY <1>1, <1>3, <1>5, <1>8, <1>9 DEF Opened

\* A spill starts and ends in the container.
LEMMA HoldsWhole ==
  ASSUME NEW s \in Seq(Word), NEW p \in Nat, NEW n \in Nat, NEW c,
         Cut(s, p, n, c), NEW f \in Nat, Only(c.headers, f),
         NEW q \in Nat, Only(c.trailers, q), f <= q,
         NEW e, e = EmptyBank, NEW k, k = AppendPart(e, c, f, q - f + 1)
  PROVE  /\ p + f + 1 \in p + 1 .. p + n /\ p + q + 1 \in p + 1 .. p + n
         /\ Holds(k, s, p + f + 1, p + q + 1)
<1>1. /\ f < n /\ HeaderAt(s, p + f + 1)
      /\ \A g \in p + 1 .. p + n : HeaderAt(s, g) => g = p + f + 1
  BY HeaderIn
<1>2. /\ q < n /\ TrailerAt(s, p + q + 1)
      /\ \A g \in p + 1 .. p + n : TrailerAt(s, g) => g = p + q + 1
  BY TrailerIn
<1>3. f < q
  <2>1. CASE f = q
    BY <1>1, <1>2, <2>1, KindsDiffer
  <2>2. QED BY <2>1
<1>4. PlainBetween(s, p + f + 1, (p + q + 1) - 1)
  <2>1. ASSUME NEW g \in (p + f + 1) + 1 .. (p + q + 1) - 1
        PROVE  ~HeaderAt(s, g) /\ ~TrailerAt(s, g)
    <3>1. g \in p + 1 .. p + n /\ g # p + f + 1 /\ g # p + q + 1
      BY <1>2
    <3>2. QED BY <1>1, <1>2, <3>1
  <2>2. QED BY <2>1 DEF PlainBetween, MarkAt
<1>5. IsSpill(s, p + f + 1, p + q + 1)
  BY <1>1, <1>2, <1>3, <1>4 DEF IsSpill
<1>6. /\ q - f + 1 \in Nat /\ q - f + 1 > 0 /\ f + (q - f + 1) <= n
      /\ p + f + (q - f + 1) = p + q + 1
  BY <1>2, <1>3
<1>7. /\ k.words = Fragment(s, p + f + 1, p + q + 1)
      /\ k.headers = Shifted(c.headers, f, q - f + 1, 2)
      /\ k.trailers = Shifted(c.trailers, f, q - f + 1, 2)
      /\ k.size = 2 + (q - f + 1)
  <2>1. ASSUME NEW m \in Nat, m > 0, f + m <= n, k = AppendPart(e, c, f, m)
        PROVE  /\ k.words = Fragment(s, p + f + 1, p + f + m)
               /\ k.headers = Shifted(c.headers, f, m, 2)
               /\ k.trailers = Shifted(c.trailers, f, m, 2)
               /\ k.size = 2 + m
    BY <2>1, PartStarts
  <2>2. QED BY <1>6, <2>1
<1>8. /\ Shifted({f}, f, q - f + 1, 2) = {2}
      /\ Shifted({q}, f, q - f + 1, 2) = {q - f + 2}
  <2>1. /\ {x \in {f} : f <= x /\ x < f + (q - f + 1)} = {f}
        /\ {x \in {q} : f <= x /\ x < f + (q - f + 1)} = {q}
    BY <1>3
  <2>2. f - f + 2 = 2
    OBVIOUS
  <2>3. QED BY <2>1, <2>2 DEF Shifted
<1>9. /\ 2 + (q - f + 1) = (p + q + 1) - (p + f + 1) + 3
      /\ q - f + 2 = (p + q + 1) - (p + f + 1) + 2
  OBVIOUS
<1>10. /\ k.headers = {2} /\ k.trailers = {(p + q + 1) - (p + f + 1) + 2}
       /\ k.size = (p + q + 1) - (p + f + 1) + 3
  BY <1>7, <1>8, <1>9 DEF Only
<1>11. p + f + 1 \in p + 1 .. p + n /\ p + q + 1 \in p + 1 .. p + n
  BY <1>1, <1>2
<1>12. QED BY <1>5, <1>7, <1>10, <1>11 DEF Holds

\* The open fragment ends in the container.
LEMMA HoldsEnd ==
  ASSUME NEW s \in Seq(Word), NEW p \in Nat, NEW n \in Nat, NEW c,
         Cut(s, p, n, c), NEW q \in Nat, Only(c.trailers, q),
         c.headers = {} \/ \E f \in Nat : q <= f /\ Only(c.headers, f),
         NEW k, NEW h \in Nat, 1 <= h, h <= p, Opened(k, s, h, p),
         NEW r, r = AppendPart(k, c, 0, q + 1)
  PROVE  p + q + 1 \in p + 1 .. p + n /\ Holds(r, s, h, p + q + 1)
<1>1. /\ q < n /\ TrailerAt(s, p + q + 1)
      /\ \A g \in p + 1 .. p + n : TrailerAt(s, g) => g = p + q + 1
  <2>1. q < n /\ TrailerAt(s, p + q + 1)
    BY TrailerIn
  <2>2. ASSUME NEW g \in p + 1 .. p + n, TrailerAt(s, g) PROVE g = p + q + 1
    BY <2>2, TrailerIn
  <2>3. QED BY <2>1, <2>2
<1>2. /\ \A f \in c.headers : f \in Nat /\ q < f
      /\ \A g \in p + 1 .. p + q : ~HeaderAt(s, g)
  <2>1. CASE c.headers = {}
    <3>1. \A g \in p + 1 .. p + n : ~HeaderAt(s, g)
      BY <2>1, NoMarkIn
    <3>2. QED BY <1>1, <2>1, <3>1
  <2>2. CASE c.headers # {}
    <3>1. PICK f \in Nat : q <= f /\ Only(c.headers, f)
      BY <2>2
    <3>2. /\ HeaderAt(s, p + f + 1)
          /\ \A g \in p + 1 .. p + n : HeaderAt(s, g) => g = p + f + 1
      BY <3>1, HeaderIn
    <3>3. q < f
      <4>1. CASE q = f
        BY <1>1, <3>2, <4>1, KindsDiffer
      <4>2. QED BY <3>1, <4>1
    <3>4. ASSUME NEW g \in p + 1 .. p + q PROVE ~HeaderAt(s, g)
      <4>1. g \in p + 1 .. p + n /\ g # p + f + 1
        BY <1>1, <3>3
      <4>2. QED BY <3>2, <4>1
    <3>5. \A u \in c.headers : u = f
      BY <3>1 DEF Only
    <3>6. QED BY <3>3, <3>4, <3>5
  <2>3. QED BY <2>1, <2>2
<1>3. HeaderAt(s, h) /\ PlainBetween(s, h, p)
  BY DEF Opened
<1>4. PlainBetween(s, h, (p + q + 1) - 1)
  <2>1. ASSUME NEW g \in h + 1 .. (p + q + 1) - 1 PROVE ~MarkAt(s, g)
    <3>1. CASE g <= p
      BY <1>3, <3>1 DEF PlainBetween
    <3>2. CASE g > p
      <4>1. g \in p + 1 .. p + n /\ g # p + q + 1 /\ g \in p + 1 .. p + q
        BY <1>1, <3>2
      <4>2. QED BY <1>1, <1>2, <4>1 DEF MarkAt
    <3>3. QED BY <3>1, <3>2
  <2>2. QED BY <2>1 DEF PlainBetween
<1>5. IsSpill(s, h, p + q + 1)
  BY <1>1, <1>3, <1>4 DEF IsSpill
<1>6. k.words = Fragment(s, h, p) /\ k.headers = {2} /\ k.trailers = {}
  BY DEF Opened, HeaderWords
<1>7. /\ r.words = Fragment(s, h, p + (q + 1))
      /\ r.headers = {2} \cup Shifted(c.headers, 0, q + 1, p - h + 3)
      /\ r.trailers = {} \cup Shifted(c.trailers, 0, q + 1, p - h + 3)
      /\ r.size = p - h + 3 + (q + 1)
  <2>1. ASSUME NEW m \in Nat, m > 0, m <= n, r = AppendPart(k, c, 0, m)
        PROVE  /\ r.words = Fragment(s, h, p + m)
               /\ r.headers = k.headers \cup Shifted(c.headers, 0, m, p - h + 3)
               /\ r.trailers = k.trailers \cup Shifted(c.trailers, 0, m, p - h + 3)
               /\ r.size = p - h + 3 + m
    <3>1. k.words = Fragment(s, h, p)
      BY <1>6
    <3>2. QED BY <2>1, <3>1, PartGoesOn, SMTT(30)
  <2>2. q + 1 \in Nat /\ q + 1 > 0 /\ q + 1 <= n
    BY <1>1
  <2>3. QED BY <1>6, <2>1, <2>2
<1>8. Shifted(c.headers, 0, q + 1, p - h + 3) = {}
  <2>1. {f \in c.headers : 0 <= f /\ f < 0 + (q + 1)} = {}
    BY <1>2
  <2>2. QED BY <2>1 DEF Shifted
<1>9. Shifted({q}, 0, q + 1, p - h + 3) = {q - 0 + (p - h + 3)}
  BY DEF Shifted
<1>10. /\ q - 0 + (p - h + 3) = (p + q + 1) - h + 2
       /\ p - h + 3 + (q + 1) = (p + q + 1) - h + 3
       /\ p + (q + 1) = p + q + 1
  OBVIOUS
<1>11. /\ r.headers = {2} /\ r.trailers = {(p + q + 1) - h + 2}
       /\ r.size = (p + q + 1) - h + 3
  BY <1>7, <1>8, <1>9, <1>10 DEF Only
<1>12. p + q + 1 \in p + 1 .. p + n /\ r.words = Fragment(s, h, p + q + 1)
  <2>1. p + q + 1 \in p + 1 .. p + n
    BY <1>1
  <2>2. r.words = Fragment(s, h, p + q + 1)
    BY <1>7, <1>10
  <2>3. QED BY <2>1, <2>2
<1>13. Holds(r, s, h, p + q + 1)
  BY <1>5, <1>11, <1>12 DEF Holds
<1>14. QED BY <1>12, <1>13

\* The open fragment goes on through the container.
LEMMA GoesOn ==
  ASSUME NEW s \in Seq(Word), NEW p \in Nat, NEW n \in Nat, NEW c,
         Cut(s, p, n, c), NoMarks(c),
         NEW k, NEW h \in Nat, 1 <= h, h <= p, Opened(k, s, h, p),
         NEW r, r = Grown(k, c)
  PROVE  Opened(r, s, h, p + n)
<1>1. HeaderAt(s, h) /\ PlainBetween(s, h, p)
  BY DEF Opened
<1>2. PlainBetween(s, h, p + n)
  <2>1. ASSUME NEW g \in h + 1 .. p + n PROVE ~MarkAt(s, g)
    <3>1. CASE g <= p
      BY <1>1, <3>1 DEF PlainBetween
    <3>2. CASE g > p
      <4>1. g \in p + 1 .. p + n
        BY <3>2
      <4>2. ~HeaderAt(s, g) /\ ~TrailerAt(s, g)
        BY <4>1, NoMarkIn DEF NoMarks
      <4>3. QED BY <4>2 DEF MarkAt
    <3>3. QED BY <3>1, <3>2
  <2>2. QED BY <2>1 DEF PlainBetween
<1>3. k.words = Fragment(s, h, p) /\ k.headers = {2} /\ k.trailers = {}
  BY DEF Opened, HeaderWords
<1>4. Len(c.words) = n /\ n > 0
  BY CutLength DEF Cut
<1>5. PICK a : a = AppendPart(k, c, 0, n)
  OBVIOUS
<1>6. /\ a.words = Fragment(s, h, p + n)
      /\ a.headers = k.headers \cup Shifted(c.headers, 0, n, p - h + 3)
      /\ a.trailers = k.trailers \cup Shifted(c.trailers, 0, n, p - h + 3)
      /\ a.size = p - h + 3 + n
  <2>1. k.words = Fragment(s, h, p)
    BY <1>3
  <2>2. ASSUME NEW m \in Nat, m > 0, m <= n, a = AppendPart(k, c, 0, m)
        PROVE  /\ a.words = Fragment(s, h, p + m)
               /\ a.headers = k.headers \cup Shifted(c.headers, 0, m, p - h + 3)
               /\ a.trailers = k.trailers \cup Shifted(c.trailers, 0, m, p - h + 3)
               /\ a.size = p - h + 3 + m
    BY <2>1, <2>2, PartGoesOn
  <2>3. QED BY <1>4, <1>5, <2>2
<1>7. r = [a EXCEPT !.size = @ + n]
  BY <1>4, <1>5 DEF Grown, AppendAll
<1>8. /\ r.words = a.words /\ r.headers = a.headers /\ r.trailers = a.trailers
      /\ r.size = p - h + 3 + n + n
  BY <1>5, <1>6, <1>7 DEF AppendPart
<1>9. /\ Shifted(c.headers, 0, n, p - h + 3) = {}
      /\ Shifted(c.trailers, 0, n, p - h + 3) = {}
  BY DEF Shifted, NoMarks
<1>10. r.size \in Nat
  BY <1>8
<1>11. QED BY <1>1, <1>2, <1>3, <1>6, <1>8, <1>9, <1>10 DEF Opened, HeaderWords

-----------------------------------------------------------------------------
(***************************************************************************)
(* The bank before and after a call that finds no more than one spill.     *)
(***************************************************************************)
LEMMA FirstMarks ==
  ASSUME NEW s \in Seq(Word), NEW p \in Nat, NEW n \in Nat, NEW c,
         Cut(s, p, n, c), NEW k, ~MultipleSpills(k, c)
  PROVE  /\ c.headers # {} =>
              First(c.headers) \in Nat /\ Only(c.headers, First(c.headers))
         /\ c.trailers # {} =>
              First(c.trailers) \in Nat /\ Only(c.trailers, First(c.trailers))
<1>1. c.headers \subseteq Nat /\ c.trailers \subseteq Nat
  BY DEF Cut
<1>2. ~Several(c.headers) /\ ~Several(c.trailers)
  BY DEF MultipleSpills
<1>3. ASSUME NEW M, M \subseteq Nat, M # {}, ~Several(M)
      PROVE  First(M) \in Nat /\ Only(M, First(M))
  BY <1>3, OnlyMark DEF Only
<1>4. QED BY <1>1, <1>2, <1>3

\* A sound bank is empty or open, and its header mark tells which.
LEMMA SoundBank ==
  ASSUME NEW k, NEW s, NEW p, Sound(k, s, p)
  PROVE  /\ k.headers = {} => k = EmptyBank
         /\ k.headers # {} => \E h \in 1..p : Opened(k, s, h, p)
BY EmptyFields DEF Sound, Opened

\* The header of the container opens a fragment.
LEMMA WhenOpens ==
  ASSUME NEW s \in Seq(Word), NEW p \in Nat, NEW n \in Nat, NEW c,
         Cut(s, p, n, c), NEW k, ~MultipleSpills(k, c), c.headers # {},
         c.trailers = {} \/ First(c.trailers) <= First(c.headers),
         NEW e, e = EmptyBank
  PROVE  \E h \in p + 1 .. p + n :
           /\ Opened(FromHeader(e, c), s, h, p + n)
           /\ \A g \in p + 1 .. p + n : HeaderAt(s, g) => g = h
<1>1. PICK f \in Nat : f = First(c.headers) /\ Only(c.headers, f)
  BY FirstMarks
<1>2. c.trailers = {} \/ \E q \in Nat : q <= f /\ Only(c.trailers, q)
  BY <1>1, FirstMarks
<1>3. FromHeader(e, c) = AppendPart(e, c, f, n - f)
  BY <1>1, CutLength DEF FromHeader
<1>4. p + f + 1 \in p + 1 .. p + n /\ Opened(FromHeader(e, c), s, p + f + 1, p + n)
  BY <1>1, <1>2, <1>3, OpensFragment
<1>5. \A g \in p + 1 .. p + n : HeaderAt(s, g) => g = p + f + 1
  BY <1>1, HeaderIn
<1>6. QED BY <1>4, <1>5

\* A whole spill is in the container.
LEMMA WhenWhole ==
  ASSUME NEW s \in Seq(Word), NEW p \in Nat, NEW n \in Nat, NEW c,
         Cut(s, p, n, c), NEW k, ~MultipleSpills(k, c), Sound(k, s, p),
         Whole(k, c)
  PROVE  \E h, t \in p + 1 .. p + n :
           /\ Holds(Filled(k, c), s, h, t)
           /\ \A g \in p + 1 .. p + n : HeaderAt(s, g) => g = h
<1>1. /\ k = EmptyBank /\ c.headers # {} /\ c.trailers # {}
      /\ First(c.trailers) >= First(c.headers)
  BY SoundBank DEF Whole, TrailerAfterHeader
<1>2. PICK f \in Nat : f = First(c.headers) /\ Only(c.headers, f)
  BY <1>1, FirstMarks
<1>3. PICK q \in Nat : q = First(c.trailers) /\ Only(c.trailers, q)
  BY <1>1, FirstMarks
<1>4. f <= q
  BY <1>1, <1>2, <1>3
<1>5. Filled(k, c) = AppendPart(k, c, f, q - f + 1)
  BY <1>2, <1>3 DEF Filled
<1>6. /\ p + f + 1 \in p + 1 .. p + n /\ p + q + 1 \in p + 1 .. p + n
      /\ Holds(Filled(k, c), s, p + f + 1, p + q + 1)
  BY <1>1, <1>2, <1>3, <1>4, <1>5, HoldsWhole
<1>7. \A g \in p + 1 .. p + n : HeaderAt(s, g) => g = p + f + 1
  BY <1>2, HeaderIn
<1>8. QED BY <1>6, <1>7

\* The open fragment ends in the container.
LEMMA WhenEnds ==
  ASSUME NEW s \in Seq(Word), NEW p \in Nat, NEW n \in Nat, NEW c,
         Cut(s, p, n, c), NEW k, ~MultipleSpills(k, c), Sound(k, s, p),
         Ends(k, c) \/ EndsAndStarts(k, c)
  PROVE  \E h \in 1..p, t \in p + 1 .. p + n :
           Opened(k, s, h, p) /\ Holds(Filled(k, c), s, h, t)
<1>1. /\ k.headers # {} /\ c.trailers # {}
      /\ \/ c.headers = {}
         \/ c.headers # {} /\ First(c.trailers) <= First(c.headers)
  <2>1. CASE Ends(k, c)
    <3>1. k.headers # {} /\ c.trailers # {} /\ c.headers = {}
      BY <2>1, Zenon DEF Ends, InSpill
    <3>2. QED BY <3>1
  <2>2. CASE EndsAndStarts(k, c)
    BY <2>2, Zenon DEF EndsAndStarts, InSpill
  <2>3. QED BY <2>1, <2>2
<1>2. PICK h \in 1..p : Opened(k, s, h, p)
  BY <1>1, SoundBank
<1>3. PICK q \in Nat : q = First(c.trailers) /\ Only(c.trailers, q)
  BY <1>1, FirstMarks
<1>4. c.headers = {} \/ \E f \in Nat : q <= f /\ Only(c.headers, f)
  BY <1>1, <1>3, FirstMarks
<1>5. Filled(k, c) = AppendPart(k, c, 0, q + 1)
  BY <1>1, <1>3 DEF Filled, Whole
<1>6. h \in Nat /\ 1 <= h /\ h <= p
  OBVIOUS
<1>7. p + q + 1 \in p + 1 .. p + n /\ Holds(Filled(k, c), s, h, p + q + 1)
  BY <1>2, <1>3, <1>4, <1>5, <1>6, HoldsEnd
<1>8. QED BY <1>2, <1>7

\* The open fragment goes on.
LEMMA WhenGoesOn ==
  ASSUME NEW s \in Seq(Word), NEW p \in Nat, NEW n \in Nat, NEW c,
         Cut(s, p, n, c), NEW k, Sound(k, s, p), Continues(k, c)
  PROVE  \E h \in 1..p :
           Opened(k, s, h, p) /\ Opened(Grown(k, c), s, h, p + n)
<1>1. k.headers # {} /\ NoMarks(c)
  BY DEF Continues, InSpill, NoMarks
<1>2. PICK h \in 1..p : Opened(k, s, h, p)
  BY <1>1, SoundBank
<1>3. h \in Nat /\ 1 <= h /\ h <= p
  OBVIOUS
<1>4. Opened(Grown(k, c), s, h, p + n)
  BY <1>1, <1>2, <1>3, GoesOn
<1>5. QED BY <1>2, <1>4

\* The ways exclude one another.
LEMMA BankAfterWay ==
  ASSUME NEW k, NEW c
  PROVE  /\ Starts(k, c) => BankAfter(k, c) = FromHeader(k, c)
         /\ Continues(k, c) => BankAfter(k, c) = Grown(k, c)
         /\ Whole(k, c) \/ Ends(k, c) => BankAfter(k, c) = EmptyBank
         /\ EndsAndStarts(k, c) => BankAfter(k, c) = FromHeader(EmptyBank, c)
         /\ Skips(k, c) => BankAfter(k, c) = k
BY DEF BankAfter, Starts, Continues, Whole, Ends, EndsAndStarts, Skips, InSpill

\* What h, the place of a header, has become when p words are delivered.
Kept(k, s, h, p) ==
  (\E t \in 1..p : IsSpill(s, h, t)) \/ k.words = Fragment(s, h, p)

\* The bank stays sound.
LEMMA SoundAfter ==
  ASSUME NEW s \in Seq(Word), NEW p \in Nat, NEW n \in Nat, NEW c,
         Cut(s, p, n, c), NEW k, ~MultipleSpills(k, c), Sound(k, s, p),
         Expected(k, c), ~Skips(k, c)
  PROVE  Sound(BankAfter(k, c), s, p + n)
<1>1. CASE Starts(k, c)
  <2>1. /\ k = EmptyBank /\ c.headers # {}
        /\ c.trailers = {} \/ ~TrailerAfterHeader(c)
    BY <1>1, SoundBank, Zenon DEF Starts
  <2>2. c.trailers = {} \/ First(c.trailers) <= First(c.headers)
    BY <2>1, FirstMarks DEF TrailerAfterHeader
  <2>3. PICK h \in p + 1 .. p + n : Opened(FromHeader(k, c), s, h, p + n)
    BY <2>1, <2>2, WhenOpens
  <2>4. h \in 1 .. p + n
    OBVIOUS
  <2>5. QED BY <1>1, <2>3, <2>4, BankAfterWay DEF Sound
<1>2. CASE Continues(k, c)
  <2>1. PICK h \in 1..p : Opened(Grown(k, c), s, h, p + n)
    BY <1>2, WhenGoesOn
  <2>2. h \in 1 .. p + n
    OBVIOUS
  <2>3. QED BY <1>2, <2>1, <2>2, BankAfterWay DEF Sound
<1>3. CASE Whole(k, c) \/ Ends(k, c)
  BY <1>3, BankAfterWay DEF Sound
<1>4. CASE EndsAndStarts(k, c)
  <2>1. c.headers # {} /\ First(c.trailers) <= First(c.headers)
    BY <1>4, Zenon DEF EndsAndStarts
  <2>2. PICK h \in p + 1 .. p + n :
          Opened(FromHeader(EmptyBank, c), s, h, p + n)
    BY <2>1, WhenOpens
  <2>3. h \in 1 .. p + n
    OBVIOUS
  <2>4. QED BY <1>4, <2>2, <2>3, BankAfterWay DEF Sound
<1>5. QED BY <1>1, <1>2, <1>3, <1>4 DEF Expected, Completes

\* A header of the container is kept.
LEMMA NewHeaderKept ==
  ASSUME NEW s \in Seq(Word), NEW p \in Nat, NEW n \in Nat, NEW c,
         Cut(s, p, n, c), NEW k, ~MultipleSpills(k, c), Sound(k, s, p),
         Expected(k, c), NEW g \in p + 1 .. p + n, HeaderAt(s, g)
  PROVE  Kept(BankAfter(k, c), s, g, p + n)
<1>1. c.headers # {}
  BY NoMarkIn
<1>2. CASE Starts(k, c)
  <2>1. k = EmptyBank /\ (c.trailers = {} \/ ~TrailerAfterHeader(c))
    BY <1>2, SoundBank, Zenon DEF Starts
  <2>2. c.trailers = {} \/ First(c.trailers) <= First(c.headers)
    BY <1>1, <2>1, FirstMarks DEF TrailerAfterHeader
  <2>3. PICK h \in p + 1 .. p + n :
          Opened(FromHeader(k, c), s, h, p + n) /\ g = h
    BY <1>1, <2>1, <2>2, WhenOpens
  <2>4. QED BY <1>2, <2>3, BankAfterWay DEF Kept, Opened
<1>3. CASE Whole(k, c)
  <2>1. PICK h, t \in p + 1 .. p + n : Holds(Filled(k, c), s, h, t) /\ g = h
    BY <1>3, WhenWhole
  <2>2. t \in 1 .. p + n
    OBVIOUS
  <2>3. QED BY <2>1, <2>2 DEF Kept, Holds
<1>4. CASE EndsAndStarts(k, c)
  <2>1. First(c.trailers) <= First(c.headers)
    BY <1>4, Zenon DEF EndsAndStarts
  <2>2. PICK h \in p + 1 .. p + n :
          Opened(FromHeader(EmptyBank, c), s, h, p + n) /\ g = h
    BY <1>1, <2>1, WhenOpens
  <2>3. QED BY <1>4, <2>2, BankAfterWay DEF Kept, Opened
<1>5. ~Skips(k, c) /\ ~Continues(k, c) /\ ~Ends(k, c)
  BY <1>1, Zenon DEF Skips, Continues, Ends
<1>6. QED BY <1>2, <1>3, <1>4, <1>5, Zenon DEF Expected, Completes

\* A header that was kept before stays kept.
LEMMA OldHeaderKept ==
  ASSUME NEW s \in Seq(Word), NEW p \in Nat, NEW n \in Nat, NEW c,
         Cut(s, p, n, c), NEW k, ~MultipleSpills(k, c), Sound(k, s, p),
         Expected(k, c), NEW g \in 1..p, Kept(k, s, g, p)
  PROVE  Kept(BankAfter(k, c), s, g, p + n)
<1>1. CASE \E t \in 1..p : IsSpill(s, g, t)
  <2>1. PICK t \in 1..p : IsSpill(s, g, t)
    BY <1>1
  <2>2. t \in 1 .. p + n
    OBVIOUS
  <2>3. QED BY <2>1, <2>2 DEF Kept
<1>2. CASE k.words = Fragment(s, g, p)
  <2>1. p <= Len(s)
    BY DEF Cut
  <2>2. Len(k.words) = p - g + 3
    <3>1. g \in 1..Len(s) /\ p \in g..Len(s)
      BY <2>1
    <3>2. Len(Fragment(s, g, p)) = p - g + 3
      BY <3>1, FragmentFacts
    <3>3. QED BY <1>2, <3>2
  <2>3. k # EmptyBank
    <3>1. CASE k = EmptyBank
      <4>1. Len(k.words) = 2
        BY <3>1, EmptyFields
      <4>2. p - g + 3 # 2
        OBVIOUS
      <4>3. QED BY <2>2, <4>1, <4>2
    <3>2. QED BY <3>1
  <2>4. k.headers # {}
    BY <2>3, SoundBank
  <2>5. ASSUME NEW h \in 1..p, Opened(k, s, h, p) PROVE h = g
    <3>1. h \in 1..Len(s) /\ p \in h..Len(s)
      BY <2>1
    <3>2. Len(k.words) = p - h + 3
      BY <2>5, <3>1, FragmentFacts DEF Opened
    <3>3. QED BY <2>2, <3>2
  <2>6. CASE Continues(k, c)
    <3>1. PICK h \in 1..p : Opened(k, s, h, p) /\ Opened(Grown(k, c), s, h, p + n)
      BY <2>6, WhenGoesOn
    <3>2. h = g
      BY <2>5, <3>1
    <3>3. QED BY <2>6, <3>1, <3>2, BankAfterWay DEF Kept, Opened
  <2>7. CASE Ends(k, c) \/ EndsAndStarts(k, c)
    <3>1. PICK h \in 1..p, t \in p + 1 .. p + n :
            Opened(k, s, h, p) /\ Holds(Filled(k, c), s, h, t)
      BY <2>7, WhenEnds
    <3>2. h = g
      BY <2>5, <3>1
    <3>3. t \in 1 .. p + n
      OBVIOUS
    <3>4. QED BY <3>1, <3>2, <3>3 DEF Kept, Holds
  <2>8. ~Skips(k, c) /\ ~Starts(k, c) /\ ~Whole(k, c)
    BY <2>4, Zenon DEF Skips, Starts, Whole
  <2>9. QED BY <2>6, <2>7, <2>8, Zenon DEF Expected, Completes
<1>3. QED BY <1>1, <1>2 DEF Kept

\* Nothing but data in a container that is skipped.
LEMMA SoundSkipped ==
  ASSUME NEW s, NEW p \in Nat, NEW n \in Nat, NEW k, NEW c,
         Sound(k, s, p), Skips(k, c)
  PROVE  Sound(BankAfter(k, c), s, p + n)
<1>1. k = EmptyBank
  BY SoundBank DEF Skips
<1>2. QED BY <1>1, BankAfterWay DEF Sound

-----------------------------------------------------------------------------
(***************************************************************************)
(* What is handed to the event bank, and the types.                        *)
(***************************************************************************)
\* A fragment that is complete is a spill of the stream.
LEMMA FilledHolds ==
  ASSUME NEW s \in Seq(Word), NEW p \in Nat, NEW n \in Nat, NEW c,
         Cut(s, p, n, c), NEW k, ~MultipleSpills(k, c), Sound(k, s, p),
         Completes(k, c)
  PROVE  \E h, t \in 1 .. p + n : Holds(Filled(k, c), s, h, t)
<1>1. CASE Whole(k, c)
  <2>1. PICK h, t \in p + 1 .. p + n : Holds(Filled(k, c), s, h, t)
    BY <1>1, WhenWhole
  <2>2. h \in 1 .. p + n /\ t \in 1 .. p + n
    OBVIOUS
  <2>3. QED BY <2>1, <2>2
<1>2. CASE Ends(k, c) \/ EndsAndStarts(k, c)
  <2>1. PICK h \in 1..p, t \in p + 1 .. p + n : Holds(Filled(k, c), s, h, t)
    BY <1>2, WhenEnds
  <2>2. h \in 1 .. p + n /\ t \in 1 .. p + n
    OBVIOUS
  <2>3. QED BY <2>1, <2>2
<1>3. QED BY <1>1, <1>2 DEF Completes

\* Genuine, for a stream s of which p words were delivered.
GenuineIn(k, s, p) ==
  /\ \E h, t \in 1..p : IsSpill(s, h, t) /\ k.words = Fragment(s, h, t)
  /\ k.size = Len(k.words)
  /\ k.headers = {HeaderWords}
  /\ k.trailers = {Len(k.words) - 1}
  /\ LET h == k.words[HeaderWords + 1]
         t == k.words[Len(k.words) - 2]
     IN  h.tag = t.tag /\ h.board = t.board

\* The length of a bank that holds a spill.
LEMMA HoldsLength ==
  ASSUME NEW s \in Seq(Word), NEW p \in Nat, p <= Len(s),
         NEW h \in 1..p, NEW t \in 1..p, NEW k, Holds(k, s, h, t)
  PROVE  /\ k.words \in Seq(Word) /\ Len(k.words) = t - h + 3
         /\ h < t /\ t - h \in Nat
<1>1. h < t /\ k.words = Fragment(s, h, t)
  BY DEF Holds, IsSpill
<1>2. h \in 1..Len(s) /\ t \in h..Len(s)
  BY <1>1
<1>3. Fragment(s, h, t) \in Seq(Word) /\ Len(Fragment(s, h, t)) = t - h + 3
  BY <1>2, FragmentFacts
<1>4. QED BY <1>1, <1>3

\* A spill whose trailer matches is genuine.
LEMMA HoldsGenuine ==
  ASSUME NEW s \in Seq(Word), NEW p \in Nat, p <= Len(s),
         NEW h \in 1..p, NEW t \in 1..p, NEW k, Holds(k, s, h, t),
         SpillMatches(k)
  PROVE  GenuineIn(k, s, p)
<1>1. Len(k.words) = t - h + 3 /\ t - h \in Nat
  BY HoldsLength
<1>2. IsSpill(s, h, t) /\ k.words = Fragment(s, h, t)
  BY DEF Holds
<1>3. k.headers = {2} /\ k.trailers = {t - h + 2} /\ k.size = t - h + 3
  BY DEF Holds
<1>4. First(k.headers) = 2 /\ First(k.trailers) = t - h + 2
  <2>1. \A m \in Nat : First({m}) = m
    BY OneMark
  <2>2. t - h + 2 \in Nat /\ 2 \in Nat
    BY <1>1
  <2>3. QED BY <1>3, <2>1, <2>2
<1>5. First(k.headers) + 1 = HeaderWords + 1
  BY <1>4 DEF HeaderWords
<1>6. First(k.trailers) - 2 + 1 = Len(k.words) - 2
  BY <1>1, <1>4
<1>7. LET x == k.words[HeaderWords + 1]
          y == k.words[Len(k.words) - 2]
      IN  x.tag = y.tag /\ x.board = y.board
  BY <1>5, <1>6 DEF SpillMatches
<1>8. k.headers = {HeaderWords} /\ k.trailers = {Len(k.words) - 1}
      /\ k.size = Len(k.words)
  <2>1. Len(k.words) - 1 = t - h + 2
    BY <1>1
  <2>2. QED BY <1>1, <1>3, <2>1 DEF HeaderWords
<1>9. QED BY <1>2, <1>7, <1>8 DEF GenuineIn

\* It stays genuine when more is delivered.
LEMMA GenuineStays ==
  ASSUME NEW k, NEW s, NEW p \in Nat, NEW n \in Nat, GenuineIn(k, s, p)
  PROVE  GenuineIn(k, s, p + n)
<1>1. PICK h, t \in 1..p : IsSpill(s, h, t) /\ k.words = Fragment(s, h, t)
  BY DEF GenuineIn
<1>2. h \in 1 .. p + n /\ t \in 1 .. p + n
  OBVIOUS
<1>3. QED BY <1>1, <1>2 DEF GenuineIn

\* The fields of a bank, and that it is one.
Fields(r) ==
  /\ r.words \in Seq(Word) /\ r.headers \subseteq Nat
  /\ r.trailers \subseteq Nat /\ r.size \in Nat

\* The fields and marks of a bank that holds a spill.
LEMMA HoldsFields ==
  ASSUME NEW s \in Seq(Word), NEW p \in Nat, p <= Len(s),
         NEW h \in 1..p, NEW t \in 1..p, NEW k, Holds(k, s, h, t)
  PROVE  Fields(k) /\ MarksInside(k)
<1>1. /\ k.words \in Seq(Word) /\ Len(k.words) = t - h + 3
      /\ h < t /\ t - h \in Nat
  BY HoldsLength
<1>2. k.headers = {2} /\ k.trailers = {t - h + 2} /\ k.size = t - h + 3
  BY DEF Holds
<1>3. 2 \in 0 .. (t - h + 3) - 1 /\ t - h + 2 \in 0 .. (t - h + 3) - 1
  BY <1>1
<1>4. t - h + 2 \in Nat /\ t - h + 3 \in Nat
  BY <1>1
<1>5. Fields(k)
  BY <1>1, <1>2, <1>4 DEF Fields
<1>6. MarksInside(k)
  BY <1>1, <1>2, <1>3 DEF MarksInside
<1>7. QED BY <1>5, <1>6

\* The fields and marks of a bank between two calls.
LEMMA SoundFields ==
  ASSUME NEW s \in Seq(Word), NEW p \in Nat, p <= Len(s), NEW k,
         Sound(k, s, p)
  PROVE  Fields(k) /\ MarksInside(k)
<1>1. CASE k = EmptyBank
  <2>1. EmptyBank.words \in Seq(Word)
    BY EmptyFields, HeaderBlockType
  <2>2. Fields(EmptyBank)
    BY <2>1, EmptyFields DEF Fields
  <2>3. MarksInside(EmptyBank)
    BY EmptyFields DEF MarksInside
  <2>4. QED BY <1>1, <2>2, <2>3
<1>2. ASSUME NEW h \in 1..p, Opened(k, s, h, p)
      PROVE  Fields(k) /\ MarksInside(k)
  <2>1. h \in 1..Len(s) /\ p \in h..Len(s)
    OBVIOUS
  <2>2. Fragment(s, h, p) \in Seq(Word) /\ Len(Fragment(s, h, p)) = p - h + 3
    BY <2>1, FragmentFacts
  <2>3. k.words \in Seq(Word) /\ Len(k.words) = p - h + 3
    BY <1>2, <2>2 DEF Opened
  <2>4. k.headers = {2} /\ k.trailers = {} /\ k.size \in Nat
    BY <1>2 DEF Opened, HeaderWords
  <2>5. 2 \in 0 .. (p - h + 3) - 1
    OBVIOUS
  <2>6. Fields(k)
    BY <2>3, <2>4 DEF Fields
  <2>7. MarksInside(k)
    BY <2>3, <2>4, <2>5 DEF MarksInside
  <2>8. QED BY <2>6, <2>7
<1>3. QED BY <1>1, <1>2 DEF Sound

\* A bank that a call leaves is a record with the fields of a bank.
LEMMA BankShape ==
  ASSUME NEW k \in Bank, NEW c, NEW r, Fields(r),
         \/ Expected(k, c) /\ r = BankAfter(k, c)
         \/ r = Filled(k, c)
  PROVE  r \in Bank
<1>1. ASSUME NEW a, NEW f, NEW m, r = AppendPart(a, c, f, m) PROVE r \in Bank
  BY <1>1 DEF AppendPart, Bank, Fields
<1>2. CASE r = Grown(k, c)
  <2>1. PICK a : a = AppendAll(k, c)
    OBVIOUS
  <2>2. r = [a EXCEPT !.size = @ + Len(c.words)]
    BY <1>2, <2>1 DEF Grown
  <2>3. QED BY <2>1, <2>2 DEF AppendAll, AppendPart, Bank, Fields
<1>3. CASE r = EmptyBank
  BY <1>3 DEF EmptyBank, Bank, Fields
<1>4. CASE r = Filled(k, c)
  BY <1>1, <1>4 DEF Filled
<1>5. CASE r = FromHeader(k, c) \/ r = FromHeader(EmptyBank, c)
  BY <1>1, <1>5 DEF FromHeader
<1>6. CASE Expected(k, c) /\ r = BankAfter(k, c)
  BY <1>2, <1>3, <1>5, <1>6, BankAfterWay DEF Expected, Completes
<1>7. QED BY <1>4, <1>6

\* What it tells of a call whether it throws.
LEMMA ThrownCases ==
  ASSUME NEW b, NEW k, NEW c
  PROVE  /\ Thrown(b, k, c) = NoError =>
              /\ ~MultipleSpills(k, c) /\ Expected(k, c)
              /\ Completes(k, c) => SpillMatches(Filled(k, c))
         /\ Thrown(b, k, c) = "spill data mismatch" =>
              ~MultipleSpills(k, c) /\ Completes(k, c)
         /\ Thrown(b, k, c) \in Errors \cup {NoError}
BY DEF Thrown, NoError, Errors, WrongBoard

-----------------------------------------------------------------------------
(***************************************************************************)
(* The fragments of a stream, as more of it is delivered.                  *)
(***************************************************************************)
\* The spills in the first p words of s.
PlacesUpTo(s, p) == {x \in (1..p) \X (1..p) : IsSpill(s, x[1], x[2])}

\* They are the spills of these words, with the same fragments.
LEMMA PrefixSpills ==
  ASSUME NEW s \in Seq(Word), NEW p \in Nat, p <= Len(s)
  PROVE  /\ SpillPlaces(SubSeq(s, 1, p)) = PlacesUpTo(s, p)
         /\ \A h, t \in 1..p : h < t =>
              Fragment(SubSeq(s, 1, p), h, t) = Fragment(s, h, t)
<1> DEFINE u == SubSeq(s, 1, p)
<1>1. /\ u \in Seq(Word) /\ Len(u) = p
      /\ \A i \in 1..p : u[i] = s[i]
  <2>1. \A i \in 1..p : s[i] \in Word
    OBVIOUS
  <2>2. QED
    BY <2>1, SubSeqProperties
<1> HIDE DEF u
<1>2. ASSUME NEW h \in 1..p, NEW t \in 1..p
      PROVE  IsSpill(u, h, t) <=> IsSpill(s, h, t)
  <2>1. u[h] = s[h] /\ u[t] = s[t]
    BY <1>1
  <2>2. \A i \in h + 1 .. t - 1 : u[i] = s[i]
    BY <1>1
  <2>3. QED
    BY <2>1, <2>2 DEF IsSpill, PlainBetween, MarkAt, HeaderAt, TrailerAt
<1>3. SpillPlaces(u) = PlacesUpTo(s, p)
  BY <1>1, <1>2 DEF SpillPlaces, PlacesUpTo
<1>4. ASSUME NEW h \in 1..p, NEW t \in 1..p, h < t
      PROVE  SubSeq(u, h, t) = SubSeq(s, h, t)
  <2>1. /\ \A i \in h..t : u[i] = s[i]
        /\ \A i \in h..t : s[i] \in Word
    BY <1>1, <1>4
  <2>2. /\ SubSeq(u, h, t) \in Seq(Word) /\ Len(SubSeq(u, h, t)) = t - h + 1
        /\ \A i \in 1 .. t - h + 1 : SubSeq(u, h, t)[i] = u[h + i - 1]
    BY <1>4, <2>1, SubSeqProperties
  <2>3. /\ SubSeq(s, h, t) \in Seq(Word) /\ Len(SubSeq(s, h, t)) = t - h + 1
        /\ \A i \in 1 .. t - h + 1 : SubSeq(s, h, t)[i] = s[h + i - 1]
    BY <1>4, <2>1, SubSeqProperties
  <2>4. \A i \in 1 .. t - h + 1 : SubSeq(u, h, t)[i] = SubSeq(s, h, t)[i]
    BY <2>1, <2>2, <2>3
  <2>5. QED
    BY <2>2, <2>3, <2>4, SeqEqual
<1>5. QED
  BY <1>3, <1>4 DEF Fragment, u

\* A spill that starts behind all others is the last.
LEMMA RankedGrows ==
  ASSUME NEW P, IsFiniteSet(P), NEW x, x[1] \in Nat,
         \A q \in P : q[1] \in Nat /\ q[1] < x[1]
  PROVE  /\ Cardinality(P) \in Nat /\ Cardinality(P \cup {x}) = Cardinality(P) + 1
         /\ \A i \in 1..Cardinality(P) : Ranked(P \cup {x}, i) = Ranked(P, i)
         /\ Ranked(P \cup {x}, Cardinality(P) + 1) = {x}
<1> DEFINE n == Cardinality(P)
           R == P \cup {x}
           UpTo(A, p) == {q \in A : q[1] <= p[1]}
<1>1. x \notin P
  OBVIOUS
<1>2. n \in Nat /\ Cardinality(R) = n + 1
  BY <1>1, FS_CardinalityType, FS_AddElement
<1>3. ASSUME NEW p \in P
      PROVE  UpTo(R, p) = UpTo(P, p) /\ Cardinality(UpTo(P, p)) \in 0..n
  <2>1. p[1] \in Nat /\ p[1] < x[1]
    OBVIOUS
  <2>2. UpTo(R, p) = UpTo(P, p)
    BY <2>1
  <2>3. UpTo(P, p) \in SUBSET P
    OBVIOUS
  <2> HIDE DEF UpTo
  <2>4. IsFiniteSet(UpTo(P, p)) /\ Cardinality(UpTo(P, p)) <= n
    BY <2>3, FS_Subset
  <2>5. QED
    BY <1>2, <2>2, <2>4, FS_CardinalityType
<1>4. UpTo(R, x) = R
  OBVIOUS
<1> HIDE DEF n, R
<1>5. Cardinality(UpTo(R, x)) = n + 1
  BY <1>2, <1>4
<1>6. \A A, i : Ranked(A, i) = {p \in A : Cardinality(UpTo(A, p)) = i}
  BY DEF Ranked
<1> HIDE DEF UpTo
<1>7. \A p \in P : /\ Cardinality(UpTo(R, p)) = Cardinality(UpTo(P, p))
                   /\ Cardinality(UpTo(P, p)) # n + 1
  BY <1>2, <1>3
<1>8. \A p : p \in R <=> p \in P \/ p = x
  BY DEF R
<1>9. ASSUME NEW i \in 1..n PROVE Ranked(R, i) = Ranked(P, i)
  <2>1. i # n + 1
    BY <1>2
  <2>2. \A p : p \in Ranked(R, i) <=> p \in Ranked(P, i)
    BY <1>5, <1>6, <1>7, <1>8, <2>1
  <2>3. QED
    BY <2>2
<1>10. Ranked(R, n + 1) = {x}
  <2>1. \A p : p \in Ranked(R, n + 1) <=> p = x
    BY <1>5, <1>6, <1>7, <1>8
  <2>2. QED
    BY <2>1
<1>11. QED
  BY <1>2, <1>9, <1>10 DEF n, R

\* The spills of a stream are finitely many, at places of it.
LEMMA PlacesFinite ==
  ASSUME NEW s, NEW p \in Nat
  PROVE  /\ IsFiniteSet(PlacesUpTo(s, p)) /\ Cardinality(PlacesUpTo(s, p)) \in Nat
         /\ \A x \in PlacesUpTo(s, p) :
              /\ x[1] \in 1..p /\ x[2] \in 1..p /\ x = <<x[1], x[2]>>
              /\ IsSpill(s, x[1], x[2])
<1>1. IsFiniteSet((1..p) \X (1..p))
  <2>1. IsFiniteSet(1..p)
    BY FS_Interval
  <2>2. QED
    BY <2>1, FS_Product
<1>2. PlacesUpTo(s, p) \in SUBSET ((1..p) \X (1..p))
  BY DEF PlacesUpTo
<1>3. IsFiniteSet(PlacesUpTo(s, p))
  BY <1>1, <1>2, FS_Subset
<1>4. \A x \in (1..p) \X (1..p) :
        x[1] \in 1..p /\ x[2] \in 1..p /\ x = <<x[1], x[2]>>
  OBVIOUS
<1>5. QED
  BY <1>2, <1>3, <1>4, FS_CardinalityType DEF PlacesUpTo

\* The fragments of the first p words, one by one.
LEMMA FragmentsOfPrefix ==
  ASSUME NEW s \in Seq(Word), NEW p \in Nat, p <= Len(s)
  PROVE  /\ Len(Fragments(SubSeq(s, 1, p))) = Cardinality(PlacesUpTo(s, p))
         /\ Fragments(SubSeq(s, 1, p)) =
              [i \in 1..Cardinality(PlacesUpTo(s, p)) |->
                 Fragment(SubSeq(s, 1, p), Ith(PlacesUpTo(s, p), i)[1],
                          Ith(PlacesUpTo(s, p), i)[2])]
<1> DEFINE u == SubSeq(s, 1, p)
           P == PlacesUpTo(s, p)
<1>1. SpillPlaces(u) = P
  BY PrefixSpills
<1>2. Cardinality(P) \in Nat
  BY PlacesFinite
<1> HIDE DEF u, P
<1>3. Fragments(u) = [i \in 1..Cardinality(P) |->
                        Fragment(u, Ith(P, i)[1], Ith(P, i)[2])]
  BY <1>1, Zenon DEF Fragments
<1>4. Len(Fragments(u)) = Cardinality(P)
  BY <1>2, <1>3
<1>5. QED
  BY <1>3, <1>4, Zenon DEF u, P

\* Of spills that start apart there is just one of each rank.
LEMMA OneOfEachRank ==
  ASSUME NEW P, IsFiniteSet(P), \A x \in P : x[1] \in Nat,
         \A x, y \in P : x[1] = y[1] => x = y,
         NEW i \in 1..Cardinality(P)
  PROVE  Ith(P, i) \in P /\ Ranked(P, i) = {Ith(P, i)}
<1> DEFINE n == Cardinality(P)
           UpTo(p) == {q \in P : q[1] <= p[1]}
           rank == [p \in P |-> Cardinality(UpTo(p))]
<1>1. n \in Nat
  BY FS_CardinalityType
<1>2. ASSUME NEW p \in P
      PROVE  /\ IsFiniteSet(UpTo(p)) /\ Cardinality(UpTo(p)) \in 1..n
  <2>1. UpTo(p) \in SUBSET P /\ p \in UpTo(p)
    OBVIOUS
  <2> HIDE DEF UpTo
  <2>2. IsFiniteSet(UpTo(p)) /\ Cardinality(UpTo(p)) <= n
    BY <2>1, FS_Subset
  <2>3. Cardinality(UpTo(p)) \in Nat /\ Cardinality(UpTo(p)) # 0
    BY <2>1, <2>2, FS_CardinalityType, FS_EmptySet
  <2>4. QED
    BY <1>1, <2>2, <2>3
<1>3. ASSUME NEW p \in P, NEW q \in P, Cardinality(UpTo(p)) = Cardinality(UpTo(q))
      PROVE  p = q
  <2>1. ASSUME NEW a \in P, NEW b \in P, a[1] < b[1],
               Cardinality(UpTo(a)) = Cardinality(UpTo(b))
        PROVE  FALSE
    <3>1. /\ UpTo(a) \in SUBSET UpTo(b) /\ b \in UpTo(b) /\ b \notin UpTo(a)
      BY <2>1
    <3>2. IsFiniteSet(UpTo(b))
      BY <1>2
    <3> HIDE DEF UpTo
    <3>3. UpTo(a) = UpTo(b)
      BY <2>1, <3>1, <3>2, FS_Subset
    <3>4. QED
      BY <3>1, <3>3
  <2> HIDE DEF UpTo
  <2>2. ~(p[1] < q[1]) /\ ~(q[1] < p[1])
    BY <1>3, <2>1
  <2>3. p[1] = q[1]
    BY <2>2
  <2>4. QED
    BY <2>3
<1> HIDE DEF n, UpTo
<1>4. rank \in Injection(P, 1..n)
  BY <1>2, <1>3 DEF Injection, IsInjective
<1>5. IsFiniteSet(1..n) /\ Cardinality(1..n) = n
  <2>1. 1 \in Int /\ n \in Int
    BY <1>1
  <2>2. IsFiniteSet(1..n) /\ Cardinality(1..n) = IF 1 > n THEN 0 ELSE n - 1 + 1
    BY <2>1, FS_Interval
  <2>3. QED
    BY <1>1, <2>2
<1>6. rank \in Surjection(P, 1..n)
  <2> HIDE DEF rank
  <2>1. QED
    BY <1>4, <1>5, FS_Injection DEF n
<1>7. PICK x \in P : rank[x] = i
  BY <1>6 DEF Surjection, n
<1>8. Ranked(P, i) = {p \in P : Cardinality(UpTo(p)) = i}
  BY DEF Ranked, UpTo
<1>9. Ranked(P, i) = {x}
  BY <1>3, <1>7, <1>8
<1>10. QED
  BY <1>7, <1>9 DEF Ith

\* A header begins one spill at most, and a trailer ends one.
LEMMA SpillsApart ==
  ASSUME NEW s, NEW h \in Nat, NEW t \in Nat, NEW g \in Nat, NEW u \in Nat,
         IsSpill(s, h, t), IsSpill(s, g, u)
  PROVE  /\ h = g => t = u
         /\ t = u => h = g
         /\ t < u => h < g
<1>1. /\ h < t /\ HeaderAt(s, h) /\ TrailerAt(s, t) /\ PlainBetween(s, h, t - 1)
      /\ g < u /\ HeaderAt(s, g) /\ TrailerAt(s, u) /\ PlainBetween(s, g, u - 1)
  BY DEF IsSpill
<1>2. /\ \A i \in h + 1 .. t - 1 : ~HeaderAt(s, i) /\ ~TrailerAt(s, i)
      /\ \A i \in g + 1 .. u - 1 : ~HeaderAt(s, i) /\ ~TrailerAt(s, i)
  BY <1>1 DEF PlainBetween, MarkAt
<1>3. ASSUME h = g, t # u PROVE FALSE
  <2>1. t \in g + 1 .. u - 1 \/ u \in h + 1 .. t - 1
    BY <1>1, <1>3
  <2>2. QED
    BY <1>1, <1>2, <2>1
<1>4. ASSUME t = u, h # g PROVE FALSE
  <2>1. h \in g + 1 .. u - 1 \/ g \in h + 1 .. t - 1
    BY <1>1, <1>4
  <2>2. QED
    BY <1>1, <1>2, <2>1
<1>5. ASSUME t < u, ~(h < g) PROVE FALSE
  <2>1. t \in g + 1 .. u - 1
    BY <1>1, <1>5
  <2>2. QED
    BY <1>1, <1>2, <2>1
<1>6. QED
  BY <1>3, <1>4, <1>5

\* The i-th spill of the first p words is a spill there.
LEMMA IthSpill ==
  ASSUME NEW s, NEW p \in Nat, NEW P, P = PlacesUpTo(s, p),
         NEW i \in 1..Cardinality(P)
  PROVE  Ith(P, i) \in P /\ Ranked(P, i) = {Ith(P, i)}
<1>1. /\ IsFiniteSet(P)
      /\ \A x \in P : /\ x[1] \in 1..p /\ x[2] \in 1..p /\ x = <<x[1], x[2]>>
                       /\ IsSpill(s, x[1], x[2])
  BY PlacesFinite
<1>2. \A x \in P : x[1] \in Nat
  BY <1>1
<1>3. ASSUME NEW x \in P, NEW y \in P, x[1] = y[1] PROVE x = y
  <2>1. x[1] \in Nat /\ x[2] \in Nat /\ y[1] \in Nat /\ y[2] \in Nat
    BY <1>1
  <2>2. IsSpill(s, x[1], x[2]) /\ IsSpill(s, y[1], y[2])
    BY <1>1
  <2>3. x[2] = y[2]
    BY <1>3, <2>1, <2>2, SpillsApart
  <2>4. QED
    BY <1>1, <1>3, <2>3
<1>4. QED
  BY <1>1, <1>2, <1>3, OneOfEachRank

\* With one more spill, at the end, there is one more fragment, at the end.
LEMMA FragmentsGrow ==
  ASSUME NEW s \in Seq(Word), NEW p \in Nat, NEW r \in Nat, p <= r, r <= Len(s),
         NEW h \in 1..r, NEW t \in 1..r, h < t,
         PlacesUpTo(s, r) = PlacesUpTo(s, p) \cup {<<h, t>>},
         \A x \in PlacesUpTo(s, p) : x[1] < h
  PROVE  Fragments(SubSeq(s, 1, r)) =
           Append(Fragments(SubSeq(s, 1, p)), Fragment(s, h, t))
<1> DEFINE P == PlacesUpTo(s, p)
           R == PlacesUpTo(s, r)
           u == SubSeq(s, 1, p)
           v == SubSeq(s, 1, r)
           n == Cardinality(P)
           x == <<h, t>>
<1>1. /\ IsFiniteSet(P) /\ n \in Nat
      /\ \A y \in P : y[1] \in 1..p /\ y[2] \in 1..p /\ IsSpill(s, y[1], y[2])
  BY PlacesFinite
<1>2. x[1] = h /\ x[2] = t /\ R = P \cup {x}
  OBVIOUS
<1>3. \A y \in P : y[1] \in Nat /\ y[1] < x[1]
  BY <1>1, <1>2
<1> HIDE DEF P, R, x
<1>4. /\ Cardinality(R) = n + 1
      /\ \A i \in 1..n : Ranked(R, i) = Ranked(P, i)
      /\ Ranked(R, n + 1) = {x}
  <2>1. x[1] \in Nat
    BY <1>2
  <2>2. /\ Cardinality(P \cup {x}) = Cardinality(P) + 1
        /\ \A i \in 1..Cardinality(P) : Ranked(P \cup {x}, i) = Ranked(P, i)
        /\ Ranked(P \cup {x}, Cardinality(P) + 1) = {x}
    BY <1>1, <1>3, <2>1, RankedGrows, Zenon
  <2>3. QED
    BY <1>2, <2>2
<1>5. Ith(R, n + 1) = x
  BY <1>4 DEF Ith
<1>6. \A i \in 1..n : Ith(R, i) = Ith(P, i)
  BY <1>4 DEF Ith
<1>7. \A i \in 1..n : Ith(P, i) \in P
  BY IthSpill DEF P
<1>8. Fragments(u) = [i \in 1..n |-> Fragment(u, Ith(P, i)[1], Ith(P, i)[2])]
  <2>1. p <= Len(s)
    OBVIOUS
  <2>2. QED
    BY <2>1, FragmentsOfPrefix, Zenon DEF P, n
<1>9. Fragments(v) = [i \in 1 .. n + 1 |-> Fragment(v, Ith(R, i)[1], Ith(R, i)[2])]
  <2>1. Fragments(v) = [i \in 1..Cardinality(R) |->
                          Fragment(v, Ith(R, i)[1], Ith(R, i)[2])]
    BY FragmentsOfPrefix, Zenon DEF R
  <2>2. QED
    BY <1>4, <2>1
<1>10. ASSUME NEW i \in 1..n
       PROVE  Fragment(v, Ith(R, i)[1], Ith(R, i)[2])
                = Fragment(u, Ith(P, i)[1], Ith(P, i)[2])
  <2>1. /\ Ith(P, i)[1] \in 1..p /\ Ith(P, i)[2] \in 1..p
        /\ Ith(P, i)[1] < Ith(P, i)[2]
    BY <1>1, <1>7 DEF IsSpill
  <2>2. Ith(P, i)[1] \in 1..r /\ Ith(P, i)[2] \in 1..r
    BY <2>1
  <2>3. p <= Len(s)
    OBVIOUS
  <2>4. Fragment(u, Ith(P, i)[1], Ith(P, i)[2]) = Fragment(s, Ith(P, i)[1], Ith(P, i)[2])
    BY <2>1, <2>3, PrefixSpills
  <2>5. Fragment(v, Ith(P, i)[1], Ith(P, i)[2]) = Fragment(s, Ith(P, i)[1], Ith(P, i)[2])
    BY <2>1, <2>2, PrefixSpills
  <2>6. QED
    BY <1>6, <2>4, <2>5
<1>11. Fragment(v, Ith(R, n + 1)[1], Ith(R, n + 1)[2]) = Fragment(s, h, t)
  <2>1. Fragment(v, h, t) = Fragment(s, h, t)
    BY PrefixSpills
  <2>2. QED
    BY <1>2, <1>5, <2>1
<1> HIDE DEF u, v, n
<1>12. Fragments(v) = Append(Fragments(u), Fragment(s, h, t))
  <2> DEFINE F(i) == Fragment(u, Ith(P, i)[1], Ith(P, i)[2])
             G(i) == Fragment(v, Ith(R, i)[1], Ith(R, i)[2])
             z == Fragment(s, h, t)
  <2>1. /\ Fragments(u) = [i \in 1..n |-> F(i)]
        /\ Fragments(v) = [i \in 1 .. n + 1 |-> G(i)]
        /\ \A i \in 1..n : G(i) = F(i)
        /\ G(n + 1) = z /\ n \in Nat
    BY <1>1, <1>8, <1>9, <1>10, <1>11
  <2> HIDE DEF F, G, z
  <2>2. [i \in 1 .. n + 1 |-> G(i)] = Append([i \in 1..n |-> F(i)], z)
    BY <2>1
  <2>3. QED
    BY <2>1, <2>2 DEF z
<1>13. QED
  BY <1>12 DEF u, v

\* With no more spills there are the same fragments.
LEMMA FragmentsStay ==
  ASSUME NEW s \in Seq(Word), NEW p \in Nat, NEW r \in Nat, p <= r, r <= Len(s),
         PlacesUpTo(s, r) = PlacesUpTo(s, p)
  PROVE  Fragments(SubSeq(s, 1, r)) = Fragments(SubSeq(s, 1, p))
<1> DEFINE P == PlacesUpTo(s, p)
           u == SubSeq(s, 1, p)
           v == SubSeq(s, 1, r)
           n == Cardinality(P)
<1>1. p <= Len(s) /\ P = PlacesUpTo(s, r)
  OBVIOUS
<1>2. Fragments(u) = [i \in 1..n |-> Fragment(u, Ith(P, i)[1], Ith(P, i)[2])]
  BY <1>1, FragmentsOfPrefix, Zenon
<1>3. Fragments(v) = [i \in 1..n |-> Fragment(v, Ith(P, i)[1], Ith(P, i)[2])]
  <2>1. Fragments(v) =
          [i \in 1..Cardinality(PlacesUpTo(s, r)) |->
             Fragment(v, Ith(PlacesUpTo(s, r), i)[1], Ith(PlacesUpTo(s, r), i)[2])]
    BY FragmentsOfPrefix, Zenon
  <2>2. QED
    BY <1>1, <2>1
<1>4. ASSUME NEW i \in 1..n
      PROVE  Fragment(v, Ith(P, i)[1], Ith(P, i)[2])
               = Fragment(u, Ith(P, i)[1], Ith(P, i)[2])
  <2>1. Ith(P, i) \in P
    BY IthSpill
  <2>2. /\ Ith(P, i)[1] \in 1..p /\ Ith(P, i)[2] \in 1..p
        /\ Ith(P, i)[1] < Ith(P, i)[2]
    BY <2>1, PlacesFinite DEF IsSpill
  <2>3. Ith(P, i)[1] \in 1..r /\ Ith(P, i)[2] \in 1..r
    BY <2>2
  <2>4. Fragment(u, Ith(P, i)[1], Ith(P, i)[2]) = Fragment(s, Ith(P, i)[1], Ith(P, i)[2])
    BY <1>1, <2>2, PrefixSpills
  <2>5. Fragment(v, Ith(P, i)[1], Ith(P, i)[2]) = Fragment(s, Ith(P, i)[1], Ith(P, i)[2])
    BY <2>2, <2>3, PrefixSpills
  <2>6. QED
    BY <2>4, <2>5
<1>5. QED
  BY <1>2, <1>3, <1>4

\* Spills that start behind the others have the ranks behind them.
LEMMA RankedPrefix ==
  ASSUME NEW R, IsFiniteSet(R), NEW P, P \subseteq R, \A x \in R : x[1] \in Nat,
         \A q \in P, x \in R \ P : q[1] < x[1]
  PROVE  /\ Cardinality(P) \in Nat /\ Cardinality(R) \in Nat
         /\ Cardinality(P) <= Cardinality(R)
         /\ \A i \in 1..Cardinality(P) : Ranked(R, i) = Ranked(P, i)
<1> DEFINE B(Q, x) == {q \in Q : q[1] <= x[1]}
<1>1. /\ IsFiniteSet(P) /\ Cardinality(P) \in Nat /\ Cardinality(R) \in Nat
      /\ Cardinality(P) <= Cardinality(R)
  <2>1. IsFiniteSet(P) /\ Cardinality(P) <= Cardinality(R)
    BY FS_Subset
  <2>2. QED
    BY <2>1, FS_CardinalityType
<1>2. ASSUME NEW x \in P PROVE B(R, x) = B(P, x)
  <2>1. \A q \in R \ P : ~(q[1] <= x[1])
    <3>1. ASSUME NEW q \in R \ P PROVE ~(q[1] <= x[1])
      <4>1. x[1] < q[1] /\ x[1] \in Nat /\ q[1] \in Nat
        BY <1>2
      <4>2. QED
        BY <4>1
    <3>2. QED
      BY <3>1
  <2>2. QED
    BY <2>1
<1>3. ASSUME NEW x \in R \ P PROVE Cardinality(B(R, x)) > Cardinality(P)
  <2>1. P \cup {x} \subseteq B(R, x)
    <3>1. ASSUME NEW q \in P PROVE q \in R /\ q[1] <= x[1]
      <4>1. q[1] < x[1] /\ x[1] \in Nat /\ q[1] \in Nat
        BY <1>3
      <4>2. QED
        BY <4>1
    <3>2. x[1] <= x[1]
      <4>1. x[1] \in Nat
        BY <1>3
      <4>2. QED
        BY <4>1
    <3>3. QED
      BY <3>1, <3>2
  <2>2. IsFiniteSet(B(R, x))
    BY FS_Subset
  <2> HIDE DEF B
  <2>3. Cardinality(P \cup {x}) = Cardinality(P) + 1
    BY <1>1, <1>3, FS_AddElement
  <2>4. Cardinality(P \cup {x}) <= Cardinality(B(R, x))
        /\ Cardinality(B(R, x)) \in Nat
    BY <2>1, <2>2, FS_Subset, FS_CardinalityType
  <2>5. QED
    BY <1>1, <2>3, <2>4
<1>4. /\ \A i : Ranked(R, i) = {x \in R : Cardinality(B(R, x)) = i}
      /\ \A i : Ranked(P, i) = {x \in P : Cardinality(B(P, x)) = i}
  BY DEF Ranked
<1> HIDE DEF B
<1>5. ASSUME NEW i \in 1..Cardinality(P) PROVE Ranked(R, i) = Ranked(P, i)
  <2>1. \A x \in R \ P : Cardinality(B(R, x)) # i
    <3>1. ASSUME NEW x \in R \ P, Cardinality(B(R, x)) = i PROVE FALSE
      <4>1. i > Cardinality(P)
        BY <1>3, <3>1
      <4>2. QED
        BY <1>1, <4>1
    <3>2. QED
      BY <3>1
  <2>2. \A x \in P : Cardinality(B(R, x)) = Cardinality(B(P, x))
    BY <1>2
  <2>3. QED
    BY <1>4, <2>1, <2>2
<1>6. QED
  BY <1>1, <1>5

\* The fragments of the first words of a stream are its first fragments.
LEMMA FragmentsArePrefix ==
  ASSUME NEW s \in Seq(Word), NEW p \in Nat, p <= Len(s)
  PROVE  /\ Len(Fragments(SubSeq(s, 1, p))) \in Nat /\ Len(Fragments(s)) \in Nat
         /\ Len(Fragments(SubSeq(s, 1, p))) <= Len(Fragments(s))
         /\ \A i \in 1..Len(Fragments(SubSeq(s, 1, p))) :
              Fragments(SubSeq(s, 1, p))[i] = Fragments(s)[i]
<1> DEFINE u == SubSeq(s, 1, p)
           r == Len(s)
           P == PlacesUpTo(s, p)
           R == PlacesUpTo(s, r)
<1>1. r \in Nat /\ SubSeq(s, 1, r) = s
  <2>1. r \in Nat
    OBVIOUS
  <2>2. /\ SubSeq(s, 1, r) \in Seq(Word) /\ Len(SubSeq(s, 1, r)) = r
        /\ \A i \in 1..r : SubSeq(s, 1, r)[i] = s[i]
    <3>1. \A i \in 1..r : s[i] \in Word
      OBVIOUS
    <3>2. QED
      BY <2>1, <3>1, SubSeqProperties
  <2>3. QED
    BY <2>1, <2>2, SeqEqual
<1>2. /\ IsFiniteSet(P) /\ IsFiniteSet(R)
      /\ \A x \in P : /\ x[1] \in 1..p /\ x[2] \in 1..p /\ x = <<x[1], x[2]>>
                       /\ IsSpill(s, x[1], x[2])
      /\ \A x \in R : /\ x[1] \in 1..r /\ x[2] \in 1..r /\ x = <<x[1], x[2]>>
                       /\ IsSpill(s, x[1], x[2])
  BY <1>1, PlacesFinite
<1>3. P \subseteq R
  <2>1. \A i \in 1..p : i \in 1..r
    BY <1>1
  <2>2. QED
    BY <2>1 DEF PlacesUpTo
<1>4. ASSUME NEW q \in P, NEW x \in R \ P PROVE q[1] < x[1]
  <2>1. x[2] > p
    <3>1. CASE x[2] <= p
      <4>1. x[1] < x[2]
        BY <1>2 DEF IsSpill
      <4>2. x[1] \in 1..p /\ x[2] \in 1..p
        BY <1>2, <3>1, <4>1
      <4>3. x \in P
        BY <1>2, <4>2 DEF PlacesUpTo
      <4>4. QED
        BY <4>3
    <3>2. QED
      BY <1>1, <1>2, <3>1
  <2>2. /\ q[1] \in Nat /\ q[2] \in Nat /\ x[1] \in Nat /\ x[2] \in Nat
        /\ q[2] < x[2] /\ IsSpill(s, q[1], q[2]) /\ IsSpill(s, x[1], x[2])
    BY <1>1, <1>2, <2>1
  <2>3. QED
    BY <2>2, SpillsApart
<1>5. \A x \in R : x[1] \in Nat
  BY <1>2
<1> DEFINE n == Cardinality(P)
<1> HIDE DEF P, R, n
<1>6. /\ n \in Nat /\ Cardinality(R) \in Nat /\ n <= Cardinality(R)
      /\ \A i \in 1..n : Ranked(R, i) = Ranked(P, i)
  BY <1>2, <1>3, <1>4, <1>5, RankedPrefix DEF n
<1>7. \A i \in 1..n : Ith(R, i) = Ith(P, i) /\ Ith(P, i) \in P
  <2>1. \A i \in 1..n : Ith(P, i) \in P
    BY IthSpill DEF P, n
  <2>2. QED
    BY <1>6, <2>1 DEF Ith
<1>8. /\ Len(Fragments(u)) = n
      /\ Fragments(u) = [i \in 1..n |-> Fragment(u, Ith(P, i)[1], Ith(P, i)[2])]
  BY FragmentsOfPrefix, Zenon DEF P, n
<1>9. /\ Len(Fragments(SubSeq(s, 1, r))) = Cardinality(R)
      /\ Fragments(SubSeq(s, 1, r)) =
           [i \in 1..Cardinality(R) |->
              Fragment(SubSeq(s, 1, r), Ith(R, i)[1], Ith(R, i)[2])]
  <2>1. r \in Nat /\ r <= Len(s)
    BY <1>1
  <2> HIDE DEF r
  <2>2. QED
    BY <2>1, FragmentsOfPrefix, Zenon DEF R
<1>10. /\ Len(Fragments(s)) = Cardinality(R)
       /\ Fragments(s) =
            [i \in 1..Cardinality(R) |-> Fragment(s, Ith(R, i)[1], Ith(R, i)[2])]
  BY <1>1, <1>9, Zenon
<1>11. ASSUME NEW i \in 1..n PROVE Fragments(u)[i] = Fragments(s)[i]
  <2>1. Fragments(u)[i] = Fragment(u, Ith(P, i)[1], Ith(P, i)[2])
    BY <1>8
  <2>2. Fragments(s)[i] = Fragment(s, Ith(P, i)[1], Ith(P, i)[2])
    <3>1. i \in 1..Cardinality(R)
      BY <1>6
    <3>2. Fragments(s)[i] = Fragment(s, Ith(R, i)[1], Ith(R, i)[2])
      BY <1>10, <3>1
    <3>3. QED
      BY <1>7, <3>2
  <2>3. /\ Ith(P, i)[1] \in 1..p /\ Ith(P, i)[2] \in 1..p
        /\ Ith(P, i)[1] < Ith(P, i)[2]
    BY <1>2, <1>7 DEF IsSpill
  <2>4. Fragment(u, Ith(P, i)[1], Ith(P, i)[2]) = Fragment(s, Ith(P, i)[1], Ith(P, i)[2])
    BY <2>3, PrefixSpills
  <2>5. QED
    BY <2>1, <2>2, <2>4
<1>12. QED
  BY <1>6, <1>8, <1>10, <1>11

-----------------------------------------------------------------------------
(***************************************************************************)
(* The order of the fragments.                                             *)
(***************************************************************************)
\* In a container with a trailer no other word is one.
LEMMA LastTrailer ==
  ASSUME NEW s \in Seq(Word), NEW p \in Nat, NEW n \in Nat, NEW c,
         Cut(s, p, n, c), NEW k, ~MultipleSpills(k, c),
         NEW t \in p + 1 .. p + n, TrailerAt(s, t)
  PROVE  /\ c.trailers # {}
         /\ t = p + First(c.trailers) + 1
         /\ \A g \in p + 1 .. p + n : TrailerAt(s, g) => g = t
<1>1. c.trailers # {}
  BY NoMarkIn
<1>2. PICK q \in Nat : q = First(c.trailers) /\ Only(c.trailers, q)
  BY <1>1, FirstMarks
<1>3. ASSUME NEW g \in p + 1 .. p + n, TrailerAt(s, g) PROVE g = p + q + 1
  BY <1>2, <1>3, TrailerIn, SMTT(30)
<1>4. QED
  BY <1>1, <1>2, <1>3

\* A call that completes a fragment adds the one spill that ends in its
\* container, which starts behind all spills before.
LEMMA NewSpill ==
  ASSUME NEW s \in Seq(Word), NEW p \in Nat, NEW n \in Nat, NEW c,
         Cut(s, p, n, c), NEW k, ~MultipleSpills(k, c), Sound(k, s, p),
         Completes(k, c)
  PROVE  \E h, t \in 1 .. p + n :
           /\ Holds(Filled(k, c), s, h, t)
           /\ PlacesUpTo(s, p + n) = PlacesUpTo(s, p) \cup {<<h, t>>}
           /\ \A x \in PlacesUpTo(s, p) : x[1] < h
<1>1. PICK h \in 1 .. p + n, t \in p + 1 .. p + n : Holds(Filled(k, c), s, h, t)
  <2>1. CASE Whole(k, c)
    <3>1. PICK h, t \in p + 1 .. p + n : Holds(Filled(k, c), s, h, t)
      BY <2>1, WhenWhole
    <3>2. h \in 1 .. p + n
      OBVIOUS
    <3>3. QED
      BY <3>1, <3>2
  <2>2. CASE Ends(k, c) \/ EndsAndStarts(k, c)
    <3>1. PICK h \in 1..p, t \in p + 1 .. p + n : Holds(Filled(k, c), s, h, t)
      BY <2>2, WhenEnds
    <3>2. h \in 1 .. p + n
      OBVIOUS
    <3>3. QED
      BY <3>1, <3>2
  <2>3. QED
    BY <2>1, <2>2 DEF Completes
<1>2. /\ t \in 1 .. p + n /\ h \in Nat /\ t \in Nat /\ IsSpill(s, h, t)
  BY <1>1 DEF Holds
<1>3. \A g \in p + 1 .. p + n : TrailerAt(s, g) => g = t
  BY <1>2, LastTrailer DEF IsSpill
<1>4. ASSUME NEW x \in PlacesUpTo(s, p)
      PROVE  x[1] < h /\ x \in PlacesUpTo(s, p + n)
  <2>1. /\ x[1] \in 1..p /\ x[2] \in 1..p /\ x = <<x[1], x[2]>>
        /\ IsSpill(s, x[1], x[2])
    BY PlacesFinite
  <2>2. x[1] \in Nat /\ x[2] \in Nat /\ x[2] < t
    BY <2>1
  <2>3. x[1] < h
    BY <1>2, <2>1, <2>2, SpillsApart
  <2>4. x[1] \in 1 .. p + n /\ x[2] \in 1 .. p + n
    BY <2>1
  <2>5. QED
    BY <2>1, <2>3, <2>4 DEF PlacesUpTo
<1>5. ASSUME NEW x \in PlacesUpTo(s, p + n)
      PROVE  x \in PlacesUpTo(s, p) \/ x = <<h, t>>
  <2>1. /\ x[1] \in 1 .. p + n /\ x[2] \in 1 .. p + n /\ x = <<x[1], x[2]>>
        /\ IsSpill(s, x[1], x[2])
    <3>1. p + n \in Nat
      OBVIOUS
    <3>2. QED
      BY <3>1, PlacesFinite
  <2>2. CASE x[2] <= p
    <3>1. x[1] < x[2]
      BY <2>1 DEF IsSpill
    <3>2. x[1] \in 1..p /\ x[2] \in 1..p
      BY <2>1, <2>2, <3>1
    <3>3. QED
      BY <2>1, <3>2 DEF PlacesUpTo
  <2>3. CASE x[2] > p
    <3>1. x[2] \in p + 1 .. p + n
      BY <2>1, <2>3
    <3>2. x[2] = t
      BY <1>3, <2>1, <3>1 DEF IsSpill
    <3>3. x[1] \in Nat /\ x[2] \in Nat
      BY <2>1
    <3>4. x[1] = h
      BY <1>2, <2>1, <3>2, <3>3, SpillsApart
    <3>5. QED
      BY <2>1, <3>2, <3>4
  <2>4. QED
    BY <2>1, <2>2, <2>3
<1>6. <<h, t>> \in PlacesUpTo(s, p + n)
  BY <1>2 DEF PlacesUpTo
<1>7. PlacesUpTo(s, p + n) = PlacesUpTo(s, p) \cup {<<h, t>>}
  BY <1>4, <1>5, <1>6
<1>8. QED
  BY <1>1, <1>2, <1>4, <1>7

\* A call that completes none adds none.
LEMMA NoNewSpill ==
  ASSUME NEW s \in Seq(Word), NEW p \in Nat, NEW n \in Nat, NEW c,
         Cut(s, p, n, c), NEW k, ~MultipleSpills(k, c), Sound(k, s, p),
         Expected(k, c), ~Completes(k, c),
         \A g \in 1..p : HeaderAt(s, g) => Kept(k, s, g, p)
  PROVE  PlacesUpTo(s, p + n) = PlacesUpTo(s, p)
<1>1. ASSUME NEW x \in PlacesUpTo(s, p)
      PROVE  x \in PlacesUpTo(s, p + n)
  <2>1. /\ x[1] \in 1..p /\ x[2] \in 1..p /\ x = <<x[1], x[2]>>
        /\ IsSpill(s, x[1], x[2])
    BY PlacesFinite
  <2>2. x[1] \in 1 .. p + n /\ x[2] \in 1 .. p + n
    BY <2>1
  <2>3. QED
    BY <2>1, <2>2 DEF PlacesUpTo
<1>2. ASSUME NEW h \in 1 .. p + n, NEW t \in p + 1 .. p + n, IsSpill(s, h, t)
      PROVE  FALSE
  <2>1. HeaderAt(s, h) /\ TrailerAt(s, t) /\ h < t /\ PlainBetween(s, h, t - 1)
    BY <1>2 DEF IsSpill
  <2>2. /\ c.trailers # {} /\ t = p + First(c.trailers) + 1
    BY <2>1, LastTrailer
  <2>3. /\ Starts(k, c) /\ k = EmptyBank /\ c.headers # {}
        /\ ~(First(c.trailers) >= First(c.headers))
    <3>1. Starts(k, c)
      BY <2>2 DEF Expected, Skips, Continues
    <3>2. QED
      BY <2>2, <3>1, SoundBank DEF Starts, TrailerAfterHeader
  <2>4. PICK f \in Nat : f = First(c.headers) /\ Only(c.headers, f)
    BY <2>3, FirstMarks
  <2>5. PICK q \in Nat : q = First(c.trailers)
    BY <2>2, FirstMarks
  <2>6. CASE h > p
    <3>1. h \in p + 1 .. p + n
      BY <2>6
    <3>2. h = p + f + 1
      BY <2>1, <2>4, <3>1, HeaderIn
    <3>3. q < f
      BY <2>3, <2>4, <2>5
    <3>4. t = p + q + 1
      BY <2>2, <2>5
    <3>5. QED
      BY <2>1, <3>2, <3>3, <3>4
  <2>7. CASE h <= p
    <3>1. h \in 1..p /\ Kept(k, s, h, p)
      BY <2>1, <2>7
    <3>2. ASSUME NEW u \in 1..p, IsSpill(s, h, u) PROVE FALSE
      <4>1. h \in Nat /\ u \in Nat /\ t \in Nat /\ u # t
        OBVIOUS
      <4>2. QED
        BY <1>2, <3>2, <4>1, SpillsApart
    <3>3. k.words # Fragment(s, h, p)
      <4>1. h \in 1..Len(s) /\ p \in h..Len(s)
        BY <3>1 DEF Cut
      <4>2. Len(Fragment(s, h, p)) = p - h + 3
        BY <4>1, FragmentFacts
      <4>3. Len(k.words) = 2
        BY <2>3, EmptyFields
      <4>4. p - h + 3 # 2
        BY <3>1
      <4>5. QED
        BY <4>2, <4>3, <4>4
    <3>4. QED
      BY <3>1, <3>2, <3>3 DEF Kept
  <2>8. QED
    BY <2>6, <2>7
<1>3. ASSUME NEW x \in PlacesUpTo(s, p + n)
      PROVE  x \in PlacesUpTo(s, p)
  <2>1. /\ x[1] \in 1 .. p + n /\ x[2] \in 1 .. p + n /\ x = <<x[1], x[2]>>
        /\ IsSpill(s, x[1], x[2])
    <3>1. p + n \in Nat
      OBVIOUS
    <3>2. QED
      BY <3>1, PlacesFinite
  <2>2. x[2] \notin p + 1 .. p + n
    BY <1>2, <2>1
  <2>3. x[2] \in 1..p /\ x[1] < x[2]
    BY <2>1, <2>2 DEF IsSpill
  <2>4. x[1] \in 1..p
    BY <2>1, <2>3
  <2>5. QED
    BY <2>1, <2>3, <2>4 DEF PlacesUpTo
<1>4. QED
  BY <1>1, <1>3

-----------------------------------------------------------------------------
(***************************************************************************)
(* A call, as a whole.                                                     *)
(***************************************************************************)
\* The bank of a builder between two calls: sound, and no header forgotten.
Firm(k, s, p) ==
  /\ Sound(k, s, p)
  /\ \A g \in 1..p : HeaderAt(s, g) => Kept(k, s, g, p)

\* At first it is empty, and there is nothing it could have forgotten; no
\* words have no fragments.
LEMMA FirmAtFirst ==
  ASSUME NEW s \in Seq(Word)
  PROVE  Firm(EmptyBank, s, 0) /\ Fragments(SubSeq(s, 1, 0)) = <<>>
<1>1. Firm(EmptyBank, s, 0)
  BY DEF Firm, Sound
<1>2. PlacesUpTo(s, 0) = {}
  BY DEF PlacesUpTo
<1>3. Cardinality({}) = 0
  BY FS_EmptySet
<1>4. 0 \in Nat /\ 0 <= Len(s)
  OBVIOUS
<1>5. \E n, F : Fragments(SubSeq(s, 1, 0)) = [i \in 1..0 |-> F[i]]
  BY <1>2, <1>3, <1>4, FragmentsOfPrefix
<1>6. QED
  BY <1>1, <1>5

\* A call that does not throw leaves the bank as it must be, and what it hands
\* on is the spill that the words delivered have gained, if they have.
LEMMA CallDelivers ==
  ASSUME NEW s \in Seq(Word), NEW p \in Nat, NEW n \in Nat, NEW c,
         Cut(s, p, n, c), NEW k, Firm(k, s, p),
         ~MultipleSpills(k, c), Expected(k, c)
  PROVE  /\ Firm(BankAfter(k, c), s, p + n)
         /\ Completes(k, c) =>
              Fragments(SubSeq(s, 1, p + n))
                = Append(Fragments(SubSeq(s, 1, p)), Filled(k, c).words)
         /\ ~Completes(k, c) =>
              Fragments(SubSeq(s, 1, p + n)) = Fragments(SubSeq(s, 1, p))
<1>1. /\ Sound(k, s, p)
      /\ \A g \in 1..p : HeaderAt(s, g) => Kept(k, s, g, p)
  BY DEF Firm
<1>2. Sound(BankAfter(k, c), s, p + n)
  <2>1. CASE Skips(k, c)
    BY <1>1, <2>1, SoundSkipped
  <2>2. CASE ~Skips(k, c)
    BY <1>1, <2>2, SoundAfter
  <2>3. QED
    BY <2>1, <2>2
<1>3. ASSUME NEW g \in 1 .. p + n, HeaderAt(s, g)
      PROVE  Kept(BankAfter(k, c), s, g, p + n)
  <2>1. CASE g \in 1..p
    <3>1. Kept(k, s, g, p)
      BY <1>1, <1>3, <2>1
    <3>2. QED
      BY <1>1, <2>1, <3>1, OldHeaderKept
  <2>2. CASE g \in p + 1 .. p + n
    BY <1>1, <1>3, <2>2, NewHeaderKept
  <2>3. g \in 1..p \/ g \in p + 1 .. p + n
    OBVIOUS
  <2>4. QED
    BY <2>1, <2>2, <2>3
<1> DEFINE r == p + n
<1>4. p <= r /\ r <= Len(s) /\ r \in Nat
  BY DEF Cut
<1>5. ASSUME Completes(k, c)
      PROVE  Fragments(SubSeq(s, 1, r))
               = Append(Fragments(SubSeq(s, 1, p)), Filled(k, c).words)
  <2>1. PICK h \in 1..r, t \in 1..r :
          /\ Holds(Filled(k, c), s, h, t)
          /\ PlacesUpTo(s, r) = PlacesUpTo(s, p) \cup {<<h, t>>}
          /\ \A x \in PlacesUpTo(s, p) : x[1] < h
    BY <1>1, <1>5, NewSpill
  <2>2. h < t /\ Filled(k, c).words = Fragment(s, h, t)
    BY <2>1 DEF Holds, IsSpill
  <2> HIDE DEF r
  <2>3. Fragments(SubSeq(s, 1, r))
          = Append(Fragments(SubSeq(s, 1, p)), Fragment(s, h, t))
    BY <1>4, <2>1, <2>2, FragmentsGrow
  <2>4. QED
    BY <2>2, <2>3
<1>6. ASSUME ~Completes(k, c)
      PROVE  Fragments(SubSeq(s, 1, r)) = Fragments(SubSeq(s, 1, p))
  <2>1. PlacesUpTo(s, r) = PlacesUpTo(s, p)
    BY <1>1, <1>6, NoNewSpill
  <2>2. QED
    BY <1>4, <2>1, FragmentsStay
<1>7. Firm(BankAfter(k, c), s, p + n)
  BY <1>2, <1>3 DEF Firm
<1>8. QED
  BY <1>5, <1>6, <1>7

\* The spill handed on is the last of those delivered.
LEMMA DeliversLast ==
  ASSUME NEW s \in Seq(Word), NEW p \in Nat, NEW n \in Nat, NEW c,
         Cut(s, p, n, c), NEW k, Firm(k, s, p),
         ~MultipleSpills(k, c), Expected(k, c), Completes(k, c)
  PROVE  LET old == Fragments(SubSeq(s, 1, p))
             new == Fragments(SubSeq(s, 1, p + n))
         IN  /\ Len(old) \in Nat /\ Len(new) = Len(old) + 1
             /\ new[Len(old) + 1] = Filled(k, c).words
             /\ \A j \in 1..Len(old) : new[j] = old[j]
<1> DEFINE old == Fragments(SubSeq(s, 1, p))
           new == Fragments(SubSeq(s, 1, p + n))
           x == Filled(k, c).words
           N == Cardinality(PlacesUpTo(s, p))
           E(j) == Fragment(SubSeq(s, 1, p), Ith(PlacesUpTo(s, p), j)[1],
                            Ith(PlacesUpTo(s, p), j)[2])
<1>1. p <= Len(s)
  BY DEF Cut
<1>2. N \in Nat /\ Len(old) = N /\ old = [j \in 1..N |-> E(j)]
  BY <1>1, FragmentsOfPrefix, PlacesFinite
<1>3. new = Append(old, x)
  BY CallDelivers
<1> HIDE DEF old, new, x, N, E
<1>4. old \in Seq({old[j] : j \in 1..Len(old)} \cup {x})
  BY <1>2
<1>5. Len(old) \in Nat
  BY <1>2
<1>6. /\ Len(new) = Len(old) + 1 /\ new[Len(old) + 1] = x
      /\ \A j \in 1..Len(old) : new[j] = old[j]
  BY <1>3, <1>4, AppendProperties
<1>7. QED
  BY <1>5, <1>6 DEF old, new, x

=============================================================================
