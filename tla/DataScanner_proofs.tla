------------------------- MODULE DataScanner_proofs -------------------------
(***************************************************************************)
(* The scanner's types, marks and reports, for containers of any content.  *)
(***************************************************************************)
EXTENDS DataScanner, SequenceTheorems, TLAPS

\* Between two containers there is nothing of the last one left.
Rest ==
  at = "idle" => words = <<>> /\ headers = <<>> /\ trailers = <<>>
                 /\ xDw = 0 /\ reported = {}

\* What is inductive.
IInv == TypeOK /\ Rest /\ MarksExact

-----------------------------------------------------------------------------
\* The marks s when the word w[n + 1] has been looked at.
Noted(s, w, n, kind) ==
  IF w[n + 1].kind = kind THEN Append(s, n) ELSE s

(***************************************************************************)
(* A sequence of ascending places of the words up to n that holds exactly  *)
(* those of a kind keeps doing so when the next word is looked at, and is  *)
(* noted if it is of the kind.                                             *)
(***************************************************************************)
LEMMA MarkNext ==
  ASSUME NEW w \in Seq(Word), NEW n \in Nat, n < Len(w), NEW kind,
         NEW s \in Seq(0..n-1), Ascending(s),
         Range(s) = {p \in Marks(w, kind) : p < n},
         NEW t, t = Noted(s, w, n, kind)
  PROVE  /\ t \in Seq(0..(n + 1)-1)
         /\ Ascending(t)
         /\ Range(t) = {p \in Marks(w, kind) : p < n + 1}
<1>1. n \in 0..Len(w)-1
  OBVIOUS
<1>2. CASE w[n + 1].kind = kind
  <2>1. t = Append(s, n) /\ Len(t) = Len(s) + 1
    BY <1>2 DEF Noted
  <2>2. \A i \in DOMAIN s : t[i] = s[i] /\ s[i] \in 0..n-1
    BY <2>1
  <2>3. t[Len(s) + 1] = n
    BY <2>1
  <2>4. t \in Seq(0..(n + 1)-1)
    <3>1. s \in Seq(0..n)
      <4>1. 0..n-1 \subseteq 0..n
        OBVIOUS
      <4>2. QED BY <4>1
    <3>2. n \in 0..n
      OBVIOUS
    <3>3. Append(s, n) \in Seq(0..n)
      BY <3>1, <3>2, AppendProperties
    <3>4. (n + 1) - 1 = n
      OBVIOUS
    <3>5. QED BY <2>1, <3>3, <3>4
  <2>5. Ascending(t)
    <3>1. SUFFICES ASSUME NEW i \in DOMAIN t, NEW j \in DOMAIN t, i < j
                   PROVE  t[i] < t[j]
      BY DEF Ascending
    <3>2. i \in DOMAIN s
      BY <2>1, <3>1
    <3>3. CASE j \in DOMAIN s
      BY <2>2, <3>1, <3>2, <3>3 DEF Ascending
    <3>4. CASE j = Len(s) + 1
      BY <2>2, <2>3, <3>2, <3>4
    <3>5. QED BY <2>1, <3>3, <3>4
  <2>6. Range(t) = Range(s) \cup {n}
    <3>1. DOMAIN s = 1..Len(s) /\ DOMAIN t = 1..Len(s)+1
      BY <2>1
    <3>2. Len(s) \in Nat
      OBVIOUS
    <3>3. DOMAIN t = DOMAIN s \cup {Len(s) + 1}
      BY <3>1, <3>2
    <3>4. \A x : x \in Range(t) <=> \E i \in DOMAIN t : x = t[i]
      BY DEF Range
    <3>5. \A x : x \in Range(s) <=> \E i \in DOMAIN s : x = s[i]
      BY DEF Range
    <3>6. \A x \in Range(s) \cup {n} : x \in Range(t)
      BY <2>2, <2>3, <3>3, <3>4, <3>5
    <3>7. \A x \in Range(t) : x \in Range(s) \cup {n}
      BY <2>2, <2>3, <3>3, <3>4, <3>5
    <3>8. QED BY <3>6, <3>7
  <2>7. {p \in Marks(w, kind) : p < n + 1}
          = {p \in Marks(w, kind) : p < n} \cup {n}
    BY <1>1, <1>2 DEF Marks
  <2>8. QED BY <2>4, <2>5, <2>6, <2>7
<1>3. CASE w[n + 1].kind # kind
  <2>1. 0..n-1 \subseteq 0..(n + 1)-1
    OBVIOUS
  <2>2. {p \in Marks(w, kind) : p < n + 1} = {p \in Marks(w, kind) : p < n}
    BY <1>3 DEF Marks
  <2>3. t = s
    BY <1>3 DEF Noted
  <2>4. t \in Seq(0..(n + 1)-1)
    BY <2>1, <2>3
  <2>5. QED BY <2>2, <2>3, <2>4
<1>4. QED BY <1>2, <1>3

-----------------------------------------------------------------------------
\* At first nothing has been read.
LEMMA InitIInv == Init => IInv
<1> SUFFICES ASSUME Init PROVE IInv
  OBVIOUS
<1> USE DEF Init
<1>1. TypeOK
  BY DEF TypeOK
<1>2. MarksExact
  BY DEF MarksExact, MarksUpTo, Marks, Ascending, Range
<1>3. QED BY <1>1, <1>2 DEF IInv, Rest

\* A word is looked at: the marks, and the types of what the cases change.
LEMMA MarkStep ==
  ASSUME IInv, at # "idle", xDw < Len(words), MarkSpill, NoteTrigger,
         words' = words, xDw' = xDw + 1
  PROVE  /\ headers' \in Seq(0..xDw'-1) /\ trailers' \in Seq(0..xDw'-1)
         /\ trigger_tag' \in Nat
         /\ xDw' \in 0..Len(words')
         /\ MarksExact'
<1> USE DEF IInv, TypeOK
<1>1. words \in Seq(Word)
  BY ContentsAssumption
<1>2. xDw \in Nat /\ Len(words) \in Nat
  BY <1>1
<1>3. xDw' \in 0..Len(words')
  BY <1>2
<1>4. /\ headers' \in Seq(0..xDw'-1)
      /\ Ascending(headers')
      /\ Range(headers') = {p \in Marks(words, "SpillHeader") : p < xDw'}
  <2>1. headers' = Noted(headers, words, xDw, "SpillHeader")
    BY DEF MarkSpill, Current, Noted
  <2>2. Range(headers) = {p \in Marks(words, "SpillHeader") : p < xDw}
        /\ Ascending(headers) /\ headers \in Seq(0..xDw-1)
    BY DEF MarksExact, MarksUpTo
  <2>3. /\ headers' \in Seq(0..(xDw + 1)-1)
        /\ Ascending(headers')
        /\ Range(headers') = {p \in Marks(words, "SpillHeader") : p < xDw + 1}
    BY <1>1, <1>2, <2>1, <2>2, MarkNext, SMTT(30)
  <2>4. QED BY <2>3
<1>5. /\ trailers' \in Seq(0..xDw'-1)
      /\ Ascending(trailers')
      /\ Range(trailers') = {p \in Marks(words, "SpillTrailer2") : p < xDw'}
  <2>1. trailers' = Noted(trailers, words, xDw, "SpillTrailer2")
    BY DEF MarkSpill, Current, Noted
  <2>2. Range(trailers) = {p \in Marks(words, "SpillTrailer2") : p < xDw}
        /\ Ascending(trailers) /\ trailers \in Seq(0..xDw-1)
    BY DEF MarksExact, MarksUpTo
  <2>3. /\ trailers' \in Seq(0..(xDw + 1)-1)
        /\ Ascending(trailers')
        /\ Range(trailers') = {p \in Marks(words, "SpillTrailer2") : p < xDw + 1}
    BY <1>1, <1>2, <2>1, <2>2, MarkNext, SMTT(30)
  <2>4. QED BY <2>3
<1>6. trigger_tag' \in Nat
  <2>1. words[xDw + 1] \in Word
    BY <1>1, <1>2
  <2>2. QED BY <2>1 DEF NoteTrigger, Current, Word
<1>7. MarksExact'
  BY <1>4, <1>5 DEF MarksExact, MarksUpTo
<1>8. QED BY <1>3, <1>4, <1>5, <1>6, <1>7

\* The invariant survives every step of the scanner.
LEMMA NextIInv == IInv /\ [Next]_vars => IInv'
<1> SUFFICES ASSUME IInv, [Next]_vars PROVE IInv'
  OBVIOUS
<1>1. ASSUME NEW w \in Contents, Begin(w) PROVE IInv'
  <2>1. w \in Seq(Word) /\ Len(w) \in Nat
    BY ContentsAssumption
  <2>2. headers' = <<>> /\ trailers' = <<>> /\ xDw' = 0 /\ reported' = {}
    BY <1>1 DEF Begin, IInv, Rest
  <2>3. TypeOK'
    BY <1>1, <2>1, <2>2 DEF Begin, IInv, TypeOK
  <2>4. MarksExact'
    BY <2>2 DEF MarksExact, MarksUpTo, Marks, Ascending, Range
  <2>5. QED BY <1>1, <2>3, <2>4 DEF Begin, IInv, Rest
<1>2. ASSUME NEW w \in Contents, BeginEmpty(w) PROVE IInv'
  BY <1>2 DEF BeginEmpty, IInv, TypeOK, Rest, MarksExact, MarksUpTo, Ascending
<1>3. CASE Read
  <2>1. at # "idle" /\ at' = at /\ status' = status /\ reported' = reported
        /\ words' = words /\ xDw' = xDw + 1 /\ xDw < Len(words)
        /\ MarkSpill /\ NoteTrigger
    BY <1>3 DEF Read
  <2>2. reported' \subseteq 0..xDw'-1
    BY <2>1, ContentsAssumption DEF IInv, TypeOK
  <2>3. QED BY <2>1, <2>2, MarkStep DEF IInv, TypeOK, Rest
<1>4. CASE Found
  BY <1>4 DEF Found, IInv, TypeOK, Rest, MarksExact, MarksUpTo, Ascending
<1>5. CASE ReadAndCheck
  <2>1. at # "idle" /\ at' = at /\ status' = status
        /\ reported' \subseteq reported \cup {xDw}
        /\ words' = words /\ xDw' = xDw + 1 /\ xDw < Len(words)
        /\ MarkSpill /\ NoteTrigger
    BY <1>5 DEF ReadAndCheck
  <2>2. reported' \subseteq 0..xDw'-1
    BY <2>1, ContentsAssumption DEF IInv, TypeOK
  <2>3. QED BY <2>1, <2>2, MarkStep DEF IInv, TypeOK, Rest
<1>6. CASE Return
  <2>1. TypeOK'
    BY <1>6 DEF Return, IInv, TypeOK
  <2>2. MarksExact'
    BY <1>6 DEF Return, MarksExact, MarksUpTo, Marks, Ascending, Range
  <2>3. QED BY <1>6, <2>1, <2>2 DEF Return, IInv, Rest
<1>7. CASE UNCHANGED vars
  BY <1>7 DEF vars, IInv, TypeOK, Rest, MarksExact, MarksUpTo, Ascending
<1>8. QED
  BY <1>1, <1>2, <1>3, <1>4, <1>5, <1>6, <1>7 DEF Next

\* The invariant holds in every state of the scanner.
LEMMA Invariance == Spec => []IInv
<1>1. QED BY InitIInv, NextIInv, PTL DEF Spec

-----------------------------------------------------------------------------
(***************************************************************************)
(* Whatever the containers hold, every variable of the scanner keeps its   *)
(* type, and the marks stay on words that were read.                       *)
(***************************************************************************)
THEOREM TypeCorrect == Spec => []TypeOK
<1>1. IInv => TypeOK
  BY DEF IInv
<1>2. QED BY <1>1, Invariance, PTL

(***************************************************************************)
(* Whatever the containers hold and however long they are, the scan marks  *)
(* every spill header and trailer once, in the order of the words.         *)
(***************************************************************************)
THEOREM ScanExact == Spec => []MarksExact
<1>1. IInv => MarksExact
  BY DEF IInv
<1>2. QED BY <1>1, Invariance, PTL

-----------------------------------------------------------------------------
\* The place of the last trigger header before p, in some words.
IsTrigger(w, q) == w[q + 1].kind = "TrigHeader"
IsLast(w, q, p) ==
  /\ q \in 0..p-1 /\ IsTrigger(w, q)
  /\ \A r \in q + 1 .. p - 1 : ~IsTrigger(w, r)

\* A trigger tag that ends the first loop, before p.
TagSeen(w, p) == \E q \in 0..p-1 : IsTrigger(w, q) /\ w[q + 1].tag # 0

\* The trigger trailers up to n that ReportsExact is about.
LastOf(w, p) ==
  CHOOSE q \in 0..p-1 :
    /\ w[q + 1].kind = "TrigHeader"
    /\ \A r \in q + 1 .. p - 1 : w[r + 1].kind # "TrigHeader"
Wrong(w, p) ==
  w[p + 1].kind = "TrigTrailer1" /\ TagSeen(w, p)
  /\ w[p + 1].tag # w[LastOf(w, p) + 1].tag
WrongUpTo(w, n) == {p \in 0..n-1 : Wrong(w, p)}

\* trigger_tag_ is the tag of the last trigger header read in the container,
\* and 0 as long as there was none.
TagKept ==
  at # "idle" =>
    \/ \E q \in 0..xDw-1 : IsLast(words, q, xDw) /\ trigger_tag = words[q + 1].tag
    \/ trigger_tag = 0 /\ \A q \in 0..xDw-1 : ~IsTrigger(words, q)

\* The first loop stops behind the first tag but 0, the second starts there.
TwoLoops ==
  /\ at = "first" => /\ ~TagSeen(words, xDw - 1)
                     /\ trigger_tag = 0 => ~TagSeen(words, xDw)
  /\ at = "check" => TagSeen(words, xDw) \/ xDw = Len(words)

\* What is inductive of the reports.
RInv == IInv /\ TagKept /\ TwoLoops /\ reported = WrongUpTo(words, xDw)

\* The sets of ReportsExact and of RInv are the same.
LEMMA ReportsAre == ReportsExact <=> reported = WrongUpTo(words, xDw)
<1>1. \A p \in 0..xDw-1 : LastTrigger(p) = LastOf(words, p)
  BY Zenon DEF LastTrigger, LastOf
<1>2. QED
  BY <1>1 DEF ReportsExact, WrongUpTo, Wrong, TagSeen, IsTrigger

\* There is one last trigger header at most.
LEMMA LastIsOne ==
  ASSUME NEW w \in Seq(Word), NEW p \in Nat, NEW q, IsLast(w, q, p)
  PROVE  LastOf(w, p) = q
<1>1. q \in 0..p-1 /\ w[q + 1].kind = "TrigHeader"
      /\ \A r \in q + 1 .. p - 1 : w[r + 1].kind # "TrigHeader"
  BY DEF IsLast, IsTrigger
<1>2. ASSUME NEW o \in 0..p-1, w[o + 1].kind = "TrigHeader",
             \A r \in o + 1 .. p - 1 : w[r + 1].kind # "TrigHeader"
      PROVE  o = q
  <2>1. ~(o < q) /\ ~(q < o)
    BY <1>1, <1>2
  <2>2. QED BY <1>1, <1>2, <2>1
<1>3. QED BY <1>1, <1>2 DEF LastOf

\* What a word adds to the reports that there should be.
LEMMA WrongNext ==
  ASSUME NEW w, NEW n \in Nat
  PROVE  WrongUpTo(w, n + 1)
           = IF Wrong(w, n) THEN WrongUpTo(w, n) \cup {n} ELSE WrongUpTo(w, n)
<1>1. 0..(n + 1)-1 = (0..n-1) \cup {n}
  OBVIOUS
<1>2. QED BY <1>1 DEF WrongUpTo

\* Reading a word keeps trigger_tag_ what TagKept says of it.
LEMMA TagStep ==
  ASSUME RInv, at # "idle", xDw < Len(words), NoteTrigger,
         words' = words, xDw' = xDw + 1
  PROVE  TagKept'
<1>1. xDw \in Nat /\ words \in Seq(Word)
  BY ContentsAssumption DEF RInv, IInv, TypeOK
<1>2. CASE IsTrigger(words, xDw)
  <2>1. trigger_tag' = words[xDw + 1].tag
    BY <1>2 DEF NoteTrigger, Current, IsTrigger
  <2>2. IsLast(words, xDw, xDw + 1)
    BY <1>1, <1>2 DEF IsLast
  <2>3. xDw \in 0..xDw'-1
    BY <1>1
  <2>4. QED BY <2>1, <2>2, <2>3 DEF TagKept
<1>3. CASE ~IsTrigger(words, xDw)
  <2>1. trigger_tag' = trigger_tag
    BY <1>3 DEF NoteTrigger, Current, IsTrigger
  <2>2. \A q \in 0..xDw-1 : IsLast(words, q, xDw) => IsLast(words, q, xDw + 1)
    BY <1>1, <1>3 DEF IsLast
  <2>3. \A q \in 0..(xDw + 1)-1 : q \in 0..xDw-1 \/ q = xDw
    BY <1>1
  <2>4. \A q \in 0..xDw-1 : q \in 0..(xDw + 1)-1
    BY <1>1
  <2>5. TagKept
    BY DEF RInv
  <2>6. QED BY <1>3, <2>1, <2>2, <2>3, <2>4, <2>5 DEF TagKept
<1>4. QED BY <1>2, <1>3

\* The tags seen when one more word was read.
LEMMA SeenNext ==
  ASSUME NEW w, NEW n \in Nat
  PROVE  TagSeen(w, n + 1)
           <=> TagSeen(w, n) \/ (IsTrigger(w, n) /\ w[n + 1].tag # 0)
<1>1. \A q : q \in 0..(n + 1)-1 <=> q \in 0..n-1 \/ q = n
  OBVIOUS
<1>2. QED BY <1>1 DEF TagSeen

\* At first there is nothing to report.
LEMMA InitReports == Init => RInv
<1> SUFFICES ASSUME Init PROVE RInv
  OBVIOUS
<1>1. reported = WrongUpTo(words, xDw)
  BY DEF Init, WrongUpTo
<1>2. QED BY <1>1, InitIInv DEF Init, RInv, TagKept, TwoLoops

\* A turn of the first loop reports nothing, and has nothing to report.
LEMMA ReadReports == RInv /\ Read => RInv'
<1> SUFFICES ASSUME RInv, Read PROVE RInv'
  OBVIOUS
<1>1. xDw \in Nat /\ words \in Seq(Word) /\ words[xDw + 1] \in Word
  BY ContentsAssumption DEF RInv, IInv, TypeOK, Read
<1>2. IInv'
  BY NextIInv DEF RInv, Next
<1>3. words' = words /\ xDw' = xDw + 1 /\ reported' = reported /\ at' = "first"
      /\ at = "first" /\ trigger_tag = 0 /\ NoteTrigger
  BY DEF Read
<1>4. TagKept'
  BY <1>3, TagStep DEF Read
<1>5. ~TagSeen(words, xDw)
  BY <1>3 DEF RInv, TwoLoops
<1>6. TwoLoops'
  <2>1. xDw' - 1 = xDw
    BY <1>1, <1>3
  <2>2. trigger_tag' = 0 => ~TagSeen(words, xDw + 1)
    BY <1>1, <1>3, <1>5, SeenNext DEF NoteTrigger, Current, IsTrigger
  <2>3. QED BY <1>3, <1>5, <2>1, <2>2 DEF TwoLoops
<1>7. ~Wrong(words, xDw)
  BY <1>5 DEF Wrong
<1>8. reported' = WrongUpTo(words', xDw')
  BY <1>1, <1>3, <1>7, WrongNext DEF RInv
<1>9. QED BY <1>2, <1>4, <1>6, <1>8 DEF RInv

\* A turn of the second loop reports what it must.
LEMMA CheckReports == RInv /\ ReadAndCheck => RInv'
<1> SUFFICES ASSUME RInv, ReadAndCheck PROVE RInv'
  OBVIOUS
<1>1. xDw \in Nat /\ words \in Seq(Word) /\ words[xDw + 1] \in Word
      /\ Len(words) \in Nat
  BY ContentsAssumption DEF RInv, IInv, TypeOK, ReadAndCheck
<1>2. IInv'
  BY NextIInv DEF RInv, Next
<1>3. words' = words /\ xDw' = xDw + 1 /\ at' = "check" /\ at = "check"
      /\ NoteTrigger /\ xDw < Len(words)
      /\ reported' = IF Mismatch THEN reported \cup {xDw} ELSE reported
  BY DEF ReadAndCheck
<1>4. TagKept'
  BY <1>3, TagStep
<1>5. TagSeen(words, xDw)
  BY <1>1, <1>3 DEF RInv, TwoLoops
<1>6. TwoLoops'
  BY <1>1, <1>3, <1>5, SeenNext DEF TwoLoops
<1>7. trigger_tag = words[LastOf(words, xDw) + 1].tag
  <2>1. PICK q \in 0..xDw-1 :
               IsLast(words, q, xDw) /\ trigger_tag = words[q + 1].tag
    BY <1>3, <1>5 DEF RInv, TagKept, TagSeen
  <2>2. QED BY <1>1, <2>1, LastIsOne
<1>8. Mismatch <=> Wrong(words, xDw)
  BY <1>5, <1>7 DEF Mismatch, Wrong, Current
<1>9. reported' = WrongUpTo(words', xDw')
  BY <1>1, <1>3, <1>8, WrongNext DEF RInv
<1>10. QED BY <1>2, <1>4, <1>6, <1>9 DEF RInv

\* The reports survive every step of the scanner.
LEMMA NextReports == RInv /\ [Next]_vars => RInv'
<1> SUFFICES ASSUME RInv, [Next]_vars PROVE RInv'
  OBVIOUS
<1>1. IInv'
  BY NextIInv DEF RInv
<1>2. ASSUME NEW w \in Contents, Begin(w) PROVE RInv'
  <2>1. xDw' = 0 /\ reported' = {} /\ trigger_tag' = 0 /\ at' = "first"
    BY <1>2 DEF Begin, RInv, IInv, Rest
  <2>2. TagKept' /\ TwoLoops' /\ reported' = WrongUpTo(words', xDw')
    BY <2>1 DEF TagKept, TwoLoops, TagSeen, WrongUpTo
  <2>3. QED BY <1>1, <2>2 DEF RInv
<1>3. ASSUME NEW w \in Contents, BeginEmpty(w) PROVE RInv'
  BY <1>1, <1>3 DEF BeginEmpty, RInv, TagKept, TwoLoops
<1>4. CASE Read
  BY <1>4, ReadReports
<1>5. CASE Found
  <2>1. xDw \in Nat /\ Len(words) \in Nat /\ xDw <= Len(words)
        /\ trigger_tag \in Nat
    BY ContentsAssumption DEF RInv, IInv, TypeOK
  <2>2. xDw' = xDw /\ words' = words /\ trigger_tag' = trigger_tag
        /\ reported' = reported /\ at = "first" /\ at' = "check"
        /\ ~(trigger_tag = 0 /\ xDw < Len(words))
    BY <1>5 DEF Found
  <2>3. TagSeen(words, xDw) \/ xDw = Len(words)
    <3>1. CASE trigger_tag # 0
      <4>1. PICK q \in 0..xDw-1 :
                   IsLast(words, q, xDw) /\ trigger_tag = words[q + 1].tag
        BY <2>2, <3>1 DEF RInv, TagKept
      <4>2. QED BY <3>1, <4>1 DEF TagSeen, IsLast
    <3>2. QED BY <2>1, <2>2, <3>1
  <2>4. TagKept' /\ TwoLoops'
    BY <2>2, <2>3 DEF RInv, TagKept, TwoLoops
  <2>5. QED BY <1>1, <2>2, <2>4 DEF RInv
<1>6. CASE ReadAndCheck
  BY <1>6, CheckReports
<1>7. CASE Return
  BY <1>1, <1>7 DEF Return, RInv, TagKept, TwoLoops, WrongUpTo
<1>8. CASE UNCHANGED vars
  BY <1>1, <1>8 DEF vars, RInv, TagKept, TwoLoops
<1>9. QED BY <1>2, <1>3, <1>4, <1>5, <1>6, <1>7, <1>8 DEF Next

(***************************************************************************)
(* Whatever the containers hold and however long they are, a mismatch is   *)
(* reported for exactly the trigger trailers that do not agree with the    *)
(* last trigger header before them, once a tag other than 0 was seen.      *)
(***************************************************************************)
THEOREM ReportsRight == Spec => []ReportsExact
<1>1. Spec => []RInv
  BY InitReports, NextReports, PTL DEF Spec
<1>2. RInv => ReportsExact
  BY ReportsAre DEF RInv
<1>3. QED BY <1>1, <1>2, PTL

=============================================================================
