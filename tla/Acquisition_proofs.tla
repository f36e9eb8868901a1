------------------------- MODULE Acquisition_proofs -------------------------
(***************************************************************************)
(* The pipeline of a run, with any number of devices and containers: the   *)
(* invariants of Pipeline, for the pipeline alone and for the one whose    *)
(* containers hold words and whose last worker is the event builder.       *)
(***************************************************************************)
EXTENDS Acquisition, EventBuilder_proofs

\* No container is twice in a FIFO, in two FIFOs, in a FIFO and a hand, or in
\* two hands.
InFifos == Range(recycled) \cup Range(raw) \cup Range(scanned)

Apart ==
  /\ IsInjective(recycled) /\ IsInjective(raw) /\ IsInjective(scanned)
  /\ Range(recycled) \cap Range(raw) = {}
  /\ Range(recycled) \cap Range(scanned) = {}
  /\ Range(raw) \cap Range(scanned) = {}
  /\ \A w \in Workers : held[w] \cap InFifos = {}
  /\ \A v, w \in Workers : v # w => held[v] \cap held[w] = {}

\* Every container is in a FIFO or a hand.
Somewhere ==
  mode # "off" =>
    \A c \in Containers : c \in InFifos \/ \E w \in Workers : c \in held[w]

\* Nothing is under way before the run begins, and nothing is left of the
\* run before.
AtRest ==
  /\ mode = "off" => recycled = <<>>
  /\ mode # "active" =>
       /\ raw = <<>> /\ scanned = <<>> /\ built = <<>>
       /\ held = [w \in Workers |-> {}]
       /\ taken = [d \in Devices |-> 0]
       /\ \A c \in Containers : Clean(c)

PInv == PipelineTypeOK /\ Apart /\ Somewhere /\ AtRest /\ MarksFresh

-----------------------------------------------------------------------------
\* What is left of a FIFO when its first element is taken.
LEMMA TakenFromFifo ==
  ASSUME NEW S, NEW q \in Seq(S), q # <<>>
  PROVE  /\ Head(q) \in S /\ Tail(q) \in Seq(S)
         /\ Head(q) \in Range(q)
         /\ Range(Tail(q)) \subseteq Range(q)
         /\ Range(q) = Range(Tail(q)) \cup {Head(q)}
         /\ IsInjective(q) => IsInjective(Tail(q)) /\ Head(q) \notin Range(Tail(q))
<1>1. /\ Head(q) \in S /\ Tail(q) \in Seq(S) /\ Len(Tail(q)) = Len(q) - 1
      /\ \A i \in 1..Len(Tail(q)) : Tail(q)[i] = q[i + 1]
  BY HeadTailProperties
<1>2. Len(q) \in Nat \ {0} /\ Head(q) = q[1]
  BY EmptySeq
<1>3. DOMAIN q = 1..Len(q) /\ DOMAIN Tail(q) = 1..Len(q) - 1
  BY <1>1, LenProperties
<1>4. Head(q) \in Range(q)
  BY <1>2, <1>3 DEF Range
<1>5. Range(Tail(q)) \subseteq Range(q)
  <2> SUFFICES ASSUME NEW i \in 1..Len(q) - 1 PROVE Tail(q)[i] \in Range(q)
    BY <1>3 DEF Range
  <2>1. i + 1 \in 1..Len(q) /\ Tail(q)[i] = q[i + 1]
    BY <1>1, <1>2
  <2>2. QED
    BY <1>3, <2>1 DEF Range
<1>6. Range(q) \subseteq Range(Tail(q)) \cup {Head(q)}
  <2> SUFFICES ASSUME NEW i \in 1..Len(q), q[i] # Head(q)
               PROVE  q[i] \in Range(Tail(q))
    BY <1>3 DEF Range
  <2>1. i - 1 \in 1..Len(q) - 1 /\ q[i] = Tail(q)[i - 1]
    BY <1>1, <1>2
  <2>2. QED
    BY <1>3, <2>1 DEF Range
<1>7. ASSUME IsInjective(q)
      PROVE  IsInjective(Tail(q)) /\ Head(q) \notin Range(Tail(q))
  <2>1. \A i, j \in 1..Len(q) : q[i] = q[j] => i = j
    BY <1>3, <1>7 DEF IsInjective
  <2>2. \A i \in 1..Len(q) - 1 : i + 1 \in 1..Len(q) /\ Tail(q)[i] = q[i + 1]
                                 /\ i + 1 # 1
    BY <1>1, <1>2
  <2>3. IsInjective(Tail(q))
    <3> SUFFICES ASSUME NEW i \in 1..Len(q) - 1, NEW j \in 1..Len(q) - 1,
                        Tail(q)[i] = Tail(q)[j]
                 PROVE  i = j
      BY <1>3 DEF IsInjective
    <3>1. i + 1 = j + 1
      BY <2>1, <2>2
    <3>2. QED
      BY <1>2, <3>1
  <2>4. Head(q) \notin Range(Tail(q))
    <3> SUFFICES ASSUME NEW i \in 1..Len(q) - 1 PROVE Tail(q)[i] # Head(q)
      BY <1>3 DEF Range
    <3>1. 1 \in 1..Len(q)
      BY <1>2
    <3>2. QED
      BY <1>2, <2>1, <2>2, <3>1
  <2>5. QED
    BY <2>3, <2>4
<1>8. QED
  BY <1>1, <1>4, <1>5, <1>6, <1>7

\* What is in a FIFO when an element is put into it.
LEMMA PutIntoFifo ==
  ASSUME NEW S, NEW q \in Seq(S), NEW c \in S
  PROVE  /\ Append(q, c) \in Seq(S)
         /\ Range(Append(q, c)) = Range(q) \cup {c}
         /\ IsInjective(q) /\ c \notin Range(q) => IsInjective(Append(q, c))
<1>1. /\ Append(q, c) \in Seq(S) /\ Len(Append(q, c)) = Len(q) + 1
      /\ \A i \in 1..Len(q) : Append(q, c)[i] = q[i]
      /\ Append(q, c)[Len(q) + 1] = c
  BY AppendProperties
<1>2. Len(q) \in Nat /\ DOMAIN q = 1..Len(q)
      /\ DOMAIN Append(q, c) = 1..Len(q) + 1
  BY <1>1, LenProperties
<1>3. 1..Len(q) + 1 = 1..Len(q) \cup {Len(q) + 1}
  BY <1>2
<1>4. Range(Append(q, c)) = Range(q) \cup {c}
  BY <1>1, <1>2, <1>3 DEF Range
<1>5. IsInjective(q) /\ c \notin Range(q) => IsInjective(Append(q, c))
  BY <1>1, <1>2, <1>3 DEF IsInjective, Range
<1>6. QED
  BY <1>1, <1>4, <1>5

\* The new containers of Fill are all containers, each once.
LEMMA NewContainers ==
  LET new == SetToSeq(Containers)
  IN  new \in Seq(Containers) /\ IsInjective(new) /\ Range(new) = Containers
<1> DEFINE n == Cardinality(Containers)
           new == SetToSeq(Containers)
<1>1. n \in Nat /\ IsFiniteSet(Containers)
  BY ContainersAssumption, FS_CardinalityType
<1>2. ExistsBijection(1..n, Containers)
  BY <1>1, FS_CardinalityType
<1>3. \E f \in [1..n -> Containers] : IsInjective(f)
  BY <1>2 DEF ExistsBijection, Bijection, Injection
<1>4. new \in [1..n -> Containers] /\ IsInjective(new)
  BY <1>3 DEF SetToSeq
<1>5. new \in Seq(Containers)
  BY <1>1, <1>4
<1>6. Range(new) = Containers
  <2>1. Cardinality(1..n) = n
    BY <1>1, FS_Interval
  <2>2. new \in Injection(1..n, Containers)
    BY <1>4 DEF Injection
  <2>3. new \in Surjection(1..n, Containers)
    BY <1>1, <2>1, <2>2, FS_Injection
  <2>4. QED
    BY <1>4, <2>3 DEF Surjection, Range
<1>7. QED
  BY <1>4, <1>5, <1>6

-----------------------------------------------------------------------------
\* At first the threads have nothing and the FIFOs are empty.
LEMMA InitPInv == PipelineInit => PInv
<1> SUFFICES ASSUME PipelineInit PROVE PInv
  OBVIOUS
<1>1. /\ Range(recycled) = {} /\ Range(raw) = {} /\ Range(scanned) = {}
      /\ \A w \in Workers : held[w] = {}
  BY DEF PipelineInit, Range
<1>2. PipelineTypeOK
  BY NumbersAssumption DEF PipelineInit, PipelineTypeOK
<1>3. Apart /\ Somewhere
  BY <1>1 DEF Apart, Somewhere, InFifos, PipelineInit, IsInjective
<1>4. AtRest
  BY DEF PipelineInit, AtRest, Clean
<1>5. MarksFresh
  BY <1>1 DEF MarksFresh, Workers
<1>6. QED
  BY <1>2, <1>3, <1>4, <1>5 DEF PInv

\* Nothing is in the FIFOs and in the hands, and the containers are clean.
LEMMA DrainKeepsPInv ==
  ASSUME Drain, mode' = "off"
  PROVE  PInv'
<1>1. /\ Range(recycled)' = {} /\ Range(raw)' = {} /\ Range(scanned)' = {}
      /\ \A w \in Workers : held'[w] = {}
  BY DEF Drain, Range
<1>2. PipelineTypeOK'
  BY NumbersAssumption DEF Drain, PipelineTypeOK
<1>3. Apart' /\ Somewhere'
  BY <1>1 DEF Apart, Somewhere, InFifos, Drain, IsInjective
<1>4. AtRest'
  BY DEF Drain, AtRest, Clean
<1>5. MarksFresh'
  BY <1>1 DEF MarksFresh, Workers
<1>6. QED
  BY <1>2, <1>3, <1>4, <1>5 DEF PInv

\* The containers come into the first FIFO, all clean.
LEMMA FillKeepsPInv ==
  ASSUME PInv, EnterStandby
  PROVE  PInv'
<1>1. recycled' = SetToSeq(Containers)
  BY NewContainers, ConcatEmptySeq DEF EnterStandby, Fill, PInv, AtRest
<1>2. /\ recycled' \in Seq(Containers) /\ IsInjective(recycled')
      /\ Range(recycled') = Containers
  BY <1>1, NewContainers
<1>3. /\ raw = <<>> /\ scanned = <<>> /\ \A w \in Workers : held[w] = {}
      /\ \A c \in Containers : Clean(c)
  BY DEF EnterStandby, PInv, AtRest
<1>4. Range(raw) = {} /\ Range(scanned) = {}
  BY <1>3 DEF Range
<1>5. PipelineTypeOK'
  BY <1>2 DEF EnterStandby, PInv, PipelineTypeOK, run
<1>6. Apart'
  BY <1>2, <1>3, <1>4 DEF EnterStandby, Apart, InFifos, PInv
<1>7. Somewhere'
  BY <1>2 DEF Somewhere, InFifos
<1>8. AtRest'
  BY DEF EnterStandby, PInv, AtRest, Clean, run
<1>9. MarksFresh'
  BY <1>2, <1>3, <1>4 DEF EnterStandby, MarksFresh, Workers, Clean
<1>10. QED
  BY <1>5, <1>6, <1>7, <1>8, <1>9 DEF PInv

\* Active is entered.
LEMMA StartKeepsPInv ==
  ASSUME PInv, Start
  PROVE  PInv'
BY DEF Start, PInv, PipelineTypeOK, Apart, InFifos, Somewhere, AtRest, MarksFresh, Clean,
       Unmarked, Marked, fifos, run

\* A worker gives up with its container in its hands.
LEMMA GiveUpKeepsPInv ==
  ASSUME PInv, NEW w \in Workers, GiveUp(w)
  PROVE  PInv'
BY DEF GiveUp, PInv, PipelineTypeOK, Apart, InFifos, Somewhere, AtRest, MarksFresh, Clean,
       Unmarked, Marked, fifos, run

\* The hands of a worker that takes a container: it has this one only.
LEMMA TakenByWorker ==
  ASSUME PipelineTypeOK, NEW w \in Workers, NEW q \in Seq(Containers), Take(w, q)
  PROVE  /\ q # <<>> /\ mode = "active" /\ held[w] = {}
         /\ held' \in [Workers -> SUBSET Containers]
         /\ \A v \in Workers : held'[v] = IF v = w THEN {Head(q)} ELSE held[v]
         /\ \A v \in Workers, c, e \in Containers : {c, e} \subseteq held'[v] => c = e
         /\ UNCHANGED <<mode, data, marks, stopped, taken, built>>
<1>1. q # <<>> /\ mode = "active" /\ held[w] = {}
      /\ UNCHANGED <<mode, data, marks, stopped, taken, built>>
  BY DEF Take, Working, run
<1>2. Head(q) \in Containers
  BY <1>1, HeadTailProperties
<1>3. held' \in [Workers -> SUBSET Containers]
      /\ \A v \in Workers : held'[v] = IF v = w THEN {Head(q)} ELSE held[v]
  BY <1>2 DEF Take, PipelineTypeOK
<1>4. ASSUME NEW v \in Workers, NEW c \in Containers, NEW e \in Containers,
             {c, e} \subseteq held'[v]
      PROVE  c = e
  <2>1. CASE v = w
    BY <1>3, <1>4, <2>1
  <2>2. CASE v # w
    <3>1. {c, e} \subseteq held[v]
      BY <1>3, <1>4, <2>2
    <3>2. QED
      BY <3>1 DEF PipelineTypeOK
  <2>3. QED
    BY <2>1, <2>2
<1>5. QED
  BY <1>1, <1>3, <1>4

\* A device takes an empty container.
LEMMA TakeEmptyKeepsPInv ==
  ASSUME PInv, NEW d \in Devices, TakeEmpty(d)
  PROVE  PInv'
<1> DEFINE c == Head(recycled)
<1>1. d \in Workers /\ d \notin {"scanner", "builder"} /\ recycled \in Seq(Containers)
  BY DevicesAssumption DEF Workers, PInv, PipelineTypeOK
<1>2. /\ recycled # <<>> /\ mode = "active" /\ held[d] = {}
      /\ held' \in [Workers -> SUBSET Containers]
      /\ \A v \in Workers : held'[v] = IF v = d THEN {c} ELSE held[v]
      /\ \A v \in Workers, x, e \in Containers : {x, e} \subseteq held'[v] => x = e
      /\ UNCHANGED <<mode, data, marks, stopped, taken, built>>
  BY <1>1, TakenByWorker DEF TakeEmpty, PInv
<1>3. recycled' = Tail(recycled) /\ UNCHANGED <<raw, scanned>>
  BY DEF TakeEmpty
<1>4. /\ c \in Containers /\ recycled' \in Seq(Containers)
      /\ Range(recycled) = Range(recycled)' \cup {c}
      /\ IsInjective(recycled)' /\ c \notin Range(recycled)'
  BY <1>1, <1>2, <1>3, TakenFromFifo DEF PInv, Apart
<1>5. PipelineTypeOK'
  BY <1>2, <1>3, <1>4 DEF PInv, PipelineTypeOK
<1>6. Apart'
  BY <1>2, <1>3, <1>4 DEF PInv, Apart, InFifos
<1>7. Somewhere'
  BY <1>1, <1>2, <1>3, <1>4 DEF PInv, Somewhere, InFifos
<1>8. AtRest'
  BY <1>2 DEF AtRest
<1>9. MarksFresh'
  BY <1>1, <1>2, <1>3, <1>4
     DEF PInv, MarksFresh, Workers, Clean, Unmarked, Marked
<1>10. QED
  BY <1>5, <1>6, <1>7, <1>8, <1>9 DEF PInv

\* The scanner takes a full container.
LEMMA TakeRawKeepsPInv ==
  ASSUME PInv, TakeRaw
  PROVE  PInv'
<1> DEFINE c == Head(raw)
<1>1. /\ "scanner" \in Workers /\ "scanner" \notin Devices
      /\ raw \in Seq(Containers)
  BY DevicesAssumption DEF Workers, PInv, PipelineTypeOK
<1>2. /\ raw # <<>> /\ mode = "active" /\ held["scanner"] = {}
      /\ held' \in [Workers -> SUBSET Containers]
      /\ \A v \in Workers : held'[v] = IF v = "scanner" THEN {c} ELSE held[v]
      /\ \A v \in Workers, x, e \in Containers : {x, e} \subseteq held'[v] => x = e
      /\ UNCHANGED <<mode, data, marks, stopped, taken, built>>
  BY <1>1, TakenByWorker DEF TakeRaw, PInv
<1>3. raw' = Tail(raw) /\ UNCHANGED <<recycled, scanned>>
  BY DEF TakeRaw
<1>4. /\ c \in Containers /\ raw' \in Seq(Containers)
      /\ Range(raw) = Range(raw)' \cup {c}
      /\ IsInjective(raw)' /\ c \notin Range(raw)'
  BY <1>1, <1>2, <1>3, TakenFromFifo DEF PInv, Apart
<1>5. PipelineTypeOK'
  BY <1>2, <1>3, <1>4 DEF PInv, PipelineTypeOK
<1>6. Apart'
  BY <1>2, <1>3, <1>4 DEF PInv, Apart, InFifos
<1>7. Somewhere'
  BY <1>1, <1>2, <1>3, <1>4 DEF PInv, Somewhere, InFifos
<1>8. AtRest'
  BY <1>2 DEF AtRest
<1>9. MarksFresh'
  BY <1>1, <1>2, <1>3, <1>4
     DEF PInv, MarksFresh, Workers, Clean, Unmarked, Marked
<1>10. QED
  BY <1>5, <1>6, <1>7, <1>8, <1>9 DEF PInv

\* The event builder takes a scanned container.
LEMMA TakeScannedKeepsPInv ==
  ASSUME PInv, TakeScanned
  PROVE  PInv'
<1> DEFINE c == Head(scanned)
<1>1. /\ "builder" \in Workers /\ "builder" \notin Devices
      /\ scanned \in Seq(Containers)
  BY DevicesAssumption DEF Workers, PInv, PipelineTypeOK
<1>2. /\ scanned # <<>> /\ mode = "active" /\ held["builder"] = {}
      /\ held' \in [Workers -> SUBSET Containers]
      /\ \A v \in Workers : held'[v] = IF v = "builder" THEN {c} ELSE held[v]
      /\ \A v \in Workers, x, e \in Containers : {x, e} \subseteq held'[v] => x = e
      /\ UNCHANGED <<mode, data, marks, stopped, taken, built>>
  BY <1>1, TakenByWorker DEF TakeScanned, PInv
<1>3. scanned' = Tail(scanned) /\ UNCHANGED <<recycled, raw>>
  BY DEF TakeScanned
<1>4. /\ c \in Containers /\ scanned' \in Seq(Containers)
      /\ Range(scanned) = Range(scanned)' \cup {c}
      /\ IsInjective(scanned)' /\ c \notin Range(scanned)'
  BY <1>1, <1>2, <1>3, TakenFromFifo DEF PInv, Apart
<1>5. PipelineTypeOK'
  BY <1>2, <1>3, <1>4 DEF PInv, PipelineTypeOK
<1>6. Apart'
  BY <1>2, <1>3, <1>4 DEF PInv, Apart, InFifos
<1>7. Somewhere'
  BY <1>1, <1>2, <1>3, <1>4 DEF PInv, Somewhere, InFifos
<1>8. AtRest'
  BY <1>2 DEF AtRest
<1>9. MarksFresh'
  BY <1>1, <1>2, <1>3, <1>4
     DEF PInv, MarksFresh, Workers, Clean, Unmarked, Marked
<1>10. QED
  BY <1>5, <1>6, <1>7, <1>8, <1>9 DEF PInv

-----------------------------------------------------------------------------
\* The hands of a worker that passes its container on: they are empty.
LEMMA PassedByWorker ==
  ASSUME PipelineTypeOK, NEW w \in Workers, NEW c \in held[w],
         held' = [held EXCEPT ![w] = {}]
  PROVE  /\ c \in Containers /\ held[w] = {c}
         /\ held' \in [Workers -> SUBSET Containers]
         /\ \A v \in Workers : held'[v] = IF v = w THEN {} ELSE held[v]
         /\ \A v \in Workers, x, e \in Containers : {x, e} \subseteq held'[v] => x = e
<1>1. held \in [Workers -> SUBSET Containers]
  BY DEF PipelineTypeOK
<1>2. c \in Containers
  BY <1>1
<1>3. held[w] = {c}
  <2>1. \A e \in held[w] : e \in Containers /\ {c, e} \subseteq held[w]
    BY <1>1
  <2>2. QED
    BY <1>2, <2>1 DEF PipelineTypeOK
<1>4. held' \in [Workers -> SUBSET Containers]
      /\ \A v \in Workers : held'[v] = IF v = w THEN {} ELSE held[v]
  BY <1>1
<1>5. ASSUME NEW v \in Workers, NEW x \in Containers, NEW e \in Containers,
             {x, e} \subseteq held'[v]
      PROVE  x = e
  <2>1. {x, e} \subseteq held[v]
    BY <1>4, <1>5
  <2>2. QED
    BY <2>1 DEF PipelineTypeOK
<1>6. QED
  BY <1>2, <1>3, <1>4, <1>5

\* A device fills its container and passes it on.
LEMMA ReadKeepsPInv ==
  ASSUME PInv, NEW d \in Devices, Read(d)
  PROVE  PInv'
<1>1. PICK c \in held[d] :
        /\ Working(d) /\ taken[d] < MaxReads
        /\ data' = [data EXCEPT ![c] = [dev |-> d, n |-> taken[d] + 1]]
        /\ taken' = [taken EXCEPT ![d] = @ + 1]
        /\ Pass(d, c, raw)
        /\ UNCHANGED <<mode, recycled, scanned, marks, stopped, built>>
  BY DEF Read
<1>2. d \in Workers /\ d \notin {"scanner", "builder"} /\ raw \in Seq(Containers)
  BY DevicesAssumption DEF Workers, PInv, PipelineTypeOK
<1>3. /\ c \in Containers /\ held[d] = {c}
      /\ held' \in [Workers -> SUBSET Containers]
      /\ \A v \in Workers : held'[v] = IF v = d THEN {} ELSE held[v]
      /\ \A v \in Workers, x, e \in Containers : {x, e} \subseteq held'[v] => x = e
  BY <1>1, <1>2, PassedByWorker DEF Pass, PInv
<1>4. c \notin InFifos /\ \A v \in Workers : v # d => c \notin held[v]
  BY <1>2, <1>3 DEF PInv, Apart
<1>5. /\ raw' \in Seq(Containers) /\ Range(raw)' = Range(raw) \cup {c}
      /\ IsInjective(raw)'
  BY <1>1, <1>2, <1>3, <1>4, PutIntoFifo DEF Pass, PInv, Apart, InFifos
<1>6. /\ mode = "active" /\ UNCHANGED <<mode, recycled, scanned, marks>>
      /\ \A x \in Containers :
           data'[x] = IF x = c THEN [dev |-> d, n |-> taken[d] + 1] ELSE data[x]
      /\ [dev |-> d, n |-> taken[d] + 1] \in Data
      /\ [dev |-> d, n |-> taken[d] + 1] # NoData
  <2>1. taken[d] + 1 \in 1..MaxReads /\ data \in [Containers -> Data \cup {NoData}]
    BY <1>1, NumbersAssumption DEF PInv, PipelineTypeOK
  <2>2. QED
    BY <1>1, <2>1 DEF Working, Data, NoData
<1>7. PipelineTypeOK'
  <2>1. taken' \in [Devices -> 0..MaxReads]
    BY <1>1, NumbersAssumption DEF PInv, PipelineTypeOK
  <2>2. data' \in [Containers -> Data \cup {NoData}]
    BY <1>1, <1>6 DEF PInv, PipelineTypeOK
  <2>3. QED
    BY <1>1, <1>3, <1>5, <2>1, <2>2 DEF PInv, PipelineTypeOK
<1>8. Apart'
  BY <1>3, <1>4, <1>5, <1>6 DEF PInv, Apart, InFifos
<1>9. Somewhere'
  BY <1>3, <1>5, <1>6 DEF PInv, Somewhere, InFifos
<1>10. AtRest'
  BY <1>6 DEF AtRest
<1>11. MarksFresh'
  <2>1. Range(recycled) \subseteq Containers /\ Range(raw) \subseteq Containers
        /\ Range(scanned) \subseteq Containers
        /\ \A v \in Workers : held[v] \subseteq Containers
    BY DEF PInv, PipelineTypeOK, Range
  <2>2. /\ \A x \in Range(recycled) \cup UNION {held[v] : v \in Devices} : Clean(x)
        /\ \A x \in Range(raw) \cup held["scanner"] : Unmarked(x)
        /\ \A x \in Range(scanned) \cup held["builder"] : Marked(x)
        /\ c \notin Range(recycled) /\ c \notin Range(raw) /\ c \notin Range(scanned)
        /\ Devices \cup {"scanner", "builder"} \subseteq Workers
    BY <1>4 DEF PInv, MarksFresh, InFifos, Workers
  <2>3. \A x \in Containers : x # c => data'[x] = data[x] /\ marks'[x] = marks[x]
    BY <1>6
  <2>4. marks[c] = {} /\ marks'[c] = {} /\ data'[c] # NoData
    BY <1>2, <1>3, <1>6, <2>2 DEF Clean
  <2>5. \A v \in Devices : \A x \in held'[v] : x # c /\ x \in held[v] /\ x \in Containers
    <3>1. ASSUME NEW v \in Workers, NEW x \in held'[v]
          PROVE  x \in held[v] /\ x \in Containers /\ v # d
      BY <1>3, <2>1
    <3>2. QED
      BY <1>4, <2>2, <3>1
  <2>6. /\ held'["scanner"] = held["scanner"] /\ held'["builder"] = held["builder"]
        /\ c \notin held["scanner"] /\ c \notin held["builder"]
    BY <1>2, <1>3, <1>4, <2>2
  <2>7. \A x \in Range(recycled') \cup UNION {held'[v] : v \in Devices} : Clean(x)'
    BY <1>6, <2>1, <2>2, <2>3, <2>5 DEF Clean
  <2>8. \A x \in Range(raw') \cup held'["scanner"] : Unmarked(x)'
    <3>1. ASSUME NEW x \in Range(raw') \cup held'["scanner"] PROVE Unmarked(x)'
      <4>1. CASE x = c
        BY <2>4, <4>1 DEF Unmarked
      <4>2. CASE x # c
        BY <1>5, <2>1, <2>2, <2>3, <2>6, <4>2 DEF Unmarked
      <4>3. QED
        BY <4>1, <4>2
    <3>2. QED
      BY <3>1
  <2>9. \A x \in Range(scanned') \cup held'["builder"] : Marked(x)'
    BY <1>6, <2>1, <2>2, <2>3, <2>6 DEF Marked
  <2>10. QED
    BY <2>7, <2>8, <2>9 DEF MarksFresh
<1>12. QED
  BY <1>7, <1>8, <1>9, <1>10, <1>11 DEF PInv

\* The scanner marks its container and passes it on.
LEMMA ScanKeepsPInv ==
  ASSUME PInv, Scan
  PROVE  PInv'
<1>1. PICK c \in held["scanner"] :
        /\ Working("scanner") /\ data[c] # NoData
        /\ marks' = [marks EXCEPT ![c] = @ \cup {data[c]}]
        /\ Pass("scanner", c, scanned)
        /\ UNCHANGED <<mode, recycled, raw, data, stopped, run>>
  BY DEF Scan
<1>2. /\ "scanner" \in Workers /\ "scanner" \notin Devices
      /\ scanned \in Seq(Containers)
  BY DevicesAssumption DEF Workers, PInv, PipelineTypeOK
<1>3. /\ c \in Containers /\ held["scanner"] = {c}
      /\ held' \in [Workers -> SUBSET Containers]
      /\ \A v \in Workers : held'[v] = IF v = "scanner" THEN {} ELSE held[v]
      /\ \A v \in Workers, x, e \in Containers : {x, e} \subseteq held'[v] => x = e
  BY <1>1, <1>2, PassedByWorker DEF Pass, PInv
<1>4. c \notin InFifos /\ \A v \in Workers : v # "scanner" => c \notin held[v]
  BY <1>2, <1>3 DEF PInv, Apart
<1>5. /\ scanned' \in Seq(Containers) /\ Range(scanned)' = Range(scanned) \cup {c}
      /\ IsInjective(scanned)'
  BY <1>1, <1>2, <1>3, <1>4, PutIntoFifo DEF Pass, PInv, Apart, InFifos
<1>6. /\ mode = "active" /\ UNCHANGED <<mode, recycled, raw, data, taken, built>>
      /\ data[c] \in Data /\ marks[c] = {}
      /\ \A x \in Containers : marks'[x] = IF x = c THEN {data[c]} ELSE marks[x]
  <2>1. data[c] \in Data
    BY <1>1, <1>3 DEF PInv, PipelineTypeOK
  <2>2. marks[c] = {}
    BY <1>3 DEF PInv, MarksFresh, Unmarked
  <2>3. QED
    BY <1>1, <1>3, <2>1, <2>2 DEF Working, run, PInv, PipelineTypeOK
<1>7. PipelineTypeOK'
  <2>1. marks' \in [Containers -> SUBSET Data]
    BY <1>1, <1>6 DEF PInv, PipelineTypeOK
  <2>2. QED
    BY <1>1, <1>3, <1>5, <1>6, <2>1 DEF PInv, PipelineTypeOK
<1>8. Apart'
  BY <1>3, <1>4, <1>5, <1>6 DEF PInv, Apart, InFifos
<1>9. Somewhere'
  BY <1>3, <1>5, <1>6 DEF PInv, Somewhere, InFifos
<1>10. AtRest'
  BY <1>6 DEF AtRest
<1>11. MarksFresh'
  <2>1. Range(recycled) \subseteq Containers /\ Range(raw) \subseteq Containers
        /\ Range(scanned) \subseteq Containers
        /\ \A v \in Workers : held[v] \subseteq Containers
    BY DEF PInv, PipelineTypeOK, Range
  <2>2. QED
    BY <1>1, <1>2, <1>3, <1>4, <1>5, <1>6, <2>1
       DEF PInv, MarksFresh, Workers, Clean, Unmarked, Marked, InFifos
<1>12. QED
  BY <1>7, <1>8, <1>9, <1>10, <1>11 DEF PInv

\* The event builder clears its container and passes it on.
LEMMA BuildKeepsPInv ==
  ASSUME PInv, Build
  PROVE  PInv'
<1>1. PICK c \in held["builder"] :
        /\ Working("builder")
        /\ built' = Append(built, data[c])
        /\ Clear(c)
        /\ Pass("builder", c, recycled)
        /\ UNCHANGED <<mode, raw, scanned, stopped, taken>>
  BY DEF Build
<1>2. /\ "builder" \in Workers /\ "builder" \notin Devices
      /\ recycled \in Seq(Containers)
  BY DevicesAssumption DEF Workers, PInv, PipelineTypeOK
<1>3. /\ c \in Containers /\ held["builder"] = {c}
      /\ held' \in [Workers -> SUBSET Containers]
      /\ \A v \in Workers : held'[v] = IF v = "builder" THEN {} ELSE held[v]
      /\ \A v \in Workers, x, e \in Containers : {x, e} \subseteq held'[v] => x = e
  BY <1>1, <1>2, PassedByWorker DEF Pass, PInv
<1>4. c \notin InFifos /\ \A v \in Workers : v # "builder" => c \notin held[v]
  BY <1>2, <1>3 DEF PInv, Apart
<1>5. /\ recycled' \in Seq(Containers) /\ Range(recycled)' = Range(recycled) \cup {c}
      /\ IsInjective(recycled)'
  BY <1>1, <1>2, <1>3, <1>4, PutIntoFifo DEF Pass, PInv, Apart, InFifos
<1>6. /\ mode = "active" /\ UNCHANGED <<mode, raw, scanned, taken>>
      /\ data[c] \in Data
      /\ \A x \in Containers : /\ data'[x] = IF x = c THEN NoData ELSE data[x]
                              /\ marks'[x] = IF x = c THEN {} ELSE marks[x]
  <2>1. data[c] \in Data
    BY <1>3 DEF PInv, PipelineTypeOK, MarksFresh, Marked
  <2>2. QED
    BY <1>1, <2>1 DEF Working, Clear, PInv, PipelineTypeOK
<1>7. PipelineTypeOK'
  <2>1. marks' \in [Containers -> SUBSET Data] /\ data' \in [Containers -> Data \cup {NoData}]
    BY <1>1 DEF Clear, PInv, PipelineTypeOK
  <2>2. built' \in Seq(Data)
    BY <1>1, <1>6, AppendProperties DEF PInv, PipelineTypeOK
  <2>3. QED
    BY <1>1, <1>3, <1>5, <1>6, <2>1, <2>2 DEF PInv, PipelineTypeOK
<1>8. Apart'
  BY <1>3, <1>4, <1>5, <1>6 DEF PInv, Apart, InFifos
<1>9. Somewhere'
  BY <1>3, <1>5, <1>6 DEF PInv, Somewhere, InFifos
<1>10. AtRest'
  BY <1>6 DEF AtRest
<1>11. MarksFresh'
  <2>1. Range(recycled) \subseteq Containers /\ Range(raw) \subseteq Containers
        /\ Range(scanned) \subseteq Containers
        /\ \A v \in Workers : held[v] \subseteq Containers
    BY DEF PInv, PipelineTypeOK, Range
  <2>2. QED
    BY <1>1, <1>2, <1>3, <1>4, <1>5, <1>6, <2>1
       DEF PInv, MarksFresh, Workers, Clean, Unmarked, Marked, InFifos
<1>12. QED
  BY <1>7, <1>8, <1>9, <1>10, <1>11 DEF PInv

\* The invariant survives every step, and a step that changes nothing.
LEMMA NextKeepsPInv == PInv /\ [PipelineNext]_pipelineVars => PInv'
<1> SUFFICES ASSUME PInv, [PipelineNext]_pipelineVars PROVE PInv'
  OBVIOUS
<1>1. CASE Stop \/ Dismiss
  BY <1>1, DrainKeepsPInv DEF Stop, Dismiss
<1>2. CASE \/ ScanError \/ BuildError
           \/ \E d \in Devices : ReadError(d)
  BY <1>2, GiveUpKeepsPInv DEF ScanError, BuildError, ReadError, Workers
<1>3. CASE UNCHANGED pipelineVars
  BY <1>3 DEF pipelineVars, fifos, run, PInv, PipelineTypeOK, Apart, InFifos, Somewhere, AtRest,
              MarksFresh, Clean, Unmarked, Marked
<1>4. QED
  BY <1>1, <1>2, <1>3, FillKeepsPInv, StartKeepsPInv, TakeEmptyKeepsPInv,
     ReadKeepsPInv, TakeRawKeepsPInv, ScanKeepsPInv, TakeScannedKeepsPInv,
     BuildKeepsPInv DEF PipelineNext, ReadoutStep, ScannerStep, BuilderStep

\* With words in the containers the pipeline takes the steps it takes without.
LEMMA AcqStep == [AcqNext]_acqVars => [PipelineNext]_pipelineVars
<1>1. CASE EventDone \/ EventError
  BY <1>1 DEF EventDone, EventError, PipelineNext, BuilderStep
<1>2. CASE UNCHANGED acqVars
  BY <1>2 DEF acqVars
<1>3. QED
  BY <1>1, <1>2 DEF AcqNext, Ready, Go, Finish, Forget, Readout, Scanner, Recorder,
     Trouble, PipelineNext, ReadoutStep, ScannerStep, BuilderStep

\* The invariant of the containers holds in every state of the acquisition.
LEMMA AcqPInv == AcqSpec => []PInv
<1>1. AcqInit => PInv
  BY InitPInv DEF AcqInit
<1>2. PInv /\ [AcqNext]_acqVars => PInv'
  BY AcqStep, NextKeepsPInv
<1>3. QED
  BY <1>1, <1>2, PTL DEF AcqSpec

-----------------------------------------------------------------------------
\* A FIFO that a container is missing from has room.
LEMMA RoomForOne ==
  ASSUME NEW q \in Seq(Containers), IsInjective(q),
         NEW c \in Containers, c \notin Range(q)
  PROVE  Len(q) < MaxSize
<1> DEFINE rest == Containers \ {c}
<1>1. Len(q) \in Nat /\ DOMAIN q = 1..Len(q) /\ q \in [1..Len(q) -> Containers]
  BY LenProperties
<1>2. q \in Injection(1..Len(q), rest)
  BY <1>1 DEF Injection, IsInjective, Range
<1>3. IsFiniteSet(rest) /\ Cardinality(rest) = Cardinality(Containers) - 1
  BY ContainersAssumption, FS_RemoveElement
<1>4. Cardinality(1..Len(q)) = Len(q)
  BY <1>1, FS_Interval
<1>5. Len(q) <= Cardinality(rest)
  BY <1>2, <1>3, <1>4, FS_Injection
<1>6. Cardinality(Containers) \in Nat
  BY ContainersAssumption, FS_CardinalityType
<1>7. QED
  BY <1>1, <1>3, <1>5, <1>6, ContainersAssumption, NumbersAssumption

\* A worker with a container leaves room in every FIFO.
LEMMA PInvRoom == PInv => NoPushWaits
<1> SUFFICES ASSUME PInv, NEW w \in Workers, held[w] # {}
             PROVE  Len(recycled) < MaxSize /\ Len(raw) < MaxSize /\ Len(scanned) < MaxSize
  BY DEF NoPushWaits
<1>1. PICK c \in held[w] : TRUE
  OBVIOUS
<1>2. c \in Containers /\ c \notin InFifos
  BY DEF PInv, PipelineTypeOK, Apart
<1>3. QED
  BY <1>2, RoomForOne DEF PInv, PipelineTypeOK, Apart, InFifos

\* Two sequences without a common element, one behind the other.
LEMMA ConcatApart ==
  ASSUME NEW S, NEW p \in Seq(S), NEW q \in Seq(S)
  PROVE  /\ p \o q \in Seq(S) /\ Range(p \o q) = Range(p) \cup Range(q)
         /\ IsInjective(p) /\ IsInjective(q) /\ Range(p) \cap Range(q) = {}
              => IsInjective(p \o q)
<1>1. /\ p \o q \in Seq(S) /\ Len(p \o q) = Len(p) + Len(q)
      /\ \A i \in 1..Len(p) + Len(q) :
           (p \o q)[i] = IF i <= Len(p) THEN p[i] ELSE q[i - Len(p)]
  BY ConcatProperties
<1>2. /\ Len(p) \in Nat /\ Len(q) \in Nat /\ DOMAIN p = 1..Len(p)
      /\ DOMAIN q = 1..Len(q) /\ DOMAIN (p \o q) = 1..Len(p) + Len(q)
  BY <1>1, LenProperties
<1> DEFINE r == p \o q
<1>3. \A i \in 1..Len(p) : i \in DOMAIN r /\ r[i] = p[i]
  BY <1>1, <1>2
<1>4. \A i \in 1..Len(q) : i + Len(p) \in DOMAIN r /\ r[i + Len(p)] = q[i]
  BY <1>1, <1>2
<1>5. ASSUME NEW i \in DOMAIN r
      PROVE  \/ i \in 1..Len(p) /\ r[i] = p[i]
             \/ i - Len(p) \in 1..Len(q) /\ r[i] = q[i - Len(p)]
  <2>1. i \in 1..Len(p) + Len(q) /\ i \in Int
    BY <1>2
  <2>2. CASE i <= Len(p)
    BY <1>1, <1>2, <2>1, <2>2
  <2>3. CASE ~(i <= Len(p))
    <3>1. i - Len(p) \in 1..Len(q)
      BY <1>2, <2>1, <2>3
    <3>2. QED
      BY <1>1, <2>1, <2>3, <3>1
  <2>4. QED
    BY <2>2, <2>3
<1> HIDE DEF r
<1>6. Range(r) = Range(p) \cup Range(q)
  <2>1. Range(r) \subseteq Range(p) \cup Range(q)
    BY <1>2, <1>5 DEF Range
  <2>2. Range(p) \subseteq Range(r)
    BY <1>2, <1>3 DEF Range
  <2>3. Range(q) \subseteq Range(r)
    BY <1>2, <1>4 DEF Range
  <2>4. QED
    BY <2>1, <2>2, <2>3
<1>7. ASSUME IsInjective(p), IsInjective(q), Range(p) \cap Range(q) = {},
             NEW i \in DOMAIN r, NEW j \in DOMAIN r, r[i] = r[j]
      PROVE  i = j
  <2>1. i \in Int /\ j \in Int
    BY <1>2 DEF r
  <2>2. ASSUME NEW k \in 1..Len(p), NEW l \in 1..Len(q) PROVE p[k] # q[l]
    BY <1>2, <1>7 DEF Range
  <2>3. CASE i \in 1..Len(p) /\ j \in 1..Len(p)
    BY <1>1, <1>2, <1>3, <1>7, <2>3 DEF IsInjective
  <2>4. CASE i - Len(p) \in 1..Len(q) /\ j - Len(p) \in 1..Len(q)
    <3>1. q[i - Len(p)] = q[j - Len(p)]
      <4>1. r[i] = q[i - Len(p)]
        BY <1>2, <1>4, <2>1, <2>4
      <4>2. r[j] = q[j - Len(p)]
        BY <1>2, <1>4, <2>1, <2>4
      <4>3. QED
        BY <1>7, <4>1, <4>2
    <3>2. i - Len(p) = j - Len(p)
      BY <1>2, <1>7, <2>4, <3>1 DEF IsInjective
    <3>3. QED
      BY <1>2, <2>1, <3>2
  <2>5. QED
    BY <1>5, <1>7, <2>2, <2>3, <2>4
<1>8. QED
  BY <1>1, <1>6, <1>7 DEF IsInjective, r

\* Each container is at one place.
LEMMA PInvOnce == PInv => EachContainerOnce
<1> SUFFICES ASSUME PInv, mode # "off", NEW c \in Containers
             PROVE  Cardinality({i \in DOMAIN Queued : Queued[i] = c})
                      + Cardinality({w \in Workers : c \in held[w]}) = 1
  BY DEF EachContainerOnce
<1>1. recycled \in Seq(Containers) /\ raw \in Seq(Containers) /\ scanned \in Seq(Containers)
  BY DEF PInv, PipelineTypeOK
<1>2. IsInjective(Queued) /\ Range(Queued) = InFifos
  <2>1. /\ recycled \o raw \in Seq(Containers)
        /\ Range(recycled \o raw) = Range(recycled) \cup Range(raw)
        /\ IsInjective(recycled \o raw)
    BY <1>1, ConcatApart DEF PInv, Apart
  <2> DEFINE front == recycled \o raw
  <2>2. Range(front) \cap Range(scanned) = {}
    BY <2>1 DEF PInv, Apart
  <2>3. IsInjective(scanned) /\ Queued = front \o scanned
    BY DEF PInv, Apart, Queued
  <2>4. front \in Seq(Containers) /\ IsInjective(front)
        /\ Range(front) = Range(recycled) \cup Range(raw)
    BY <2>1
  <2> HIDE DEF front
  <2>5. IsInjective(front \o scanned)
        /\ Range(front \o scanned) = Range(front) \cup Range(scanned)
    BY <1>1, <2>2, <2>3, <2>4, ConcatApart
  <2>6. QED
    BY <2>3, <2>4, <2>5 DEF InFifos
<1> DEFINE places == {i \in DOMAIN Queued : Queued[i] = c}
           hands  == {w \in Workers : c \in held[w]}
<1>3. CASE c \in InFifos
  <2>1. PICK i \in DOMAIN Queued : Queued[i] = c
    BY <1>2, <1>3 DEF Range
  <2>2. places = {i}
    BY <1>2, <2>1 DEF IsInjective
  <2>3. hands = {}
    BY <1>3 DEF PInv, Apart
  <2>4. Cardinality(places) = 1 /\ Cardinality(hands) = 0
    BY <2>2, <2>3, FS_Singleton, FS_EmptySet
  <2>5. QED
    BY <2>4
<1>4. CASE c \notin InFifos
  <2>1. PICK w \in Workers : c \in held[w]
    BY <1>4 DEF PInv, Somewhere
  <2>2. places = {}
    BY <1>2, <1>4 DEF Range
  <2>3. hands = {w}
    BY <2>1 DEF PInv, Apart
  <2>4. Cardinality(places) = 0 /\ Cardinality(hands) = 1
    BY <2>2, <2>3, FS_Singleton, FS_EmptySet
  <2>5. QED
    BY <2>4
<1>5. QED
  BY <1>3, <1>4

(***************************************************************************)
(* The pipeline with words in its containers: every variable has its type, *)
(* and a worker holds one container at most.                               *)
(***************************************************************************)
THEOREM PipelineTypeCorrect == AcqSpec => []PipelineTypeOK
<1>1. PInv => PipelineTypeOK
  BY DEF PInv
<1>2. QED
  BY <1>1, AcqPInv, PTL

(***************************************************************************)
(* For any number of devices and containers, through runs, stops and       *)
(* errors, a container is always in exactly one FIFO, once, or in the      *)
(* hands of one worker.                                                    *)
(***************************************************************************)
THEOREM ContainersShared == AcqSpec => []EachContainerOnce
BY AcqPInv, PInvOnce, PTL

(***************************************************************************)
(* With no more containers than a FIFO has room for, a worker with a       *)
(* container in its hands never finds a FIFO full.                         *)
(***************************************************************************)
THEOREM PushesPass == AcqSpec => []NoPushWaits
BY AcqPInv, PInvRoom, PTL

(***************************************************************************)
(* A container is empty and without marks when it is filled, without marks *)
(* when it is scanned, and has the marks of its own data, no older ones,   *)
(* when the event builder reads them.                                      *)
(***************************************************************************)
THEOREM ContainersClean == AcqSpec => []MarksFresh
<1>1. PInv => MarksFresh
  BY DEF PInv
<1>2. QED
  BY <1>1, AcqPInv, PTL

-----------------------------------------------------------------------------
\* The containers between the readout and the end, the oldest first, and
\* what is in the containers of a sequence.
Way == InHand("builder") \o scanned \o InHand("scanner") \o raw
Along(q, f) == [i \in DOMAIN q |-> f[q[i]]]

\* Of every device the data of a sequence has the numbers up to the last one.
InOrder(flight, last) ==
  \A d \in Devices :
    LET places == {i \in DOMAIN flight : flight[i].dev = d}
    IN  /\ {flight[i].n : i \in places} = 1..last[d]
        /\ \A i, j \in places : i < j => flight[i].n < flight[j].n

Ordered == InOrder(InFlight, taken)

\* The sequences of no container and of one.
LEMMA FewInHand ==
  /\ SetToSeq({}) = <<>>
  /\ \A c : SetToSeq({c}) = <<c>>
<1>1. SetToSeq({}) = <<>>
  <2>1. Cardinality({}) = 0 /\ 1..0 = {}
    BY FS_EmptySet
  <2>2. <<>> \in [1..0 -> {}] /\ IsInjective(<<>>)
    BY DEF IsInjective
  <2>3. SetToSeq({}) \in [1..0 -> {}]
    BY <2>1, <2>2 DEF SetToSeq
  <2>4. QED
    BY <2>3
<1>2. ASSUME NEW c PROVE SetToSeq({c}) = <<c>>
  <2>1. Cardinality({c}) = 1
    BY FS_Singleton
  <2>2. <<c>> \in [1..1 -> {c}] /\ IsInjective(<<c>>)
    BY DEF IsInjective
  <2>3. SetToSeq({c}) \in [1..1 -> {c}]
    BY <2>1, <2>2 DEF SetToSeq
  <2>4. QED
    BY <2>3
<1>3. QED
  BY <1>1, <1>2

\* A sequence is its first element and the rest.
LEMMA HeadAndTail ==
  ASSUME NEW S, NEW q \in Seq(S), q # <<>>
  PROVE  <<Head(q)>> \o Tail(q) = q
<1>1. /\ Head(q) \in S /\ Tail(q) \in Seq(S) /\ Len(Tail(q)) = Len(q) - 1
      /\ \A i \in 1..Len(Tail(q)) : Tail(q)[i] = q[i + 1]
  BY HeadTailProperties
<1>2. Len(q) \in Nat \ {0} /\ Head(q) = q[1]
  BY EmptySeq
<1>3. <<Head(q)>> \in Seq(S) /\ Len(<<Head(q)>>) = 1 /\ <<Head(q)>>[1] = Head(q)
  BY <1>1
<1> DEFINE p == <<Head(q)>>
<1>4. p \o Tail(q) \in Seq(S) /\ Len(p \o Tail(q)) = Len(q)
      /\ \A i \in 1..Len(q) : (p \o Tail(q))[i] = IF i <= 1 THEN p[i] ELSE Tail(q)[i - 1]
  <2> HIDE DEF p
  <2>1. p \in Seq(S) /\ Len(p) = 1
    BY <1>3 DEF p
  <2>2. /\ p \o Tail(q) \in Seq(S) /\ Len(p \o Tail(q)) = Len(p) + Len(Tail(q))
        /\ \A i \in 1..Len(p) + Len(Tail(q)) :
             (p \o Tail(q))[i] = IF i <= Len(p) THEN p[i] ELSE Tail(q)[i - Len(p)]
    <3>1. ASSUME NEW x \in Seq(S), NEW y \in Seq(S)
          PROVE  /\ x \o y \in Seq(S) /\ Len(x \o y) = Len(x) + Len(y)
                 /\ \A i \in 1..Len(x) + Len(y) :
                      (x \o y)[i] = IF i <= Len(x) THEN x[i] ELSE y[i - Len(x)]
      BY ConcatProperties, SMTT(30)
    <3>2. QED
      BY <1>1, <2>1, <3>1
  <2>3. Len(p) + Len(Tail(q)) = Len(q)
    BY <1>1, <1>2, <2>1
  <2>4. QED
    BY <2>1, <2>2, <2>3
<1>5. \A i \in 1..Len(q) : (p \o Tail(q))[i] = q[i]
  BY <1>1, <1>2, <1>3, <1>4
<1>6. QED
  BY <1>4, <1>5, SeqEqual

\* What is in the containers of two sequences, one behind the other.
LEMMA AlongConcat ==
  ASSUME NEW f \in [Containers -> Data \cup {NoData}],
         NEW p \in Seq(Containers), NEW q \in Seq(Containers)
  PROVE  /\ Along(p, f) \in Seq(Data \cup {NoData})
         /\ Along(p \o q, f) = Along(p, f) \o Along(q, f)
<1> DEFINE S == Containers
           T == Data \cup {NoData}
<1>0. f \in [S -> T] /\ p \in Seq(S) /\ q \in Seq(S)
  OBVIOUS
<1> HIDE DEF S, T
<1>1. ASSUME NEW r \in Seq(S)
      PROVE  /\ Along(r, f) \in Seq(T) /\ Len(Along(r, f)) = Len(r)
             /\ \A i \in 1..Len(r) : Along(r, f)[i] = f[r[i]]
  <2>1. Len(r) \in Nat /\ DOMAIN r = 1..Len(r) /\ \A i \in 1..Len(r) : r[i] \in S
    BY LenProperties, ElementOfSeq
  <2>2. Along(r, f) \in [1..Len(r) -> T]
    BY <1>0, <2>1 DEF Along
  <2>3. QED
    BY <2>1, <2>2 DEF Along
<1>2. /\ p \o q \in Seq(S) /\ Len(p \o q) = Len(p) + Len(q)
      /\ \A i \in 1..Len(p) + Len(q) :
           (p \o q)[i] = IF i <= Len(p) THEN p[i] ELSE q[i - Len(p)]
      /\ Len(p) \in Nat /\ Len(q) \in Nat
  BY <1>0, ConcatProperties, LenProperties
<1>3. /\ Along(p, f) \in Seq(T) /\ Along(q, f) \in Seq(T) /\ Along(p \o q, f) \in Seq(T)
      /\ Len(Along(p, f)) = Len(p) /\ Len(Along(q, f)) = Len(q)
      /\ Len(Along(p \o q, f)) = Len(p) + Len(q)
  BY <1>0, <1>1, <1>2
<1>4. /\ Along(p, f) \o Along(q, f) \in Seq(T)
      /\ Len(Along(p, f) \o Along(q, f)) = Len(p) + Len(q)
      /\ \A i \in 1..Len(p) + Len(q) :
           (Along(p, f) \o Along(q, f))[i]
             = IF i <= Len(p) THEN Along(p, f)[i] ELSE Along(q, f)[i - Len(p)]
  <2> DEFINE a == Along(p, f)
             b == Along(q, f)
  <2>1. a \in Seq(T) /\ b \in Seq(T) /\ Len(a) = Len(p) /\ Len(b) = Len(q)
    BY <1>3
  <2> HIDE DEF a, b
  <2>2. /\ a \o b \in Seq(T) /\ Len(a \o b) = Len(a) + Len(b)
        /\ \A i \in 1..Len(a) + Len(b) :
             (a \o b)[i] = IF i <= Len(a) THEN a[i] ELSE b[i - Len(a)]
    BY <2>1, ConcatProperties
  <2>3. QED
    BY <2>1, <2>2 DEF a, b
<1>5. ASSUME NEW i \in 1..Len(p) + Len(q)
      PROVE  Along(p \o q, f)[i] = (Along(p, f) \o Along(q, f))[i]
  <2>1. Along(p \o q, f)[i] = f[(p \o q)[i]]
    BY <1>1, <1>2
  <2>2. CASE i <= Len(p)
    BY <1>0, <1>1, <1>2, <1>4, <2>1, <2>2
  <2>3. CASE ~(i <= Len(p))
    <3>1. i - Len(p) \in 1..Len(q)
      BY <1>2, <2>3
    <3>2. Along(q, f)[i - Len(p)] = f[q[i - Len(p)]]
      BY <1>0, <1>1, <3>1
    <3>3. QED
      BY <1>2, <1>4, <2>1, <2>3, <3>2
  <2>4. QED
    BY <2>2, <2>3
<1>6. Along(p \o q, f) = Along(p, f) \o Along(q, f)
  BY <1>3, <1>4, <1>5, SeqEqual
<1>7. QED
  BY <1>3, <1>6 DEF T

\* Containers with the same data.
LEMMA AlongSame ==
  ASSUME NEW S, NEW q \in Seq(S), NEW f, NEW g, \A c \in Range(q) : f[c] = g[c]
  PROVE  Along(q, f) = Along(q, g)
BY DEF Along, Range

\* What is in one container.
LEMMA AlongOne ==
  ASSUME NEW c, NEW f PROVE Along(<<c>>, f) = <<f[c]>>
BY DEF Along

\* The hands of a worker as a sequence: nothing, or one container.
LEMMA OneInHand ==
  ASSUME PipelineTypeOK, NEW w \in Workers
  PROVE  /\ InHand(w) \in Seq(Containers) /\ Range(InHand(w)) = held[w]
         /\ held[w] = {} => InHand(w) = <<>>
         /\ \A c \in held[w] : InHand(w) = <<c>> /\ held[w] = {c}
<1>1. held[w] \subseteq Containers
      /\ \A c, e \in Containers : {c, e} \subseteq held[w] => c = e
  BY DEF PipelineTypeOK
<1>2. CASE held[w] = {}
  <2>1. InHand(w) = <<>>
    BY <1>2, FewInHand DEF InHand
  <2>2. Range(<<>>) = {}
    BY DEF Range
  <2>3. QED
    BY <1>2, <2>1, <2>2
<1>3. ASSUME NEW c \in held[w]
      PROVE  /\ InHand(w) \in Seq(Containers) /\ Range(InHand(w)) = held[w]
             /\ InHand(w) = <<c>> /\ held[w] = {c}
  <2>1. c \in Containers /\ held[w] = {c}
    BY <1>1
  <2>2. InHand(w) = <<c>>
    BY <2>1, FewInHand DEF InHand
  <2>3. Range(<<c>>) = {c}
    BY DEF Range
  <2>4. QED
    BY <2>1, <2>2, <2>3
<1>4. QED
  BY <1>2, <1>3

\* The containers on the way, and what of them was built or is on the way.
LEMMA WayOfContainers ==
  ASSUME PInv
  PROVE  /\ Way \in Seq(Containers)
         /\ Range(Way) = held["builder"] \cup Range(scanned) \cup held["scanner"]
                           \cup Range(raw)
         /\ InFlight = built \o Along(Way, data)
         /\ built \in Seq(Data \cup {NoData})
         /\ Along(Way, data) \in Seq(Data \cup {NoData})
<1> DEFINE a == InHand("builder") \o scanned
           b == a \o InHand("scanner")
<1>1. /\ scanned \in Seq(Containers) /\ raw \in Seq(Containers)
      /\ data \in [Containers -> Data \cup {NoData}] /\ built \in Seq(Data)
      /\ InHand("builder") \in Seq(Containers) /\ Range(InHand("builder")) = held["builder"]
      /\ InHand("scanner") \in Seq(Containers) /\ Range(InHand("scanner")) = held["scanner"]
  BY OneInHand DEF PInv, PipelineTypeOK, Workers
<1>2. a \in Seq(Containers) /\ Range(a) = held["builder"] \cup Range(scanned)
  BY <1>1, ConcatApart
<1>3. b \in Seq(Containers) /\ Range(b) = Range(a) \cup held["scanner"]
  <2> HIDE DEF a
  <2>1. QED
    BY <1>1, <1>2, ConcatApart
<1>4. Way \in Seq(Containers) /\ Range(Way) = Range(b) \cup Range(raw)
  <2>1. Way = b \o raw
    BY DEF Way
  <2> HIDE DEF b
  <2>2. QED
    BY <1>1, <1>3, <2>1, ConcatApart
<1>5. Along(Way, data) \in Seq(Data \cup {NoData})
  BY <1>1, <1>4, AlongConcat
<1>6. InFlight = built \o Along(Way, data)
  BY DEF InFlight, Along, Way
<1>7. QED
  BY <1>1, <1>2, <1>3, <1>4, <1>5, <1>6

-----------------------------------------------------------------------------
\* One more data of a device, with the next number, behind data in order.
LEMMA OneMoreInOrder ==
  ASSUME NEW flight \in Seq(Data \cup {NoData}), NEW last \in [Devices -> Nat],
         NEW d \in Devices, InOrder(flight, last)
  PROVE  InOrder(flight \o <<[dev |-> d, n |-> last[d] + 1]>>,
                 [last EXCEPT ![d] = @ + 1])
<1> DEFINE x == [dev |-> d, n |-> last[d] + 1]
           longer == flight \o <<x>>
           next == [last EXCEPT ![d] = @ + 1]
           P(e) == {i \in DOMAIN flight : flight[i].dev = e}
           Q(e) == {i \in DOMAIN longer : longer[i].dev = e}
<1>1. /\ Len(flight) \in Nat /\ DOMAIN flight = 1..Len(flight)
      /\ DOMAIN longer = 1..Len(flight) + 1
      /\ \A i \in 1..Len(flight) : longer[i] = flight[i]
      /\ longer[Len(flight) + 1] = x
  <2> DEFINE T == Data \cup {NoData, x}
  <2>1. flight \in Seq(T) /\ <<x>> \in Seq(T) /\ Len(<<x>>) = 1
    BY LenProperties
  <2>2. <<x>>[1] = x
    OBVIOUS
  <2> HIDE DEF x, T
  <2>3. longer \in Seq(T) /\ Len(longer) = Len(flight) + 1
        /\ \A i \in 1..Len(flight) + 1 :
             longer[i] = IF i <= Len(flight) THEN flight[i] ELSE <<x>>[i - Len(flight)]
    BY <2>1, ConcatProperties
  <2>4. Len(flight) \in Nat /\ DOMAIN flight = 1..Len(flight)
        /\ DOMAIN longer = 1..Len(longer)
    BY <2>1, <2>3, LenProperties
  <2> HIDE DEF longer
  <2>5. \A i \in 1..Len(flight) : i \in 1..Len(flight) + 1 /\ i <= Len(flight)
    BY <2>4
  <2>6. Len(flight) + 1 \in 1..Len(flight) + 1 /\ ~(Len(flight) + 1 <= Len(flight))
        /\ (Len(flight) + 1) - Len(flight) = 1
    BY <2>4
  <2>7. QED
    BY <2>2, <2>3, <2>4, <2>5, <2>6
<1>2. x.dev = d /\ x.n = last[d] + 1 /\ last[d] \in Nat
  OBVIOUS
<1>3. 1..Len(flight) + 1 = 1..Len(flight) \cup {Len(flight) + 1}
      /\ Len(flight) + 1 \notin 1..Len(flight)
  BY <1>1
<1> HIDE DEF x, longer
<1>4. ASSUME NEW e \in Devices
      PROVE  /\ {longer[i].n : i \in Q(e)} = 1..next[e]
             /\ \A i, j \in Q(e) : i < j => longer[i].n < longer[j].n
  <2>1. /\ {flight[i].n : i \in P(e)} = 1..last[e]
        /\ \A i, j \in P(e) : i < j => flight[i].n < flight[j].n
    BY DEF InOrder
  <2>2. CASE e # d
    <3>1. Q(e) = P(e)
      BY <1>1, <1>2, <1>3, <2>2
    <3>2. \A i \in P(e) : longer[i] = flight[i]
      BY <1>1
    <3>3. next[e] = last[e]
      BY <2>2
    <3>4. {longer[i].n : i \in Q(e)} = {flight[i].n : i \in P(e)}
      BY <3>1, <3>2
    <3>5. QED
      BY <2>1, <3>1, <3>2, <3>3, <3>4
  <2>3. CASE e = d
    <3> DEFINE z == Len(flight) + 1
    <3>1. Q(e) = P(e) \cup {z}
      BY <1>1, <1>2, <1>3, <2>3
    <3>2. \A i \in P(e) : longer[i] = flight[i] /\ i \in 1..Len(flight)
      BY <1>1
    <3>3. next[e] = last[e] + 1 /\ longer[z].n = last[e] + 1
      BY <1>1, <1>2, <2>3
    <3>4. {longer[i].n : i \in Q(e)} = {flight[i].n : i \in P(e)} \cup {last[e] + 1}
      BY <3>1, <3>2, <3>3
    <3>5. 1..last[e] + 1 = 1..last[e] \cup {last[e] + 1}
      BY <1>2, <2>3
    <3>6. {longer[i].n : i \in Q(e)} = 1..next[e]
      BY <2>1, <3>3, <3>4, <3>5
    <3>7. ASSUME NEW i \in Q(e), NEW j \in Q(e), i < j
          PROVE  longer[i].n < longer[j].n
      <4>1. i \in P(e)
        <5>1. j \in P(e) => j \in 1..Len(flight)
          BY <3>2
        <5>2. i # z
          BY <1>1, <3>1, <3>7, <5>1
        <5>3. QED
          BY <3>1, <5>2
      <4>2. CASE j \in P(e)
        BY <2>1, <3>2, <3>7, <4>1, <4>2
      <4>3. CASE j = z
        <5>1. flight[i].n \in 1..last[e]
          BY <2>1, <4>1
        <5>2. QED
          BY <1>2, <2>3, <3>2, <3>3, <4>1, <4>3, <5>1
      <4>4. QED
        BY <3>1, <4>2, <4>3
    <3>8. QED
      BY <3>6, <3>7
  <2>4. QED
    BY <2>2, <2>3
<1>5. QED
  BY <1>4 DEF InOrder, x, longer

\* Outside Active there is nothing to be in order.
LEMMA RestOrdered == PInv /\ mode # "active" => Ordered
<1> SUFFICES ASSUME PInv, mode # "active" PROVE Ordered
  OBVIOUS
<1>1. /\ raw = <<>> /\ scanned = <<>> /\ built = <<>>
      /\ held["builder"] = {} /\ held["scanner"] = {} /\ taken = [d \in Devices |-> 0]
  BY DEF PInv, AtRest, Workers
<1>2. Way = <<>>
  BY <1>1, FewInHand DEF Way, InHand
<1>3. InFlight = <<>>
  BY <1>1, <1>2, WayOfContainers DEF Along
<1>4. QED
  BY <1>1, <1>3 DEF Ordered, InOrder

\* A step that leaves the containers on the way and their data as they are.
LEMMA SameWayOrdered ==
  ASSUME PInv, PInv', Ordered, Way' = Way, UNCHANGED <<data, built, taken>>
  PROVE  Ordered'
<1>1. InFlight' = built' \o Along(Way', data')
  BY DEF InFlight, Along, Way
<1>2. InFlight' = InFlight
  BY <1>1, WayOfContainers
<1>3. QED
  BY <1>2 DEF Ordered

\* Taking a container and scanning it leave the containers on the way as
\* they are.
LEMMA TakeEmptyKeepsOrdered ==
  ASSUME PInv, PInv', Ordered, NEW d \in Devices, TakeEmpty(d)
  PROVE  Ordered'
<1>1. d \in Workers /\ d \notin {"scanner", "builder"} /\ recycled \in Seq(Containers)
  BY DevicesAssumption DEF Workers, PInv, PipelineTypeOK
<1>2. /\ \A v \in Workers : v # d => held'[v] = held[v]
      /\ UNCHANGED <<raw, scanned, data, built, taken>>
  BY <1>1, TakenByWorker DEF TakeEmpty, PInv
<1>3. held'["builder"] = held["builder"] /\ held'["scanner"] = held["scanner"]
  BY <1>1, <1>2 DEF Workers
<1>4. Way' = Way
  BY <1>2, <1>3 DEF Way, InHand
<1>5. QED
  BY <1>2, <1>4, SameWayOrdered

\* The scanner takes the container that came next.
LEMMA TakeRawKeepsOrdered ==
  ASSUME PInv, PInv', Ordered, TakeRaw
  PROVE  Ordered'
<1> DEFINE c == Head(raw)
           p == InHand("builder") \o scanned
<1>1. /\ "scanner" \in Workers /\ "builder" \in Workers
      /\ scanned \in Seq(Containers) /\ raw \in Seq(Containers)
  BY DEF Workers, PInv, PipelineTypeOK
<1>2. /\ raw # <<>> /\ held["scanner"] = {} /\ held'["scanner"] = {c}
      /\ held'["builder"] = held["builder"]
      /\ raw' = Tail(raw) /\ UNCHANGED <<scanned, data, built, taken>>
  BY <1>1, TakenByWorker DEF TakeRaw, PInv
<1>3. /\ InHand("scanner") = <<>> /\ InHand("scanner")' = <<c>>
      /\ InHand("builder")' = InHand("builder")
  BY <1>2, FewInHand DEF InHand
<1>4. InHand("builder") \in Seq(Containers) /\ c \in Containers
      /\ Tail(raw) \in Seq(Containers)
  BY <1>1, <1>2, OneInHand, TakenFromFifo DEF PInv
<1>5. p \in Seq(Containers) /\ <<c>> \in Seq(Containers)
  BY <1>1, <1>4, ConcatProperties
<1>6. Way = (p \o <<>>) \o raw /\ Way' = (p \o <<c>>) \o Tail(raw)
  BY <1>2, <1>3 DEF Way
<1> HIDE DEF p
<1>7. p \o <<>> = p
  BY <1>5, ConcatEmptySeq
<1>8. (p \o <<c>>) \o Tail(raw) = p \o (<<c>> \o Tail(raw))
  BY <1>4, <1>5, ConcatAssociative
<1>9. <<c>> \o Tail(raw) = raw
  BY <1>1, <1>2, HeadAndTail
<1>10. QED
  BY <1>2, <1>6, <1>7, <1>8, <1>9, SameWayOrdered

\* The scanner passes on the container that came next.
LEMMA ScanKeepsOrdered ==
  ASSUME PInv, PInv', Ordered, Scan
  PROVE  Ordered'
<1>1. PICK c \in held["scanner"] :
        /\ held' = [held EXCEPT !["scanner"] = {}]
        /\ scanned' = Append(scanned, c)
        /\ UNCHANGED <<mode, recycled, raw, data, stopped, run>>
  BY DEF Scan, Pass
<1>2. /\ "scanner" \in Workers /\ "builder" \in Workers
      /\ scanned \in Seq(Containers) /\ raw \in Seq(Containers)
  BY DEF Workers, PInv, PipelineTypeOK
<1>3. /\ c \in Containers /\ held["scanner"] = {c} /\ held'["scanner"] = {}
      /\ held'["builder"] = held["builder"]
  BY <1>1, <1>2, PassedByWorker DEF PInv
<1>4. /\ InHand("scanner") = <<c>> /\ InHand("scanner")' = <<>>
      /\ InHand("builder")' = InHand("builder")
  BY <1>3, FewInHand DEF InHand
<1> DEFINE b == InHand("builder")
           p == b \o scanned
           q == b \o (scanned \o <<c>>)
<1>5. b \in Seq(Containers) /\ <<c>> \in Seq(Containers)
  BY <1>2, <1>3, OneInHand DEF PInv
<1>6. scanned' = scanned \o <<c>>
  BY <1>1, <1>2, <1>3, AppendIsConcat
<1>7. Way = (p \o <<c>>) \o raw /\ Way' = (q \o <<>>) \o raw
  BY <1>1, <1>4, <1>6 DEF Way
<1> HIDE DEF b
<1>8. p \o <<c>> = q
  BY <1>2, <1>5, ConcatAssociative
<1>9. q \in Seq(Containers)
  BY <1>2, <1>5, ConcatProperties
<1> HIDE DEF q
<1>10. q \o <<>> = q
  BY <1>9, ConcatEmptySeq
<1>11. Way' = Way
  BY <1>7, <1>8, <1>10
<1>12. QED
  BY <1>1, <1>11, SameWayOrdered DEF run

\* The event builder takes the container that came next.
LEMMA TakeScannedKeepsOrdered ==
  ASSUME PInv, PInv', Ordered, TakeScanned
  PROVE  Ordered'
<1> DEFINE c == Head(scanned)
<1>1. /\ "scanner" \in Workers /\ "builder" \in Workers
      /\ scanned \in Seq(Containers) /\ raw \in Seq(Containers)
  BY DEF Workers, PInv, PipelineTypeOK
<1>2. /\ scanned # <<>> /\ held["builder"] = {} /\ held'["builder"] = {c}
      /\ held'["scanner"] = held["scanner"]
      /\ scanned' = Tail(scanned) /\ UNCHANGED <<raw, data, built, taken>>
  BY <1>1, TakenByWorker DEF TakeScanned, PInv
<1>3. /\ InHand("builder") = <<>> /\ InHand("builder")' = <<c>>
      /\ InHand("scanner")' = InHand("scanner")
  BY <1>2, FewInHand DEF InHand
<1>4. <<c>> \o Tail(scanned) = scanned /\ <<>> \o scanned = scanned
  BY <1>1, <1>2, HeadAndTail, ConcatEmptySeq
<1>5. Way' = Way
  BY <1>2, <1>3, <1>4 DEF Way
<1>6. QED
  BY <1>2, <1>5, SameWayOrdered

\* A device puts its data, with the next number, at the end of the way.
LEMMA ReadKeepsOrdered ==
  ASSUME PInv, PInv', Ordered, NEW d \in Devices, Read(d)
  PROVE  Ordered'
<1>1. PICK c \in held[d] :
        /\ data' = [data EXCEPT ![c] = [dev |-> d, n |-> taken[d] + 1]]
        /\ taken' = [taken EXCEPT ![d] = @ + 1]
        /\ held' = [held EXCEPT ![d] = {}]
        /\ raw' = Append(raw, c)
        /\ UNCHANGED <<scanned, built>>
  BY DEF Read, Pass
<1>2. /\ d \in Workers /\ d \notin {"scanner", "builder"} /\ raw \in Seq(Containers)
      /\ "builder" \in Workers /\ "scanner" \in Workers
      /\ data \in [Containers -> Data \cup {NoData}]
      /\ data' \in [Containers -> Data \cup {NoData}]
      /\ taken \in [Devices -> 0..MaxReads]
  BY DevicesAssumption DEF Workers, PInv, PipelineTypeOK
<1>3. /\ c \in Containers /\ held'["builder"] = held["builder"]
      /\ held'["scanner"] = held["scanner"]
  BY <1>1, <1>2, PassedByWorker DEF PInv
<1>4. c \notin Range(Way)
  BY <1>2, WayOfContainers DEF PInv, Apart, InFifos
<1> DEFINE p == (InHand("builder") \o scanned) \o InHand("scanner")
           x == [dev |-> d, n |-> taken[d] + 1]
<1>5. Way = p \o raw /\ Way' = p \o (raw \o <<c>>)
  <2>1. raw' = raw \o <<c>>
    BY <1>1, <1>2, <1>3, AppendIsConcat
  <2>2. QED
    BY <1>1, <1>3, <2>1 DEF Way, InHand
<1>6. p \in Seq(Containers) /\ <<c>> \in Seq(Containers)
  <2>1. InHand("builder") \in Seq(Containers) /\ InHand("scanner") \in Seq(Containers)
        /\ scanned \in Seq(Containers)
    BY <1>2, OneInHand DEF PInv, PipelineTypeOK
  <2>2. InHand("builder") \o scanned \in Seq(Containers)
    BY <2>1, ConcatProperties
  <2>3. QED
    BY <1>3, <2>1, <2>2, ConcatProperties
<1>7. Way' = Way \o <<c>>
  <2> HIDE DEF p
  <2>1. QED
    BY <1>2, <1>5, <1>6, ConcatAssociative
<1>8. Along(Way', data') = Along(Way, data) \o <<x>>
  <2>1. Way \in Seq(Containers)
    BY WayOfContainers
  <2> DEFINE one == <<c>>
             after == data'
  <2>2. Along(Way \o one, after) = Along(Way, after) \o Along(one, after)
    <3>1. one \in Seq(Containers) /\ after \in [Containers -> Data \cup {NoData}]
      BY <1>2, <1>6
    <3> HIDE DEF one, after
    <3>2. QED
      BY <2>1, <3>1, AlongConcat, Zenon
  <2>3. \A e \in Range(Way) : data[e] = data'[e]
    BY <1>1, <1>2, <1>4
  <2>4. Along(Way, data') = Along(Way, data)
    BY <2>1, <2>3, AlongSame
  <2>5. Along(<<c>>, data') = <<data'[c]>> /\ data'[c] = x
    BY <1>1, <1>2, <1>3, AlongOne
  <2>6. QED
    BY <1>7, <2>2, <2>4, <2>5
<1>9. /\ built \in Seq(Data \cup {NoData}) /\ Along(Way, data) \in Seq(Data \cup {NoData})
      /\ InFlight = built \o Along(Way, data)
      /\ InFlight' = built \o Along(Way', data')
  BY <1>1, WayOfContainers DEF InFlight, Along, Way
<1>10. x \in Data \cup {NoData}
  <2>1. data'[c] = x
    BY <1>1, <1>2, <1>3
  <2>2. QED
    BY <1>2, <1>3, <2>1
<1> HIDE DEF x
<1>11. InFlight' = InFlight \o <<x>>
  <2> DEFINE a == Along(Way, data)
  <2>1. a \in Seq(Data \cup {NoData}) /\ <<x>> \in Seq(Data \cup {NoData})
    BY <1>9, <1>10
  <2>2. InFlight = built \o a /\ InFlight' = built \o (a \o <<x>>)
    BY <1>8, <1>9
  <2> HIDE DEF a
  <2>3. QED
    BY <1>9, <2>1, <2>2, ConcatAssociative
<1>12. InFlight \in Seq(Data \cup {NoData})
  <2> DEFINE a == Along(Way, data)
  <2>1. a \in Seq(Data \cup {NoData}) /\ InFlight = built \o a
    BY <1>9
  <2> HIDE DEF a
  <2>2. QED
    BY <1>9, <2>1, ConcatProperties
<1>13. taken \in [Devices -> Nat]
  BY <1>2, NumbersAssumption
<1>14. QED
  BY <1>1, <1>11, <1>12, <1>13, OneMoreInOrder DEF Ordered, x

\* The event builder moves the data that came next to the data it has had.
LEMMA BuildKeepsOrdered ==
  ASSUME PInv, PInv', Ordered, Build
  PROVE  Ordered'
<1>1. PICK c \in held["builder"] :
        /\ built' = Append(built, data[c])
        /\ data' = [data EXCEPT ![c] = NoData]
        /\ held' = [held EXCEPT !["builder"] = {}]
        /\ UNCHANGED <<raw, scanned, taken>>
  BY DEF Build, Clear, Pass
<1>2. /\ "builder" \in Workers /\ "scanner" \in Workers
      /\ raw \in Seq(Containers) /\ scanned \in Seq(Containers)
      /\ data \in [Containers -> Data \cup {NoData}] /\ built \in Seq(Data)
  BY DEF Workers, PInv, PipelineTypeOK
<1>3. /\ c \in Containers /\ held["builder"] = {c} /\ held'["builder"] = {}
      /\ held'["scanner"] = held["scanner"]
  BY <1>1, <1>2, PassedByWorker DEF PInv
<1>4. /\ InHand("builder") = <<c>> /\ InHand("builder")' = <<>>
      /\ InHand("scanner")' = InHand("scanner")
  BY <1>3, FewInHand DEF InHand
<1> DEFINE s == InHand("scanner")
<1>5. s \in Seq(Containers) /\ <<c>> \in Seq(Containers)
  BY <1>2, <1>3, OneInHand DEF PInv
<1>6. Way = ((<<c>> \o scanned) \o s) \o raw /\ Way' = ((<<>> \o scanned) \o s) \o raw
  BY <1>1, <1>4 DEF Way
<1> DEFINE q == (scanned \o s) \o raw
<1>7. Way' = q /\ Way = <<c>> \o q /\ q \in Seq(Containers)
  <2> HIDE DEF s
  <2>1. <<>> \o scanned = scanned
    BY <1>2, ConcatEmptySeq
  <2>2. scanned \o s \in Seq(Containers)
    BY <1>2, <1>5, ConcatProperties
  <2>3. (<<c>> \o scanned) \o s = <<c>> \o (scanned \o s)
    BY <1>2, <1>5, ConcatAssociative
  <2>4. (<<c>> \o (scanned \o s)) \o raw = <<c>> \o ((scanned \o s) \o raw)
    BY <1>2, <1>5, <2>2, ConcatAssociative
  <2>5. q \in Seq(Containers)
    BY <1>2, <2>2, ConcatProperties
  <2>6. QED
    BY <1>6, <2>1, <2>3, <2>4, <2>5
<1>8. c \notin Range(Way')
  <2>1. Range(Way)' = held'["builder"] \cup Range(scanned)' \cup held'["scanner"]
                        \cup Range(raw)'
    <3>1. (PInv => Range(Way) = held["builder"] \cup Range(scanned)
                                  \cup held["scanner"] \cup Range(raw))'
      BY WayOfContainers, PTL
    <3>2. QED
      BY <3>1
  <2>2. c \notin Range(scanned) /\ c \notin Range(raw) /\ c \notin held["scanner"]
    BY <1>2, <1>3 DEF PInv, Apart, InFifos
  <2>3. QED
    BY <1>1, <1>3, <2>1, <2>2
<1> HIDE DEF q
<1> DEFINE a == Along(q, data)
           T == Data \cup {NoData}
<1>9. a \in Seq(T) /\ Along(Way, data) = <<data[c]>> \o a
  <2> DEFINE one == <<c>>
  <2>1. a \in Seq(T) /\ Along(one \o q, data) = Along(one, data) \o Along(q, data)
    <3>1. one \in Seq(Containers) /\ q \in Seq(Containers)
          /\ data \in [Containers -> Data \cup {NoData}]
      BY <1>2, <1>5, <1>7
    <3> HIDE DEF one
    <3>2. Along(one \o q, data) = Along(one, data) \o Along(q, data)
      BY <3>1, AlongConcat, Zenon
    <3>3. a \in Seq(T)
      BY <3>1, AlongConcat
    <3>4. QED
      BY <3>2, <3>3
  <2>2. Along(<<c>>, data) = <<data[c]>>
    BY AlongOne
  <2>3. QED
    BY <1>7, <2>1, <2>2
<1>10. Along(Way', data') = a
  <2>1. \A e \in Range(q) : data'[e] = data[e]
    BY <1>1, <1>2, <1>7, <1>8 DEF Range
  <2>2. QED
    BY <1>7, <2>1, AlongSame
<1>11. /\ InFlight = built \o Along(Way, data) /\ built \in Seq(T)
       /\ InFlight' = built' \o Along(Way', data')
  BY WayOfContainers DEF InFlight, Along, Way
<1>12. data[c] \in T /\ <<data[c]>> \in Seq(T)
  BY <1>2, <1>3
<1> HIDE DEF a, T
<1>13. built' = built \o <<data[c]>>
  BY <1>1, <1>11, <1>12, AppendIsConcat
<1>14. (built \o <<data[c]>>) \o a = built \o (<<data[c]>> \o a)
  BY <1>9, <1>11, <1>12, ConcatAssociative
<1>15. InFlight' = InFlight
  BY <1>9, <1>10, <1>11, <1>13, <1>14
<1>16. QED
  BY <1>1, <1>15 DEF Ordered

\* The order survives every step, and a step that changes nothing.
LEMMA NextKeepsOrdered == PInv /\ Ordered /\ [PipelineNext]_pipelineVars => Ordered'
<1> SUFFICES ASSUME PInv, Ordered, [PipelineNext]_pipelineVars PROVE Ordered'
  OBVIOUS
<1>1. PInv'
  BY NextKeepsPInv
<1>2. (PInv /\ mode # "active" => Ordered)'
  BY RestOrdered, PTL
<1>3. CASE EnterStandby \/ Stop \/ Dismiss
  BY <1>1, <1>2, <1>3 DEF EnterStandby, Stop, Dismiss
<1>4. CASE \/ Start \/ ScanError \/ BuildError \/ UNCHANGED pipelineVars
           \/ \E d \in Devices : ReadError(d)
  <2>1. UNCHANGED <<raw, scanned, held, data, taken, built>>
    BY <1>4 DEF Start, ScanError, BuildError, ReadError, GiveUp, pipelineVars, fifos, run
  <2>2. Way' = Way
    BY <2>1 DEF Way, InHand
  <2>3. QED
    BY <1>1, <2>1, <2>2, SameWayOrdered
<1>5. QED
  BY <1>1, <1>3, <1>4, TakeEmptyKeepsOrdered, ReadKeepsOrdered, TakeRawKeepsOrdered,
     ScanKeepsOrdered, TakeScannedKeepsOrdered, BuildKeepsOrdered
     DEF PipelineNext, ReadoutStep, ScannerStep, BuilderStep

(***************************************************************************)
(* What the devices send arrives: for any number of devices and            *)
(* containers, what the event builder has had of a device and what is on   *)
(* the way to it are the data 1, 2, 3 and so on up to the last one read,   *)
(* none lost, doubled or overtaken.                                        *)
(***************************************************************************)
THEOREM NothingOvertaken == AcqSpec => []OrderKept
<1>1. AcqInit => PInv /\ Ordered
  <2>1. PipelineInit => PInv /\ mode # "active"
    BY InitPInv DEF PipelineInit
  <2>2. QED
    BY <2>1, RestOrdered DEF AcqInit
<1>2. PInv /\ Ordered /\ [AcqNext]_acqVars => PInv' /\ Ordered'
  BY AcqStep, NextKeepsPInv, NextKeepsOrdered
<1>3. Ordered => OrderKept
  BY DEF Ordered, InOrder, OrderKept
<1>4. QED
  BY <1>1, <1>2, <1>3, PTL DEF AcqSpec

-----------------------------------------------------------------------------
(***************************************************************************)
(* The words in the containers.                                            *)
(***************************************************************************)
\* The read a datum is from.
ReadOf(y) == reads[y.dev][y.n]

\* In a run the devices read the streams of the boards, as one of the feeds
\* says; outside of one there is nothing to read.
Reading ==
  /\ mode = "off" => streams = Silence /\ reads = NoReads /\ pos = Beginning
  /\ mode # "off" => \E f \in Feeds : streams = f.streams /\ reads = f.reads
  /\ \A d \in Devices : taken[d] <= Len(reads[d])
  /\ pos \in [Boards -> Nat]

\* The event builder has come as far in the stream of a board as the last of
\* the board's reads that it has had.
Reached ==
  \A b \in Boards :
    LET ends == {ReadOf(y).upto : y \in {z \in Range(built) : ReadOf(z).board = b}}
    IN  /\ pos[b] \in {0} \cup ends
        /\ \A e \in ends : e <= pos[b]

WordsInv == PInv /\ Ordered /\ Reading /\ Reached

\* A sequence that is not empty is the beginning of one with more behind it.
LEMMA FirstOfConcat ==
  ASSUME NEW S, NEW p \in Seq(S), NEW q \in Seq(S), Len(p) > 0
  PROVE  p \o q \in Seq(S) /\ Len(p \o q) > 0 /\ (p \o q)[1] = p[1]
<1>1. Len(p) \in Nat /\ Len(q) \in Nat
  BY LenProperties
<1>2. p \o q \in Seq(S) /\ Len(p \o q) = Len(p) + Len(q)
      /\ \A i \in 1..Len(p) + Len(q) :
           (p \o q)[i] = IF i <= Len(p) THEN p[i] ELSE q[i - Len(p)]
  BY ConcatProperties, SMTT(30)
<1>3. QED
  BY <1>1, <1>2

\* What the event builder has in its hands is the first on the way.
LEMMA BuilderIsFirst ==
  ASSUME PInv, NEW c \in held["builder"]
  PROVE  Len(Way) > 0 /\ Way[1] = c
<1>1. /\ "builder" \in Workers /\ "scanner" \in Workers
      /\ raw \in Seq(Containers) /\ scanned \in Seq(Containers)
  BY DEF Workers, PInv, PipelineTypeOK
<1>2. /\ InHand("builder") \in Seq(Containers) /\ InHand("scanner") \in Seq(Containers)
      /\ InHand("builder") = <<c>>
  <2>1. \A w \in Workers : InHand(w) \in Seq(Containers)
    BY OneInHand DEF PInv
  <2>2. c \in Containers /\ held["builder"] = {c}
    BY <1>1 DEF PInv, PipelineTypeOK
  <2>3. QED
    BY <1>1, <2>1, <2>2, FewInHand DEF InHand
<1>3. Len(InHand("builder")) = 1 /\ InHand("builder")[1] = c
  BY <1>2
<1> DEFINE p == InHand("builder") \o scanned
           q == p \o InHand("scanner")
<1>4. p \in Seq(Containers) /\ Len(p) > 0 /\ p[1] = c
  BY <1>1, <1>2, <1>3, FirstOfConcat
<1>5. q \in Seq(Containers) /\ Len(q) > 0 /\ q[1] = c
  <2> HIDE DEF p
  <2>1. QED
    BY <1>2, <1>4, FirstOfConcat
<1>6. Way = q \o raw
  BY DEF Way
<1>7. QED
  <2> HIDE DEF q
  <2>1. QED
    BY <1>1, <1>5, <1>6, FirstOfConcat

\* The datum in the hands of the event builder is the next of its device.
LEMMA BuilderHasNext ==
  ASSUME PInv, Ordered, NEW c \in held["builder"]
  PROVE  /\ data[c] \in Data /\ marks[c] = {data[c]}
         /\ data[c].n <= taken[data[c].dev]
         /\ \A y \in Range(built) :
              /\ y \in Data
              /\ y.dev = data[c].dev => y.n < data[c].n
         /\ \A j \in 1..data[c].n-1 :
              \E y \in Range(built) : y.dev = data[c].dev /\ y.n = j
<1> DEFINE x == data[c]
           m == Len(built)
           flight == InFlight
<1>1. /\ c \in Containers /\ x \in Data \cup {NoData} /\ built \in Seq(Data)
      /\ taken \in [Devices -> 0..MaxReads] /\ "builder" \in Workers
  BY DEF Workers, PInv, PipelineTypeOK
<1>2. x # NoData /\ marks[c] = {x}
  BY DEF PInv, MarksFresh, Marked
<1>3. x \in Data
  BY <1>1, <1>2
<1>4. x.dev \in Devices /\ x.n \in 1..MaxReads /\ MaxReads \in Nat
  BY <1>3, NumbersAssumption DEF Data
<1>5. m \in Nat /\ DOMAIN built = 1..m
  BY <1>1, LenProperties
<1>6. m + 1 \in DOMAIN flight /\ flight[m + 1] = x
      /\ DOMAIN flight \subseteq Nat \ {0}
      /\ \A i \in 1..m : i \in DOMAIN flight /\ flight[i] = built[i]
  <2> DEFINE a == Along(Way, data)
             T == Data \cup {NoData}
  <2>1. a \in Seq(T) /\ built \in Seq(T) /\ flight = built \o a
    BY WayOfContainers
  <2>2. Len(a) > 0 /\ a[1] = x
    <3>1. Way \in Seq(Containers) /\ Len(Way) > 0 /\ Way[1] = c
      BY WayOfContainers, BuilderIsFirst
    <3>2. DOMAIN Way = 1..Len(Way) /\ Len(Way) \in Nat
      BY <3>1, LenProperties
    <3>3. DOMAIN a = DOMAIN Way /\ 1 \in DOMAIN Way
      BY <3>1, <3>2 DEF Along
    <3>4. Len(a) \in Nat /\ DOMAIN a = 1..Len(a)
      BY <2>1, LenProperties
    <3>5. Len(a) > 0
      BY <3>3, <3>4
    <3>6. QED
      BY <3>1, <3>3, <3>5 DEF Along
  <2> HIDE DEF a, T, m
  <2>3. Len(a) \in Nat
    BY <2>1, LenProperties
  <2>4. built \o a \in Seq(T) /\ Len(built \o a) = Len(built) + Len(a)
        /\ \A i \in 1..Len(built) + Len(a) :
             (built \o a)[i] = IF i <= Len(built) THEN built[i] ELSE a[i - Len(built)]
    BY <2>1, ConcatProperties, SMTT(30)
  <2>5. DOMAIN (built \o a) = 1..Len(built \o a)
    BY <2>4, LenProperties
  <2>6. QED
    BY <1>5, <2>1, <2>2, <2>3, <2>4, <2>5 DEF m
<1> HIDE DEF x, m, flight
<1> DEFINE places == {i \in DOMAIN flight : flight[i].dev = x.dev}
<1>7. /\ {flight[i].n : i \in places} = 1..taken[x.dev]
      /\ \A i, j \in places : i < j => flight[i].n < flight[j].n
  BY <1>4 DEF Ordered, InOrder, flight
<1>8. m + 1 \in places
  BY <1>6
<1>9. x.n \in 1..taken[x.dev] /\ taken[x.dev] \in Nat
  BY <1>1, <1>4, <1>6, <1>7, <1>8
<1>10. ASSUME NEW y \in Range(built)
       PROVE  y \in Data /\ (y.dev = x.dev => y.n < x.n)
  <2>1. PICK i \in 1..m : y = built[i]
    BY <1>5 DEF Range
  <2>2. y \in Data
    BY <1>1, <1>5, <2>1
  <2>3. ASSUME y.dev = x.dev PROVE y.n < x.n
    <3>1. i \in places /\ flight[i] = y
      BY <1>6, <2>1, <2>3
    <3>2. i < m + 1
      BY <1>5
    <3>3. QED
      BY <1>6, <1>7, <1>8, <3>1, <3>2
  <2>4. QED
    BY <2>2, <2>3
<1>11. ASSUME NEW j \in 1..x.n-1
       PROVE  \E y \in Range(built) : y.dev = x.dev /\ y.n = j
  <2>1. j \in 1..taken[x.dev] /\ j < x.n
    BY <1>4, <1>9
  <2>2. PICK i \in places : flight[i].n = j
    BY <1>7, <2>1
  <2>3. i \in Nat /\ ~(m + 1 < i) /\ i # m + 1
    BY <1>4, <1>6, <1>7, <1>8, <2>1, <2>2
  <2>4. i \in 1..m
    BY <1>5, <1>6, <2>3
  <2>5. built[i] \in Range(built) /\ built[i] = flight[i]
    BY <1>5, <1>6, <2>4 DEF Range
  <2>6. QED
    BY <2>2, <2>5
<1>12. QED
  BY <1>2, <1>3, <1>9, <1>10, <1>11 DEF x

\* What the event builder has had was read.
LEMMA BuiltIsTaken ==
  ASSUME PInv, Ordered, NEW y \in Range(built)
  PROVE  y.n <= taken[y.dev]
<1> DEFINE flight == InFlight
<1>1. built \in Seq(Data) /\ taken \in [Devices -> 0..MaxReads]
  BY DEF PInv, PipelineTypeOK
<1>2. PICK i \in 1..Len(built) : y = built[i]
  BY <1>1, LenProperties DEF Range
<1>3. y \in Data /\ y.dev \in Devices
  <2>1. y \in Data
    BY <1>1, <1>2
  <2>2. QED
    BY <2>1 DEF Data
<1>4. i \in DOMAIN flight /\ flight[i] = y
  <2> DEFINE a == Along(Way, data)
             T == Data \cup {NoData}
  <2>1. a \in Seq(T) /\ built \in Seq(T) /\ flight = built \o a
    BY WayOfContainers
  <2> HIDE DEF a, T
  <2>2. Len(a) \in Nat /\ Len(built) \in Nat
    BY <2>1, LenProperties
  <2>3. built \o a \in Seq(T) /\ Len(built \o a) = Len(built) + Len(a)
        /\ \A k \in 1..Len(built) + Len(a) :
             (built \o a)[k] = IF k <= Len(built) THEN built[k] ELSE a[k - Len(built)]
    BY <2>1, ConcatProperties, SMTT(30)
  <2>4. DOMAIN (built \o a) = 1..Len(built \o a)
    BY <2>3, LenProperties
  <2>5. QED
    BY <1>2, <2>1, <2>2, <2>3, <2>4
<1> HIDE DEF flight
<1>5. {flight[k].n : k \in {m \in DOMAIN flight : flight[m].dev = y.dev}}
        = 1..taken[y.dev]
  BY <1>3 DEF Ordered, InOrder, flight
<1>6. y.n \in 1..taken[y.dev]
  BY <1>4, <1>5
<1>7. QED
  BY <1>1, <1>3, <1>6, NumbersAssumption

\* What the assumption says of one read, and of another of the same board.
LEMMA FeedFacts ==
  ASSUME NEW f \in Feeds, NEW d \in Devices, NEW i \in 1..Len(f.reads[d]),
         NEW x, x = f.reads[d][i]
  PROVE  /\ x \in Slice
         /\ x.board \in Boards /\ x.from \in Nat /\ x.upto \in Nat
         /\ f.streams \in [Boards -> Streams]
         /\ x.upto <= Len(f.streams[x.board])
         /\ x.upto - x.from + 1 \in Sizes
         /\ \/ x.from = 1
            \/ \E j \in 1..i-1 : /\ f.reads[d][j].board = x.board
                                 /\ x.from = f.reads[d][j].upto + 1
         /\ \A j \in 1..i-1 :
              f.reads[d][j].board = x.board => f.reads[d][j].upto < x.from
         /\ \A e \in Devices : \A j \in 1..Len(f.reads[e]) :
              f.reads[e][j].board = x.board => e = d
<1> DEFINE r(e) == f.reads[e]
<1>1. /\ f.streams \in [Boards -> Streams]
      /\ \A e \in Devices : r(e) \in Seq(Slice)
  BY FeedsAssumption
<1>2. \A e \in Devices : DOMAIN r(e) = 1..Len(r(e)) /\ Len(r(e)) \in Nat
  BY <1>1, LenProperties
<1>3. x \in Slice /\ i \in DOMAIN r(d)
  BY <1>1, <1>2
<1>4. x.board \in Boards /\ x.from \in Nat /\ x.upto \in Nat
  BY <1>3 DEF Slice
<1>5. \A e \in Devices : \A j \in 1..Len(r(e)) : r(e)[j] \in Range(r(e))
  BY <1>2 DEF Range
<1>6. \A e \in Devices : \A j \in 1..Len(r(e)) : r(e)[j].board = x.board => e = d
  <2>1. \A e \in Devices : \A y \in Range(r(d)), z \in Range(r(e)) :
          y.board = z.board => d = e
    BY FeedsAssumption
  <2>2. QED
    BY <1>5, <2>1
<1> DEFINE before == {y \in {r(d)[j] : j \in 1..i-1} : y.board = x.board}
<1>7. /\ x.upto <= Len(f.streams[x.board])
      /\ x.upto - x.from + 1 \in Sizes
      /\ x.from = 1 \/ \E y \in before : x.from = y.upto + 1
      /\ \A y \in before : y.upto < x.from
  <2>1. \A e \in Devices : \A k \in DOMAIN f.reads[e] :
          LET y == f.reads[e][k]
              befo == {z \in {f.reads[e][j] : j \in 1..k-1} : z.board = y.board}
          IN  /\ y.upto <= Len(f.streams[y.board])
              /\ y.upto - y.from + 1 \in Sizes
              /\ y.from = 1 \/ \E z \in befo : y.from = z.upto + 1
              /\ \A z \in befo : z.upto < y.from
    BY FeedsAssumption, Zenon
  <2>2. LET y == f.reads[d][i]
            befo == {z \in {f.reads[d][j] : j \in 1..i-1} : z.board = y.board}
        IN  /\ y.upto <= Len(f.streams[y.board])
            /\ y.upto - y.from + 1 \in Sizes
            /\ y.from = 1 \/ \E z \in befo : y.from = z.upto + 1
            /\ \A z \in befo : z.upto < y.from
    BY <1>3, <2>1, Zenon
  <2>3. QED
    BY <2>2, Zenon
<1>8. QED
  BY <1>1, <1>2, <1>3, <1>4, <1>6, <1>7

\* In a run every datum that was read is of a read of the feed.
LEMMA DataAreRead ==
  ASSUME PInv, Reading, mode = "active"
  PROVE  \E f \in Feeds :
           /\ streams = f.streams /\ reads = f.reads
           /\ \A d \in Devices : Len(reads[d]) \in Nat /\ taken[d] <= Len(reads[d])
<1>1. PICK f \in Feeds : streams = f.streams /\ reads = f.reads
  BY DEF Reading
<1>2. \A d \in Devices : reads[d] \in Seq(Slice)
  BY <1>1, FeedsAssumption
<1>3. \A d \in Devices : Len(reads[d]) \in Nat /\ taken[d] <= Len(reads[d])
  BY <1>2, LenProperties DEF Reading
<1>4. QED
  BY <1>1, <1>3

\* The event builder is given the words of a board that come next.
LEMMA NextSlice ==
  ASSUME WordsInv, mode = "active", NEW c \in held["builder"]
  PROVE  LET r == ReadOf(data[c]) IN
         /\ r.board \in Boards /\ r.from \in Nat /\ r.upto \in Nat
         /\ r.from = pos[r.board] + 1
         /\ r.upto - r.from + 1 \in Sizes
         /\ streams \in [Boards -> Streams]
         /\ r.upto <= Len(streams[r.board])
         /\ \A y \in Range(built) : ReadOf(y).board = r.board =>
              ReadOf(y).upto \in Nat /\ ReadOf(y).upto < r.upto
<1> DEFINE x == data[c]
           d == x.dev
           r == ReadOf(x)
           b == r.board
<1>1. PICK f \in Feeds :
        /\ streams = f.streams /\ reads = f.reads
        /\ \A e \in Devices : Len(reads[e]) \in Nat /\ taken[e] <= Len(reads[e])
  BY DataAreRead DEF WordsInv
<1>2. /\ x \in Data /\ x.n <= taken[d]
      /\ \A y \in Range(built) : y \in Data /\ (y.dev = d => y.n < x.n)
      /\ \A j \in 1..x.n-1 : \E y \in Range(built) : y.dev = d /\ y.n = j
  BY BuilderHasNext DEF WordsInv
<1>3. d \in Devices /\ x.n \in Nat \ {0} /\ taken[d] \in Nat
  BY <1>2, NumbersAssumption DEF Data, WordsInv, PInv, PipelineTypeOK
<1>4. x.n \in 1..Len(f.reads[d]) /\ Len(f.reads[d]) \in Nat
  BY <1>1, <1>2, <1>3
<1> HIDE DEF x, d
<1>5. /\ r.board \in Boards /\ r.from \in Nat /\ r.upto \in Nat
      /\ r.upto <= Len(streams[r.board])
      /\ r.upto - r.from + 1 \in Sizes
      /\ streams \in [Boards -> Streams]
      /\ \/ r.from = 1
         \/ \E j \in 1..x.n-1 : reads[d][j].board = r.board
                                /\ r.from = reads[d][j].upto + 1
      /\ \A j \in 1..x.n-1 : reads[d][j].board = r.board => reads[d][j].upto < r.from
      /\ \A e \in Devices : \A j \in 1..Len(reads[e]) :
           reads[e][j].board = r.board => e = d
  <2>1. r = f.reads[d][x.n]
    BY <1>1 DEF ReadOf, d
  <2> HIDE DEF r
  <2>2. PICK k \in 1..Len(f.reads[d]) : k = x.n
    BY <1>4
  <2>3. r = f.reads[d][k]
    BY <2>1, <2>2
  <2>4. r.board \in Boards /\ r.from \in Nat /\ r.upto \in Nat
    <3>1. r \in Slice
      BY <1>3, <2>3, FeedFacts, SMTT(30)
    <3>2. QED
      BY <3>1 DEF Slice
  <2>5. /\ f.streams \in [Boards -> Streams]
        /\ r.upto <= Len(f.streams[r.board])
        /\ r.upto - r.from + 1 \in Sizes
    BY <1>3, <2>3, FeedFacts, SMTT(30)
  <2>6. \/ r.from = 1
        \/ \E j \in 1..k-1 : /\ f.reads[d][j].board = r.board
                              /\ r.from = f.reads[d][j].upto + 1
    BY <1>3, <2>3, FeedFacts, SMTT(30)
  <2>7. \A j \in 1..k-1 :
          f.reads[d][j].board = r.board => f.reads[d][j].upto < r.from
    BY <1>3, <2>3, FeedFacts, SMTT(30)
  <2>8. \A e \in Devices : \A j \in 1..Len(f.reads[e]) :
          f.reads[e][j].board = r.board => e = d
    BY <1>3, <2>3, FeedFacts, SMTT(30)
  <2>9. QED
    BY <1>1, <2>2, <2>4, <2>5, <2>6, <2>7, <2>8
<1> HIDE DEF r
<1>6. ASSUME NEW y \in Range(built), ReadOf(y).board = b
      PROVE  /\ y.dev = d /\ y.n \in 1..x.n-1
             /\ ReadOf(y).upto \in Nat /\ ReadOf(y).upto < r.from
  <2>1. y \in Data /\ y.dev \in Devices /\ y.n \in Nat \ {0}
    BY <1>2, NumbersAssumption DEF Data
  <2>2. \E j \in 1..Len(reads[y.dev]) : j = y.n
    <3>1. y.n <= taken[y.dev]
      BY BuiltIsTaken, <1>6 DEF WordsInv
    <3>2. taken[y.dev] \in Nat
      BY <2>1, NumbersAssumption DEF WordsInv, PInv, PipelineTypeOK
    <3>3. QED
      BY <1>1, <2>1, <3>1, <3>2
  <2>3. y.dev = d
    BY <1>5, <1>6, <2>1, <2>2 DEF ReadOf
  <2>4. y.n \in 1..x.n-1
    BY <1>2, <1>3, <2>1, <2>3
  <2>5. ReadOf(y).upto < r.from
    BY <1>5, <1>6, <2>3, <2>4 DEF ReadOf
  <2>6. ReadOf(y).upto \in Nat
    <3>1. f.reads[y.dev] \in Seq(Slice) /\ y.n \in 1..Len(f.reads[y.dev])
      BY <1>1, <2>1, <2>2, FeedsAssumption
    <3>2. f.reads[y.dev][y.n] \in Slice
      BY <3>1
    <3>3. QED
      BY <1>1, <3>2 DEF Slice, ReadOf
  <2>7. QED
    BY <2>3, <2>4, <2>5, <2>6
<1>7. pos[b] = r.from - 1
  <2> DEFINE ends == {ReadOf(y).upto : y \in {z \in Range(built) : ReadOf(z).board = b}}
  <2>1. pos[b] \in {0} \cup ends /\ \A e \in ends : e <= pos[b]
    BY <1>5 DEF WordsInv, Reached
  <2>2. \A e \in ends : e \in Nat /\ e < r.from
    BY <1>6
  <2>3. r.from - 1 \in {0} \cup ends
    <3>1. ASSUME NEW j \in 1..x.n-1, reads[d][j].board = b, r.from = reads[d][j].upto + 1
          PROVE  r.from - 1 \in ends
      <4>1. PICK y \in Range(built) : y.dev = d /\ y.n = j
        BY <1>2
      <4>2. ReadOf(y) = reads[d][j]
        BY <4>1 DEF ReadOf
      <4>3. ReadOf(y).upto \in ends /\ ReadOf(y).upto \in Nat
        BY <1>6, <3>1, <4>2
      <4>4. QED
        BY <3>1, <4>2, <4>3
    <3>2. CASE r.from = 1
      BY <3>2
    <3>3. QED
      BY <1>5, <3>1, <3>2
  <2> HIDE DEF ends
  <2>4. r.from >= 1
    BY <1>5, <2>2, <2>3
  <2>5. QED
    BY <1>5, <2>1, <2>2, <2>3, <2>4
<1>8. r.upto >= r.from
  BY <1>5, SizesAssumption
<1>9. \A y \in Range(built) : ReadOf(y).board = b =>
        ReadOf(y).upto \in Nat /\ ReadOf(y).upto < r.upto
  BY <1>5, <1>6, <1>8
<1>10. QED
  BY <1>5, <1>7, <1>9 DEF r, x

\* What process() of the event builder is given: the container in its hands,
\* and this is the next words of a board, with the marks that belong to them.
LEMMA ArrivedIsInput ==
  ASSUME WordsInv, mode = "active", NEW c \in held["builder"]
  PROVE  LET r == ReadOf(data[c])
             n == r.upto - r.from + 1
         IN  /\ Arrivals = {Arrived(c)}
             /\ Arrived(c) = Input(r.board, n)
             /\ Arrived(c).board = r.board /\ Len(Arrived(c).words) = n
             /\ n \in Sizes /\ pos[r.board] + n = r.upto
             /\ pos[r.board] + n <= Len(streams[r.board])
<1> DEFINE r == ReadOf(data[c])
           b == r.board
           n == r.upto - r.from + 1
           words == SubSeq(streams[b], r.from, r.upto)
<1>1. /\ b \in Boards /\ r.from \in Nat /\ r.upto \in Nat
      /\ r.from = pos[b] + 1
      /\ n \in Sizes
      /\ streams \in [Boards -> Streams]
      /\ r.upto <= Len(streams[b])
  BY NextSlice
<1> HIDE DEF r
<1>2. pos[b] \in Nat
  BY <1>1 DEF WordsInv, Reading
<1>3. n \in Nat /\ pos[b] + n = r.upto /\ pos[b] + n <= Len(streams[b])
  <2>1. n \in Nat
    BY <1>1, SizesAssumption
  <2>2. pos[b] + n = r.upto
    BY <1>1, <1>2
  <2>3. QED
    BY <1>1, <2>1, <2>2
<1>4. Len(words) = n
  <2>1. streams[b] \in Seq(Word)
    BY <1>1, StreamsAssumption
  <2>2. \A i \in r.from .. r.upto : streams[b][i] \in Word
    <3>1. /\ \A i \in 1..Len(streams[b]) : streams[b][i] \in Word
          /\ Len(streams[b]) \in Nat
      BY <2>1, LenProperties
    <3>2. r.from .. r.upto \subseteq 1..Len(streams[b])
      <4>1. r.from >= 1
        BY <1>1, <1>2
      <4>2. QED
        BY <1>1, <3>1, <4>1
    <3>3. QED
      BY <3>1, <3>2
  <2>3. \A t, m, k : m \in Int /\ k \in Int /\ (\A i \in m..k : t[i] \in Word)
          => Len(SubSeq(t, m, k)) = IF m <= k THEN k - m + 1 ELSE 0
    BY SubSeqProperties
  <2>4. QED
    BY <1>1, <1>3, <2>2, <2>3, SizesAssumption
<1>5. Content(data[c]) = Scanned(b, words)
  BY DEF Content, ReadOf, r
<1>6. Arrived(c) = Scanned(b, words)
  <2>1. marks[c] = {data[c]}
    BY BuilderHasNext DEF WordsInv
  <2>2. /\ UNION {Content(x).headers : x \in marks[c]} = Content(data[c]).headers
        /\ UNION {Content(x).trailers : x \in marks[c]} = Content(data[c]).trailers
    BY <2>1
  <2> HIDE DEF words, b
  <2>3. QED
    BY <1>5, <2>2 DEF Arrived, Scanned
<1>7. Input(b, n) = Scanned(b, words)
  BY <1>1, <1>3 DEF Input
<1>8. Arrivals = {Arrived(c)}
  <2>1. held["builder"] = {c}
    BY DEF WordsInv, PInv, PipelineTypeOK, Workers
  <2>2. QED
    BY <2>1 DEF Arrivals
<1>9. Scanned(b, words).board = b /\ Scanned(b, words).words = words
  BY DEF Scanned
<1>10. QED
  <2> HIDE DEF words
  <2>1. QED
    BY <1>1, <1>3, <1>4, <1>6, <1>7, <1>8, <1>9 DEF r

\* A step of the workers that passes no words to the builders.
LEMMA RestKeepsWords ==
  ASSUME WordsInv, UNCHANGED <<boardVars, reads, built>>,
         (mode = "off") = (mode' = "off"),
         \A d \in Devices : taken'[d] <= Len(reads[d])
  PROVE  Reading' /\ Reached'
<1>1. Reading'
  BY DEF WordsInv, Reading, boardVars
<1>2. Reached'
  BY DEF WordsInv, Reached, ReadOf, boardVars
<1>3. QED
  BY <1>1, <1>2

\* A run begins, and is over.
LEMMA RunKeepsWords ==
  ASSUME WordsInv, WordsInv => PInv', Ready \/ Finish \/ Forget
  PROVE  Reading' /\ Reached'
<1>1. built' = <<>> /\ taken' = [d \in Devices |-> 0] /\ pos' = Beginning
  BY DEF WordsInv, PInv, AtRest, Ready, EnterStandby, run, Finish, Forget, Stop,
     Dismiss, Drain, Over
<1>2. Range(built') = {}
  BY <1>1 DEF Range
<1>3. pos' \in [Boards -> Nat] /\ \A b \in Boards : pos'[b] = 0
  BY <1>1 DEF Beginning
<1>4. Reached'
  BY <1>2, <1>3 DEF Reached
<1>5. CASE Ready
  <2>1. PICK f \in Feeds : streams' = f.streams /\ reads' = f.reads
    BY <1>5 DEF Ready
  <2>2. mode' = "standby"
    BY <1>5 DEF Ready, EnterStandby
  <2>3. \A d \in Devices : reads'[d] \in Seq(Slice)
    BY <2>1, FeedsAssumption
  <2>4. \A d \in Devices : Len(reads'[d]) \in Nat
    BY <2>3, LenProperties
  <2>5. QED
    BY <1>1, <1>3, <1>4, <2>1, <2>2, <2>4 DEF Reading
<1>6. CASE Finish \/ Forget
  <2>1. streams' = Silence /\ reads' = NoReads /\ mode' = "off"
    BY <1>6 DEF Finish, Forget, Over, Stop, Dismiss
  <2>2. \A d \in Devices : Len(reads'[d]) = 0
    BY <2>1 DEF NoReads
  <2>3. QED
    BY <1>1, <1>3, <1>4, <2>1, <2>2 DEF Reading
<1>7. QED
  BY <1>5, <1>6

\* The event builder is through with a container.
LEMMA EventKeepsWords ==
  ASSUME WordsInv, EventDone
  PROVE  Reading' /\ Reached'
<1>1. PICK c \in held["builder"] : mode = "active" /\ built' = Append(built, data[c])
                                   /\ mode' = mode /\ taken' = taken
  BY DEF EventDone, Build, Working
<1> DEFINE x == data[c]
           r == ReadOf(x)
           b == r.board
<1>2. pos' = [pos EXCEPT ![b] = r.upto] /\ UNCHANGED <<streams, reads>>
  <2>1. /\ Arrivals = {Arrived(c)} /\ Arrived(c).board = b
        /\ pos[b] + Len(Arrived(c).words) = r.upto
    BY <1>1, ArrivedIsInput
  <2> HIDE DEF b, r
  <2>2. QED
    BY <2>1 DEF EventDone
<1>3. /\ b \in Boards /\ r.from \in Nat /\ r.upto \in Nat
      /\ \A y \in Range(built) : ReadOf(y).board = b =>
           ReadOf(y).upto \in Nat /\ ReadOf(y).upto < r.upto
  BY <1>1, NextSlice
<1>4. Range(built') = Range(built) \cup {x}
  <2>1. built \in Seq(Data) /\ x \in Data
    BY BuilderHasNext DEF WordsInv, PInv, PipelineTypeOK
  <2> HIDE DEF x
  <2>2. QED
    BY <1>1, <2>1, PutIntoFifo DEF x
<1>5. \A y : ReadOf(y)' = ReadOf(y)
  BY <1>2 DEF ReadOf
<1>6. pos \in [Boards -> Nat]
  BY DEF WordsInv, Reading
<1> HIDE DEF r
<1>7. Reading'
  BY <1>1, <1>2, <1>3, <1>6 DEF WordsInv, Reading
<1>8. ASSUME NEW a \in Boards
      PROVE  LET ends == {ReadOf(y).upto :
                            y \in {z \in Range(built) \cup {x} : ReadOf(z).board = a}}
             IN  pos'[a] \in {0} \cup ends /\ \A e \in ends : e <= pos'[a]
  <2> DEFINE old == {ReadOf(y).upto : y \in {z \in Range(built) : ReadOf(z).board = a}}
             new == {ReadOf(y).upto :
                       y \in {z \in Range(built) \cup {x} : ReadOf(z).board = a}}
  <2>1. pos[a] \in {0} \cup old /\ \A e \in old : e <= pos[a]
    BY DEF WordsInv, Reached
  <2>2. CASE a = b
    <3>1. pos'[a] = r.upto /\ r.upto \in new
      BY <1>2, <1>6, <2>2 DEF r
    <3>2. \A y \in Range(built) : ReadOf(y).board = a => ReadOf(y).upto <= r.upto
      <4> SUFFICES ASSUME NEW y \in Range(built), ReadOf(y).board = a
                   PROVE  ReadOf(y).upto <= r.upto
        OBVIOUS
      <4>1. ReadOf(y).upto \in Nat /\ ReadOf(y).upto < r.upto
        BY <1>3, <2>2
      <4>2. QED
        BY <1>3, <4>1
    <3>3. ReadOf(x).upto <= r.upto
      BY <1>3 DEF r
    <3>4. QED
      BY <3>1, <3>2, <3>3
  <2>3. CASE a # b
    <3>1. pos'[a] = pos[a] /\ new = old
      BY <1>2, <1>6, <2>3 DEF r
    <3>2. QED
      BY <2>1, <3>1
  <2>4. QED
    BY <2>2, <2>3
<1>9. Reached'
  BY <1>4, <1>5, <1>8 DEF Reached
<1>10. QED
  BY <1>7, <1>9

\* In every state the devices read what the feed says, and the event builder
\* is as far as the reads it has had.
LEMMA InitWords == AcqInit => WordsInv
<1> SUFFICES ASSUME AcqInit PROVE WordsInv
  OBVIOUS
<1>1. PInv /\ mode = "off" /\ built = <<>> /\ taken = [d \in Devices |-> 0]
  BY InitPInv DEF AcqInit, PipelineInit
<1>2. Ordered
  BY <1>1, RestOrdered
<1>3. streams = Silence /\ pos = Beginning /\ reads = NoReads
  BY DEF AcqInit, Init
<1>4. \A d \in Devices : Len(reads[d]) = 0
  BY <1>3 DEF NoReads
<1>5. pos \in [Boards -> Nat] /\ \A b \in Boards : pos[b] = 0
  BY <1>3 DEF Beginning
<1>6. Reading
  BY <1>1, <1>3, <1>4, <1>5 DEF Reading
<1>7. Range(built) = {}
  BY <1>1 DEF Range
<1>8. Reached
  BY <1>5, <1>7 DEF Reached
<1>9. QED
  BY <1>1, <1>2, <1>6, <1>8 DEF WordsInv

LEMMA NextKeepsWords == WordsInv /\ [AcqNext]_acqVars => WordsInv'
<1> SUFFICES ASSUME WordsInv, [AcqNext]_acqVars PROVE WordsInv'
  OBVIOUS
<1>1. PInv' /\ Ordered'
  BY AcqStep, NextKeepsPInv, NextKeepsOrdered DEF WordsInv
<1>2. \A d \in Devices : taken[d] <= Len(reads[d])
  BY DEF WordsInv, Reading
<1>3. CASE Ready \/ Finish \/ Forget
  <2>1. Reading' /\ Reached'
    BY <1>1, <1>3, RunKeepsWords
  <2>2. QED
    BY <1>1, <2>1 DEF WordsInv
<1>4. CASE EventDone
  <2>1. Reading' /\ Reached'
    BY <1>4, EventKeepsWords
  <2>2. QED
    BY <1>1, <2>1 DEF WordsInv
<1>5. CASE \E d \in Devices : taken[d] < Len(reads[d]) /\ Read(d) /\ UNCHANGED <<vars, reads>>
  <2>1. PICK d \in Devices :
          taken[d] < Len(reads[d]) /\ Read(d) /\ UNCHANGED <<vars, reads>>
    BY <1>5
  <2>2. \A e \in Devices : taken[e] \in Nat
    BY NumbersAssumption DEF WordsInv, PInv, PipelineTypeOK
  <2>3. Len(reads[d]) \in Nat
    <3>1. mode = "active"
      BY <2>1 DEF Read, Working
    <3>2. QED
      BY <3>1, DataAreRead DEF WordsInv
  <2>4. taken' = [taken EXCEPT ![d] = @ + 1]
    BY <2>1 DEF Read
  <2>5. \A e \in Devices : taken'[e] <= Len(reads[e])
    <3>1. taken \in [Devices -> 0..MaxReads]
      BY DEF WordsInv, PInv, PipelineTypeOK
    <3>2. QED
      BY <1>2, <2>1, <2>2, <2>3, <2>4, <3>1
  <2>6. UNCHANGED <<boardVars, reads, built>> /\ mode' = mode
    BY <2>1 DEF Read, vars
  <2>7. QED
    BY <1>1, <2>5, <2>6, RestKeepsWords DEF WordsInv
<1>6. CASE \/ Go \/ Scanner \/ Trouble \/ EventError
           \/ TakeScanned /\ UNCHANGED <<vars, reads>>
           \/ \E d \in Devices : TakeEmpty(d) /\ UNCHANGED <<vars, reads>>
  <2>1. UNCHANGED <<boardVars, reads, taken, built>>
    BY <1>6 DEF Go, Start, Scanner, ScannerStep, TakeRaw, Scan, Trouble, ScanError,
       ReadError, GiveUp, EventError, BuildError, TakeScanned, TakeEmpty, Take, vars, run
  <2>2. (mode = "off") = (mode' = "off")
    BY <1>6 DEF Go, Start, Scanner, ScannerStep, TakeRaw, Scan, Trouble, ScanError,
       ReadError, GiveUp, EventError, BuildError, TakeScanned, TakeEmpty, Take
  <2>3. QED
    BY <1>1, <1>2, <2>1, <2>2, RestKeepsWords DEF WordsInv
<1>7. CASE UNCHANGED acqVars
  <2>1. UNCHANGED <<boardVars, reads, taken, built, mode>>
    BY <1>7 DEF acqVars, pipelineVars, vars, run
  <2>2. QED
    BY <1>1, <1>2, <2>1, RestKeepsWords DEF WordsInv
<1>8. QED
  BY <1>3, <1>4, <1>5, <1>6, <1>7 DEF AcqNext, Readout, Recorder

LEMMA WordsHold == AcqSpec => []WordsInv
BY InitWords, NextKeepsWords, PTL DEF AcqSpec

-----------------------------------------------------------------------------
(***************************************************************************)
(* The event builder of the pipeline is the one of EventBuilder.           *)
(***************************************************************************)
\* A call of process() is one with the next words of a board.
LEMMA CallIsDelivery ==
  ASSUME ~KeepStep, WordsInv, EventDone \/ EventError
  PROVE  \E b \in Boards, n \in Sizes : Deliver(b, n)
<1>1. PICK c \in held["builder"] : mode = "active"
  BY DEF EventDone, EventError, Build, BuildError, Working
<1> DEFINE b == ReadOf(data[c]).board
           n == ReadOf(data[c]).upto - ReadOf(data[c]).from + 1
           z == Arrived(c)
<1>2. /\ Arrivals = {z} /\ z = Input(b, n) /\ z.board = b /\ Len(z.words) = n
      /\ b \in Boards /\ n \in Sizes /\ pos[b] + n <= Len(streams[b])
  <2>1. b \in Boards
    BY <1>1, NextSlice
  <2>2. QED
    BY <1>1, <2>1, ArrivedIsInput
<1> HIDE DEF b, n, z
<1>3. at = "ready"
  BY DEF EventDone, EventError, Returns, Fails, Gather, Write, WriteFails, Corrupt, Fed
<1>4. InStep(z)
  BY DEF InStep
<1>5. CASE EventDone
  <2>1. Returns(z) /\ pos' = [pos EXCEPT ![b] = @ + n] /\ UNCHANGED streams
    BY <1>2, <1>5 DEF EventDone
  <2>2. Deliver(b, n)
    BY <1>2, <1>3, <1>4, <2>1 DEF Deliver
  <2>3. QED
    BY <1>2, <2>2
<1>6. CASE EventError
  <2>1. Fails(z) /\ UNCHANGED <<pos, streams>>
    BY <1>2, <1>6 DEF EventError, boardVars
  <2>2. Deliver(b, n)
    BY <1>2, <1>3, <1>4, <2>1 DEF Deliver
  <2>3. QED
    BY <1>2, <2>2
<1>7. QED
  BY <1>5, <1>6

LEMMA AcqStepBuilds ==
  ASSUME ~KeepStep
  PROVE  WordsInv /\ [AcqNext]_acqVars => [Next]_vars
<1> SUFFICES ASSUME WordsInv, [AcqNext]_acqVars PROVE [Next]_vars
  OBVIOUS
<1>1. CASE Ready
  <2>1. streams' \in [Boards -> Streams]
    BY <1>1, FeedsAssumption DEF Ready
  <2>2. Begin
    BY <1>1, <2>1 DEF Ready, Begin
  <2>3. QED
    BY <2>2 DEF Next
<1>2. CASE Finish \/ Forget
  BY <1>2 DEF Finish, Forget, Over, End, Next
<1>3. CASE EventDone \/ EventError
  BY <1>3, CallIsDelivery DEF Next
<1>4. CASE \/ Go \/ Scanner \/ Trouble \/ UNCHANGED acqVars
           \/ TakeScanned /\ UNCHANGED <<vars, reads>>
           \/ \E d \in Devices : Readout(d)
  BY <1>4 DEF Go, Scanner, Trouble, Readout, acqVars
<1>5. QED
  BY <1>1, <1>2, <1>3, <1>4 DEF AcqNext, Recorder

(***************************************************************************)
(* With any number of devices, boards and containers, in every order of    *)
(* the steps of the threads: the worker at the end of the pipeline behaves *)
(* as the event builder that is given the streams of the boards directly.  *)
(***************************************************************************)
THEOREM PipelineBuilds ==
  ASSUME ~KeepStep
  PROVE  AcqSpec => BuildsEvents
<1>1. AcqInit => Init
  BY DEF AcqInit
<1>2. WordsInv /\ [AcqNext]_acqVars => [Next]_vars
  BY AcqStepBuilds
<1>3. AcqSpec => Spec
  BY <1>1, <1>2, WordsHold, PTL DEF AcqSpec, Spec
<1>4. QED
  BY <1>3 DEF BuildsEvents

(***************************************************************************)
(* Hence no spill is lost, doubled, put out of order or mixed with one of  *)
(* an earlier run, from the readout through all FIFOs to the events.       *)
(***************************************************************************)
THEOREM PipelineKeepsSpills ==
  ASSUME ~KeepStep
  PROVE  AcqSpec => []SpillsKept
BY PipelineBuilds, SpillsAllKept DEF BuildsEvents

(***************************************************************************)
(* And every event is written with as many fragments as there are boards,  *)
(* counted right: with fewer boards than a count can count, and new spill  *)
(* banks that start from 0.                                                *)
(***************************************************************************)
THEOREM PipelineCounts ==
  ASSUME ~KeepStep, BoardsCountable, FreshCounts = {0}
  PROVE  AcqSpec => []EventsWellCounted
BY PipelineBuilds, CountsCorrect DEF BuildsEvents
=============================================================================
