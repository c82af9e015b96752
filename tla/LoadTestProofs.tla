--------------------------- MODULE LoadTestProofs ---------------------------
(***************************************************************************)
(* Proofs about LoadTest, for every set of workers, every number of        *)
(* requests, every limit on the samples and any number of tests.           *)
(***************************************************************************)
EXTENDS LoadTest, FiniteSetTheorems, TLAPS

Place == {"start", "take", "sent", "enter", "wait", "leave", "record", "end"}
One(condition) == IF condition THEN 1 ELSE 0

-----------------------------------------------------------------------------
(* Counting workers *)

\* Count is a number.
LEMMA CountIsNat ==
  ASSUME NEW P
  PROVE  /\ Count(P) \in Nat
         /\ IsFiniteSet({w \in Worker : pc[w] \in P})
<1>1. {w \in Worker : pc[w] \in P} \in SUBSET Worker
  OBVIOUS
<1> QED BY <1>1, ConstantsAssumption, FS_Subset, FS_CardinalityType DEF Count

\* A worker that moves leaves one place and enters another: each count changes
\* accordingly.
LEMMA CountMoves ==
  ASSUME TypeOK, NEW w \in Worker, NEW there, GoTo(w, there), NEW P
  PROVE  /\ Count(P) \in Nat /\ Count(P)' \in Nat
         /\ Count(P)' + One(pc[w] \in P) = Count(P) + One(there \in P)
<1> DEFINE old == {v \in Worker : pc[v] \in P}
           new == {v \in Worker : pc'[v] \in P}
           rest == old \ {w}
<1>1. pc'[w] = there /\ \A v \in Worker \ {w} : pc'[v] = pc[v]
  BY DEF TypeOK, GoTo
<1>2. rest = new \ {w}
  BY <1>1
<1>3. IsFiniteSet(old) /\ IsFiniteSet(new)
  <2>1. old \in SUBSET Worker /\ new \in SUBSET Worker
    OBVIOUS
  <2> QED BY <2>1, ConstantsAssumption, FS_Subset
<1>4. Cardinality(rest) = Cardinality(old) - One(pc[w] \in P)
  <2>1. w \in old <=> pc[w] \in P
    OBVIOUS
  <2>2. Cardinality(rest) = IF w \in old THEN Cardinality(old) - 1 ELSE Cardinality(old)
    BY <1>3, FS_RemoveElement
  <2>3. Cardinality(old) \in Nat
    BY <1>3, FS_CardinalityType
  <2> HIDE DEF old, rest
  <2> QED BY <2>1, <2>2, <2>3 DEF One
<1>5. Cardinality(rest) = Cardinality(new) - One(there \in P)
  <2>1. w \in new <=> there \in P
    BY <1>1
  <2>2. Cardinality(new \ {w}) = IF w \in new THEN Cardinality(new) - 1 ELSE Cardinality(new)
    BY <1>3, FS_RemoveElement
  <2>3. Cardinality(new) \in Nat
    BY <1>3, FS_CardinalityType
  <2> HIDE DEF old, rest, new
  <2> QED BY <1>2, <2>1, <2>2, <2>3 DEF One
<1>6. Cardinality(old) \in Nat /\ Cardinality(new) \in Nat
  BY <1>3, FS_CardinalityType
<1>7. Count(P) = Cardinality(old) /\ Count(P)' = Cardinality(new)
  BY DEF Count
<1> HIDE DEF old, rest, new
<1> QED BY <1>4, <1>5, <1>6, <1>7 DEF One

\* Nobody is counted where nobody is.
LEMMA CountIsZero ==
  ASSUME NEW P, \A w \in Worker : pc[w] \notin P
  PROVE  Count(P) = 0
<1>1. {w \in Worker : pc[w] \in P} = {}
  OBVIOUS
<1> QED BY <1>1, FS_EmptySet DEF Count

\* Requests in flight are bounded by the crew: a worker outside it has ended and
\* has none.
LEMMA CrewBounds ==
  ASSUME Crewed, crew \subseteq Worker, inFlight \in Nat
  PROVE  Cardinality(crew) \in Nat /\ inFlight <= Cardinality(crew)
<1> DEFINE idle == Worker \ crew
           there == {w \in Worker : pc[w] \in {"wait", "leave", "end"}}
<1>1. there \subseteq Worker /\ crew = Worker \ idle /\ Worker \cap idle = idle
  OBVIOUS
<1>2. /\ Cardinality(Worker) \in Nat
      /\ IsFiniteSet(there) /\ Cardinality(there) <= Cardinality(Worker)
      /\ Cardinality(there) \in Nat
      /\ IsFiniteSet(idle) /\ Cardinality(idle) \in Nat
      /\ IsFiniteSet(crew) /\ Cardinality(crew) \in Nat
  BY <1>1, ConstantsAssumption, FS_Subset, FS_CardinalityType
<1>3. Cardinality(crew) = Cardinality(Worker) - Cardinality(idle)
  <2> HIDE DEF idle
  <2> QED BY <1>1, ConstantsAssumption, FS_Difference
<1>4. inFlight + Cardinality(idle) <= Cardinality(there)
  BY DEF Crewed, Count
<1> HIDE DEF idle, there
<1> QED BY <1>2, <1>3, <1>4

-----------------------------------------------------------------------------
(* Samples *)

\* Between two neighbouring multiples of s there is no other.
LEMMA NextMultiple ==
  ASSUME NEW s \in Nat \ {0}, NEW k \in Nat, NEW q \in Nat,
         k * s < q * s, q * s <= (k + 1) * s
  PROVE  q = k + 1
<1>1. CASE q <= k
  <2>1. PICK d \in Nat : k = q + d
    BY <1>1, SMT
  <2>2. k * s = q * s + d * s
    BY <2>1, SMT
  <2>3. d * s >= 0
    BY SMT
  <2> QED BY <2>2, <2>3, SMT
<1>2. CASE q >= k + 2
  <2>1. PICK d \in Nat : q = k + 2 + d
    <3>1. q - k - 2 \in Nat /\ q = k + 2 + (q - k - 2)
      BY <1>2, SMT
    <3> QED BY <3>1
  <2>2. q * s = (k + 1) * s + s + d * s
    BY <2>1, SMT
  <2>3. d * s >= 0
    BY SMT
  <2> QED BY <2>2, <2>3, SMT
<1> QED BY <1>1, <1>2

\* One more record keeps the samples evenly spaced.
LEMMA SampleKeepsSpacing ==
  ASSUME SamplesEvenlySpaced, lat \in Seq(Nat), stride \in Nat \ {0}, seen \in Nat,
         Sample(seen + 1), seen' = seen + 1
  PROVE  /\ SamplesEvenlySpaced'
         /\ lat' \in Seq(Nat) /\ stride' \in Nat \ {0}
<1> DEFINE k == Len(lat)
           n == seen + 1
           longer == Append(lat, n)
<1>1. /\ k \in Nat /\ k < MaxSamples /\ MaxSamples \in Nat \ {0}
      /\ \A i \in 1..k : lat[i] = i * stride
      /\ k * stride <= seen /\ seen < (k + 1) * stride
  BY ConstantsAssumption DEF SamplesEvenlySpaced
<1>2. CASE ~IsMultipleOf(n, stride)
  <2>1. lat' = lat /\ stride' = stride
    BY <1>2 DEF Sample
  <2>2. n # (k + 1) * stride
    <3>1. SUFFICES ASSUME n = (k + 1) * stride PROVE k + 1 \in 0..n
      BY <1>2 DEF IsMultipleOf
    <3>2. (k + 1) * stride = (k + 1) + (k + 1) * (stride - 1)
      BY <1>1, SMT
    <3>3. (k + 1) * (stride - 1) >= 0
      <4>1. stride - 1 \in Nat /\ k + 1 \in Nat
        BY <1>1, SMT
      <4>2. \A a, b \in Nat : a * b >= 0
        BY SMT
      <4> QED BY <4>1, <4>2
    <3> QED BY <1>1, <3>1, <3>2, <3>3
  <2>3. k * stride \in Nat /\ (k + 1) * stride \in Nat
    BY <1>1, SMT
  <2>4. k * stride <= n /\ n < (k + 1) * stride
    BY <1>1, <2>2, <2>3
  <2> QED BY <1>1, <2>1, <2>4 DEF SamplesEvenlySpaced
<1>3. CASE IsMultipleOf(n, stride)
  <2>1. PICK q \in 0..n : n = q * stride
    BY <1>3 DEF IsMultipleOf
  <2>2. k * stride \in Nat /\ (k + 1) * stride \in Nat
    BY <1>1, SMT
  <2>3. n = (k + 1) * stride
    <3>1. k * stride < q * stride /\ q * stride <= (k + 1) * stride
      BY <1>1, <2>1, <2>2
    <3>2. q \in Nat
      BY <1>1, <2>1
    <3>3. q = k + 1
      <4> HIDE DEF k, n
      <4> QED BY <1>1, <3>1, <3>2, NextMultiple
    <3> QED BY <2>1, <3>3
  <2>4. /\ longer \in Seq(Nat) /\ Len(longer) = k + 1
        /\ \A i \in 1..k+1 : longer[i] = i * stride
    <3>1. longer \in Seq(Nat) /\ Len(longer) = k + 1
      OBVIOUS
    <3>2. longer[k + 1] = n /\ \A i \in 1..k : longer[i] = lat[i]
      OBVIOUS
    <3>3. ASSUME NEW i \in 1..k+1 PROVE longer[i] = i * stride
      <4>1. CASE i = k + 1
        BY <2>3, <3>2, <4>1
      <4>2. CASE i \in 1..k
        BY <1>1, <3>2, <4>2
      <4> QED BY <1>1, <4>1, <4>2
    <3> QED BY <3>1, <3>3
  <2>5. (k + 2) * stride = n + stride
    BY <1>1, <2>3, SMT
  <2>6. CASE k + 1 < MaxSamples
    <3>1. lat' = longer /\ stride' = stride
      BY <1>1, <1>3, <2>6 DEF Sample
    <3>2. (k + 1) * stride <= n /\ n < (k + 2) * stride
      BY <2>3, <2>5
    <3> HIDE DEF longer
    <3> QED BY <1>1, <2>4, <2>6, <3>1, <3>2 DEF SamplesEvenlySpaced
  <2>7. CASE k + 1 >= MaxSamples
    <3> DEFINE m == (k + 1) \div 2
               half == Halved(longer)
    <3>1. lat' = half /\ stride' = 2 * stride
      BY <1>1, <1>3, <2>7 DEF Sample
    <3>2. m \in Nat /\ 2 * m <= k + 1 /\ k + 1 <= 2 * m + 1
      BY <1>1
    <3>3. half = [i \in 1..m |-> longer[2 * i]]
      BY <2>4 DEF Halved
    <3>4. ASSUME NEW i \in 1..m
          PROVE  /\ 2 * i \in 1..k+1
                 /\ longer[2 * i] = i * (2 * stride)
                 /\ longer[2 * i] \in Nat
      <4>1. 2 * i \in 1..k+1
        BY <1>1, <3>2
      <4>2. longer[2 * i] = (2 * i) * stride
        BY <2>4, <4>1
      <4>3. (2 * i) * stride = i * (2 * stride)
        BY SMT
      <4>4. i * (2 * stride) \in Nat
        BY SMT
      <4> HIDE DEF longer
      <4> QED BY <4>1, <4>2, <4>3, <4>4
    <3>5. half \in Seq(Nat) /\ Len(half) = m /\ \A i \in 1..m : half[i] = i * (2 * stride)
      <4> HIDE DEF longer, m
      <4> QED BY <3>2, <3>3, <3>4
    <3>6. m < MaxSamples
      BY <1>1, <3>2
    <3>7. m * (2 * stride) <= n /\ n < (m + 1) * (2 * stride)
      <4> DEFINE p == m * stride
      <4>1. p \in Nat
        BY <3>2, SMT
      <4>2. m * (2 * stride) = 2 * p /\ (m + 1) * (2 * stride) = 2 * p + 2 * stride
        BY <3>2, SMT
      <4>3. CASE k + 1 = 2 * m
        <5>1. (k + 1) * stride = 2 * p
          <6>1. (2 * m) * stride = 2 * (m * stride)
            BY <3>2, SMT
          <6> QED BY <4>3, <6>1
        <5> HIDE DEF p, n
        <5> QED BY <2>3, <4>1, <4>2, <5>1
      <4>4. CASE k + 1 = 2 * m + 1
        <5>1. (k + 1) * stride = 2 * p + stride
          <6>1. (2 * m + 1) * stride = 2 * (m * stride) + stride
            BY <3>2, SMT
          <6> QED BY <4>4, <6>1
        <5> HIDE DEF p, n
        <5> QED BY <2>3, <4>1, <4>2, <5>1
      <4>5. k + 1 = 2 * m \/ k + 1 = 2 * m + 1
        <5> HIDE DEF m, k
        <5> QED BY <1>1, <3>2
      <4> HIDE DEF m, k, n, p
      <4> QED BY <4>3, <4>4, <4>5
    <3> HIDE DEF half, m
    <3>8. 2 * stride \in Nat \ {0}
      OBVIOUS
    <3> QED BY <1>1, <3>1, <3>2, <3>5, <3>6, <3>7, <3>8 DEF SamplesEvenlySpaced
  <2> QED BY <1>1, <2>6, <2>7
<1> QED BY <1>2, <1>3

-----------------------------------------------------------------------------
(* The inductive invariant *)

\* Nothing was sent before the first test.
LEMMA InitIInv == Init => IInv
<1> SUFFICES ASSUME Init PROVE IInv
  OBVIOUS
<1> USE ConstantsAssumption
<1>1. TypeOK
  <2>1. Empty \in Report /\ <<>> \in Seq(Nat)
    BY DEF Empty, Report
  <2>2. pc \in [Worker -> Place]
    BY DEF Init, Place
  <2>3. aborted \in BOOLEAN
    BY DEF Init
  <2>4. report \in Report /\ view \in Report /\ lat \in Seq(Nat)
    BY <2>1 DEF Init
  <2> QED BY <2>2, <2>3, <2>4 DEF Init, TypeOK, Place
<1>2. Accounts
  <2>1. /\ Count({"sent"}) = 0
        /\ Count({"enter", "record"}) = 0
        /\ Count({"wait", "leave"}) = 0
    BY CountIsZero DEF Init
  <2> QED BY <2>1 DEF Init, Accounts
<1>3. Crewed
  <2>1. /\ {w \in Worker : pc[w] \in {"wait", "leave", "end"}} = Worker
        /\ Worker \ crew = Worker
    BY DEF Init
  <2>2. Cardinality(Worker) \in Nat
    BY FS_CardinalityType
  <2>3. /\ Count({"wait", "leave", "end"}) = Cardinality(Worker)
        /\ Cardinality(Worker \ crew) = Cardinality(Worker)
    BY <2>1, Zenon DEF Count
  <2>4. inFlight = 0 /\ \A w \in Worker : pc[w] = "end"
    BY DEF Init
  <2> QED BY <2>2, <2>3, <2>4 DEF Crewed
<1>4. Working /\ Reading /\ ReportAddsUp /\ DoneIsComplete
  <2>1. Cardinality(crew) = 0
    BY FS_EmptySet DEF Init
  <2> QED BY <2>1 DEF Init, Working, Reading, ReportAddsUp, AddsUp, DoneIsComplete, Empty
<1>5. SamplesEvenlySpaced
  BY DEF Init, SamplesEvenlySpaced
<1> QED BY <1>1, <1>2, <1>3, <1>4, <1>5 DEF IInv

\* The counters are bounded by the plan, and those of a test all of whose
\* workers have ended say that it is complete.
LEMMA CountersBounded ==
  ASSUME IInv
  PROVE  /\ seen \in Nat /\ inFlight \in Nat /\ sent \in Nat /\ planned \in Nat /\ next \in Nat
         /\ seen + inFlight <= sent /\ sent <= planned
         /\ Cardinality(crew) \in Nat /\ inFlight <= Cardinality(crew)
         /\ (phase = "running" /\ \A w \in Worker : pc[w] = "end") =>
              sent = planned /\ seen = planned /\ inFlight = 0
<1>1. /\ Count({"sent"}) \in Nat
      /\ Count({"enter", "record"}) \in Nat
      /\ Count({"wait", "leave"}) \in Nat
  BY CountIsNat
<1>2. seen \in Nat /\ inFlight \in Nat /\ sent \in Nat /\ planned \in Nat /\ next \in Nat
  BY ConstantsAssumption DEF IInv, TypeOK
<1>3. seen + inFlight <= sent /\ sent <= planned
  BY <1>1, <1>2 DEF IInv, Accounts
<1>4. ASSUME phase = "running", \A w \in Worker : pc[w] = "end"
      PROVE  sent = planned /\ seen = planned /\ inFlight = 0
  <2>1. /\ Count({"sent"}) = 0
        /\ Count({"enter", "record"}) = 0
        /\ Count({"wait", "leave"}) = 0
    BY <1>4, CountIsZero
  <2>2. ~aborted /\ ~(next < planned)
    BY <1>4 DEF IInv, Working
  <2> QED BY <1>2, <2>1, <2>2 DEF IInv, Accounts
<1>5. Cardinality(crew) \in Nat /\ inFlight <= Cardinality(crew)
  BY <1>2, CrewBounds DEF IInv, TypeOK
<1> QED BY <1>2, <1>3, <1>4, <1>5

\* A step that leaves the workers and their counters alone keeps what only
\* speaks of those.
LEMMA ProgressKept ==
  ASSUME IInv, UNCHANGED <<planned, crew, progressVars, pc, next>>,
         aborted => aborted'
  PROVE  Accounts' /\ Crewed' /\ SamplesEvenlySpaced'
<1>1. \A P : Count(P)' = Count(P)
  BY DEF Count
<1> QED BY <1>1 DEF IInv, Accounts, Crewed, SamplesEvenlySpaced, progressVars

\* A new test starts from nothing.
LEMMA StartStep ==
  ASSUME IInv, NEW n \in 1..MaxRequests, NEW workers \in (SUBSET Worker) \ {{}}, Start(n, workers)
  PROVE  IInv'
<1> USE ConstantsAssumption DEF Start, Fresh
<1>1. \A w \in Worker : pc'[w] = IF w \in workers THEN "start" ELSE "end"
  OBVIOUS
<1>2. TypeOK'
  <2>1. Empty \in Report /\ <<>> \in Seq(Nat)
    BY DEF Empty, Report
  <2>2. pc' \in [Worker -> Place]
    BY DEF Place
  <2>3. aborted' \in BOOLEAN
    OBVIOUS
  <2>4. report' \in Report /\ view' \in Report /\ lat' \in Seq(Nat)
    BY <2>1 DEF IInv, TypeOK
  <2> QED BY <2>2, <2>3, <2>4 DEF IInv, TypeOK, Place
<1>3. Accounts'
  <2>1. ASSUME NEW P, "start" \notin P, "end" \notin P PROVE Count(P)' = 0
    <3>1. {w \in Worker : pc'[w] \in P} = {}
      BY <1>1, <2>1
    <3> QED BY <3>1, FS_EmptySet DEF Count
  <2>2. /\ Count({"sent"})' = 0
        /\ Count({"enter", "record"})' = 0
        /\ Count({"wait", "leave"})' = 0
    BY <2>1
  <2> QED BY <2>2 DEF Accounts
<1>4. Crewed' /\ Cardinality(crew)' \in Nat
  <2>1. \A w \in Worker \ workers : pc'[w] = "end"
    BY <1>1
  <2>2. {w \in Worker : pc'[w] \in {"wait", "leave", "end"}} = Worker \ workers
    BY <1>1
  <2>3. Cardinality(Worker \ workers) \in Nat /\ Cardinality(workers) \in Nat
    <3>1. Worker \ workers \subseteq Worker /\ workers \subseteq Worker
      OBVIOUS
    <3> QED BY <3>1, FS_Subset, FS_CardinalityType
  <2>4. Count({"wait", "leave", "end"})' = Cardinality(Worker \ workers)
    BY <2>2, Zenon DEF Count
  <2>5. crew' = workers /\ inFlight' = 0
    OBVIOUS
  <2> QED BY <2>1, <2>3, <2>4, <2>5 DEF Crewed
<1>5. Working'
  <2>1. PICK w \in workers : TRUE
    OBVIOUS
  <2>2. w \in Worker /\ pc'[w] # "end"
    BY <1>1
  <2> QED BY <2>2 DEF Working
<1>6. Reading' /\ ReportAddsUp' /\ DoneIsComplete'
  BY <1>4 DEF Reading, ReportAddsUp, AddsUp, DoneIsComplete, Empty, Idle
<1>7. SamplesEvenlySpaced'
  BY DEF SamplesEvenlySpaced
<1> QED BY <1>2, <1>3, <1>4, <1>5, <1>6, <1>7 DEF IInv

\* The panel's other steps only read the counters.
LEMMA PanelStep ==
  ASSUME IInv, Panel
  PROVE  IInv'
<1> USE ConstantsAssumption
<1>1. CASE Fail \/ SetTarget
  <2>1. Accounts' /\ Crewed' /\ SamplesEvenlySpaced'
    BY <1>1, ProgressKept DEF Fail, SetTarget
  <2>2. TypeOK'
    BY <1>1 DEF IInv, TypeOK, Fail, SetTarget, Report, Empty, progressVars
  <2>3. Working' /\ Reading' /\ ReportAddsUp' /\ DoneIsComplete'
    BY <1>1, CountersBounded
    DEF IInv, Working, Reading, ReportAddsUp, AddsUp, DoneIsComplete, Fail, SetTarget, Empty,
        Idle, progressVars
  <2> QED BY <2>1, <2>2, <2>3 DEF IInv
<1>2. CASE Tick \/ Cancel
  <2>1. Accounts' /\ Crewed' /\ SamplesEvenlySpaced'
    BY <1>2, ProgressKept DEF Tick, Cancel
  <2>2. TypeOK'
    <3>1. view' \in Report
      BY <1>2, CountersBounded DEF Tick, Cancel, BeginSnapshot, Report, Empty
    <3> QED BY <1>2, <3>1 DEF IInv, TypeOK, Tick, Cancel, BeginSnapshot, progressVars
  <2>3. Working' /\ Reading' /\ ReportAddsUp' /\ DoneIsComplete'
    BY <1>2, CountersBounded
    DEF IInv, Working, Reading, ReportAddsUp, AddsUp, DoneIsComplete, Tick, Cancel,
        BeginSnapshot, Empty, Idle, progressVars
  <2> QED BY <2>1, <2>2, <2>3 DEF IInv
<1>3. CASE ReadSent
  <2>1. Accounts' /\ Crewed' /\ SamplesEvenlySpaced'
    BY <1>3, ProgressKept DEF ReadSent
  <2>2. TypeOK' /\ view'.sent = sent /\ view'.total = view.total
    <3>1. view' \in Report /\ view'.sent = sent /\ view'.total = view.total
      BY <1>3, CountersBounded DEF IInv, TypeOK, ReadSent, Report
    <3> QED BY <1>3, <3>1 DEF IInv, TypeOK, ReadSent, progressVars
  <2>3. Working' /\ ReportAddsUp' /\ DoneIsComplete'
    BY <1>3 DEF IInv, Working, ReportAddsUp, AddsUp, DoneIsComplete, ReadSent, progressVars
  <2>4. Reading'
    <3>1. seen \in Nat /\ sent \in Nat /\ seen <= sent
      BY CountersBounded
    <3>2. view.total \in Nat
      BY DEF IInv, TypeOK, Report
    <3> QED BY <1>3, <2>2, <3>1, <3>2 DEF IInv, Reading, ReadSent, progressVars
  <2> QED BY <2>1, <2>2, <2>3, <2>4 DEF IInv
<1>4. CASE ReadInFlight
  <2>1. Accounts' /\ Crewed' /\ SamplesEvenlySpaced'
    BY <1>4, ProgressKept DEF ReadInFlight
  <2>2. /\ TypeOK'
        /\ report'.sent = view.sent /\ report'.total = view.total
        /\ report'.inFlight = inFlight
    BY <1>4 DEF IInv, TypeOK, ReadInFlight, Report, progressVars
  <2>3. view.sent \in Nat /\ view.total \in Nat
    BY DEF IInv, TypeOK, Report
  <2>4. /\ view.total <= view.sent /\ view.sent <= sent /\ view.total <= seen
        /\ phase \in {"running", "cancelled"}
    BY <1>4 DEF IInv, Reading, ReadInFlight
  <2>5. ReportAddsUp'
    BY <1>4, <2>2, <2>3, <2>4, CountersBounded DEF ReportAddsUp, AddsUp, ReadInFlight
  <2>6. Reading'
    BY <1>4, <2>2, <2>4 DEF Reading, ReadInFlight, progressVars
  <2>7. Working' /\ DoneIsComplete'
    BY <1>4, <2>4 DEF IInv, Working, DoneIsComplete, ReadInFlight
  <2> QED BY <2>1, <2>2, <2>5, <2>6, <2>7 DEF IInv
<1>5. CASE Complete
  <2>1. Accounts' /\ Crewed' /\ SamplesEvenlySpaced'
    BY <1>5, ProgressKept DEF Complete
  <2>2. sent = planned /\ seen = planned /\ inFlight = 0
    BY <1>5, CountersBounded DEF Complete
  <2>3. TypeOK'
    BY <1>5, CountersBounded DEF IInv, TypeOK, Complete, Report, progressVars
  <2>4. Working' /\ Reading' /\ ReportAddsUp' /\ DoneIsComplete'
    BY <1>5, <2>2, CountersBounded
    DEF Working, Reading, ReportAddsUp, AddsUp, DoneIsComplete, Complete, Idle, progressVars
  <2> QED BY <2>1, <2>3, <2>4 DEF IInv
<1> QED BY <1>1, <1>2, <1>3, <1>4, <1>5, StartStep DEF Panel

\* What a worker's step must do to the three counts and the counters for the
\* invariant to hold again: the panel's own state does not change.
LEMMA WorkerFrame ==
  ASSUME IInv, TypeOK', Accounts', Crewed', Working', SamplesEvenlySpaced',
         UNCHANGED sheetVars, sent <= sent', seen <= seen'
  PROVE  IInv'
<1>1. /\ report.total \in Nat /\ report.sent \in Nat /\ view.total \in Nat /\ view.sent \in Nat
      /\ sent \in Nat /\ seen \in Nat
  BY CountersBounded DEF IInv, TypeOK, Report
<1>2. sent' \in Nat /\ seen' \in Nat
  BY ConstantsAssumption DEF TypeOK
<1>3. Reading'
  BY <1>1, <1>2 DEF IInv, Reading, sheetVars
<1>4. ReportAddsUp' /\ DoneIsComplete'
  BY DEF IInv, ReportAddsUp, AddsUp, DoneIsComplete, sheetVars
<1> QED BY <1>3, <1>4 DEF IInv

\* A worker that moves is one of the crew, and takes its request in flight along.
LEMMA CrewStep ==
  ASSUME IInv, NEW w \in Worker, Step(w) \/ Answered(w)
  PROVE  Crewed'
<1> DEFINE P == {"wait", "leave", "end"}
           D == Count(P)
<1>1. /\ inFlight \in Nat /\ D \in Nat /\ inFlight + Cardinality(Worker \ crew) <= D
      /\ Cardinality(Worker \ crew) \in Nat
  <2>1. IsFiniteSet(Worker \ crew) /\ Cardinality(Worker \ crew) \in Nat
    BY ConstantsAssumption, FS_Subset, FS_CardinalityType
  <2> QED BY <2>1, CountIsNat, CountersBounded DEF IInv, Crewed
<1>2. UNCHANGED <<crew>> /\ pc[w] # "end"
  BY DEF Step, Spawned, Take, CountSent, EnterFlight, LeaveFlight, Record, Drop, Answered,
         At, sheetVars
<1>3. PICK there \in Place : /\ GoTo(w, there)
                             /\ inFlight' + One(pc[w] \in P) = inFlight + One(there \in P)
                                  \/ /\ there \in P /\ pc[w] \notin P /\ inFlight' = inFlight
  <2>1. CASE Take(w)
    BY <1>1, <2>1 DEF Take, At, One, Place, progressVars
  <2>2. CASE Drop(w)
    BY <1>1, <2>2 DEF Drop, At, One, Place, progressVars
  <2>3. CASE Spawned(w) \/ Answered(w)
    BY <1>1, <2>3 DEF Spawned, Answered, At, One, Place, progressVars
  <2>4. CASE CountSent(w) \/ Record(w)
    BY <1>1, <2>4 DEF CountSent, Record, At, One, Place
  <2>5. CASE EnterFlight(w)
    BY <1>1, <2>5 DEF EnterFlight, At, One, Place
  <2>6. CASE LeaveFlight(w)
    <3>1. pc[w] = "leave" /\ GoTo(w, "record") /\ inFlight' = inFlight - 1
      BY <2>6 DEF LeaveFlight, At
    <3> QED BY <1>1, <3>1 DEF One, Place
  <2> QED BY <2>1, <2>2, <2>3, <2>4, <2>5, <2>6 DEF Step
<1>4. D' \in Nat /\ D' + One(pc[w] \in P) = D + One(there \in P)
  BY <1>3, CountMoves DEF IInv
<1>5. inFlight' + Cardinality(Worker \ crew) <= D'
  <2>1. One(pc[w] \in P) \in {0, 1} /\ One(there \in P) \in {0, 1}
    BY DEF One
  <2>2. \/ inFlight' + One(pc[w] \in P) = inFlight + One(there \in P)
        \/ One(there \in P) = 1 /\ One(pc[w] \in P) = 0 /\ inFlight' = inFlight
    BY <1>3 DEF One
  <2>3. inFlight' \in Int
    BY <1>1, <1>2 DEF Step, Spawned, Take, CountSent, EnterFlight, LeaveFlight, Record, Drop,
                      Answered, progressVars
  <2> HIDE DEF D, P
  <2> QED BY <1>1, <1>4, <2>1, <2>2, <2>3
<1>6. \A v \in Worker \ crew : pc'[v] = "end"
  <2>1. w \in crew
    BY <1>2 DEF IInv, Crewed
  <2> QED BY <1>3, <2>1 DEF IInv, TypeOK, Crewed, GoTo
<1> QED BY <1>2, <1>5, <1>6 DEF Crewed

\* A worker's step.
LEMMA WorkerStep ==
  ASSUME IInv, NEW w \in Worker, Step(w) \/ Answered(w)
  PROVE  IInv'
<1> USE ConstantsAssumption
<1> DEFINE A == Count({"sent"})
           B == Count({"enter", "record"})
           C == Count({"wait", "leave"})
<1>1. ASSUME NEW there \in Place, GoTo(w, there)
      PROVE  /\ pc' \in [Worker -> Place]
             /\ there # "end" => \E v \in Worker : pc'[v] # "end"
             /\ A \in Nat /\ A' \in Nat
             /\ A' + One(pc[w] = "sent") = A + One(there = "sent")
             /\ B \in Nat /\ B' \in Nat
             /\ B' + One(pc[w] \in {"enter", "record"}) = B + One(there \in {"enter", "record"})
             /\ C \in Nat /\ C' \in Nat
             /\ C' + One(pc[w] \in {"wait", "leave"}) = C + One(there \in {"wait", "leave"})
  <2>1. TypeOK
    BY DEF IInv
  <2>2. pc' \in [Worker -> Place] /\ pc'[w] = there
    BY <1>1, <2>1 DEF GoTo, TypeOK, Place
  <2>3. A \in Nat /\ A' \in Nat /\ A' + One(pc[w] \in {"sent"}) = A + One(there \in {"sent"})
    BY <1>1, <2>1, CountMoves
  <2>4. /\ B \in Nat /\ B' \in Nat
        /\ B' + One(pc[w] \in {"enter", "record"}) = B + One(there \in {"enter", "record"})
    BY <1>1, <2>1, CountMoves
  <2>5. /\ C \in Nat /\ C' \in Nat
        /\ C' + One(pc[w] \in {"wait", "leave"}) = C + One(there \in {"wait", "leave"})
    BY <1>1, <2>1, CountMoves
  <2>6. (pc[w] \in {"sent"} <=> pc[w] = "sent") /\ (there \in {"sent"} <=> there = "sent")
    OBVIOUS
  <2> HIDE DEF A, B, C
  <2> QED BY <2>2, <2>3, <2>4, <2>5, <2>6 DEF One
<1>0. A \in Nat /\ B \in Nat /\ C \in Nat
  BY CountIsNat
<1>18. Crewed'
  BY CrewStep
<1> HIDE DEF A, B, C
<1>2. /\ sent + A = IF next < planned THEN next ELSE planned
      /\ seen + inFlight + B = sent
      /\ C <= inFlight
  BY DEF IInv, Accounts, A, B, C
<1>3. /\ seen \in Nat /\ inFlight \in Nat /\ sent \in Nat /\ planned \in Nat /\ next \in Nat
      /\ seen + inFlight <= sent /\ sent <= planned /\ planned <= MaxRequests
  BY CountersBounded DEF IInv, TypeOK
<1>4. /\ TypeOK /\ Working /\ SamplesEvenlySpaced
      /\ pc[w] # "end" => (phase = "running" => ~aborted)
  BY DEF IInv, Working
<1>5. ASSUME UNCHANGED sheetVars, pc' \in [Worker -> Place],
             next' \in Nat, sent' \in 0..MaxRequests, inFlight' \in Nat, seen' \in 0..MaxRequests,
             stride' \in Nat \ {0}, lat' \in Seq(Nat)
      PROVE  TypeOK'
  BY <1>4, <1>5 DEF TypeOK, sheetVars, Place
<1>6. ASSUME UNCHANGED sheetVars,
             phase = "running" => ~aborted,
             phase = "running" /\ next' < planned => \E v \in Worker : pc'[v] # "end"
      PROVE  Working'
  BY <1>6 DEF Working, sheetVars
<1>7. ASSUME UNCHANGED sheetVars,
             sent' + A' = IF next' < planned THEN next' ELSE planned,
             seen' + inFlight' + B' = sent',
             C' <= inFlight',
             aborted \/ (C = inFlight => C' = inFlight')
      PROVE  Accounts'
  <2>1. ~aborted => C = inFlight
    BY DEF IInv, Accounts, C
  <2>2. aborted' = aborted /\ planned' = planned
    BY <1>7 DEF sheetVars
  <2>3. ~aborted' => C' = inFlight'
    BY <1>7, <2>1, <2>2, Zenon
  <2> QED BY <1>7, <2>2, <2>3 DEF Accounts, A, B, C
<1>8. UNCHANGED <<seen, stride, lat>> => SamplesEvenlySpaced'
  BY <1>4 DEF SamplesEvenlySpaced
<1>9. stride \in Nat \ {0} /\ lat \in Seq(Nat)
  BY <1>4 DEF TypeOK
<1>10. CASE Spawned(w)
  <2>1. pc[w] = "start" /\ GoTo(w, "take")
    BY <1>10 DEF Spawned, At
  <2>2. A' = A /\ B' = B /\ C' = C
    BY <1>1, <2>1 DEF One, Place
  <2>3. Accounts'
    BY <1>10, <1>2, <1>7, <2>2 DEF Spawned, progressVars
  <2>4. TypeOK' /\ Working' /\ SamplesEvenlySpaced'
    BY <1>10, <1>1, <1>3, <1>4, <1>5, <1>6, <1>8, <1>9, <2>1 DEF Spawned, progressVars, Place
  <2> QED BY <1>10, <1>3, <2>3, <2>4, <1>18, WorkerFrame DEF Spawned, progressVars
<1>11. CASE Take(w)
  <2>1. pc[w] = "take"
    BY <1>11 DEF Take, At
  <2>2. CASE next < planned
    <3>1. GoTo(w, "sent")
      BY <1>11, <2>2 DEF Take
    <3>2. A' = A + 1 /\ B' = B /\ C' = C
      BY <1>1, <2>1, <3>1 DEF One, Place
    <3>3. Accounts'
      <4>1. /\ sent' + A' = IF next' < planned THEN next' ELSE planned
            /\ seen' + inFlight' + B' = sent'
            /\ C' <= inFlight'
            /\ C = inFlight => C' = inFlight'
        BY <1>0, <1>2, <1>3, <1>11, <2>2, <3>2 DEF Take, progressVars
      <4> QED BY <1>11, <1>7, <4>1 DEF Take, progressVars
    <3>4. TypeOK' /\ Working' /\ SamplesEvenlySpaced'
      BY <1>11, <1>1, <1>3, <1>4, <1>5, <1>6, <1>8, <1>9, <2>1, <3>1 DEF Take, progressVars, Place
    <3> QED BY <1>11, <1>3, <3>3, <3>4, <1>18, WorkerFrame DEF Take, progressVars
  <2>3. CASE ~(next < planned)
    <3>1. GoTo(w, "end")
      BY <1>11, <2>3 DEF Take
    <3>2. A' = A /\ B' = B /\ C' = C
      BY <1>1, <2>1, <3>1 DEF One, Place
    <3>3. next' = next + 1 /\ ~(next' < planned)
      BY <1>11, <1>3, <2>3 DEF Take
    <3>4. Accounts'
      BY <1>11, <1>2, <1>3, <1>7, <2>3, <3>2, <3>3 DEF Take, progressVars
    <3>5. TypeOK' /\ Working' /\ SamplesEvenlySpaced'
      BY <1>11, <1>1, <1>3, <1>4, <1>5, <1>6, <1>8, <1>9, <2>1, <3>1, <3>3
      DEF Take, progressVars, Place
    <3> QED BY <1>11, <1>3, <3>4, <3>5, <1>18, WorkerFrame DEF Take, progressVars
  <2> QED BY <2>2, <2>3
<1>12. CASE CountSent(w)
  <2>1. pc[w] = "sent" /\ GoTo(w, "enter")
    BY <1>12 DEF CountSent, At
  <2>2. A' = A - 1 /\ A' \in Nat /\ B' = B + 1 /\ C' = C
    BY <1>1, <2>1 DEF One, Place
  <2>3. sent' = sent + 1 /\ sent' <= planned
    <3>1. A >= 1 /\ sent + A <= planned
      BY <1>0, <1>2, <1>3, <2>2
    <3>2. sent' = sent + 1
      BY <1>12 DEF CountSent
    <3> QED BY <1>0, <1>3, <3>1, <3>2
  <2>4. Accounts'
    <3>1. sent' = sent + 1 /\ seen' = seen /\ inFlight' = inFlight /\ next' = next
      BY <1>12 DEF CountSent
    <3>2. sent' + A' = IF next' < planned THEN next' ELSE planned
      BY <1>0, <1>2, <1>3, <2>2, <3>1
    <3>3. seen' + inFlight' + B' = sent'
      BY <1>0, <1>2, <1>3, <2>2, <3>1
    <3>4. C' <= inFlight' /\ (C = inFlight => C' = inFlight')
      BY <1>0, <1>2, <1>3, <2>2, <3>1
    <3> QED BY <1>12, <1>7, <3>2, <3>3, <3>4 DEF CountSent
  <2>5. TypeOK' /\ Working' /\ SamplesEvenlySpaced'
    BY <1>12, <1>1, <1>3, <1>4, <1>5, <1>6, <1>8, <1>9, <2>1, <2>3 DEF CountSent, Place
  <2> QED BY <1>12, <1>3, <2>3, <2>4, <2>5, <1>18, WorkerFrame DEF CountSent
<1>13. CASE EnterFlight(w)
  <2>1. pc[w] = "enter" /\ GoTo(w, "wait")
    BY <1>13 DEF EnterFlight, At
  <2>2. A' = A /\ B' = B - 1 /\ B' \in Nat /\ C' = C + 1
    BY <1>1, <2>1 DEF One, Place
  <2>3. Accounts'
    <3>1. sent' = sent /\ seen' = seen /\ inFlight' = inFlight + 1 /\ next' = next
      BY <1>13 DEF EnterFlight
    <3>2. sent' + A' = IF next' < planned THEN next' ELSE planned
      BY <1>0, <1>2, <1>3, <2>2, <3>1
    <3>3. seen' + inFlight' + B' = sent'
      BY <1>0, <1>2, <1>3, <2>2, <3>1
    <3>4. C' <= inFlight' /\ (C = inFlight => C' = inFlight')
      BY <1>0, <1>2, <1>3, <2>2, <3>1
    <3> QED BY <1>13, <1>7, <3>2, <3>3, <3>4 DEF EnterFlight
  <2>4. TypeOK' /\ Working' /\ SamplesEvenlySpaced'
    BY <1>13, <1>1, <1>3, <1>4, <1>5, <1>6, <1>8, <1>9, <2>1 DEF EnterFlight, Place
  <2> QED BY <1>13, <1>3, <2>3, <2>4, <1>18, WorkerFrame DEF EnterFlight
<1>14. CASE LeaveFlight(w)
  <2>1. pc[w] = "leave" /\ GoTo(w, "record")
    BY <1>14 DEF LeaveFlight, At
  <2>2. A' = A /\ B' = B + 1 /\ C' = C - 1 /\ C' \in Nat
    BY <1>1, <2>1 DEF One, Place
  <2>3. inFlight' = inFlight - 1 /\ inFlight' \in Nat
    BY <1>14, <1>2, <1>3, <2>2, <1>1, <2>1 DEF LeaveFlight, Place
  <2>4. Accounts'
    <3>1. sent' = sent /\ seen' = seen /\ inFlight' = inFlight - 1 /\ next' = next
      BY <1>14 DEF LeaveFlight
    <3>2. sent' + A' = IF next' < planned THEN next' ELSE planned
      BY <1>0, <1>2, <1>3, <2>2, <3>1
    <3>3. seen' + inFlight' + B' = sent'
      BY <1>0, <1>2, <1>3, <2>2, <3>1
    <3>4. C' <= inFlight' /\ (C = inFlight => C' = inFlight')
      BY <1>0, <1>2, <1>3, <2>2, <3>1
    <3> QED BY <1>14, <1>7, <3>2, <3>3, <3>4 DEF LeaveFlight
  <2>5. TypeOK' /\ Working' /\ SamplesEvenlySpaced'
    BY <1>14, <1>1, <1>3, <1>4, <1>5, <1>6, <1>8, <1>9, <2>1, <2>3 DEF LeaveFlight, Place
  <2> QED BY <1>14, <1>3, <2>4, <2>5, <1>18, WorkerFrame DEF LeaveFlight
<1>15. CASE Record(w)
  <2>1. pc[w] = "record" /\ GoTo(w, "take")
    BY <1>15 DEF Record, At
  <2>2. A' = A /\ B' = B - 1 /\ B' \in Nat /\ C' = C
    BY <1>1, <2>1 DEF One, Place
  <2>3. seen' = seen + 1 /\ seen' <= planned
    <3>1. B >= 1 /\ seen + B <= planned
      BY <1>0, <1>2, <1>3, <2>2
    <3>2. seen' = seen + 1
      BY <1>15 DEF Record
    <3> QED BY <1>0, <1>3, <3>1, <3>2
  <2>4. Accounts'
    <3>1. sent' = sent /\ seen' = seen + 1 /\ inFlight' = inFlight /\ next' = next
      BY <1>15 DEF Record
    <3>2. sent' + A' = IF next' < planned THEN next' ELSE planned
      BY <1>0, <1>2, <1>3, <2>2, <3>1
    <3>3. seen' + inFlight' + B' = sent'
      BY <1>0, <1>2, <1>3, <2>2, <3>1
    <3>4. C' <= inFlight' /\ (C = inFlight => C' = inFlight')
      BY <1>0, <1>2, <1>3, <2>2, <3>1
    <3> QED BY <1>15, <1>7, <3>2, <3>3, <3>4 DEF Record
  <2>5. SamplesEvenlySpaced' /\ stride' \in Nat \ {0} /\ lat' \in Seq(Nat)
    BY <1>15, <1>3, <1>4, <1>9, <2>3, SampleKeepsSpacing DEF Record
  <2>6. TypeOK' /\ Working'
    BY <1>15, <1>1, <1>3, <1>4, <1>5, <1>6, <2>1, <2>3, <2>5 DEF Record, Place
  <2> QED BY <1>15, <1>3, <2>3, <2>4, <2>5, <2>6, <1>18, WorkerFrame DEF Record
<1>16. CASE Drop(w)
  <2>1. pc[w] \in {"start", "wait"} /\ GoTo(w, "end") /\ aborted
    BY <1>16 DEF Drop, At
  <2>2. A' = A /\ B' = B /\ C' <= C /\ C' \in Nat
    BY <1>1, <2>1 DEF One, Place
  <2>3. Accounts'
    BY <1>16, <1>1, <1>2, <1>3, <1>7, <2>1, <2>2 DEF Drop, progressVars, Place
  <2>4. phase # "running"
    BY <1>4, <2>1
  <2>5. TypeOK' /\ Working' /\ SamplesEvenlySpaced'
    BY <1>16, <1>1, <1>3, <1>5, <1>6, <1>8, <1>9, <2>1, <2>4 DEF Drop, progressVars, Place
  <2> QED BY <1>16, <1>3, <2>3, <2>5, <1>18, WorkerFrame DEF Drop, progressVars
<1>17. CASE Answered(w)
  <2>1. pc[w] = "wait" /\ GoTo(w, "leave")
    BY <1>17 DEF Answered, At
  <2>2. A' = A /\ B' = B /\ C' = C
    BY <1>1, <2>1 DEF One, Place
  <2>3. Accounts'
    BY <1>17, <1>2, <1>7, <2>2 DEF Answered, progressVars
  <2>4. TypeOK' /\ Working' /\ SamplesEvenlySpaced'
    BY <1>17, <1>1, <1>3, <1>4, <1>5, <1>6, <1>8, <1>9, <2>1 DEF Answered, progressVars, Place
  <2> QED BY <1>17, <1>3, <2>3, <2>4, <1>18, WorkerFrame DEF Answered, progressVars
<1> QED BY <1>10, <1>11, <1>12, <1>13, <1>14, <1>15, <1>16, <1>17 DEF Step

\* A step that changes nothing.
LEMMA StutterStep ==
  ASSUME IInv, UNCHANGED vars
  PROVE  IInv'
<1>1. \A P : Count(P)' = Count(P)
  BY DEF Count, vars
<1>2. Accounts'
  BY <1>1 DEF IInv, Accounts, vars, sheetVars, progressVars
<1>3. Crewed'
  BY <1>1 DEF IInv, Crewed, vars, sheetVars, progressVars
<1> QED
  BY <1>2, <1>3
  DEF IInv, TypeOK, Working, Reading, ReportAddsUp, AddsUp, DoneIsComplete, SamplesEvenlySpaced,
      vars, sheetVars, progressVars

\* The inductive invariant holds of every behaviour, whatever the workers, the
\* snapshots and the aborts do to each other.
THEOREM LoadInvariance == Spec => []IInv
<1>1. IInv /\ [Next]_vars => IInv'
  <2> SUFFICES ASSUME IInv, [Next]_vars PROVE IInv'
    OBVIOUS
  <2>1. CASE Panel
    BY <2>1, PanelStep
  <2>2. ASSUME NEW w \in Worker, Step(w) \/ Answered(w) PROVE IInv'
    BY <2>2, WorkerStep
  <2>3. CASE UNCHANGED vars
    BY <2>3, StutterStep
  <2> QED BY <2>1, <2>2, <2>3 DEF Next
<1> QED BY <1>1, InitIInv, PTL DEF Spec

\* The state of a load test has its type: in particular in_flight is never
\* counted below zero and no test sends more than it planned.
THEOREM LoadTypeCorrect == Spec => []TypeOK
<1>1. IInv => TypeOK
  BY DEF IInv
<1> QED BY <1>1, LoadInvariance, PTL

\* The bounds of AddsUp hold of what the panel shows, although a snapshot reads
\* the counters one after the other while the workers go on; in flight is bounded
\* by the plan and by the crew, not by sent.
THEOREM ReportsAddUp == Spec => []ReportAddsUp
<1>1. IInv => ReportAddsUp
  BY DEF IInv
<1> QED BY <1>1, LoadInvariance, PTL

\* A test that ran to its end reports as many results as it planned requests.
THEOREM DoneAccountsForAll == Spec => []DoneIsComplete
<1>1. IInv => DoneIsComplete
  BY DEF IInv
<1> QED BY <1>1, LoadInvariance, PTL

\* Every report keeps the bounds of AddsUp and the last one is complete, for any
\* number of workers, requests and tests.
THEOREM ReportsTrue == Spec => []ReportsAreTrue
<1>1. IInv => ReportsAreTrue
  BY DEF IInv, ReportsAreTrue
<1> QED BY <1>1, LoadInvariance, PTL

\* Thinning out the samples keeps every stride-th of them, for every limit.
THEOREM SamplesStaySpaced == Spec => []SamplesEvenlySpaced
<1>1. IInv => SamplesEvenlySpaced
  BY DEF IInv
<1> QED BY <1>1, LoadInvariance, PTL

\* The panel never counts backwards during a test.
THEOREM ReportsGrow == Spec => ReportsOnlyGrow
<1>1. IInv /\ [Next]_vars =>
        [runs' = runs /\ phase' # "idle" =>
           report.total <= report'.total /\ report.sent <= report'.sent]_vars
  <2> SUFFICES ASSUME IInv, Next, runs' = runs, phase' # "idle"
               PROVE  report.total <= report'.total /\ report.sent <= report'.sent
    OBVIOUS
  <2>1. /\ report.total \in Nat /\ report.sent \in Nat /\ report.inFlight \in Nat
        /\ runs \in Nat /\ report \in Report /\ view \in Report
    BY ConstantsAssumption DEF IInv, TypeOK, Report
  <2>2. CASE report' = report
    BY <2>1, <2>2
  <2>3. CASE ReadInFlight
    <3>1. report'.total = view.total /\ report'.sent = view.sent
      BY <2>1, <2>3 DEF ReadInFlight, Report
    <3> QED BY <2>3, <3>1 DEF IInv, Reading, ReadInFlight
  <2>4. CASE Complete
    BY <2>4 DEF IInv, Reading, Complete
  <2>5. ASSUME NEW n \in 1..MaxRequests, NEW workers \in (SUBSET Worker) \ {{}}, Start(n, workers)
        PROVE  FALSE
    BY <2>1, <2>5 DEF Start
  <2>6. SetTarget => FALSE
    BY DEF SetTarget
  <2>7. Fail \/ Tick \/ Cancel \/ ReadSent => report' = report
    BY DEF Fail, Tick, Cancel, ReadSent, BeginSnapshot
  <2>8. ASSUME NEW w \in Worker, Step(w) \/ Answered(w) PROVE report' = report
    BY <2>8
    DEF Step, Spawned, Take, CountSent, EnterFlight, LeaveFlight, Record, Drop, Answered, sheetVars
  <2> QED BY <2>2, <2>3, <2>4, <2>5, <2>6, <2>7, <2>8 DEF Next, Panel
<1> QED BY <1>1, LoadInvariance, PTL DEF Spec, ReportsOnlyGrow

=============================================================================
