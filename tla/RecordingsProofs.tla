-------------------------- MODULE RecordingsProofs --------------------------
(***************************************************************************)
(* Proofs about Recordings, for any number of rows and projects and any    *)
(* limits of the queries.                                                  *)
(*                                                                         *)
(* The list of the panel is put together from two reads of one table that  *)
(* overlap and answer in any order.  The invariant says of each answer     *)
(* under way what it may be: rows of the table in their order, and all of  *)
(* the project's from the end of the list up to the answer's own last row. *)
(* Hence what is appended leaves no hole.                                  *)
(***************************************************************************)
EXTENDS Recordings, FiniteSetTheorems, WellFoundedInduction, TLAPS

-----------------------------------------------------------------------------
(* Numbers in order *)

\* The limits are numbers.
LEMMA Limits == HistoryLimit \in Nat \ {0} /\ PollLimit \in Nat \ {0} /\ MaxRows \in Nat
BY LimitsAssumption

Below == {p \in Nat \X Nat : p[1] < p[2]}

\* The order of the natural numbers is well founded.
LEMMA BelowFounded == IsWellFoundedOn(Below, Nat)
BY NatLessThanWellFounded, Zenon DEF OpToRel, Below

\* A set of numbers that is not empty has a least one.
LEMMA Least ==
  ASSUME NEW S \in SUBSET Nat, S # {}
  PROVE  \E x \in S : \A y \in S : x <= y
<1>1. PICK x \in S : \A y \in S : ~(<<y, x>> \in Below)
  BY BelowFounded, WFMin
<1>2. ASSUME NEW y \in S PROVE x <= y
  <2>1. y < x => <<y, x>> \in Below
    BY DEF Below
  <2> QED BY <2>1, <1>1
<1> QED BY <1>2

\* If it is bounded, it has a greatest one.
LEMMA Greatest ==
  ASSUME NEW b \in Nat, NEW S \in SUBSET (1..b), S # {}
  PROVE  \E x \in S : \A y \in S : y <= x
<1> DEFINE T == {b - y : y \in S}
<1>1. T \subseteq Nat /\ T # {}
  <2>1. \A y \in S : y \in Nat /\ y <= b
    OBVIOUS
  <2>2. \A y \in S : b - y \in Nat
    BY <2>1
  <2> QED BY <2>2
<1>2. PICK t \in T : \A u \in T : t <= u
  <2> HIDE DEF T
  <2> QED BY <1>1, Least
<1>3. PICK x \in S : t = b - x
  BY <1>2
<1>4. ASSUME NEW y \in S PROVE y <= x
  <2>1. b - y \in T
    OBVIOUS
  <2> QED BY <2>1, <1>2, <1>3
<1> QED BY <1>4

\* A bounded set of numbers is finite, and so is each part of it.
LEMMA BoundedIsFinite ==
  ASSUME NEW b \in Nat, NEW S \in SUBSET (1..b)
  PROVE  IsFiniteSet(S) /\ Cardinality(S) \in Nat /\ Cardinality(S) <= b
<1>1. IsFiniteSet(1..b) /\ Cardinality(1..b) = b
  BY FS_Interval
<1> QED BY <1>1, FS_Subset, FS_CardinalityType

\* Its numbers can be put in order.
LEMMA OrderExists ==
  ASSUME NEW b \in Nat, NEW I \in SUBSET (1..b)
  PROVE  \E seq \in [1..Cardinality(I) -> I] : ToSet(seq) = I /\ Ascending(seq)
<1> DEFINE Ordered(J) == \E seq \in [1..Cardinality(J) -> J] : ToSet(seq) = J /\ Ascending(seq)
<1> DEFINE Bad == {n \in Nat : \E J \in SUBSET (1..b) : Cardinality(J) = n /\ ~Ordered(J)}
<1>1. SUFFICES ASSUME Bad # {} PROVE FALSE
  BY BoundedIsFinite
<1>2. PICK n \in Bad : \A m \in Bad : n <= m
  <2>1. Bad \subseteq Nat
    OBVIOUS
  <2> HIDE DEF Bad
  <2> QED BY <1>1, <2>1, Least
<1>3. PICK J \in SUBSET (1..b) : Cardinality(J) = n /\ ~Ordered(J)
  OBVIOUS
<1>4. IsFiniteSet(J) /\ n \in Nat
  BY <1>3, BoundedIsFinite
<1>5. J # {}
  <2>1. SUFFICES ASSUME J = {} PROVE Ordered(J)
    BY <1>3
  <2>2. Cardinality(J) = 0
    BY <2>1, FS_EmptySet
  <2>3. <<>> \in [1..0 -> J] /\ ToSet(<<>>) = {} /\ Ascending(<<>>)
    BY DEF ToSet, Ascending
  <2> QED BY <2>1, <2>2, <2>3
<1>6. PICK m \in J : \A y \in J : y <= m
  BY <1>5, Greatest
<1> DEFINE K == J \ {m}
<1>7. Cardinality(K) = n - 1 /\ K \in SUBSET (1..b) /\ n - 1 \in Nat
  <2>1. Cardinality(K) = n - 1
    BY <1>3, <1>4, <1>6, FS_RemoveElement
  <2>2. K \in SUBSET (1..b)
    BY <1>3
  <2> HIDE DEF K
  <2> QED BY <2>1, <2>2, BoundedIsFinite
<1>8. Ordered(K)
  <2>1. ~(n - 1 \in Bad)
    <3> HIDE DEF Bad
    <3> QED BY <1>2, <1>4, <1>7
  <2> HIDE DEF K, Ordered
  <2> QED BY <2>1, <1>7
<1>9. PICK seq \in [1..(n - 1) -> K] : ToSet(seq) = K /\ Ascending(seq)
  <2> HIDE DEF K
  <2> QED BY <1>7, <1>8
<1> DEFINE more == [k \in 1..n |-> IF k = n THEN m ELSE seq[k]]
<1>10. more \in [1..n -> J]
  BY <1>4, <1>6, <1>7, <1>9
<1>11. ToSet(more) = J
  <2>1. ASSUME NEW j \in J PROVE \E k \in 1..n : more[k] = j
    <3>1. CASE j = m
      BY <3>1, <1>4, <1>7
    <3>2. CASE j # m
      <4>1. j \in ToSet(seq)
        BY <3>2, <1>9
      <4>2. PICK k \in DOMAIN seq : seq[k] = j
        BY <4>1 DEF ToSet
      <4>3. k \in 1..(n - 1)
        BY <1>9
      <4> QED BY <4>2, <4>3, <1>4
    <3> QED BY <3>1, <3>2
  <2>2. DOMAIN more = 1..n
    OBVIOUS
  <2> HIDE DEF more
  <2> QED BY <2>1, <2>2, <1>10 DEF ToSet
<1>12. Ascending(more)
  <2>1. SUFFICES ASSUME NEW i \in 1..n, NEW j \in 1..n, i < j PROVE more[i] < more[j]
    BY DEF Ascending
  <2>2. i \in 1..(n - 1) /\ more[i] = seq[i]
    BY <2>1, <1>4
  <2>3. CASE j = n
    <3>1. seq[i] \in J /\ seq[i] # m
      BY <2>2, <1>9
    <3>2. more[j] = m
      BY <2>3
    <3>3. seq[i] <= m /\ seq[i] \in Nat /\ m \in Nat
      <4>1. J \subseteq Nat
        BY <1>3
      <4> HIDE DEF Bad, K, more
      <4> QED BY <4>1, <3>1, <1>6
    <3> HIDE DEF more
    <3> QED BY <3>1, <3>2, <3>3, <2>2
  <2>4. CASE j # n
    <3>1. j \in 1..(n - 1) /\ more[j] = seq[j]
      BY <2>1, <2>4, <1>4
    <3>2. seq[i] < seq[j]
      <4>1. DOMAIN seq = 1..(n - 1)
        BY <1>9
      <4> HIDE DEF more
      <4> QED BY <4>1, <3>1, <2>1, <2>2, <1>9 DEF Ascending
    <3> HIDE DEF more
    <3> QED BY <3>1, <3>2, <2>2
  <2> QED BY <2>3, <2>4
<1> QED
  <2> HIDE DEF more
  <2> QED BY <1>3, <1>10, <1>11, <1>12

\* InOrder puts the numbers of a set in order.
LEMMA InOrderIs ==
  ASSUME NEW b \in Nat, NEW I \in SUBSET (1..b), NEW seq, seq = InOrder(I)
  PROVE  /\ seq \in [1..Cardinality(I) -> I] /\ seq \in Seq(I) /\ Len(seq) = Cardinality(I)
         /\ Cardinality(I) \in Nat
         /\ ToSet(seq) = I /\ Ascending(seq)
<1>1. Cardinality(I) \in Nat
  BY BoundedIsFinite
<1>2. seq \in [1..Cardinality(I) -> I] /\ ToSet(seq) = I /\ Ascending(seq)
  BY OrderExists DEF InOrder
<1> QED BY <1>1, <1>2

\* A sequence in order whose numbers are those of another up to some number, is
\* how the other begins.
LEMMA PrefixIs ==
  ASSUME NEW A \in Seq(Nat), NEW B \in Seq(Nat), Ascending(A), Ascending(B),
         ToSet(A) \subseteq ToSet(B),
         \A x \in ToSet(B), y \in ToSet(A) : x <= y => x \in ToSet(A)
  PROVE  IsPrefix(A, B)
<1> DEFINE Bad == {k \in 1..Len(A) : ~(k \in 1..Len(B) /\ A[k] = B[k])}
<1>1. DOMAIN A = 1..Len(A) /\ DOMAIN B = 1..Len(B) /\ Len(A) \in Nat /\ Len(B) \in Nat
  OBVIOUS
<1>2. Bad = {}
  <2>1. SUFFICES ASSUME Bad # {} PROVE FALSE
    OBVIOUS
  <2>2. PICK k \in Bad : \A i \in Bad : k <= i
    <3>1. Bad \subseteq Nat
      OBVIOUS
    <3> HIDE DEF Bad
    <3> QED BY <2>1, <3>1, Least
  <2>3. k \in 1..Len(A) /\ ~(k \in 1..Len(B) /\ A[k] = B[k])
    OBVIOUS
  <2>4. \A i \in 1..(k - 1) : i \in 1..Len(A) /\ i \in 1..Len(B) /\ A[i] = B[i]
    <3>1. SUFFICES ASSUME NEW i \in 1..(k - 1) PROVE i \in 1..Len(A) /\ ~(i \in Bad)
      OBVIOUS
    <3> HIDE DEF Bad
    <3> QED BY <2>2, <2>3
  <2>5. PICK m \in 1..Len(B) : B[m] = A[k]
    <3>1. A[k] \in ToSet(B)
      BY <1>1, <2>3 DEF ToSet
    <3> QED BY <3>1, <1>1 DEF ToSet
  <2> HIDE DEF Bad
  <2>6. k <= m
    <3>1. SUFFICES ASSUME m < k PROVE FALSE
      BY <2>3
    <3>2. m \in 1..(k - 1)
      BY <3>1, <2>3
    <3>3. A[m] = A[k] /\ m \in 1..Len(A)
      BY <3>2, <2>4, <2>5
    <3>4. A[m] < A[k]
      BY <3>1, <3>3, <2>3, <1>1 DEF Ascending
    <3> QED BY <3>3, <3>4, <2>3
  <2>7. k \in 1..Len(B) /\ B[k] <= A[k]
    <3>1. k \in 1..Len(B)
      BY <2>3, <2>6
    <3>2. k = m \/ B[k] < B[m]
      <4>1. k = m \/ k < m
        BY <2>3, <2>6
      <4> QED BY <4>1, <3>1, <1>1 DEF Ascending
    <3> QED BY <3>1, <3>2, <2>5
  <2>8. PICK n \in 1..Len(A) : A[n] = B[k]
    <3>1. B[k] \in ToSet(B) /\ A[k] \in ToSet(A)
      BY <1>1, <2>3, <2>7 DEF ToSet
    <3>2. B[k] \in ToSet(A)
      BY <3>1, <2>7
    <3> QED BY <3>2, <1>1 DEF ToSet
  <2>9. k <= n
    <3>1. SUFFICES ASSUME n < k PROVE FALSE
      BY <2>3
    <3>2. n \in 1..(k - 1)
      BY <3>1, <2>3
    <3>3. B[n] = B[k] /\ n \in 1..Len(B)
      BY <3>2, <2>4, <2>8
    <3>4. B[n] < B[k]
      BY <3>1, <3>3, <2>7, <1>1 DEF Ascending
    <3> QED BY <3>3, <3>4, <2>7
  <2>10. k = n \/ A[k] < A[n]
    <3>1. k = n \/ k < n
      BY <2>3, <2>9
    <3> QED BY <3>1, <2>3, <1>1 DEF Ascending
  <2> QED BY <2>10, <2>8, <2>7, <2>3
<1>3. \A k \in 1..Len(A) : k \in 1..Len(B) /\ A[k] = B[k]
  BY <1>2
<1>4. Len(A) <= Len(B)
  <2>1. CASE Len(A) = 0
    BY <2>1, <1>1
  <2>2. CASE Len(A) # 0
    <3>1. Len(A) \in 1..Len(B)
      BY <2>2, <1>1, <1>3
    <3> QED BY <3>1, <1>1
  <2> QED BY <2>1, <2>2
<1>5. SubSeq(A, 1, Len(A)) = SubSeq(B, 1, Len(A))
  BY <1>1, <1>3, <1>4
<1> QED BY <1>4, <1>5 DEF IsPrefix

\* What is picked from a sequence are its elements at those places, in order.
LEMMA PickedIs ==
  ASSUME NEW S, NEW seq \in Seq(S), NEW I \in SUBSET DOMAIN seq, NEW out, out = Picked(seq, I)
  PROVE  /\ out \in Seq(S)
         /\ ToSet(out) = {seq[k] : k \in I}
         /\ \A i, j \in DOMAIN out : i < j =>
              \E k, l \in I : k < l /\ out[i] = seq[k] /\ out[j] = seq[l]
<1>1. Len(seq) \in Nat /\ I \in SUBSET (1..Len(seq)) /\ DOMAIN seq = 1..Len(seq)
  OBVIOUS
<1> DEFINE at == InOrder(I)
<1>2. /\ at \in [1..Cardinality(I) -> I] /\ Cardinality(I) \in Nat
      /\ ToSet(at) = I /\ Ascending(at)
  BY <1>1, InOrderIs
<1>3. out = [k \in DOMAIN at |-> seq[at[k]]]
  BY DEF Picked
<1> HIDE DEF at
<1>4. out \in [1..Cardinality(I) -> S] /\ DOMAIN at = 1..Cardinality(I)
  BY <1>1, <1>2, <1>3
<1>5. ToSet(out) = {seq[k] : k \in I}
  BY <1>2, <1>3, <1>4 DEF ToSet
<1>6. ASSUME NEW i \in DOMAIN out, NEW j \in DOMAIN out, i < j
      PROVE  \E k, l \in I : k < l /\ out[i] = seq[k] /\ out[j] = seq[l]
  <2>1. at[i] < at[j] /\ at[i] \in I /\ at[j] \in I
    BY <1>2, <1>4, <1>6 DEF Ascending
  <2> QED BY <2>1, <1>3, <1>4
<1>7. out \in Seq(S)
  BY <1>2, <1>4
<1> QED BY <1>5, <1>6, <1>7

\* The sequences of a query: numbers of rows in their order.
LEMMA IdSeqIs ==
  ASSUME NEW seq
  PROVE  seq \in IdSeq <=> seq \in Seq(Id) /\ Ascending(seq)
<1>1. ASSUME seq \in Seq(Id), Ascending(seq) PROVE seq \in IdSeq
  <2>1. Len(seq) \in Nat /\ seq \in [1..Len(seq) -> Id]
    BY <1>1
  <2>2. seq \in Injection(1..Len(seq), Id)
    <3>1. ASSUME NEW i \in 1..Len(seq), NEW j \in 1..Len(seq), seq[i] = seq[j] PROVE i = j
      <4>1. seq[i] \in Nat
        BY <2>1 DEF Id
      <4>2. ~(i < j) /\ ~(j < i)
        BY <4>1, <3>1, <2>1, <1>1 DEF Ascending
      <4> QED BY <4>2
    <3> QED BY <3>1, <2>1 DEF Injection, IsInjective
  <2>3. IsFiniteSet(Id) /\ Cardinality(Id) = MaxRows
    BY Limits, FS_Interval DEF Id
  <2>4. Cardinality(1..Len(seq)) <= MaxRows
    BY <2>2, <2>3, FS_Injection
  <2>5. Cardinality(1..Len(seq)) = Len(seq)
    BY <2>1, FS_Interval
  <2>6. Len(seq) \in 0..MaxRows
    BY <2>1, <2>4, <2>5, Limits
  <2> QED BY <2>1, <2>6, <1>1 DEF IdSeq
<1>2. ASSUME seq \in IdSeq PROVE seq \in Seq(Id) /\ Ascending(seq)
  BY <1>2, Limits DEF IdSeq
<1> QED BY <1>1, <1>2

\* What is in a list of rows, and where it ends.
LEMMA RowsAre ==
  ASSUME NEW seq \in Seq(Id)
  PROVE  \A x \in ToSet(seq) : x \in Id /\ x \in Nat
<1>1. \A i \in DOMAIN seq : seq[i] \in Id
  OBVIOUS
<1> QED BY <1>1 DEF ToSet, Id

LEMMA LastIsGreatest ==
  ASSUME NEW seq \in Seq(Id), Ascending(seq), seq # <<>>
  PROVE  /\ Last(seq) \in ToSet(seq) /\ Last(seq) \in Id
         /\ \A x \in ToSet(seq) : x <= Last(seq)
<1> DEFINE n == Len(seq)
<1>1. n \in Nat /\ DOMAIN seq = 1..n /\ n \in DOMAIN seq /\ Last(seq) = seq[n]
  BY DEF Last
<1> HIDE DEF n
<1>2. Last(seq) \in ToSet(seq)
  BY <1>1 DEF ToSet
<1>3. ASSUME NEW x \in ToSet(seq) PROVE x <= Last(seq)
  <2>1. PICK i \in DOMAIN seq : x = seq[i]
    BY DEF ToSet
  <2>2. i = n \/ i < n
    <3>1. i \in 1..n
      BY <1>1
    <3> QED BY <3>1, <1>1
  <2>3. x = Last(seq) \/ x < Last(seq)
    BY <2>1, <2>2, <1>1 DEF Ascending
  <2> QED BY <2>3, <1>2, RowsAre
<1> QED BY <1>2, <1>3, RowsAre

\* A sequence in order continued by a later one is in order.
LEMMA LaterRows ==
  ASSUME NEW A \in Seq(Id), NEW B \in Seq(Id), Ascending(A), Ascending(B),
         \A a \in ToSet(A), b \in ToSet(B) : a < b
  PROVE  A \o B \in Seq(Id) /\ Ascending(A \o B) /\ ToSet(A \o B) = ToSet(A) \cup ToSet(B)
<1>1. /\ A \o B \in Seq(Id) /\ Len(A) \in Nat /\ Len(B) \in Nat
      /\ DOMAIN A = 1..Len(A) /\ DOMAIN B = 1..Len(B)
      /\ DOMAIN (A \o B) = 1..(Len(A) + Len(B))
      /\ \A i \in 1..Len(A) : (A \o B)[i] = A[i]
      /\ \A i \in 1..(Len(A) + Len(B)) : i > Len(A) => (A \o B)[i] = B[i - Len(A)]
  OBVIOUS
<1> DEFINE C == A \o B
<1>2. ASSUME NEW i \in DOMAIN C, NEW j \in DOMAIN C, i < j PROVE C[i] < C[j]
  <2>1. CASE j <= Len(A)
    BY <2>1, <1>1, <1>2 DEF Ascending
  <2>2. CASE i <= Len(A) /\ j > Len(A)
    <3>1. C[i] = A[i] /\ A[i] \in ToSet(A)
      BY <2>2, <1>1 DEF ToSet
    <3>2. C[j] = B[j - Len(A)] /\ j - Len(A) \in 1..Len(B)
      BY <2>2, <1>1
    <3>3. B[j - Len(A)] \in ToSet(B)
      BY <3>2, <1>1 DEF ToSet
    <3> HIDE DEF C
    <3> QED BY <3>1, <3>2, <3>3
  <2>3. CASE i > Len(A)
    <3>1. /\ C[i] = B[i - Len(A)] /\ i - Len(A) \in 1..Len(B)
          /\ C[j] = B[j - Len(A)] /\ j - Len(A) \in 1..Len(B)
          /\ i - Len(A) < j - Len(A)
      BY <2>3, <1>1, <1>2
    <3> HIDE DEF C
    <3> QED BY <3>1, <1>1 DEF Ascending
  <2> QED BY <2>1, <2>2, <2>3, <1>1
<1>3. ToSet(C) = ToSet(A) \cup ToSet(B)
  <2>1. ASSUME NEW x \in ToSet(A) PROVE x \in ToSet(C)
    <3>1. PICK i \in 1..Len(A) : x = A[i]
      BY <1>1 DEF ToSet
    <3> QED BY <3>1, <1>1 DEF ToSet
  <2>2. ASSUME NEW x \in ToSet(B) PROVE x \in ToSet(C)
    <3>1. PICK i \in 1..Len(B) : x = B[i]
      BY <1>1 DEF ToSet
    <3>2. /\ Len(A) + i \in 1..(Len(A) + Len(B)) /\ Len(A) + i > Len(A)
          /\ (Len(A) + i) - Len(A) = i
      BY <1>1
    <3>3. C[Len(A) + i] = x
      BY <3>1, <3>2, <1>1
    <3> HIDE DEF C
    <3> QED BY <3>2, <3>3, <1>1 DEF ToSet, C
  <2>3. ASSUME NEW x \in ToSet(C) PROVE x \in ToSet(A) \cup ToSet(B)
    <3>1. PICK i \in 1..(Len(A) + Len(B)) : x = C[i]
      BY <1>1 DEF ToSet
    <3>2. CASE i <= Len(A)
      BY <3>1, <3>2, <1>1 DEF ToSet
    <3>3. CASE i > Len(A)
      <4>1. x = B[i - Len(A)] /\ i - Len(A) \in 1..Len(B)
        BY <3>1, <3>3, <1>1
      <4> QED BY <4>1, <1>1 DEF ToSet
    <3> QED BY <3>2, <3>3, <1>1
  <2> HIDE DEF C
  <2> QED BY <2>1, <2>2, <2>3
<1>4. Ascending(C)
  <2> HIDE DEF C
  <2> QED BY <1>2 DEF Ascending
<1> QED BY <1>1, <1>3, <1>4


\* The rows of a host in two lists, one after the other.
LEMMA CountsAdd ==
  ASSUME NEW A \in Seq(Id), NEW B \in Seq(Id), NEW h
  PROVE  OnHost(A \o B, h) = OnHost(A, h) + OnHost(B, h)
<1> DEFINE On(seq) == {i \in DOMAIN seq : table[seq[i]].shape.host = h}
           n == Len(A)
           late == {n + i : i \in On(B)}
           shift == [i \in On(B) |-> n + i]
<1>1. /\ n \in Nat /\ Len(B) \in Nat
      /\ DOMAIN A = 1..n /\ DOMAIN B = 1..Len(B)
      /\ DOMAIN (A \o B) = 1..(n + Len(B))
      /\ \A i \in 1..n : (A \o B)[i] = A[i]
      /\ \A i \in 1..Len(B) : n + i \in 1..(n + Len(B)) /\ (A \o B)[n + i] = B[i]
      /\ \A i \in 1..(n + Len(B)) : i \in 1..n \/ (i - n \in 1..Len(B) /\ i = n + (i - n))
  OBVIOUS
<1>2. On(A \o B) = On(A) \cup late
  <2> DEFINE C == A \o B
  <2>1. \A i \in 1..n : C[i] = A[i] /\ i \in DOMAIN C
    BY <1>1
  <2>2. \A i \in 1..Len(B) : n + i \in DOMAIN C /\ C[n + i] = B[i]
    BY <1>1
  <2>3. \A i \in DOMAIN C : i \in 1..n \/ \E k \in 1..Len(B) : i = n + k
    BY <1>1
  <2> HIDE DEF C, n
  <2>4. ASSUME NEW i \in On(C) PROVE i \in On(A) \cup late
    <3>1. i \in DOMAIN C /\ table[C[i]].shape.host = h
      OBVIOUS
    <3>2. CASE i \in 1..n
      BY <3>1, <3>2, <2>1, <1>1
    <3>3. ASSUME NEW k \in 1..Len(B), i = n + k PROVE i \in late
      <4>1. k \in DOMAIN B /\ table[B[k]].shape.host = h
        BY <3>1, <3>3, <2>2, <1>1
      <4> QED BY <4>1, <3>3
    <3> QED BY <3>1, <3>2, <3>3, <2>3
  <2>5. ASSUME NEW i \in On(A) \cup late PROVE i \in On(C)
    BY <2>1, <2>2, <1>1
  <2> HIDE DEF On, late
  <2> QED BY <2>4, <2>5 DEF C
<1>3. On(A) \cap late = {}
  BY <1>1
<1>4. /\ IsFiniteSet(On(A)) /\ IsFiniteSet(On(B))
      /\ Cardinality(On(A)) \in Nat /\ Cardinality(On(B)) \in Nat
  <2>1. On(A) \in SUBSET (1..n) /\ On(B) \in SUBSET (1..Len(B))
    BY <1>1
  <2> HIDE DEF On, n
  <2> QED BY <2>1, <1>1, BoundedIsFinite
<1>5. shift \in Bijection(On(B), late)
  <2>1. shift \in [On(B) -> late]
    OBVIOUS
  <2>2. ASSUME NEW i \in On(B), NEW j \in On(B), shift[i] = shift[j] PROVE i = j
    BY <2>2, <1>1
  <2>3. \A t \in late : \E i \in On(B) : shift[i] = t
    OBVIOUS
  <2> HIDE DEF shift, late, On
  <2> QED BY <2>1, <2>2, <2>3 DEF Bijection, Injection, Surjection, IsInjective
<1>6. IsFiniteSet(late) /\ Cardinality(late) = Cardinality(On(B))
  <2> HIDE DEF shift, late, On
  <2> QED BY <1>4, <1>5, FS_Bijection DEF ExistsBijection
<1>7. Cardinality(On(A) \cup late) = Cardinality(On(A)) + Cardinality(On(B))
  <2>1. Cardinality(On(A) \cap late) = 0
    BY <1>3, FS_EmptySet
  <2> HIDE DEF late, On
  <2>2. Cardinality(On(A) \cup late)
          = Cardinality(On(A)) + Cardinality(late) - Cardinality(On(A) \cap late)
    BY <1>4, <1>6, FS_Union
  <2> QED BY <2>1, <2>2, <1>4, <1>6
<1> QED BY <1>2, <1>7 DEF OnHost

\* A list has no more rows of a host than rows.
LEMMA CountBound ==
  ASSUME NEW seq \in IdSeq, NEW h
  PROVE  OnHost(seq, h) \in 0..MaxRows
<1> DEFINE S == {i \in DOMAIN seq : table[seq[i]].shape.host = h}
<1>1. Len(seq) \in Nat /\ Len(seq) <= MaxRows /\ DOMAIN seq = 1..Len(seq)
  BY Limits DEF IdSeq
<1>2. S \in SUBSET (1..Len(seq))
  BY <1>1
<1> HIDE DEF S
<1>3. Cardinality(S) \in Nat /\ Cardinality(S) <= Len(seq)
  BY <1>1, <1>2, BoundedIsFinite
<1> QED BY <1>1, <1>3, Limits DEF OnHost, S


-----------------------------------------------------------------------------
(* The invariant *)

\* The rows of the project shown.
Mine == {i \in DOMAIN table : table[i].project = project}

\* Of the rows between the end of the list and its own last one, an answer has
\* all the project has.
Closes(seq) == \A i \in Mine, j \in ToSet(seq) : i > lastId /\ i <= j => i \in ToSet(seq)

\* The list has all the project has up to its last row.
Reaches == \A i \in Mine : i <= lastId => i \in ToSet(rows)

\* Every answer has rows of the table, a history those of the project shown.
KeptRows ==
  /\ ToSet(rows) \subseteq DOMAIN table
  /\ poll.at = "asked" => ToSet(poll.found) \subseteq DOMAIN table
  /\ load.at = "asked" => load.of = project
  /\ load.at = "read" => ToSet(load.found) \subseteq Mine

\* So has a poll that is not from before the panel came to the project; and it
\* closes the gap.
Owned ==
  ~crossed => /\ ToSet(rows) \subseteq Mine
              /\ poll.at = "asked" => ToSet(poll.found) \subseteq Mine /\ Closes(poll.found)

\* A history does so as long as it has all rows of the project.
Small == ~crossed /\ Cardinality(Mine) <= HistoryLimit
NoHole == Small => Reaches /\ (load.at = "read" => Closes(load.found))

\* The invariant.  What the panel does with an answer depends on where its list
\* ends, so that the list, its counts and the answers go together.
IInv == TypeOK /\ ListedOnce /\ ViewAddsUp /\ KeptRows /\ Owned /\ NoHole

-----------------------------------------------------------------------------
(* The queries *)

\* The rows a query finds, before it is limited.
LEMMA OfIs ==
  ASSUME TypeOK, NEW p, NEW after \in Nat, NEW all, all = Of(p, after)
  PROVE  /\ all \in Seq(Id) /\ Ascending(all) /\ DOMAIN all = 1..Len(all) /\ Len(all) \in Nat
         /\ ToSet(all) = {i \in DOMAIN table : table[i].project = p /\ i > after}
         /\ Len(all) = Cardinality({i \in DOMAIN table : table[i].project = p /\ i > after})
<1> DEFINE I == {i \in DOMAIN table : table[i].project = p /\ i > after}
<1>1. I \in SUBSET (1..MaxRows)
  BY Limits DEF TypeOK
<1>2. all = InOrder(I)
  BY DEF Of
<1> HIDE DEF I
<1>3. all \in Seq(I) /\ Len(all) = Cardinality(I) /\ ToSet(all) = I /\ Ascending(all)
  BY <1>1, <1>2, Limits, InOrderIs
<1>4. all \in Seq(Id) /\ DOMAIN all = 1..Len(all) /\ Len(all) \in Nat
  <2>1. Len(all) \in Nat /\ all \in [1..Len(all) -> I]
    BY <1>3
  <2>2. I \subseteq Id
    BY <1>1 DEF Id
  <2>3. all \in [1..Len(all) -> Id]
    BY <2>1, <2>2
  <2> QED BY <2>1, <2>3
<1> QED BY <1>3, <1>4 DEF I

\* What a sequence has from one place to another.
Span(out, seq, a, b) == \A x : x \in ToSet(out) <=> \E k \in a..b : x = seq[k]

\* A part of a list in order.
LEMMA PartIs ==
  ASSUME NEW seq \in Seq(Id), Ascending(seq), NEW a \in Nat \ {0}, NEW b \in Nat, b <= Len(seq),
         NEW out, out = SubSeq(seq, a, b)
  PROVE  out \in IdSeq /\ Span(out, seq, a, b)
<1>1. /\ out \in Seq(Id) /\ Len(seq) \in Nat
      /\ DOMAIN out = IF a <= b THEN 1..(b - a + 1) ELSE {}
      /\ \A k \in DOMAIN out : k + a - 1 \in a..b /\ out[k] = seq[k + a - 1]
      /\ DOMAIN seq = 1..Len(seq)
  OBVIOUS
<1>2. Ascending(out)
  <2>1. SUFFICES ASSUME NEW i \in DOMAIN out, NEW j \in DOMAIN out, i < j PROVE out[i] < out[j]
    BY DEF Ascending
  <2>2. /\ i + a - 1 \in DOMAIN seq /\ j + a - 1 \in DOMAIN seq /\ i + a - 1 < j + a - 1
        /\ out[i] = seq[i + a - 1] /\ out[j] = seq[j + a - 1]
    BY <2>1, <1>1
  <2> QED BY <2>2 DEF Ascending
<1>3. \A x : x \in ToSet(out) <=> \E k \in a..b : x = seq[k]
  <2>1. ASSUME NEW k \in a..b PROVE seq[k] \in ToSet(out)
    <3>1. k - a + 1 \in DOMAIN out /\ (k - a + 1) + a - 1 = k
      BY <1>1
    <3>2. out[k - a + 1] = seq[k]
      BY <3>1, <1>1
    <3> QED BY <3>1, <3>2 DEF ToSet
  <2>2. ASSUME NEW x \in ToSet(out) PROVE \E k \in a..b : x = seq[k]
    <3>1. PICK k \in DOMAIN out : x = out[k]
      BY DEF ToSet
    <3> QED BY <3>1, <1>1
  <2> QED BY <2>1, <2>2
<1> QED BY <1>1, <1>2, <1>3, IdSeqIs DEF Span

\* list_latest: rows of the project; all of them, as long as they fit into one
\* history.
LEMMA ListLatestIs ==
  ASSUME TypeOK, NEW found, found = ListLatest(project)
  PROVE  /\ found \in IdSeq /\ ToSet(found) \subseteq Mine
         /\ Cardinality(Mine) <= HistoryLimit => ToSet(found) = Mine
<1> DEFINE all == Of(project, None)
<1>1. /\ all \in Seq(Id) /\ Ascending(all) /\ DOMAIN all = 1..Len(all) /\ Len(all) \in Nat
      /\ ToSet(all) = Mine /\ Len(all) = Cardinality(Mine)
  <2>1. {i \in DOMAIN table : table[i].project = project /\ i > None} = Mine
    BY DEF TypeOK, Mine, None
  <2>2. None \in Nat
    BY DEF None
  <2> QED BY <2>1, <2>2, OfIs
<1>2. found = SubSeq(all, IF Len(all) > HistoryLimit THEN Len(all) - HistoryLimit + 1 ELSE 1,
                     Len(all))
  BY DEF ListLatest
<1> HIDE DEF all
<1>3. \A k \in 1..Len(all) : all[k] \in ToSet(all)
  BY <1>1 DEF ToSet
<1>4. CASE Len(all) > HistoryLimit
  <2>1. Len(all) - HistoryLimit + 1 \in Nat \ {0}
    BY <1>1, <1>4, Limits
  <2>2. found = SubSeq(all, Len(all) - HistoryLimit + 1, Len(all)) /\ Len(all) <= Len(all)
    <3>1. found = SubSeq(all, Len(all) - HistoryLimit + 1, Len(all))
      BY <1>2, <1>4, Zenon
    <3> QED BY <3>1, <1>1
  <2>3. found \in IdSeq /\ Span(found, all, Len(all) - HistoryLimit + 1, Len(all))
    BY <1>1, <2>1, <2>2, PartIs
  <2>4. ToSet(found) \subseteq ToSet(all)
    BY <2>1, <2>3, <1>1, <1>3 DEF Span
  <2> QED BY <2>3, <2>4, <1>1, <1>4, Limits
<1>5. CASE ~(Len(all) > HistoryLimit)
  <2>1. found = SubSeq(all, 1, Len(all)) /\ Len(all) <= Len(all) /\ 1 \in Nat \ {0}
    BY <1>1, <1>2, <1>5
  <2>2. found \in IdSeq /\ Span(found, all, 1, Len(all))
    BY <1>1, <2>1, PartIs
  <2>3. Span(all, all, 1, Len(all))
    BY <1>1 DEF ToSet, Span
  <2>4. ToSet(found) = ToSet(all)
    BY <2>2, <2>3 DEF Span
  <2> QED BY <2>2, <2>4, <1>1
<1> QED BY <1>4, <1>5

\* list_after: the project's rows after the last one of the list, without a gap.
LEMMA ListAfterIs ==
  ASSUME TypeOK, NEW found, found = ListAfter(project, lastId)
  PROVE  found \in IdSeq /\ ToSet(found) \subseteq Mine /\ Closes(found)
<1> DEFINE all == Of(project, lastId)
           n == IF Len(all) > PollLimit THEN PollLimit ELSE Len(all)
<1>1. lastId \in Nat
  BY Limits DEF TypeOK, Id, None
<1>2. /\ all \in Seq(Id) /\ Ascending(all) /\ DOMAIN all = 1..Len(all) /\ Len(all) \in Nat
      /\ ToSet(all) = {i \in Mine : i > lastId}
  <2>1. {i \in DOMAIN table : table[i].project = project /\ i > lastId} = {i \in Mine : i > lastId}
    BY DEF Mine
  <2> QED BY <2>1, <1>1, OfIs
<1>3. found = SubSeq(all, 1, n)
  BY DEF ListAfter
<1> HIDE DEF all
<1>4. n \in Nat /\ n <= Len(all)
  BY <1>2, Limits
<1> HIDE DEF n
<1>5. found \in IdSeq /\ Span(found, all, 1, n)
  <2>1. 1 \in Nat \ {0}
    OBVIOUS
  <2> QED BY <2>1, <1>2, <1>3, <1>4, PartIs
<1>6. ToSet(found) \subseteq Mine
  <2>1. \A k \in 1..n : all[k] \in ToSet(all)
    BY <1>2, <1>4 DEF ToSet
  <2> QED BY <2>1, <1>2, <1>5 DEF Span
<1>7. ASSUME NEW i \in Mine, NEW j \in ToSet(found), i > lastId, i <= j PROVE i \in ToSet(found)
  <2>1. PICK m \in 1..Len(all) : all[m] = i
    <3>1. i \in ToSet(all)
      BY <1>2, <1>7
    <3> QED BY <3>1, <1>2 DEF ToSet
  <2>2. PICK k \in 1..n : all[k] = j
    BY <1>5 DEF Span
  <2>3. m <= k
    <3>1. SUFFICES ASSUME k < m PROVE FALSE
      BY <1>4
    <3>2. all[k] < all[m]
      BY <3>1, <1>2, <1>4 DEF Ascending
    <3>3. i \in Nat /\ j \in Nat
      <4>1. all[m] \in Id /\ all[k] \in Id
        BY <1>2, <1>4
      <4> QED BY <4>1, <2>1, <2>2 DEF Id
    <3> QED BY <3>2, <3>3, <2>1, <2>2, <1>7
  <2>4. m \in 1..n
    BY <2>3, <1>4
  <2> QED BY <2>1, <2>4, <1>5 DEF Span
<1> QED BY <1>5, <1>6, <1>7 DEF Closes


-----------------------------------------------------------------------------
(* The list *)

\* The rows of the list come before where it ends, which is a row of it.
LEMMA ListEnds ==
  ASSUME TypeOK, ListedOnce
  PROVE  /\ rows \in Seq(Id) /\ lastId \in Nat
         /\ \A x \in ToSet(rows) : x \in Id /\ x <= lastId
         /\ lastId = None \/ lastId \in ToSet(rows)
<1>1. rows \in Seq(Id) /\ Ascending(rows)
  BY IdSeqIs DEF TypeOK
<1>3. CASE rows = <<>>
  BY <1>1, <1>3, Limits DEF ListedOnce, ToSet, None
<1>4. CASE rows # <<>>
  <2>1. lastId = Last(rows)
    BY <1>4 DEF ListedOnce
  <2> QED BY <1>1, <1>4, <2>1, LastIsGreatest, RowsAre
<1> QED BY <1>3, <1>4

\* push: the list stays in order, whatever the answer has, and gets all rows of
\* it that are newer.
LEMMA PushIs ==
  ASSUME TypeOK, ListedOnce, ViewAddsUp, NEW found \in IdSeq, Push(found),
         UNCHANGED <<table, choice>>
  PROVE  /\ rows' \in IdSeq /\ lastId' \in Id \cup {None} /\ domains' \in [Hosts -> 0..MaxRows]
         /\ visible' = Filtered(rows', choice) \/ visible' = visible
         /\ ListedOnce' /\ ViewAddsUp'
         /\ \A x : x \in ToSet(rows') <=> x \in ToSet(rows) \/ (x \in ToSet(found) /\ x > lastId)
         /\ lastId' = lastId \/ lastId' \in ToSet(found)
         /\ \A x \in ToSet(found) : x <= lastId'
         /\ lastId' >= lastId
<1> DEFINE fresh == Picked(found, {k \in DOMAIN found : found[k] > lastId})
<1>1. /\ rows \in Seq(Id) /\ Ascending(rows) /\ found \in Seq(Id) /\ Ascending(found)
      /\ lastId \in Nat /\ lastId \in Id \cup {None} /\ rows \in IdSeq
      /\ \A x \in ToSet(rows) : x <= lastId
      /\ \A x \in ToSet(found) : x \in Nat
  <2>1. rows \in Seq(Id) /\ found \in Seq(Id) /\ Ascending(rows) /\ Ascending(found)
    BY IdSeqIs DEF TypeOK
  <2>2. \A x \in ToSet(found) : x \in Nat
    BY <2>1, RowsAre
  <2> QED BY <2>1, <2>2, ListEnds DEF TypeOK
<1>2. /\ fresh \in Seq(Id) /\ Ascending(fresh)
      /\ \A x : x \in ToSet(fresh) <=> x \in ToSet(found) /\ x > lastId
  <2> DEFINE I == {k \in DOMAIN found : found[k] > lastId}
  <2>1. I \in SUBSET DOMAIN found
    OBVIOUS
  <2>2. /\ fresh \in Seq(Id) /\ ToSet(fresh) = {found[k] : k \in I}
        /\ \A i, j \in DOMAIN fresh : i < j =>
             \E k, l \in I : k < l /\ fresh[i] = found[k] /\ fresh[j] = found[l]
    <3> HIDE DEF fresh
    <3>1. fresh = Picked(found, I)
      BY DEF fresh
    <3> HIDE DEF I
    <3> QED BY <1>1, <2>1, <3>1, PickedIs
  <2> HIDE DEF fresh
  <2>3. Ascending(fresh)
    BY <1>1, <2>2 DEF Ascending
  <2>4. \A x : x \in ToSet(fresh) <=> x \in ToSet(found) /\ x > lastId
    BY <2>2 DEF ToSet
  <2> QED BY <2>2, <2>3, <2>4
<1>3. CASE fresh = <<>>
  <2>1. UNCHANGED <<rows, lastId, domains, visible>>
    BY <1>3 DEF Push
  <2> HIDE DEF fresh
  <2>2. \A x \in ToSet(found) : ~(x > lastId)
    <3>1. ToSet(<<>>) = {}
      BY DEF ToSet
    <3> QED BY <3>1, <1>2, <1>3
  <2>3. ListedOnce' /\ ViewAddsUp'
    BY <2>1 DEF ListedOnce, ViewAddsUp, OnHost, Filtered, Matches
  <2> QED BY <1>1, <2>1, <2>2, <2>3 DEF TypeOK
<1>4. CASE fresh # <<>>
  <2>1. /\ rows' = rows \o fresh
        /\ lastId' = Last(fresh)
        /\ domains' = [h \in Hosts |-> domains[h] + OnHost(fresh, h)]
        /\ visible' = Filtered(rows', choice)
    BY <1>4 DEF Push
  <2> HIDE DEF fresh
  <2>2. /\ rows' \in Seq(Id) /\ Ascending(rows') /\ ToSet(rows') = ToSet(rows) \cup ToSet(fresh)
    <3>1. \A a \in ToSet(rows), b \in ToSet(fresh) : a < b
      <4>1. \A a \in ToSet(rows) : a \in Nat
        BY <1>1, RowsAre
      <4> QED BY <4>1, <1>1, <1>2
    <3> QED BY <3>1, <2>1, <1>1, <1>2, LaterRows
  <2>3. Len(fresh) \in Nat /\ Len(fresh) >= 1 /\ DOMAIN fresh = 1..Len(fresh)
    BY <1>2, <1>4
  <2>4. lastId' \in Id /\ lastId' \in ToSet(fresh)
    BY <2>1, <1>2, <1>4, LastIsGreatest
  <2>5. \A x \in ToSet(fresh) : x <= lastId'
    BY <2>1, <1>2, <1>4, LastIsGreatest
  <2>6. lastId' > lastId /\ lastId' \in Nat
    BY <2>4, <1>2 DEF Id
  <2>7. \A x \in ToSet(found) : x <= lastId'
    BY <2>5, <2>6, <1>1, <1>2
  <2>8. Last(rows') = Last(fresh) /\ rows' # <<>>
    <3>1. /\ Len(rows') = Len(rows) + Len(fresh) /\ Len(fresh) >= 1 /\ Len(rows) \in Nat
          /\ \A i \in 1..Len(fresh) : rows'[Len(rows) + i] = fresh[i]
      BY <2>1, <2>3, <1>1, <1>2
    <3>2. rows'[Len(rows')] = fresh[Len(fresh)]
      BY <3>1, <2>3
    <3> QED BY <3>1, <3>2 DEF Last
  <2>9. ListedOnce'
    BY <2>1, <2>2, <2>8 DEF ListedOnce
  <2>10. \A h \in Hosts : domains'[h] = OnHost(rows', h)
    <3>1. ASSUME NEW h \in Hosts PROVE domains'[h] = OnHost(rows', h)
      <4>1. domains'[h] = domains[h] + OnHost(fresh, h) /\ domains[h] = OnHost(rows, h)
        BY <2>1 DEF ViewAddsUp
      <4>2. OnHost(rows \o fresh, h) = OnHost(rows, h) + OnHost(fresh, h)
        BY <1>1, <1>2, CountsAdd
      <4> QED BY <4>1, <4>2, <2>1
    <3> QED BY <3>1
  <2>11. rows' \in IdSeq
    BY <2>2, IdSeqIs
  <2>12. domains' \in [Hosts -> 0..MaxRows]
    <3>1. \A h \in Hosts : OnHost(rows', h) \in 0..MaxRows
      BY <2>11, CountBound
    <3>2. domains' \in [Hosts -> {domains'[h] : h \in Hosts}]
      BY <2>1
    <3> QED BY <3>1, <3>2, <2>10
  <2>13. ViewAddsUp'
    <3>1. \A h \in Hosts : OnHost(rows, h)' = OnHost(rows', h)
      BY DEF OnHost
    <3>2. Filtered(rows, choice)' = Filtered(rows', choice)
      BY DEF Filtered, Matches
    <3> QED BY <3>1, <3>2, <2>1, <2>10 DEF ViewAddsUp, Hosts
  <2> QED BY <2>1, <2>2, <2>4, <2>6, <2>7, <2>9, <2>11, <2>12, <2>13, <1>1, <1>2
<1> QED BY <1>3, <1>4


-----------------------------------------------------------------------------
(* Steps that leave the list alone *)

\* Such a step may ask, and get answers from the table as it is.
LEMMA QuietStep ==
  ASSUME IInv, UNCHANGED <<table, project, rows, lastId, domains, visible, choice, crossed>>,
         \/ poll' = poll
         \/ poll'.at # "asked"
         \/ ToSet(poll'.found) \subseteq Mine /\ Closes(poll'.found),
         \/ load' = load
         \/ load'.at \notin {"asked", "read"}
         \/ /\ load'.at = "read" /\ ToSet(load'.found) \subseteq Mine
            /\ Cardinality(Mine) <= HistoryLimit => Closes(load'.found)
  PROVE  ListedOnce' /\ ViewAddsUp' /\ KeptRows' /\ Owned' /\ NoHole'
<1>1. /\ Mine' = Mine /\ Small' = Small /\ Reaches' = Reaches
      /\ Closes(poll.found)' = Closes(poll'.found) /\ Closes(load.found)' = Closes(load'.found)
  BY DEF Mine, Small, Reaches, Closes
<1>2. Mine \subseteq DOMAIN table
  BY DEF Mine
<1>3. ListedOnce' /\ ViewAddsUp'
  BY DEF IInv, ListedOnce, ViewAddsUp, OnHost, Filtered, Matches
<1>4. KeptRows'
  BY <1>1, <1>2 DEF IInv, KeptRows
<1>5. Owned'
  BY <1>1 DEF IInv, Owned
<1>6. NoHole'
  <2>1. SUFFICES ASSUME Small PROVE Reaches /\ (load'.at = "read" => Closes(load'.found))
    BY <1>1 DEF NoHole
  <2>2. Cardinality(Mine) <= HistoryLimit
    BY <2>1 DEF Small
  <2> QED BY <2>1, <2>2 DEF IInv, NoHole
<1> QED BY <1>3, <1>4, <1>5, <1>6

\* The watch tasks, and the recorder's end.
LEMMA RunSteps ==
  ASSUME IInv, Start \/ Stop \/ RunEnds \/ \E p \in Project : WatchersEnd(p)
  PROVE  IInv'
<1>1. TypeOK
  BY DEF IInv
<1>2. CASE Start
  <2>1. TypeOK'
    <3>1. /\ sheet' \in [state : {"Idle", "Recording", "Stopping", "Ended"}, project : Project \cup {None}]
          /\ poll' \in {NoTask, [at |-> "timer"]} /\ writers' \subseteq Project
      BY <1>1, <1>2 DEF TypeOK, Start
    <3> QED BY <1>1, <1>2, <3>1 DEF TypeOK, Start
  <2>2. /\ UNCHANGED <<table, project, rows, lastId, domains, visible, choice, crossed>>
        /\ load' = load /\ poll'.at # "asked"
    BY <1>2 DEF Start
  <2> QED BY <2>1, <2>2, QuietStep DEF IInv
<1>3. CASE Stop
  <2>1. TypeOK'
    <3>1. sheet' \in [state : {"Idle", "Recording", "Stopping", "Ended"}, project : Project \cup {None}]
      BY <1>1, <1>3 DEF TypeOK, Stop
    <3> QED BY <1>1, <1>3, <3>1 DEF TypeOK, Stop, dbVars, viewVars, auxVars
  <2>2. /\ UNCHANGED <<table, project, rows, lastId, domains, visible, choice, crossed>>
        /\ load' = load /\ poll' = poll
    BY <1>3 DEF Stop, dbVars, viewVars, auxVars
  <2> QED BY <2>1, <2>2, QuietStep DEF IInv
<1>4. CASE RunEnds
  <2>1. TypeOK'
    <3>1. sheet' \in [state : {"Idle", "Recording", "Stopping", "Ended"}, project : Project \cup {None}]
      BY <1>4 DEF RunEnds
    <3>2. UNCHANGED <<table, projects, writers, project, rows, lastId, domains, visible, choice,
                      selected, poll, load, creating, crossed, behind>>
      BY <1>4 DEF RunEnds, dbVars, auxVars
    <3>3. active' \in BOOLEAN
      BY <1>4 DEF RunEnds
    <3> QED BY <1>1, <3>1, <3>2, <3>3 DEF TypeOK
  <2>2. /\ UNCHANGED <<table, project, rows, lastId, domains, visible, choice, crossed>>
        /\ load' = load /\ poll' = poll
    BY <1>4 DEF RunEnds, dbVars, auxVars
  <2> QED BY <2>1, <2>2, QuietStep DEF IInv
<1>5. ASSUME NEW p \in Project, WatchersEnd(p) PROVE IInv'
  <2>1. TypeOK'
    BY <1>1, <1>5 DEF TypeOK, WatchersEnd, viewVars, auxVars
  <2>2. /\ UNCHANGED <<table, project, rows, lastId, domains, visible, choice, crossed>>
        /\ load' = load /\ poll' = poll
    BY <1>5 DEF WatchersEnd, viewVars, auxVars
  <2> QED BY <2>1, <2>2, QuietStep DEF IInv
<1> QED BY <1>2, <1>3, <1>4, <1>5

\* The queries are answered, or fail.
LEMMA QuerySteps ==
  ASSUME IInv, HistoryRead \/ HistoryFails \/ PollTick
  PROVE  IInv'
<1>1. TypeOK
  BY DEF IInv
<1>2. CASE HistoryRead
  <2>1. PICK found : found = ListLatest(project)
    OBVIOUS
  <2>2. load' = [at |-> "read", found |-> found]
    BY <1>2, <2>1 DEF HistoryRead, IInv, KeptRows
  <2>3. /\ found \in IdSeq /\ ToSet(found) \subseteq Mine
        /\ Cardinality(Mine) <= HistoryLimit => ToSet(found) = Mine
    BY <1>1, <2>1, ListLatestIs
  <2>4. TypeOK'
    BY <1>1, <1>2, <2>2, <2>3 DEF TypeOK, HistoryRead, dbVars, auxVars
  <2>5. Cardinality(Mine) <= HistoryLimit => Closes(found)
    BY <2>3 DEF Closes
  <2>6. /\ UNCHANGED <<table, project, rows, lastId, domains, visible, choice, crossed>>
        /\ load'.at = "read" /\ load'.found = found /\ poll' = poll
    BY <1>2, <2>2 DEF HistoryRead, dbVars, auxVars
  <2> QED BY <2>3, <2>4, <2>5, <2>6, QuietStep DEF IInv
<1>3. CASE HistoryFails
  <2>1. TypeOK'
    BY <1>1, <1>3 DEF TypeOK, HistoryFails, dbVars
  <2>2. /\ UNCHANGED <<table, project, rows, lastId, domains, visible, choice, crossed>>
        /\ load'.at \notin {"asked", "read"} /\ poll' = poll
    BY <1>3 DEF HistoryFails, dbVars, NoTask
  <2> QED BY <2>1, <2>2, QuietStep DEF IInv
<1>4. CASE PollTick
  <2>1. PICK failed \in BOOLEAN : PollReads(failed)
    BY <1>4 DEF PollTick
  <2>2. PICK found : found = IF failed THEN <<>> ELSE ListAfter(project, lastId)
    OBVIOUS
  <2>3. poll' = [at |-> "asked", of |-> project, done |-> ~active, failed |-> failed,
                 found |-> found]
    BY <2>1, <2>2 DEF PollReads
  <2>4. found \in IdSeq /\ ToSet(found) \subseteq Mine /\ Closes(found)
    <3>1. CASE failed
      <4>1. found = <<>> /\ ToSet(found) = {}
        BY <2>2, <3>1 DEF ToSet
      <4>2. <<>> \in Seq(Id) /\ Ascending(<<>>)
        BY DEF Ascending
      <4> QED BY <4>1, <4>2, IdSeqIs DEF Closes
    <3>2. CASE ~failed
      BY <3>2, <2>2, <1>1, ListAfterIs
    <3> QED BY <3>1, <3>2
  <2>5. TypeOK'
    <3>1. poll' \in [at : {"asked"}, of : Project, done : BOOLEAN, failed : BOOLEAN, found : IdSeq]
      BY <1>1, <2>3, <2>4 DEF TypeOK
    <3>2. behind' \in BOOLEAN
      BY <1>1, <1>4 DEF TypeOK, PollTick
    <3> QED BY <1>1, <1>4, <3>1, <3>2 DEF TypeOK, PollTick, dbVars
  <2>6. /\ UNCHANGED <<table, project, rows, lastId, domains, visible, choice, crossed>>
        /\ load' = load /\ poll'.found = found
    BY <1>4, <2>3 DEF PollTick, dbVars
  <2> QED BY <2>4, <2>5, <2>6, QuietStep DEF IInv
<1> QED BY <1>2, <1>3, <1>4

\* A row is selected and its details come; a project is asked for and refused.
LEMMA AsideSteps ==
  ASSUME IInv, EntryShown \/ ProjectRefused \/ AskProject \/ \E i \in Id : SelectRow(i)
  PROVE  IInv'
<1>1. TypeOK
  BY DEF IInv
<1>2. CASE EntryShown
  <2>1. TypeOK'
    <3>1. load.id \in Id
      BY <1>1, <1>2 DEF TypeOK, EntryShown, NoTask
    <3>2. selected' \in [row : Id \cup {None}, detail : Id \cup {None}]
      BY <1>1, <1>2, <3>1 DEF TypeOK, EntryShown
    <3> QED BY <1>1, <1>2, <3>2 DEF TypeOK, EntryShown, dbVars, auxVars
  <2>2. /\ UNCHANGED <<table, project, rows, lastId, domains, visible, choice, crossed>>
        /\ load'.at \notin {"asked", "read"} /\ poll' = poll
    BY <1>2 DEF EntryShown, dbVars, auxVars, NoTask
  <2> QED BY <2>1, <2>2, QuietStep DEF IInv
<1>3. CASE ProjectRefused \/ AskProject
  <2>1. TypeOK'
    BY <1>1, <1>3 DEF TypeOK, ProjectRefused, AskProject, dbVars, viewVars, auxVars
  <2>2. /\ UNCHANGED <<table, project, rows, lastId, domains, visible, choice, crossed>>
        /\ load' = load /\ poll' = poll
    BY <1>3 DEF ProjectRefused, AskProject, dbVars, viewVars, auxVars
  <2> QED BY <2>1, <2>2, QuietStep DEF IInv
<1>4. ASSUME NEW i \in Id, SelectRow(i) PROVE IInv'
  <2>1. rows[i] \in Id
    <3>1. /\ rows \in Seq(Id) /\ DOMAIN rows = 1..Len(rows)
      BY <1>1, IdSeqIs DEF TypeOK
    <3>2. visible = Reverse(InOrder({k \in DOMAIN rows : Matches(rows[k], choice)}))
      BY DEF IInv, ViewAddsUp, Filtered
    <3> DEFINE I == {k \in DOMAIN rows : Matches(rows[k], choice)}
    <3>3. I \in SUBSET (1..Len(rows)) /\ Len(rows) \in Nat
      BY <3>1
    <3> HIDE DEF I
    <3>4. ToSet(InOrder(I)) = I /\ InOrder(I) \in Seq(I)
      BY <3>3, InOrderIs
    <3>5. ToSet(visible) \subseteq ToSet(InOrder(I))
      <4> DEFINE at == InOrder(I)
      <4>1. visible = Reverse(at)
        BY <3>2 DEF I
      <4>2. Len(at) \in Nat /\ DOMAIN at = 1..Len(at)
        BY <3>4
      <4> HIDE DEF at
      <4>3. DOMAIN visible = 1..Len(at)
        BY <4>1, <4>2 DEF Reverse
      <4>4. \A k \in 1..Len(at) : visible[k] = at[(Len(at) - k) + 1] /\ (Len(at) - k) + 1 \in 1..Len(at)
        BY <4>1, <4>2 DEF Reverse
      <4> QED BY <4>2, <4>3, <4>4 DEF ToSet, at
    <3>6. i \in DOMAIN rows
      BY <1>4, <3>3, <3>4, <3>5, <3>1 DEF SelectRow
    <3> QED BY <3>1, <3>6
  <2>2. TypeOK'
    BY <1>1, <1>4, <2>1 DEF TypeOK, SelectRow, dbVars, auxVars
  <2>3. /\ UNCHANGED <<table, project, rows, lastId, domains, visible, choice, crossed>>
        /\ load'.at \notin {"asked", "read"} /\ poll' = poll
    BY <1>4 DEF SelectRow, dbVars, auxVars
  <2> QED BY <2>2, <2>3, QuietStep DEF IInv
<1> QED BY <1>2, <1>3, <1>4


-----------------------------------------------------------------------------
(* Steps that change the list, or the table *)

\* A row is inserted.  It comes after all rows any list or answer has.
LEMMA InsertStep ==
  ASSUME IInv, NEW p \in Project, Insert(p)
  PROVE  IInv'
<1> DEFINE n == Len(table) + 1
<1>1. /\ UNCHANGED <<projects, writers, sheet, project, rows, lastId, domains, visible, choice,
                     selected, active, poll, load, creating, crossed, behind>>
      /\ Len(table) < MaxRows
  BY DEF Insert, viewVars, auxVars
<1>2. PICK s \in Shapes : table' = Append(table, [project |-> p, shape |-> s])
  BY DEF Insert
<1>3. table \in Seq([project : Project, shape : Shapes]) /\ TypeOK
  BY DEF IInv, TypeOK
<1>4. /\ table' \in Seq([project : Project, shape : Shapes])
      /\ Len(table') = n /\ Len(table) \in Nat /\ DOMAIN table = 1..Len(table)
      /\ DOMAIN table' = 1..n
      /\ \A i \in DOMAIN table : i \in DOMAIN table' /\ table'[i] = table[i] /\ i < n
  BY <1>2, <1>3
<1>5. TypeOK'
  BY <1>1, <1>3, <1>4, Limits DEF TypeOK
<1>6. Mine \subseteq Mine' /\ \A i \in Mine' : i \in Mine \/ i = n
  <2>1. \A i \in DOMAIN table' : i \in DOMAIN table \/ i = n
    BY <1>4
  <2> QED BY <2>1, <1>1, <1>4 DEF Mine
<1>7. Small' => Small
  <2>1. IsFiniteSet(Mine') /\ Cardinality(Mine') \in Nat
    BY <1>4, BoundedIsFinite DEF Mine
  <2>2. Cardinality(Mine) <= Cardinality(Mine') /\ Cardinality(Mine) \in Nat
    BY <2>1, <1>6, FS_Subset, FS_CardinalityType
  <2> QED BY <2>1, <2>2, <1>1, Limits DEF Small
<1>8. ASSUME NEW seq, ToSet(seq) \subseteq DOMAIN table, Closes(seq)
      PROVE  \A i \in Mine', j \in ToSet(seq) : i > lastId /\ i <= j => i \in ToSet(seq)
  <2>1. \A j \in ToSet(seq) : j < n
    BY <1>4, <1>8
  <2>2. \A j \in ToSet(seq) : j \in Nat
    BY <1>4, <1>8
  <2> QED BY <2>1, <2>2, <1>4, <1>6, <1>8 DEF Closes
<1>9. Mine \subseteq DOMAIN table
  BY DEF Mine
<1>10. ListedOnce'
  BY <1>1 DEF IInv, ListedOnce
<1>11. ViewAddsUp'
  <2>1. \A k \in DOMAIN rows : rows[k] \in DOMAIN table
    BY DEF IInv, KeptRows, ToSet
  <2>2. \A k \in DOMAIN rows : table'[rows[k]] = table[rows[k]]
    BY <2>1, <1>4
  <2>3. \A h \in Hosts : OnHost(rows, h)' = OnHost(rows, h)
    BY <2>2, <1>1 DEF OnHost
  <2>4. \A k \in DOMAIN rows : Matches(rows[k], choice)' <=> Matches(rows[k], choice)
    BY <2>2, <1>1 DEF Matches
  <2>5. Filtered(rows, choice)' = Filtered(rows, choice)
    <3>1. {k \in DOMAIN rows : Matches(rows[k], choice)}'
             = {k \in DOMAIN rows : Matches(rows[k], choice)}
      BY <2>4, <1>1
    <3> QED BY <3>1 DEF Filtered
  <2> QED BY <2>3, <2>5, <1>1 DEF IInv, ViewAddsUp, Hosts
<1>12. KeptRows'
  BY <1>1, <1>4, <1>6 DEF IInv, KeptRows
<1>13. Owned'
  BY <1>1, <1>6, <1>8, <1>9 DEF IInv, Owned, Closes
<1>14. NoHole'
  <2>1. SUFFICES ASSUME Small' PROVE Reaches' /\ (load'.at = "read" => Closes(load.found)')
    BY DEF NoHole
  <2>2. Reaches /\ (load.at = "read" => Closes(load.found))
    BY <2>1, <1>7 DEF IInv, NoHole
  <2>3. Reaches'
    <3>1. lastId < n /\ lastId \in Nat
      BY ListEnds, <1>4 DEF IInv, KeptRows, None
    <3> QED BY <3>1, <2>2, <1>1, <1>4, <1>6 DEF Reaches
  <2>4. load'.at = "read" => Closes(load.found)'
    BY <2>2, <1>1, <1>8, <1>9 DEF IInv, KeptRows, Closes
  <2> QED BY <2>3, <2>4
<1> QED BY <1>5, <1>10, <1>11, <1>12, <1>13, <1>14 DEF IInv

\* What is shown of a list are places of it.
LEMMA ShownIs ==
  ASSUME NEW seq \in IdSeq, NEW c
  PROVE  Filtered(seq, c) \in Seq(1..MaxRows)
<1> DEFINE I == {k \in DOMAIN seq : Matches(seq[k], c)}
           at == InOrder(I)
<1>1. Len(seq) \in Nat /\ Len(seq) <= MaxRows /\ DOMAIN seq = 1..Len(seq)
  BY Limits DEF IdSeq
<1>2. I \in SUBSET (1..MaxRows)
  BY <1>1, Limits
<1>3. Filtered(seq, c) = Reverse(at)
  BY DEF Filtered
<1> HIDE DEF I
<1>4. at \in Seq(I)
  BY <1>2, Limits, InOrderIs
<1> HIDE DEF at
<1>5. /\ Len(at) \in Nat
      /\ \A k \in 1..Len(at) : at[k] \in 1..MaxRows /\ (Len(at) - k) + 1 \in 1..Len(at)
  <2>1. Len(at) \in Nat /\ \A k \in 1..Len(at) : at[k] \in I
    BY <1>4
  <2>2. \A k \in 1..Len(at) : (Len(at) - k) + 1 \in 1..Len(at)
    BY <2>1
  <2>3. \A k \in 1..Len(at) : at[k] \in 1..MaxRows
    BY <2>1, <1>2
  <2> QED BY <2>1, <2>2, <2>3
<1>6. Reverse(at) \in [1..Len(at) -> 1..MaxRows]
  BY <1>5 DEF Reverse
<1>7. Reverse(at) \in Seq(1..MaxRows)
  <2>1. PICK n \in Nat : n = Len(at)
    BY <1>5
  <2>2. PICK out : out = Reverse(at)
    OBVIOUS
  <2>3. out \in [1..n -> 1..MaxRows]
    BY <2>1, <2>2, <1>6
  <2> QED BY <2>2, <2>3, Limits
<1> QED BY <1>3, <1>7

\* An answer is shown.
LEMMA ShownSteps ==
  ASSUME IInv, HistoryShown \/ PollShown
  PROVE  IInv'
<1>1. /\ TypeOK /\ ListedOnce /\ ViewAddsUp
      /\ UNCHANGED <<table, projects, writers, sheet, project, choice, selected, active, creating,
                     crossed, behind>>
  BY DEF IInv, HistoryShown, PollShown, dbVars, auxVars
<1>2. /\ Mine' = Mine /\ Mine \subseteq DOMAIN table /\ Small' = Small
  BY <1>1 DEF Mine, Small
<1>3. ASSUME NEW found \in IdSeq, Push(found), ToSet(found) \subseteq DOMAIN table,
             ~crossed => ToSet(found) \subseteq Mine,
             Small => Closes(found),
             poll' = poll \/ poll'.at # "asked", load' = load \/ load' = NoTask,
             poll' \in {NoTask, [at |-> "timer"]} \/ poll' = poll
      PROVE  IInv'
  <2>1. /\ rows' \in IdSeq /\ lastId' \in Id \cup {None} /\ domains' \in [Hosts -> 0..MaxRows]
        /\ visible' = Filtered(rows', choice) \/ visible' = visible
        /\ ListedOnce' /\ ViewAddsUp'
        /\ \A x : x \in ToSet(rows') <=> x \in ToSet(rows) \/ (x \in ToSet(found) /\ x > lastId)
        /\ lastId' = lastId \/ lastId' \in ToSet(found)
        /\ \A x \in ToSet(found) : x <= lastId'
        /\ lastId' >= lastId
    BY <1>1, <1>3, PushIs
  <2>2. visible' \in Seq(1..MaxRows)
    <3>1. Filtered(rows', choice) \in Seq(1..MaxRows)
      BY <2>1, ShownIs
    <3> QED BY <3>1, <2>1, <1>1 DEF TypeOK
  <2>3. TypeOK'
    <3>1. /\ poll' \in {NoTask, [at |-> "timer"]}
                \cup [at : {"asked"}, of : Project, done : BOOLEAN, failed : BOOLEAN, found : IdSeq]
          /\ load' \in {NoTask} \cup [at : {"asked"}, of : Project]
                \cup [at : {"read"}, found : IdSeq] \cup [at : {"entry"}, id : Id]
      BY <1>1, <1>3 DEF TypeOK
    <3> QED BY <1>1, <2>1, <2>2, <3>1 DEF TypeOK
  <2>4. lastId \in Nat /\ lastId' \in Nat /\ \A i \in Mine : i \in Nat
    BY <1>1, <2>1, Limits DEF TypeOK, Id, None, Mine
  <2>5. ASSUME NEW seq, Closes(seq) PROVE Closes(seq)'
    BY <2>1, <2>4, <2>5, <1>2 DEF Closes
  <2>6. load' = load \/ load'.at = "none"
    BY <1>3 DEF NoTask
  <2>7. KeptRows'
    BY <2>1, <2>6, <1>1, <1>2, <1>3 DEF IInv, KeptRows
  <2>8. Owned'
    <3>1. SUFFICES ASSUME ~crossed
                   PROVE  /\ ToSet(rows') \subseteq Mine
                          /\ poll'.at = "asked" => ToSet(poll'.found) \subseteq Mine /\ Closes(poll.found)'
      BY <1>1, <1>2, <1>3 DEF Owned, Closes
    <3>2. ToSet(rows') \subseteq Mine
      BY <3>1, <2>1, <1>3 DEF IInv, Owned
    <3>3. CASE poll' = poll
      BY <3>1, <3>2, <3>3, <2>5 DEF IInv, Owned
    <3>4. CASE poll'.at # "asked"
      BY <3>2, <3>4
    <3> QED BY <3>3, <3>4, <1>3
  <2>9. NoHole'
    <3>1. SUFFICES ASSUME Small PROVE Reaches' /\ (load'.at = "read" => Closes(load.found)')
      BY <1>2 DEF NoHole
    <3>2. Reaches
      BY <3>1 DEF IInv, NoHole
    <3>3. ASSUME NEW i \in Mine, i <= lastId' PROVE i \in ToSet(rows')
      <4>1. CASE i <= lastId
        BY <4>1, <3>2, <2>1 DEF Reaches
      <4>2. CASE i > lastId
        <5>1. lastId' \in ToSet(found)
          BY <4>2, <3>3, <2>1, <2>4
        <5>2. i \in ToSet(found)
          BY <5>1, <4>2, <3>1, <3>3, <1>3 DEF Closes
        <5> QED BY <5>2, <4>2, <2>1
      <4> QED BY <4>1, <4>2, <2>4
    <3>4. Reaches'
      BY <3>3, <1>2 DEF Reaches
    <3>5. load'.at = "read" => Closes(load.found)'
      <4>1. SUFFICES ASSUME load'.at = "read" PROVE Closes(load.found)'
        OBVIOUS
      <4>2. load' = load
        BY <4>1, <2>6
      <4>3. Closes(load.found)
        BY <4>1, <4>2, <3>1 DEF IInv, NoHole
      <4> QED BY <4>2, <4>3, <2>1, <2>4, <1>2 DEF Closes
    <3> QED BY <3>4, <3>5
  <2> QED BY <2>1, <2>3, <2>7, <2>8, <2>9 DEF IInv
<1>4. CASE HistoryShown
  <2>1. load.at = "read" /\ Push(load.found) /\ load' = NoTask /\ poll' = poll
    BY <1>4 DEF HistoryShown
  <2>2. load.found \in IdSeq
    BY <1>1, <2>1 DEF TypeOK, NoTask
  <2>3. ToSet(load.found) \subseteq Mine /\ (Small => Closes(load.found))
    BY <2>1 DEF IInv, KeptRows, NoHole
  <2> QED BY <2>1, <2>2, <2>3, <1>2, <1>3
<1>5. CASE PollShown
  <2>1. /\ poll.at = "asked" /\ load' = load /\ poll' \in {NoTask, [at |-> "timer"]}
        /\ poll'.at # "asked"
    BY <1>5 DEF PollShown, NoTask
  <2>2. poll.found \in IdSeq
    BY <1>1, <2>1 DEF TypeOK, NoTask
  <2>3. CASE ~poll.failed
    <3>1. Push(poll.found)
      BY <1>5, <2>3 DEF PollShown
    <3>2. /\ ToSet(poll.found) \subseteq DOMAIN table
          /\ ~crossed => ToSet(poll.found) \subseteq Mine /\ Closes(poll.found)
      BY <2>1 DEF IInv, KeptRows, Owned
    <3> QED BY <3>1, <3>2, <2>1, <2>2, <1>3 DEF Small
  <2>4. CASE poll.failed
    <3>1. UNCHANGED <<rows, lastId, domains, visible>>
      BY <1>5, <2>4 DEF PollShown
    <3>2. TypeOK'
      BY <1>1, <2>1, <3>1 DEF TypeOK
    <3> QED BY <1>1, <2>1, <3>1, <3>2, QuietStep DEF IInv
  <2> QED BY <2>3, <2>4
<1> QED BY <1>4, <1>5


\* Nothing is in order as it is.
LEMMA NothingInOrder == InOrder({}) = <<>>
<1>1. {} \in SUBSET (1..0) /\ 0 \in Nat /\ Cardinality({}) = 0
  BY FS_EmptySet
<1>2. InOrder({}) \in [1..0 -> {}]
  BY <1>1, InOrderIs
<1> QED BY <1>2

\* The panel goes to another project.
LEMMA SwitchStep ==
  ASSUME IInv, NEW p \in Project, Switch(p), UNCHANGED <<table, poll>>,
         projects' \in Project, UNCHANGED <<writers, sheet, active, behind>>, creating' \in BOOLEAN
  PROVE  IInv'
<1>1. /\ TypeOK /\ project' = p /\ rows' = <<>> /\ visible' = <<>> /\ lastId' = None
      /\ domains' = [h \in Hosts |-> 0] /\ choice' = AllHosts(choice)
      /\ selected' = [row |-> None, detail |-> None]
      /\ load' = [at |-> "asked", of |-> p] /\ crossed' = (poll.at = "asked")
  BY DEF IInv, Switch
<1>2. ListedOnce' /\ ViewAddsUp' /\ ToSet(rows') = {}
  <2>1. ToSet(<<>>) = {} /\ Ascending(<<>>)
    BY DEF ToSet, Ascending
  <2>2. \A h \in Hosts : OnHost(rows, h)' = 0
    <3>1. ASSUME NEW h PROVE OnHost(rows, h)' = 0
      <4>1. {i \in DOMAIN rows' : table'[rows'[i]].shape.host = h} = {}
        BY <1>1
      <4> QED BY <4>1, FS_EmptySet DEF OnHost
    <3> QED BY <3>1
  <2>3. Filtered(rows, choice)' = <<>>
    <3>1. {i \in DOMAIN rows : Matches(rows[i], choice)}' = {}
      BY <1>1
    <3>2. Reverse(<<>>) = <<>>
      BY DEF Reverse
    <3>3. Filtered(rows, choice)' = Reverse(InOrder({}))
      BY <3>1 DEF Filtered
    <3> QED BY <3>2, <3>3, NothingInOrder
  <2> QED BY <2>1, <2>2, <2>3, <1>1 DEF ListedOnce, ViewAddsUp, Hosts
<1>3. TypeOK'
  <2>1. rows' \in IdSeq /\ domains' \in [Hosts -> 0..MaxRows] /\ visible' \in Seq(1..MaxRows)
    <3>1. <<>> \in Seq(Id) /\ Ascending(<<>>)
      BY DEF Ascending
    <3>2. rows' \in IdSeq
      BY <1>1, <3>1, IdSeqIs
    <3> QED BY <1>1, <3>2, Limits
  <2>2. choice' \in Views \cup {Everything} \cup {AllHosts(v) : v \in Views}
    <3>1. AllHosts(Everything) = Everything
      BY DEF AllHosts, Everything
    <3>2. \A v : AllHosts(AllHosts(v)) = AllHosts(v)
      BY DEF AllHosts
    <3> QED BY <1>1, <3>1, <3>2 DEF TypeOK
  <2>3. /\ selected' \in [row : Id \cup {None}, detail : Id \cup {None}]
        /\ load' \in [at : {"asked"}, of : Project]
        /\ crossed' \in BOOLEAN
    BY <1>1
  <2> QED BY <1>1, <2>1, <2>2, <2>3 DEF TypeOK
<1>4. KeptRows' /\ Owned' /\ NoHole'
  <2>1. Reaches'
    <3>1. \A i \in Mine' : i \in Nat /\ i >= 1
      BY <1>1 DEF TypeOK, Mine
    <3> QED BY <3>1, <1>1 DEF Reaches, None
  <2>2. poll'.at = "asked" => crossed'
    BY <1>1
  <2> QED BY <1>1, <1>2, <2>1, <2>2 DEF IInv, KeptRows, Owned, NoHole
<1> QED BY <1>2, <1>3, <1>4 DEF IInv


\* The user chooses what to see, or another project, or makes one.
LEMMA PanelSteps ==
  ASSUME IInv,
         \/ \E c \in Views \cup {Everything} : Choose(c)
         \/ \E p \in Project : SwitchProject(p) \/ ProjectCreated(p)
  PROVE  IInv'
<1>1. TypeOK
  BY DEF IInv
<1>2. ASSUME NEW c \in Views \cup {Everything}, Choose(c) PROVE IInv'
  <2>1. /\ UNCHANGED <<table, projects, writers, sheet, project, rows, lastId, domains, selected,
                       active, poll, load, creating, crossed, behind>>
        /\ choice' = c /\ visible' = Filtered(rows, c)
    BY <1>2 DEF Choose, dbVars, auxVars
  <2>2. TypeOK'
    <3>1. visible' \in Seq(1..MaxRows)
      BY <1>1, <2>1, ShownIs DEF TypeOK
    <3> QED BY <1>1, <2>1, <3>1 DEF TypeOK
  <2>3. ListedOnce' /\ ViewAddsUp'
    <3>1. Filtered(rows, choice)' = Filtered(rows, c)
      BY <2>1 DEF Filtered, Matches
    <3>2. \A h \in Hosts : OnHost(rows, h)' = OnHost(rows, h)
      BY <2>1 DEF OnHost
    <3> QED BY <2>1, <3>1, <3>2 DEF IInv, ListedOnce, ViewAddsUp, Hosts
  <2>4. KeptRows' /\ Owned' /\ NoHole'
    <3>1. Mine' = Mine /\ Closes(poll.found)' = Closes(poll.found)
          /\ Closes(load.found)' = Closes(load.found)
      BY <2>1 DEF Mine, Closes
    <3> QED BY <2>1, <3>1 DEF IInv, KeptRows, Owned, NoHole, Small, Reaches
  <2> QED BY <2>2, <2>3, <2>4 DEF IInv
<1>3. ASSUME NEW p \in Project, SwitchProject(p) PROVE IInv'
  <2>1. /\ Switch(p) /\ UNCHANGED <<table, projects, writers, sheet, active, poll, creating, behind>>
    BY <1>3 DEF SwitchProject, dbVars
  <2> QED BY <1>1, <2>1, SwitchStep DEF TypeOK
<1>4. ASSUME NEW p \in Project, ProjectCreated(p) PROVE IInv'
  <2>1. /\ UNCHANGED <<table, writers, sheet, active, poll, behind>>
        /\ creating' = FALSE
        /\ projects' = IF p > projects THEN p ELSE projects
    BY <1>4 DEF ProjectCreated
  <2>2. projects' \in Project /\ creating' \in BOOLEAN
    BY <1>1, <2>1 DEF TypeOK
  <2>3. CASE p = project \/ Recording
    <3>1. UNCHANGED <<project, rows, lastId, domains, visible, choice, selected, load, crossed>>
      BY <1>4, <2>3 DEF ProjectCreated
    <3>2. TypeOK'
      BY <1>1, <2>1, <2>2, <3>1 DEF TypeOK
    <3> QED BY <2>1, <3>1, <3>2, QuietStep DEF IInv
  <2>4. CASE ~(p = project \/ Recording)
    <3>1. Switch(p)
      BY <1>4, <2>4 DEF ProjectCreated
    <3> QED BY <2>1, <2>2, <3>1, SwitchStep
  <2> QED BY <2>3, <2>4
<1> QED BY <1>2, <1>3, <1>4

-----------------------------------------------------------------------------
(* The theorems *)

LEMMA InitInv == Init => IInv
<1> SUFFICES ASSUME Init PROVE IInv
  OBVIOUS
<1>1. ToSet(<<>>) = {} /\ Ascending(<<>>) /\ <<>> \in IdSeq
  <2>1. <<>> \in Seq(Id) /\ Ascending(<<>>)
    BY DEF Ascending
  <2>2. ToSet(<<>>) = {}
    BY DEF ToSet
  <2> QED BY <2>1, <2>2, IdSeqIs
<1>2. TypeOK
  <2>1. 1 \in Project
    BY LimitsAssumption DEF Project
  <2>2. sheet \in [state : {"Idle", "Recording", "Stopping", "Ended"}, project : Project \cup {None}]
    BY DEF Init
  <2>3. load \in [at : {"asked"}, of : Project]
    BY <2>1 DEF Init
  <2>4. selected \in [row : Id \cup {None}, detail : Id \cup {None}]
    BY DEF Init
  <2>5. domains \in [Hosts -> 0..MaxRows]
    BY Limits DEF Init
  <2>6. /\ table \in Seq([project : Project, shape : Shapes]) /\ Len(table) <= MaxRows
        /\ rows \in IdSeq /\ visible \in Seq(1..MaxRows)
    BY <1>1, Limits DEF Init
  <2>7. /\ projects \in Project /\ writers \subseteq Project /\ project \in Project
        /\ lastId \in Id \cup {None}
        /\ choice \in Views \cup {Everything} \cup {AllHosts(v) : v \in Views}
        /\ poll = NoTask
    BY <2>1 DEF Init
  <2>8. active \in BOOLEAN /\ creating \in BOOLEAN /\ crossed \in BOOLEAN /\ behind \in BOOLEAN
    BY DEF Init
  <2> QED BY <2>2, <2>3, <2>4, <2>5, <2>6, <2>7, <2>8 DEF TypeOK
<1>3. ListedOnce /\ ViewAddsUp
  <2>1. \A h : OnHost(rows, h) = 0
    <3>1. ASSUME NEW h PROVE OnHost(rows, h) = 0
      <4>1. {i \in DOMAIN rows : table[rows[i]].shape.host = h} = {}
        BY DEF Init
      <4> QED BY <4>1, FS_EmptySet DEF OnHost
    <3> QED BY <3>1
  <2>2. Filtered(rows, choice) = <<>>
    <3>1. {i \in DOMAIN rows : Matches(rows[i], choice)} = {}
      BY DEF Init
    <3>2. Reverse(<<>>) = <<>>
      BY DEF Reverse
    <3> QED BY <3>1, <3>2, NothingInOrder DEF Filtered
  <2> QED BY <1>1, <2>1, <2>2 DEF Init, ListedOnce, ViewAddsUp
<1>4. KeptRows /\ Owned /\ NoHole
  <2>1. Mine = {}
    BY DEF Init, Mine
  <2> QED BY <1>1, <2>1 DEF Init, NoTask, KeptRows, Owned, NoHole, Reaches
<1> QED BY <1>2, <1>3, <1>4 DEF IInv

LEMMA StepInv == IInv /\ [Next]_vars => IInv'
<1> SUFFICES ASSUME IInv, [Next]_vars PROVE IInv'
  OBVIOUS
<1>1. CASE UNCHANGED vars
  <2>1. UNCHANGED <<table, projects, writers, sheet, project, rows, lastId, domains, visible, choice,
                    selected, active, poll, load, creating, crossed, behind>>
    BY <1>1 DEF vars, dbVars, viewVars, auxVars
  <2>2. TypeOK'
    BY <2>1 DEF IInv, TypeOK
  <2> QED BY <2>1, <2>2, QuietStep DEF IInv
<1>2. CASE Recorder
  BY <1>2, InsertStep, RunSteps DEF Recorder
<1>3. CASE Panel
  BY <1>3, QuerySteps, ShownSteps, AsideSteps, PanelSteps DEF Panel
<1>4. CASE User
  BY <1>4, RunSteps, AsideSteps, PanelSteps DEF User
<1> QED BY <1>1, <1>2, <1>3, <1>4 DEF Next

\* A list in order that has all rows of the project up to its last one is how
\* the rows of the project begin.
LEMMA WholeIsPrefix == IInv => NoGaps
<1> SUFFICES ASSUME IInv, ~crossed, Len(Of(project, None)) <= HistoryLimit
             PROVE  IsPrefix(rows, Of(project, None))
  BY DEF NoGaps
<1> DEFINE all == Of(project, None)
<1>1. TypeOK /\ ListedOnce
  BY DEF IInv
<1>2. all \in Seq(Id) /\ Ascending(all) /\ ToSet(all) = Mine /\ Len(all) = Cardinality(Mine)
  <2>1. {i \in DOMAIN table : table[i].project = project /\ i > None} = Mine
    BY <1>1 DEF TypeOK, Mine, None
  <2>2. None \in Nat
    BY DEF None
  <2> QED BY <1>1, <2>1, <2>2, OfIs
<1>3. Cardinality(Mine) <= HistoryLimit
  BY <1>2
<1> HIDE DEF all
<1>4. Reaches /\ ToSet(rows) \subseteq Mine
  BY <1>3 DEF IInv, Owned, NoHole, Small
<1>5. rows \in Seq(Nat) /\ all \in Seq(Nat)
  <2>1. Id \subseteq Nat
    BY DEF Id
  <2>2. rows \in Seq(Id)
    BY <1>1, ListEnds
  <2>3. ASSUME NEW seq \in Seq(Id) PROVE seq \in Seq(Nat)
    <3>1. Len(seq) \in Nat /\ seq \in [1..Len(seq) -> Id]
      BY <2>3
    <3>2. seq \in [1..Len(seq) -> Nat]
      BY <2>1, <3>1
    <3> QED BY <3>1, <3>2
  <2> QED BY <1>2, <2>2, <2>3
<1>6. ASSUME NEW x \in ToSet(all), NEW y \in ToSet(rows), x <= y PROVE x \in ToSet(rows)
  <2>1. x \in Nat /\ y \in Nat /\ y <= lastId /\ lastId \in Nat
    BY <1>1, <1>2, <1>6, ListEnds, RowsAre
  <2> QED BY <2>1, <1>2, <1>4, <1>6 DEF Reaches
<1> QED BY <1>1, <1>2, <1>4, <1>5, <1>6, PrefixIs DEF ListedOnce, all

\* The list is made of two reads of one table, the history and the polls, that
\* overlap and answer in any order: together they show each row once, in order,
\* and leave none out (record_view.rs push, load_recent).
THEOREM ListCorrect == Spec => []ListIsComplete
<1>1. IInv => ListIsComplete
  BY WholeIsPrefix DEF IInv, ListIsComplete
<1> QED BY InitInv, StepInv, <1>1, PTL DEF Spec

\* The counts of the side bar and the rows shown agree with the rows and the
\* filter, after every switch, answer and choice (record_view.rs push, refilter,
\* switch_project).
THEOREM ViewCorrect == Spec => []ViewAddsUp
<1>1. IInv => ViewAddsUp
  BY DEF IInv
<1> QED BY InitInv, StepInv, <1>1, PTL DEF Spec


\* The panel shows rows of the project it names, unless a poll was under way when
\* it came there (record_view.rs switch_project leaves the poll running).
THEOREM RowsAreOwn == Spec => [](~crossed => RowsOfProject)
<1>1. IInv => (~crossed => RowsOfProject)
  BY DEF IInv, Owned, Mine, RowsOfProject, ToSet
<1> QED BY InitInv, StepInv, <1>1, PTL DEF Spec


=============================================================================
