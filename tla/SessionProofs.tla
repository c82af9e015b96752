--------------------------- MODULE SessionProofs ---------------------------
(***************************************************************************)
(* Proofs about Session, for any number of tabs, saved requests, edits and *)
(* failures.                                                               *)
(*                                                                         *)
(* What a restart shows is decided by files that are written one by one,   *)
(* in an order of their own, and any suffix of the writes may be lost.     *)
(* So the invariant speaks of the files once the first n writes of the     *)
(* queue are done: whatever n is, they hold data of the right kind and no  *)
(* two drafts are linked to one saved request (WriterFits, NoDoubleLinks). *)
(* Once all are done (Fate) they hold what the window shows: the saved     *)
(* requests (RequestsFit), the drafts but for what timers still hold back  *)
(* (DraftsFit), and the strip (StripFits).                                 *)
(*                                                                         *)
(* Every handler hands a list of operations to the queue.  EnqueuedMore    *)
(* shows that Enqueued is Enqueue, once for each.  EnqueuedTook says what  *)
(* the queue is then, Sent what becomes of the files; after that each      *)
(* handler needs only the newest operation of each path it wrote.          *)
(*                                                                         *)
(* The last part is about Editor, the tables of the request of one tab:    *)
(* Session reduces a request to the number of an edit, and rests on the    *)
(* mark of changes being right, which is proved there.                     *)
(***************************************************************************)
EXTENDS Session, Editor, FiniteSetTheorems, SequenceTheorems, WellFoundedInduction, TLAPS

-----------------------------------------------------------------------------
(* Numbers in order *)

\* The bounds are numbers.
LEMMA Bounds ==
  MaxTabs \in Nat \ {0} /\ MaxSaves \in Nat /\ MaxEdits \in Nat /\ MaxBacklog \in Nat /\ MaxFailures \in Nat
BY ConstantsAssumption

Below == {p \in Nat \X Nat : p[1] < p[2]}

\* The order of the natural numbers is well founded.
LEMMA BelowFounded == IsWellFoundedOn(Below, Nat)
BY NatLessThanWellFounded, Zenon DEF OpToRel, Below

\* A set of numbers that is not empty has a least one.
LEMMA Least ==
  ASSUME NEW S \in SUBSET Nat, S # {}
  PROVE  \E x \in S : \A y \in S : x <= y
<1>1. PICK x \in S : \A y \in S : ~(<<y, x>> \in Below)
  BY BelowFounded, WFMin
<1>2. ASSUME NEW y \in S PROVE x <= y
  <2>1. y < x => <<y, x>> \in Below
    BY DEF Below
  <2> QED BY <2>1, <1>1
<1> QED BY <1>2

\* If it is bounded, it has a greatest one.
LEMMA Greatest ==
  ASSUME NEW b \in Nat, NEW S \in SUBSET (1..b), S # {}
  PROVE  \E x \in S : \A y \in S : y <= x
<1> DEFINE T == {b - y : y \in S}
<1>1. T \subseteq Nat /\ T # {}
  <2>1. \A y \in S : y \in Nat /\ y <= b
    OBVIOUS
  <2>2. \A y \in S : b - y \in Nat
    BY <2>1
  <2> QED BY <2>2
<1>2. PICK t \in T : \A u \in T : t <= u
  <2> HIDE DEF T
  <2> QED BY <1>1, Least
<1>3. PICK x \in S : t = b - x
  BY <1>2
<1>4. ASSUME NEW y \in S PROVE y <= x
  <2>1. b - y \in T
    OBVIOUS
  <2> QED BY <2>1, <1>2, <1>3
<1> QED BY <1>4

\* A bounded set of numbers is finite, and so is each part of it.
LEMMA BoundedIsFinite ==
  ASSUME NEW b \in Nat, NEW S \in SUBSET (1..b)
  PROVE  IsFiniteSet(S) /\ Cardinality(S) \in Nat /\ Cardinality(S) <= b
<1>1. IsFiniteSet(1..b) /\ Cardinality(1..b) = b
  BY FS_Interval
<1> QED BY <1>1, FS_Subset, FS_CardinalityType

\* Its numbers can be put in order.
LEMMA OrderExists ==
  ASSUME NEW b \in Nat, NEW I \in SUBSET (1..b)
  PROVE  \E seq \in [1..Cardinality(I) -> I] : ToSet(seq) = I /\ Ascending(seq)
<1> DEFINE Ordered(J) == \E seq \in [1..Cardinality(J) -> J] : ToSet(seq) = J /\ Ascending(seq)
<1> DEFINE Bad == {n \in Nat : \E J \in SUBSET (1..b) : Cardinality(J) = n /\ ~Ordered(J)}
<1>1. SUFFICES ASSUME Bad # {} PROVE FALSE
  BY BoundedIsFinite
<1>2. PICK n \in Bad : \A m \in Bad : n <= m
  <2>1. Bad \subseteq Nat
    OBVIOUS
  <2> HIDE DEF Bad
  <2> QED BY <1>1, <2>1, Least
<1>3. PICK J \in SUBSET (1..b) : Cardinality(J) = n /\ ~Ordered(J)
  OBVIOUS
<1>4. IsFiniteSet(J) /\ n \in Nat
  BY <1>3, BoundedIsFinite
<1>5. J # {}
  <2>1. SUFFICES ASSUME J = {} PROVE Ordered(J)
    BY <1>3
  <2>2. Cardinality(J) = 0
    BY <2>1, FS_EmptySet
  <2>3. <<>> \in [1..0 -> J] /\ ToSet(<<>>) = {} /\ Ascending(<<>>)
    BY DEF ToSet, Ascending
  <2> QED BY <2>1, <2>2, <2>3
<1>6. PICK m \in J : \A y \in J : y <= m
  BY <1>5, Greatest
<1> DEFINE K == J \ {m}
<1>7. Cardinality(K) = n - 1 /\ K \in SUBSET (1..b) /\ n - 1 \in Nat
  <2>1. Cardinality(K) = n - 1
    BY <1>3, <1>4, <1>6, FS_RemoveElement
  <2>2. K \in SUBSET (1..b)
    BY <1>3
  <2> HIDE DEF K
  <2> QED BY <2>1, <2>2, BoundedIsFinite
<1>8. Ordered(K)
  <2>1. ~(n - 1 \in Bad)
    <3> HIDE DEF Bad
    <3> QED BY <1>2, <1>4, <1>7
  <2> HIDE DEF K, Ordered
  <2> QED BY <2>1, <1>7
<1>9. PICK seq \in [1..(n - 1) -> K] : ToSet(seq) = K /\ Ascending(seq)
  <2> HIDE DEF K
  <2> QED BY <1>7, <1>8
<1> DEFINE more == [k \in 1..n |-> IF k = n THEN m ELSE seq[k]]
<1>10. more \in [1..n -> J]
  BY <1>4, <1>6, <1>7, <1>9
<1>11. ToSet(more) = J
  <2>1. ASSUME NEW j \in J PROVE \E k \in 1..n : more[k] = j
    <3>1. CASE j = m
      BY <3>1, <1>4, <1>7
    <3>2. CASE j # m
      <4>1. j \in ToSet(seq)
        BY <3>2, <1>9
      <4>2. PICK k \in DOMAIN seq : seq[k] = j
        BY <4>1 DEF ToSet
      <4>3. k \in 1..(n - 1)
        BY <1>9
      <4> QED BY <4>2, <4>3, <1>4
    <3> QED BY <3>1, <3>2
  <2>2. DOMAIN more = 1..n
    OBVIOUS
  <2> HIDE DEF more
  <2> QED BY <2>1, <2>2, <1>10 DEF ToSet
<1>12. Ascending(more)
  <2>1. SUFFICES ASSUME NEW i \in 1..n, NEW j \in 1..n, i < j PROVE more[i] < more[j]
    BY DEF Ascending
  <2>2. i \in 1..(n - 1) /\ more[i] = seq[i]
    BY <2>1, <1>4
  <2>3. CASE j = n
    <3>1. seq[i] \in J /\ seq[i] # m
      BY <2>2, <1>9
    <3>2. more[j] = m
      BY <2>3
    <3>3. seq[i] <= m /\ seq[i] \in Nat /\ m \in Nat
      <4>1. J \subseteq Nat
        BY <1>3
      <4> HIDE DEF Bad, K, more
      <4> QED BY <4>1, <3>1, <1>6
    <3> HIDE DEF more
    <3> QED BY <3>1, <3>2, <3>3, <2>2
  <2>4. CASE j # n
    <3>1. j \in 1..(n - 1) /\ more[j] = seq[j]
      BY <2>1, <2>4, <1>4
    <3>2. seq[i] < seq[j]
      <4>1. DOMAIN seq = 1..(n - 1)
        BY <1>9
      <4> HIDE DEF more
      <4> QED BY <4>1, <3>1, <2>1, <2>2, <1>9 DEF Ascending
    <3> HIDE DEF more
    <3> QED BY <3>1, <3>2, <2>2
  <2> QED BY <2>3, <2>4
<1> QED
  <2> HIDE DEF more
  <2> QED BY <1>3, <1>10, <1>11, <1>12

\* InOrder puts the numbers of a set in order.
LEMMA InOrderIs ==
  ASSUME NEW b \in Nat, NEW I \in SUBSET (1..b), NEW seq, seq = InOrder(I)
  PROVE  /\ seq \in [1..Cardinality(I) -> I] /\ seq \in Seq(I) /\ Len(seq) = Cardinality(I)
         /\ Cardinality(I) \in Nat
         /\ ToSet(seq) = I /\ Ascending(seq)
<1>1. Cardinality(I) \in Nat
  BY BoundedIsFinite
<1>2. seq \in [1..Cardinality(I) -> I] /\ ToSet(seq) = I /\ Ascending(seq)
  BY OrderExists DEF InOrder
<1> QED BY <1>1, <1>2

\* What is picked from a sequence are its elements at those places, in order.
LEMMA PickedIs ==
  ASSUME NEW S, NEW seq \in Seq(S), NEW I \in SUBSET DOMAIN seq, NEW out, out = Picked(seq, I)
  PROVE  /\ out \in Seq(S)
         /\ ToSet(out) = {seq[k] : k \in I}
         /\ \A i, j \in DOMAIN out : i < j =>
              \E k, l \in I : k < l /\ out[i] = seq[k] /\ out[j] = seq[l]
<1>1. Len(seq) \in Nat /\ I \in SUBSET (1..Len(seq)) /\ DOMAIN seq = 1..Len(seq)
  OBVIOUS
<1> DEFINE at == InOrder(I)
<1>2. /\ at \in [1..Cardinality(I) -> I] /\ Cardinality(I) \in Nat
      /\ ToSet(at) = I /\ Ascending(at)
  BY <1>1, InOrderIs
<1>3. out = [k \in DOMAIN at |-> seq[at[k]]]
  BY DEF Picked
<1> HIDE DEF at
<1>4. out \in [1..Cardinality(I) -> S] /\ DOMAIN at = 1..Cardinality(I)
  BY <1>1, <1>2, <1>3
<1>5. ToSet(out) = {seq[k] : k \in I}
  BY <1>2, <1>3, <1>4 DEF ToSet
<1>6. ASSUME NEW i \in DOMAIN out, NEW j \in DOMAIN out, i < j
      PROVE  \E k, l \in I : k < l /\ out[i] = seq[k] /\ out[j] = seq[l]
  <2>1. at[i] < at[j] /\ at[i] \in I /\ at[j] \in I
    BY <1>2, <1>4, <1>6 DEF Ascending
  <2> QED BY <2>1, <1>3, <1>4
<1>7. out \in Seq(S)
  BY <1>2, <1>4
<1> QED BY <1>5, <1>6, <1>7

\* All numbers up to b in order are these numbers themselves.
LEMMA InOrderAll ==
  ASSUME NEW b \in Nat
  PROVE  InOrder(1..b) = [i \in 1..b |-> i]
<1> DEFINE s == InOrder(1..b)
           bad == {i \in 1..b : s[i] # i}
<1>1. Cardinality(1..b) = b
  BY FS_Interval
<1>2. s \in [1..b -> 1..b] /\ ToSet(s) = 1..b /\ Ascending(s)
  BY <1>1, InOrderIs
<1> HIDE DEF s
<1>3. ASSUME bad # {} PROVE FALSE
  <2>1. bad \in SUBSET Nat
    OBVIOUS
  <2>2. PICK i \in bad : \A y \in bad : i <= y
    <3> HIDE DEF bad
    <3> QED BY <1>3, <2>1, Least
  <2>3. i \in 1..b /\ s[i] # i /\ \A k \in 1..b : k < i => s[k] = k
    BY <2>2
  <2>4. PICK j \in 1..b : s[j] = i
    BY <1>2, <2>3 DEF ToSet
  <2>5. i < j /\ s[i] \in 1..b
    BY <2>3, <2>4, <1>2
  <2>6. s[i] < i
    BY <2>4, <2>5, <1>2, <2>3 DEF Ascending
  <2>7. s[s[i]] = s[i] /\ s[s[i]] < s[i]
    BY <2>3, <2>5, <2>6, <1>2 DEF Ascending
  <2> QED BY <2>5, <2>7
<1>4. \A i \in 1..b : s[i] = i
  BY <1>3
<1>5. s = [i \in 1..b |-> s[i]]
  BY <1>2
<1>6. s = [i \in 1..b |-> i]
  BY <1>4, <1>5
<1> QED BY <1>6 DEF s

\* There is only one way to put numbers in order.
LEMMA InOrderOnly ==
  ASSUME NEW b \in Nat, NEW I \in SUBSET (1..b),
         NEW n \in Nat, NEW s \in [1..n -> I], ToSet(s) = I, Ascending(s)
  PROVE  s = InOrder(I)
<1> DEFINE t == InOrder(I)
           c == Cardinality(I)
           bad == {i \in 1..n : i > c \/ s[i] # t[i]}
<1>1. t \in [1..c -> I] /\ ToSet(t) = I /\ Ascending(t) /\ c \in Nat
  BY InOrderIs
<1> HIDE DEF t, c
<1>2. I \subseteq Nat /\ DOMAIN s = 1..n /\ DOMAIN t = 1..c
  BY <1>1
<1>3. ASSUME bad # {} PROVE FALSE
  <2>1. bad \in SUBSET Nat
    OBVIOUS
  <2>2. PICK i \in bad : \A y \in bad : i <= y
    <3> HIDE DEF bad
    <3> QED BY <1>3, <2>1, Least
  <2>3. i \in 1..n /\ (i > c \/ s[i] # t[i]) /\ \A k \in 1..n : k < i => k <= c /\ s[k] = t[k]
    BY <2>2, <1>1
  <2>4. PICK j \in 1..c : t[j] = s[i]
    BY <1>1, <1>2, <2>3 DEF ToSet
  <2>5. s[i] \in Nat /\ \A k \in 1..n : s[k] \in Nat
    BY <1>2, <2>3
  <2>6. ~(j < i)
    <3>1. SUFFICES ASSUME j < i PROVE FALSE
      OBVIOUS
    <3>2. j \in 1..n /\ s[j] = t[j]
      BY <2>3, <2>4, <3>1
    <3>3. s[j] < s[i]
      BY <3>1, <3>2, <2>3, <1>2 DEF Ascending
    <3> QED BY <3>2, <3>3, <2>4, <2>5
  <2>7. i <= c /\ i < j
    BY <1>1, <2>3, <2>4, <2>6
  <2>8. t[i] < s[i] /\ t[i] \in I
    BY <2>3, <2>4, <2>7, <1>1, <1>2 DEF Ascending
  <2>9. PICK k \in 1..n : s[k] = t[i]
    BY <1>2, <2>8 DEF ToSet
  <2>10. k < i
    <3>1. SUFFICES ASSUME i <= k PROVE FALSE
      BY <2>3, <2>9
    <3>2. s[i] <= s[k]
      BY <3>1, <2>3, <2>5, <2>9, <1>2 DEF Ascending
    <3> QED BY <3>2, <2>5, <2>8, <2>9
  <2>11. k \in 1..c /\ t[k] = t[i]
    BY <2>3, <2>9, <2>10
  <2>12. t[k] < t[i] /\ t[i] \in Nat
    <3>1. i \in DOMAIN t /\ k \in DOMAIN t
      BY <1>1, <1>2, <2>3, <2>7, <2>11
    <3> QED BY <3>1, <1>1, <1>2, <2>8, <2>10 DEF Ascending
  <2> QED BY <2>11, <2>12
<1>4. \A i \in 1..n : i <= c /\ s[i] = t[i]
  BY <1>1, <1>3
<1>5. ~(n < c)
  <2>1. SUFFICES ASSUME n < c PROVE FALSE
    OBVIOUS
  <2>2. c \in 1..c /\ t[c] \in I
    BY <1>1, <2>1
  <2>3. PICK k \in 1..n : s[k] = t[c]
    BY <1>2, <2>2 DEF ToSet
  <2>4. k < c /\ t[k] = t[c] /\ k \in 1..c
    BY <1>1, <1>4, <2>1, <2>3
  <2>5. t[k] < t[c] /\ t[c] \in Nat
    BY <1>1, <1>2, <2>2, <2>4 DEF Ascending
  <2> QED BY <2>4, <2>5
<1>6. n = c
  <2>1. n <= c
    BY <1>1, <1>4
  <2> QED BY <2>1, <1>1, <1>5
<1>7. s = t
  BY <1>1, <1>4, <1>6
<1> QED BY <1>7 DEF t

\* What is picked from two sequences is the same when the places correspond in order.
LEMMA PickedSame ==
  ASSUME NEW b \in Nat, NEW I \in SUBSET (1..b), NEW seq,
         NEW c \in Nat, NEW J \in SUBSET (1..c), NEW other,
         NEW m \in [J -> I], \A i \in I : \E j \in J : m[j] = i,
         \A j, k \in J : j < k => m[j] < m[k],
         \A j \in J : other[j] = seq[m[j]]
  PROVE  Picked(other, J) = Picked(seq, I)
<1> DEFINE t == InOrder(J)
           n == Cardinality(J)
           s == [k \in 1..n |-> m[t[k]]]
<1>1. t \in [1..n -> J] /\ ToSet(t) = J /\ Ascending(t) /\ n \in Nat
  BY InOrderIs
<1>2. Picked(other, J) = [k \in DOMAIN t |-> other[t[k]]]
  BY DEF Picked
<1> HIDE DEF t, n
<1>3. s \in [1..n -> I] /\ DOMAIN s = 1..n /\ DOMAIN t = 1..n
  BY <1>1
<1>4. ToSet(s) = I
  <2>1. ASSUME NEW i \in I PROVE \E k \in 1..n : s[k] = i
    <3>1. PICK j \in J : m[j] = i
      OBVIOUS
    <3>2. PICK k \in 1..n : t[k] = j
      BY <1>1, <1>3 DEF ToSet
    <3> QED BY <3>1, <3>2
  <2> HIDE DEF s
  <2> QED BY <1>3, <2>1 DEF ToSet
<1>5. Ascending(s)
  <2>1. SUFFICES ASSUME NEW i \in 1..n, NEW j \in 1..n, i < j PROVE s[i] < s[j]
    BY <1>3 DEF Ascending
  <2>2. t[i] < t[j] /\ t[i] \in J /\ t[j] \in J
    BY <1>1, <1>3, <2>1 DEF Ascending
  <2> QED BY <2>1, <2>2
<1>6. \A k \in 1..n : seq[s[k]] = other[t[k]]
  BY <1>1
<1> HIDE DEF s
<1>7. s = InOrder(I)
  BY <1>1, <1>3, <1>4, <1>5, InOrderOnly
<1>8. Picked(seq, I) = [k \in 1..n |-> seq[s[k]]]
  BY <1>3, <1>7 DEF Picked
<1> QED BY <1>2, <1>3, <1>6, <1>8

\* A number that is greater comes last.
LEMMA InOrderMore ==
  ASSUME NEW b \in Nat, NEW I \in SUBSET (1..b)
  PROVE  InOrder(I \cup {b + 1}) = Append(InOrder(I), b + 1)
<1> DEFINE t == InOrder(I)
           n == Cardinality(I)
           J == I \cup {b + 1}
           s == Append(t, b + 1)
<1>1. t \in Seq(I) /\ Len(t) = n /\ n \in Nat /\ ToSet(t) = I /\ Ascending(t)
  BY InOrderIs
<1> HIDE DEF t, n
<1>2. /\ s \in Seq(J) /\ Len(s) = n + 1 /\ s[n + 1] = b + 1 /\ \A k \in 1..n : s[k] = t[k]
      /\ DOMAIN t = 1..n /\ \A k \in 1..n : t[k] \in I
  BY <1>1
<1> HIDE DEF s
<1>3. s \in [1..(n + 1) -> J] /\ DOMAIN s = 1..(n + 1)
  BY <1>1, <1>2
<1>4. ToSet(s) = J
  <2>1. ASSUME NEW i \in J PROVE \E k \in 1..(n + 1) : s[k] = i
    <3>1. CASE i = b + 1
      BY <3>1, <1>1, <1>2
    <3>2. CASE i \in I
      <4>1. PICK k \in 1..n : t[k] = i
        BY <3>2, <1>1, <1>2 DEF ToSet
      <4>2. k \in 1..(n + 1)
        BY <1>1
      <4> QED BY <4>1, <4>2, <1>2
    <3> QED BY <3>1, <3>2
  <2> QED BY <2>1, <1>3 DEF ToSet
<1>5. Ascending(s)
  <2>1. SUFFICES ASSUME NEW i \in 1..(n + 1), NEW j \in 1..(n + 1), i < j PROVE s[i] < s[j]
    BY <1>3 DEF Ascending
  <2>2. i \in 1..n /\ s[i] = t[i] /\ t[i] \in 1..b
    <3>1. i \in 1..n
      BY <2>1, <1>1
    <3> QED BY <3>1, <1>2
  <2>3. CASE j = n + 1
    BY <2>2, <2>3, <1>2
  <2>4. CASE j # n + 1
    <3>1. j \in 1..n /\ s[j] = t[j]
      BY <2>4, <1>1, <1>2
    <3> QED BY <3>1, <2>1, <2>2, <1>1, <1>2 DEF Ascending
  <2> QED BY <2>3, <2>4
<1>6. s = InOrder(J)
  <2>1. b + 1 \in Nat /\ n + 1 \in Nat /\ J \in SUBSET (1..(b + 1))
    BY <1>1
  <2> HIDE DEF J
  <2> QED BY <2>1, <1>3, <1>4, <1>5, InOrderOnly
<1> QED BY <1>6 DEF s, t

\* What is picked from a longer sequence.
LEMMA PickedMore ==
  ASSUME NEW S, NEW seq \in Seq(S), NEW e \in S, NEW I \in SUBSET DOMAIN seq
  PROVE  /\ Picked(Append(seq, e), I) = Picked(seq, I)
         /\ Picked(Append(seq, e), I \cup {Len(seq) + 1}) = Append(Picked(seq, I), e)
<1> DEFINE b == Len(seq)
           more == Append(seq, e)
           t == InOrder(I)
           n == Cardinality(I)
           u == InOrder(I \cup {b + 1})
<1>1. b \in Nat /\ DOMAIN seq = 1..b /\ I \in SUBSET (1..b)
  OBVIOUS
<1>2. more[b + 1] = e /\ \A k \in 1..b : more[k] = seq[k]
  BY <1>1
<1>3. t \in [1..n -> I] /\ t \in Seq(I) /\ Len(t) = n /\ n \in Nat
  BY <1>1, InOrderIs
<1>4. u = Append(t, b + 1)
  BY <1>1, InOrderMore
<1>5. /\ Picked(seq, I) = [k \in DOMAIN t |-> seq[t[k]]]
      /\ Picked(more, I) = [k \in DOMAIN t |-> more[t[k]]]
      /\ Picked(more, I \cup {b + 1}) = [k \in DOMAIN u |-> more[u[k]]]
  BY DEF Picked
<1> HIDE DEF t, n, u, b, more
<1>6. \A k \in DOMAIN t : t[k] \in 1..b
  BY <1>1, <1>3
<1>7. Picked(more, I) = Picked(seq, I)
  BY <1>2, <1>5, <1>6
<1>8. DOMAIN u = 1..(n + 1) /\ u[n + 1] = b + 1 /\ \A k \in 1..n : u[k] = t[k]
  BY <1>1, <1>3, <1>4
<1>9. Picked(more, I \cup {b + 1}) = Append(Picked(seq, I), e)
  <2> DEFINE p == [k \in 1..n |-> seq[t[k]]]
             r == [k \in 1..(n + 1) |-> more[u[k]]]
  <2>1. Picked(seq, I) = p /\ Picked(more, I \cup {b + 1}) = r
    BY <1>3, <1>5, <1>8
  <2>2. p \in Seq(S) /\ Len(p) = n
    <3>1. p \in [1..n -> S]
      BY <1>1, <1>3
    <3> HIDE DEF p
    <3> QED BY <3>1, <1>3
  <2>3. \A k \in 1..n : r[k] = p[k]
    <3>1. \A k \in 1..n : k \in 1..(n + 1) /\ u[k] = t[k] /\ t[k] \in 1..b
      BY <1>3, <1>6, <1>8
    <3> QED BY <3>1, <1>2
  <2>4. r[n + 1] = e
    BY <1>2, <1>3, <1>8
  <2>5. r = [k \in 1..(n + 1) |-> r[k]]
    OBVIOUS
  <2> HIDE DEF p, r
  <2> DEFINE a == Append(p, e)
  <2>6. /\ a = [k \in 1..(n + 1) |-> a[k]] /\ a[n + 1] = e
        /\ \A k \in 1..n : a[k] = p[k]
    <3>1. a \in Seq(S) /\ Len(a) = n + 1 /\ a[n + 1] = e /\ \A k \in 1..n : a[k] = p[k]
      BY <2>2, AppendProperties
    <3> HIDE DEF a
    <3> QED BY <3>1
  <2> HIDE DEF a
  <2>7. \A k \in 1..(n + 1) : k \in 1..n \/ k = n + 1
    BY <1>3
  <2>8. \A k \in 1..(n + 1) : r[k] = a[k]
    BY <2>3, <2>4, <2>6, <2>7
  <2>9. r = a
    BY <2>5, <2>6, <2>8
  <2> QED BY <2>1, <2>9 DEF a
<1> QED BY <1>7, <1>9 DEF more, b

-----------------------------------------------------------------------------
(* The inductive invariant *)

\* The files once the first n of the queued operations are performed.
After(q, d, n) ==
  [p \in Path |-> IF \E i \in 1..n : q[i].path = p
                  THEN q[CHOOSE i \in 1..n : q[i].path = p].file
                  ELSE d[p]]

\* The files once the writer is done.
Fate == After(queue, disk, Len(queue))

OnePerPath(q) == \A i, j \in DOMAIN q : q[i].path = q[j].path => i = j

\* The layouts that workspace.json may hold.
Strips == {l \in [order : Seq(TabId), active : TabId] : IsInjective(l.order)}

\* What may be handed to the writer.
Data      == Tab \cup Content \cup Strips
Operation == [path : Path, file : SUBSET Data]

\* What the files may hold when tc tabs and sc saved requests were made.
FilesFit(files, tc, sc) ==
  /\ \A t \in TabId : \/ files[DraftFile(t)] = {}
                      \/ t <= tc /\ \E v \in Tab : v.saved <= sc /\ files[DraftFile(t)] = {v}
  /\ \A x \in SavedId : \/ files[RequestFile(x)] = {}
                        \/ x <= sc /\ \E c \in Content : files[RequestFile(x)] = {c}
  /\ files[WorkspaceFile] = {} \/ \E l \in Strips : files[WorkspaceFile] = {l}

LinksTo(file, x) == \E v \in file : v.saved = x

\* Two drafts are never linked to one saved request.
OneDraftPerSaved(files) ==
  \A s, t \in TabId, x \in SavedId :
    LinksTo(files[DraftFile(s)], x) /\ LinksTo(files[DraftFile(t)], x) => s = t

HeldBy(d, t) == d = [kind |-> "save", id |-> t]

\* The window.
WindowFits ==
  /\ phase \in {"run", "quitting", "quit"}
  /\ tabs \in Seq(TabId) /\ tabs # <<>> /\ IsInjective(tabs)
  /\ \A i \in DOMAIN tabs : tabs[i] <= tabCount
  /\ active \in DOMAIN tabs
  /\ tab \in [TabId -> Tab] /\ \A t \in TabId : tab[t].saved <= saveCount
  /\ \A t \in TabId : t > tabCount => tab[t] = Blank
  /\ timer \in SUBSET TabId /\ timer \subseteq Alive(tabs, dialog)
  /\ saved \in [DOMAIN saved -> Content] /\ DOMAIN saved \subseteq SavedId
  /\ \A x \in DOMAIN saved : x <= saveCount
  /\ dialog \in Dialog
  /\ dialog.kind = "save" => dialog.id <= tabCount
  /\ dialog.kind = "delete" => dialog.id <= saveCount
  /\ ghosts \subseteq TabId
  /\ phase # "run" => timer \cap ToSet(tabs) = {}
  /\ phase = "quit" => queue = <<>>

Bounded ==
  /\ tabCount \in 1..MaxTabs /\ saveCount \in 0..MaxSaves /\ edits \in 0..MaxEdits
  /\ faults \in Nat /\ kills \in Nat /\ faults + kills <= MaxFailures

\* The writer: whichever part of the queue is lost, the files are as expected.
WriterFits ==
  /\ queue \in Seq(Operation) /\ OnePerPath(queue)
  /\ disk \in [Path -> SUBSET Data]
  /\ \A t \in TabId : t > tabCount => ~Queued(queue, DraftFile(t))
  /\ \A n \in 0..Len(queue) : FilesFit(After(queue, disk, n), tabCount, saveCount)

NoDoubleLinks == \A n \in 0..Len(queue) : OneDraftPerSaved(After(queue, disk, n))

\* The tabs of the window, and those that only the save dialog holds.
LinkedFits ==
  \A t \in TabId :
    /\ tab[t].saved # None => IsOpen(t) /\ tab[t].saved \in DOMAIN saved
    /\ HeldBy(dialog, t) => tab[t].saved = None /\ (IsOpen(t) \/ t \in ghosts)

\* What a restart makes of a draft.
Relinked(v, known) == IF v.saved # None /\ v.saved \notin known THEN Detached(v) ELSE v

RequestsFit ==
  \A x \in SavedId : Fate[RequestFile(x)] = IF x \in DOMAIN saved THEN {saved[x]} ELSE {}

DraftsFit ==
  \A t \in TabId :
    /\ IsOpen(t) => Fate[DraftFile(t)] # {}
    /\ Fate[DraftFile(t)] # {} => IsOpen(t) \/ t \in ghosts
    /\ \A v \in Fate[DraftFile(t)] :
         /\ IsOpen(t) => /\ Relinked(v, DOMAIN saved).saved = tab[t].saved
                         /\ t \in timer \/ Relinked(v, DOMAIN saved) = tab[t]
         /\ ~IsOpen(t) => v.saved = None

\* workspace.json is up to date, or the window is still as the start made it.
StripFits ==
  \/ Fate[WorkspaceFile] = {[order |-> tabs, active |-> tabs[active]]}
  \/ /\ \A t \in TabId : Fate[DraftFile(t)] # {} \/ t \in Alive(tabs, dialog) => IsOpen(t)
     /\ tabs = OrderedBy(Fate[WorkspaceFile], ToSet(tabs))
     /\ active = ActiveIn(Fate[WorkspaceFile], tabs)

Agrees(v, known) ==
  ~v.dirty => IF v.saved = None THEN v.content = 0
              ELSE v.saved \in DOMAIN known /\ v.content = known[v.saved]

CleanFits ==
  \A t \in TabId :
    /\ Agrees(tab[t], saved)
    /\ \A v \in Fate[DraftFile(t)] :
         Agrees(v, saved) /\ (v.saved # None => v.saved \in DOMAIN saved)

IInv ==
  /\ WindowFits /\ Bounded /\ WriterFits /\ LinkedFits
  /\ faults = 0 => NoDoubleLinks /\ RequestsFit /\ DraftsFit /\ StripFits
  /\ faults = 0 /\ kills = 0 => CleanFits

-----------------------------------------------------------------------------
(* The queue of the writer *)

\* Paths of different kinds differ.
LEMMA Paths ==
  /\ \A s, t : DraftFile(s) = DraftFile(t) <=> s = t
  /\ \A x, y : RequestFile(x) = RequestFile(y) <=> x = y
  /\ \A t, x : DraftFile(t) # RequestFile(x)
  /\ \A t : DraftFile(t) # WorkspaceFile
  /\ \A x : RequestFile(x) # WorkspaceFile
  /\ \A t \in TabId : DraftFile(t) \in Path
  /\ \A x \in SavedId : RequestFile(x) \in Path
  /\ WorkspaceFile \in Path
  /\ \A p \in Path : \/ \E t \in TabId : p = DraftFile(t)
                     \/ \E x \in SavedId : p = RequestFile(x)
                     \/ p = WorkspaceFile
BY DEF DraftFile, RequestFile, WorkspaceFile, Path

\* The newest operation on a path is the last one.
LEMMA NewestIs ==
  ASSUME NEW ops \in Seq(Operation), NEW p, Queued(ops, p)
  PROVE  \E i \in DOMAIN ops : /\ ops[i].path = p /\ Newest(ops, p) = ops[i]
                               /\ \A j \in DOMAIN ops : ops[j].path = p => j <= i
<1> DEFINE places == {i \in DOMAIN ops : ops[i].path = p}
<1>1. Len(ops) \in Nat /\ DOMAIN ops = 1..Len(ops)
  OBVIOUS
<1>2. places \in SUBSET (1..Len(ops)) /\ places # {}
  BY <1>1 DEF Queued
<1>3. \E i \in places : \A j \in places : j <= i
  <2> HIDE DEF places
  <2> QED BY <1>1, <1>2, Greatest
<1>4. Newest(ops, p) = ops[CHOOSE i \in places : \A j \in places : j <= i]
  BY DEF Newest
<1> QED BY <1>3, <1>4

\* If all operations on a path are the same, it is the newest.
LEMMA NewestOnly ==
  ASSUME NEW ops \in Seq(Operation), NEW p, Queued(ops, p), NEW op,
         \A i \in DOMAIN ops : ops[i].path = p => ops[i] = op
  PROVE  Newest(ops, p) = op
BY NewestIs

\* Of two sequences of operations the second has the last word.
LEMMA NewestConcat ==
  ASSUME NEW a \in Seq(Operation), NEW b \in Seq(Operation), NEW p
  PROVE  /\ a \o b \in Seq(Operation)
         /\ Queued(a \o b, p) <=> Queued(a, p) \/ Queued(b, p)
         /\ Queued(b, p) => Newest(a \o b, p) = Newest(b, p)
         /\ Queued(a, p) /\ ~Queued(b, p) => Newest(a \o b, p) = Newest(a, p)
<1> DEFINE c == a \o b
<1>1. /\ c \in Seq(Operation) /\ Len(c) = Len(a) + Len(b)
      /\ \A i \in 1..Len(a) + Len(b) : c[i] = IF i <= Len(a) THEN a[i] ELSE b[i - Len(a)]
  BY ConcatProperties, Zenon
<1> HIDE DEF c
<1>2. /\ Len(a) \in Nat /\ DOMAIN a = 1..Len(a) /\ Len(b) \in Nat /\ DOMAIN b = 1..Len(b)
      /\ DOMAIN c = 1..(Len(a) + Len(b))
  BY <1>1
<1>3. \A i \in DOMAIN a : i \in DOMAIN c /\ c[i] = a[i]
  BY <1>1, <1>2
<1>4. \A i \in DOMAIN b : Len(a) + i \in DOMAIN c /\ c[Len(a) + i] = b[i]
  <2>1. SUFFICES ASSUME NEW i \in 1..Len(b)
                 PROVE  Len(a) + i \in DOMAIN c /\ c[Len(a) + i] = b[i]
    BY <1>2
  <2>2. Len(a) + i \in 1..Len(a) + Len(b) /\ ~(Len(a) + i <= Len(a)) /\ (Len(a) + i) - Len(a) = i
    BY <1>2
  <2> QED BY <2>2, <1>1, <1>2
<1>5. \A k \in DOMAIN c : \/ k \in DOMAIN a /\ c[k] = a[k]
                          \/ k - Len(a) \in DOMAIN b /\ c[k] = b[k - Len(a)] /\ k = Len(a) + (k - Len(a))
  BY <1>1, <1>2
<1>6. Queued(c, p) <=> Queued(a, p) \/ Queued(b, p)
  BY <1>3, <1>4, <1>5 DEF Queued
<1>7. ASSUME Queued(b, p) PROVE Newest(c, p) = Newest(b, p)
  <2>1. PICK i \in DOMAIN b : /\ b[i].path = p /\ Newest(b, p) = b[i]
                              /\ \A j \in DOMAIN b : b[j].path = p => j <= i
    BY <1>7, NewestIs
  <2>2. PICK k \in DOMAIN c : /\ c[k].path = p /\ Newest(c, p) = c[k]
                              /\ \A j \in DOMAIN c : c[j].path = p => j <= k
    BY <1>1, <1>6, <1>7, NewestIs
  <2>3. Len(a) + i <= k
    BY <1>4, <2>1, <2>2
  <2>4. ~(k \in DOMAIN a)
    BY <2>3, <1>2
  <2>5. k - Len(a) \in DOMAIN b /\ c[k] = b[k - Len(a)] /\ k = Len(a) + (k - Len(a))
    BY <2>4, <1>5
  <2>6. k - Len(a) <= i
    BY <2>5, <2>1, <2>2
  <2>7. k - Len(a) = i
    BY <2>3, <2>5, <2>6, <1>2
  <2> QED BY <2>1, <2>2, <2>5, <2>7
<1>8. ASSUME Queued(a, p), ~Queued(b, p) PROVE Newest(c, p) = Newest(a, p)
  <2>1. PICK i \in DOMAIN a : /\ a[i].path = p /\ Newest(a, p) = a[i]
                              /\ \A j \in DOMAIN a : a[j].path = p => j <= i
    BY <1>8, NewestIs
  <2>2. PICK k \in DOMAIN c : /\ c[k].path = p /\ Newest(c, p) = c[k]
                              /\ \A j \in DOMAIN c : c[j].path = p => j <= k
    BY <1>1, <1>6, <1>8, NewestIs
  <2>3. k \in DOMAIN a /\ c[k] = a[k]
    BY <2>2, <1>5, <1>8 DEF Queued
  <2>4. i <= k /\ k <= i
    BY <2>1, <2>2, <2>3, <1>3
  <2> QED BY <2>1, <2>2, <2>3, <2>4, <1>2
<1> QED BY <1>1, <1>6, <1>7, <1>8 DEF c

\* One operation.
LEMMA NewestSingle ==
  ASSUME NEW op \in Operation, NEW p
  PROVE  /\ <<op>> \in Seq(Operation)
         /\ Queued(<<op>>, p) <=> p = op.path
         /\ p = op.path => Newest(<<op>>, p) = op
<1>1. <<op>> \in Seq(Operation) /\ DOMAIN <<op>> = {1} /\ <<op>>[1] = op
  OBVIOUS
<1>2. Queued(<<op>>, p) <=> p = op.path
  BY <1>1 DEF Queued
<1>3. ASSUME p = op.path PROVE Newest(<<op>>, p) = op
  <2>1. \A i \in DOMAIN <<op>> : <<op>>[i] = op
    <3>1. SUFFICES ASSUME NEW i \in {1} PROVE <<op>>[i] = op
      BY <1>1, Zenon
    <3>2. i = 1
      OBVIOUS
    <3> QED BY <3>2
  <2> DEFINE ops == <<op>>
  <2>2. ops \in Seq(Operation) /\ Queued(ops, p) /\ \A i \in DOMAIN ops : ops[i] = op
    BY <2>1, <1>1, <1>2, <1>3
  <2> HIDE DEF ops
  <2>3. PICK i \in DOMAIN ops : Newest(ops, p) = ops[i]
    BY <2>2, NewestIs
  <2>4. Newest(ops, p) = op
    BY <2>2, <2>3
  <2> QED BY <2>4 DEF ops
<1> QED BY <1>1, <1>2, <1>3

\* The queue q2 has taken the operations over, each path keeping its place.
Took(q, ops, q2) ==
  /\ q2 \in Seq(Operation) /\ OnePerPath(q2) /\ Len(q) <= Len(q2)
  /\ \A i \in DOMAIN q : q2[i].path = q[i].path
  /\ \A i \in DOMAIN q2 : IF Queued(ops, q2[i].path) THEN q2[i] = Newest(ops, q2[i].path)
                          ELSE i \in DOMAIN q /\ q2[i] = q[i]
  /\ \A p : Queued(ops, p) => Queued(q2, p)

\* Enqueue takes one operation over.
LEMMA EnqueueTook ==
  ASSUME NEW q \in Seq(Operation), OnePerPath(q), NEW op \in Operation, NEW q2, q2 = Enqueue(q, op)
  PROVE  Took(q, <<op>>, q2)
<1>1. Len(q) \in Nat /\ DOMAIN q = 1..Len(q) /\ \A i \in DOMAIN q : q[i] \in Operation
  OBVIOUS
<1>2. \A p : /\ Queued(<<op>>, p) <=> p = op.path
             /\ p = op.path => Newest(<<op>>, p) = op
  BY NewestSingle
<1>3. CASE Queued(q, op.path)
  <2>1. q2 = [i \in DOMAIN q |-> IF q[i].path = op.path THEN op ELSE q[i]]
    BY <1>3 DEF Enqueue
  <2>2. DOMAIN q2 = DOMAIN q /\ \A i \in DOMAIN q : q2[i].path = q[i].path /\ q2[i] \in Operation
    BY <2>1, <1>1
  <2>3. q2 \in Seq(Operation) /\ Len(q2) = Len(q)
    <3>1. q2 \in [1..Len(q) -> Operation]
      BY <2>1, <1>1
    <3> QED BY <3>1, <1>1
  <2>4. OnePerPath(q2)
    BY <2>2 DEF OnePerPath
  <2>5. \A i \in DOMAIN q2 : IF q2[i].path = op.path THEN q2[i] = op ELSE i \in DOMAIN q /\ q2[i] = q[i]
    BY <2>1, <2>2
  <2>6. Queued(q2, op.path)
    BY <1>3, <2>2 DEF Queued
  <2>7. \A i \in DOMAIN q2 : IF Queued(<<op>>, q2[i].path) THEN q2[i] = Newest(<<op>>, q2[i].path)
                             ELSE i \in DOMAIN q /\ q2[i] = q[i]
    BY <2>5, <1>2
  <2>8. \A p : Queued(<<op>>, p) => Queued(q2, p)
    BY <2>6, <1>2
  <2> QED BY <1>1, <2>2, <2>3, <2>4, <2>7, <2>8 DEF Took
<1>4. CASE ~Queued(q, op.path)
  <2>1. q2 = Append(q, op)
    BY <1>4 DEF Enqueue
  <2>2. /\ q2 \in Seq(Operation) /\ Len(q2) = Len(q) + 1
        /\ \A i \in 1..Len(q) : q2[i] = q[i]
        /\ q2[Len(q) + 1] = op
    BY <2>1, AppendProperties
  <2>3. DOMAIN q2 = 1..(Len(q) + 1)
    BY <2>2, <1>1
  <2>4. \A i \in DOMAIN q2 : (i \in DOMAIN q /\ q2[i] = q[i]) \/ (i = Len(q) + 1 /\ q2[i] = op)
    <3>1. \A i \in 1..(Len(q) + 1) : i \in 1..Len(q) \/ i = Len(q) + 1
      BY <1>1
    <3> QED BY <3>1, <2>2, <2>3, <1>1
  <2>5. \A i \in DOMAIN q : q[i].path # op.path
    BY <1>4 DEF Queued
  <2>6. OnePerPath(q2)
    BY <2>4, <2>5 DEF OnePerPath
  <2>7. Queued(q2, op.path)
    BY <2>2, <2>3, <1>1 DEF Queued
  <2>8. \A i \in DOMAIN q2 : IF Queued(<<op>>, q2[i].path) THEN q2[i] = Newest(<<op>>, q2[i].path)
                             ELSE i \in DOMAIN q /\ q2[i] = q[i]
    BY <2>4, <2>5, <1>2
  <2>9. \A p : Queued(<<op>>, p) => Queued(q2, p)
    BY <2>7, <1>2
  <2>10. Len(q) <= Len(q2) /\ \A i \in DOMAIN q : q2[i].path = q[i].path
    BY <2>2, <1>1
  <2> QED BY <2>2, <2>6, <2>8, <2>9, <2>10 DEF Took
<1> QED BY <1>3, <1>4

\* Enqueued takes all of them over.
LEMMA EnqueuedTook ==
  ASSUME NEW q \in Seq(Operation), OnePerPath(q), NEW ops \in Seq(Operation),
         NEW q2, q2 = Enqueued(q, ops)
  PROVE  Took(q, ops, q2)
<1> DEFINE I == Arriving(q, ops)
           new == Picked(ops, I)
           all == q \o new
<1>1. /\ Len(q) \in Nat /\ DOMAIN q = 1..Len(q) /\ \A i \in DOMAIN q : q[i] \in Operation
      /\ Len(ops) \in Nat /\ DOMAIN ops = 1..Len(ops) /\ \A i \in DOMAIN ops : ops[i] \in Operation
  OBVIOUS
<1>2. /\ I \subseteq DOMAIN ops
      /\ \A i \in I : ~Queued(q, ops[i].path) /\ \A j \in 1..(i - 1) : ops[j].path # ops[i].path
  BY DEF Arriving
<1>3. /\ new \in Seq(Operation) /\ ToSet(new) = {ops[k] : k \in I}
      /\ \A i, j \in DOMAIN new : i < j => \E k, l \in I : k < l /\ new[i] = ops[k] /\ new[j] = ops[l]
  BY <1>2, PickedIs
<1>4. q2 = [i \in DOMAIN all |-> IF Queued(ops, all[i].path) THEN Newest(ops, all[i].path) ELSE all[i]]
  BY DEF Enqueued
<1>5. ASSUME NEW p, Queued(ops, p), ~Queued(q, p) PROVE \E i \in I : ops[i].path = p
  <2> DEFINE places == {i \in DOMAIN ops : ops[i].path = p}
  <2>1. places \subseteq Nat /\ places # {}
    BY <1>1, <1>5 DEF Queued
  <2>2. PICK i \in places : \A j \in places : i <= j
    <3> HIDE DEF places
    <3> QED BY <2>1, Least
  <2>3. \A j \in 1..(i - 1) : ops[j].path # ops[i].path
    <3>1. SUFFICES ASSUME NEW j \in 1..(i - 1), ops[j].path = p PROVE FALSE
      BY <2>2
    <3>2. j \in places /\ j < i
      BY <3>1, <1>1, <2>2
    <3> HIDE DEF places
    <3> QED BY <3>2, <2>2, <2>1
  <2>4. i \in I
    BY <2>2, <2>3, <1>5 DEF Arriving
  <2> QED BY <2>2, <2>4
<1> HIDE DEF I, new
<1>6. Len(new) \in Nat /\ DOMAIN new = 1..Len(new)
  BY <1>3
<1>7. /\ all \in Seq(Operation) /\ Len(all) = Len(q) + Len(new)
      /\ \A i \in 1..Len(q) + Len(new) : all[i] = IF i <= Len(q) THEN q[i] ELSE new[i - Len(q)]
  BY <1>3, ConcatProperties, Zenon
<1> HIDE DEF all
<1>8. DOMAIN all = 1..(Len(q) + Len(new)) /\ \A i \in DOMAIN all : all[i] \in Operation
  BY <1>7, <1>1, <1>6
<1>9. \A i \in DOMAIN q : i \in DOMAIN all /\ all[i] = q[i]
  BY <1>7, <1>8, <1>1, <1>6
<1>10. ASSUME NEW k \in DOMAIN all
       PROVE  \/ k \in DOMAIN q /\ all[k] = q[k]
              \/ ~(k \in DOMAIN q) /\ k - Len(q) \in DOMAIN new /\ all[k] = new[k - Len(q)]
  BY <1>7, <1>8, <1>1, <1>6
<1>11. ASSUME NEW i \in DOMAIN new
       PROVE  \E k \in I : new[i] = ops[k] /\ k \in DOMAIN ops
  <2>1. new[i] \in ToSet(new)
    BY DEF ToSet
  <2> QED BY <2>1, <1>2, <1>3
<1>12. ASSUME NEW i \in DOMAIN new
       PROVE  Queued(ops, new[i].path) /\ ~Queued(q, new[i].path)
  BY <1>11, <1>2 DEF Queued
<1>13. ASSUME NEW i \in DOMAIN new, NEW j \in DOMAIN new, new[i].path = new[j].path
       PROVE  i = j
  <2>1. ASSUME NEW m \in DOMAIN new, NEW n \in DOMAIN new, m < n PROVE new[m].path # new[n].path
    <3>1. PICK k, l \in I : k < l /\ new[m] = ops[k] /\ new[n] = ops[l]
      BY <2>1, <1>3
    <3>2. k \in 1..(l - 1)
      BY <3>1, <1>1, <1>2
    <3> QED BY <3>1, <3>2, <1>2
  <2>2. i < j \/ j < i \/ i = j
    BY <1>6
  <2> QED BY <2>1, <2>2, <1>13
<1>14. ASSUME NEW i \in DOMAIN all
       PROVE  /\ i \in DOMAIN q2
              /\ q2[i] = IF Queued(ops, all[i].path) THEN Newest(ops, all[i].path) ELSE all[i]
              /\ q2[i] \in Operation /\ q2[i].path = all[i].path
  <2>1. q2[i] = IF Queued(ops, all[i].path) THEN Newest(ops, all[i].path) ELSE all[i]
    BY <1>4
  <2>2. CASE Queued(ops, all[i].path)
    <3>1. PICK k \in DOMAIN ops : ops[k].path = all[i].path /\ Newest(ops, all[i].path) = ops[k]
      BY <2>2, NewestIs
    <3> QED BY <2>1, <2>2, <3>1, <1>1, <1>4
  <2>3. CASE ~Queued(ops, all[i].path)
    BY <2>1, <2>3, <1>4, <1>8
  <2> QED BY <2>1, <2>2, <2>3
<1>15. DOMAIN q2 = DOMAIN all
  BY <1>4
<1>16. q2 \in Seq(Operation) /\ Len(q2) = Len(q) + Len(new)
  <2> DEFINE n == Len(q) + Len(new)
  <2>1. n \in Nat /\ DOMAIN q2 = 1..n
    BY <1>15, <1>8, <1>1, <1>6
  <2>2. q2 = [i \in 1..n |-> q2[i]]
    BY <1>4, <1>8
  <2>3. \A i \in 1..n : q2[i] \in Operation
    BY <1>14, <1>8
  <2> HIDE DEF n
  <2>4. q2 \in [1..n -> Operation]
    BY <2>2, <2>3
  <2>5. q2 \in Seq(Operation) /\ Len(q2) = n
    BY <2>1, <2>4
  <2> QED BY <2>5 DEF n
<1>17. OnePerPath(q2)
  <2>1. SUFFICES ASSUME NEW i \in DOMAIN all, NEW j \in DOMAIN all, all[i].path = all[j].path
                 PROVE  i = j
    BY <1>14, <1>15 DEF OnePerPath
  <2>2. CASE i \in DOMAIN q /\ j \in DOMAIN q
    BY <2>1, <2>2, <1>9 DEF OnePerPath
  <2>3. CASE ~(i \in DOMAIN q) /\ ~(j \in DOMAIN q)
    <3>1. /\ i - Len(q) \in DOMAIN new /\ all[i] = new[i - Len(q)]
          /\ j - Len(q) \in DOMAIN new /\ all[j] = new[j - Len(q)]
      BY <2>3, <1>10
    <3>2. i - Len(q) = j - Len(q)
      BY <3>1, <2>1, <1>13
    <3>3. i \in Nat /\ j \in Nat
      BY <1>8
    <3> QED BY <3>2, <3>3, <1>1
  <2>4. ASSUME NEW m \in DOMAIN q, NEW n \in DOMAIN all, ~(n \in DOMAIN q)
        PROVE  all[m].path # all[n].path
    <3>1. n - Len(q) \in DOMAIN new /\ all[n] = new[n - Len(q)]
      BY <2>4, <1>10
    <3>2. ~Queued(q, all[n].path)
      BY <3>1, <1>12
    <3> QED BY <3>2, <1>9 DEF Queued
  <2> QED BY <2>1, <2>2, <2>3, <2>4
<1>18. \A i \in DOMAIN q2 : IF Queued(ops, q2[i].path) THEN q2[i] = Newest(ops, q2[i].path)
                            ELSE i \in DOMAIN q /\ q2[i] = q[i]
  <2>1. SUFFICES ASSUME NEW i \in DOMAIN all
                 PROVE  IF Queued(ops, q2[i].path) THEN q2[i] = Newest(ops, q2[i].path)
                        ELSE i \in DOMAIN q /\ q2[i] = q[i]
    BY <1>15
  <2>2. CASE Queued(ops, all[i].path)
    BY <2>2, <1>14
  <2>3. CASE ~Queued(ops, all[i].path)
    <3>1. i \in DOMAIN q /\ all[i] = q[i]
      BY <2>3, <1>10, <1>12
    <3> QED BY <2>3, <3>1, <1>14
  <2> QED BY <2>2, <2>3
<1>19. ASSUME NEW p, Queued(ops, p) PROVE Queued(q2, p)
  <2>1. CASE Queued(q, p)
    BY <2>1, <1>9, <1>14, <1>15 DEF Queued
  <2>2. CASE ~Queued(q, p)
    <3>1. PICK k \in I : ops[k].path = p
      BY <2>2, <1>19, <1>5
    <3>2. ops[k] \in ToSet(new)
      BY <1>3
    <3>3. PICK i \in DOMAIN new : new[i] = ops[k]
      BY <3>2 DEF ToSet
    <3>4. Len(q) + i \in 1..Len(q) + Len(new) /\ ~(Len(q) + i <= Len(q)) /\ (Len(q) + i) - Len(q) = i
      BY <1>1, <1>6
    <3>5. Len(q) + i \in DOMAIN all /\ all[Len(q) + i] = new[i]
      BY <3>4, <1>7, <1>8
    <3> QED BY <3>1, <3>3, <3>5, <1>14, <1>15 DEF Queued
  <2> QED BY <2>1, <2>2
<1>20. Len(q) <= Len(q2) /\ \A i \in DOMAIN q : q2[i].path = q[i].path
  BY <1>16, <1>1, <1>6, <1>9, <1>14
<1> QED BY <1>16, <1>17, <1>18, <1>19, <1>20 DEF Took

\* Enqueued is Enqueue for one operation after the other: for none it leaves the
\* queue, ...
LEMMA EnqueuedNone ==
  ASSUME NEW q \in Seq(Operation)
  PROVE  Enqueued(q, <<>>) = q
<1> DEFINE all == q \o Picked(<<>>, Arriving(q, <<>>))
<1>1. Arriving(q, <<>>) = {} /\ \A p : ~Queued(<<>>, p)
  BY DEF Arriving, Queued
<1>2. Picked(<<>>, {}) = <<>>
  <2>1. InOrder({}) \in [1..Cardinality({}) -> {}]
    <3>1. {} \in SUBSET (1..0)
      OBVIOUS
    <3> QED BY <3>1, InOrderIs
  <2>2. DOMAIN InOrder({}) = {}
    BY <2>1, FS_EmptySet
  <2> QED BY <2>2 DEF Picked
<1>3. all = q
  <2>1. all = q \o <<>>
    BY <1>1, <1>2
  <2>2. q \o <<>> = q
    BY ConcatEmptySeq
  <2> QED BY <2>1, <2>2
<1>4. Enqueued(q, <<>>) =
      [i \in DOMAIN all |-> IF Queued(<<>>, all[i].path) THEN Newest(<<>>, all[i].path) ELSE all[i]]
  BY DEF Enqueued
<1> HIDE DEF all
<1> QED BY <1>1, <1>3, <1>4

\* ... and one more is enqueued after the others.
LEMMA EnqueuedMore ==
  ASSUME NEW q \in Seq(Operation), OnePerPath(q), NEW ops \in Seq(Operation), NEW op \in Operation
  PROVE  Enqueued(q, Append(ops, op)) = Enqueue(Enqueued(q, ops), op)
<1> DEFINE more == Append(ops, op)
           A  == Arriving(q, ops)
           A2 == Arriving(q, more)
           new == Picked(ops, A)
           all == q \o new
           all2 == q \o Picked(more, A2)
           before == Enqueued(q, ops)
           after == Enqueued(q, more)
           n == Len(ops)
<1>1. /\ n \in Nat /\ DOMAIN ops = 1..n /\ more \in Seq(Operation) /\ DOMAIN more = 1..(n + 1)
      /\ more[n + 1] = op /\ \A i \in 1..n : more[i] = ops[i]
  OBVIOUS
<1>2. \A p : /\ Queued(more, p) <=> Queued(ops, p) \/ p = op.path
             /\ p = op.path => Newest(more, p) = op
             /\ Queued(ops, p) /\ p # op.path => Newest(more, p) = Newest(ops, p)
  <2>1. more = ops \o <<op>>
    OBVIOUS
  <2>2. <<op>> \in Seq(Operation) /\ \A p : /\ Queued(<<op>>, p) <=> p = op.path
                                            /\ p = op.path => Newest(<<op>>, p) = op
    BY NewestSingle
  <2>3. \A p : /\ Queued(ops \o <<op>>, p) <=> Queued(ops, p) \/ Queued(<<op>>, p)
               /\ Queued(<<op>>, p) => Newest(ops \o <<op>>, p) = Newest(<<op>>, p)
               /\ Queued(ops, p) /\ ~Queued(<<op>>, p) => Newest(ops \o <<op>>, p) = Newest(ops, p)
    BY <2>2, NewestConcat
  <2> HIDE DEF more
  <2> QED BY <2>1, <2>2, <2>3
<1>3. A \in SUBSET DOMAIN ops
  BY DEF Arriving
<1>4. A2 = IF Queued(q, op.path) \/ Queued(ops, op.path) THEN A ELSE A \cup {n + 1}
  <2>1. ASSUME NEW i \in 1..n PROVE i \in A2 <=> i \in A
    <3>1. \A j \in 1..(i - 1) : j \in 1..n
      BY <1>1
    <3>2. more[i] = ops[i] /\ \A j \in 1..(i - 1) : more[j] = ops[j]
      BY <3>1, <1>1
    <3> HIDE DEF more
    <3> QED BY <3>2, <1>1 DEF Arriving
  <2>2. n + 1 \in A2 <=> ~Queued(q, op.path) /\ ~Queued(ops, op.path)
    <3>1. n + 1 \in A2 <=> ~Queued(q, op.path) /\ \A j \in 1..n : ops[j].path # op.path
      <4>1. (n + 1) - 1 = n /\ n + 1 \in DOMAIN more
        BY <1>1
      <4> HIDE DEF more
      <4> QED BY <4>1, <1>1 DEF Arriving
    <3> QED BY <3>1, <1>1 DEF Queued
  <2>3. A2 \subseteq 1..(n + 1)
    <3> HIDE DEF more
    <3> QED BY <1>1 DEF Arriving
  <2>4. \A i \in 1..(n + 1) : i \in 1..n \/ i = n + 1
    BY <1>1
  <2> HIDE DEF A, A2, more
  <2>5. A \subseteq 1..n
    BY <1>1, <1>3
  <2>6. ~(n + 1 \in 1..n)
    BY <1>1
  <2>7. CASE Queued(q, op.path) \/ Queued(ops, op.path)
    <3>1. \A i : i \in A2 <=> i \in A
      BY <2>1, <2>2, <2>3, <2>4, <2>5, <2>7
    <3>2. A2 = A
      BY <3>1
    <3> QED BY <3>2, <2>7
  <2>8. CASE ~(Queued(q, op.path) \/ Queued(ops, op.path))
    <3>1. n + 1 \in A2
      BY <2>2, <2>8
    <3>2. \A i : i \in A2 <=> i \in A \/ i = n + 1
      BY <2>1, <2>3, <2>4, <2>5, <3>1
    <3>3. A2 = A \cup {n + 1}
      BY <3>2
    <3> QED BY <3>3, <2>8
  <2> QED BY <2>7, <2>8
<1>5. /\ before = [i \in DOMAIN all |-> IF Queued(ops, all[i].path) THEN Newest(ops, all[i].path) ELSE all[i]]
      /\ after = [i \in DOMAIN all2 |-> IF Queued(more, all2[i].path) THEN Newest(more, all2[i].path) ELSE all2[i]]
  BY DEF Enqueued
<1>6. Took(q, ops, before)
  BY EnqueuedTook
<1>7. new \in Seq(Operation)
  BY <1>3, PickedIs
<1>8. all \in Seq(Operation)
  <2> HIDE DEF new
  <2> QED BY <1>7
<1>9. /\ Picked(more, A) = new
      /\ Picked(more, A \cup {n + 1}) = Append(new, op)
  BY <1>3, PickedMore
<1>10. all2 = IF Queued(q, op.path) \/ Queued(ops, op.path) THEN all ELSE Append(all, op)
  <2> HIDE DEF new, A, A2, more, n
  <2>1. CASE Queued(q, op.path) \/ Queued(ops, op.path)
    BY <2>1, <1>4, <1>9
  <2>2. CASE ~(Queued(q, op.path) \/ Queued(ops, op.path))
    <3>1. all2 = q \o Append(new, op)
      BY <2>2, <1>4, <1>9
    <3>2. q \o Append(new, op) = Append(q \o new, op)
      BY <1>7
    <3> QED BY <2>2, <3>1, <3>2
  <2> QED BY <2>1, <2>2
<1> HIDE DEF all, all2, before, after, more, new, A, A2, n
<1>11. /\ DOMAIN before = DOMAIN all
       /\ \A i \in DOMAIN all : all[i] \in Operation /\ before[i].path = all[i].path
  <2>1. ASSUME NEW i \in DOMAIN all PROVE before[i].path = all[i].path
    <3>1. before[i] = IF Queued(ops, all[i].path) THEN Newest(ops, all[i].path) ELSE all[i]
      BY <1>5
    <3>2. CASE Queued(ops, all[i].path)
      <4>1. PICK k \in DOMAIN ops : ops[k].path = all[i].path /\ Newest(ops, all[i].path) = ops[k]
        BY <3>2, NewestIs
      <4> QED BY <3>1, <3>2, <4>1
    <3> QED BY <3>1, <3>2
  <2> QED BY <2>1, <1>5, <1>8
<1>12. \A p : Queued(before, p) <=> Queued(q, p) \/ Queued(ops, p)
  <2>1. ASSUME NEW p, Queued(q, p) PROVE Queued(before, p)
    <3>1. DOMAIN q \subseteq DOMAIN before
      BY <1>6 DEF Took
    <3> QED BY <2>1, <3>1, <1>6 DEF Took, Queued
  <2>2. ASSUME NEW p, Queued(before, p), ~Queued(ops, p) PROVE Queued(q, p)
    BY <2>2, <1>6 DEF Took, Queued
  <2> QED BY <2>1, <2>2, <1>6 DEF Took
<1>13. ASSUME NEW i \in DOMAIN all, all[i].path # op.path
       PROVE  (IF Queued(more, all[i].path) THEN Newest(more, all[i].path) ELSE all[i]) = before[i]
  BY <1>13, <1>2, <1>5
<1>14. CASE Queued(q, op.path) \/ Queued(ops, op.path)
  <2>1. Enqueue(before, op) = [i \in DOMAIN before |-> IF before[i].path = op.path THEN op ELSE before[i]]
    BY <1>12, <1>14 DEF Enqueue
  <2>2. after = [i \in DOMAIN all |-> IF Queued(more, all[i].path) THEN Newest(more, all[i].path) ELSE all[i]]
    BY <1>5, <1>10, <1>14
  <2>3. ASSUME NEW i \in DOMAIN all
        PROVE  (IF Queued(more, all[i].path) THEN Newest(more, all[i].path) ELSE all[i])
                 = IF before[i].path = op.path THEN op ELSE before[i]
    <3>1. CASE all[i].path = op.path
      BY <3>1, <1>2, <1>11
    <3>2. CASE all[i].path # op.path
      BY <3>2, <1>11, <1>13
    <3> QED BY <3>1, <3>2
  <2>4. after = Enqueue(before, op)
    BY <2>1, <2>2, <2>3, <1>11
  <2> QED BY <2>4 DEF after, before, more
<1>15. CASE ~(Queued(q, op.path) \/ Queued(ops, op.path))
  <2> DEFINE b == Len(all)
  <2>1. Enqueue(before, op) = Append(before, op)
    BY <1>12, <1>15 DEF Enqueue
  <2>2. /\ b \in Nat /\ DOMAIN all = 1..b /\ all2 = Append(all, op)
        /\ DOMAIN all2 = 1..(b + 1) /\ all2[b + 1] = op /\ \A i \in 1..b : all2[i] = all[i]
    BY <1>8, <1>10, <1>15
  <2>3. before \in Seq(Operation) /\ Len(before) = b
    BY <2>2, <1>6, <1>11 DEF Took
  <2> HIDE DEF b
  <2>4. \A i \in 1..b : all[i].path # op.path
    <3>1. SUFFICES ASSUME NEW i \in 1..b, all[i].path = op.path PROVE FALSE
      OBVIOUS
    <3>2. Queued(before, op.path)
      BY <3>1, <2>2, <1>11 DEF Queued
    <3> QED BY <3>2, <1>12, <1>15
  <2>5. after = [i \in 1..(b + 1) |-> after[i]] /\ after[b + 1] = op /\ \A i \in 1..b : after[i] = before[i]
    <3>1. \A i \in 1..(b + 1) : after[i] = IF Queued(more, all2[i].path) THEN Newest(more, all2[i].path) ELSE all2[i]
      BY <1>5, <2>2
    <3>2. after[b + 1] = op
      BY <3>1, <2>2, <1>2
    <3>3. \A i \in 1..b : i \in 1..(b + 1) /\ all2[i] = all[i]
      BY <2>2
    <3>4. \A i \in 1..b : after[i] = before[i]
      BY <3>1, <3>3, <2>2, <2>4, <1>13
    <3> QED BY <3>2, <3>4, <1>5, <2>2
  <2> DEFINE a == Append(before, op)
  <2>6. a = [i \in 1..(b + 1) |-> a[i]] /\ a[b + 1] = op /\ \A i \in 1..b : a[i] = before[i]
    <3>1. a \in Seq(Operation) /\ Len(a) = b + 1 /\ a[b + 1] = op /\ \A i \in 1..b : a[i] = before[i]
      BY <2>3, AppendProperties
    <3> HIDE DEF a
    <3> QED BY <3>1
  <2> HIDE DEF a
  <2>7. \A i \in 1..(b + 1) : i \in 1..b \/ i = b + 1
    BY <2>2
  <2>8. \A i \in 1..(b + 1) : after[i] = a[i]
    BY <2>5, <2>6, <2>7
  <2>9. after = a
    BY <2>5, <2>6, <2>8
  <2> QED BY <2>1, <2>9 DEF a, after, before, more
<1> QED BY <1>14, <1>15

-----------------------------------------------------------------------------
(* The files under the queue *)

\* What a file becomes is decided by the one operation on it, ...
LEMMA AfterOp ==
  ASSUME NEW q \in Seq(Operation), OnePerPath(q), NEW d, NEW n \in Nat, n <= Len(q),
         NEW p \in Path, NEW i \in 1..n, q[i].path = p
  PROVE  After(q, d, n)[p] = q[i].file
<1>1. Len(q) \in Nat
  OBVIOUS
<1>2. DOMAIN q = 1..Len(q) /\ 1..n \subseteq DOMAIN q
  BY <1>1
<1>3. After(q, d, n)[p] = q[CHOOSE j \in 1..n : q[j].path = p].file
  BY DEF After
<1> DEFINE k == CHOOSE j \in 1..n : q[j].path = p
<1>4. k \in 1..n /\ q[k].path = p
  OBVIOUS
<1> HIDE DEF k
<1>5. k = i
  BY <1>4, <1>2 DEF OnePerPath
<1> QED BY <1>3, <1>5 DEF k

\* ... if any.
LEMMA AfterNoOp ==
  ASSUME NEW q, NEW d, NEW n, NEW p \in Path, \A i \in 1..n : q[i].path # p
  PROVE  After(q, d, n)[p] = d[p]
BY DEF After

\* Before anything is performed the files are those on disk.
LEMMA AfterNothing ==
  ASSUME NEW q \in Seq(Operation), OnePerPath(q), NEW d, NEW p \in Path
  PROVE  After(q, d, 0)[p] = d[p]
<1>1. 1..0 = {}
  OBVIOUS
<1> QED BY <1>1, AfterNoOp

\* Performing the first operation leaves the rest as it was: q2 is the tail of q,
\* d2 the files after it.
LEMMA AfterPerform ==
  ASSUME NEW q \in Seq(Operation), OnePerPath(q), q # <<>>, NEW d \in [Path -> SUBSET Data],
         NEW d2 \in [Path -> SUBSET Data], d2[q[1].path] = q[1].file,
         \A p \in Path : p # q[1].path => d2[p] = d[p],
         NEW q2 \in Seq(Operation), Len(q) = Len(q2) + 1, \A i \in 1..Len(q2) : q2[i] = q[i + 1]
  PROVE  /\ OnePerPath(q2)
         /\ \A p : Queued(q2, p) => Queued(q, p)
         /\ \A n \in 0..Len(q2), p \in Path : After(q2, d2, n)[p] = After(q, d, n + 1)[p]
<1>1. /\ Len(q) \in Nat /\ DOMAIN q = 1..Len(q) /\ Len(q) # 0 /\ q[1] \in Operation 
      /\ 1 \in DOMAIN q
  OBVIOUS
<1>2. \A i \in 1..Len(q2) : q2[i] = q[i + 1]
  OBVIOUS
<1>3. Len(q2) \in Nat /\ DOMAIN q2 = 1..Len(q2) /\ Len(q) = Len(q2) + 1
  BY <1>1, <1>2
<1>4. \A i \in 1..Len(q2) : i + 1 \in DOMAIN q /\ i + 1 # 1
  BY <1>1, <1>3
<1>5. OnePerPath(q2)
  <2>1. SUFFICES ASSUME NEW i \in 1..Len(q2), NEW j \in 1..Len(q2), q2[i].path = q2[j].path PROVE i = j
    BY <1>3 DEF OnePerPath
  <2>2. i + 1 = j + 1
    <3>1. q2[i] = q[i + 1] /\ q2[j] = q[j + 1] /\ i + 1 \in DOMAIN q /\ j + 1 \in DOMAIN q
      BY <1>2, <1>4
    <3>2. q[i + 1].path = q[j + 1].path
      BY <2>1, <3>1
    <3> QED BY <3>1, <3>2 DEF OnePerPath
  <2> QED BY <2>2, <1>3
<1>6. q[1].path \in Path /\ q[1].file \in SUBSET Data
  BY <1>1 DEF Operation
<1>7. d2[q[1].path] = q[1].file /\ \A p \in Path : p # q[1].path => d2[p] = d[p]
  BY <1>1
<1>8. ASSUME NEW p, Queued(q2, p) PROVE Queued(q, p)
  BY <1>8, <1>2, <1>3, <1>4 DEF Queued
<1>9. \A m \in Nat, p \in Path : \A k \in 1..m :
         m <= Len(q) /\ q[k].path = p => After(q, d, m)[p] = q[k].file
  BY AfterOp
<1>10. ASSUME NEW n \in 0..Len(q2), NEW p \in Path
       PROVE  After(q2, d2, n)[p] = After(q, d, n + 1)[p]
  <2>1. n + 1 \in 0..Len(q) /\ 1 \in 1..(n + 1) /\ n \in Nat /\ n <= Len(q2) /\ 1..n \subseteq 1..Len(q2)
    BY <1>3
  <2>2. CASE \E i \in 1..n : q2[i].path = p
    <3>1. PICK i \in 1..n : q2[i].path = p
      BY <2>2
    <3>2. After(q2, d2, n)[p] = q2[i].file
      BY <3>1, <2>1, <1>2, <1>5, AfterOp
    <3> DEFINE k == i + 1
               m == n + 1
    <3>3. k \in 1..m /\ q2[i] = q[k] /\ q[k].path = p /\ m \in Nat /\ m <= Len(q)
      BY <3>1, <2>1, <1>2, <1>3
    <3> HIDE DEF k, m
    <3>4. After(q, d, m)[p] = q[k].file
      BY <3>3, <1>9
    <3> QED BY <3>2, <3>3, <3>4 DEF m
  <2>3. CASE ~\E i \in 1..n : q2[i].path = p
    <3>1. After(q2, d2, n)[p] = d2[p]
      BY <2>3, AfterNoOp
    <3>2. CASE q[1].path = p
      <4>1. n + 1 \in Nat /\ n + 1 <= Len(q)
        BY <2>1, <1>3
      <4> DEFINE k == n + 1
      <4> HIDE DEF k
      <4>2. k \in Nat /\ k <= Len(q) /\ 1 \in 1..k
        BY <4>1, <2>1 DEF k
      <4>3. After(q, d, k)[p] = q[1].file
        BY <4>2, <3>2, AfterOp
      <4>4. After(q, d, n + 1)[p] = q[1].file
        BY <4>3 DEF k
      <4> QED BY <4>4, <3>1, <3>2, <1>7
    <3>3. CASE q[1].path # p
      <4>1. ASSUME NEW i \in 1..(n + 1) PROVE q[i].path # p
        <5>1. CASE i = 1
          BY <5>1, <3>3
        <5>2. CASE i # 1
          <6>1. i - 1 \in 1..n /\ (i - 1) + 1 = i
            BY <5>2, <2>1
          <6>2. q2[i - 1] = q[i]
            BY <6>1, <2>1, <1>2
          <6> QED BY <6>1, <6>2, <2>3
        <5> QED BY <5>1, <5>2
      <4>2. After(q, d, n + 1)[p] = d[p]
        BY <4>1, <2>1, AfterNoOp
      <4> QED BY <4>2, <3>1, <3>3, <1>7
    <3> QED BY <3>2, <3>3
  <2> QED BY <2>2, <2>3
<1> QED BY <1>2, <1>3, <1>5, <1>7, <1>8, <1>10

\* What is taken over decides what the files become.
LEMMA TookFate ==
  ASSUME NEW q \in Seq(Operation), OnePerPath(q), NEW ops, NEW q2, Took(q, ops, q2), NEW d, NEW p \in Path
  PROVE  After(q2, d, Len(q2))[p] = IF Queued(ops, p) THEN Newest(ops, p).file
                                    ELSE After(q, d, Len(q))[p]
<1>1. /\ Len(q) \in Nat /\ DOMAIN q = 1..Len(q) /\ Len(q) \in 0..Len(q)
      /\ q2 \in Seq(Operation) /\ OnePerPath(q2)
      /\ Len(q2) \in Nat /\ DOMAIN q2 = 1..Len(q2) /\ Len(q2) \in 0..Len(q2)
      /\ DOMAIN q \subseteq DOMAIN q2
  BY DEF Took
<1>2. CASE Queued(ops, p)
  <2>1. PICK i \in DOMAIN q2 : q2[i].path = p
    BY <1>2 DEF Took, Queued
  <2>2. q2[i] = Newest(ops, p)
    BY <2>1, <1>2 DEF Took
  <2>3. After(q2, d, Len(q2))[p] = q2[i].file
    BY <2>1, <1>1, AfterOp
  <2> QED BY <2>2, <2>3, <1>2
<1>3. CASE ~Queued(ops, p) /\ \E i \in DOMAIN q : q[i].path = p
  <2>1. PICK i \in DOMAIN q : q[i].path = p
    BY <1>3
  <2>2. i \in DOMAIN q2 /\ q2[i].path = p /\ q2[i] = q[i]
    BY <2>1, <1>1, <1>3 DEF Took
  <2>3. After(q2, d, Len(q2))[p] = q2[i].file
    BY <2>2, <1>1, AfterOp
  <2>4. After(q, d, Len(q))[p] = q[i].file
    BY <2>1, <1>1, AfterOp
  <2> QED BY <2>2, <2>3, <2>4, <1>3
<1>4. CASE ~Queued(ops, p) /\ ~\E i \in DOMAIN q : q[i].path = p
  <2>1. \A i \in DOMAIN q2 : q2[i].path # p
    BY <1>4 DEF Took
  <2>2. After(q2, d, Len(q2))[p] = d[p]
    BY <2>1, <1>1, AfterNoOp
  <2>3. After(q, d, Len(q))[p] = d[p]
    BY <1>1, <1>4, AfterNoOp
  <2> QED BY <2>2, <2>3, <1>4
<1> QED BY <1>2, <1>3, <1>4

\* If only a part of the queue is performed: what the files would have been, or
\* what was handed over.
LEMMA TookPart ==
  ASSUME NEW q \in Seq(Operation), OnePerPath(q), NEW ops, NEW q2, Took(q, ops, q2), NEW d,
         NEW n \in 0..Len(q2), NEW p \in Path,
         NEW m, n <= Len(q) => m = n, ~(n <= Len(q)) => m = Len(q)
  PROVE  /\ m \in 0..Len(q)
         /\ \/ After(q2, d, n)[p] = After(q, d, m)[p]
            \/ /\ Queued(ops, p) /\ After(q2, d, n)[p] = Newest(ops, p).file
               /\ After(q, d, m)[p] = After(q, d, Len(q))[p]
               /\ n <= Len(q) => Queued(q, p)
<1>1. /\ Len(q) \in Nat /\ DOMAIN q = 1..Len(q) /\ Len(q) \in 0..Len(q)
      /\ q2 \in Seq(Operation) /\ OnePerPath(q2)
      /\ Len(q2) \in Nat /\ DOMAIN q2 = 1..Len(q2) /\ Len(q) <= Len(q2)
  BY DEF Took
<1>2. n \in Nat /\ n <= Len(q2)
  <2>1. Len(q2) \in Nat
    BY <1>1
  <2> QED BY <2>1
<1>3. n \in Nat /\ m \in 0..Len(q) /\ m \in Nat /\ m <= n /\ 1..n \subseteq DOMAIN q2 /\ 1..m \subseteq DOMAIN q
  <2>1. n \in Nat /\ n <= Len(q2)
    BY <1>2
  <2>2. m \in 0..Len(q) /\ m \in Nat /\ m <= n
    <3>1. Len(q) \in Nat
      OBVIOUS
    <3>2. CASE n <= Len(q)
      BY <3>1, <3>2, <2>1
    <3>3. CASE ~(n <= Len(q))
      BY <3>1, <3>3, <2>1
    <3> QED BY <3>2, <3>3
  <2>3. 1..n \subseteq 1..Len(q2) /\ 1..m \subseteq 1..Len(q)
    <3>1. Len(q2) \in Nat /\ Len(q) \in Nat
      BY <1>1
    <3> QED BY <3>1, <2>1, <2>2
  <2> QED BY <2>1, <2>2, <2>3, <1>1
<1>4. \A i \in DOMAIN q : i <= n => i \in 1..m
  <2>1. Len(q) \in Nat /\ n \in Nat /\ DOMAIN q = 1..Len(q)
    BY <1>3
  <2>2. SUFFICES ASSUME NEW i \in 1..Len(q), i <= n PROVE i \in 1..m
    BY <2>1
  <2>3. CASE n <= Len(q)
    <3>1. m = n
      BY <2>3
    <3>2. i \in Nat /\ 1 <= i
      BY <2>1, <2>2
    <3>3. i \in 1..n
      BY <3>2, <2>2, <2>1
    <3> QED BY <3>1, <3>3
  <2>4. CASE ~(n <= Len(q))
    BY <2>4, <2>1
  <2> QED BY <2>3, <2>4
<1>5. CASE \E i \in 1..n : q2[i].path = p
  <2>1. PICK i \in 1..n : q2[i].path = p
    BY <1>5
  <2>2. After(q2, d, n)[p] = q2[i].file
    <3>1. n \in Nat /\ n <= Len(q2)
      BY <1>2
    <3> QED BY <3>1, <2>1, <1>1, AfterOp
  <2>3. CASE i \in DOMAIN q
    <3>1. q[i].path = p /\ i \in 1..m
      BY <2>1, <2>3, <1>3, <1>4 DEF Took
    <3>2. After(q, d, m)[p] = q[i].file
      BY <3>1, <1>3, AfterOp
    <3>3. After(q, d, Len(q))[p] = q[i].file
      <4>1. Len(q) \in Nat /\ Len(q) <= Len(q) /\ i \in 1..Len(q)
        BY <2>3, <1>1
      <4> QED BY <4>1, <3>1, AfterOp
    <3>4. Queued(q, p)
      BY <2>3, <3>1 DEF Queued
    <3>5. CASE Queued(ops, p)
      <4>1. q2[i] = Newest(ops, p)
        BY <2>1, <3>5, <1>3 DEF Took
      <4> QED BY <4>1, <2>2, <3>2, <3>3, <3>4, <3>5, <1>3
    <3>6. CASE ~Queued(ops, p)
      <4>1. q2[i] = q[i]
        BY <2>1, <3>6, <1>3 DEF Took
      <4> QED BY <4>1, <2>2, <3>2, <1>3
    <3> QED BY <3>5, <3>6
  <2>4. CASE ~(i \in DOMAIN q)
    <3>1. Queued(ops, p) /\ q2[i] = Newest(ops, p)
      BY <2>1, <2>4, <1>3 DEF Took
    <3>2. ~(n <= Len(q)) /\ m = Len(q)
      BY <2>1, <2>4, <1>1, <1>3
    <3> QED BY <3>1, <3>2, <2>2, <1>3
  <2> QED BY <2>3, <2>4
<1>6. CASE ~\E i \in 1..n : q2[i].path = p
  <2>1. After(q2, d, n)[p] = d[p]
    BY <1>6, AfterNoOp
  <2>2. \A i \in 1..m : q[i].path # p
    <3>1. \A i \in 1..m : i \in 1..n /\ i \in DOMAIN q
      BY <1>3
    <3> QED BY <3>1, <1>6 DEF Took
  <2>3. After(q, d, m)[p] = d[p]
    BY <2>2, <1>3, AfterNoOp
  <2> QED BY <2>1, <2>3, <1>3
<1> QED BY <1>5, <1>6

\* A draft that gets a link it did not have.
NewLink(q, d, ops, t, x) ==
  /\ Queued(ops, DraftFile(t)) /\ LinksTo(Newest(ops, DraftFile(t)).file, x)
  /\ ~LinksTo(After(q, d, Len(q))[DraftFile(t)], x)

\* No draft is linked to x, or only drafts are that lose the link before t gets it.
MayLink(q, d, t, x) ==
  \/ /\ ~Queued(q, DraftFile(t))
     /\ \A s \in TabId : ~LinksTo(After(q, d, Len(q))[DraftFile(s)], x)
  \/ \A m \in 0..Len(q), s \in TabId : ~LinksTo(After(q, d, m)[DraftFile(s)], x)

\* At no point of the queue are two drafts linked to one saved request.
LEMMA TookLinks ==
  ASSUME NEW q \in Seq(Operation), OnePerPath(q), NEW ops, NEW q2, Took(q, ops, q2), NEW d,
         \A m \in 0..Len(q) : OneDraftPerSaved(After(q, d, m)),
         \A t \in TabId, x \in SavedId : NewLink(q, d, ops, t, x) =>
            /\ MayLink(q, d, t, x)
            /\ \A s \in TabId : NewLink(q, d, ops, s, x) => s = t,
         NEW n \in 0..Len(q2)
  PROVE  OneDraftPerSaved(After(q2, d, n))
<1>1. Len(q) \in Nat /\ Len(q2) \in Nat
  BY DEF Took
<1>2. PICK m : (n <= Len(q) => m = n) /\ (~(n <= Len(q)) => m = Len(q))
  OBVIOUS
<1>3. m \in 0..Len(q)
  BY <1>1, <1>2
<1>4. ASSUME NEW t \in TabId, NEW x, LinksTo(After(q2, d, n)[DraftFile(t)], x)
      PROVE  \/ LinksTo(After(q, d, m)[DraftFile(t)], x)
             \/ NewLink(q, d, ops, t, x) /\ (n <= Len(q) => Queued(q, DraftFile(t)))
  <2>1. DraftFile(t) \in Path
    BY Paths
  <2>2. \/ After(q2, d, n)[DraftFile(t)] = After(q, d, m)[DraftFile(t)]
        \/ /\ Queued(ops, DraftFile(t))
           /\ After(q2, d, n)[DraftFile(t)] = Newest(ops, DraftFile(t)).file
           /\ After(q, d, m)[DraftFile(t)] = After(q, d, Len(q))[DraftFile(t)]
           /\ n <= Len(q) => Queued(q, DraftFile(t))
    BY <2>1, <1>2, TookPart
  <2> QED BY <2>2, <1>4 DEF NewLink
<1>5. ASSUME NEW t \in TabId, NEW s \in TabId, NEW x \in SavedId,
             LinksTo(After(q2, d, n)[DraftFile(t)], x), LinksTo(After(q2, d, n)[DraftFile(s)], x),
             ~LinksTo(After(q, d, m)[DraftFile(t)], x)
      PROVE  s = t
  <2>1. NewLink(q, d, ops, t, x) /\ (n <= Len(q) => Queued(q, DraftFile(t)))
    BY <1>4, <1>5
  <2>2. CASE NewLink(q, d, ops, s, x)
    BY <2>1, <2>2
  <2>3. CASE LinksTo(After(q, d, m)[DraftFile(s)], x)
    <3>1. ~(n <= Len(q)) /\ \A r \in TabId : ~LinksTo(After(q, d, Len(q))[DraftFile(r)], x)
      BY <2>1, <2>3, <1>3 DEF MayLink
    <3> QED BY <3>1, <2>3, <1>2
  <2> QED BY <2>2, <2>3, <1>4, <1>5
<1> QED
  <2>1. SUFFICES ASSUME NEW t \in TabId, NEW s \in TabId, NEW x \in SavedId,
                        LinksTo(After(q2, d, n)[DraftFile(t)], x),
                        LinksTo(After(q2, d, n)[DraftFile(s)], x)
                 PROVE  s = t
    BY DEF OneDraftPerSaved
  <2>2. CASE LinksTo(After(q, d, m)[DraftFile(t)], x) /\ LinksTo(After(q, d, m)[DraftFile(s)], x)
    BY <2>2, <1>3 DEF OneDraftPerSaved
  <2> QED BY <2>1, <2>2, <1>5

\* What is handed over fits the files.
OpsFit(ops, tc, sc) ==
  /\ \A t \in TabId : Queued(ops, DraftFile(t)) =>
       t <= tc /\ (\/ Newest(ops, DraftFile(t)).file = {}
                   \/ \E v \in Tab : v.saved <= sc /\ Newest(ops, DraftFile(t)).file = {v})
  /\ \A x \in SavedId : Queued(ops, RequestFile(x)) =>
       x <= sc /\ (\/ Newest(ops, RequestFile(x)).file = {}
                   \/ \E c \in Content : Newest(ops, RequestFile(x)).file = {c})
  /\ Queued(ops, WorkspaceFile) => \E l \in Strips : Newest(ops, WorkspaceFile).file = {l}

\* Then the files fit at every point of the queue.
LEMMA TookFits ==
  ASSUME NEW q \in Seq(Operation), OnePerPath(q), NEW ops, NEW q2, Took(q, ops, q2), NEW d,
         NEW tc \in Nat, NEW sc \in Nat, NEW tc2 \in Nat, NEW sc2 \in Nat, tc <= tc2, sc <= sc2,
         \A m \in 0..Len(q) : FilesFit(After(q, d, m), tc, sc),
         OpsFit(ops, tc2, sc2),
         NEW n \in 0..Len(q2)
  PROVE  FilesFit(After(q2, d, n), tc2, sc2)
<1>1. Len(q) \in Nat /\ Len(q2) \in Nat
  BY DEF Took
<1>2. PICK m : (n <= Len(q) => m = n) /\ (~(n <= Len(q)) => m = Len(q))
  OBVIOUS
<1>3. m \in 0..Len(q)
  BY <1>1, <1>2
<1>4. ASSUME NEW p \in Path
      PROVE  \/ After(q2, d, n)[p] = After(q, d, m)[p]
             \/ Queued(ops, p) /\ After(q2, d, n)[p] = Newest(ops, p).file
  BY <1>2, TookPart
<1> DEFINE new == After(q2, d, n)
           old == After(q, d, m)
<1>5. FilesFit(old, tc, sc)
  BY <1>3
<1> HIDE DEF new, old
<1>6. ASSUME NEW t \in TabId
      PROVE  \/ new[DraftFile(t)] = {}
             \/ t <= tc2 /\ \E v \in Tab : v.saved <= sc2 /\ new[DraftFile(t)] = {v}
  <2>1. CASE new[DraftFile(t)] = old[DraftFile(t)]
    <3>1. \/ new[DraftFile(t)] = {}
          \/ t <= tc /\ \E v \in Tab : v.saved <= sc /\ new[DraftFile(t)] = {v}
      BY <2>1, <1>5 DEF FilesFit
    <3>2. t \in Nat /\ \A v \in Tab : v.saved \in Nat
      BY Bounds DEF TabId, Tab, SavedId, None
    <3> QED BY <3>1, <3>2
  <2>2. CASE Queued(ops, DraftFile(t)) /\ new[DraftFile(t)] = Newest(ops, DraftFile(t)).file
    BY <2>2 DEF OpsFit
  <2>3. DraftFile(t) \in Path
    BY Paths
  <2> QED BY <2>1, <2>2, <2>3, <1>4 DEF new, old
<1>7. ASSUME NEW x \in SavedId
      PROVE  \/ new[RequestFile(x)] = {}
             \/ x <= sc2 /\ \E c \in Content : new[RequestFile(x)] = {c}
  <2>1. CASE new[RequestFile(x)] = old[RequestFile(x)]
    <3>1. \/ new[RequestFile(x)] = {}
          \/ x <= sc /\ \E c \in Content : new[RequestFile(x)] = {c}
      BY <2>1, <1>5 DEF FilesFit
    <3>2. x \in Nat
      BY Bounds DEF SavedId
    <3> QED BY <3>1, <3>2
  <2>2. CASE Queued(ops, RequestFile(x)) /\ new[RequestFile(x)] = Newest(ops, RequestFile(x)).file
    BY <2>2 DEF OpsFit
  <2>3. RequestFile(x) \in Path
    BY Paths
  <2> QED BY <2>1, <2>2, <2>3, <1>4 DEF new, old
<1>8. new[WorkspaceFile] = {} \/ \E l \in Strips : new[WorkspaceFile] = {l}
  <2>1. CASE new[WorkspaceFile] = old[WorkspaceFile]
    BY <2>1, <1>5 DEF FilesFit
  <2>2. CASE Queued(ops, WorkspaceFile) /\ new[WorkspaceFile] = Newest(ops, WorkspaceFile).file
    BY <2>2 DEF OpsFit
  <2>3. WorkspaceFile \in Path
    BY Paths
  <2> QED BY <2>1, <2>2, <2>3, <1>4 DEF new, old
<1> QED BY <1>6, <1>7, <1>8 DEF FilesFit, new

-----------------------------------------------------------------------------
(* What a handler sends *)

\* The kinds of numbers.
LEMMA Kinds ==
  /\ TabId \subseteq Nat /\ SavedId \subseteq Nat \ {None} /\ None \in Nat
  /\ \A v \in Tab : /\ v.saved \in Nat /\ v.saved \in SavedId \cup {None} /\ v.content \in Content
                    /\ v.dirty \in BOOLEAN
  /\ Blank \in Tab /\ Blank.saved = None /\ Blank.content = 0 /\ ~Blank.dirty
  /\ Content \subseteq Nat /\ 0 \in Content
BY Bounds DEF TabId, SavedId, None, Tab, Blank, Content

\* Every step that hands ops over keeps the files in order.
LEMMA Sent ==
  ASSUME WriterFits, Bounded, NEW ops, Took(queue, ops, queue'), disk' = disk,
         tabCount <= tabCount', saveCount <= saveCount', Bounded',
         OpsFit(ops, tabCount', saveCount')
  PROVE  /\ WriterFits'
         /\ \A p \in Path : Fate'[p] = IF Queued(ops, p) THEN Newest(ops, p).file ELSE Fate[p]
         /\ NoDoubleLinks /\ (\A t \in TabId, x \in SavedId : NewLink(queue, disk, ops, t, x) =>
               /\ MayLink(queue, disk, t, x)
               /\ \A s \in TabId : NewLink(queue, disk, ops, s, x) => s = t)
            => NoDoubleLinks'
<1>1. /\ queue \in Seq(Operation) /\ OnePerPath(queue)
      /\ queue' \in Seq(Operation) /\ OnePerPath(queue') /\ disk' \in [Path -> SUBSET Data]
  BY DEF WriterFits, Took
<1>2. tabCount \in Nat /\ saveCount \in Nat /\ tabCount' \in Nat /\ saveCount' \in Nat
  BY Bounds DEF Bounded
<1>3. ASSUME NEW n \in 0..Len(queue') PROVE FilesFit(After(queue', disk, n), tabCount', saveCount')
  <2>1. \A m \in 0..Len(queue) : FilesFit(After(queue, disk, m), tabCount, saveCount)
    BY DEF WriterFits
  <2> QED BY <1>1, <1>2, <2>1, TookFits
<1>4. ASSUME NEW t \in TabId, t > tabCount' PROVE ~Queued(queue', DraftFile(t))
  <2>1. t > tabCount /\ ~(t <= tabCount') /\ t \in Nat
    BY <1>4, <1>2, Kinds
  <2>2. ~Queued(queue, DraftFile(t))
    BY <2>1 DEF WriterFits
  <2>3. ~Queued(ops, DraftFile(t))
    BY <2>1 DEF OpsFit
  <2>4. SUFFICES ASSUME NEW i \in DOMAIN queue', queue'[i].path = DraftFile(t) PROVE FALSE
    BY DEF Queued
  <2>5. i \in DOMAIN queue /\ queue'[i] = queue[i]
    BY <2>3, <2>4 DEF Took
  <2> QED BY <2>2, <2>4, <2>5 DEF Queued
<1>5. WriterFits'
  BY <1>1, <1>3, <1>4 DEF WriterFits
<1>6. \A p \in Path : Fate'[p] = IF Queued(ops, p) THEN Newest(ops, p).file ELSE Fate[p]
  BY <1>1, TookFate DEF Fate
<1>7. ASSUME NoDoubleLinks, \A t \in TabId, x \in SavedId : NewLink(queue, disk, ops, t, x) =>
               /\ MayLink(queue, disk, t, x)
               /\ \A s \in TabId : NewLink(queue, disk, ops, s, x) => s = t
      PROVE  NoDoubleLinks'
  <2>1. \A m \in 0..Len(queue) : OneDraftPerSaved(After(queue, disk, m))
    BY <1>7 DEF NoDoubleLinks
  <2>2. ASSUME NEW n \in 0..Len(queue') PROVE OneDraftPerSaved(After(queue', disk, n))
    BY <1>1, <1>7, <2>1, TookLinks
  <2> QED BY <2>2 DEF NoDoubleLinks
<1> QED BY <1>5, <1>6, <1>7

\* A step that hands nothing over.
LEMMA NothingSent ==
  ASSUME UNCHANGED <<queue, disk>>
  PROVE  /\ WriterFits /\ UNCHANGED <<tabCount, saveCount>> => WriterFits'
         /\ Fate' = Fate
         /\ NoDoubleLinks => NoDoubleLinks'
BY DEF WriterFits, Fate, NoDoubleLinks

\* A file holds one thing at most.
LEMMA OneContent ==
  ASSUME WriterFits
  PROVE  /\ \A t \in TabId : \/ Fate[DraftFile(t)] = {}
                             \/ t <= tabCount /\ \E v \in Tab : v.saved <= saveCount /\ Fate[DraftFile(t)] = {v}
         /\ \A x \in SavedId : \/ Fate[RequestFile(x)] = {}
                               \/ x <= saveCount /\ \E c \in Content : Fate[RequestFile(x)] = {c}
         /\ Fate[WorkspaceFile] = {} \/ \E l \in Strips : Fate[WorkspaceFile] = {l}
<1>1. Len(queue) \in 0..Len(queue)
  BY DEF WriterFits
<1>2. FilesFit(Fate, tabCount, saveCount)
  BY <1>1 DEF WriterFits, Fate
<1> QED BY <1>2 DEF FilesFit

\* Changes of a tab.
LEMMA TabChanges ==
  ASSUME NEW v \in Tab
  PROVE  /\ Detached(v) \in Tab /\ Detached(v).saved = None /\ Detached(v).dirty
         /\ Copy(v) \in Tab /\ Copy(v).saved = None /\ Copy(v).dirty
         /\ \A known : /\ v.saved \in known \cup {None} => Relinked(v, known) = v
                       /\ ~(v.saved \in known \cup {None}) => Relinked(v, known) = Detached(v)
BY Kinds DEF Detached, Copy, Relinked, Tab

\* The draft of a tab that is linked has the link, too.
LEMMA OwnLink ==
  ASSUME WriterFits, LinkedFits, DraftsFit, NEW t \in TabId, tab[t].saved # None
  PROVE  LinksTo(Fate[DraftFile(t)], tab[t].saved)
<1>1. IsOpen(t) /\ Fate[DraftFile(t)] # {}
  BY DEF LinkedFits, DraftsFit
<1>2. PICK v : v \in Fate[DraftFile(t)]
  BY <1>1
<1>3. v \in Tab
  BY <1>2, OneContent
<1>4. Relinked(v, DOMAIN saved).saved = tab[t].saved
  BY <1>1, <1>2 DEF DraftsFit
<1>5. v.saved = tab[t].saved
  BY <1>3, <1>4, TabChanges
<1> QED BY <1>2, <1>5 DEF LinksTo

\* What is written fits.
LEMMA Written ==
  ASSUME NEW t \in TabId, NEW v \in Tab
  PROVE  /\ Draft(t, v) \in Operation /\ Draft(t, v).path = DraftFile(t) /\ Draft(t, v).file = {v}
         /\ Delete(DraftFile(t)) \in Operation
         /\ Delete(DraftFile(t)).path = DraftFile(t) /\ Delete(DraftFile(t)).file = {}
BY Paths DEF Draft, Write, Delete, Operation, Data

\* The same for the operations on the file of a saved request,
LEMMA RequestWritten ==
  ASSUME NEW x \in SavedId, NEW c \in Content
  PROVE  /\ Write(RequestFile(x), c) \in Operation
         /\ Write(RequestFile(x), c).path = RequestFile(x) /\ Write(RequestFile(x), c).file = {c}
         /\ Delete(RequestFile(x)) \in Operation
         /\ Delete(RequestFile(x)).path = RequestFile(x) /\ Delete(RequestFile(x)).file = {}
BY Paths DEF Write, Delete, Operation, Data

\* and for the layout.
LEMMA LayoutWritten ==
  ASSUME NEW ts \in Seq(TabId), IsInjective(ts), NEW a \in DOMAIN ts
  PROVE  /\ Layout(ts, a) \in Operation /\ Layout(ts, a).path = WorkspaceFile
         /\ Layout(ts, a).file = {[order |-> ts, active |-> ts[a]]}
         /\ [order |-> ts, active |-> ts[a]] \in Strips
<1>1. [order |-> ts, active |-> ts[a]] \in Strips
  BY DEF Strips
<1> QED BY <1>1, Paths DEF Layout, Write, Operation, Data

\* Two operations on different paths.
LEMMA NewestPair ==
  ASSUME NEW a \in Operation, NEW b \in Operation, a.path # b.path, NEW p
  PROVE  /\ <<a, b>> \in Seq(Operation)
         /\ Queued(<<a, b>>, p) <=> p = a.path \/ p = b.path
         /\ p = a.path => Newest(<<a, b>>, p) = a
         /\ p = b.path => Newest(<<a, b>>, p) = b
<1> DEFINE ops == <<a, b>>
<1>1. ops \in Seq(Operation) /\ DOMAIN ops = 1..2 /\ ops[1] = a /\ ops[2] = b
  OBVIOUS
<1> HIDE DEF ops
<1>2. \A i \in DOMAIN ops : i = 1 \/ i = 2
  BY <1>1
<1>3. 1 \in DOMAIN ops /\ 2 \in DOMAIN ops
  BY <1>1
<1>4. Queued(ops, p) <=> p = a.path \/ p = b.path
  BY <1>1, <1>2, <1>3 DEF Queued
<1>5. ASSUME p = a.path PROVE Newest(ops, p) = a
  <2>1. PICK i \in DOMAIN ops : ops[i].path = p /\ Newest(ops, p) = ops[i]
    BY <1>1, <1>4, <1>5, NewestIs
  <2> QED BY <2>1, <1>1, <1>2, <1>5
<1>6. ASSUME p = b.path PROVE Newest(ops, p) = b
  <2>1. PICK i \in DOMAIN ops : ops[i].path = p /\ Newest(ops, p) = ops[i]
    BY <1>1, <1>4, <1>6, NewestIs
  <2> QED BY <2>1, <1>1, <1>2, <1>6
<1> QED BY <1>1, <1>4, <1>5, <1>6 DEF ops

\* Two tabs or drafts are not linked to one saved request.
LEMMA OneOwner ==
  ASSUME WriterFits, NoDoubleLinks, LinkedFits, DraftsFit,
         NEW t \in TabId, NEW x \in SavedId, tab[t].saved = x, NEW s \in TabId, s # t
  PROVE  tab[s].saved # x /\ ~LinksTo(Fate[DraftFile(s)], x)
<1>1. OneDraftPerSaved(Fate)
  BY DEF NoDoubleLinks, Fate, WriterFits
<1>2. LinksTo(Fate[DraftFile(t)], x)
  BY OwnLink, Kinds
<1>3. ~LinksTo(Fate[DraftFile(s)], x)
  BY <1>1, <1>2 DEF OneDraftPerSaved
<1>4. tab[s].saved # x
  BY <1>3, OwnLink, Kinds
<1> QED BY <1>3, <1>4

\* A request that was not saved yet has no links, however much is performed.
LEMMA FreshRequest ==
  ASSUME WriterFits, Bounded, NEW x, x = saveCount + 1, NEW s \in TabId, NEW m \in 0..Len(queue)
  PROVE  ~LinksTo(After(queue, disk, m)[DraftFile(s)], x)
<1>1. FilesFit(After(queue, disk, m), tabCount, saveCount)
  BY DEF WriterFits
<1>2. saveCount \in Nat
  BY Bounds DEF Bounded
<1>3. ASSUME NEW v \in After(queue, disk, m)[DraftFile(s)] PROVE v.saved <= saveCount /\ v.saved \in Nat
  BY <1>1, Kinds DEF FilesFit
<1> QED BY <1>2, <1>3 DEF LinksTo

\* One operation for each tab of a sequence.
LEMMA EachTyped ==
  ASSUME NEW ts \in Seq(TabId), NEW op \in [TabId -> Operation],
         NEW ops, ops = [i \in DOMAIN ts |-> op[ts[i]]]
  PROVE  ops \in Seq(Operation) /\ DOMAIN ops = DOMAIN ts /\ \A i \in DOMAIN ts : ops[i] = op[ts[i]]
<1>1. Len(ts) \in Nat /\ DOMAIN ts = 1..Len(ts) /\ \A i \in DOMAIN ts : ts[i] \in TabId
  OBVIOUS
<1>2. ops \in [1..Len(ts) -> Operation]
  BY <1>1
<1> QED BY <1>1, <1>2

\* Operations on drafts, one for each tab of ts: the newest on a draft is its tab's.
LEMMA NewestEach ==
  ASSUME NEW ts \in Seq(TabId), NEW op \in [TabId -> Operation],
         \A t \in TabId : op[t].path = DraftFile(t),
         NEW ops \in Seq(Operation), DOMAIN ops = DOMAIN ts,
         \A i \in DOMAIN ts : ops[i] = op[ts[i]]
  PROVE  /\ \A p : Queued(ops, p) <=> \E t \in ToSet(ts) : p = DraftFile(t)
         /\ \A t \in ToSet(ts) : Newest(ops, DraftFile(t)) = op[t]
<1>1. \A i \in DOMAIN ts : ts[i] \in TabId /\ ops[i].path = DraftFile(ts[i])
  OBVIOUS
<1>2. \A p : Queued(ops, p) <=> \E t \in ToSet(ts) : p = DraftFile(t)
  BY <1>1 DEF Queued, ToSet
<1>3. ASSUME NEW t \in ToSet(ts) PROVE Newest(ops, DraftFile(t)) = op[t]
  <2> DEFINE p == DraftFile(t)
  <2>1. PICK i \in DOMAIN ops : ops[i].path = p /\ Newest(ops, p) = ops[i]
    <3>1. Queued(ops, p)
      BY <1>2
    <3> HIDE DEF p
    <3> QED BY <3>1, NewestIs
  <2>2. ts[i] = t
    BY <2>1, <1>1, Paths
  <2> QED BY <2>1, <2>2
<1> QED BY <1>2, <1>3

\* A tab is in the strip.
LEMMA OpenIs ==
  ASSUME WindowFits
  PROVE  /\ ToSet(tabs) \in SUBSET TabId
         /\ \A t : IsOpen(t) <=> t \in ToSet(tabs)
         /\ \A t : IsOpen(t) => t \in TabId /\ t <= tabCount
BY DEF IsOpen, ToSet, WindowFits

-----------------------------------------------------------------------------
(* One lemma per handler: those that leave the strip alone *)

\* A change to a tab starts its timer.
LEMMA EditKeeps ==
  ASSUME IInv, NEW t \in TabId, Edit(t)
  PROVE  IInv'
<1>1. /\ WindowFits /\ Bounded /\ WriterFits /\ LinkedFits
      /\ Acting /\ IsOpen(t) /\ edits < MaxEdits /\ edits' = edits + 1
      /\ tab' = [tab EXCEPT ![t].content = edits + 1, ![t].dirty = TRUE]
      /\ timer' = timer \cup {t}
      /\ UNCHANGED <<phase, tabs, active, saved, dialog, ghosts, queue, disk,
                     tabCount, saveCount, faults, kills>>
  BY DEF IInv, Edit
<1>2. tab \in [TabId -> Tab] /\ edits \in 0..MaxEdits /\ phase = "run"
  BY <1>1 DEF WindowFits, Bounded, Acting
<1>3. edits + 1 \in Content /\ Bounded'
  BY <1>1, <1>2, Bounds DEF Content, Bounded
<1>4. /\ tab' \in [TabId -> Tab]
      /\ tab'[t].saved = tab[t].saved /\ tab'[t].dirty
      /\ \A s \in TabId : s # t => tab'[s] = tab[s]
      /\ \A s \in TabId : tab'[s].saved = tab[s].saved
  BY <1>1, <1>2, <1>3 DEF Tab
<1>5. IsOpen(t)' /\ \A s : IsOpen(s)' = IsOpen(s)
  BY <1>1 DEF IsOpen
<1>6. t \in Alive(tabs, dialog)
  BY <1>1 DEF Alive, IsOpen
<1>7. WindowFits'
  <2>1. \A s \in TabId : s > tabCount' => tab'[s] = Blank
    <3>1. t \in Nat /\ tabCount \in Nat /\ t <= tabCount
      BY <1>1, Kinds, Bounds DEF IsOpen, WindowFits, Bounded
    <3>2. \A s \in TabId : s > tabCount => s # t
      BY <3>1
    <3> QED BY <3>2, <1>1, <1>4 DEF WindowFits
  <2> QED BY <2>1, <1>1, <1>2, <1>4, <1>6 DEF WindowFits
<1>8. LinkedFits'
  BY <1>1, <1>4, <1>5 DEF LinkedFits, HeldBy
<1>9. WriterFits' /\ Fate' = Fate /\ (NoDoubleLinks => NoDoubleLinks')
  BY <1>1, NothingSent
<1>10. ASSUME faults' = 0 PROVE NoDoubleLinks' /\ RequestsFit' /\ DraftsFit' /\ StripFits'
  <2>1. NoDoubleLinks /\ RequestsFit /\ DraftsFit /\ StripFits
    BY <1>1, <1>10 DEF IInv
  <2>2. RequestsFit'
    BY <2>1, <1>1, <1>9 DEF RequestsFit
  <2>3. DraftsFit'
    BY <2>1, <1>1, <1>4, <1>5, <1>9 DEF DraftsFit
  <2>4. StripFits'
    BY <2>1, <1>1, <1>5, <1>9 DEF StripFits
  <2> QED BY <2>1, <2>2, <2>3, <2>4, <1>9
<1>11. ASSUME faults' = 0, kills' = 0 PROVE CleanFits'
  <2>1. CleanFits
    BY <1>1, <1>11 DEF IInv
  <2>2. \A s \in TabId : Agrees(tab'[s], saved)
    BY <2>1, <1>4 DEF CleanFits, Agrees
  <2> QED BY <2>1, <2>2, <1>1, <1>9 DEF CleanFits, Agrees
<1> QED BY <1>3, <1>7, <1>8, <1>9, <1>10, <1>11 DEF IInv

\* When it runs out, the draft is written.
LEMMA TimerKeeps ==
  ASSUME IInv, NEW t \in TabId, TimerFires(t)
  PROVE  IInv'
<1>1. /\ WindowFits /\ Bounded /\ WriterFits /\ LinkedFits
      /\ phase = "run" /\ t \in timer /\ timer' = timer \ {t}
      /\ queue' = Enqueue(queue, Draft(t, tab[t]))
      /\ UNCHANGED <<phase, tabs, active, tab, saved, dialog, ghosts, disk,
                     tabCount, saveCount, edits, faults, kills>>
  BY DEF IInv, TimerFires, counters
<1> DEFINE op  == Draft(t, tab[t])
           ops == <<op>>
<1>2. tab \in [TabId -> Tab] /\ tab[t] \in Tab /\ tab[t].saved <= saveCount /\ t \in Alive(tabs, dialog)
  BY <1>1 DEF WindowFits
<1>3. op \in Operation /\ op.path = DraftFile(t) /\ op.file = {tab[t]}
  BY <1>2, Written
<1>4. IsOpen(t) \/ HeldBy(dialog, t)
  BY <1>2 DEF Alive, IsOpen, HeldBy
<1>5. t <= tabCount
  <2>1. CASE IsOpen(t)
    BY <2>1, <1>1 DEF IsOpen, WindowFits
  <2>2. CASE HeldBy(dialog, t)
    BY <2>2, <1>1 DEF HeldBy, WindowFits
  <2> QED BY <2>1, <2>2, <1>4
<1>6. queue \in Seq(Operation) /\ OnePerPath(queue) /\ queue' = Enqueue(queue, op)
  BY <1>1 DEF WriterFits
<1> HIDE DEF op
<1>7. Took(queue, ops, queue')
  BY <1>3, <1>6, EnqueueTook
<1>8. \A p : Queued(ops, p) <=> p = DraftFile(t)
  BY <1>3, NewestSingle
<1>9. Newest(ops, DraftFile(t)) = op
  BY <1>3, NewestSingle
<1> HIDE DEF ops
<1>10. OpsFit(ops, tabCount, saveCount)
  BY <1>2, <1>3, <1>5, <1>8, <1>9, Paths DEF OpsFit
<1>11. Bounded' /\ tabCount \in Nat /\ saveCount \in Nat
  BY <1>1, Bounds DEF Bounded
<1>12. /\ WriterFits'
       /\ \A p \in Path : Fate'[p] = IF Queued(ops, p) THEN Newest(ops, p).file ELSE Fate[p]
       /\ NoDoubleLinks /\ (\A s \in TabId, x \in SavedId : NewLink(queue, disk, ops, s, x) =>
             /\ MayLink(queue, disk, s, x)
             /\ \A r \in TabId : NewLink(queue, disk, ops, r, x) => r = s)
          => NoDoubleLinks'
  BY <1>1, <1>7, <1>10, <1>11, Sent
<1>13. \A p \in Path : Fate'[p] = IF p = DraftFile(t) THEN {tab[t]} ELSE Fate[p]
  BY <1>3, <1>8, <1>9, <1>12
<1>14. /\ Fate'[DraftFile(t)] = {tab[t]} /\ Fate'[WorkspaceFile] = Fate[WorkspaceFile]
       /\ \A s \in TabId : s # t => Fate'[DraftFile(s)] = Fate[DraftFile(s)]
       /\ \A x \in SavedId : Fate'[RequestFile(x)] = Fate[RequestFile(x)]
  BY <1>13, Paths
<1>15. \A s : IsOpen(s)' = IsOpen(s)
  BY <1>1 DEF IsOpen
<1>16. WindowFits'
  BY <1>1 DEF WindowFits, Acting
<1>17. LinkedFits'
  BY <1>1, <1>15 DEF LinkedFits
<1>18. ASSUME faults' = 0 PROVE NoDoubleLinks' /\ RequestsFit' /\ DraftsFit' /\ StripFits'
  <2>1. NoDoubleLinks /\ RequestsFit /\ DraftsFit /\ StripFits
    BY <1>1, <1>18 DEF IInv
  <2>2. ASSUME NEW s \in TabId, NEW x \in SavedId, NewLink(queue, disk, ops, s, x) PROVE FALSE
    <3>1. s = t /\ tab[t].saved = x /\ ~LinksTo(Fate[DraftFile(t)], x)
      BY <2>2, <1>3, <1>8, <1>9, Paths DEF NewLink, LinksTo, Fate
    <3> QED BY <3>1, <2>1, <1>1, OwnLink, Kinds
  <2>3. NoDoubleLinks'
    BY <2>1, <2>2, <1>12
  <2>4. RequestsFit'
    BY <2>1, <1>1, <1>14 DEF RequestsFit
  <2>5. DraftsFit'
    <3>1. SUFFICES ASSUME NEW s \in TabId
          PROVE  /\ IsOpen(s) => Fate'[DraftFile(s)] # {}
                 /\ Fate'[DraftFile(s)] # {} => IsOpen(s) \/ s \in ghosts
                 /\ \A v \in Fate'[DraftFile(s)] :
                      /\ IsOpen(s) => /\ Relinked(v, DOMAIN saved).saved = tab[s].saved
                                      /\ s \in timer' \/ Relinked(v, DOMAIN saved) = tab[s]
                      /\ ~IsOpen(s) => v.saved = None
      BY <1>1, <1>15 DEF DraftsFit
    <3>2. CASE s # t
      BY <3>2, <2>1, <1>1, <1>14 DEF DraftsFit
    <3>3. CASE s = t
      <4>1. tab[t].saved \in DOMAIN saved \cup {None}
        BY <1>1 DEF LinkedFits
      <4>2. Relinked(tab[t], DOMAIN saved) = tab[t]
        BY <4>1, <1>2, TabChanges
      <4>3. IsOpen(t) \/ (t \in ghosts /\ tab[t].saved = None)
        BY <1>1, <1>4 DEF LinkedFits
      <4> QED BY <3>3, <4>2, <4>3, <1>14
    <3> QED BY <3>2, <3>3
  <2>6. StripFits'
    <3>1. CASE Fate[WorkspaceFile] = {[order |-> tabs, active |-> tabs[active]]}
      BY <3>1, <1>1, <1>14 DEF StripFits
    <3>2. CASE /\ \A s \in TabId : Fate[DraftFile(s)] # {} \/ s \in Alive(tabs, dialog) => IsOpen(s)
               /\ tabs = OrderedBy(Fate[WorkspaceFile], ToSet(tabs))
               /\ active = ActiveIn(Fate[WorkspaceFile], tabs)
      <4>1. \A s \in TabId : Fate'[DraftFile(s)] # {} \/ s \in Alive(tabs, dialog) => IsOpen(s)
        BY <3>2, <1>2, <1>14
      <4> QED BY <3>2, <4>1, <1>1, <1>14, <1>15 DEF StripFits
    <3> QED BY <2>1, <3>1, <3>2 DEF StripFits
  <2> QED BY <2>3, <2>4, <2>5, <2>6
<1>19. ASSUME faults' = 0, kills' = 0 PROVE CleanFits'
  <2>1. CleanFits
    BY <1>1, <1>19 DEF IInv
  <2>2. tab[t].saved # None => tab[t].saved \in DOMAIN saved
    BY <1>1 DEF LinkedFits
  <2>3. ASSUME NEW s \in TabId, NEW v \in Fate'[DraftFile(s)]
        PROVE  Agrees(v, saved) /\ (v.saved # None => v.saved \in DOMAIN saved)
    <3>1. CASE s = t
      BY <3>1, <2>1, <2>2, <2>3, <1>14 DEF CleanFits
    <3>2. CASE s # t
      BY <3>2, <2>1, <2>3, <1>14 DEF CleanFits
    <3> QED BY <3>1, <3>2
  <2> QED BY <2>1, <2>3, <1>1 DEF CleanFits, Agrees
<1> QED BY <1>11, <1>12, <1>16, <1>17, <1>18, <1>19 DEF IInv

\* Another tab becomes the active one.
LEMMA ActivateKeeps ==
  ASSUME IInv, NEW i \in DOMAIN tabs, Activate(i)
  PROVE  IInv'
<1>1. /\ WindowFits /\ Bounded /\ WriterFits /\ LinkedFits
      /\ phase = "run" /\ active' = i
      /\ queue' = Enqueue(queue, Layout(tabs, i))
      /\ UNCHANGED <<phase, tabs, tab, timer, saved, dialog, ghosts, disk,
                     tabCount, saveCount, edits, faults, kills>>
  BY DEF IInv, Activate, Acting, counters
<1> DEFINE op  == Layout(tabs, i)
           ops == <<op>>
           l   == [order |-> tabs, active |-> tabs[i]]
<1>2. tabs \in Seq(TabId) /\ IsInjective(tabs)
  BY <1>1 DEF WindowFits
<1>3. op \in Operation /\ op.path = WorkspaceFile /\ op.file = {l} /\ l \in Strips
  BY <1>2, LayoutWritten
<1>4. queue \in Seq(Operation) /\ OnePerPath(queue) /\ queue' = Enqueue(queue, op)
  BY <1>1 DEF WriterFits
<1> HIDE DEF op
<1>5. Took(queue, ops, queue')
  BY <1>3, <1>4, EnqueueTook
<1>6. \A p : Queued(ops, p) <=> p = WorkspaceFile
  BY <1>3, NewestSingle
<1>7. Newest(ops, WorkspaceFile) = op
  BY <1>3, NewestSingle
<1> HIDE DEF ops, l
<1>8. OpsFit(ops, tabCount, saveCount)
  BY <1>3, <1>6, <1>7, Paths DEF OpsFit
<1>9. Bounded' /\ tabCount \in Nat /\ saveCount \in Nat
  BY <1>1, Bounds DEF Bounded
<1>10. /\ WriterFits'
       /\ \A p \in Path : Fate'[p] = IF Queued(ops, p) THEN Newest(ops, p).file ELSE Fate[p]
       /\ NoDoubleLinks /\ (\A s \in TabId, x \in SavedId : NewLink(queue, disk, ops, s, x) =>
             /\ MayLink(queue, disk, s, x)
             /\ \A r \in TabId : NewLink(queue, disk, ops, r, x) => r = s)
          => NoDoubleLinks'
  BY <1>1, <1>5, <1>8, <1>9, Sent
<1>11. \A s \in TabId, x \in SavedId : ~NewLink(queue, disk, ops, s, x)
  BY <1>6, Paths DEF NewLink
<1>12. /\ Fate'[WorkspaceFile] = {l}
       /\ \A s \in TabId : Fate'[DraftFile(s)] = Fate[DraftFile(s)]
       /\ \A x \in SavedId : Fate'[RequestFile(x)] = Fate[RequestFile(x)]
  BY <1>3, <1>6, <1>7, <1>10, Paths
<1>13. \A s : IsOpen(s)' = IsOpen(s)
  BY <1>1 DEF IsOpen
<1>14. WindowFits'
  BY <1>1 DEF WindowFits
<1>15. LinkedFits'
  BY <1>1, <1>13 DEF LinkedFits
<1>16. ASSUME faults' = 0 PROVE NoDoubleLinks' /\ RequestsFit' /\ DraftsFit' /\ StripFits'
  <2>1. NoDoubleLinks /\ RequestsFit /\ DraftsFit
    BY <1>1, <1>16 DEF IInv
  <2>2. NoDoubleLinks'
    BY <2>1, <1>10, <1>11
  <2>3. RequestsFit'
    BY <2>1, <1>1, <1>12 DEF RequestsFit
  <2>4. DraftsFit'
    BY <2>1, <1>1, <1>12, <1>13 DEF DraftsFit
  <2>5. StripFits'
    BY <1>1, <1>12 DEF StripFits, l
  <2> QED BY <2>2, <2>3, <2>4, <2>5
<1>17. ASSUME faults' = 0, kills' = 0 PROVE CleanFits'
  <2>1. CleanFits
    BY <1>1, <1>17 DEF IInv
  <2> QED BY <2>1, <1>1, <1>12 DEF CleanFits, Agrees
<1> QED BY <1>9, <1>10, <1>14, <1>15, <1>16, <1>17 DEF IInv

\* The save and the delete dialog are opened, ...
LEMMA OpenDialogKeeps ==
  ASSUME IInv, NEW d \in Dialog, OpenDialog(d),
         \/ /\ d.kind = "save" /\ IsOpen(d.id) /\ tab[d.id].saved = None
         \/ /\ d.kind = "delete" /\ d.id \in DOMAIN saved
  PROVE  IInv'
<1>1. /\ WindowFits /\ Bounded /\ WriterFits /\ LinkedFits
      /\ phase = "run" /\ dialog = NoDialog /\ dialog' = d
      /\ UNCHANGED <<phase, tabs, active, tab, timer, saved, ghosts, queue, disk,
                     tabCount, saveCount, edits, faults, kills>>
  BY DEF IInv, OpenDialog, Acting, counters
<1>2. \A s : IsOpen(s)' = IsOpen(s)
  BY <1>1 DEF IsOpen
<1>3. ASSUME NEW s, HeldBy(d, s) PROVE IsOpen(s) /\ tab[s].saved = None
  <2>1. d.kind = "save" /\ d.id = s
    BY <1>3 DEF HeldBy
  <2> QED BY <2>1
<1>4. \A s : ~HeldBy(dialog, s)
  BY <1>1 DEF HeldBy, NoDialog
<1>5. Alive(tabs', dialog') = Alive(tabs, dialog)
  BY <1>1, <1>3, <1>4 DEF Alive, HeldBy, IsOpen
<1>6. Bounded'
  BY <1>1 DEF Bounded
<1>7. WindowFits'
  <2>1. d.kind = "save" => d.id <= tabCount
    BY <1>1 DEF IsOpen, WindowFits
  <2>2. d.kind = "delete" => d.id <= saveCount
    BY <1>1 DEF WindowFits
  <2> QED BY <1>1, <1>5, <2>1, <2>2 DEF WindowFits
<1>8. LinkedFits'
  BY <1>1, <1>2, <1>3 DEF LinkedFits
<1>9. WriterFits' /\ Fate' = Fate /\ (NoDoubleLinks => NoDoubleLinks')
  BY <1>1, NothingSent
<1>10. ASSUME faults' = 0 PROVE NoDoubleLinks' /\ RequestsFit' /\ DraftsFit' /\ StripFits'
  <2>1. NoDoubleLinks /\ RequestsFit /\ DraftsFit /\ StripFits
    BY <1>1, <1>10 DEF IInv
  <2>2. RequestsFit'
    BY <2>1, <1>1, <1>9 DEF RequestsFit
  <2>3. DraftsFit'
    BY <2>1, <1>1, <1>2, <1>9 DEF DraftsFit
  <2>4. StripFits'
    BY <2>1, <1>1, <1>2, <1>5, <1>9 DEF StripFits
  <2> QED BY <2>1, <2>2, <2>3, <2>4, <1>9
<1>11. ASSUME faults' = 0, kills' = 0 PROVE CleanFits'
  <2>1. CleanFits
    BY <1>1, <1>11 DEF IInv
  <2> QED BY <2>1, <1>1, <1>9 DEF CleanFits, Agrees
<1> QED BY <1>6, <1>7, <1>8, <1>9, <1>10, <1>11 DEF IInv

\* ... and closed: a tab that only the dialog held is gone.
LEMMA CloseDialogKeeps ==
  ASSUME IInv, CloseDialog
  PROVE  IInv'
<1> DEFINE alive == Alive(tabs, NoDialog)
<1>1. /\ WindowFits /\ Bounded /\ WriterFits /\ LinkedFits
      /\ phase = "run" /\ dialog' = NoDialog
      /\ tab' = [t \in TabId |-> IF t \in alive THEN tab[t] ELSE Blank]
      /\ timer' = timer \cap alive
      /\ UNCHANGED <<phase, tabs, active, saved, ghosts, queue, disk,
                     tabCount, saveCount, edits, faults, kills>>
  BY DEF IInv, CloseDialog, Acting, counters, Dropped
<1>2. \A s : IsOpen(s)' = IsOpen(s)
  BY <1>1 DEF IsOpen
<1>3. \A s \in TabId : s \in alive <=> IsOpen(s)
  BY DEF Alive, IsOpen, NoDialog
<1>4. \A s : ~HeldBy(dialog', s)
  BY <1>1 DEF HeldBy, NoDialog
<1>5. alive = Alive(tabs', dialog') /\ alive \subseteq Alive(tabs, dialog) /\ alive \subseteq TabId
  BY <1>1 DEF Alive, NoDialog
<1> HIDE DEF alive
<1>6. tab' \in [TabId -> Tab] /\ \A s \in TabId : tab'[s] = tab[s] \/ (tab'[s] = Blank /\ ~IsOpen(s))
  BY <1>1, <1>3, Kinds DEF WindowFits
<1>7. Bounded' /\ saveCount \in Nat
  BY <1>1, Bounds DEF Bounded
<1>8. WindowFits'
  <2>1. \A s \in TabId : tab'[s].saved <= saveCount
    BY <1>1, <1>6, <1>7, Kinds DEF WindowFits, None
  <2>2. dialog' \in Dialog /\ dialog'.kind = "none"
    BY <1>1 DEF Dialog, NoDialog
  <2> QED BY <1>1, <1>5, <1>6, <2>1, <2>2 DEF WindowFits
<1>9. LinkedFits'
  BY <1>1, <1>2, <1>4, <1>6, Kinds DEF LinkedFits
<1>10. WriterFits' /\ Fate' = Fate /\ (NoDoubleLinks => NoDoubleLinks')
  BY <1>1, NothingSent
<1>11. ASSUME faults' = 0 PROVE NoDoubleLinks' /\ RequestsFit' /\ DraftsFit' /\ StripFits'
  <2>1. NoDoubleLinks /\ RequestsFit /\ DraftsFit /\ StripFits
    BY <1>1, <1>11 DEF IInv
  <2>2. RequestsFit'
    BY <2>1, <1>1, <1>10 DEF RequestsFit
  <2>3. DraftsFit'
    <3>1. \A s \in TabId : IsOpen(s) => tab'[s] = tab[s] /\ (s \in timer' <=> s \in timer)
      BY <1>1, <1>3
    <3> QED BY <2>1, <3>1, <1>1, <1>2, <1>10 DEF DraftsFit
  <2>4. StripFits'
    BY <2>1, <1>1, <1>2, <1>3, <1>5, <1>10 DEF StripFits
  <2> QED BY <2>1, <2>2, <2>3, <2>4, <1>10
<1>12. ASSUME faults' = 0, kills' = 0 PROVE CleanFits'
  <2>1. CleanFits
    BY <1>1, <1>12 DEF IInv
  <2>2. \A s \in TabId : Agrees(tab'[s], saved)
    BY <2>1, <1>6, Kinds DEF CleanFits, Agrees
  <2> QED BY <2>1, <2>2, <1>1, <1>10 DEF CleanFits, Agrees
<1> QED BY <1>7, <1>8, <1>9, <1>10, <1>11, <1>12 DEF IInv

\* A tab is saved, over its request or as a new one.
LEMMA SaveKeeps ==
  ASSUME IInv, NEW t \in TabId, IsOpen(t), NEW x \in SavedId, SaveAs(t, x),
         phase = "run", timer' = timer \ {t},
         \/ x = tab[t].saved /\ UNCHANGED <<saveCount, dialog>>
         \/ /\ tab[t].saved = None /\ x = saveCount + 1 /\ saveCount' = saveCount + 1
            /\ dialog' = NoDialog /\ \A s : HeldBy(dialog, s) => IsOpen(s),
         UNCHANGED <<phase, tabs, active, ghosts, disk, tabCount, edits, faults, kills>>
  PROVE  IInv'
<1> DEFINE value == [tab[t] EXCEPT !.saved = x, !.dirty = FALSE]
           a     == Write(RequestFile(x), value.content)
           b     == Draft(t, value)
           ops   == <<a, b>>
<1>1. /\ WindowFits /\ Bounded /\ WriterFits /\ LinkedFits
      /\ saved' = [y \in DOMAIN saved \cup {x} |-> IF y = x THEN value.content ELSE saved[y]]
      /\ tab' = [tab EXCEPT ![t] = value]
      /\ queue' = Enqueued(queue, ops)
  BY DEF IInv, SaveAs, Send
<1>2. tab \in [TabId -> Tab] /\ tab[t] \in Tab /\ tab[t].saved <= saveCount
  BY <1>1 DEF WindowFits
<1>3. value \in Tab /\ value.saved = x /\ ~value.dirty /\ value.content \in Content
  BY <1>2 DEF Tab
<1>4. saveCount \in Nat /\ tabCount \in Nat /\ saveCount \in 0..MaxSaves
  BY <1>1, Bounds DEF Bounded
<1>5. x <= saveCount' /\ saveCount <= saveCount' /\ Bounded'
  <2>1. x \in Nat /\ x <= MaxSaves
    BY Bounds DEF SavedId
  <2>2. CASE x = tab[t].saved /\ saveCount' = saveCount
    BY <2>2, <1>1, <1>2, <1>4 DEF Bounded
  <2>3. CASE x = saveCount + 1 /\ saveCount' = saveCount + 1
    BY <2>1, <2>3, <1>1, <1>4, Bounds DEF Bounded
  <2> QED BY <2>2, <2>3
<1> HIDE DEF value
<1>6. t <= tabCount
  BY <1>1 DEF IsOpen, WindowFits
<1>7. /\ a \in Operation /\ a.path = RequestFile(x) /\ a.file = {value.content}
      /\ b \in Operation /\ b.path = DraftFile(t) /\ b.file = {value}
  BY <1>3, Written, RequestWritten
<1> HIDE DEF a, b
<1>8. a.path # b.path
  BY <1>7, Paths
<1>9. /\ ops \in Seq(Operation)
      /\ \A p : /\ Queued(ops, p) <=> p = RequestFile(x) \/ p = DraftFile(t)
                /\ p = RequestFile(x) => Newest(ops, p) = a
                /\ p = DraftFile(t) => Newest(ops, p) = b
  BY <1>7, <1>8, NewestPair
<1> HIDE DEF ops
<1>10. queue \in Seq(Operation) /\ OnePerPath(queue)
  BY <1>1 DEF WriterFits
<1>11. Took(queue, ops, queue')
  BY <1>1, <1>9, <1>10, EnqueuedTook
<1>12. OpsFit(ops, tabCount', saveCount')
  BY <1>3, <1>5, <1>6, <1>7, <1>9, Paths DEF OpsFit
<1>13. /\ WriterFits'
       /\ \A p \in Path : Fate'[p] = IF Queued(ops, p) THEN Newest(ops, p).file ELSE Fate[p]
       /\ NoDoubleLinks /\ (\A s \in TabId, y \in SavedId : NewLink(queue, disk, ops, s, y) =>
             /\ MayLink(queue, disk, s, y)
             /\ \A r \in TabId : NewLink(queue, disk, ops, r, y) => r = s)
          => NoDoubleLinks'
  BY <1>1, <1>4, <1>5, <1>11, <1>12, Sent
<1>14. /\ Fate'[DraftFile(t)] = {value} /\ Fate'[RequestFile(x)] = {value.content}
       /\ Fate'[WorkspaceFile] = Fate[WorkspaceFile]
       /\ \A s \in TabId : s # t => Fate'[DraftFile(s)] = Fate[DraftFile(s)]
       /\ \A y \in SavedId : y # x => Fate'[RequestFile(y)] = Fate[RequestFile(y)]
  BY <1>7, <1>9, <1>13, Paths
<1>15. \A s : IsOpen(s)' = IsOpen(s)
  BY DEF IsOpen
<1>16. /\ DOMAIN saved' = DOMAIN saved \cup {x} /\ saved'[x] = value.content
       /\ \A y \in DOMAIN saved : y # x => saved'[y] = saved[y]
  BY <1>1
<1>17. /\ tab' \in [TabId -> Tab] /\ tab'[t] = value
       /\ \A s \in TabId : s # t => tab'[s] = tab[s]
  BY <1>1, <1>2, <1>3
<1>18. \A s : HeldBy(dialog', s) => HeldBy(dialog, s)
  BY DEF HeldBy, NoDialog
<1>19. Alive(tabs', dialog') \subseteq Alive(tabs, dialog)
  BY DEF Alive, NoDialog
<1>20. WindowFits'
  <2>1. \A s \in TabId : tab'[s].saved <= saveCount'
    <3>1. \A s \in TabId : tab[s].saved <= saveCount /\ tab[s].saved \in Nat
      BY <1>1, <1>2, Kinds DEF WindowFits
    <3> QED BY <3>1, <1>3, <1>4, <1>5, <1>17
  <2>2. \A y \in DOMAIN saved' : y <= saveCount'
    <3>1. \A y \in DOMAIN saved : y <= saveCount /\ y \in Nat
      BY <1>1, Kinds DEF WindowFits
    <3> QED BY <3>1, <1>4, <1>5, <1>16
  <2>3. saved' \in [DOMAIN saved' -> Content] /\ DOMAIN saved' \subseteq SavedId
    <3>1. saved \in [DOMAIN saved -> Content] /\ DOMAIN saved \subseteq SavedId
      BY <1>1 DEF WindowFits
    <3>2. \A y \in DOMAIN saved' : saved'[y] \in Content
      BY <3>1, <1>3, <1>16
    <3>3. saved' = [y \in DOMAIN saved' |-> saved'[y]]
      BY <1>1
    <3> QED BY <3>1, <3>2, <3>3, <1>16
  <2>4. timer' \in SUBSET TabId /\ timer' \subseteq Alive(tabs', dialog')
    <3>1. timer \in SUBSET TabId /\ timer \subseteq Alive(tabs, dialog)
      BY <1>1 DEF WindowFits
    <3>2. ASSUME NEW s \in TabId, s \in Alive(tabs, dialog) PROVE s \in Alive(tabs', dialog')
      BY <3>2 DEF Alive, HeldBy, IsOpen
    <3> QED BY <3>1, <3>2
  <2>5. /\ dialog' \in Dialog
        /\ dialog'.kind = "save" => dialog'.id <= tabCount'
        /\ dialog'.kind = "delete" => dialog'.id <= saveCount'
    <3>1. /\ dialog \in Dialog
          /\ dialog.kind = "save" => dialog.id <= tabCount
          /\ dialog.kind = "delete" => dialog.id <= saveCount
          /\ dialog.kind = "delete" => dialog.id \in Nat
      BY <1>1, Kinds DEF WindowFits, Dialog
    <3>2. CASE dialog' = dialog
      BY <3>1, <3>2, <1>4, <1>5
    <3>3. CASE dialog' = NoDialog
      BY <3>3 DEF NoDialog, Dialog
    <3> QED BY <3>2, <3>3
  <2>6. \A s \in TabId : s > tabCount' => tab'[s] = Blank
    <3>1. \A s \in TabId : s > tabCount => s # t
      BY <1>4, <1>6, Kinds
    <3> QED BY <3>1, <1>1, <1>17 DEF WindowFits
  <2> QED BY <2>1, <2>2, <2>3, <2>4, <2>5, <2>6, <1>1, <1>17 DEF WindowFits
<1>21. LinkedFits'
  <2>1. SUFFICES ASSUME NEW s \in TabId
        PROVE  /\ tab'[s].saved # None => IsOpen(s) /\ tab'[s].saved \in DOMAIN saved'
               /\ HeldBy(dialog', s) => tab'[s].saved = None /\ (IsOpen(s) \/ s \in ghosts)
    BY <1>15 DEF LinkedFits
  <2>2. CASE s # t
    BY <2>2, <1>1, <1>16, <1>17, <1>18 DEF LinkedFits
  <2>3. CASE s = t
    <3>1. ~HeldBy(dialog', t)
      <4>1. CASE x = tab[t].saved
        BY <4>1, <1>1, <1>18, Kinds DEF LinkedFits
      <4>2. CASE dialog' = NoDialog
        BY <4>2 DEF HeldBy, NoDialog
      <4> QED BY <4>1, <4>2
    <3> QED BY <2>3, <3>1, <1>3, <1>16, <1>17
  <2> QED BY <2>2, <2>3
<1>22. ASSUME faults' = 0
       PROVE  \A s \in TabId : s # t => tab[s].saved # x /\ ~LinksTo(Fate[DraftFile(s)], x)
  <2>1. NoDoubleLinks /\ DraftsFit
    BY <1>22 DEF IInv
  <2>2. CASE x = tab[t].saved
    BY <2>1, <2>2, <1>1, OneOwner
  <2>3. CASE x = saveCount + 1
    <3>1. Len(queue) \in 0..Len(queue)
      BY <1>10
    <3>2. \A s \in TabId : ~LinksTo(Fate[DraftFile(s)], x)
      BY <2>3, <3>1, <1>1, FreshRequest DEF Fate
    <3>3. \A s \in TabId : tab[s].saved <= saveCount /\ tab[s].saved \in Nat
      BY <1>1, <1>2, Kinds DEF WindowFits
    <3> QED BY <2>3, <3>2, <3>3, <1>4
  <2> QED BY <2>2, <2>3
<1>23. ASSUME faults' = 0 PROVE NoDoubleLinks' /\ RequestsFit' /\ DraftsFit' /\ StripFits'
  <2>1. NoDoubleLinks /\ RequestsFit /\ DraftsFit /\ StripFits
    BY <1>23 DEF IInv
  <2>2. NoDoubleLinks'
    <3>1. ASSUME NEW s \in TabId, NEW y \in SavedId, NewLink(queue, disk, ops, s, y)
          PROVE  s = t /\ y = x /\ MayLink(queue, disk, s, y)
      <4>1. s = t /\ y = x /\ ~LinksTo(Fate[DraftFile(t)], x)
        BY <3>1, <1>3, <1>7, <1>9, Paths DEF NewLink, LinksTo, Fate
      <4>2. x # tab[t].saved
        BY <4>1, <2>1, <1>1, OwnLink, Kinds
      <4>3. x = saveCount + 1
        BY <4>2
      <4>4. \A m \in 0..Len(queue), r \in TabId : ~LinksTo(After(queue, disk, m)[DraftFile(r)], x)
        BY <4>3, <1>1, FreshRequest
      <4> QED BY <4>1, <4>4 DEF MayLink
    <3> QED BY <3>1, <2>1, <1>13
  <2>3. RequestsFit'
    BY <2>1, <1>14, <1>16 DEF RequestsFit
  <2>4. DraftsFit'
    <3>1. SUFFICES ASSUME NEW s \in TabId
          PROVE  /\ IsOpen(s) => Fate'[DraftFile(s)] # {}
                 /\ Fate'[DraftFile(s)] # {} => IsOpen(s) \/ s \in ghosts
                 /\ \A v \in Fate'[DraftFile(s)] :
                      /\ IsOpen(s) => /\ Relinked(v, DOMAIN saved').saved = tab'[s].saved
                                      /\ s \in timer' \/ Relinked(v, DOMAIN saved') = tab'[s]
                      /\ ~IsOpen(s) => v.saved = None
      BY <1>15 DEF DraftsFit
    <3>2. CASE s # t
      <4>1. ASSUME NEW v \in Fate[DraftFile(s)]
            PROVE  Relinked(v, DOMAIN saved') = Relinked(v, DOMAIN saved)
        <5>1. v.saved # x
          BY <3>2, <4>1, <1>22, <1>23 DEF LinksTo
        <5> QED BY <5>1, <1>16 DEF Relinked
      <4>2. Fate'[DraftFile(s)] = Fate[DraftFile(s)] /\ tab'[s] = tab[s] /\ (s \in timer' <=> s \in timer)
        BY <3>2, <1>14, <1>17
      <4> QED BY <4>1, <4>2, <2>1 DEF DraftsFit
    <3>3. CASE s = t
      <4>1. Relinked(value, DOMAIN saved') = value
        BY <1>3, <1>16, TabChanges
      <4> QED BY <3>3, <4>1, <1>14, <1>17
    <3> QED BY <3>2, <3>3
  <2>5. StripFits'
    <3>1. CASE Fate[WorkspaceFile] = {[order |-> tabs, active |-> tabs[active]]}
      BY <3>1, <1>14 DEF StripFits
    <3>2. CASE /\ \A s \in TabId : Fate[DraftFile(s)] # {} \/ s \in Alive(tabs, dialog) => IsOpen(s)
               /\ tabs = OrderedBy(Fate[WorkspaceFile], ToSet(tabs))
               /\ active = ActiveIn(Fate[WorkspaceFile], tabs)
      <4>1. \A s \in TabId : Fate'[DraftFile(s)] # {} \/ s \in Alive(tabs', dialog') => IsOpen(s)
        BY <3>2, <1>14, <1>19
      <4> QED BY <3>2, <4>1, <1>14, <1>15 DEF StripFits
    <3> QED BY <2>1, <3>1, <3>2 DEF StripFits
  <2> QED BY <2>2, <2>3, <2>4, <2>5
<1>24. ASSUME faults' = 0, kills' = 0 PROVE CleanFits'
  <2>1. CleanFits
    BY <1>24 DEF IInv
  <2>2. ASSUME NEW v, v.saved # x, Agrees(v, saved) PROVE Agrees(v, saved')
    BY <2>2, <1>16 DEF Agrees
  <2>3. Agrees(value, saved')
    BY <1>3, <1>16, Kinds DEF Agrees
  <2>4. \A s \in TabId : Agrees(tab'[s], saved')
    BY <2>1, <2>2, <2>3, <1>17, <1>22, <1>24 DEF CleanFits
  <2>5. ASSUME NEW s \in TabId, NEW v \in Fate'[DraftFile(s)]
        PROVE  Agrees(v, saved') /\ (v.saved # None => v.saved \in DOMAIN saved')
    <3>1. CASE s = t
      BY <3>1, <2>3, <2>5, <1>3, <1>14, <1>16
    <3>2. CASE s # t
      <4>1. v \in Fate[DraftFile(s)] /\ v.saved # x
        BY <3>2, <2>5, <1>14, <1>22, <1>24 DEF LinksTo
      <4> QED BY <4>1, <2>1, <2>2, <1>16 DEF CleanFits
    <3> QED BY <3>1, <3>2
  <2> QED BY <2>4, <2>5 DEF CleanFits
<1> QED BY <1>5, <1>13, <1>20, <1>21, <1>23, <1>24 DEF IInv


\* overwrite_saved and finish_save.
LEMMA OverwriteKeeps ==
  ASSUME IInv, Overwrite
  PROVE  IInv'
<1> DEFINE t == tabs[active]
<1>1. /\ phase = "run" /\ tab[t].saved # None /\ SaveAs(t, tab[t].saved) /\ timer' = timer \ {t}
      /\ UNCHANGED <<phase, tabs, active, dialog, ghosts, disk, tabCount, saveCount, edits, faults, kills>>
  BY DEF Overwrite, Acting, counters
<1>2. t \in TabId /\ IsOpen(t) /\ tab[t] \in Tab
  BY DEF IInv, WindowFits, IsOpen
<1>3. tab[t].saved \in SavedId
  BY <1>1, <1>2, Kinds
<1> HIDE DEF t
<1> QED BY <1>1, <1>2, <1>3, SaveKeeps

\* ConfirmSave: the tab gets a link to a new saved request.
LEMMA ConfirmSaveKeeps ==
  ASSUME IInv, ConfirmSave
  PROVE  IInv'
<1> DEFINE t == dialog.id
<1>1. /\ phase = "run" /\ dialog.kind = "save" /\ IsOpen(t) /\ saveCount < MaxSaves
      /\ saveCount' = saveCount + 1 /\ SaveAs(t, saveCount + 1) /\ timer' = timer \ {t}
      /\ dialog' = NoDialog
      /\ UNCHANGED <<phase, tabs, active, ghosts, disk, tabCount, edits, faults, kills>>
  BY DEF ConfirmSave, Acting
<1>2. WindowFits /\ Bounded /\ LinkedFits
  BY DEF IInv
<1>3. t \in TabId
  BY <1>1, <1>2, OpenIs
<1>4. HeldBy(dialog, t) /\ \A s : HeldBy(dialog, s) => s = t
  BY <1>1, <1>2 DEF WindowFits, Dialog, HeldBy, NoDialog
<1>5. tab[t].saved = None
  BY <1>2, <1>3, <1>4 DEF LinkedFits
<1>6. saveCount + 1 \in SavedId
  BY <1>1, <1>2, Bounds DEF Bounded, SavedId
<1>7. \A s : HeldBy(dialog, s) => IsOpen(s)
  BY <1>1, <1>4
<1> HIDE DEF t
<1> DEFINE x == saveCount + 1
<1>8. x \in SavedId /\ x = saveCount + 1 /\ SaveAs(t, x)
  BY <1>1, <1>6
<1> HIDE DEF x
<1> QED BY <1>1, <1>3, <1>5, <1>7, <1>8, SaveKeeps

\* delete_saved: the tab that was linked is unsaved from now on.
LEMMA ConfirmDeleteKeeps ==
  ASSUME IInv, ConfirmDelete
  PROVE  IInv'
<1> DEFINE x      == dialog.id
           I      == {i \in DOMAIN tabs : tab[tabs[i]].saved = x}
           linked == Picked(tabs, I)
           op     == [t \in TabId |-> Draft(t, Detached(tab[t]))]
           a      == Delete(RequestFile(x))
           b      == [i \in DOMAIN linked |-> Draft(linked[i], Detached(tab[linked[i]]))]
           ops    == <<a>> \o b
<1>1. /\ WindowFits /\ Bounded /\ WriterFits /\ LinkedFits
      /\ phase = "run" /\ dialog.kind = "delete" /\ dialog' = NoDialog
      /\ saved' = [y \in DOMAIN saved \ {x} |-> saved[y]]
      /\ tab' = [t \in TabId |-> IF t \in ToSet(linked) THEN Detached(tab[t]) ELSE tab[t]]
      /\ timer' = timer \ ToSet(linked)
      /\ queue' = Enqueued(queue, ops)
      /\ UNCHANGED <<phase, tabs, active, ghosts, disk, tabCount, saveCount, edits, faults, kills>>
  BY DEF IInv, ConfirmDelete, Acting, Send, counters
<1>2. tab \in [TabId -> Tab] /\ tabs \in Seq(TabId)
  BY <1>1 DEF WindowFits
<1>3. x \in SavedId /\ x <= saveCount /\ x # None
  <2>1. dialog \in Dialog
    BY <1>1 DEF WindowFits
  <2>2. x \in SavedId
    BY <1>1, <2>1 DEF Dialog
  <2> QED BY <2>2, <1>1, Kinds DEF WindowFits
<1>4. saveCount \in Nat /\ tabCount \in Nat /\ Bounded'
  BY <1>1, Bounds DEF Bounded
<1>5. linked \in Seq(TabId) /\ ToSet(linked) = {tabs[k] : k \in I}
  BY <1>2, PickedIs
<1>6. \A t : t \in ToSet(linked) <=> IsOpen(t) /\ tab[t].saved = x
  BY <1>5 DEF IsOpen
<1>7. \A t \in TabId : t \in ToSet(linked) <=> tab[t].saved = x
  BY <1>1, <1>3, <1>6 DEF LinkedFits
<1> HIDE DEF I, linked, x
<1>8. op \in [TabId -> Operation] /\ \A t \in TabId : op[t] = Draft(t, Detached(tab[t])) /\ op[t].path = DraftFile(t)
  BY <1>2, TabChanges, Written
<1>9. b = [i \in DOMAIN linked |-> op[linked[i]]]
  <2>1. \A i \in DOMAIN linked : linked[i] \in TabId
    BY <1>5
  <2> QED BY <2>1
<1>10. ToSet(linked) \in SUBSET TabId
  BY <1>5 DEF ToSet
<1> HIDE DEF op
<1>11. b \in Seq(Operation) /\ DOMAIN b = DOMAIN linked /\ \A i \in DOMAIN linked : b[i] = op[linked[i]]
  BY <1>5, <1>8, <1>9, EachTyped
<1> HIDE DEF b
<1>12. /\ b \in Seq(Operation)
       /\ \A p : Queued(b, p) <=> \E t \in ToSet(linked) : p = DraftFile(t)
       /\ \A t \in ToSet(linked) : Newest(b, DraftFile(t)) = op[t]
  BY <1>11, <1>5, <1>8, NewestEach
<1>13. a \in Operation /\ a.path = RequestFile(x) /\ a.file = {}
  <2>1. 0 \in Content
    BY Kinds
  <2> QED BY <2>1, <1>3, RequestWritten
<1> HIDE DEF a
<1>14. /\ <<a>> \in Seq(Operation)
       /\ \A p : /\ Queued(<<a>>, p) <=> p = RequestFile(x)
                 /\ p = RequestFile(x) => Newest(<<a>>, p) = a
  BY <1>13, NewestSingle
<1> DEFINE one == <<a>>
<1>15. /\ one \in Seq(Operation)
       /\ \A p : /\ Queued(one, p) <=> p = RequestFile(x)
                 /\ p = RequestFile(x) => Newest(one, p) = a
       /\ ops = one \o b
  BY <1>14
<1> HIDE DEF one, ops
<1>16. /\ ops \in Seq(Operation)
       /\ \A p : /\ Queued(ops, p) <=> Queued(one, p) \/ Queued(b, p)
                 /\ Queued(b, p) => Newest(ops, p) = Newest(b, p)
                 /\ Queued(one, p) /\ ~Queued(b, p) => Newest(ops, p) = Newest(one, p)
  <2>1. \A p : /\ one \o b \in Seq(Operation)
               /\ Queued(one \o b, p) <=> Queued(one, p) \/ Queued(b, p)
               /\ Queued(b, p) => Newest(one \o b, p) = Newest(b, p)
               /\ Queued(one, p) /\ ~Queued(b, p) => Newest(one \o b, p) = Newest(one, p)
    BY <1>12, <1>15, NewestConcat
  <2> QED BY <2>1, <1>15
<1>17. \A t : ~Queued(b, RequestFile(x))
  BY <1>12, Paths
<1>18. /\ Queued(ops, RequestFile(x)) /\ Newest(ops, RequestFile(x)).file = {}
       /\ \A y : y # x => ~Queued(ops, RequestFile(y))
       /\ ~Queued(ops, WorkspaceFile)
       /\ \A t \in TabId : Queued(ops, DraftFile(t)) <=> t \in ToSet(linked)
       /\ \A t \in ToSet(linked) : Newest(ops, DraftFile(t)).file = {Detached(tab[t])}
  <2>1. Queued(ops, RequestFile(x)) /\ Newest(ops, RequestFile(x)).file = {}
    BY <1>13, <1>15, <1>16, <1>17
  <2>2. /\ \A y : y # x => ~Queued(ops, RequestFile(y))
        /\ ~Queued(ops, WorkspaceFile)
    <3>1. \A y : y # x => ~Queued(one, RequestFile(y)) /\ ~Queued(b, RequestFile(y))
      BY <1>12, <1>15, Paths
    <3>2. ~Queued(one, WorkspaceFile) /\ ~Queued(b, WorkspaceFile)
      BY <1>12, <1>15, Paths
    <3> QED BY <3>1, <3>2, <1>16
  <2>3. \A t \in TabId : Queued(ops, DraftFile(t)) <=> t \in ToSet(linked)
    BY <1>12, <1>15, <1>16, Paths
  <2>4. ASSUME NEW t \in ToSet(linked) PROVE Newest(ops, DraftFile(t)).file = {Detached(tab[t])}
    <3>1. t \in TabId /\ Newest(ops, DraftFile(t)) = op[t]
      BY <1>10, <1>12, <1>16
    <3> QED BY <3>1, <1>2, <1>8, TabChanges, Written
  <2> QED BY <2>1, <2>2, <2>3, <2>4
<1>19. queue \in Seq(Operation) /\ OnePerPath(queue)
  BY <1>1 DEF WriterFits
<1>20. Took(queue, ops, queue')
  BY <1>1, <1>16, <1>19, EnqueuedTook
<1>21. OpsFit(ops, tabCount, saveCount)
  <2>1. ASSUME NEW t \in ToSet(linked)
        PROVE  t <= tabCount /\ Detached(tab[t]) \in Tab /\ Detached(tab[t]).saved <= saveCount
    <3>1. t \in TabId /\ t <= tabCount
      BY <1>1, <1>6, OpenIs
    <3> QED BY <3>1, <1>2, <1>4, TabChanges, Kinds DEF None
  <2> QED BY <2>1, <1>3, <1>18 DEF OpsFit
<1>22. /\ WriterFits'
       /\ \A p \in Path : Fate'[p] = IF Queued(ops, p) THEN Newest(ops, p).file ELSE Fate[p]
       /\ NoDoubleLinks /\ (\A s \in TabId, y \in SavedId : NewLink(queue, disk, ops, s, y) =>
             /\ MayLink(queue, disk, s, y)
             /\ \A r \in TabId : NewLink(queue, disk, ops, r, y) => r = s)
          => NoDoubleLinks'
  BY <1>1, <1>4, <1>20, <1>21, Sent
<1>23. /\ \A t \in TabId : Fate'[DraftFile(t)] = IF tab[t].saved = x THEN {Detached(tab[t])} ELSE Fate[DraftFile(t)]
       /\ \A y \in SavedId : Fate'[RequestFile(y)] = IF y = x THEN {} ELSE Fate[RequestFile(y)]
       /\ Fate'[WorkspaceFile] = Fate[WorkspaceFile]
  BY <1>7, <1>18, <1>22, Paths
<1>24. \A s : IsOpen(s)' = IsOpen(s)
  BY <1>1 DEF IsOpen
<1>25. /\ DOMAIN saved' = DOMAIN saved \ {x}
       /\ \A y \in DOMAIN saved : y # x => saved'[y] = saved[y]
  BY <1>1
<1>26. /\ tab' \in [TabId -> Tab]
       /\ \A t \in TabId : tab'[t] = IF tab[t].saved = x THEN Detached(tab[t]) ELSE tab[t]
  BY <1>1, <1>2, <1>7, TabChanges
<1>27. \A s : ~HeldBy(dialog', s) /\ ~HeldBy(dialog, s)
  BY <1>1 DEF HeldBy, NoDialog
<1>28. Alive(tabs', dialog') = Alive(tabs, dialog)
  BY <1>1, <1>27 DEF Alive, HeldBy
<1>29. WindowFits'
  <2>1. \A s \in TabId : tab'[s].saved <= saveCount
    <3>1. \A s \in TabId : tab[s] \in Tab /\ tab[s].saved <= saveCount
      BY <1>1, <1>2 DEF WindowFits
    <3> QED BY <3>1, <1>4, <1>26, TabChanges, Kinds DEF None
  <2>2. saved' \in [DOMAIN saved' -> Content] /\ DOMAIN saved' \subseteq SavedId
        /\ \A y \in DOMAIN saved' : y <= saveCount
    BY <1>1, <1>25 DEF WindowFits
  <2>3. dialog' \in Dialog /\ dialog'.kind = "none"
    BY <1>1 DEF Dialog, NoDialog
  <2>4. \A s \in TabId : s > tabCount' => tab'[s] = Blank
    BY <1>1, <1>3, <1>26, Kinds DEF WindowFits
  <2> QED BY <2>1, <2>2, <2>3, <2>4, <1>1, <1>26, <1>28 DEF WindowFits
<1>30. LinkedFits'
  BY <1>1, <1>2, <1>24, <1>25, <1>26, <1>27, TabChanges DEF LinkedFits
<1>31. ASSUME faults' = 0 PROVE NoDoubleLinks' /\ RequestsFit' /\ DraftsFit' /\ StripFits'
  <2>1. NoDoubleLinks /\ RequestsFit /\ DraftsFit /\ StripFits
    BY <1>1, <1>31 DEF IInv
  <2>2. NoDoubleLinks'
    <3>1. ASSUME NEW s \in TabId, NEW y \in SavedId, NewLink(queue, disk, ops, s, y) PROVE FALSE
      <4>1. LinksTo({Detached(tab[s])}, y)
        BY <3>1, <1>18 DEF NewLink
      <4> QED BY <4>1, <1>2, TabChanges, Kinds DEF LinksTo
    <3> QED BY <3>1, <2>1, <1>22
  <2>3. RequestsFit'
    BY <2>1, <1>23, <1>25 DEF RequestsFit
  <2>4. DraftsFit'
    <3>1. SUFFICES ASSUME NEW s \in TabId
          PROVE  /\ IsOpen(s) => Fate'[DraftFile(s)] # {}
                 /\ Fate'[DraftFile(s)] # {} => IsOpen(s) \/ s \in ghosts
                 /\ \A v \in Fate'[DraftFile(s)] :
                      /\ IsOpen(s) => /\ Relinked(v, DOMAIN saved').saved = tab'[s].saved
                                      /\ s \in timer' \/ Relinked(v, DOMAIN saved') = tab'[s]
                      /\ ~IsOpen(s) => v.saved = None
      BY <1>1, <1>24 DEF DraftsFit
    <3>2. CASE tab[s].saved # x
      <4>1. Fate'[DraftFile(s)] = Fate[DraftFile(s)] /\ tab'[s] = tab[s] /\ (s \in timer' <=> s \in timer)
        BY <3>2, <1>1, <1>7, <1>23, <1>26
      <4>2. ASSUME NEW v \in Fate[DraftFile(s)]
            PROVE  Relinked(v, DOMAIN saved') = Relinked(v, DOMAIN saved)
        <5>1. v \in Tab
          BY <1>1, <4>2, OneContent
        <5>2. CASE IsOpen(s)
          <6>1. Relinked(v, DOMAIN saved).saved # x
            BY <3>2, <4>2, <5>2, <2>1 DEF DraftsFit
          <6>2. ~(v.saved = x /\ x \in DOMAIN saved)
            BY <6>1, <5>1, TabChanges
          <6> QED BY <6>2, <1>25 DEF Relinked
        <5>3. CASE ~IsOpen(s)
          BY <5>3, <4>2, <2>1 DEF DraftsFit, Relinked
        <5> QED BY <5>2, <5>3
      <4> QED BY <4>1, <4>2, <2>1 DEF DraftsFit
    <3>3. CASE tab[s].saved = x
      <4>1. Relinked(Detached(tab[s]), DOMAIN saved') = Detached(tab[s])
        <5>1. Detached(tab[s]) \in Tab /\ Detached(tab[s]).saved = None
          BY <1>2, TabChanges
        <5> QED BY <5>1, TabChanges
      <4>2. IsOpen(s)
        BY <3>3, <1>1, <1>3 DEF LinkedFits
      <4> QED BY <3>3, <4>1, <4>2, <1>23, <1>26
    <3> QED BY <3>2, <3>3
  <2>5. StripFits'
    <3>1. CASE Fate[WorkspaceFile] = {[order |-> tabs, active |-> tabs[active]]}
      BY <3>1, <1>1, <1>23 DEF StripFits
    <3>2. CASE /\ \A s \in TabId : Fate[DraftFile(s)] # {} \/ s \in Alive(tabs, dialog) => IsOpen(s)
               /\ tabs = OrderedBy(Fate[WorkspaceFile], ToSet(tabs))
               /\ active = ActiveIn(Fate[WorkspaceFile], tabs)
      <4>1. \A s \in TabId : Fate'[DraftFile(s)] # {} \/ s \in Alive(tabs', dialog') => IsOpen(s)
        <5>1. \A s \in TabId : tab[s].saved = x => IsOpen(s)
          BY <1>1, <1>3 DEF LinkedFits
        <5> QED BY <3>2, <5>1, <1>23, <1>28
      <4> QED BY <3>2, <4>1, <1>1, <1>23, <1>24 DEF StripFits
    <3> QED BY <2>1, <3>1, <3>2 DEF StripFits
  <2> QED BY <2>2, <2>3, <2>4, <2>5
<1>32. ASSUME faults' = 0, kills' = 0 PROVE CleanFits'
  <2>1. CleanFits /\ NoDoubleLinks /\ DraftsFit
    BY <1>1, <1>32 DEF IInv
  <2>2. ASSUME NEW v, v.saved # x, Agrees(v, saved) PROVE Agrees(v, saved')
    BY <2>2, <1>25 DEF Agrees
  <2>3. \A s \in TabId : Agrees(Detached(tab[s]), saved')
    BY <1>2, TabChanges DEF Agrees
  <2>4. \A s \in TabId : Agrees(tab'[s], saved')
    BY <2>1, <2>2, <2>3, <1>26 DEF CleanFits
  <2>5. ASSUME NEW s \in TabId, NEW v \in Fate'[DraftFile(s)]
        PROVE  Agrees(v, saved') /\ (v.saved # None => v.saved \in DOMAIN saved')
    <3>1. CASE tab[s].saved = x
      <4>1. v = Detached(tab[s])
        BY <3>1, <2>5, <1>23
      <4> QED BY <4>1, <2>3, <1>2, TabChanges
    <3>2. CASE tab[s].saved # x
      <4>1. v \in Fate[DraftFile(s)]
        BY <3>2, <2>5, <1>23
      <4>2. v \in Tab /\ (v.saved # None => v.saved \in DOMAIN saved)
        BY <4>1, <1>1, <2>1, OneContent DEF CleanFits
      <4>3. v.saved # x
        <5>1. Relinked(v, DOMAIN saved) = v
          BY <4>2, TabChanges
        <5>2. CASE IsOpen(s)
          BY <3>2, <4>1, <5>1, <5>2, <2>1 DEF DraftsFit
        <5>3. CASE ~IsOpen(s)
          BY <4>1, <5>3, <2>1, <1>3 DEF DraftsFit
        <5> QED BY <5>2, <5>3
      <4> QED BY <4>1, <4>2, <4>3, <2>1, <2>2, <1>25 DEF CleanFits
    <3> QED BY <3>1, <3>2
  <2> QED BY <2>4, <2>5 DEF CleanFits
<1> QED BY <1>4, <1>22, <1>29, <1>30, <1>31, <1>32 DEF IInv

\* flush_on_exit hands over every draft.
LEMMA QuitKeeps ==
  ASSUME IInv, Quit
  PROVE  IInv'
<1> DEFINE op  == [t \in TabId |-> Draft(t, tab[t])]
           ops == [i \in DOMAIN tabs |-> Draft(tabs[i], tab[tabs[i]])]
<1>1. /\ WindowFits /\ Bounded /\ WriterFits /\ LinkedFits
      /\ phase = "run" /\ phase' = "quitting" /\ timer' = timer \ ToSet(tabs)
      /\ queue' = Enqueued(queue, ops)
      /\ UNCHANGED <<tabs, active, tab, saved, dialog, ghosts, disk,
                     tabCount, saveCount, edits, faults, kills>>
  BY DEF IInv, Quit, Acting, Send, counters
<1>2. /\ tab \in [TabId -> Tab] /\ tabs \in Seq(TabId)
      /\ \A t \in TabId : tab[t] \in Tab /\ tab[t].saved <= saveCount
  BY <1>1 DEF WindowFits
<1>3. saveCount \in Nat /\ tabCount \in Nat /\ Bounded'
  BY <1>1, Bounds DEF Bounded
<1>4. op \in [TabId -> Operation] /\ \A t \in TabId : op[t].path = DraftFile(t) /\ op[t].file = {tab[t]}
  BY <1>2, Written
<1>5. ops = [i \in DOMAIN tabs |-> op[tabs[i]]]
  <2>1. \A i \in DOMAIN tabs : tabs[i] \in TabId
    BY <1>2
  <2> QED BY <2>1
<1> HIDE DEF op
<1>6. ops \in Seq(Operation) /\ DOMAIN ops = DOMAIN tabs /\ \A i \in DOMAIN tabs : ops[i] = op[tabs[i]]
  BY <1>2, <1>4, <1>5, EachTyped
<1> HIDE DEF ops
<1>7. /\ \A p : Queued(ops, p) <=> \E t \in ToSet(tabs) : p = DraftFile(t)
      /\ \A t \in ToSet(tabs) : Newest(ops, DraftFile(t)) = op[t]
  BY <1>2, <1>4, <1>6, NewestEach
<1>8. ToSet(tabs) \in SUBSET TabId /\ \A t : IsOpen(t) <=> t \in ToSet(tabs)
  BY <1>1, OpenIs
<1>9. /\ \A x : ~Queued(ops, RequestFile(x))
      /\ ~Queued(ops, WorkspaceFile)
      /\ \A t \in TabId : Queued(ops, DraftFile(t)) <=> IsOpen(t)
      /\ \A t \in TabId : IsOpen(t) => Newest(ops, DraftFile(t)).file = {tab[t]}
  <2>1. (\A x : ~Queued(ops, RequestFile(x))) /\ ~Queued(ops, WorkspaceFile)
    BY <1>7, Paths
  <2>2. \A t \in TabId : Queued(ops, DraftFile(t)) <=> IsOpen(t)
    BY <1>7, <1>8, Paths
  <2>3. \A t \in TabId : IsOpen(t) => Newest(ops, DraftFile(t)).file = {tab[t]}
    BY <1>4, <1>7, <1>8
  <2> QED BY <2>1, <2>2, <2>3
<1>10. queue \in Seq(Operation) /\ OnePerPath(queue)
  BY <1>1 DEF WriterFits
<1>11. Took(queue, ops, queue')
  BY <1>1, <1>6, <1>10, EnqueuedTook
<1>12. OpsFit(ops, tabCount, saveCount)
  <2>1. \A t \in TabId : IsOpen(t) => t <= tabCount
    BY <1>1, OpenIs
  <2> QED BY <2>1, <1>2, <1>9 DEF OpsFit
<1>13. /\ WriterFits'
       /\ \A p \in Path : Fate'[p] = IF Queued(ops, p) THEN Newest(ops, p).file ELSE Fate[p]
       /\ NoDoubleLinks /\ (\A s \in TabId, y \in SavedId : NewLink(queue, disk, ops, s, y) =>
             /\ MayLink(queue, disk, s, y)
             /\ \A r \in TabId : NewLink(queue, disk, ops, r, y) => r = s)
          => NoDoubleLinks'
  BY <1>1, <1>3, <1>11, <1>12, Sent
<1>14. /\ \A t \in TabId : Fate'[DraftFile(t)] = IF IsOpen(t) THEN {tab[t]} ELSE Fate[DraftFile(t)]
       /\ \A y \in SavedId : Fate'[RequestFile(y)] = Fate[RequestFile(y)]
       /\ Fate'[WorkspaceFile] = Fate[WorkspaceFile]
  BY <1>9, <1>13, Paths
<1>15. \A s : IsOpen(s)' = IsOpen(s)
  BY <1>1 DEF IsOpen
<1>16. WindowFits'
  BY <1>1 DEF WindowFits
<1>17. LinkedFits'
  BY <1>1, <1>15 DEF LinkedFits
<1>18. ASSUME faults' = 0 PROVE NoDoubleLinks' /\ RequestsFit' /\ DraftsFit' /\ StripFits'
  <2>1. NoDoubleLinks /\ RequestsFit /\ DraftsFit /\ StripFits
    BY <1>1, <1>18 DEF IInv
  <2>2. NoDoubleLinks'
    <3>1. ASSUME NEW s \in TabId, NEW y \in SavedId, NewLink(queue, disk, ops, s, y) PROVE FALSE
      <4>1. tab[s].saved = y /\ ~LinksTo(Fate[DraftFile(s)], y)
        BY <3>1, <1>9 DEF NewLink, LinksTo, Fate
      <4> QED BY <4>1, <2>1, <1>1, OwnLink, Kinds
    <3> QED BY <3>1, <2>1, <1>13
  <2>3. RequestsFit'
    BY <2>1, <1>1, <1>14 DEF RequestsFit
  <2>4. DraftsFit'
    <3>1. \A s \in TabId : Relinked(tab[s], DOMAIN saved) = tab[s]
      <4>1. \A s \in TabId : tab[s].saved \in DOMAIN saved \cup {None}
        BY <1>1 DEF LinkedFits
      <4> QED BY <4>1 DEF Relinked
    <3>2. \A s \in TabId : ~IsOpen(s) => (s \in timer' <=> s \in timer)
      BY <1>1, <1>8
    <3> QED BY <3>1, <3>2, <2>1, <1>1, <1>14, <1>15 DEF DraftsFit
  <2>5. StripFits'
    BY <2>1, <1>1, <1>14, <1>15 DEF StripFits
  <2> QED BY <2>2, <2>3, <2>4, <2>5
<1>19. ASSUME faults' = 0, kills' = 0 PROVE CleanFits'
  <2>1. CleanFits
    BY <1>1, <1>19 DEF IInv
  <2>2. \A s \in TabId : tab[s].saved # None => tab[s].saved \in DOMAIN saved
    BY <1>1 DEF LinkedFits
  <2> QED BY <2>1, <2>2, <1>1, <1>14 DEF CleanFits
<1> QED BY <1>3, <1>13, <1>16, <1>17, <1>18, <1>19 DEF IInv

-----------------------------------------------------------------------------
(* The writer *)

\* The window does not change.
LEMMA WriterKeeps ==
  ASSUME IInv, UNCHANGED <<memory, tabCount, saveCount, edits, kills>>, faults' >= faults, faults' \in Nat,
         faults' + kills <= MaxFailures,
         phase' \in {"run", "quitting", "quit"}, phase' = phase \/ phase = "quitting",
         phase' = "quit" => queue' = <<>>,
         WriterFits', faults' = 0 => Fate' = Fate /\ (NoDoubleLinks => NoDoubleLinks')
  PROVE  IInv'
<1>1. /\ WindowFits /\ Bounded /\ WriterFits /\ LinkedFits
      /\ UNCHANGED <<tabs, active, tab, timer, saved, dialog, ghosts, tabCount, saveCount, edits, kills>>
  BY DEF IInv, memory
<1>2. Bounded'
  BY <1>1 DEF Bounded
<1>3. \A s : IsOpen(s)' = IsOpen(s)
  BY <1>1 DEF IsOpen
<1>4. WindowFits'
  BY <1>1 DEF WindowFits
<1>5. LinkedFits'
  BY <1>1, <1>3 DEF LinkedFits
<1>6. ASSUME faults' = 0 PROVE faults = 0
  BY <1>1, <1>6 DEF Bounded
<1>7. ASSUME faults' = 0 PROVE NoDoubleLinks' /\ RequestsFit' /\ DraftsFit' /\ StripFits'
  <2>1. NoDoubleLinks /\ RequestsFit /\ DraftsFit /\ StripFits /\ Fate' = Fate
    BY <1>6, <1>7 DEF IInv
  <2>2. RequestsFit'
    BY <2>1, <1>1 DEF RequestsFit
  <2>3. DraftsFit'
    BY <2>1, <1>1, <1>3 DEF DraftsFit
  <2>4. StripFits'
    BY <2>1, <1>1, <1>3 DEF StripFits
  <2> QED BY <2>1, <2>2, <2>3, <2>4, <1>7
<1>8. ASSUME faults' = 0, kills' = 0 PROVE CleanFits'
  <2>1. CleanFits /\ Fate' = Fate
    BY <1>1, <1>6, <1>8 DEF IInv
  <2> QED BY <2>1, <1>1 DEF CleanFits
<1> QED BY <1>2, <1>4, <1>5, <1>7, <1>8 DEF IInv

\* What is left after the head of the queue.
LEMMA TailIs ==
  ASSUME WriterFits, queue # <<>>
  PROVE  /\ Tail(queue) \in Seq(Operation) /\ Len(queue) = Len(Tail(queue)) + 1
         /\ Len(Tail(queue)) \in Nat
         /\ \A i \in 1..Len(Tail(queue)) : Tail(queue)[i] = queue[i + 1]
         /\ Head(queue) = queue[1] /\ queue[1] \in Operation
<1>1. queue \in Seq(Operation)
  BY DEF WriterFits
<1> QED BY <1>1

\* Perform: the head of the queue is done, what becomes of the files is not changed.
LEMMA PerformKeeps ==
  ASSUME IInv, Perform
  PROVE  IInv'
<1>1. /\ WriterFits /\ Bounded /\ queue # <<>> /\ queue' = Tail(queue)
      /\ disk' = [disk EXCEPT ![Head(queue).path] = Head(queue).file]
      /\ UNCHANGED <<phase, memory, tabCount, saveCount, edits, faults, kills>>
      /\ phase \in {"run", "quitting"}
  BY DEF IInv, Perform, counters, Running
<1>2. /\ queue \in Seq(Operation) /\ OnePerPath(queue) /\ disk \in [Path -> SUBSET Data]
      /\ queue' \in Seq(Operation) /\ Len(queue) = Len(queue') + 1 /\ Len(queue') \in Nat
      /\ \A i \in 1..Len(queue') : queue'[i] = queue[i + 1]
      /\ Head(queue) = queue[1] /\ queue[1] \in Operation
  BY <1>1, TailIs DEF WriterFits
<1>3. /\ disk' \in [Path -> SUBSET Data] /\ disk'[queue[1].path] = queue[1].file
      /\ \A p \in Path : p # queue[1].path => disk'[p] = disk[p]
  <2>1. queue[1].path \in Path /\ queue[1].file \in SUBSET Data
    BY <1>2 DEF Operation
  <2> QED BY <2>1, <1>1, <1>2
<1>4. /\ OnePerPath(queue')
      /\ \A p : Queued(queue', p) => Queued(queue, p)
      /\ \A n \in 0..Len(queue'), p \in Path : After(queue', disk', n)[p] = After(queue, disk, n + 1)[p]
  <2>1. queue # <<>>
    BY <1>1
  <2> QED BY <2>1, <1>2, <1>3, AfterPerform
<1>5. ASSUME NEW n \in 0..Len(queue')
      PROVE After(queue', disk', n) = After(queue, disk, n + 1) /\ n + 1 \in 0..Len(queue)
  <2>1. \A q, d, m : After(q, d, m) = [p \in Path |-> After(q, d, m)[p]]
    BY DEF After
  <2> QED BY <2>1, <1>2, <1>4
<1>6. WriterFits'
  BY <1>1, <1>2, <1>3, <1>4, <1>5 DEF WriterFits
<1>7. Fate' = Fate
  <2>1. Len(queue') \in 0..Len(queue')
    BY <1>2
  <2> QED BY <2>1, <1>2, <1>5 DEF Fate
<1>8. NoDoubleLinks => NoDoubleLinks'
  BY <1>5 DEF NoDoubleLinks
<1>9. faults' >= faults /\ faults' \in Nat /\ faults' + kills <= MaxFailures
  BY <1>1 DEF Bounded
<1> QED BY <1>1, <1>6, <1>7, <1>8, <1>9, WriterKeeps

\* A write that fails leaves the file as it was before.
LEMMA PerformFailsKeeps ==
  ASSUME IInv, PerformFails
  PROVE  IInv'
<1>1. /\ WriterFits /\ Bounded /\ queue # <<>> /\ queue' = Tail(queue)
      /\ faults + kills < MaxFailures /\ faults' = faults + 1
      /\ UNCHANGED <<phase, memory, disk, tabCount, saveCount, edits, kills>>
      /\ phase \in {"run", "quitting"}
  BY DEF IInv, PerformFails, Running
<1>2. /\ queue \in Seq(Operation) /\ OnePerPath(queue)
      /\ queue' \in Seq(Operation) /\ Len(queue) = Len(queue') + 1 /\ Len(queue') \in Nat
      /\ \A i \in 1..Len(queue') : queue'[i] = queue[i + 1]
  BY <1>1, TailIs DEF WriterFits
<1>3. OnePerPath(queue')
  <2>1. \A i \in DOMAIN queue' : queue'[i] = queue[i + 1] /\ i + 1 \in DOMAIN queue /\ i \in Nat
    BY <1>2
  <2>2. SUFFICES ASSUME NEW i \in DOMAIN queue', NEW j \in DOMAIN queue', queue'[i].path = queue'[j].path PROVE i = j
    BY DEF OnePerPath
  <2>3. i + 1 = j + 1
    BY <2>1, <2>2, <1>2 DEF OnePerPath
  <2> QED BY <2>1, <2>3
<1>4. \A p : Queued(queue', p) => Queued(queue, p)
  BY <1>2 DEF Queued
<1>5. ASSUME NEW n \in 0..Len(queue'), NEW p \in Path
      PROVE  \/ After(queue', disk, n)[p] = After(queue, disk, n + 1)[p]
             \/ After(queue', disk, n)[p] = After(queue, disk, 0)[p]
  <2>1. n \in Nat /\ n <= Len(queue')
    BY <1>2
  <2>2. CASE \E i \in 1..n : queue'[i].path = p
    <3>1. PICK i \in 1..n : queue'[i].path = p
      BY <2>2
    <3>2. After(queue', disk, n)[p] = queue'[i].file
      BY <3>1, <2>1, <1>2, <1>3, AfterOp
    <3> DEFINE k == i + 1
               m == n + 1
    <3>3. k \in 1..m /\ queue'[i] = queue[k] /\ queue[k].path = p /\ m \in Nat /\ m <= Len(queue)
      BY <3>1, <2>1, <1>2
    <3> HIDE DEF k, m
    <3>4. After(queue, disk, m)[p] = queue[k].file
      <4>1. queue \in Seq(Operation) /\ OnePerPath(queue)
        BY <1>2
      <4> QED BY <4>1, <3>3, AfterOp
    <3> QED BY <3>2, <3>3, <3>4 DEF m
  <2>3. CASE ~\E i \in 1..n : queue'[i].path = p
    <3>1. After(queue', disk, n)[p] = disk[p]
      BY <2>3, AfterNoOp
    <3> QED BY <3>1, <1>2, AfterNothing
  <2> QED BY <2>2, <2>3
<1>6. ASSUME NEW n \in 0..Len(queue') PROVE FilesFit(After(queue', disk, n), tabCount, saveCount)
  <2>1. n + 1 \in 0..Len(queue) /\ 0 \in 0..Len(queue)
    BY <1>2
  <2> DEFINE new == After(queue', disk, n)
             one == After(queue, disk, n + 1)
             old == After(queue, disk, 0)
  <2>2. FilesFit(one, tabCount, saveCount) /\ FilesFit(old, tabCount, saveCount)
    BY <2>1, <1>1 DEF WriterFits
  <2>3. \A p \in Path : new[p] = one[p] \/ new[p] = old[p]
    BY <1>5
  <2> HIDE DEF new, one, old
  <2>4. FilesFit(new, tabCount, saveCount)
    BY <2>2, <2>3, Paths DEF FilesFit
  <2> QED BY <2>4 DEF new
<1>7. WriterFits'
  BY <1>1, <1>2, <1>3, <1>4, <1>6 DEF WriterFits
<1>8. faults' >= faults /\ faults' \in Nat /\ faults' # 0 /\ faults' + kills <= MaxFailures
  BY <1>1, Bounds DEF Bounded
<1> QED BY <1>1, <1>7, <1>8, WriterKeeps

\* Leave: the process ends once nothing is queued.
LEMMA LeaveKeeps ==
  ASSUME IInv, Leave
  PROVE  IInv'
<1>1. /\ WriterFits /\ Bounded /\ phase = "quitting" /\ queue = <<>> /\ phase' = "quit"
      /\ UNCHANGED <<memory, queue, disk, tabCount, saveCount, edits, faults, kills>>
  BY DEF IInv, Leave, counters
<1>2. WriterFits' /\ Fate' = Fate /\ (NoDoubleLinks => NoDoubleLinks')
  BY <1>1, NothingSent
<1>3. faults' >= faults /\ faults' \in Nat /\ faults' + kills <= MaxFailures
  BY <1>1 DEF Bounded
<1> QED BY <1>1, <1>2, <1>3, WriterKeeps

-----------------------------------------------------------------------------
(* One lemma per handler: those that add a tab *)

\* A new tab at place k of the strip.
LEMMA InsertIs ==
  ASSUME NEW ts \in Seq(TabId), IsInjective(ts), NEW n \in TabId, \A i \in DOMAIN ts : ts[i] # n,
         NEW k \in 1..(Len(ts) + 1), NEW out, out = InsertAt(ts, k, n)
  PROVE  /\ out \in Seq(TabId) /\ Len(out) = Len(ts) + 1
         /\ k \in DOMAIN out /\ out[k] = n
         /\ IsInjective(out)
         /\ \A t : (\E i \in DOMAIN out : out[i] = t) <=> t = n \/ \E i \in DOMAIN ts : ts[i] = t
         /\ out # <<>>
<1> DEFINE a == SubSeq(ts, 1, k - 1)
           b == SubSeq(ts, k, Len(ts))
           c == a \o <<n>>
<1>1. Len(ts) \in Nat /\ DOMAIN ts = 1..Len(ts) /\ k \in Nat /\ 1 <= k /\ k <= Len(ts) + 1
  OBVIOUS
<1>2. a \in Seq(TabId) /\ Len(a) = k - 1 /\ \A i \in 1..(k - 1) : a[i] = ts[i]
  BY <1>1
<1>3. b \in Seq(TabId) /\ Len(b) = Len(ts) + 1 - k /\ \A i \in 1..(Len(ts) + 1 - k) : b[i] = ts[k + i - 1]
  <2>1. b \in Seq(TabId) /\ Len(b) = Len(ts) + 1 - k
    BY <1>1
  <2>2. \A i \in 1..(Len(ts) + 1 - k) : b[i] = ts[k + i - 1]
    BY <1>1
  <2> QED BY <2>1, <2>2
<1> HIDE DEF a, b
<1>4. c \in Seq(TabId) /\ Len(c) = k /\ \A i \in 1..(k - 1) : c[i] = ts[i]
  BY <1>1, <1>2
<1>5. c[k] = n
  BY <1>1, <1>2
<1> HIDE DEF c
<1>6. out = c \o b
  BY DEF InsertAt, a, b, c
<1>7. out \in Seq(TabId) /\ Len(out) = Len(ts) + 1
  <2>1. c \o b \in Seq(TabId) /\ Len(c \o b) = Len(c) + Len(b)
    BY <1>3, <1>4, ConcatProperties, Zenon
  <2>2. Len(c) + Len(b) = Len(ts) + 1
    BY <1>1, <1>3, <1>4
  <2> QED BY <2>1, <2>2, <1>6
<1>8. /\ \A i \in 1..(k - 1) : out[i] = ts[i]
      /\ out[k] = n
      /\ \A i \in (k + 1)..(Len(ts) + 1) : out[i] = ts[i - 1]
  <2>1. \A i \in 1..k : out[i] = c[i]
    BY <1>1, <1>3, <1>4, <1>6
  <2>2. ASSUME NEW i \in (k + 1)..(Len(ts) + 1) PROVE out[i] = ts[i - 1]
    <3>1. i - k \in 1..(Len(ts) + 1 - k) /\ k + (i - k) - 1 = i - 1 /\ i \in 1..(Len(ts) + 1) /\ ~(i <= k)
      BY <1>1
    <3>2. out[i] = b[i - k]
      BY <3>1, <1>1, <1>3, <1>4, <1>6
    <3>3. b[i - k] = ts[k + (i - k) - 1]
      BY <3>1, <1>3
    <3> QED BY <3>1, <3>2, <3>3
  <2> QED BY <2>1, <2>2, <1>1, <1>4, <1>5
<1>9. DOMAIN out = 1..(Len(ts) + 1)
  BY <1>7
<1>10. ASSUME NEW i \in DOMAIN out
       PROVE  \/ i < k /\ i \in DOMAIN ts /\ out[i] = ts[i]
              \/ i = k /\ out[i] = n
              \/ i > k /\ i - 1 \in DOMAIN ts /\ out[i] = ts[i - 1]
  <2>1. CASE i < k
    BY <2>1, <1>1, <1>8, <1>9
  <2>2. CASE i = k
    BY <2>2, <1>8
  <2>3. CASE i > k
    BY <2>3, <1>1, <1>8, <1>9
  <2> QED BY <2>1, <2>2, <2>3, <1>1, <1>9
<1>11. ASSUME NEW i \in DOMAIN ts PROVE \E j \in DOMAIN out : out[j] = ts[i]
  <2>1. CASE i < k
    BY <2>1, <1>1, <1>8, <1>9
  <2>2. CASE ~(i < k)
    <3>1. i + 1 \in (k + 1)..(Len(ts) + 1) /\ (i + 1) - 1 = i /\ i + 1 \in DOMAIN out
      BY <2>2, <1>1, <1>9
    <3> QED BY <3>1, <1>8
  <2> QED BY <2>1, <2>2
<1>12. IsInjective(out)
  <2>1. SUFFICES ASSUME NEW i \in DOMAIN out, NEW j \in DOMAIN out, out[i] = out[j] PROVE i = j
    BY DEF IsInjective
  <2>2. i \in Nat /\ j \in Nat
    BY <1>1, <1>9
  <2> QED BY <2>1, <2>2, <1>1, <1>10 DEF IsInjective
<1>13. k \in DOMAIN out
  BY <1>1, <1>9
<1>14. \A t : (\E i \in DOMAIN out : out[i] = t) <=> t = n \/ \E i \in DOMAIN ts : ts[i] = t
  BY <1>8, <1>10, <1>11, <1>13
<1>15. out # <<>>
  BY <1>1, <1>7
<1> QED BY <1>7, <1>8, <1>12, <1>13, <1>14, <1>15

\* At the end it is appended.
LEMMA AppendIs ==
  ASSUME NEW ts \in Seq(TabId), NEW n \in TabId
  PROVE  /\ Append(ts, n) = InsertAt(ts, Len(ts) + 1, n)
         /\ Len(Append(ts, n)) = Len(ts) + 1
         /\ Len(ts) + 1 \in 1..(Len(ts) + 1)
<1>1. Len(ts) \in Nat
  OBVIOUS
<1>2. SubSeq(ts, 1, (Len(ts) + 1) - 1) = ts /\ SubSeq(ts, Len(ts) + 1, Len(ts)) = <<>>
  BY <1>1
<1>3. (ts \o <<n>>) \o <<>> = Append(ts, n)
  BY <1>1
<1> QED BY <1>1, <1>2, <1>3 DEF InsertAt

\* A tab is added; more is what its caller writes after new_tab.
LEMMA AddTabKeeps ==
  ASSUME IInv, NEW value \in Tab, NEW k \in 1..(Len(tabs) + 1), NEW more \in Seq(Operation),
         AddTab(value, k, more), NEW ts, ts = InsertAt(tabs, k, tabCount + 1),
         edits' \in {edits, edits + 1}, edits' <= MaxEdits,
         \A p : Queued(more, p) => p = DraftFile(tabCount + 1) \/ p = WorkspaceFile,
         IF Queued(more, DraftFile(tabCount + 1))
         THEN Newest(more, DraftFile(tabCount + 1)).file = {value} ELSE value = Blank,
         IF Queued(more, WorkspaceFile)
         THEN Newest(more, WorkspaceFile).file = {[order |-> ts, active |-> tabCount + 1]}
         ELSE k = Len(tabs) + 1,
         value.saved # None => /\ value.saved \in DOMAIN saved
                               /\ \A t \in TabId : tab[t].saved # value.saved,
         Agrees(value, saved)
  PROVE  IInv'
<1> DEFINE n    == tabCount + 1
           last == Append(tabs, n)
           ops  == NewTabWrites(n, last) \o more
<1>1. /\ WindowFits /\ Bounded /\ WriterFits /\ LinkedFits
      /\ phase = "run" /\ tabCount < MaxTabs /\ tabCount' = n /\ tabs' = InsertAt(tabs, k, n) /\ active' = k
      /\ tab' = [tab EXCEPT ![n] = value]
      /\ queue' = Enqueued(queue, ops)
      /\ UNCHANGED <<phase, timer, saved, dialog, ghosts, disk, saveCount, faults, kills>>
  BY DEF IInv, AddTab, Acting, Send
<1>2. /\ tab \in [TabId -> Tab] /\ tabs \in Seq(TabId) /\ IsInjective(tabs)
      /\ tabCount \in 1..MaxTabs /\ saveCount \in Nat /\ tabCount \in Nat /\ n \in Nat
      /\ \A i \in DOMAIN tabs : tabs[i] <= tabCount
  BY <1>1, Bounds DEF WindowFits, Bounded
<1>3. n \in TabId /\ n > tabCount /\ Bounded' /\ tabCount <= n
  BY <1>1, <1>2, Bounds DEF TabId, Bounded
<1>4. ~IsOpen(n) /\ ~HeldBy(dialog, n) /\ \A i \in DOMAIN tabs : tabs[i] # n
  <2>1. \A i \in DOMAIN tabs : tabs[i] # n
    BY <1>2
  <2>2. ~HeldBy(dialog, n)
    BY <1>1, <1>2 DEF HeldBy, WindowFits
  <2> QED BY <2>1, <2>2 DEF IsOpen
<1>5. /\ ts \in Seq(TabId) /\ Len(ts) = Len(tabs) + 1
      /\ k \in DOMAIN ts /\ ts[k] = n
      /\ IsInjective(ts)
      /\ \A t : (\E i \in DOMAIN ts : ts[i] = t) <=> t = n \/ \E i \in DOMAIN tabs : tabs[i] = t
      /\ ts # <<>>
  <2>1. \A out : out = InsertAt(tabs, k, n) =>
           /\ out \in Seq(TabId) /\ Len(out) = Len(tabs) + 1
           /\ k \in DOMAIN out /\ out[k] = n
           /\ IsInjective(out)
           /\ \A t : (\E i \in DOMAIN out : out[i] = t) <=> t = n \/ \E i \in DOMAIN tabs : tabs[i] = t
           /\ out # <<>>
    <3> HIDE DEF n
    <3> QED BY <1>2, <1>3, <1>4, InsertIs
  <2> QED BY <2>1
<1>6. tabs' = ts
  BY <1>1
<1>7. /\ last = InsertAt(tabs, Len(tabs) + 1, n) /\ Len(last) = Len(tabs) + 1
      /\ last \in Seq(TabId) /\ IsInjective(last) /\ Len(last) \in DOMAIN last /\ last[Len(last)] = n
  <2>1. Len(tabs) + 1 \in 1..(Len(tabs) + 1) /\ last = InsertAt(tabs, Len(tabs) + 1, n) /\ Len(last) = Len(tabs) + 1
    <3> HIDE DEF n
    <3> QED BY <1>2, <1>3, AppendIs
  <2> DEFINE e == Len(tabs) + 1
  <2>2. e \in 1..(Len(tabs) + 1) /\ last = InsertAt(tabs, e, n) /\ Len(last) = e
    BY <2>1
  <2> HIDE DEF e, n, last
  <2>3. /\ last \in Seq(TabId) /\ e \in DOMAIN last /\ last[e] = n /\ IsInjective(last)
    BY <1>2, <1>3, <1>4, <2>2, InsertIs
  <2> QED BY <2>1, <2>2, <2>3
<1>8. ~Queued(more, WorkspaceFile) => ts = last
  BY <1>7
<1> DEFINE a == Draft(n, Blank)
           b == Layout(last, Len(last))
           one == <<a, b>>
<1>9. /\ a \in Operation /\ a.path = DraftFile(n) /\ a.file = {Blank}
      /\ b \in Operation /\ b.path = WorkspaceFile
      /\ b.file = {[order |-> last, active |-> n]}
  <2>1. a \in Operation /\ a.path = DraftFile(n) /\ a.file = {Blank}
    <3> HIDE DEF n
    <3> QED BY <1>3, Kinds, Written
  <2>2. b \in Operation /\ b.path = WorkspaceFile /\ b.file = {[order |-> last, active |-> last[Len(last)]]}
    <3> HIDE DEF n, last
    <3> QED BY <1>7, LayoutWritten
  <2> QED BY <2>1, <2>2, <1>7
<1>10. ops = one \o more
  BY DEF NewTabWrites
<1> HIDE DEF a, b, ops
<1>11. /\ one \in Seq(Operation)
       /\ \A p : /\ Queued(one, p) <=> p = DraftFile(n) \/ p = WorkspaceFile
                 /\ p = DraftFile(n) => Newest(one, p) = a
                 /\ p = WorkspaceFile => Newest(one, p) = b
  <2>1. a.path # b.path
    BY <1>9, Paths
  <2>2. \A p : /\ <<a, b>> \in Seq(Operation)
               /\ Queued(<<a, b>>, p) <=> p = a.path \/ p = b.path
               /\ p = a.path => Newest(<<a, b>>, p) = a
               /\ p = b.path => Newest(<<a, b>>, p) = b
    BY <2>1, <1>9, NewestPair
  <2> QED BY <2>2, <1>9
<1> HIDE DEF one
<1>12. /\ ops \in Seq(Operation)
       /\ \A p : /\ Queued(ops, p) <=> Queued(one, p) \/ Queued(more, p)
                 /\ Queued(more, p) => Newest(ops, p) = Newest(more, p)
                 /\ Queued(one, p) /\ ~Queued(more, p) => Newest(ops, p) = Newest(one, p)
  <2>1. \A p : /\ one \o more \in Seq(Operation)
               /\ Queued(one \o more, p) <=> Queued(one, p) \/ Queued(more, p)
               /\ Queued(more, p) => Newest(one \o more, p) = Newest(more, p)
               /\ Queued(one, p) /\ ~Queued(more, p) => Newest(one \o more, p) = Newest(one, p)
    BY <1>11, NewestConcat
  <2> QED BY <2>1, <1>10
<1> DEFINE l == [order |-> ts, active |-> n]
<1>13. /\ \A p : Queued(ops, p) <=> p = DraftFile(n) \/ p = WorkspaceFile
       /\ Newest(ops, DraftFile(n)).file = {value}
       /\ Newest(ops, WorkspaceFile).file = {l}
  <2>1. \A p : Queued(more, p) => p = DraftFile(n) \/ p = WorkspaceFile
    OBVIOUS
  <2>2. \A p : Queued(ops, p) <=> p = DraftFile(n) \/ p = WorkspaceFile
    <3> HIDE DEF n
    <3> QED BY <2>1, <1>11, <1>12
  <2>3. Newest(ops, DraftFile(n)).file = {value}
    <3>1. CASE Queued(more, DraftFile(n))
      BY <3>1, <1>12
    <3>2. CASE ~Queued(more, DraftFile(n))
      BY <3>2, <1>9, <1>11, <1>12
    <3> QED BY <3>1, <3>2
  <2>4. Newest(ops, WorkspaceFile).file = {l}
    <3>1. CASE Queued(more, WorkspaceFile)
      BY <3>1, <1>12
    <3>2. CASE ~Queued(more, WorkspaceFile)
      BY <3>2, <1>8, <1>9, <1>11, <1>12
    <3> QED BY <3>1, <3>2
  <2> QED BY <2>2, <2>3, <2>4
<1>14. l \in Strips
  BY <1>3, <1>5 DEF Strips
<1>15. value.saved <= saveCount /\ value.saved \in Nat
  <2>1. value.saved \in Nat
    BY Kinds
  <2>2. CASE value.saved = None
    BY <2>2, <1>2 DEF None
  <2>3. CASE value.saved # None
    BY <2>1, <2>3, <1>1 DEF WindowFits
  <2> QED BY <2>1, <2>2, <2>3
<1> HIDE DEF l
<1>16. OpsFit(ops, tabCount', saveCount')
  <2>1. \A t \in TabId : Queued(ops, DraftFile(t)) => t = n
    BY <1>13, Paths
  <2>2. \A x \in SavedId : ~Queued(ops, RequestFile(x))
    BY <1>13, Paths
  <2>3. n <= n
    BY <1>2
  <2> HIDE DEF n
  <2> QED BY <2>1, <2>2, <2>3, <1>1, <1>13, <1>14, <1>15 DEF OpsFit
<1>17. queue \in Seq(Operation) /\ OnePerPath(queue)
  BY <1>1 DEF WriterFits
<1>18. Took(queue, ops, queue')
  BY <1>1, <1>12, <1>17, EnqueuedTook
<1>19. /\ WriterFits'
       /\ \A p \in Path : Fate'[p] = IF Queued(ops, p) THEN Newest(ops, p).file ELSE Fate[p]
       /\ NoDoubleLinks /\ (\A s \in TabId, y \in SavedId : NewLink(queue, disk, ops, s, y) =>
             /\ MayLink(queue, disk, s, y)
             /\ \A r \in TabId : NewLink(queue, disk, ops, r, y) => r = s)
          => NoDoubleLinks'
  <2>1. tabCount <= tabCount' /\ saveCount <= saveCount' /\ disk' = disk
    BY <1>1, <1>2, <1>3
  <2> QED BY <2>1, <1>1, <1>3, <1>16, <1>18, Sent
<1> HIDE DEF n
<1>20. /\ Fate'[DraftFile(n)] = {value} /\ Fate'[WorkspaceFile] = {l}
       /\ \A s \in TabId : s # n => Fate'[DraftFile(s)] = Fate[DraftFile(s)]
       /\ \A x \in SavedId : Fate'[RequestFile(x)] = Fate[RequestFile(x)]
  BY <1>3, <1>13, <1>19, Paths
<1>21. \A s : IsOpen(s)' <=> s = n \/ IsOpen(s)
  BY <1>5, <1>6 DEF IsOpen
<1>22. /\ tab' \in [TabId -> Tab] /\ tab'[n] = value
       /\ \A s \in TabId : s # n => tab'[s] = tab[s]
  BY <1>1, <1>2, <1>3
<1>23. Alive(tabs, dialog) \subseteq Alive(tabs', dialog')
  BY <1>1, <1>21 DEF Alive, IsOpen
<1>24. WindowFits'
  <2>1. \A i \in DOMAIN tabs' : tabs'[i] <= tabCount'
    <3>1. SUFFICES ASSUME NEW i \in DOMAIN ts PROVE ts[i] <= n
      BY <1>1, <1>6
    <3>2. ts[i] = n \/ \E j \in DOMAIN tabs : tabs[j] = ts[i]
      BY <1>5
    <3>3. \A j \in DOMAIN tabs : tabs[j] <= tabCount /\ tabs[j] \in Nat
      <4>1. \A j \in DOMAIN tabs : tabs[j] \in TabId
        BY <1>2
      <4> QED BY <4>1, <1>2, Kinds
    <3> QED BY <3>2, <3>3, <1>2, <1>3
  <2>2. \A s \in TabId : tab'[s].saved <= saveCount'
    BY <1>1, <1>15, <1>22 DEF WindowFits
  <2>3. dialog'.kind = "save" => dialog'.id <= tabCount'
    <3>1. dialog.kind = "save" => dialog.id <= tabCount /\ dialog.id \in Nat
      BY <1>1, Kinds DEF WindowFits, Dialog
    <3> QED BY <3>1, <1>1, <1>2, <1>3
  <2>4. tabs' \in Seq(TabId) /\ tabs' # <<>> /\ IsInjective(tabs') /\ active' \in DOMAIN tabs'
    BY <1>1, <1>5, <1>6
  <2>5. \A s \in TabId : s > tabCount' => tab'[s] = Blank
    <3>1. \A s \in TabId : s > n => s > tabCount /\ s # n
      BY <1>2, <1>3, Kinds
    <3> QED BY <3>1, <1>1, <1>22 DEF WindowFits
  <2> QED BY <2>1, <2>2, <2>3, <2>4, <2>5, <1>1, <1>22, <1>23 DEF WindowFits
<1>25. LinkedFits'
  <2>1. SUFFICES ASSUME NEW s \in TabId
        PROVE  /\ tab'[s].saved # None => (s = n \/ IsOpen(s)) /\ tab'[s].saved \in DOMAIN saved
               /\ HeldBy(dialog, s) => tab'[s].saved = None /\ (s = n \/ IsOpen(s) \/ s \in ghosts)
    BY <1>1, <1>21 DEF LinkedFits
  <2>2. CASE s # n
    BY <2>2, <1>1, <1>22 DEF LinkedFits
  <2>3. CASE s = n
    BY <2>3, <1>4, <1>22
  <2> QED BY <2>2, <2>3
<1>26. ASSUME faults' = 0 PROVE NoDoubleLinks' /\ RequestsFit' /\ DraftsFit' /\ StripFits'
  <2>1. NoDoubleLinks /\ RequestsFit /\ DraftsFit /\ StripFits
    BY <1>1, <1>26 DEF IInv
  <2>2. NoDoubleLinks'
    <3>1. ASSUME NEW s \in TabId, NEW y \in SavedId, NewLink(queue, disk, ops, s, y)
          PROVE  s = n /\ y = value.saved /\ MayLink(queue, disk, s, y)
      <4>1. s = n /\ y = value.saved
        BY <3>1, <1>13, Paths DEF NewLink, LinksTo
      <4>2. y # None
        BY Kinds
      <4>3. y \in DOMAIN saved /\ \A t \in TabId : tab[t].saved # y
        BY <4>1, <4>2
      <4>4. ~Queued(queue, DraftFile(n))
        BY <1>1, <1>3 DEF WriterFits
      <4>5. ASSUME NEW r \in TabId, LinksTo(Fate[DraftFile(r)], y) PROVE FALSE
        <5>1. PICK v \in Fate[DraftFile(r)] : v.saved = y
          BY <4>5 DEF LinksTo
        <5>2. v \in Tab
          BY <1>1, OneContent
        <5>3. Relinked(v, DOMAIN saved) = v
          BY <4>3, <5>1, <5>2, TabChanges
        <5>4. IsOpen(r)
          BY <2>1, <4>2, <5>1 DEF DraftsFit
        <5> QED BY <5>1, <5>3, <5>4, <2>1, <4>3 DEF DraftsFit
      <4> QED BY <4>1, <4>4, <4>5 DEF MayLink, Fate
    <3> QED BY <3>1, <2>1, <1>19
  <2>3. RequestsFit'
    BY <2>1, <1>1, <1>20 DEF RequestsFit
  <2>4. DraftsFit'
    <3>1. SUFFICES ASSUME NEW s \in TabId
          PROVE  LET open == s = n \/ IsOpen(s)
                 IN  /\ open => Fate'[DraftFile(s)] # {}
                     /\ Fate'[DraftFile(s)] # {} => open \/ s \in ghosts
                     /\ \A v \in Fate'[DraftFile(s)] :
                          /\ open => /\ Relinked(v, DOMAIN saved).saved = tab'[s].saved
                                     /\ s \in timer \/ Relinked(v, DOMAIN saved) = tab'[s]
                          /\ ~open => v.saved = None
      BY <1>1, <1>21 DEF DraftsFit
    <3>2. CASE s # n
      BY <3>2, <2>1, <1>20, <1>22 DEF DraftsFit
    <3>3. CASE s = n
      <4>1. value.saved \in DOMAIN saved \cup {None}
        OBVIOUS
      <4>2. Relinked(value, DOMAIN saved) = value
        BY <4>1, TabChanges
      <4> QED BY <3>3, <4>2, <1>20, <1>22
    <3> QED BY <3>2, <3>3
  <2>5. StripFits'
    BY <1>1, <1>5, <1>6, <1>20 DEF StripFits, l
  <2> QED BY <2>2, <2>3, <2>4, <2>5
<1>27. ASSUME faults' = 0, kills' = 0 PROVE CleanFits'
  <2>1. CleanFits
    BY <1>1, <1>27 DEF IInv
  <2>2. \A s \in TabId : Agrees(tab'[s], saved)
    BY <2>1, <1>22 DEF CleanFits
  <2>3. ASSUME NEW s \in TabId, NEW v \in Fate'[DraftFile(s)]
        PROVE  Agrees(v, saved) /\ (v.saved # None => v.saved \in DOMAIN saved)
    <3>1. CASE s = n
      BY <3>1, <2>3, <1>20
    <3>2. CASE s # n
      BY <3>2, <2>1, <2>3, <1>20 DEF CleanFits
    <3> QED BY <3>1, <3>2
  <2> QED BY <2>2, <2>3, <1>1 DEF CleanFits, Agrees
<1> QED BY <1>3, <1>19, <1>24, <1>25, <1>26, <1>27 DEF IInv

\* new_tab.
LEMMA NewTabKeeps ==
  ASSUME IInv, NewTab
  PROVE  IInv'
<1> DEFINE ts   == InsertAt(tabs, Len(tabs) + 1, tabCount + 1)
           more == <<>>
           k    == Len(tabs) + 1
<1>1. AddTab(Blank, k, more) /\ edits' = edits /\ edits <= MaxEdits
  BY Bounds DEF NewTab, IInv, Bounded
<1>2. more \in Seq(Operation) /\ \A p : ~Queued(more, p)
  BY DEF Queued
<1>3. Blank \in Tab /\ Blank.saved = None /\ Agrees(Blank, saved)
  BY Kinds DEF Agrees
<1>4. k \in 1..(Len(tabs) + 1) /\ k = Len(tabs) + 1
  BY DEF IInv, WindowFits
<1> DEFINE value == Blank
<1>5. value \in Tab /\ value = Blank /\ AddTab(value, k, more) /\ ts = InsertAt(tabs, k, tabCount + 1)
      /\ (value.saved # None => value.saved \in DOMAIN saved /\ \A t \in TabId : tab[t].saved # value.saved)
      /\ Agrees(value, saved)
  BY <1>1, <1>3
<1> HIDE DEF ts, more, k, value
<1> QED BY <1>1, <1>2, <1>4, <1>5, AddTabKeeps

\* The draft of the new tab is written once more.
LEMMA AddWithDraft ==
  ASSUME IInv, NEW value \in Tab, NEW k, k = Len(tabs) + 1,
         AddTab(value, k, <<Draft(tabCount + 1, value)>>),
         edits' \in {edits, edits + 1}, edits' <= MaxEdits,
         value.saved # None => /\ value.saved \in DOMAIN saved
                               /\ \A t \in TabId : tab[t].saved # value.saved,
         Agrees(value, saved)
  PROVE  IInv'
<1> DEFINE n    == tabCount + 1
           op   == Draft(n, value)
           more == <<op>>
           ts   == InsertAt(tabs, k, tabCount + 1)
<1>1. n \in TabId
  BY Bounds DEF AddTab, IInv, Bounded, TabId
<1>2. op \in Operation /\ op.path = DraftFile(n) /\ op.file = {value}
  <2> HIDE DEF n
  <2> QED BY <1>1, Written
<1>3. AddTab(value, k, more) /\ ts = InsertAt(tabs, k, tabCount + 1)
  OBVIOUS
<1> HIDE DEF op
<1>4. /\ more \in Seq(Operation)
      /\ \A p : /\ Queued(more, p) <=> p = DraftFile(n)
                /\ p = DraftFile(n) => Newest(more, p) = op
  BY <1>2, NewestSingle
<1>5. k \in 1..(Len(tabs) + 1)
  BY DEF IInv, WindowFits
<1>6. ~Queued(more, WorkspaceFile)
  BY <1>4, Paths
<1> HIDE DEF more
<1>7. /\ \A p : Queued(more, p) => p = DraftFile(tabCount + 1) \/ p = WorkspaceFile
      /\ Queued(more, DraftFile(tabCount + 1)) /\ Newest(more, DraftFile(tabCount + 1)).file = {value}
  BY <1>2, <1>4
<1> HIDE DEF ts
<1> QED BY <1>3, <1>4, <1>5, <1>6, <1>7, AddTabKeeps

\* open_template.
LEMMA OpenTemplateKeeps ==
  ASSUME IInv, OpenTemplate
  PROVE  IInv'
<1> DEFINE value == [content |-> edits + 1, saved |-> None, dirty |-> TRUE]
           k     == Len(tabs) + 1
<1>1. edits < MaxEdits /\ edits' = edits + 1 /\ AddTab(value, k, <<Draft(tabCount + 1, value)>>)
  BY DEF OpenTemplate
<1>2. edits + 1 \in Content /\ edits' <= MaxEdits
  BY <1>1, Bounds DEF IInv, Bounded, Content
<1>3. value \in Tab /\ value.saved = None /\ Agrees(value, saved)
  BY <1>2 DEF Tab, Agrees
<1>4. k = Len(tabs) + 1
  OBVIOUS
<1> HIDE DEF value, k
<1> QED BY <1>1, <1>2, <1>3, <1>4, AddWithDraft

\* open_saved: the tab that shows the request becomes active, or a new one is made.
LEMMA OpenSavedKeeps ==
  ASSUME IInv, NEW x \in DOMAIN saved, OpenSaved(x)
  PROVE  IInv'
<1> DEFINE value == [content |-> saved[x], saved |-> x, dirty |-> FALSE]
           shown == {i \in DOMAIN tabs : tab[tabs[i]].saved = x}
<1>1. WindowFits /\ LinkedFits /\ Bounded
  BY DEF IInv
<1>2. x \in SavedId /\ x # None /\ saved[x] \in Content
  BY <1>1, Kinds DEF WindowFits
<1>3. CASE shown # {}
  <2> DEFINE i == CHOOSE i \in shown : \A j \in shown : i <= j
  <2>1. Activate(i)
    BY <1>3 DEF OpenSaved
  <2>2. shown \subseteq Nat
    BY <1>1 DEF WindowFits
  <2>3. i \in shown
    <3>1. \E m \in shown : \A j \in shown : m <= j
      <4> HIDE DEF shown
      <4> QED BY <1>3, <2>2, Least
    <3> HIDE DEF shown
    <3> QED BY <3>1
  <2>4. i \in DOMAIN tabs
    BY <2>3
  <2> HIDE DEF i
  <2> QED BY <2>1, <2>4, ActivateKeeps
<1>4. CASE shown = {}
  <2> DEFINE k == Len(tabs) + 1
  <2>1. AddTab(value, k, <<Draft(tabCount + 1, value)>>) /\ edits' = edits /\ edits <= MaxEdits
    BY <1>1, <1>4, Bounds DEF OpenSaved, Bounded
  <2>2. value \in Tab /\ value.saved = x
    BY <1>2 DEF Tab
  <2>3. Agrees(value, saved)
    BY <1>2 DEF Agrees
  <2>4. \A t \in TabId : tab[t].saved # x
    <3>1. \A t \in TabId : tab[t].saved = x => IsOpen(t)
      BY <1>1, <1>2 DEF LinkedFits
    <3> QED BY <3>1, <1>4 DEF IsOpen
  <2>5. k = Len(tabs) + 1
    OBVIOUS
  <2>6. value.saved # None => value.saved \in DOMAIN saved /\ \A t \in TabId : tab[t].saved # value.saved
    BY <2>2, <2>4
  <2> HIDE DEF value, k
  <2> QED BY <2>1, <2>2, <2>3, <2>5, <2>6, AddWithDraft
<1> QED BY <1>3, <1>4

\* duplicate_tab: a copy is moved next to its source.
LEMMA DuplicateTabKeeps ==
  ASSUME IInv, NEW i \in DOMAIN tabs, DuplicateTab(i)
  PROVE  IInv'
<1> DEFINE n     == tabCount + 1
           k     == i + 1
           ts    == InsertAt(tabs, k, n)
           copy  == Copy(tab[tabs[i]])
           op    == Draft(n, copy)
           last  == Layout(ts, k)
           moved == IF i = Len(tabs) THEN <<>> ELSE <<last>>
           one   == <<op>>
           more  == one \o moved
<1>1. WindowFits /\ Bounded /\ AddTab(copy, k, more) /\ edits' = edits /\ edits <= MaxEdits
  BY Bounds DEF DuplicateTab, IInv, Bounded
<1>2. n \in TabId /\ n > tabCount /\ tabCount \in Nat
  BY <1>1, Bounds DEF AddTab, Bounded, TabId
<1>3. tabs \in Seq(TabId) /\ IsInjective(tabs) /\ tab[tabs[i]] \in Tab
  BY <1>1 DEF WindowFits
<1>4. k \in 1..(Len(tabs) + 1) /\ (i = Len(tabs) => k = Len(tabs) + 1)
  BY <1>3
<1>5. copy \in Tab /\ copy.saved = None /\ copy.dirty
  BY <1>3, TabChanges
<1>6. \A j \in DOMAIN tabs : tabs[j] # n
  BY <1>1, <1>2 DEF WindowFits
<1>7. /\ ts \in Seq(TabId) /\ IsInjective(ts) /\ k \in DOMAIN ts /\ ts[k] = n
  <2>1. \A out : out = InsertAt(tabs, k, n) =>
           out \in Seq(TabId) /\ IsInjective(out) /\ k \in DOMAIN out /\ out[k] = n
    <3> HIDE DEF n, k
    <3> QED BY <1>2, <1>3, <1>4, <1>6, InsertIs
  <2> QED BY <2>1
<1>8. ts = InsertAt(tabs, k, tabCount + 1)
  OBVIOUS
<1>9. op \in Operation /\ op.path = DraftFile(n) /\ op.file = {copy}
  <2> HIDE DEF n, copy
  <2> QED BY <1>2, <1>5, Written
<1>10. last \in Operation /\ last.path = WorkspaceFile /\ last.file = {[order |-> ts, active |-> n]}
  <2>1. last \in Operation /\ last.path = WorkspaceFile /\ last.file = {[order |-> ts, active |-> ts[k]]}
    <3> HIDE DEF ts, k
    <3> QED BY <1>7, LayoutWritten
  <2> QED BY <2>1, <1>7
<1> HIDE DEF op, last
<1>11. /\ one \in Seq(Operation)
       /\ \A p : /\ Queued(one, p) <=> p = DraftFile(n)
                 /\ p = DraftFile(n) => Newest(one, p) = op
  BY <1>9, NewestSingle
<1>12. /\ moved \in Seq(Operation)
       /\ \A p : Queued(moved, p) <=> p = WorkspaceFile /\ i # Len(tabs)
       /\ i # Len(tabs) => Newest(moved, WorkspaceFile) = last
  <2>1. CASE i = Len(tabs)
    BY <2>1 DEF Queued
  <2>2. CASE i # Len(tabs)
    <3>1. /\ <<last>> \in Seq(Operation)
          /\ \A p : /\ Queued(<<last>>, p) <=> p = WorkspaceFile
                    /\ p = WorkspaceFile => Newest(<<last>>, p) = last
      BY <1>10, NewestSingle
    <3> QED BY <2>2, <3>1
  <2> QED BY <2>1, <2>2
<1> HIDE DEF one, moved
<1>13. /\ more \in Seq(Operation)
       /\ \A p : /\ Queued(more, p) <=> Queued(one, p) \/ Queued(moved, p)
                 /\ Queued(moved, p) => Newest(more, p) = Newest(moved, p)
                 /\ Queued(one, p) /\ ~Queued(moved, p) => Newest(more, p) = Newest(one, p)
  BY <1>11, <1>12, NewestConcat
<1> HIDE DEF more
<1>14. /\ \A p : Queued(more, p) => p = DraftFile(n) \/ p = WorkspaceFile
       /\ Queued(more, DraftFile(n)) /\ Newest(more, DraftFile(n)).file = {copy}
  BY <1>9, <1>11, <1>12, <1>13, Paths
<1>15. IF Queued(more, WorkspaceFile)
       THEN Newest(more, WorkspaceFile).file = {[order |-> ts, active |-> n]} ELSE k = Len(tabs) + 1
  <2>1. ~Queued(one, WorkspaceFile)
    BY <1>11, Paths
  <2> QED BY <2>1, <1>4, <1>10, <1>12, <1>13
<1>16. Agrees(copy, saved)
  BY <1>5 DEF Agrees
<1>17. /\ \A p : Queued(more, p) => p = DraftFile(tabCount + 1) \/ p = WorkspaceFile
       /\ Queued(more, DraftFile(tabCount + 1)) /\ Newest(more, DraftFile(tabCount + 1)).file = {copy}
       /\ IF Queued(more, WorkspaceFile)
          THEN Newest(more, WorkspaceFile).file = {[order |-> ts, active |-> tabCount + 1]}
          ELSE k = Len(tabs) + 1
  BY <1>14, <1>15
<1> HIDE DEF ts, k, copy
<1> QED BY <1>1, <1>4, <1>5, <1>8, <1>13, <1>16, <1>17, AddTabKeeps
-----------------------------------------------------------------------------
(* One lemma per handler: those that close tabs *)

\* ts is the strip without the tabs of gone and with those of fresh, which are new.
StripBecomes(ts, gone, fresh) ==
  /\ ts \in Seq(TabId) /\ IsInjective(ts) /\ gone \subseteq TabId /\ fresh \subseteq TabId
  /\ IF fresh = {} THEN tabCount' = tabCount
     ELSE fresh = {tabCount + 1} /\ tabCount' = tabCount + 1
  /\ \A t \in gone : IsOpen(t)
  /\ \A t : t \in ToSet(ts) <=> (IsOpen(t) /\ t \notin gone) \/ t \in fresh

\* What is handed over then.
StripWritten(ops, ts, a, gone, fresh) ==
  /\ ops \in Seq(Operation)
  /\ \A p : Queued(ops, p) <=> p = WorkspaceFile \/ \E t \in gone \cup fresh : p = DraftFile(t)
  /\ \A t \in gone : Newest(ops, DraftFile(t)).file = {}
  /\ \A t \in fresh : Newest(ops, DraftFile(t)).file = {Blank}
  /\ Newest(ops, WorkspaceFile).file = {[order |-> ts, active |-> ts[a]]}

\* The tabs of gone leave the strip, those of fresh take their place.
LEMMA RemoveKeeps ==
  ASSUME IInv, NEW gone, NEW ts, NEW a, a \in DOMAIN ts, RemoveTabs(gone, ts, a),
         NEW fresh, StripBecomes(ts, gone, fresh),
         NEW ops, Send(ops), StripWritten(ops, ts, a, gone, fresh)
  PROVE  IInv'
<1> DEFINE alive == Alive(ts, dialog)
           l     == [order |-> ts, active |-> ts[a]]
<1>1. /\ ts \in Seq(TabId) /\ IsInjective(ts) /\ gone \subseteq TabId /\ fresh \subseteq TabId
      /\ IF fresh = {} THEN tabCount' = tabCount
         ELSE fresh = {tabCount + 1} /\ tabCount' = tabCount + 1
      /\ \A t \in gone : IsOpen(t)
      /\ \A t : t \in ToSet(ts) <=> (IsOpen(t) /\ t \notin gone) \/ t \in fresh
      /\ ops \in Seq(Operation) /\ queue' = Enqueued(queue, ops)
      /\ \A p : Queued(ops, p) <=> p = WorkspaceFile \/ \E t \in gone \cup fresh : p = DraftFile(t)
      /\ \A t \in gone : Newest(ops, DraftFile(t)).file = {}
      /\ \A t \in fresh : Newest(ops, DraftFile(t)).file = {Blank}
      /\ Newest(ops, WorkspaceFile).file = {[order |-> ts, active |-> ts[a]]}
  BY DEF StripBecomes, StripWritten, Send
<1>2. /\ WindowFits /\ Bounded /\ WriterFits /\ LinkedFits
      /\ phase = "run" /\ tabs' = ts /\ active' = a
      /\ tab' = [t \in TabId |-> IF t \in alive THEN tab[t] ELSE Blank]
      /\ timer' = timer \cap alive
      /\ ghosts' = ghosts \cup {t \in gone : HeldBy(dialog, t)}
      /\ UNCHANGED <<phase, saved, dialog, disk, saveCount, edits, faults, kills>>
  BY DEF IInv, RemoveTabs, Acting, Dropped, HeldBy
<1>3. /\ tab \in [TabId -> Tab] /\ timer \in SUBSET TabId
      /\ tabCount \in 1..MaxTabs /\ saveCount \in Nat /\ tabCount \in Nat
      /\ \A t \in TabId : t > tabCount => tab[t] = Blank
      /\ \A t : IsOpen(t) => t \in TabId /\ t <= tabCount
  BY <1>1, <1>2, Bounds, OpenIs DEF WindowFits, Bounded
<1>4. /\ tabCount' \in Nat /\ tabCount <= tabCount'
      /\ \A t \in fresh : t <= tabCount' /\ t > tabCount
      /\ Bounded'
  <2>1. CASE fresh = {}
    BY <1>1, <2>1, <1>2, <1>3 DEF Bounded
  <2>2. CASE fresh = {tabCount + 1} /\ tabCount' = tabCount + 1
    <3>1. tabCount + 1 \in 1..MaxTabs
      BY <1>1, <2>2 DEF TabId
    <3> QED BY <2>2, <3>1, <1>2, <1>3 DEF Bounded
  <2> QED BY <1>1, <2>1, <2>2
<1>5. \A t \in fresh : tab[t] = Blank /\ ~IsOpen(t) /\ ~HeldBy(dialog, t) /\ t \notin gone
  <2>1. SUFFICES ASSUME NEW t \in fresh PROVE tab[t] = Blank /\ ~IsOpen(t) /\ ~HeldBy(dialog, t)
    BY <1>1
  <2>2. t > tabCount /\ t \in Nat /\ ~(t <= tabCount)
    BY <1>1, <1>3, <1>4, Kinds
  <2>3. ~HeldBy(dialog, t)
    BY <2>2, <1>2 DEF HeldBy, WindowFits
  <2> QED BY <1>1, <2>2, <2>3, <1>3
<1>6. l \in Strips
  BY <1>1 DEF Strips
<1> HIDE DEF l
<1>7. OpsFit(ops, tabCount', saveCount')
  <2>1. \A t \in TabId : Queued(ops, DraftFile(t)) => t \in gone \cup fresh
    BY <1>1, Paths
  <2>2. \A t \in gone : t <= tabCount'
    <3>1. \A t \in gone : t <= tabCount /\ t \in Nat
      BY <1>1, <1>3, Kinds
    <3> QED BY <3>1, <1>3, <1>4
  <2>3. \A x \in SavedId : ~Queued(ops, RequestFile(x))
    BY <1>1, Paths
  <2>4. Blank \in Tab /\ Blank.saved <= saveCount'
    BY <1>2, <1>3, Kinds DEF None
  <2>5. Newest(ops, WorkspaceFile).file = {l}
    BY <1>1 DEF l
  <2> QED BY <1>1, <2>1, <2>2, <2>3, <2>4, <2>5, <1>4, <1>6 DEF OpsFit
<1>8. queue \in Seq(Operation) /\ OnePerPath(queue)
  BY <1>2 DEF WriterFits
<1>9. Took(queue, ops, queue')
  BY <1>1, <1>8, EnqueuedTook
<1>10. /\ WriterFits'
       /\ \A p \in Path : Fate'[p] = IF Queued(ops, p) THEN Newest(ops, p).file ELSE Fate[p]
       /\ NoDoubleLinks /\ (\A s \in TabId, y \in SavedId : NewLink(queue, disk, ops, s, y) =>
             /\ MayLink(queue, disk, s, y)
             /\ \A r \in TabId : NewLink(queue, disk, ops, r, y) => r = s)
          => NoDoubleLinks'
  <2>1. tabCount <= tabCount' /\ saveCount <= saveCount' /\ disk' = disk
    BY <1>2, <1>3, <1>4
  <2> QED BY <2>1, <1>2, <1>4, <1>7, <1>9, Sent
<1>11. /\ \A t \in gone : Fate'[DraftFile(t)] = {}
       /\ \A t \in fresh : Fate'[DraftFile(t)] = {Blank}
       /\ \A t \in TabId : t \notin gone \cup fresh => Fate'[DraftFile(t)] = Fate[DraftFile(t)]
       /\ \A x \in SavedId : Fate'[RequestFile(x)] = Fate[RequestFile(x)]
       /\ Fate'[WorkspaceFile] = {l}
  <2>1. /\ \A t \in TabId : DraftFile(t) \in Path /\ (Queued(ops, DraftFile(t)) <=> t \in gone \cup fresh)
        /\ \A x \in SavedId : RequestFile(x) \in Path /\ ~Queued(ops, RequestFile(x))
        /\ WorkspaceFile \in Path /\ Queued(ops, WorkspaceFile)
        /\ Newest(ops, WorkspaceFile).file = {l}
    BY <1>1, Paths DEF l
  <2> QED BY <1>1, <2>1, <1>10
<1>12. \A t : IsOpen(t)' <=> (IsOpen(t) /\ t \notin gone) \/ t \in fresh
  BY <1>1, <1>2 DEF IsOpen, ToSet
<1>13. /\ alive \subseteq TabId /\ alive = Alive(tabs', dialog')
       /\ \A t \in TabId : t \in alive <=> IsOpen(t)' \/ HeldBy(dialog, t)
  BY <1>2 DEF Alive, IsOpen, HeldBy
<1> HIDE DEF alive
<1>14. /\ tab' \in [TabId -> Tab]
       /\ \A t \in TabId : tab'[t] = IF t \in alive THEN tab[t] ELSE Blank
  BY <1>2, <1>3, Kinds
<1>15. WindowFits'
  <2>1. ts # <<>> /\ \A i \in DOMAIN ts : ts[i] <= tabCount'
    <3>1. SUFFICES ASSUME NEW i \in DOMAIN ts PROVE ts[i] <= tabCount'
      BY <1>1
    <3>2. ts[i] \in ToSet(ts) /\ ts[i] \in Nat
      <4>1. ts[i] \in ToSet(ts)
        BY <1>1 DEF ToSet
      <4>2. ts[i] \in TabId
        BY <1>1
      <4> QED BY <4>1, <4>2, Kinds
    <3>3. IsOpen(ts[i]) \/ ts[i] \in fresh
      BY <1>1, <3>2
    <3> QED BY <3>2, <3>3, <1>3, <1>4
  <2>2. \A s \in TabId : tab'[s].saved <= saveCount'
    BY <1>2, <1>3, <1>14, Kinds DEF WindowFits, None
  <2>3. dialog'.kind = "save" => dialog'.id <= tabCount'
    <3>1. dialog.kind = "save" => dialog.id <= tabCount /\ dialog.id \in Nat
      BY <1>2, Kinds DEF WindowFits, Dialog
    <3> QED BY <3>1, <1>2, <1>3, <1>4
  <2>4. \A s \in TabId : s > tabCount' => tab'[s] = Blank
    <3>1. \A s \in TabId : s > tabCount' => s > tabCount
      BY <1>3, <1>4, Kinds
    <3> QED BY <3>1, <1>3, <1>14
  <2>5. timer' \in SUBSET TabId /\ timer' \subseteq Alive(tabs', dialog')
    BY <1>2, <1>3, <1>13
  <2> QED BY <1>1, <2>1, <2>2, <2>3, <2>4, <2>5, <1>2, <1>14 DEF WindowFits
<1>16. LinkedFits'
  <2>1. SUFFICES ASSUME NEW s \in TabId
        PROVE  /\ tab'[s].saved # None => IsOpen(s)' /\ tab'[s].saved \in DOMAIN saved
               /\ HeldBy(dialog, s) => tab'[s].saved = None /\ (IsOpen(s)' \/ s \in ghosts')
    BY <1>2 DEF LinkedFits
  <2>2. /\ tab[s].saved # None => IsOpen(s) /\ tab[s].saved \in DOMAIN saved
        /\ HeldBy(dialog, s) => tab[s].saved = None /\ (IsOpen(s) \/ s \in ghosts)
    BY <1>2 DEF LinkedFits
  <2>3. ASSUME tab'[s].saved # None PROVE IsOpen(s)' /\ tab'[s].saved \in DOMAIN saved
    <3>1. s \in alive /\ tab'[s] = tab[s]
      BY <2>3, <1>14, Kinds
    <3> QED BY <3>1, <2>2, <2>3, <1>13
  <2>4. ASSUME HeldBy(dialog, s) PROVE tab'[s].saved = None /\ (IsOpen(s)' \/ s \in ghosts')
    <3>1. tab'[s] = tab[s]
      BY <2>4, <1>13, <1>14
    <3>2. s \in gone => s \in ghosts'
      BY <2>4, <1>2
    <3> QED BY <3>1, <3>2, <2>2, <2>4, <1>2, <1>12
  <2> QED BY <2>3, <2>4
<1>17. ASSUME faults' = 0 PROVE NoDoubleLinks' /\ RequestsFit' /\ DraftsFit' /\ StripFits'
  <2>1. NoDoubleLinks /\ RequestsFit /\ DraftsFit /\ StripFits
    BY <1>2, <1>17 DEF IInv
  <2>2. NoDoubleLinks'
    <3>1. ASSUME NEW s \in TabId, NEW y \in SavedId, NewLink(queue, disk, ops, s, y) PROVE FALSE
      <4>1. s \in gone \cup fresh
        BY <1>1, <3>1, Paths DEF NewLink
      <4>2. Newest(ops, DraftFile(s)).file = {} \/ Newest(ops, DraftFile(s)).file = {Blank}
        BY <1>1, <4>1
      <4> QED BY <3>1, <4>2, Kinds DEF NewLink, LinksTo
    <3> QED BY <3>1, <2>1, <1>10
  <2>3. RequestsFit'
    BY <2>1, <1>2, <1>11 DEF RequestsFit
  <2>4. DraftsFit'
    <3>1. SUFFICES ASSUME NEW s \in TabId
          PROVE  /\ IsOpen(s)' => Fate'[DraftFile(s)] # {}
                 /\ Fate'[DraftFile(s)] # {} => IsOpen(s)' \/ s \in ghosts'
                 /\ \A v \in Fate'[DraftFile(s)] :
                      /\ IsOpen(s)' => /\ Relinked(v, DOMAIN saved).saved = tab'[s].saved
                                       /\ s \in timer' \/ Relinked(v, DOMAIN saved) = tab'[s]
                      /\ ~IsOpen(s)' => v.saved = None
      BY <1>2 DEF DraftsFit
    <3>2. CASE s \in gone
      BY <3>2, <1>5, <1>11, <1>12
    <3>3. CASE s \in fresh
      <4>1. s \in alive /\ tab'[s] = Blank
        BY <3>3, <1>5, <1>12, <1>13, <1>14
      <4>2. Relinked(Blank, DOMAIN saved) = Blank
        BY Kinds DEF Relinked
      <4> QED BY <3>3, <4>1, <4>2, <1>11, <1>12
    <3>4. CASE s \notin gone \cup fresh
      <4>1. Fate'[DraftFile(s)] = Fate[DraftFile(s)] /\ (IsOpen(s)' <=> IsOpen(s))
        BY <3>4, <1>11, <1>12
      <4>2. IsOpen(s) => tab'[s] = tab[s] /\ (s \in timer' <=> s \in timer)
        BY <4>1, <1>2, <1>13, <1>14
      <4> QED BY <4>1, <4>2, <2>1, <1>2 DEF DraftsFit
    <3> QED BY <3>2, <3>3, <3>4
  <2>5. StripFits'
    BY <1>2, <1>11 DEF StripFits, l
  <2> QED BY <2>2, <2>3, <2>4, <2>5
<1>18. ASSUME faults' = 0, kills' = 0 PROVE CleanFits'
  <2>1. CleanFits
    BY <1>2, <1>18 DEF IInv
  <2>2. Agrees(Blank, saved)
    BY Kinds DEF Agrees
  <2>3. \A s \in TabId : Agrees(tab'[s], saved)
    BY <2>1, <2>2, <1>14 DEF CleanFits
  <2>4. ASSUME NEW s \in TabId, NEW v \in Fate'[DraftFile(s)]
        PROVE  Agrees(v, saved) /\ (v.saved # None => v.saved \in DOMAIN saved)
    <3>1. CASE s \in gone
      BY <3>1, <2>4, <1>11
    <3>2. CASE s \in fresh
      BY <3>2, <2>2, <2>4, <1>11, Kinds
    <3>3. CASE s \notin gone \cup fresh
      BY <3>3, <2>1, <2>4, <1>11 DEF CleanFits
    <3> QED BY <3>1, <3>2, <3>3
  <2> QED BY <2>3, <2>4, <1>2 DEF CleanFits, Agrees
<1> QED BY <1>4, <1>10, <1>15, <1>16, <1>17, <1>18 DEF IInv

\* What is left when the tab at place i is taken out.
LEMMA RemoveAtIs ==
  ASSUME NEW ts \in Seq(TabId), IsInjective(ts), NEW i \in DOMAIN ts, NEW out, out = RemoveAt(ts, i)
  PROVE  /\ out \in Seq(TabId) /\ Len(out) = Len(ts) - 1
         /\ \A j \in DOMAIN out : out[j] = IF j < i THEN ts[j] ELSE ts[j + 1]
         /\ IsInjective(out)
         /\ \A t : t \in ToSet(out) <=> t \in ToSet(ts) /\ t # ts[i]
<1> DEFINE a == SubSeq(ts, 1, i - 1)
           b == SubSeq(ts, i + 1, Len(ts))
<1>1. Len(ts) \in Nat /\ DOMAIN ts = 1..Len(ts) /\ i \in Nat /\ 1 <= i /\ i <= Len(ts)
  OBVIOUS
<1>2. a \in Seq(TabId) /\ Len(a) = i - 1 /\ \A j \in 1..(i - 1) : a[j] = ts[j]
  BY <1>1
<1>3. b \in Seq(TabId) /\ Len(b) = Len(ts) - i /\ \A j \in 1..(Len(ts) - i) : b[j] = ts[i + j]
  <2>1. b \in Seq(TabId) /\ Len(b) = Len(ts) - i
    BY <1>1
  <2>2. \A j \in 1..(Len(ts) - i) : b[j] = ts[i + 1 + j - 1]
    BY <1>1
  <2>3. \A j \in 1..(Len(ts) - i) : i + 1 + j - 1 = i + j
    BY <1>1
  <2> QED BY <2>1, <2>2, <2>3
<1>4. out = a \o b
  BY DEF RemoveAt
<1> HIDE DEF a, b
<1>5. /\ a \o b \in Seq(TabId) /\ Len(a \o b) = Len(a) + Len(b)
      /\ \A j \in 1..Len(a) + Len(b) : (a \o b)[j] = IF j <= Len(a) THEN a[j] ELSE b[j - Len(a)]
  BY <1>2, <1>3, ConcatProperties, Zenon
<1>6. out \in Seq(TabId) /\ Len(out) = Len(ts) - 1 /\ DOMAIN out = 1..(Len(ts) - 1)
  <2>1. Len(a) + Len(b) = Len(ts) - 1
    BY <1>1, <1>2, <1>3
  <2> QED BY <2>1, <1>4, <1>5
<1>7. ASSUME NEW j \in DOMAIN out
      PROVE  /\ out[j] = IF j < i THEN ts[j] ELSE ts[j + 1]
             /\ j < i => j \in DOMAIN ts
             /\ ~(j < i) => j + 1 \in DOMAIN ts
             /\ j \in Nat
  <2>1. j \in Nat /\ 1 <= j /\ j <= Len(ts) - 1 /\ j \in 1..(Len(a) + Len(b))
    BY <1>1, <1>2, <1>3, <1>6
  <2>2. CASE j < i
    <3>1. j <= Len(a) /\ j \in 1..(i - 1)
      BY <2>1, <2>2, <1>1, <1>2
    <3>2. out[j] = a[j]
      BY <2>1, <3>1, <1>4, <1>5
    <3> QED BY <2>1, <2>2, <3>1, <3>2, <1>1, <1>2
  <2>3. CASE ~(j < i)
    <3>1. ~(j <= Len(a)) /\ j - Len(a) \in 1..(Len(ts) - i) /\ i + (j - Len(a)) = j + 1
      BY <2>1, <2>3, <1>1, <1>2
    <3>2. out[j] = b[j - Len(a)]
      BY <2>1, <3>1, <1>4, <1>5
    <3>3. b[j - Len(a)] = ts[i + (j - Len(a))]
      BY <3>1, <1>3
    <3> QED BY <2>1, <2>3, <3>1, <3>2, <3>3, <1>1
  <2> QED BY <2>2, <2>3
<1>8. IsInjective(out)
  <2>1. SUFFICES ASSUME NEW j \in DOMAIN out, NEW k \in DOMAIN out, out[j] = out[k] PROVE j = k
    BY DEF IsInjective
  <2>2. \A m, n \in DOMAIN ts : ts[m] = ts[n] => m = n
    BY DEF IsInjective
  <2>3. CASE j < i /\ k < i
    BY <2>1, <2>2, <2>3, <1>7
  <2>4. CASE j < i /\ ~(k < i)
    <3>1. j = k + 1
      BY <2>1, <2>2, <2>4, <1>7
    <3> QED BY <3>1, <2>4, <1>7, <1>1
  <2>5. CASE ~(j < i) /\ k < i
    <3>1. j + 1 = k
      BY <2>1, <2>2, <2>5, <1>7
    <3> QED BY <3>1, <2>5, <1>7, <1>1
  <2>6. CASE ~(j < i) /\ ~(k < i)
    <3>1. j + 1 = k + 1
      BY <2>1, <2>2, <2>6, <1>7
    <3> QED BY <3>1, <1>7
  <2> QED BY <2>3, <2>4, <2>5, <2>6
<1>9. ASSUME NEW t, t \in ToSet(out) PROVE t \in ToSet(ts) /\ t # ts[i]
  <2>1. PICK j \in DOMAIN out : out[j] = t
    BY <1>9 DEF ToSet
  <2>2. CASE j < i
    <3>1. j \in DOMAIN ts /\ ts[j] = t /\ j # i
      BY <2>1, <2>2, <1>7, <1>1
    <3> QED BY <3>1 DEF ToSet, IsInjective
  <2>3. CASE ~(j < i)
    <3>1. j + 1 \in DOMAIN ts /\ ts[j + 1] = t /\ j + 1 # i
      BY <2>1, <2>3, <1>7, <1>1
    <3> QED BY <3>1 DEF ToSet, IsInjective
  <2> QED BY <2>2, <2>3
<1>10. ASSUME NEW t, t \in ToSet(ts), t # ts[i] PROVE t \in ToSet(out)
  <2>1. PICK j \in DOMAIN ts : ts[j] = t
    BY <1>10 DEF ToSet
  <2>2. CASE j < i
    <3>1. j \in DOMAIN out
      BY <2>2, <1>1, <1>6
    <3>2. out[j] = t
      BY <3>1, <2>1, <2>2, <1>7
    <3> QED BY <3>1, <3>2 DEF ToSet
  <2>3. CASE ~(j < i)
    <3>1. j # i
      BY <2>1, <1>10
    <3>2. j - 1 \in DOMAIN out /\ ~(j - 1 < i) /\ (j - 1) + 1 = j
      BY <3>1, <2>3, <1>1, <1>6
    <3>3. out[j - 1] = t
      BY <3>2, <2>1, <1>7
    <3> QED BY <3>2, <3>3 DEF ToSet
  <2> QED BY <2>2, <2>3
<1> QED BY <1>6, <1>7, <1>8, <1>9, <1>10

\* The drafts of some tabs are deleted, then the rest is written.
DeletesOf(dels, gs) ==
  dels \in Seq(Operation) /\ DOMAIN dels = DOMAIN gs /\ \A i \in DOMAIN gs : dels[i] = Delete(DraftFile(gs[i]))

\* They are what CloseOtherTabs and CloseAllTabs make for the tabs of gs.
LEMMA DeletesTyped ==
  ASSUME NEW gs \in Seq(TabId)
  PROVE  DeletesOf([i \in DOMAIN gs |-> Delete(DraftFile(gs[i]))], gs)
<1> DEFINE dels == [i \in DOMAIN gs |-> Delete(DraftFile(gs[i]))]
<1>1. Len(gs) \in Nat /\ DOMAIN gs = 1..Len(gs) /\ \A i \in DOMAIN gs : gs[i] \in TabId
  OBVIOUS
<1>2. \A i \in DOMAIN gs : Delete(DraftFile(gs[i])) \in Operation
  BY <1>1, Kinds, Written
<1>3. dels \in [1..Len(gs) -> Operation]
  BY <1>1, <1>2
<1>4. dels \in Seq(Operation)
  BY <1>1, <1>3
<1> QED BY <1>4 DEF DeletesOf

\* What is handed over after them has the last word on its own paths.
LEMMA DeletesThen ==
  ASSUME NEW gs \in Seq(TabId), NEW rest \in Seq(Operation),
         \A t \in ToSet(gs) : ~Queued(rest, DraftFile(t)),
         NEW dels, DeletesOf(dels, gs)
  PROVE  /\ dels \o rest \in Seq(Operation) /\ ToSet(gs) \in SUBSET TabId
         /\ \A p : Queued(dels \o rest, p) <=> Queued(rest, p) \/ \E t \in ToSet(gs) : p = DraftFile(t)
         /\ \A t \in ToSet(gs) : Newest(dels \o rest, DraftFile(t)).file = {}
         /\ \A p : Queued(rest, p) => Newest(dels \o rest, p) = Newest(rest, p)
<1> DEFINE op  == [t \in TabId |-> Delete(DraftFile(t))]
           ops == dels \o rest
<1>1. op \in [TabId -> Operation] /\ \A t \in TabId : op[t].path = DraftFile(t) /\ op[t].file = {}
  BY Kinds, Written
<1>2. ToSet(gs) \in SUBSET TabId
  BY DEF ToSet
<1>3. dels \in Seq(Operation) /\ DOMAIN dels = DOMAIN gs /\ \A i \in DOMAIN gs : dels[i] = op[gs[i]]
  <2>1. \A i \in DOMAIN gs : gs[i] \in TabId
    OBVIOUS
  <2> QED BY <2>1 DEF DeletesOf
<1> HIDE DEF op
<1>4. /\ \A p : Queued(dels, p) <=> \E t \in ToSet(gs) : p = DraftFile(t)
      /\ \A t \in ToSet(gs) : Newest(dels, DraftFile(t)) = op[t]
  BY <1>1, <1>3, NewestEach
<1>5. /\ ops \in Seq(Operation)
      /\ \A p : /\ Queued(ops, p) <=> Queued(dels, p) \/ Queued(rest, p)
                /\ Queued(rest, p) => Newest(ops, p) = Newest(rest, p)
                /\ Queued(dels, p) /\ ~Queued(rest, p) => Newest(ops, p) = Newest(dels, p)
  BY <1>3, NewestConcat
<1> HIDE DEF ops
<1>6. \A t \in ToSet(gs) : Newest(ops, DraftFile(t)).file = {}
  <2>1. SUFFICES ASSUME NEW t \in ToSet(gs) PROVE Newest(ops, DraftFile(t)) = op[t] /\ t \in TabId
    BY <1>1
  <2>2. Queued(dels, DraftFile(t)) /\ ~Queued(rest, DraftFile(t))
    BY <1>4
  <2> QED BY <2>2, <1>2, <1>4, <1>5
<1> QED BY <1>2, <1>4, <1>5, <1>6 DEF ops

\* close_tab while others stay open.
LEMMA CloseTabKeeps ==
  ASSUME IInv, NEW i \in DOMAIN tabs, CloseTab(i)
  PROVE  IInv'
<1> DEFINE x    == tabs[i]
           ts   == RemoveAt(tabs, i)
           a    == ActiveAfterClose(active, i, Len(tabs))
           del  == Delete(DraftFile(x))
           last == Layout(ts, a)
           ops  == <<del, last>>
           gone == {x}
           fresh == {}
<1>1. /\ WindowFits /\ Len(tabs) > 1 /\ RemoveTabs(gone, ts, a) /\ tabCount' = tabCount
      /\ Send(ops)
  BY DEF IInv, CloseTab
<1>2. /\ tabs \in Seq(TabId) /\ IsInjective(tabs) /\ active \in DOMAIN tabs /\ x \in TabId /\ IsOpen(x)
  BY <1>1 DEF WindowFits, IsOpen
<1>3. /\ ts \in Seq(TabId) /\ Len(ts) = Len(tabs) - 1 /\ IsInjective(ts)
      /\ \A t : t \in ToSet(ts) <=> t \in ToSet(tabs) /\ t # x
  <2>1. \A out : out = RemoveAt(tabs, i) =>
           /\ out \in Seq(TabId) /\ Len(out) = Len(tabs) - 1 /\ IsInjective(out)
           /\ \A t : t \in ToSet(out) <=> t \in ToSet(tabs) /\ t # tabs[i]
    BY <1>2, RemoveAtIs
  <2> QED BY <2>1
<1> HIDE DEF ts
<1>4. a \in DOMAIN ts
  <2>1. Len(tabs) \in Nat /\ active \in 1..Len(tabs) /\ i \in 1..Len(tabs) /\ DOMAIN ts = 1..(Len(tabs) - 1)
    BY <1>2, <1>3
  <2> QED BY <2>1, <1>1 DEF ActiveAfterClose
<1> HIDE DEF x, a
<1>5. /\ del \in Operation /\ del.path = DraftFile(x) /\ del.file = {}
      /\ last \in Operation /\ last.path = WorkspaceFile
      /\ last.file = {[order |-> ts, active |-> ts[a]]}
  <2>1. del \in Operation /\ del.path = DraftFile(x) /\ del.file = {}
    BY <1>2, Kinds, Written
  <2>2. last \in Operation /\ last.path = WorkspaceFile /\ last.file = {[order |-> ts, active |-> ts[a]]}
    BY <1>3, <1>4, LayoutWritten
  <2> QED BY <2>1, <2>2
<1> HIDE DEF del, last
<1>6. /\ ops \in Seq(Operation)
      /\ \A p : /\ Queued(ops, p) <=> p = DraftFile(x) \/ p = WorkspaceFile
                /\ p = DraftFile(x) => Newest(ops, p) = del
                /\ p = WorkspaceFile => Newest(ops, p) = last
  <2>1. del.path # last.path
    BY <1>5, Paths
  <2>2. \A p : /\ <<del, last>> \in Seq(Operation)
               /\ Queued(<<del, last>>, p) <=> p = del.path \/ p = last.path
               /\ p = del.path => Newest(<<del, last>>, p) = del
               /\ p = last.path => Newest(<<del, last>>, p) = last
    BY <2>1, <1>5, NewestPair
  <2> QED BY <2>2, <1>5
<1> HIDE DEF ops
<1>7. /\ \A t \in gone : IsOpen(t)
      /\ \A t : t \in ToSet(ts) <=> (IsOpen(t) /\ t \notin gone) \/ t \in fresh
      /\ gone \in SUBSET TabId /\ fresh \in SUBSET TabId
  <2>1. \A t : IsOpen(t) <=> t \in ToSet(tabs)
    BY <1>1, OpenIs
  <2> QED BY <2>1, <1>2, <1>3
<1>8. /\ \A p : Queued(ops, p) <=> p = WorkspaceFile \/ \E t \in gone \cup fresh : p = DraftFile(t)
      /\ \A t \in gone : Newest(ops, DraftFile(t)).file = {}
      /\ \A t \in fresh : Newest(ops, DraftFile(t)).file = {Blank}
      /\ Newest(ops, WorkspaceFile).file = {[order |-> ts, active |-> ts[a]]}
  BY <1>5, <1>6
<1>9. IF fresh = {} THEN tabCount' = tabCount ELSE fresh = {tabCount + 1} /\ tabCount' = tabCount + 1
  BY <1>1
<1> HIDE DEF gone, fresh
<1>10. StripBecomes(ts, gone, fresh) /\ StripWritten(ops, ts, a, gone, fresh)
  BY <1>3, <1>6, <1>7, <1>8, <1>9 DEF StripBecomes, StripWritten
<1>11. RemoveTabs(gone, ts, a) /\ Send(ops)
  BY <1>1
<1> QED BY <1>4, <1>10, <1>11, RemoveKeeps

\* close_other_tabs.
LEMMA CloseOtherTabsKeeps ==
  ASSUME IInv, NEW keep \in DOMAIN tabs, CloseOtherTabs(keep)
  PROVE  IInv'
<1> DEFINE x    == tabs[keep]
           left == RemoveAt(tabs, keep)
           gs   == Reverse(left)
           ts   == <<x>>
           a    == 1
           last == Layout(ts, 1)
           rest == <<last>>
           dels == [i \in DOMAIN gs |-> Delete(DraftFile(gs[i]))]
           ops  == dels \o rest
           gone == ToSet(gs)
           fresh == {}
<1>1. /\ WindowFits /\ RemoveTabs(gone, ts, a) /\ tabCount' = tabCount
      /\ Send(ops)
  BY DEF IInv, CloseOtherTabs
<1>2. tabs \in Seq(TabId) /\ IsInjective(tabs) /\ x \in TabId /\ x \in ToSet(tabs)
  BY <1>1 DEF WindowFits, ToSet
<1>3. left \in Seq(TabId) /\ \A t : t \in ToSet(left) <=> t \in ToSet(tabs) /\ t # x
  <2>1. \A out : out = RemoveAt(tabs, keep) =>
           /\ out \in Seq(TabId)
           /\ \A t : t \in ToSet(out) <=> t \in ToSet(tabs) /\ t # tabs[keep]
    BY <1>2, RemoveAtIs
  <2> QED BY <2>1
<1> HIDE DEF left, x
<1>4. gs \in Seq(TabId) /\ ToSet(gs) = ToSet(left)
  <2>1. Len(left) \in Nat /\ DOMAIN left = 1..Len(left)
    BY <1>3
  <2>2. gs = [i \in 1..Len(left) |-> left[(Len(left) - i) + 1]]
    BY DEF Reverse
  <2>3. \A i \in 1..Len(left) : (Len(left) - i) + 1 \in 1..Len(left) /\ (Len(left) - ((Len(left) - i) + 1)) + 1 = i
    BY <2>1
  <2>4. gs \in [1..Len(left) -> TabId]
    BY <2>1, <2>2, <2>3, <1>3
  <2>5. \A i \in 1..Len(left) : \E j \in 1..Len(left) : gs[j] = left[i]
    BY <2>2, <2>3
  <2>6. \A i \in 1..Len(left) : \E j \in 1..Len(left) : gs[i] = left[j]
    BY <2>2, <2>3
  <2>7. DOMAIN gs = 1..Len(left)
    BY <2>2
  <2>8. gs \in Seq(TabId)
    BY <2>1, <2>4
  <2> HIDE DEF gs
  <2>9. ASSUME NEW t \in ToSet(gs) PROVE t \in ToSet(left)
    <3>1. PICK i \in 1..Len(left) : gs[i] = t
      BY <2>7 DEF ToSet
    <3>2. PICK j \in 1..Len(left) : left[j] = t
      BY <3>1, <2>6
    <3> QED BY <3>2, <2>1 DEF ToSet
  <2>10. ASSUME NEW t \in ToSet(left) PROVE t \in ToSet(gs)
    <3>1. PICK i \in 1..Len(left) : left[i] = t
      BY <2>1 DEF ToSet
    <3>2. PICK j \in 1..Len(left) : gs[j] = t
      BY <3>1, <2>5
    <3> QED BY <3>2, <2>7 DEF ToSet
  <2> QED BY <2>8, <2>9, <2>10
<1>5. ts \in Seq(TabId) /\ IsInjective(ts) /\ a \in DOMAIN ts /\ ToSet(ts) = {x}
  BY <1>2 DEF IsInjective, ToSet
<1> HIDE DEF gs, ts, a
<1>6. last \in Operation /\ last.path = WorkspaceFile /\ last.file = {[order |-> ts, active |-> ts[a]]}
  BY <1>5, LayoutWritten DEF a
<1> HIDE DEF last
<1>7. /\ rest \in Seq(Operation)
      /\ \A p : /\ Queued(rest, p) <=> p = WorkspaceFile
                /\ p = WorkspaceFile => Newest(rest, p) = last
  BY <1>6, NewestSingle
<1> HIDE DEF rest
<1>8. /\ ops \in Seq(Operation) /\ ToSet(gs) \in SUBSET TabId
      /\ \A p : Queued(ops, p) <=> Queued(rest, p) \/ \E t \in ToSet(gs) : p = DraftFile(t)
      /\ \A t \in ToSet(gs) : Newest(ops, DraftFile(t)).file = {}
      /\ \A p : Queued(rest, p) => Newest(ops, p) = Newest(rest, p)
  <2>1. \A t \in ToSet(gs) : ~Queued(rest, DraftFile(t))
    BY <1>7, Paths
  <2>2. DeletesOf(dels, gs)
    BY <1>4, DeletesTyped
  <2> HIDE DEF dels
  <2> QED BY <2>1, <2>2, <1>4, <1>7, DeletesThen
<1> HIDE DEF ops
<1>9. /\ \A t \in gone : IsOpen(t)
      /\ \A t : t \in ToSet(ts) <=> (IsOpen(t) /\ t \notin gone) \/ t \in fresh
      /\ gone \in SUBSET TabId /\ fresh \in SUBSET TabId
  <2>1. \A t : IsOpen(t) <=> t \in ToSet(tabs)
    BY <1>1, OpenIs
  <2> QED BY <2>1, <1>2, <1>3, <1>4, <1>5, <1>8
<1>10. /\ \A p : Queued(ops, p) <=> p = WorkspaceFile \/ \E t \in gone \cup fresh : p = DraftFile(t)
       /\ \A t \in gone : Newest(ops, DraftFile(t)).file = {}
       /\ \A t \in fresh : Newest(ops, DraftFile(t)).file = {Blank}
       /\ Newest(ops, WorkspaceFile).file = {[order |-> ts, active |-> ts[a]]}
  BY <1>6, <1>7, <1>8
<1>11. IF fresh = {} THEN tabCount' = tabCount ELSE fresh = {tabCount + 1} /\ tabCount' = tabCount + 1
  BY <1>1
<1> HIDE DEF gone, fresh
<1>12. StripBecomes(ts, gone, fresh) /\ StripWritten(ops, ts, a, gone, fresh)
  BY <1>5, <1>8, <1>9, <1>10, <1>11 DEF StripBecomes, StripWritten
<1>13. RemoveTabs(gone, ts, a) /\ Send(ops)
  BY <1>1
<1> QED BY <1>5, <1>12, <1>13, RemoveKeeps

\* close_all_tabs.
LEMMA CloseAllTabsKeeps ==
  ASSUME IInv, CloseAllTabs
  PROVE  IInv'
<1> DEFINE n    == tabCount + 1
           ts   == <<n>>
           a    == 1
           new  == Draft(n, Blank)
           last == Layout(ts, Len(ts))
           rest == NewTabWrites(n, ts)
           dels == [i \in DOMAIN tabs |-> Delete(DraftFile(tabs[i]))]
           ops  == dels \o rest
           gone == ToSet(tabs)
           fresh == {n}
<1>1. /\ WindowFits /\ Bounded /\ RemoveTabs(gone, ts, a) /\ tabCount' = n /\ tabCount < MaxTabs
      /\ Send(ops)
  BY DEF IInv, CloseAllTabs
<1>2. tabs \in Seq(TabId) /\ n \in TabId /\ n > tabCount /\ tabCount \in Nat
  BY <1>1, Bounds DEF WindowFits, Bounded, TabId
<1>3. \A t : IsOpen(t) <=> t \in ToSet(tabs)
  BY <1>1, OpenIs
<1>4. ~IsOpen(n)
  BY <1>1, <1>2, OpenIs
<1>5. IF fresh = {} THEN tabCount' = tabCount ELSE fresh = {tabCount + 1} /\ tabCount' = tabCount + 1
  BY <1>1
<1> HIDE DEF n
<1>6. ts \in Seq(TabId) /\ IsInjective(ts) /\ a \in DOMAIN ts /\ ToSet(ts) = {n} /\ Len(ts) = a
  BY <1>2 DEF IsInjective, ToSet
<1> HIDE DEF ts, a
<1>7. /\ new \in Operation /\ new.path = DraftFile(n) /\ new.file = {Blank}
      /\ last \in Operation /\ last.path = WorkspaceFile
      /\ last.file = {[order |-> ts, active |-> ts[a]]}
  <2>1. new \in Operation /\ new.path = DraftFile(n) /\ new.file = {Blank}
    BY <1>2, Kinds, Written
  <2>2. Layout(ts, a) \in Operation /\ Layout(ts, a).path = WorkspaceFile
        /\ Layout(ts, a).file = {[order |-> ts, active |-> ts[a]]}
    BY <1>6, LayoutWritten
  <2> QED BY <2>1, <2>2, <1>6
<1>8. rest = <<new, last>>
  BY DEF NewTabWrites
<1> HIDE DEF new, last, rest
<1>9. /\ rest \in Seq(Operation)
      /\ \A p : /\ Queued(rest, p) <=> p = DraftFile(n) \/ p = WorkspaceFile
                /\ p = DraftFile(n) => Newest(rest, p) = new
                /\ p = WorkspaceFile => Newest(rest, p) = last
  <2>1. new.path # last.path
    BY <1>7, Paths
  <2>2. \A p : /\ <<new, last>> \in Seq(Operation)
               /\ Queued(<<new, last>>, p) <=> p = new.path \/ p = last.path
               /\ p = new.path => Newest(<<new, last>>, p) = new
               /\ p = last.path => Newest(<<new, last>>, p) = last
    BY <2>1, <1>7, NewestPair
  <2> QED BY <2>2, <1>7, <1>8
<1>10. /\ ops \in Seq(Operation) /\ ToSet(tabs) \in SUBSET TabId
       /\ \A p : Queued(ops, p) <=> Queued(rest, p) \/ \E t \in ToSet(tabs) : p = DraftFile(t)
       /\ \A t \in ToSet(tabs) : Newest(ops, DraftFile(t)).file = {}
       /\ \A p : Queued(rest, p) => Newest(ops, p) = Newest(rest, p)
  <2>1. \A t \in ToSet(tabs) : ~Queued(rest, DraftFile(t))
    BY <1>3, <1>4, <1>9, Paths
  <2>2. DeletesOf(dels, tabs)
    BY <1>2, DeletesTyped
  <2> HIDE DEF dels
  <2> QED BY <2>1, <2>2, <1>2, <1>9, DeletesThen
<1> HIDE DEF ops
<1>11. /\ \A t \in gone : IsOpen(t)
       /\ \A t : t \in ToSet(ts) <=> (IsOpen(t) /\ t \notin gone) \/ t \in fresh
       /\ gone \in SUBSET TabId /\ fresh \in SUBSET TabId
  BY <1>2, <1>3, <1>4, <1>6, <1>10
<1>12. /\ \A p : Queued(ops, p) <=> p = WorkspaceFile \/ \E t \in gone \cup fresh : p = DraftFile(t)
       /\ \A t \in gone : Newest(ops, DraftFile(t)).file = {}
       /\ \A t \in fresh : Newest(ops, DraftFile(t)).file = {Blank}
       /\ Newest(ops, WorkspaceFile).file = {[order |-> ts, active |-> ts[a]]}
  BY <1>7, <1>9, <1>10
<1> HIDE DEF gone, fresh
<1>13. StripBecomes(ts, gone, fresh) /\ StripWritten(ops, ts, a, gone, fresh)
  BY <1>5, <1>6, <1>10, <1>11, <1>12 DEF StripBecomes, StripWritten
<1>14. RemoveTabs(gone, ts, a) /\ Send(ops)
  BY <1>1
<1> QED BY <1>6, <1>13, <1>14, RemoveKeeps
-----------------------------------------------------------------------------
(* The next start *)

\* The tabs of a start are the drafts that were found, each once.
LEMMA OrderedIs ==
  ASSUME NEW layout, layout = {} \/ \E l \in Strips : layout = {l},
         NEW found \in SUBSET TabId, NEW out, out = OrderedBy(layout, found)
  PROVE  /\ out \in Seq(TabId) /\ IsInjective(out)
         /\ \A t : t \in ToSet(out) <=> t \in found
<1> DEFINE order == IF layout # {} THEN (CHOOSE l \in layout : TRUE).order ELSE <<>>
           I     == {i \in DOMAIN order : order[i] \in found}
           a     == Picked(order, I)
           rest  == found \ ToSet(order)
           b     == InOrder(rest)
<1>1. order \in Seq(TabId) /\ IsInjective(order)
  <2>1. CASE layout = {}
    BY <2>1 DEF IsInjective
  <2>2. CASE layout # {}
    <3>1. PICK l \in Strips : layout = {l}
      BY <2>2
    <3>2. order = l.order
      BY <3>1
    <3> QED BY <3>1, <3>2 DEF Strips
  <2> QED BY <2>1, <2>2
<1>2. out = a \o b
  BY DEF OrderedBy
<1> HIDE DEF order
<1>3. I \subseteq DOMAIN order
  OBVIOUS
<1>4. /\ a \in Seq(TabId) /\ ToSet(a) = {order[k] : k \in I}
      /\ \A i, j \in DOMAIN a : i < j => \E k, l \in I : k < l /\ a[i] = order[k] /\ a[j] = order[l]
  <2> HIDE DEF I
  <2> QED BY <1>1, <1>3, PickedIs
<1>5. \A t : t \in ToSet(a) <=> t \in found /\ t \in ToSet(order)
  <2>1. \A t : t \in ToSet(a) <=> \E k \in I : order[k] = t
    BY <1>4
  <2>2. \A t : t \in ToSet(order) <=> \E k \in DOMAIN order : order[k] = t
    BY DEF ToSet
  <2>3. \A k : k \in I <=> k \in DOMAIN order /\ order[k] \in found
    OBVIOUS
  <2> HIDE DEF I, a
  <2> QED BY <2>1, <2>2, <2>3
<1>6. MaxTabs \in Nat /\ rest \in SUBSET (1..MaxTabs)
  BY Bounds DEF TabId
<1> HIDE DEF rest, I
<1>7. /\ b \in [1..Cardinality(rest) -> rest] /\ b \in Seq(rest) /\ Len(b) = Cardinality(rest)
      /\ Cardinality(rest) \in Nat /\ ToSet(b) = rest /\ Ascending(b)
  BY <1>6, InOrderIs
<1> HIDE DEF a, b
<1>8. b \in Seq(TabId) /\ DOMAIN b = 1..Len(b) /\ Len(b) \in Nat /\ DOMAIN a = 1..Len(a) /\ Len(a) \in Nat
      /\ \A i \in DOMAIN b : b[i] \in Nat
  <2>1. rest \subseteq TabId /\ rest \subseteq Nat
    BY <1>6 DEF rest
  <2> QED BY <2>1, <1>4, <1>7
<1>9. /\ a \o b \in Seq(TabId) /\ Len(a \o b) = Len(a) + Len(b)
      /\ \A i \in 1..Len(a) + Len(b) : (a \o b)[i] = IF i <= Len(a) THEN a[i] ELSE b[i - Len(a)]
  BY <1>4, <1>8, ConcatProperties, Zenon
<1>10. out \in Seq(TabId) /\ DOMAIN out = 1..(Len(a) + Len(b))
  BY <1>2, <1>8, <1>9
<1>11. ASSUME NEW i \in DOMAIN out
       PROVE  \/ i <= Len(a) /\ i \in DOMAIN a /\ out[i] = a[i]
              \/ ~(i <= Len(a)) /\ i - Len(a) \in DOMAIN b /\ out[i] = b[i - Len(a)]
  BY <1>2, <1>8, <1>9, <1>10
<1>12. ASSUME NEW i \in DOMAIN a, NEW j \in DOMAIN a, i # j PROVE a[i] # a[j]
  <2>1. ASSUME NEW m \in DOMAIN a, NEW n \in DOMAIN a, m < n PROVE a[m] # a[n]
    <3>1. PICK k, l \in I : k < l /\ a[m] = order[k] /\ a[n] = order[l]
      BY <2>1, <1>4
    <3>2. k \in DOMAIN order /\ l \in DOMAIN order /\ k # l
      BY <3>1, <1>1 DEF I
    <3> QED BY <3>1, <3>2, <1>1 DEF IsInjective
  <2>2. i < j \/ j < i
    BY <1>8, <1>12
  <2> QED BY <2>1, <2>2
<1>13. ASSUME NEW i \in DOMAIN b, NEW j \in DOMAIN b, i # j PROVE b[i] # b[j]
  <2>1. \A m, n \in DOMAIN b : m < n => b[m] < b[n]
    BY <1>7 DEF Ascending
  <2>2. i < j \/ j < i
    BY <1>8, <1>13
  <2> QED BY <2>1, <2>2, <1>8
<1>14. \A i \in DOMAIN a, j \in DOMAIN b : a[i] # b[j]
  <2>1. \A i \in DOMAIN a : a[i] \in ToSet(order)
    <3>1. \A i \in DOMAIN a : a[i] \in ToSet(a)
      BY DEF ToSet
    <3> QED BY <3>1, <1>5
  <2>2. \A j \in DOMAIN b : b[j] \notin ToSet(order)
    <3>1. \A j \in DOMAIN b : b[j] \in rest
      BY <1>7
    <3> QED BY <3>1 DEF rest
  <2> QED BY <2>1, <2>2
<1>15. IsInjective(out)
  <2>1. SUFFICES ASSUME NEW i \in DOMAIN out, NEW j \in DOMAIN out, out[i] = out[j] PROVE i = j
    BY DEF IsInjective
  <2>2. CASE i <= Len(a) /\ j <= Len(a)
    BY <2>1, <2>2, <1>11, <1>12
  <2>3. CASE ~(i <= Len(a)) /\ ~(j <= Len(a))
    <3>1. i - Len(a) = j - Len(a)
      BY <2>1, <2>3, <1>11, <1>13
    <3> QED BY <3>1, <1>8, <1>10
  <2> QED BY <2>1, <2>2, <2>3, <1>11, <1>14
<1>16. ASSUME NEW t, t \in ToSet(out) PROVE t \in ToSet(a) \/ t \in ToSet(b)
  BY <1>11, <1>16 DEF ToSet
<1>17. ASSUME NEW t, t \in ToSet(a) PROVE t \in ToSet(out)
  <2>1. PICK i \in DOMAIN a : a[i] = t
    BY <1>17 DEF ToSet
  <2>2. i \in DOMAIN out /\ out[i] = t
    BY <2>1, <1>2, <1>8, <1>9, <1>10
  <2> QED BY <2>2 DEF ToSet
<1>18. ASSUME NEW t, t \in ToSet(b) PROVE t \in ToSet(out)
  <2>1. PICK i \in DOMAIN b : b[i] = t
    BY <1>18 DEF ToSet
  <2>2. Len(a) + i \in 1..Len(a) + Len(b) /\ ~(Len(a) + i <= Len(a)) /\ (Len(a) + i) - Len(a) = i
    BY <1>8
  <2>3. Len(a) + i \in DOMAIN out /\ out[Len(a) + i] = t
    BY <2>1, <2>2, <1>2, <1>9, <1>10
  <2> QED BY <2>3 DEF ToSet
<1>19. \A t : t \in ToSet(out) <=> t \in found
  <2>1. \A t : t \in ToSet(b) <=> t \in found /\ t \notin ToSet(order)
    BY <1>7 DEF rest
  <2> QED BY <2>1, <1>5, <1>16, <1>17, <1>18
<1> QED BY <1>10, <1>15, <1>19

\* One of them is active.
LEMMA ActiveInIs ==
  ASSUME NEW layout, NEW order \in Seq(TabId), order # <<>>
  PROVE  ActiveIn(layout, order) \in DOMAIN order
<1> DEFINE shown == {i \in DOMAIN order : \E l \in layout : l.active = order[i]}
<1>1. 1 \in DOMAIN order
  OBVIOUS
<1>2. ActiveIn(layout, order) = IF shown = {} THEN 1 ELSE CHOOSE i \in shown : TRUE
  BY DEF ActiveIn
<1>3. shown # {} => (CHOOSE i \in shown : TRUE) \in shown
  OBVIOUS
<1>4. shown \subseteq DOMAIN order
  OBVIOUS
<1> HIDE DEF shown
<1> QED BY <1>1, <1>2, <1>3, <1>4

\* What is on disk is what the files are before anything is performed.
LEMMA OnDisk ==
  ASSUME WriterFits
  PROVE  /\ After(queue, disk, 0) = disk /\ 0 \in 0..Len(queue)
         /\ FilesFit(disk, tabCount, saveCount)
         /\ NoDoubleLinks => OneDraftPerSaved(disk)
         /\ queue = <<>> => Fate = disk
<1>1. queue \in Seq(Operation) /\ OnePerPath(queue) /\ disk \in [Path -> SUBSET Data]
  BY DEF WriterFits
<1>2. 0 \in 0..Len(queue)
  BY <1>1
<1>3. After(queue, disk, 0) = disk
  <2>1. \A p \in Path : After(queue, disk, 0)[p] = disk[p]
    BY <1>1, AfterNothing
  <2>2. After(queue, disk, 0) = [p \in Path |-> After(queue, disk, 0)[p]]
    BY DEF After
  <2>3. disk = [p \in Path |-> disk[p]]
    BY <1>1
  <2> QED BY <2>1, <2>2, <2>3
<1>4. FilesFit(disk, tabCount, saveCount)
  BY <1>2, <1>3 DEF WriterFits
<1>5. NoDoubleLinks => OneDraftPerSaved(disk)
  BY <1>2, <1>3 DEF NoDoubleLinks
<1>6. queue = <<>> => Fate = disk
  BY <1>3 DEF Fate
<1> QED BY <1>2, <1>3, <1>4, <1>5, <1>6

\* What is loaded.
LEMMA LoadedIs ==
  ASSUME FilesFit(disk, tabCount, saveCount)
  PROVE  /\ LoadedSaved \in [DOMAIN LoadedSaved -> Content] /\ DOMAIN LoadedSaved \subseteq SavedId
         /\ \A x \in DOMAIN LoadedSaved : x <= saveCount
         /\ \A x \in SavedId : disk[RequestFile(x)] = IF x \in DOMAIN LoadedSaved THEN {LoadedSaved[x]} ELSE {}
         /\ \A t \in TabId : disk[DraftFile(t)] # {} =>
              /\ t <= tabCount
              /\ \E v \in Tab : /\ v.saved <= saveCount /\ disk[DraftFile(t)] = {v}
                                /\ LoadedTab(t) = Relinked(v, DOMAIN LoadedSaved)
         /\ OrderedDrafts = OrderedBy(disk[WorkspaceFile], {t \in TabId : disk[DraftFile(t)] # {}})
<1> DEFINE known == {x \in SavedId : disk[RequestFile(x)] # {}}
<1>1. DOMAIN LoadedSaved = known /\ \A x \in known : LoadedSaved[x] = Contents(RequestFile(x))
  BY DEF LoadedSaved, Exists
<1>2. ASSUME NEW x \in known
      PROVE x <= saveCount /\ LoadedSaved[x] \in Content /\ disk[RequestFile(x)] = {LoadedSaved[x]}
  <2>1. PICK c \in Content : disk[RequestFile(x)] = {c} /\ x <= saveCount
    BY DEF FilesFit
  <2>2. Contents(RequestFile(x)) = c
    BY <2>1 DEF Contents
  <2> QED BY <2>1, <2>2, <1>1
<1>3. LoadedSaved \in [known -> Content]
  <2>1. \A x \in known : Contents(RequestFile(x)) \in Content
    BY <1>1, <1>2
  <2>2. [x \in known |-> Contents(RequestFile(x))] \in [known -> Content]
    BY <2>1
  <2>3. LoadedSaved = [x \in known |-> Contents(RequestFile(x))]
    BY DEF LoadedSaved, Exists
  <2> QED BY <2>2, <2>3
<1>4. \A x \in SavedId : disk[RequestFile(x)] = IF x \in known THEN {LoadedSaved[x]} ELSE {}
  BY <1>2
<1>5. ASSUME NEW t \in TabId, disk[DraftFile(t)] # {}
      PROVE  /\ t <= tabCount
             /\ \E v \in Tab : /\ v.saved <= saveCount /\ disk[DraftFile(t)] = {v}
                               /\ LoadedTab(t) = Relinked(v, known)
  <2>1. PICK v \in Tab : v.saved <= saveCount /\ disk[DraftFile(t)] = {v} /\ t <= tabCount
    BY <1>5 DEF FilesFit
  <2>2. Contents(DraftFile(t)) = v
    BY <2>1 DEF Contents
  <2>3. v.saved # None => (v.saved \in known <=> Exists(RequestFile(v.saved)))
    BY Kinds DEF Exists
  <2>4. LoadedTab(t) = Relinked(v, known)
    BY <2>2, <2>3 DEF LoadedTab, Relinked
  <2> QED BY <2>1, <2>4
<1>6. OrderedDrafts = OrderedBy(disk[WorkspaceFile], {t \in TabId : disk[DraftFile(t)] # {}})
  BY DEF OrderedDrafts, Exists
<1> HIDE DEF known
<1>7. LoadedSaved \in [DOMAIN LoadedSaved -> Content] /\ DOMAIN LoadedSaved \subseteq SavedId
  BY <1>1, <1>3 DEF known
<1> QED BY <1>1, <1>2, <1>4, <1>5, <1>6, <1>7

\* The first tab of a start is written to a queue that is empty.
FirstWrites(q, d, n, sc) ==
  /\ q \in Seq(Operation) /\ OnePerPath(q)
  /\ \A t \in TabId : t # n => ~Queued(q, DraftFile(t))
  /\ \A m \in 0..Len(q) : FilesFit(After(q, d, m), n, sc) /\ OneDraftPerSaved(After(q, d, m))
  /\ LET files == After(q, d, Len(q)) IN
     /\ \A t \in TabId : files[DraftFile(t)] = IF t = n THEN {Blank} ELSE {}
     /\ \A x \in SavedId : files[RequestFile(x)] = d[RequestFile(x)]
     /\ files[WorkspaceFile] = {[order |-> <<n>>, active |-> n]}

\* NewTabWrites is such a write on any disk without drafts.
LEMMA FirstWritten ==
  ASSUME NEW n \in TabId, NEW tc \in Nat, tc <= n, NEW sc \in Nat,
         NEW d \in [Path -> SUBSET Data], FilesFit(d, tc, sc), \A t \in TabId : d[DraftFile(t)] = {}
  PROVE  FirstWrites(NewTabWrites(n, <<n>>), d, n, sc)
<1> DEFINE ts == <<n>>
           a  == Draft(n, Blank)
           b  == Layout(ts, Len(ts))
           q  == <<a, b>>
           l  == [order |-> ts, active |-> n]
           none == <<>>
<1>1. ts \in Seq(TabId) /\ IsInjective(ts) /\ Len(ts) = 1 /\ 1 \in DOMAIN ts /\ ts[1] = n
  BY DEF IsInjective
<1>2. /\ a \in Operation /\ a.path = DraftFile(n) /\ a.file = {Blank}
      /\ b \in Operation /\ b.path = WorkspaceFile /\ b.file = {l} /\ l \in Strips
  <2>1. a \in Operation /\ a.path = DraftFile(n) /\ a.file = {Blank}
    BY Kinds, Written
  <2> DEFINE k == Len(ts)
  <2>2. k \in DOMAIN ts /\ ts[k] = n
    BY <1>1
  <2> HIDE DEF ts, k
  <2>3. /\ Layout(ts, k) \in Operation /\ Layout(ts, k).path = WorkspaceFile
        /\ Layout(ts, k).file = {[order |-> ts, active |-> ts[k]]}
        /\ [order |-> ts, active |-> ts[k]] \in Strips
    BY <1>1, <2>2, LayoutWritten
  <2> QED BY <2>1, <2>2, <2>3 DEF k
<1>3. NewTabWrites(n, ts) = q
  BY DEF NewTabWrites
<1> HIDE DEF ts, a, b
<1>4. a.path # b.path
  BY <1>2, Paths
<1>5. /\ q \in Seq(Operation)
      /\ \A p : /\ Queued(q, p) <=> p = DraftFile(n) \/ p = WorkspaceFile
                /\ p = DraftFile(n) => Newest(q, p) = a
                /\ p = WorkspaceFile => Newest(q, p) = b
  <2>1. \A p : /\ <<a, b>> \in Seq(Operation)
               /\ Queued(<<a, b>>, p) <=> p = a.path \/ p = b.path
               /\ p = a.path => Newest(<<a, b>>, p) = a
               /\ p = b.path => Newest(<<a, b>>, p) = b
    BY <1>2, <1>4, NewestPair
  <2> QED BY <2>1, <1>2
<1>6. Len(q) \in Nat /\ DOMAIN q = 1..2 /\ q[1] = a /\ q[2] = b
  OBVIOUS
<1> HIDE DEF q
<1>7. \A i \in DOMAIN q : i = 1 \/ i = 2
  BY <1>6
<1>8. OnePerPath(q)
  <2>1. SUFFICES ASSUME NEW i \in DOMAIN q, NEW j \in DOMAIN q, q[i].path = q[j].path PROVE i = j
    BY DEF OnePerPath
  <2>2. (i = 1 \/ i = 2) /\ (j = 1 \/ j = 2)
    BY <1>7
  <2> QED BY <2>1, <2>2, <1>4, <1>6
<1>9. none \in Seq(Operation) /\ OnePerPath(none) /\ Len(none) = 0 /\ \A i : i \notin DOMAIN none
  BY DEF OnePerPath
<1> HIDE DEF none
<1>10. Took(none, q, q)
  <2>1. ASSUME NEW i \in DOMAIN q PROVE Queued(q, q[i].path) /\ q[i] = Newest(q, q[i].path)
    <3>1. CASE i = 1
      BY <3>1, <1>2, <1>5, <1>6
    <3>2. CASE i = 2
      BY <3>2, <1>2, <1>5, <1>6
    <3> QED BY <3>1, <3>2, <1>7
  <2>2. Len(none) <= Len(q)
    BY <1>6, <1>9
  <2> QED BY <2>1, <2>2, <1>5, <1>8, <1>9 DEF Took
<1>11. ASSUME NEW m \in 0..Len(none) PROVE After(none, d, m) = d
  <2>1. m = 0
    BY <1>9
  <2>2. \A p \in Path : After(none, d, 0)[p] = d[p]
    BY <1>9, AfterNothing
  <2>3. After(none, d, 0) = [p \in Path |-> After(none, d, 0)[p]]
    BY DEF After
  <2>4. d = [p \in Path |-> d[p]]
    OBVIOUS
  <2> QED BY <2>1, <2>2, <2>3, <2>4
<1>12. OpsFit(q, n, sc)
  <2>1. Blank \in Tab /\ Blank.saved <= sc /\ n <= n
    BY Kinds DEF None
  <2>2. \A x : ~Queued(q, RequestFile(x))
    BY <1>5, Paths
  <2>3. \A t \in TabId : Queued(q, DraftFile(t)) => t = n
    BY <1>5, Paths
  <2> QED BY <2>1, <2>2, <2>3, <1>2, <1>5 DEF OpsFit
<1>13. ASSUME NEW m \in 0..Len(q) PROVE FilesFit(After(q, d, m), n, sc)
  <2>1. \A k \in 0..Len(none) : FilesFit(After(none, d, k), tc, sc)
    BY <1>11
  <2>2. n \in Nat /\ sc <= sc
    BY Kinds
  <2> QED BY <2>1, <2>2, <1>9, <1>10, <1>12, TookFits
<1>14. ASSUME NEW m \in 0..Len(q) PROVE OneDraftPerSaved(After(q, d, m))
  <2>1. ASSUME NEW k \in 0..Len(none) PROVE OneDraftPerSaved(After(none, d, k))
    BY <1>11 DEF OneDraftPerSaved, LinksTo
  <2>2. ASSUME NEW t \in TabId, NEW x \in SavedId, NewLink(none, d, q, t, x) PROVE FALSE
    <3>1. Queued(q, DraftFile(t)) /\ LinksTo(Newest(q, DraftFile(t)).file, x)
      BY <2>2 DEF NewLink
    <3>2. DraftFile(t) = DraftFile(n)
      BY <3>1, <1>5, Paths
    <3>3. Newest(q, DraftFile(t)).file = {Blank}
      BY <3>2, <1>2, <1>5
    <3> QED BY <3>1, <3>3, Kinds DEF LinksTo
  <2> QED BY <2>1, <2>2, <1>9, <1>10, TookLinks
<1>15. ASSUME NEW p \in Path
       PROVE  After(q, d, Len(q))[p] = IF Queued(q, p) THEN Newest(q, p).file ELSE d[p]
  <2>1. After(q, d, Len(q))[p] = IF Queued(q, p) THEN Newest(q, p).file ELSE After(none, d, Len(none))[p]
    <3>1. none \in Seq(Operation) /\ OnePerPath(none)
      BY <1>9
    <3>2. ASSUME NEW q1 \in Seq(Operation), OnePerPath(q1), NEW ops, NEW q2, Took(q1, ops, q2), NEW e
          PROVE  After(q2, e, Len(q2))[p] = IF Queued(ops, p) THEN Newest(ops, p).file
                                            ELSE After(q1, e, Len(q1))[p]
      BY <3>2, TookFate
    <3>3. \A e : After(q, e, Len(q))[p] = IF Queued(q, p) THEN Newest(q, p).file
                                            ELSE After(none, e, Len(none))[p]
      BY <3>1, <3>2, <1>10
    <3> QED BY <3>3
  <2>2. Len(none) \in 0..Len(none)
    BY <1>9
  <2> QED BY <2>1, <2>2, <1>11
<1> DEFINE files == After(q, d, Len(q))
<1>16. /\ \A t \in TabId : files[DraftFile(t)] = IF t = n THEN {Blank} ELSE {}
       /\ \A x \in SavedId : files[RequestFile(x)] = d[RequestFile(x)]
       /\ files[WorkspaceFile] = {l}
  <2>1. \A t \in TabId : DraftFile(t) \in Path /\ (Queued(q, DraftFile(t)) <=> t = n)
    BY <1>5, Paths
  <2>2. \A x \in SavedId : RequestFile(x) \in Path /\ ~Queued(q, RequestFile(x))
    BY <1>5, Paths
  <2>3. WorkspaceFile \in Path /\ Queued(q, WorkspaceFile)
    BY <1>5, Paths
  <2>4. Newest(q, DraftFile(n)).file = {Blank} /\ Newest(q, WorkspaceFile).file = {l}
    BY <1>2, <1>5
  <2> HIDE DEF l
  <2> QED BY <2>1, <2>2, <2>3, <2>4, <1>15
<1>17. \A t \in TabId : t # n => ~Queued(q, DraftFile(t))
  BY <1>5, Paths
<1>18. FirstWrites(q, d, n, sc)
  BY <1>5, <1>8, <1>13, <1>14, <1>16, <1>17 DEF FirstWrites, ts
<1> QED BY <1>3, <1>18 DEF ts

\* A start shows what is on disk: the program left before with the queue empty, or
\* it was killed.
LEMMA RestoreKeeps ==
  ASSUME IInv, Restore, kills' \in {kills, kills + 1}, faults + kills' <= MaxFailures,
         kills' = kills => queue = <<>>
  PROVE  IInv'
<1> DEFINE found  == {t \in TabId : disk[DraftFile(t)] # {}}
           known  == DOMAIN LoadedSaved
           strip  == OrderedDrafts
<1>1. /\ WindowFits /\ Bounded /\ WriterFits /\ LinkedFits
      /\ phase' = "run" /\ timer' = {} /\ dialog' = NoDialog /\ saved' = LoadedSaved
      /\ UNCHANGED <<ghosts, disk, saveCount, edits, faults>>
  BY DEF IInv, Restore
<1>2. /\ FilesFit(disk, tabCount, saveCount)
      /\ NoDoubleLinks => OneDraftPerSaved(disk)
      /\ queue = <<>> => Fate = disk
      /\ disk \in [Path -> SUBSET Data]
      /\ disk[WorkspaceFile] = {} \/ \E l \in Strips : disk[WorkspaceFile] = {l}
  BY <1>1, OnDisk DEF WriterFits, FilesFit
<1>3. /\ LoadedSaved \in [known -> Content] /\ known \subseteq SavedId
      /\ \A x \in known : x <= saveCount
      /\ \A x \in SavedId : disk[RequestFile(x)] = IF x \in known THEN {LoadedSaved[x]} ELSE {}
      /\ \A t \in found :
           /\ t <= tabCount
           /\ \E v \in Tab : /\ v.saved <= saveCount /\ disk[DraftFile(t)] = {v}
                             /\ LoadedTab(t) = Relinked(v, known)
      /\ strip = OrderedBy(disk[WorkspaceFile], found)
  BY <1>2, LoadedIs
<1>4. found \in SUBSET TabId
  OBVIOUS
<1>5. strip \in Seq(TabId) /\ IsInjective(strip) /\ \A t : t \in ToSet(strip) <=> t \in found
  <2> HIDE DEF found, strip
  <2> QED BY <1>2, <1>3, <1>4, OrderedIs
<1>6. /\ saveCount \in Nat /\ tabCount \in Nat /\ tabCount \in 1..MaxTabs
      /\ faults \in Nat /\ kills \in Nat /\ kills' \in Nat
  BY <1>1, Bounds DEF Bounded
<1> HIDE DEF known, strip
<1>7. dialog' \in Dialog /\ dialog'.kind = "none" /\ \A s : ~HeldBy(dialog', s)
  BY <1>1 DEF Dialog, NoDialog, HeldBy
<1>8. known = DOMAIN saved'
  BY <1>1 DEF known
<1>9. ASSUME faults' = 0, kills' = 0
      PROVE  /\ saved' = saved /\ Fate = disk
             /\ \A t \in TabId : \A v \in disk[DraftFile(t)] :
                  Agrees(v, saved) /\ (v.saved # None => v.saved \in DOMAIN saved)
  <2>1. kills = 0 /\ kills' = kills /\ faults = 0
    BY <1>1, <1>6, <1>9
  <2>2. CleanFits /\ RequestsFit /\ Fate = disk
    BY <2>1, <1>2 DEF IInv
  <2>3. \A x \in SavedId : (x \in known <=> x \in DOMAIN saved) /\ (x \in known => LoadedSaved[x] = saved[x])
    BY <2>2, <1>3 DEF RequestsFit
  <2>4. saved \in [DOMAIN saved -> Content] /\ DOMAIN saved \subseteq SavedId
    BY <1>1 DEF WindowFits
  <2>5. known = DOMAIN saved
    BY <2>3, <2>4, <1>3
  <2>6. LoadedSaved = saved
    BY <2>3, <2>4, <2>5, <1>3
  <2> QED BY <2>2, <2>6, <1>1 DEF CleanFits
<1>10. CASE strip # <<>>
  <2>1. /\ tabs' = strip /\ active' = LoadedActive
        /\ tab' = [t \in TabId |-> IF t \in found THEN LoadedTab(t) ELSE Blank]
        /\ queue' = <<>> /\ tabCount' = tabCount
    BY <1>10 DEF Restore, strip, Exists
  <2>2. active' = ActiveIn(disk[WorkspaceFile], strip)
    BY <2>1 DEF LoadedActive, strip
  <2>3. active' \in DOMAIN strip
    BY <2>2, <1>5, <1>10, ActiveInIs
  <2>4. \A t : IsOpen(t)' <=> t \in found
    BY <2>1, <1>5 DEF IsOpen, ToSet
  <2> HIDE DEF found
  <2>5. ASSUME NEW t \in TabId
        PROVE  /\ tab'[t] \in Tab /\ tab'[t].saved <= saveCount
               /\ t \notin found => tab'[t] = Blank
               /\ tab'[t].saved # None => t \in found /\ tab'[t].saved \in known
    <3>1. CASE t \notin found
      BY <3>1, <2>1, <1>6, Kinds DEF None
    <3>2. CASE t \in found
      <4>1. PICK v \in Tab : v.saved <= saveCount /\ LoadedTab(t) = Relinked(v, known)
        BY <3>2, <1>3
      <4>2. tab'[t] = Relinked(v, known)
        BY <4>1, <3>2, <2>1
      <4>3. CASE v.saved \in known \cup {None}
        <5>1. tab'[t] = v
          BY <4>2, <4>3, TabChanges
        <5> QED BY <3>2, <4>1, <4>3, <5>1
      <4>4. CASE ~(v.saved \in known \cup {None})
        <5>1. tab'[t] = Detached(v)
          BY <4>2, <4>4, TabChanges
        <5>2. Detached(v) \in Tab /\ Detached(v).saved = None
          BY TabChanges
        <5> QED BY <3>2, <5>1, <5>2, <1>6 DEF None
      <4> QED BY <4>3, <4>4
    <3> QED BY <3>1, <3>2
  <2>6. Bounded'
    BY <2>1, <1>1, <1>6 DEF Bounded
  <2>7. WindowFits'
    <3>1. tab' \in [TabId -> Tab] /\ \A t \in TabId : tab'[t].saved <= saveCount'
      BY <2>1, <2>5, <1>1
    <3>2. \A i \in DOMAIN strip : strip[i] <= tabCount
      <4>1. \A i \in DOMAIN strip : strip[i] \in ToSet(strip)
        BY DEF ToSet
      <4> QED BY <4>1, <1>3, <1>5
    <3>3. \A t \in TabId : t > tabCount => tab'[t] = Blank
      <4>1. ASSUME NEW t \in found PROVE ~(t > tabCount)
        <5>1. t <= tabCount
          BY <1>3
        <5>2. t \in TabId
          BY <1>4
        <5>3. t \in Nat
          BY <5>2, Kinds
        <5> QED BY <5>1, <5>3, <1>6
      <4> QED BY <4>1, <2>5
    <3>4. ghosts' \subseteq TabId
      BY <1>1 DEF WindowFits
    <3>5. timer' \in SUBSET TabId /\ timer' \subseteq Alive(tabs', dialog')
      BY <1>1
    <3>6. saved' \in [DOMAIN saved' -> Content] /\ DOMAIN saved' \subseteq SavedId
          /\ \A x \in DOMAIN saved' : x <= saveCount'
      BY <1>1, <1>3, <1>8
    <3> QED BY <3>1, <3>2, <3>3, <3>4, <3>5, <3>6, <2>1, <2>3, <1>1, <1>5, <1>7, <1>10 DEF WindowFits
  <2>8. LinkedFits'
    BY <2>4, <2>5, <1>7, <1>8 DEF LinkedFits
  <2>9. queue' \in Seq(Operation) /\ OnePerPath(queue') /\ Len(queue') = 0 /\ \A p : ~Queued(queue', p)
    BY <2>1 DEF OnePerPath, Queued
  <2>10. After(queue', disk', 0) = disk
    <3>1. \A p \in Path : After(queue', disk, 0)[p] = disk[p]
      BY <2>9, AfterNothing
    <3>2. After(queue', disk, 0) = [p \in Path |-> After(queue', disk, 0)[p]]
      BY DEF After
    <3>3. disk = [p \in Path |-> disk[p]]
      BY <1>2
    <3> QED BY <3>1, <3>2, <3>3, <1>1
  <2>11. Fate' = disk
    BY <2>9, <2>10 DEF Fate
  <2>12. \A m \in 0..Len(queue') : m = 0
    BY <2>9
  <2>13. WriterFits'
    BY <2>1, <2>9, <2>10, <2>12, <1>1, <1>2 DEF WriterFits
  <2>14. ASSUME faults' = 0 PROVE NoDoubleLinks' /\ RequestsFit' /\ DraftsFit' /\ StripFits'
    <3>1. NoDoubleLinks'
      <4>1. NoDoubleLinks
        BY <2>14, <1>1 DEF IInv
      <4> QED BY <4>1, <2>10, <2>12, <1>2 DEF NoDoubleLinks
    <3>2. RequestsFit'
      BY <2>11, <1>1, <1>3, <1>8 DEF RequestsFit
    <3>3. DraftsFit'
      <4>1. SUFFICES ASSUME NEW t \in TabId
            PROVE  /\ t \in found <=> disk[DraftFile(t)] # {}
                   /\ \A v \in disk[DraftFile(t)] :
                        /\ Relinked(v, known) = tab'[t]
                        /\ t \in found
        BY <2>4, <2>11, <1>8 DEF DraftsFit
      <4>2. t \in found <=> disk[DraftFile(t)] # {}
        BY DEF found
      <4>3. ASSUME t \in found PROVE \A v \in disk[DraftFile(t)] : Relinked(v, known) = tab'[t]
        BY <4>3, <2>1, <1>3
      <4> QED BY <4>2, <4>3
    <3>4. StripFits'
      <4>1. ToSet(tabs') = found
        BY <2>1, <1>5
      <4>2. \A t \in TabId : disk[DraftFile(t)] # {} \/ t \in Alive(tabs', dialog') => IsOpen(t)'
        <5>1. \A t \in TabId : disk[DraftFile(t)] # {} => t \in found
          BY DEF found
        <5>2. \A t \in TabId : t \in Alive(tabs', dialog') => IsOpen(t)'
          BY <1>7 DEF Alive, IsOpen, HeldBy
        <5> QED BY <5>1, <5>2, <2>4
      <4> QED BY <4>1, <4>2, <2>1, <2>2, <2>11, <1>3 DEF StripFits
    <3> QED BY <3>1, <3>2, <3>3, <3>4
  <2>15. ASSUME faults' = 0, kills' = 0 PROVE CleanFits'
    <3>1. ASSUME NEW t \in TabId PROVE Agrees(tab'[t], saved)
      <4>1. CASE t \notin found
        BY <4>1, <2>5, Kinds DEF Agrees
      <4>2. CASE t \in found
        <5>1. PICK v \in Tab : disk[DraftFile(t)] = {v} /\ LoadedTab(t) = Relinked(v, known)
          BY <4>2, <1>3
        <5>2. Agrees(v, saved) /\ v.saved \in known \cup {None}
          BY <5>1, <2>15, <1>8, <1>9
        <5>3. tab'[t] = v
          BY <4>2, <5>1, <5>2, <2>1, TabChanges
        <5> QED BY <5>2, <5>3
      <4> QED BY <4>1, <4>2
    <3>2. saved' = saved
      BY <2>15, <1>9
    <3> QED BY <3>1, <3>2, <2>11, <2>15, <1>9 DEF CleanFits
  <2> QED BY <2>6, <2>7, <2>8, <2>13, <2>14, <2>15 DEF IInv
<1>11. CASE strip = <<>>
  <2> DEFINE n == tabCount + 1
             ts == <<n>>
  <2>1. /\ tabCount < MaxTabs /\ tabCount' = n /\ tabs' = ts /\ active' = 1
        /\ tab' = [t \in TabId |-> Blank]
        /\ queue' = NewTabWrites(n, <<n>>)
    BY <1>11 DEF Restore, strip
  <2>2. found = {}
    <3>1. \A t : t \notin ToSet(strip)
      BY <1>11 DEF ToSet
    <3> QED BY <3>1, <1>5
  <2>3. \A t \in TabId : disk[DraftFile(t)] = {}
    BY <2>2
  <2>4. n \in TabId /\ tabCount <= n /\ n \in Nat
    BY <2>1, <1>6, Bounds DEF TabId
  <2> HIDE DEF n
  <2>5. FirstWrites(NewTabWrites(n, <<n>>), disk, n, saveCount)
    BY <2>3, <2>4, <1>2, <1>6, FirstWritten
  <2>6. FirstWrites(queue', disk', n, saveCount)
    BY <2>1, <2>5, <1>1
  <2>7. ts \in Seq(TabId) /\ IsInjective(ts) /\ ts # <<>> /\ DOMAIN ts = {1} /\ ts[1] = n
    BY <2>4 DEF IsInjective
  <2> HIDE DEF ts
  <2>8. \A t : IsOpen(t)' <=> t = n
    BY <2>1, <2>7 DEF IsOpen
  <2>9. Bounded'
    <3>1. n \in 1..MaxTabs
      BY <2>4 DEF TabId
    <3> QED BY <3>1, <2>1, <1>1, <1>6 DEF Bounded
  <2>10. \A t \in TabId : tab'[t] = Blank
    BY <2>1
  <2>11. WindowFits'
    <3>1. tab' \in [TabId -> Tab] /\ \A t \in TabId : tab'[t].saved <= saveCount'
      BY <2>1, <2>10, <1>1, <1>6, Kinds DEF None
    <3>2. \A i \in DOMAIN ts : ts[i] <= n
      BY <2>4, <2>7
    <3>3. ghosts' \subseteq TabId
      BY <1>1 DEF WindowFits
    <3>4. timer' \in SUBSET TabId /\ timer' \subseteq Alive(tabs', dialog')
      BY <1>1
    <3>5. saved' \in [DOMAIN saved' -> Content] /\ DOMAIN saved' \subseteq SavedId
          /\ \A x \in DOMAIN saved' : x <= saveCount'
      BY <1>1, <1>3, <1>8
    <3> QED BY <3>1, <3>2, <3>3, <3>4, <3>5, <2>1, <2>7, <2>10, <1>1, <1>7 DEF WindowFits
  <2>12. LinkedFits'
    BY <2>10, <1>7, Kinds DEF LinkedFits
  <2>13. WriterFits' /\ NoDoubleLinks'
    <3>1. \A t \in TabId : t > n => t # n
      BY <2>4, Kinds
    <3>2. disk' \in [Path -> SUBSET Data] /\ tabCount' = n /\ saveCount' = saveCount
      BY <2>1, <1>1, <1>2
    <3> QED BY <3>1, <3>2, <2>6 DEF WriterFits, NoDoubleLinks, FirstWrites
  <2>14. /\ \A t \in TabId : Fate'[DraftFile(t)] = IF t = n THEN {Blank} ELSE {}
         /\ \A x \in SavedId : Fate'[RequestFile(x)] = disk[RequestFile(x)]
         /\ Fate'[WorkspaceFile] = {[order |-> <<n>>, active |-> n]}
    BY <2>6, <1>1 DEF FirstWrites, Fate
  <2>15. RequestsFit'
    BY <2>14, <1>1, <1>3, <1>8 DEF RequestsFit
  <2>16. DraftsFit'
    <3>1. \A k : Relinked(Blank, k) = Blank
      BY Kinds DEF Relinked
    <3> QED BY <3>1, <2>8, <2>10, <2>14, Kinds DEF DraftsFit
  <2>17. StripFits'
    BY <2>1, <2>7, <2>14 DEF StripFits, ts
  <2>18. CleanFits'
    <3>1. \A k : Agrees(Blank, k)
      BY Kinds DEF Agrees
    <3> QED BY <3>1, <2>10, <2>14, Kinds DEF CleanFits
  <2> QED BY <2>9, <2>11, <2>12, <2>13, <2>15, <2>16, <2>17, <2>18 DEF IInv
<1> QED BY <1>10, <1>11

\* Restart: after a proper quit the queue is empty.
LEMMA RestartKeeps ==
  ASSUME IInv, Restart
  PROVE  IInv'
<1>1. Restore /\ kills' = kills /\ queue = <<>>
  BY DEF Restart, IInv, WindowFits
<1>2. faults + kills <= MaxFailures
  BY DEF IInv, Bounded
<1> QED BY <1>1, <1>2, RestoreKeeps

\* Kill: the queue may hold anything, and is lost.
LEMMA KillKeeps ==
  ASSUME IInv, Kill
  PROVE  IInv'
<1>1. Restore /\ kills' = kills + 1 /\ faults + kills < MaxFailures
  BY DEF Kill
<1>2. faults \in Nat /\ kills \in Nat /\ MaxFailures \in Nat
  BY Bounds DEF IInv, Bounded
<1>3. faults + kills' <= MaxFailures /\ kills' # kills
  BY <1>1, <1>2
<1> QED BY <1>1, <1>3, RestoreKeeps

\* OpenSaveDialog: for the active tab while it has no link.
LEMMA OpenSaveDialogKeeps ==
  ASSUME IInv, OpenSaveDialog
  PROVE  IInv'
<1> DEFINE d == [kind |-> "save", id |-> tabs[active]]
<1>1. OpenDialog(d) /\ tab[tabs[active]].saved = None
  BY DEF OpenSaveDialog
<1>2. active \in DOMAIN tabs /\ tabs \in Seq(TabId)
  BY DEF IInv, WindowFits
<1>3. tabs[active] \in TabId
  BY <1>2
<1>4. IsOpen(tabs[active])
  BY <1>2 DEF IsOpen
<1>5. d \in Dialog /\ d.kind = "save" /\ d.id = tabs[active]
  BY <1>3 DEF Dialog
<1> HIDE DEF d
<1> QED BY <1>1, <1>4, <1>5, OpenDialogKeeps

\* OpenDeleteDialog: for a request of the list.
LEMMA OpenDeleteDialogKeeps ==
  ASSUME IInv, NEW x \in DOMAIN saved, OpenDeleteDialog(x)
  PROVE  IInv'
<1> DEFINE d == [kind |-> "delete", id |-> x]
<1>1. OpenDialog(d)
  BY DEF OpenDeleteDialog
<1>2. x \in SavedId
  BY DEF IInv, WindowFits
<1>3. d \in Dialog /\ d.kind = "delete" /\ d.id = x
  BY <1>2 DEF Dialog
<1> HIDE DEF d
<1> QED BY <1>1, <1>3, OpenDialogKeeps

\* A step that changes nothing.
LEMMA NothingKeeps ==
  ASSUME IInv, UNCHANGED vars
  PROVE  IInv'
<1>1. /\ UNCHANGED <<phase, tabs, active, tab, timer, saved, dialog, queue, disk, ghosts>>
      /\ UNCHANGED <<tabCount, saveCount, edits, faults, kills>>
  BY DEF vars, memory, counters
<1>2. Fate' = Fate
  BY <1>1 DEF Fate
<1>3. WindowFits' /\ Bounded' /\ LinkedFits'
  BY <1>1 DEF IInv, WindowFits, Bounded, LinkedFits, IsOpen
<1>4. WriterFits' /\ (NoDoubleLinks => NoDoubleLinks')
  BY <1>1, NothingSent DEF IInv
<1>5. (RequestsFit => RequestsFit') /\ (DraftsFit => DraftsFit')
  BY <1>1, <1>2 DEF RequestsFit, DraftsFit, IsOpen
<1>6. StripFits => StripFits'
  BY <1>1, <1>2 DEF StripFits, IsOpen
<1>7. CleanFits => CleanFits'
  BY <1>1, <1>2 DEF CleanFits
<1> QED BY <1>1, <1>3, <1>4, <1>5, <1>6, <1>7 DEF IInv

\* The first window of all.
LEMMA InitFits == Init => IInv
<1> SUFFICES ASSUME Init PROVE IInv
  OBVIOUS
<1> DEFINE d == [p \in Path |-> {}]
           n == 1
<1>1. /\ phase = "run" /\ tabs = <<n>> /\ active = 1
      /\ tab = [t \in TabId |-> Blank] /\ timer = {} /\ saved = <<>> /\ dialog = NoDialog
      /\ queue = NewTabWrites(n, <<n>>) /\ disk = d /\ ghosts = {}
      /\ tabCount = n /\ saveCount = 0 /\ edits = 0 /\ faults = 0 /\ kills = 0
  BY DEF Init
<1>2. n \in TabId /\ n <= n /\ n \in Nat /\ n \in 1..MaxTabs
  BY Bounds DEF TabId
<1>3. d \in [Path -> SUBSET Data] /\ \A p \in Path : d[p] = {}
  OBVIOUS
<1>4. DOMAIN saved = {} /\ saved \in [DOMAIN saved -> Content]
  BY <1>1
<1> HIDE DEF d, n
<1>5. /\ \A t \in TabId : d[DraftFile(t)] = {}
      /\ \A x \in SavedId : d[RequestFile(x)] = {}
      /\ d[WorkspaceFile] = {}
  BY <1>3, Paths
<1>6. FilesFit(d, n, 0)
  BY <1>5 DEF FilesFit
<1>7. FirstWrites(NewTabWrites(n, <<n>>), d, n, 0)
  BY <1>2, <1>3, <1>5, <1>6, FirstWritten
<1>8. FirstWrites(queue, disk, tabCount, 0) /\ tabCount = n
  BY <1>1, <1>7
<1>9. tabs \in Seq(TabId) /\ IsInjective(tabs) /\ tabs # <<>> /\ DOMAIN tabs = {1} /\ tabs[1] = n
  BY <1>1, <1>2 DEF IsInjective
<1>10. \A t \in TabId : tab[t] = Blank
  BY <1>1
<1>11. dialog \in Dialog /\ dialog.kind = "none" /\ \A s : ~HeldBy(dialog, s)
  BY <1>1 DEF Dialog, NoDialog, HeldBy
<1>12. Bounded
  BY <1>1, <1>2, Bounds DEF Bounded
<1>13. WindowFits
  <2>1. tab \in [TabId -> Tab] /\ \A t \in TabId : tab[t].saved <= saveCount
    BY <1>1, <1>10, Kinds DEF None
  <2>2. \A i \in DOMAIN tabs : tabs[i] <= tabCount
    BY <1>1, <1>2, <1>9
  <2>3. timer \in SUBSET TabId /\ timer \subseteq Alive(tabs, dialog) /\ ghosts \subseteq TabId
    BY <1>1
  <2>4. active \in DOMAIN tabs
    BY <1>1, <1>9
  <2> QED BY <1>1, <1>4, <1>9, <1>10, <1>11, <2>1, <2>2, <2>3, <2>4 DEF WindowFits
<1>14. LinkedFits
  BY <1>10, <1>11, Kinds DEF LinkedFits
<1>15. WriterFits /\ NoDoubleLinks
  <2>1. \A t \in TabId : t > tabCount => t # n
    BY <1>2, <1>8, Kinds
  <2>2. disk \in [Path -> SUBSET Data] /\ saveCount = 0
    BY <1>1, <1>3
  <2> QED BY <1>8, <2>1, <2>2 DEF WriterFits, NoDoubleLinks, FirstWrites
<1>16. /\ \A t \in TabId : Fate[DraftFile(t)] = IF t = n THEN {Blank} ELSE {}
       /\ \A x \in SavedId : Fate[RequestFile(x)] = {}
       /\ Fate[WorkspaceFile] = {[order |-> <<n>>, active |-> n]}
  BY <1>1, <1>5, <1>8 DEF FirstWrites, Fate
<1>17. RequestsFit
  BY <1>4, <1>16 DEF RequestsFit
<1>18. DraftsFit
  <2>1. \A t : IsOpen(t) <=> t = n
    BY <1>9 DEF IsOpen
  <2>2. \A k : Relinked(Blank, k) = Blank
    BY Kinds DEF Relinked
  <2> QED BY <2>1, <2>2, <1>10, <1>16, Kinds DEF DraftsFit
<1>19. StripFits
  <2>1. tabs = <<n>> /\ tabs[active] = n
    BY <1>1, <1>9
  <2> QED BY <1>16, <2>1 DEF StripFits
<1>20. CleanFits
  <2>1. \A k : Agrees(Blank, k)
    BY Kinds DEF Agrees
  <2> QED BY <1>10, <1>16, <2>1, Kinds DEF CleanFits
<1> QED BY <1>12, <1>13, <1>14, <1>15, <1>17, <1>18, <1>19, <1>20 DEF IInv

\* Every step of the program.
LEMMA StepKeeps == IInv /\ [Next]_vars => IInv'
<1> SUFFICES ASSUME IInv, [Next]_vars PROVE IInv'
  OBVIOUS
<1>1. CASE User
  <2>1. ASSUME NEW t \in TabId, Edit(t) PROVE IInv'
    BY <2>1, EditKeeps
  <2>2. CASE NewTab
    BY <2>2, NewTabKeeps
  <2>3. CASE OpenTemplate
    BY <2>3, OpenTemplateKeeps
  <2>4. ASSUME NEW i \in DOMAIN tabs, DuplicateTab(i) PROVE IInv'
    BY <2>4, DuplicateTabKeeps
  <2>5. ASSUME NEW i \in DOMAIN tabs, Activate(i) PROVE IInv'
    BY <2>5, ActivateKeeps
  <2>6. ASSUME NEW i \in DOMAIN tabs, CloseTab(i) PROVE IInv'
    BY <2>6, CloseTabKeeps
  <2>7. ASSUME NEW i \in DOMAIN tabs, CloseOtherTabs(i) PROVE IInv'
    BY <2>7, CloseOtherTabsKeeps
  <2>8. CASE CloseAllTabs
    BY <2>8, CloseAllTabsKeeps
  <2>9. ASSUME NEW x \in DOMAIN saved, OpenSaved(x) PROVE IInv'
    BY <2>9, OpenSavedKeeps
  <2>10. ASSUME NEW x \in DOMAIN saved, OpenDeleteDialog(x) PROVE IInv'
    BY <2>10, OpenDeleteDialogKeeps
  <2>11. CASE Overwrite
    BY <2>11, OverwriteKeeps
  <2>12. CASE OpenSaveDialog
    BY <2>12, OpenSaveDialogKeeps
  <2>13. CASE ConfirmSave
    BY <2>13, ConfirmSaveKeeps
  <2>14. CASE ConfirmDelete
    BY <2>14, ConfirmDeleteKeeps
  <2>15. CASE CloseDialog
    BY <2>15, CloseDialogKeeps
  <2>16. CASE Quit
    BY <2>16, QuitKeeps
  <2> QED BY <1>1, <2>1, <2>2, <2>3, <2>4, <2>5, <2>6, <2>7, <2>8, <2>9, <2>10, <2>11,
             <2>12, <2>13, <2>14, <2>15, <2>16 DEF User
<1>2. CASE Process
  <2>1. ASSUME NEW t \in TabId, TimerFires(t) PROVE IInv'
    BY <2>1, TimerKeeps
  <2>2. CASE Perform
    BY <2>2, PerformKeeps
  <2>3. CASE PerformFails
    BY <2>3, PerformFailsKeeps
  <2>4. CASE Leave
    BY <2>4, LeaveKeeps
  <2>5. CASE Restart
    BY <2>5, RestartKeeps
  <2>6. CASE Kill
    BY <2>6, KillKeeps
  <2> QED BY <1>2, <2>1, <2>2, <2>3, <2>4, <2>5, <2>6 DEF Process
<1>3. CASE UNCHANGED vars
  BY <1>3, NothingKeeps
<1> QED BY <1>1, <1>2, <1>3 DEF Next

\* The invariant.
LEMMA Fits == Spec => []IInv
BY InitFits, StepKeeps, PTL DEF Spec

\* Picking everything leaves a sequence as it is.
LEMMA PickedAll ==
  ASSUME NEW ts \in Seq(TabId)
  PROVE  Picked(ts, DOMAIN ts) = ts
<1> DEFINE b == Len(ts)
<1>1. b \in Nat /\ DOMAIN ts = 1..b /\ ts = [i \in 1..b |-> ts[i]]
  OBVIOUS
<1> HIDE DEF b
<1>2. InOrder(DOMAIN ts) = [i \in 1..b |-> i]
  BY <1>1, InOrderAll
<1>3. Picked(ts, DOMAIN ts) = [k \in 1..b |-> ts[k]]
  BY <1>2 DEF Picked
<1> QED BY <1>1, <1>3

\* A layout is found again when the drafts of all its tabs are.
LEMMA LayoutFound ==
  ASSUME NEW ts \in Seq(TabId), IsInjective(ts), NEW a \in DOMAIN ts,
         NEW layout, layout = {[order |-> ts, active |-> ts[a]]},
         NEW found \in SUBSET TabId, ToSet(ts) \subseteq found,
         NEW out, out = OrderedBy(layout, found)
  PROVE  IsPrefix(ts, out) /\ ActiveIn(layout, out) = a
<1> DEFINE l == [order |-> ts, active |-> ts[a]]
           b == InOrder(found \ ToSet(ts))
<1>1. l \in Strips /\ layout = {l} /\ l.order = ts /\ l.active = ts[a]
  BY DEF Strips
<1> HIDE DEF l
<1>2. layout # {} /\ (CHOOSE k \in layout : TRUE) = l
  BY <1>1
<1>3. {i \in DOMAIN ts : ts[i] \in found} = DOMAIN ts
  BY DEF ToSet
<1>4. out = ts \o b
  BY <1>1, <1>2, <1>3, PickedAll DEF OrderedBy
<1>5. out \in Seq(TabId) /\ IsInjective(out)
  BY <1>1, OrderedIs
<1>6. b \in Seq(TabId)
  <2>1. MaxTabs \in Nat /\ (found \ ToSet(ts)) \in SUBSET (1..MaxTabs)
    BY Bounds DEF TabId
  <2>2. b \in Seq(found \ ToSet(ts))
    BY <2>1, InOrderIs
  <2> QED BY <2>2
<1> HIDE DEF b
<1> DEFINE c == ts \o b
<1>7. /\ c \in Seq(TabId) /\ Len(c) = Len(ts) + Len(b)
      /\ \A i \in 1..Len(ts) + Len(b) : c[i] = IF i <= Len(ts) THEN ts[i] ELSE b[i - Len(ts)]
  BY <1>6, ConcatProperties, Zenon
<1>8. out = c
  BY <1>4
<1> HIDE DEF c
<1>9. /\ Len(ts) \in Nat /\ Len(b) \in Nat /\ Len(c) \in Nat
      /\ DOMAIN ts = 1..Len(ts) /\ DOMAIN c = 1..Len(c)
  BY <1>6, <1>7
<1>10. Len(ts) <= Len(c) /\ \A i \in DOMAIN ts : i \in DOMAIN c /\ c[i] = ts[i]
  BY <1>7, <1>9
<1>11. IsPrefix(ts, c)
  BY <1>7, <1>9, <1>10 DEF IsPrefix
<1>12. IsPrefix(ts, out) /\ a \in DOMAIN out /\ out[a] = ts[a]
  BY <1>8, <1>10, <1>11
<1>13. \A i \in DOMAIN out : (\E k \in layout : k.active = out[i]) <=> i = a
  <2>1. \A i \in DOMAIN out : (\E k \in layout : k.active = out[i]) <=> out[i] = ts[a]
    BY <1>1
  <2> QED BY <2>1, <1>5, <1>12 DEF IsInjective
<1>14. {i \in DOMAIN out : \E k \in layout : k.active = out[i]} = {a}
  BY <1>12, <1>13
<1>15. ActiveIn(layout, out) = a
  BY <1>14 DEF ActiveIn
<1> QED BY <1>12, <1>15

\* Once everything is written and no write failed, the files say what the window
\* shows.
LEMMA Quiet ==
  ASSUME IInv, faults = 0, queue = <<>>, timer \cap ToSet(tabs) = {}
  PROVE  /\ IsPrefix(tabs, OrderedDrafts) /\ LoadedActive = active /\ OrderedDrafts # <<>>
         /\ \A i \in DOMAIN tabs : Exists(DraftFile(tabs[i])) /\ LoadedTab(tabs[i]) = tab[tabs[i]]
         /\ LoadedSaved = saved
         /\ \A i \in DOMAIN OrderedDrafts : IsOpen(OrderedDrafts[i]) \/ OrderedDrafts[i] \in ghosts
<1> DEFINE found == {t \in TabId : disk[DraftFile(t)] # {}}
           known == DOMAIN LoadedSaved
           strip == OrderedDrafts
           layout == disk[WorkspaceFile]
<1>1. WindowFits /\ WriterFits /\ RequestsFit /\ DraftsFit /\ StripFits
  BY DEF IInv
<1>2. FilesFit(disk, tabCount, saveCount) /\ Fate = disk
  BY <1>1, OnDisk
<1>3. /\ LoadedSaved \in [known -> Content] /\ known \subseteq SavedId
      /\ \A x \in SavedId : disk[RequestFile(x)] = IF x \in known THEN {LoadedSaved[x]} ELSE {}
      /\ \A t \in found : \E v \in Tab : disk[DraftFile(t)] = {v} /\ LoadedTab(t) = Relinked(v, known)
      /\ strip = OrderedBy(layout, found)
  BY <1>2, LoadedIs
<1>4. tabs \in Seq(TabId) /\ IsInjective(tabs) /\ tabs # <<>> /\ active \in DOMAIN tabs
  BY <1>1 DEF WindowFits
<1>5. known = DOMAIN saved /\ LoadedSaved = saved
  <2>1. \A x \in SavedId : (x \in known <=> x \in DOMAIN saved) /\ (x \in known => LoadedSaved[x] = saved[x])
    BY <1>1, <1>2, <1>3 DEF RequestsFit
  <2>2. saved \in [DOMAIN saved -> Content] /\ DOMAIN saved \subseteq SavedId
    BY <1>1 DEF WindowFits
  <2> HIDE DEF known
  <2>3. known = DOMAIN saved
    BY <2>1, <2>2, <1>3
  <2> QED BY <2>1, <2>2, <2>3, <1>3
<1> HIDE DEF known, strip, layout
<1>6. ASSUME NEW i \in DOMAIN tabs
      PROVE  /\ tabs[i] \in found /\ Exists(DraftFile(tabs[i]))
             /\ LoadedTab(tabs[i]) = tab[tabs[i]]
  <2>1. tabs[i] \in TabId /\ IsOpen(tabs[i]) /\ tabs[i] \notin timer
    BY <1>4 DEF IsOpen, ToSet
  <2>2. tabs[i] \in found
    BY <2>1, <1>1, <1>2 DEF DraftsFit
  <2>3. PICK v \in Tab : disk[DraftFile(tabs[i])] = {v} /\ LoadedTab(tabs[i]) = Relinked(v, known)
    BY <2>2, <1>3
  <2>4. Relinked(v, DOMAIN saved) = tab[tabs[i]]
    BY <2>1, <2>3, <1>1, <1>2 DEF DraftsFit
  <2> QED BY <2>2, <2>3, <2>4, <1>5 DEF Exists
<1>7. \A t \in found : IsOpen(t) \/ t \in ghosts
  BY <1>1, <1>2 DEF DraftsFit
<1>8. found \in SUBSET TabId
  OBVIOUS
<1>9. layout = {} \/ \E l \in Strips : layout = {l}
  BY <1>2 DEF FilesFit, layout
<1>10. ToSet(tabs) \subseteq found
  BY <1>6 DEF ToSet
<1>11. \A t \in found : t \in Alive(tabs, dialog) \/ disk[DraftFile(t)] # {}
  OBVIOUS
<1> HIDE DEF found
<1>12. strip \in Seq(TabId) /\ \A t : t \in ToSet(strip) <=> t \in found
  BY <1>3, <1>8, <1>9, OrderedIs
<1>13. \A i \in DOMAIN strip : IsOpen(strip[i]) \/ strip[i] \in ghosts
  BY <1>7, <1>12 DEF ToSet
<1>14. strip # <<>>
  <2>1. tabs[active] \in ToSet(strip)
    BY <1>4, <1>6, <1>12
  <2> QED BY <2>1 DEF ToSet
<1>15. IsPrefix(tabs, strip) /\ ActiveIn(layout, strip) = active
  <2>1. CASE layout = {[order |-> tabs, active |-> tabs[active]]}
    BY <2>1, <1>3, <1>4, <1>8, <1>10, LayoutFound
  <2>2. CASE ~(layout = {[order |-> tabs, active |-> tabs[active]]})
    <3>1. /\ \A t \in found : IsOpen(t)
          /\ tabs = OrderedBy(layout, ToSet(tabs)) /\ active = ActiveIn(layout, tabs)
      BY <2>2, <1>1, <1>2, <1>8, <1>11 DEF StripFits, layout
    <3>2. found = ToSet(tabs)
      BY <3>1, <1>10 DEF IsOpen, ToSet
    <3>3. strip = tabs
      BY <3>1, <3>2, <1>3
    <3>4. IsPrefix(tabs, tabs)
      BY <1>4 DEF IsPrefix
    <3> QED BY <3>1, <3>3, <3>4
  <2> QED BY <2>1, <2>2
<1>16. LoadedActive = ActiveIn(layout, strip)
  BY DEF LoadedActive, layout, strip
<1> QED BY <1>5, <1>6, <1>13, <1>14, <1>15, <1>16 DEF strip

-----------------------------------------------------------------------------
(* What the window promises *)

\* Two open tabs are not linked to one saved request.
LEMMA LinksFit == IInv => LinksAreSound
<1> SUFFICES ASSUME IInv PROVE LinksAreSound
  OBVIOUS
<1>1. WindowFits /\ Bounded /\ WriterFits /\ LinkedFits
  BY DEF IInv
<1>2. TypeOK
  <2>1. DOMAIN disk = Path /\ \A i \in DOMAIN queue : queue[i].path \in Path
    <3>1. queue \in Seq(Operation) /\ disk \in [Path -> SUBSET Data]
      BY <1>1 DEF WriterFits
    <3>2. \A i \in DOMAIN queue : queue[i] \in Operation
      BY <3>1
    <3> QED BY <3>1, <3>2 DEF Operation
  <2>2. faults \in 0..MaxFailures /\ kills \in 0..MaxFailures
    BY <1>1, Bounds DEF Bounded
  <2>3. tabCount \in 0..MaxTabs /\ saveCount \in 0..MaxSaves /\ edits \in 0..MaxEdits
    BY <1>1, Bounds DEF Bounded
  <2> QED BY <1>1, <2>1, <2>2, <2>3 DEF TypeOK, WindowFits
<1>3. \A i \in DOMAIN tabs : tabs[i] \in TabId /\ tab[tabs[i]] \in Tab
  BY <1>1 DEF WindowFits
<1>4. OneTabPerSaved
  <2>1. SUFFICES ASSUME faults = 0, NEW i \in DOMAIN tabs, NEW j \in DOMAIN tabs,
                        tab[tabs[i]].saved # None, tab[tabs[i]].saved = tab[tabs[j]].saved
                 PROVE  i = j
    BY DEF OneTabPerSaved
  <2>2. NoDoubleLinks /\ DraftsFit
    BY <2>1 DEF IInv
  <2>3. tab[tabs[i]].saved \in SavedId
    BY <1>3, <2>1, Kinds
  <2>4. tabs[i] = tabs[j]
    BY <1>1, <1>3, <2>1, <2>2, <2>3, OneOwner
  <2> QED BY <2>4, <1>1 DEF WindowFits, IsInjective
<1>5. SavedLinkValid
  BY <1>1, <1>3 DEF SavedLinkValid, LinkedFits
<1> QED BY <1>2, <1>4, <1>5 DEF LinksAreSound

\* Closing tabs: the three handlers that make the strip shorter.
LEMMA ActiveFollows ==
  ASSUME IInv, [Next]_vars, phase = "run", kills' = kills, Len(tabs') < Len(tabs),
         NEW i \in DOMAIN tabs', tabs'[i] = tabs[active]
  PROVE  active' = i
<1>1. /\ tabs \in Seq(TabId) /\ IsInjective(tabs) /\ active \in DOMAIN tabs
      /\ Len(tabs) \in Nat /\ DOMAIN tabs = 1..Len(tabs)
      /\ \A j \in DOMAIN tabs : tabs[j] <= tabCount
  BY DEF IInv, WindowFits
<1>2. tabCount \in Nat /\ kills \in Nat /\ tabCount \in 1..MaxTabs
  BY Bounds DEF IInv, Bounded
<1>3. tabs' # tabs
  BY <1>1
<1>4. ASSUME NEW j \in DOMAIN tabs, CloseTab(j) PROVE active' = i
  <2> DEFINE ts == RemoveAt(tabs, j)
  <2>1. tabs' = ts /\ active' = ActiveAfterClose(active, j, Len(tabs))
    BY <1>4 DEF CloseTab, RemoveTabs
  <2>2. /\ ts \in Seq(TabId) /\ Len(ts) = Len(tabs) - 1
        /\ \A k \in DOMAIN ts : ts[k] = IF k < j THEN tabs[k] ELSE tabs[k + 1]
    BY <1>1, RemoveAtIs
  <2> HIDE DEF ts
  <2>3. i \in 1..(Len(tabs) - 1) /\ i \in DOMAIN ts
    BY <1>1, <2>1, <2>2
  <2>4. IF i < j THEN i = active ELSE i + 1 = active
    <3>1. i \in DOMAIN tabs /\ i + 1 \in DOMAIN tabs
      BY <1>1, <2>3
    <3>2. tabs[active] = IF i < j THEN tabs[i] ELSE tabs[i + 1]
      BY <2>1, <2>2, <2>3
    <3> QED BY <1>1, <3>1, <3>2 DEF IsInjective
  <2> QED BY <1>1, <2>1, <2>3, <2>4 DEF ActiveAfterClose
<1>5. ASSUME NEW keep \in DOMAIN tabs, CloseOtherTabs(keep) PROVE active' = i
  BY <1>5 DEF CloseOtherTabs, RemoveTabs
<1>6. CASE CloseAllTabs
  BY <1>6 DEF CloseAllTabs, RemoveTabs
<1>7. ASSUME NEW value, NEW k \in 1..(Len(tabs) + 1), NEW more, AddTab(value, k, more) PROVE FALSE
  <2> DEFINE n == tabCount + 1
  <2>1. n \in TabId /\ \A j \in DOMAIN tabs : tabs[j] # n
    <3>1. tabCount < MaxTabs
      BY <1>7 DEF AddTab
    <3>2. \A j \in DOMAIN tabs : tabs[j] \in TabId
      BY <1>1
    <3>3. \A j \in DOMAIN tabs : tabs[j] \in Nat
      BY <3>2, Kinds
    <3> QED BY <3>1, <3>3, <1>1, <1>2, Bounds DEF TabId
  <2>2. tabs' = InsertAt(tabs, k, n)
    BY <1>7 DEF AddTab
  <2> HIDE DEF n
  <2>3. Len(InsertAt(tabs, k, n)) = Len(tabs) + 1
    BY <1>1, <2>1, <1>7, InsertIs
  <2> QED BY <1>1, <2>2, <2>3
<1>8. 1 \in 1..(Len(tabs) + 1) /\ Len(tabs) + 1 \in 1..(Len(tabs) + 1)
      /\ \A j \in DOMAIN tabs : j + 1 \in 1..(Len(tabs) + 1)
  BY <1>1
<1>9. CASE User
  <2>1. \A t \in TabId : ~Edit(t)
    BY <1>3 DEF Edit
  <2>2. ~NewTab /\ ~OpenTemplate
    BY <1>7, <1>8 DEF NewTab, OpenTemplate
  <2>3. \A j \in DOMAIN tabs : ~DuplicateTab(j)
    BY <1>7, <1>8 DEF DuplicateTab
  <2>4. \A j \in DOMAIN tabs : ~Activate(j)
    BY <1>3 DEF Activate
  <2>5. \A x \in DOMAIN saved : ~OpenSaved(x) /\ ~OpenDeleteDialog(x)
    <3>1. \A j : ~Activate(j)
      BY <1>3 DEF Activate
    <3> QED BY <3>1, <1>3, <1>7, <1>8 DEF OpenSaved, OpenDeleteDialog, OpenDialog
  <2>6. ~Overwrite /\ ~OpenSaveDialog /\ ~ConfirmSave /\ ~ConfirmDelete /\ ~CloseDialog /\ ~Quit
    BY <1>3 DEF Overwrite, OpenSaveDialog, OpenDialog, ConfirmSave, ConfirmDelete, CloseDialog, Quit
  <2> QED BY <1>4, <1>5, <1>6, <1>9, <2>1, <2>2, <2>3, <2>4, <2>5, <2>6 DEF User
<1>10. CASE Process
  <2>1. \A t \in TabId : ~TimerFires(t)
    BY <1>3 DEF TimerFires
  <2>2. ~Perform /\ ~PerformFails /\ ~Leave
    BY <1>3 DEF Perform, PerformFails, Leave, memory
  <2>3. ~Restart
    BY DEF Restart
  <2>4. ~Kill
    BY <1>2 DEF Kill
  <2> QED BY <1>10, <2>1, <2>2, <2>3, <2>4 DEF Process
<1>11. CASE UNCHANGED vars
  BY <1>3, <1>11 DEF vars, memory
<1> QED BY <1>9, <1>10, <1>11 DEF Next

\* Only the start leads from the end of the process to a running one.
LEMMA StartsAgain ==
  ASSUME [Next]_vars, phase = "quit", phase' = "run"
  PROVE  Restore
<1>1. ~User
  <2>1. \A t \in TabId : ~Edit(t)
    BY DEF Edit, Acting
  <2>2. \A value, k, more : ~AddTab(value, k, more)
    BY DEF AddTab, Acting
  <2>3. \A gone, ts, a : ~RemoveTabs(gone, ts, a)
    BY DEF RemoveTabs, Acting
  <2>4. \A i : ~Activate(i)
    BY DEF Activate, Acting
  <2>5. ~NewTab /\ ~OpenTemplate /\ \A i \in DOMAIN tabs : ~DuplicateTab(i)
    BY <2>2 DEF NewTab, OpenTemplate, DuplicateTab
  <2>6. ~CloseAllTabs /\ \A i \in DOMAIN tabs : ~CloseTab(i) /\ ~CloseOtherTabs(i)
    BY <2>3 DEF CloseAllTabs, CloseTab, CloseOtherTabs
  <2>7. \A x \in DOMAIN saved : ~OpenSaved(x) /\ ~OpenDeleteDialog(x)
    BY <2>2, <2>4 DEF OpenSaved, OpenDeleteDialog, OpenDialog, Acting
  <2>8. ~Overwrite /\ ~OpenSaveDialog /\ ~ConfirmSave /\ ~ConfirmDelete /\ ~CloseDialog /\ ~Quit
    BY DEF Overwrite, OpenSaveDialog, OpenDialog, ConfirmSave, ConfirmDelete, CloseDialog, Quit, Acting
  <2> QED BY <2>1, <2>4, <2>5, <2>6, <2>7, <2>8 DEF User
<1>2. Process => Restore
  BY DEF Process, TimerFires, Perform, PerformFails, Leave, Restart, Kill, Running
<1>3. ~UNCHANGED vars
  BY DEF vars
<1> QED BY <1>1, <1>2, <1>3 DEF Next

\* A start after a proper quit shows the tabs that were open, and tabs that the
\* save dialog held when they were closed.
LEMMA SameTabsBack ==
  ASSUME IInv, [Next]_vars, phase = "quit", phase' = "run", faults = 0
  PROVE  /\ IsPrefix(tabs, tabs') /\ active' = active /\ saved' = saved
         /\ \A i \in DOMAIN tabs : tab'[tabs[i]] = tab[tabs[i]]
         /\ \A i \in DOMAIN tabs' : IsOpen(tabs'[i]) \/ tabs'[i] \in ghosts
<1>1. queue = <<>> /\ timer \cap ToSet(tabs) = {} /\ tabs \in Seq(TabId)
  BY DEF IInv, WindowFits
<1>2. /\ IsPrefix(tabs, OrderedDrafts) /\ LoadedActive = active /\ OrderedDrafts # <<>>
      /\ \A i \in DOMAIN tabs : Exists(DraftFile(tabs[i])) /\ LoadedTab(tabs[i]) = tab[tabs[i]]
      /\ LoadedSaved = saved
      /\ \A i \in DOMAIN OrderedDrafts : IsOpen(OrderedDrafts[i]) \/ OrderedDrafts[i] \in ghosts
  BY <1>1, Quiet
<1>3. Restore
  BY StartsAgain
<1>4. /\ saved' = LoadedSaved /\ tabs' = OrderedDrafts /\ active' = LoadedActive
      /\ tab' = [t \in TabId |-> IF Exists(DraftFile(t)) THEN LoadedTab(t) ELSE Blank]
  BY <1>2, <1>3 DEF Restore
<1>5. \A i \in DOMAIN tabs : tab'[tabs[i]] = tab[tabs[i]]
  BY <1>1, <1>2, <1>4
<1> QED BY <1>2, <1>4, <1>5

\* LinksAreSound: the state has its types, two tabs never edit one saved request
\* (unless a delete failed), and every link leads to a request of the list,
\* whatever is killed, lost or restored (open_saved, overwrite_saved,
\* duplicate_tab, delete_saved, Workspace::restore).
THEOREM LinksStaySound == Spec => []LinksAreSound
BY Fits, LinksFit, PTL

\* CleanMeansSaved: a tab without the changed mark shows what is saved, through
\* edits, saves, deletes, closes and restarts (RequestTab.dirty).
THEOREM CleanTabsAreSaved == Spec => []CleanMeansSaved
<1>1. IInv => CleanMeansSaved
  <2> SUFFICES ASSUME IInv PROVE CleanMeansSaved
    OBVIOUS
  <2>1. \A i \in DOMAIN tabs : tabs[i] \in TabId
    BY DEF IInv, WindowFits
  <2> QED BY <2>1 DEF IInv, CleanFits, Agrees, CleanMeansSaved, CleanTabsAgree
<1> QED BY <1>1, Fits, PTL

\* OnlyHeldTabsReturn: after a proper quit no closed tab comes back, except one
\* that the save dialog held when it was closed (close_tab, finish_save).
THEOREM ClosedTabsStayClosed == Spec => OnlyHeldTabsReturn
<1> DEFINE Step == phase = "quit" /\ phase' = "run" /\ faults = 0 =>
                     \A i \in DOMAIN tabs' :
                       IsOpen(tabs'[i]) \/ tabs'[i] > tabCount \/ tabs'[i] \in ghosts
<1>1. IInv /\ [Next]_vars => Step
  BY SameTabsBack
<1>2. IInv /\ [Next]_vars => [Step]_vars
  BY <1>1
<1> QED BY <1>2, Fits, PTL DEF Spec, OnlyHeldTabsReturn

\* TabsStayAsLeft: once timers and writer are done the files hold this window,
\* closing tabs keeps the active one active, and a proper quit and the next start
\* lose no tab, no order and no edit (persist_workspace, active_after_close,
\* flush_on_exit, order_drafts, Workspace::restore).
THEOREM WindowComesBack == Spec => TabsStayAsLeft
<1> DEFINE Closing == phase = "run" /\ kills' = kills /\ Len(tabs') < Len(tabs) =>
                        \A i \in DOMAIN tabs' : tabs'[i] = tabs[active] => active' = i
           Quitting == phase = "quit" /\ phase' = "run" /\ faults = 0 =>
                         /\ IsPrefix(tabs, tabs')
                         /\ active' = active
                         /\ \A i \in DOMAIN tabs : tab'[tabs[i]] = tab[tabs[i]]
                         /\ saved' = saved
<1>1. IInv => DurableWhenQuiet
  BY Quiet DEF DurableWhenQuiet
<1>2. IInv /\ [Next]_vars => Closing
  BY ActiveFollows
<1>3. IInv /\ [Next]_vars => Quitting
  BY SameTabsBack
<1> QED BY <1>1, <1>2, <1>3, Fits, PTL DEF Spec, TabsStayAsLeft, ClosingKeepsActive, QuitLosesNothing

-----------------------------------------------------------------------------
(* The editor of a tab *)

\* Session abstracts the request of a tab to the number of the edit that made it,
\* and says when a tab is marked as changed.  Editor has the widgets that hold the
\* request; what follows is about any of them, for any texts, names and files and
\* tables of any length.

\* Removing an element moves those after it.
LEMMA RemovedIs ==
  ASSUME NEW S, NEW s \in Seq(S), NEW i \in DOMAIN s, NEW out, out = RemoveAt(s, i)
  PROVE  /\ out \in Seq(S) /\ Len(out) = Len(s) - 1
         /\ \A k \in DOMAIN out : /\ k \in DOMAIN s /\ k + 1 \in DOMAIN s
                                  /\ out[k] = IF k < i THEN s[k] ELSE s[k + 1]
<1> DEFINE a == SubSeq(s, 1, i - 1)
           z == SubSeq(s, i + 1, Len(s))
           c == a \o z
<1>1. Len(s) \in Nat /\ DOMAIN s = 1..Len(s) /\ i \in 1..Len(s)
  OBVIOUS
<1>2. a \in Seq(S) /\ Len(a) = i - 1 /\ \A k \in 1..(i - 1) : a[k] = s[k]
  BY <1>1
<1>3. z \in Seq(S) /\ Len(z) = Len(s) - i /\ \A k \in 1..(Len(s) - i) : z[k] = s[i + k]
  BY <1>1
<1>4. out = c
  BY DEF RemoveAt
<1> HIDE DEF a, z
<1>5. c \in Seq(S) /\ Len(c) = Len(a) + Len(z)
      /\ \A k \in 1..Len(a) + Len(z) : c[k] = IF k <= Len(a) THEN a[k] ELSE z[k - Len(a)]
  BY <1>2, <1>3, ConcatProperties, Zenon
<1> HIDE DEF c
<1>6. Len(c) = Len(s) - 1 /\ DOMAIN c = 1..(Len(s) - 1)
  BY <1>1, <1>2, <1>3, <1>5
<1>7. ASSUME NEW k \in 1..(Len(s) - 1) PROVE c[k] = IF k < i THEN s[k] ELSE s[k + 1]
  <2>1. c[k] = IF k <= i - 1 THEN a[k] ELSE z[k - (i - 1)]
    BY <1>1, <1>2, <1>3, <1>5, <1>7
  <2>2. CASE k < i
    BY <2>1, <2>2, <1>1, <1>2
  <2>3. CASE ~(k < i)
    <3>1. k - (i - 1) \in 1..(Len(s) - i) /\ i + (k - (i - 1)) = k + 1
      BY <2>3, <1>1
    <3>2. z[k - (i - 1)] = s[k + 1]
      BY <3>1, <1>3
    <3> QED BY <3>2, <2>1, <2>3, <1>1
  <2> QED BY <2>2, <2>3
<1>8. \A k \in DOMAIN c : /\ k \in DOMAIN s /\ k + 1 \in DOMAIN s
                          /\ c[k] = IF k < i THEN s[k] ELSE s[k + 1]
  BY <1>1, <1>6, <1>7
<1> QED BY <1>4, <1>5, <1>6, <1>8

\* The empty rows are rows.
LEMMA EmptyRows ==
  /\ EmptyField \in FieldRows /\ FieldIsEmpty(EmptyField) /\ EmptyField.size = NoFile
  /\ EmptyOp \in OpRows /\ OpIsEmpty(EmptyOp)
BY DEF EmptyField, FieldRow, FieldRows, FieldIsEmpty, EmptyOp,
       OpRow, OpRows, OpIsEmpty, TextA, TextB, Inputs

\* Closing the form-data table keeps the rows and may add an empty one.
LEMMA FieldsClosedIs ==
  ASSUME NEW rows \in Seq(FieldRows), NEW out, out = FieldsClosed(rows)
  PROVE  /\ out \in Seq(FieldRows)
         /\ \A i \in DOMAIN out : out[i] = EmptyField \/ (i \in DOMAIN rows /\ out[i] = rows[i])
<1>1. EmptyField \in FieldRows
  BY EmptyRows
<1> DEFINE more == Append(rows, EmptyField)
<1>2. more \in Seq(FieldRows) /\ \A i \in DOMAIN more : more[i] = EmptyField \/ (i \in DOMAIN rows /\ more[i] = rows[i])
  BY <1>1
<1>3. out = more \/ out = rows
  BY DEF FieldsClosed
<1> HIDE DEF more
<1> QED BY <1>2, <1>3

\* Closing the table of operations keeps the rows, adds only an empty one, and
\* leaves an empty one at the end.
LEMMA OpsClosedIs ==
  ASSUME NEW rows \in Seq(OpRows), NEW out, out = OpsClosed(rows)
  PROVE  /\ out \in Seq(OpRows) /\ out # <<>> /\ OpIsEmpty(Last(out))
         /\ \A i \in DOMAIN rows : i \in DOMAIN out /\ out[i] = rows[i]
         /\ \A i \in DOMAIN out : i \in DOMAIN rows \/ OpIsEmpty(out[i])
<1>1. EmptyOp \in OpRows /\ OpIsEmpty(EmptyOp)
  BY EmptyRows
<1>2. CASE rows = <<>> \/ ~OpIsEmpty(Last(rows))
  <2> DEFINE more == Append(rows, EmptyOp)
  <2>1. more \in Seq(OpRows) /\ more # <<>> /\ Last(more) = EmptyOp
    BY <1>1 DEF Last
  <2>2. \A i \in DOMAIN rows : i \in DOMAIN more /\ more[i] = rows[i]
    OBVIOUS
  <2>3. \A i \in DOMAIN more : i \in DOMAIN rows \/ more[i] = EmptyOp
    OBVIOUS
  <2>4. out = more
    BY <1>2 DEF OpsClosed
  <2> HIDE DEF more
  <2> QED BY <1>1, <2>1, <2>2, <2>3, <2>4
<1>3. CASE ~(rows = <<>> \/ ~OpIsEmpty(Last(rows)))
  <2>1. out = rows
    BY <1>3 DEF OpsClosed
  <2> QED BY <2>1, <1>3
<1> QED BY <1>2, <1>3

-----------------------------------------------------------------------------
(* What is read from the editor's tables *)

KeptOps(rows) == {i \in DOMAIN rows : ~OpIsEmpty(rows[i])}

\* The operations that are read are drafts.
LEMMA PostOpsTyped ==
  ASSUME NEW rows \in Seq(OpRows)
  PROVE  PostOps(rows) \in Seq(OpDrafts)
<1> DEFINE seq == [i \in DOMAIN rows |-> OpDraft(rows[i])]
           I == KeptOps(rows)
           t == InOrder(I)
<1>1. Len(rows) \in Nat /\ DOMAIN rows = 1..Len(rows) /\ I \in SUBSET (1..Len(rows))
  BY DEF KeptOps
<1>2. \A i \in I : seq[i] \in OpDrafts
  BY <1>1 DEF KeptOps, OpDrafts
<1>3. t \in [1..Cardinality(I) -> I] /\ Cardinality(I) \in Nat
  BY <1>1, InOrderIs
<1>4. PostOps(rows) = [k \in DOMAIN t |-> seq[t[k]]]
  BY DEF PostOps, Picked, KeptOps
<1> HIDE DEF seq, t, I
<1>5. [k \in DOMAIN t |-> seq[t[k]]] \in [1..Cardinality(I) -> OpDrafts]
  BY <1>2, <1>3
<1> QED BY <1>3, <1>4, <1>5

\* Two tables whose rows that count are the same in order are read alike.
LEMMA PostOpsSame ==
  ASSUME NEW rows \in Seq(OpRows), NEW next \in Seq(OpRows),
         NEW m \in [KeptOps(next) -> KeptOps(rows)],
         \A i \in KeptOps(rows) : \E j \in KeptOps(next) : m[j] = i,
         \A j, k \in KeptOps(next) : j < k => m[j] < m[k],
         \A j \in KeptOps(next) : next[j] = rows[m[j]]
  PROVE  PostOps(next) = PostOps(rows)
<1> DEFINE seq   == [i \in DOMAIN rows |-> OpDraft(rows[i])]
           other == [i \in DOMAIN next |-> OpDraft(next[i])]
           I == KeptOps(rows)
           J == KeptOps(next)
<1>1. /\ Len(rows) \in Nat /\ I \in SUBSET (1..Len(rows)) /\ I \subseteq DOMAIN rows
      /\ Len(next) \in Nat /\ J \in SUBSET (1..Len(next)) /\ J \subseteq DOMAIN next
  BY DEF KeptOps
<1>2. \A j \in J : other[j] = seq[m[j]]
  BY <1>1
<1>3. PostOps(rows) = Picked(seq, I) /\ PostOps(next) = Picked(other, J)
  BY DEF PostOps, KeptOps
<1> HIDE DEF seq, other
<1>4. Picked(other, J) = Picked(seq, I)
  BY <1>1, <1>2, PickedSame
<1> QED BY <1>3, <1>4

\* Rows that do not count may change and be added at the end.
LEMMA PostOpsAgree ==
  ASSUME NEW rows \in Seq(OpRows), NEW next \in Seq(OpRows),
         \A i \in KeptOps(rows) : i \in DOMAIN next /\ next[i] = rows[i],
         \A i \in KeptOps(next) : i \in KeptOps(rows)
  PROVE  PostOps(next) = PostOps(rows)
<1> DEFINE m == [j \in KeptOps(next) |-> j]
<1>1. KeptOps(next) = KeptOps(rows)
  BY DEF KeptOps
<1>2. m \in [KeptOps(next) -> KeptOps(rows)]
  BY <1>1
<1>3. \A i \in KeptOps(rows) : \E j \in KeptOps(next) : m[j] = i
  BY <1>1
<1>4. \A j, k \in KeptOps(next) : j < k => m[j] < m[k]
  OBVIOUS
<1>5. \A j \in KeptOps(next) : next[j] = rows[m[j]]
  BY <1>1
<1> HIDE DEF m
<1> QED BY <1>2, <1>3, <1>4, <1>5, PostOpsSame

\* The empty row at the end is not read.
LEMMA PostOpsClosed ==
  ASSUME NEW rows \in Seq(OpRows)
  PROVE  PostOps(OpsClosed(rows)) = PostOps(rows)
<1> DEFINE next == OpsClosed(rows)
<1>1. /\ next \in Seq(OpRows)
      /\ \A i \in DOMAIN rows : i \in DOMAIN next /\ next[i] = rows[i]
      /\ \A i \in DOMAIN next : i \in DOMAIN rows \/ OpIsEmpty(next[i])
  BY OpsClosedIs
<1> HIDE DEF next
<1>2. PostOps(next) = PostOps(rows)
  <2>1. \A i \in KeptOps(rows) : i \in DOMAIN next /\ next[i] = rows[i]
    BY <1>1 DEF KeptOps
  <2>2. \A i \in KeptOps(next) : i \in KeptOps(rows)
    BY <1>1 DEF KeptOps
  <2> QED BY <1>1, <2>1, <2>2, PostOpsAgree
<1> QED BY <1>2 DEF next

\* Nor is a row missed that does not count.
LEMMA PostOpsRemoved ==
  ASSUME NEW rows \in Seq(OpRows), NEW i \in DOMAIN rows, OpIsEmpty(rows[i])
  PROVE  PostOps(RemoveAt(rows, i)) = PostOps(rows)
<1> DEFINE next == RemoveAt(rows, i)
           m == [j \in KeptOps(next) |-> IF j < i THEN j ELSE j + 1]
<1>1. /\ next \in Seq(OpRows) /\ Len(next) = Len(rows) - 1
      /\ \A k \in DOMAIN next : /\ k \in DOMAIN rows /\ k + 1 \in DOMAIN rows
                                /\ next[k] = IF k < i THEN rows[k] ELSE rows[k + 1]
  BY RemovedIs
<1> HIDE DEF next
<1>2. /\ Len(rows) \in Nat /\ DOMAIN rows = 1..Len(rows) /\ i \in 1..Len(rows)
      /\ DOMAIN next = 1..(Len(rows) - 1)
  BY <1>1
<1>3. ASSUME NEW j \in KeptOps(next)
      PROVE  m[j] \in KeptOps(rows) /\ next[j] = rows[m[j]]
  BY <1>1, <1>2 DEF KeptOps
<1>4. ASSUME NEW k \in KeptOps(rows) PROVE \E j \in KeptOps(next) : m[j] = k
  <2>1. k \in 1..Len(rows) /\ k # i /\ ~OpIsEmpty(rows[k])
    BY <1>2 DEF KeptOps
  <2>2. CASE k < i
    <3>1. k \in DOMAIN next /\ next[k] = rows[k]
      BY <2>1, <2>2, <1>1, <1>2
    <3>2. k \in KeptOps(next)
      BY <3>1, <2>1 DEF KeptOps
    <3> QED BY <3>2, <2>2
  <2>3. CASE ~(k < i)
    <3>1. k - 1 \in DOMAIN next /\ ~(k - 1 < i) /\ (k - 1) + 1 = k
      BY <2>1, <2>3, <1>2
    <3>2. next[k - 1] = rows[k]
      BY <3>1, <1>1
    <3>3. k - 1 \in KeptOps(next)
      BY <3>1, <3>2, <2>1 DEF KeptOps
    <3> QED BY <3>1, <3>3
  <2> QED BY <2>2, <2>3
<1>5. m \in [KeptOps(next) -> KeptOps(rows)]
  BY <1>3
<1>6. \A j, k \in KeptOps(next) : j < k => m[j] < m[k]
  <2>1. KeptOps(next) \subseteq 1..(Len(rows) - 1)
    BY <1>2 DEF KeptOps
  <2> QED BY <2>1, <1>2
<1> HIDE DEF m
<1>7. PostOps(next) = PostOps(rows)
  BY <1>1, <1>3, <1>4, <1>5, <1>6, PostOpsSame
<1> QED BY <1>7 DEF next

\* The table that is filled with operations is read as these operations.
LEMMA PostOpsOfOps ==
  ASSUME NEW d \in Seq(OpDrafts)
  PROVE  /\ OpsOf(d) \in Seq(OpRows) /\ OpsOf(d) # <<>> /\ OpIsEmpty(Last(OpsOf(d)))
         /\ PostOps(OpsOf(d)) = d
<1> DEFINE filled == [i \in DOMAIN d |-> [d[i] EXCEPT !.test = IF d[i].assert THEN @ ELSE "Equals"]]
           rows == Append(filled, EmptyOp)
           n == Len(d)
           seq == [i \in DOMAIN rows |-> OpDraft(rows[i])]
<1>1. n \in Nat /\ DOMAIN d = 1..n /\ \A i \in 1..n : d[i] \in OpDrafts
  OBVIOUS
<1>2. ASSUME NEW i \in 1..n
      PROVE  filled[i] \in OpRows /\ ~OpIsEmpty(filled[i]) /\ OpDraft(filled[i]) = d[i]
  <2>1. PICK r \in OpRows : ~OpIsEmpty(r) /\ d[i] = OpDraft(r)
    BY <1>1 DEF OpDrafts
  <2> DEFINE q == [on |-> r.on, assert |-> r.assert, named |-> r.named,
                   test |-> IF r.assert THEN r.test ELSE "Equals", a |-> TextA(r), b |-> TextB(r)]
  <2>2. filled[i] = q
    BY <1>1, <2>1 DEF OpDraft
  <2>3. q \in OpRows
    BY <2>1 DEF OpRows, TextA, TextB, Inputs
  <2>4. TextA(q) = TextA(r) /\ TextB(q) = TextB(r)
    BY <2>1 DEF TextA, TextB
  <2>5. ~OpIsEmpty(q) /\ OpDraft(q) = OpDraft(r)
    <3>1. /\ q.on = r.on /\ q.assert = r.assert /\ q.named = r.named
          /\ (r.assert => q.test = r.test)
      OBVIOUS
    <3> HIDE DEF q
    <3>2. ~OpIsEmpty(q)
      BY <2>1, <2>4 DEF OpIsEmpty
    <3>3. r.assert \in BOOLEAN
      BY <2>1 DEF OpRows
    <3>4. (IF q.assert THEN q.test ELSE NoFile) = (IF r.assert THEN r.test ELSE NoFile)
      BY <3>1, <3>3
    <3>5. OpDraft(q) = OpDraft(r)
      BY <2>4, <3>1, <3>4 DEF OpDraft
    <3> QED BY <3>2, <3>5
  <2> HIDE DEF q, filled
  <2> QED BY <2>1, <2>2, <2>3, <2>5
<1>3. OpsOf(d) = rows
  BY DEF OpsOf
<1>4. filled \in [1..n -> OpRows]
  <2>1. filled = [i \in 1..n |-> filled[i]]
    BY <1>1
  <2> HIDE DEF filled
  <2> QED BY <1>2, <2>1
<1> HIDE DEF filled
<1>5. filled \in Seq(OpRows) /\ Len(filled) = n
  BY <1>1, <1>4
<1>6. EmptyOp \in OpRows /\ OpIsEmpty(EmptyOp)
  BY EmptyRows
<1>7. /\ rows \in Seq(OpRows) /\ Len(rows) = n + 1 /\ rows[n + 1] = EmptyOp
      /\ \A i \in 1..n : rows[i] = filled[i]
  BY <1>1, <1>4, <1>5, <1>6
<1> HIDE DEF rows
<1>8. DOMAIN rows = 1..(n + 1) /\ rows # <<>> /\ Last(rows) = EmptyOp
  BY <1>1, <1>7 DEF Last
<1>9. KeptOps(rows) = 1..n
  BY <1>1, <1>2, <1>6, <1>7, <1>8 DEF KeptOps
<1>10. InOrder(1..n) = [i \in 1..n |-> i]
  BY <1>1, InOrderAll
<1>11. PostOps(rows) = Picked(seq, KeptOps(rows))
  BY DEF PostOps, KeptOps
<1>12. \A i \in 1..n : seq[i] = d[i]
  BY <1>1, <1>2, <1>7, <1>8
<1> HIDE DEF seq
<1>13. PostOps(rows) = [i \in 1..n |-> d[i]]
  BY <1>9, <1>10, <1>11, <1>12 DEF Picked
<1>14. PostOps(rows) = d
  BY <1>1, <1>13
<1> QED BY <1>3, <1>6, <1>7, <1>8, <1>14

\* The form-data table that is filled with fields is read as these fields.
LEMMA FormFieldsOfFields ==
  ASSUME NEW d \in Seq(FieldDrafts)
  PROVE  /\ FieldsOf(d) \in Seq(FieldRows)
         /\ \A i \in DOMAIN FieldsOf(d) : FieldsOf(d)[i].size = NoFile
         /\ FormFields(FieldsOf(d)) = d
<1> DEFINE filled == [i \in DOMAIN d |->
                        IF d[i].kind = "Text"
                        THEN [FieldRow(d[i].key, d[i].value) EXCEPT !.on = d[i].on]
                        ELSE [FieldRow(d[i].key, "") EXCEPT !.on = d[i].on, !.kind = "File",
                                                            !.file = d[i].value]]
           rows == Append(filled, EmptyField)
           n == Len(d)
           seq == [i \in DOMAIN rows |-> FieldDraft(rows[i])]
<1>1. n \in Nat /\ DOMAIN d = 1..n /\ \A i \in 1..n : d[i] \in FieldDrafts
  OBVIOUS
<1>2. ASSUME NEW i \in 1..n
      PROVE  /\ filled[i] \in FieldRows /\ ~FieldIsEmpty(filled[i])
             /\ FieldDraft(filled[i]) = d[i] /\ filled[i].size = NoFile
  <2>1. PICK r \in FieldRows : ~FieldIsEmpty(r) /\ d[i] = FieldDraft(r)
    BY <1>1 DEF FieldDrafts
  <2>2. /\ d[i].key = r.key /\ d[i].on = r.on /\ d[i].kind = r.kind
        /\ d[i].value = IF r.kind = "Text" THEN r.text ELSE r.file
    BY <2>1 DEF FieldDraft
  <2>3. CASE r.kind = "Text"
    <3> DEFINE q == [key |-> r.key, text |-> r.text, on |-> r.on, kind |-> "Text",
                     file |-> NoFile, size |-> NoFile]
    <3>1. filled[i] = q
      BY <1>1, <2>2, <2>3 DEF FieldRow
    <3>2. q \in FieldRows
      BY <2>1 DEF FieldRows
    <3>3. ~FieldIsEmpty(q) /\ FieldDraft(q) = FieldDraft(r) /\ q.size = NoFile
      BY <2>1, <2>3 DEF FieldIsEmpty, FieldDraft
    <3> HIDE DEF q, filled
    <3> QED BY <2>1, <3>1, <3>2, <3>3
  <2>4. CASE r.kind # "Text"
    <3> DEFINE q == [key |-> r.key, text |-> "", on |-> r.on, kind |-> "File",
                     file |-> r.file, size |-> NoFile]
    <3>1. filled[i] = q
      BY <1>1, <2>2, <2>4 DEF FieldRow
    <3>2. q \in FieldRows /\ r.kind = "File"
      BY <2>1, <2>4 DEF FieldRows, Inputs
    <3>3. ~FieldIsEmpty(q) /\ FieldDraft(q) = FieldDraft(r) /\ q.size = NoFile
      BY <2>1, <2>4, <3>2 DEF FieldIsEmpty, FieldDraft
    <3> HIDE DEF q, filled
    <3> QED BY <2>1, <3>1, <3>2, <3>3
  <2> QED BY <2>3, <2>4
<1>3. FieldsOf(d) = rows
  BY DEF FieldsOf
<1>4. filled \in [1..n -> FieldRows]
  <2>1. filled = [i \in 1..n |-> filled[i]]
    BY <1>1
  <2> HIDE DEF filled
  <2> QED BY <1>2, <2>1
<1> HIDE DEF filled
<1>5. filled \in Seq(FieldRows) /\ Len(filled) = n
  BY <1>1, <1>4
<1>6. EmptyField \in FieldRows /\ FieldIsEmpty(EmptyField) /\ EmptyField.size = NoFile
  BY EmptyRows
<1>7. /\ rows \in Seq(FieldRows) /\ Len(rows) = n + 1 /\ rows[n + 1] = EmptyField
      /\ \A i \in 1..n : rows[i] = filled[i]
  BY <1>1, <1>4, <1>5, <1>6
<1> HIDE DEF rows
<1>8. DOMAIN rows = 1..(n + 1)
  BY <1>1, <1>7
<1>9. {i \in DOMAIN rows : ~FieldIsEmpty(rows[i])} = 1..n
  BY <1>1, <1>2, <1>6, <1>7, <1>8
<1>10. InOrder(1..n) = [i \in 1..n |-> i]
  BY <1>1, InOrderAll
<1>11. FormFields(rows) = Picked(seq, 1..n)
  BY <1>9 DEF FormFields
<1>12. \A i \in 1..n : seq[i] = d[i]
  BY <1>1, <1>2, <1>7, <1>8
<1> HIDE DEF seq
<1>13. FormFields(rows) = [i \in 1..n |-> d[i]]
  BY <1>10, <1>11, <1>12 DEF Picked
<1>14. FormFields(rows) = d
  BY <1>1, <1>13
<1>15. \A i \in DOMAIN rows : rows[i].size = NoFile
  BY <1>1, <1>2, <1>6, <1>7, <1>8
<1> QED BY <1>3, <1>7, <1>14, <1>15

-----------------------------------------------------------------------------
(* The editor's inductive invariant *)

\* The rows of the path parameters are those of the URL, which names none twice.
PathsFit ==
  /\ Len(pathRows) = Len(url)
  /\ \A i \in DOMAIN url : pathRows[i].name = url[i]
  /\ \A i, j \in DOMAIN url : url[i] = url[j] => i = j

EInv == EditorTypeOK /\ OpsEndEmpty /\ RowSizeBelongs /\ PathsFit /\ CleanMeansSame

\* The rows of a form-data table that shows the sizes of their files.
FieldsFit(rows) ==
  rows \in Seq(FieldRows) /\ \A i \in DOMAIN rows : rows[i].size \in {NoFile, rows[i].file}

\* One row of it may become another.
LEMMA FieldReplaced ==
  ASSUME NEW rows, FieldsFit(rows), NEW i \in DOMAIN rows,
         NEW r \in FieldRows, r.size \in {NoFile, r.file},
         NEW out, out = [rows EXCEPT ![i] = r]
  PROVE  FieldsFit(out)
<1>1. rows \in Seq(FieldRows) /\ \A j \in DOMAIN rows : rows[j].size \in {NoFile, rows[j].file}
  BY DEF FieldsFit
<1>2. out \in Seq(FieldRows) /\ DOMAIN out = DOMAIN rows
  BY <1>1
<1>3. \A j \in DOMAIN rows : out[j] = IF j = i THEN r ELSE rows[j]
  BY <1>1
<1>4. \A j \in DOMAIN out : out[j].size \in {NoFile, out[j].file}
  BY <1>1, <1>2, <1>3
<1> QED BY <1>2, <1>4 DEF FieldsFit

\* It may be closed, and a row removed.
LEMMA FieldsClosedFit ==
  ASSUME NEW rows, FieldsFit(rows)
  PROVE  FieldsFit(FieldsClosed(rows))
<1> DEFINE out == FieldsClosed(rows)
<1>1. rows \in Seq(FieldRows) /\ \A j \in DOMAIN rows : rows[j].size \in {NoFile, rows[j].file}
  BY DEF FieldsFit
<1>2. /\ out \in Seq(FieldRows)
      /\ \A i \in DOMAIN out : out[i] = EmptyField \/ (i \in DOMAIN rows /\ out[i] = rows[i])
  BY <1>1, FieldsClosedIs
<1> HIDE DEF out
<1>3. \A i \in DOMAIN out : out[i].size \in {NoFile, out[i].file}
  BY <1>1, <1>2, EmptyRows
<1> QED BY <1>2, <1>3 DEF FieldsFit, out

LEMMA FieldRemovedFit ==
  ASSUME NEW rows, FieldsFit(rows), NEW i \in DOMAIN rows
  PROVE  FieldsFit(RemoveAt(rows, i))
<1> DEFINE out == RemoveAt(rows, i)
<1>1. rows \in Seq(FieldRows) /\ \A j \in DOMAIN rows : rows[j].size \in {NoFile, rows[j].file}
  BY DEF FieldsFit
<1>2. /\ out \in Seq(FieldRows)
      /\ \A k \in DOMAIN out : /\ k \in DOMAIN rows /\ k + 1 \in DOMAIN rows
                               /\ out[k] = IF k < i THEN rows[k] ELSE rows[k + 1]
  BY <1>1, RemovedIs
<1> HIDE DEF out
<1>3. \A k \in DOMAIN out : out[k].size \in {NoFile, out[k].file}
  BY <1>1, <1>2
<1> QED BY <1>2, <1>3 DEF FieldsFit, out

\* An edit of the form-data table that marks the tab keeps the invariant.
LEMMA FieldsMarked ==
  ASSUME EInv, Changed, FieldsFit(fields'), UNCHANGED <<url, pathRows, opRows, body>>,
         fileDialog' \in (Nat \ {0}) \cup {NoFile}, reads' \subseteq Files
  PROVE  EInv'
<1>1. marked' = TRUE /\ loaded' = NoFile
  BY DEF EInv, EditorTypeOK, Changed, Marked
<1>2. EditorTypeOK'
  BY <1>1 DEF EInv, EditorTypeOK, FieldsFit
<1>3. OpsEndEmpty'
  BY DEF EInv, OpsEndEmpty
<1>4. RowSizeBelongs'
  BY DEF FieldsFit, RowSizeBelongs
<1>5. PathsFit'
  BY DEF EInv, PathsFit
<1>6. CleanMeansSame'
  BY <1>1 DEF CleanMeansSame
<1> QED BY <1>2, <1>3, <1>4, <1>5, <1>6 DEF EInv

LEMMA TypeFieldKeeps ==
  ASSUME EInv, NEW i \in DOMAIN fields, NEW key \in Inputs, NEW text \in Inputs, TypeField(i, key, text)
  PROVE  EInv'
<1> DEFINE r == [fields[i] EXCEPT !.key = key, !.text = text]
           out == [fields EXCEPT ![i] = r]
<1>1. FieldsFit(fields) /\ fields[i] \in FieldRows /\ fields[i].size \in {NoFile, fields[i].file}
  BY DEF EInv, EditorTypeOK, RowSizeBelongs, FieldsFit
<1>2. r \in FieldRows /\ r.size \in {NoFile, r.file}
  BY <1>1 DEF FieldRows
<1>3. fields' = FieldsClosed(out)
  BY DEF TypeField
<1> HIDE DEF r
<1>4. FieldsFit(out)
  BY <1>1, <1>2, FieldReplaced
<1> HIDE DEF out
<1>5. FieldsFit(fields')
  BY <1>3, <1>4, FieldsClosedFit
<1> QED BY <1>5, FieldsMarked DEF TypeField, FieldsOnly, EInv, EditorTypeOK

LEMMA ToggleFieldKeeps ==
  ASSUME EInv, NEW i \in DOMAIN fields, ToggleField(i)
  PROVE  EInv'
<1> DEFINE r == [fields[i] EXCEPT !.on = ~fields[i].on]
           out == [fields EXCEPT ![i] = r]
<1>1. FieldsFit(fields) /\ fields[i] \in FieldRows /\ fields[i].size \in {NoFile, fields[i].file}
  BY DEF EInv, EditorTypeOK, RowSizeBelongs, FieldsFit
<1>2. r \in FieldRows /\ r.size \in {NoFile, r.file}
  BY <1>1 DEF FieldRows
<1>3. fields' = out
  BY DEF ToggleField
<1> HIDE DEF r
<1>4. FieldsFit(out)
  BY <1>1, <1>2, FieldReplaced
<1> HIDE DEF out
<1>5. FieldsFit(fields')
  BY <1>3, <1>4
<1> QED BY <1>5, FieldsMarked DEF ToggleField, FieldsOnly, EInv, EditorTypeOK

LEMMA RemoveFieldKeeps ==
  ASSUME EInv, NEW i \in DOMAIN fields, RemoveField(i)
  PROVE  EInv'
<1>1. FieldsFit(fields)
  BY DEF EInv, EditorTypeOK, RowSizeBelongs, FieldsFit
<1>2. FieldsFit(fields')
  BY <1>1, FieldRemovedFit, FieldsClosedFit DEF RemoveField
<1> QED BY <1>2, FieldsMarked DEF RemoveField, FieldsOnly, EInv, EditorTypeOK

LEMMA SetFieldKindKeeps ==
  ASSUME EInv, NEW i \in DOMAIN fields, NEW kind \in {"Text", "File"}, SetFieldKind(i, kind)
  PROVE  EInv'
<1> DEFINE r == [fields[i] EXCEPT !.kind = kind, !.file = IF kind = "Text" THEN NoFile ELSE fields[i].file,
                                  !.size = IF kind = "Text" THEN NoFile ELSE fields[i].size]
           out == [fields EXCEPT ![i] = r]
<1>1. FieldsFit(fields) /\ fields[i] \in FieldRows /\ fields[i].size \in {NoFile, fields[i].file}
  BY DEF EInv, EditorTypeOK, RowSizeBelongs, FieldsFit
<1>2. r \in FieldRows /\ r.size \in {NoFile, r.file}
  BY <1>1 DEF FieldRows
<1>3. fields' = out
  BY DEF SetFieldKind
<1> HIDE DEF r
<1>4. FieldsFit(out)
  BY <1>1, <1>2, FieldReplaced
<1> HIDE DEF out
<1>5. FieldsFit(fields')
  BY <1>3, <1>4
<1> QED BY <1>5, FieldsMarked DEF SetFieldKind, FieldsOnly, EInv, EditorTypeOK

\* The file goes to the row with the number that the dialog was opened for.
LEMMA RowFileChosenKeeps ==
  ASSUME EInv, NEW p \in Files, RowFileChosen(p)
  PROVE  EInv'
<1>1. CASE fileDialog \in DOMAIN fields
  <2> DEFINE i == fileDialog
             r == [fields[i] EXCEPT !.kind = "File", !.file = p, !.size = NoFile]
             out == [fields EXCEPT ![i] = r]
  <2>1. FieldsFit(fields) /\ fields[i] \in FieldRows /\ i \in DOMAIN fields
    BY <1>1 DEF EInv, EditorTypeOK, RowSizeBelongs, FieldsFit
  <2>2. r \in FieldRows /\ r.size \in {NoFile, r.file}
    BY <2>1 DEF FieldRows
  <2>3. fields' = FieldsClosed(out)
    BY <1>1 DEF RowFileChosen
  <2> HIDE DEF r
  <2>4. FieldsFit(out)
    BY <2>1, <2>2, FieldReplaced
  <2> HIDE DEF out
  <2>5. FieldsFit(fields')
    BY <2>3, <2>4, FieldsClosedFit
  <2> QED BY <1>1, <2>5, FieldsMarked DEF RowFileChosen, EInv, EditorTypeOK
<1>2. CASE ~(fileDialog \in DOMAIN fields)
  <2>1. UNCHANGED <<part, fields, url, pathRows, opRows, body, loaded, marked, reads>> /\ fileDialog' = NoFile
    BY <1>2 DEF RowFileChosen
  <2> QED BY <2>1 DEF EInv, EditorTypeOK, OpsEndEmpty, RowSizeBelongs, PathsFit, CleanMeansSame, EditorDraft
<1> QED BY <1>1, <1>2

\* Opening and dismissing the dialog changes nothing else.
LEMMA DialogKeeps ==
  ASSUME EInv, (\E i \in DOMAIN fields : ChooseRowFile(i)) \/ DialogDismissed
  PROVE  EInv'
<1>1. /\ UNCHANGED <<part, fields, url, pathRows, opRows, body, loaded, marked, reads>>
      /\ fileDialog' \in (Nat \ {0}) \cup {NoFile}
  <2>1. DOMAIN fields \subseteq Nat \ {0}
    BY DEF EInv, EditorTypeOK
  <2> QED BY <2>1 DEF ChooseRowFile, DialogDismissed
<1> QED BY <1>1 DEF EInv, EditorTypeOK, OpsEndEmpty, RowSizeBelongs, PathsFit, CleanMeansSame, EditorDraft

\* A size goes to rows that hold the file, and no size is read from the table.
LEMMA RowSizeReadKeeps ==
  ASSUME EInv, NEW p \in Files, RowSizeRead(p)
  PROVE  EInv'
<1>1. /\ fields \in Seq(FieldRows)
      /\ \A i \in DOMAIN fields : fields[i] \in FieldRows /\ fields[i].size \in {NoFile, fields[i].file}
  BY DEF EInv, EditorTypeOK, RowSizeBelongs
<1>2. /\ DOMAIN fields' = DOMAIN fields
      /\ \A i \in DOMAIN fields :
            fields'[i] = IF fields[i].file = p THEN [fields[i] EXCEPT !.size = p] ELSE fields[i]
  BY DEF RowSizeRead
<1>3. ASSUME NEW i \in DOMAIN fields
      PROVE  /\ fields'[i] \in FieldRows /\ fields'[i].size \in {NoFile, fields'[i].file}
             /\ FieldDraft(fields'[i]) = FieldDraft(fields[i])
             /\ FieldIsEmpty(fields'[i]) = FieldIsEmpty(fields[i])
  <2>1. CASE fields[i].file = p
    <3> DEFINE r == fields[i]
               q == [r EXCEPT !.size = p]
    <3>1. fields'[i] = q /\ r \in FieldRows
      BY <2>1, <1>1, <1>2
    <3>2. q \in FieldRows /\ q.size = p /\ q.file = p
      BY <2>1, <3>1 DEF FieldRows
    <3>3. q.key = r.key /\ q.text = r.text /\ q.on = r.on /\ q.kind = r.kind /\ q.file = r.file
      BY <3>1 DEF FieldRows
    <3> HIDE DEF q, r
    <3>4. FieldDraft(q) = FieldDraft(r) /\ FieldIsEmpty(q) = FieldIsEmpty(r)
      BY <3>3 DEF FieldDraft, FieldIsEmpty
    <3> QED BY <3>1, <3>2, <3>4 DEF r
  <2>2. CASE fields[i].file # p
    BY <2>2, <1>1, <1>2
  <2> QED BY <2>1, <2>2
<1>4. FieldsFit(fields')
  <2>1. Len(fields) \in Nat /\ DOMAIN fields = 1..Len(fields)
    BY <1>1
  <2>2. fields' = [i \in 1..Len(fields) |-> fields'[i]]
    BY <2>1 DEF RowSizeRead
  <2>3. fields' \in [1..Len(fields) -> FieldRows]
    BY <2>1, <2>2, <1>3
  <2>4. fields' \in Seq(FieldRows)
    BY <2>1, <2>3
  <2> QED BY <2>4, <1>2, <1>3 DEF FieldsFit
<1>5. FormFields(fields') = FormFields(fields)
  <2>1. [i \in DOMAIN fields' |-> FieldDraft(fields'[i])] = [i \in DOMAIN fields |-> FieldDraft(fields[i])]
    BY <1>2, <1>3
  <2>2. {i \in DOMAIN fields' : ~FieldIsEmpty(fields'[i])} = {i \in DOMAIN fields : ~FieldIsEmpty(fields[i])}
    BY <1>2, <1>3
  <2> QED BY <2>1, <2>2 DEF FormFields
<1>6. EditorDraft' = EditorDraft
  BY <1>5 DEF RowSizeRead, EditorDraft, DraftOf
<1> QED
  BY <1>4, <1>6 DEF RowSizeRead, FieldsFit, EInv, EditorTypeOK, OpsEndEmpty, RowSizeBelongs, PathsFit, CleanMeansSame

\* An edit of the operations keeps the invariant if it marks the tab or leaves what
\* is read from the table.
LEMMA OpsMarked ==
  ASSUME EInv, NEW changed \in BOOLEAN, Marked(changed), UNCHANGED <<fields, url, pathRows, body, fileDialog, reads>>,
         opRows' \in Seq(OpRows), opRows' # <<>>, OpIsEmpty(Last(opRows')),
         ~changed => PostOps(opRows') = PostOps(opRows)
  PROVE  EInv'
<1>1. EditorTypeOK'
  BY DEF EInv, EditorTypeOK, Marked
<1>2. OpsEndEmpty'
  BY DEF OpsEndEmpty
<1>3. RowSizeBelongs' /\ PathsFit'
  BY DEF EInv, RowSizeBelongs, PathsFit
<1>4. CleanMeansSame'
  <2>1. CASE changed
    BY <2>1 DEF Marked, CleanMeansSame
  <2>2. CASE ~changed
    <3>1. EditorDraft' = EditorDraft
      BY <2>2 DEF EditorDraft, DraftOf
    <3> QED BY <2>2, <3>1 DEF EInv, EditorTypeOK, Marked, CleanMeansSame
  <2> QED BY <2>1, <2>2
<1> QED BY <1>1, <1>2, <1>3, <1>4 DEF EInv

\* A row of operations is written over, and the table closed.
LEMMA OpReplaced ==
  ASSUME EInv, NEW i \in DOMAIN opRows, NEW next \in OpRows, opRows' = OpsClosed([opRows EXCEPT ![i] = next]),
         OpsChanged(i, next)
  PROVE  EInv'
<1> DEFINE out == [opRows EXCEPT ![i] = next]
           changed == ~OpIsEmpty(opRows[i]) \/ ~OpIsEmpty(next)
<1>1. opRows \in Seq(OpRows)
  BY DEF EInv, EditorTypeOK
<1>2. out \in Seq(OpRows) /\ DOMAIN out = DOMAIN opRows /\ \A j \in DOMAIN opRows : out[j] = IF j = i THEN next ELSE opRows[j]
  BY <1>1
<1>3. opRows' = OpsClosed(out)
  OBVIOUS
<1> HIDE DEF out
<1>4. opRows' \in Seq(OpRows) /\ opRows' # <<>> /\ OpIsEmpty(Last(opRows'))
  BY <1>2, <1>3, OpsClosedIs
<1>5. PostOps(opRows') = PostOps(out)
  BY <1>2, <1>3, PostOpsClosed
<1>6. ASSUME ~changed PROVE PostOps(out) = PostOps(opRows)
  <2>1. \A j \in KeptOps(opRows) : j \in DOMAIN out /\ out[j] = opRows[j]
    BY <1>2, <1>6 DEF KeptOps
  <2>2. \A j \in KeptOps(out) : j \in KeptOps(opRows)
    BY <1>2, <1>6 DEF KeptOps
  <2> QED BY <1>1, <1>2, <2>1, <2>2, PostOpsAgree
<1>7. changed \in BOOLEAN /\ Marked(changed) /\ UNCHANGED <<fields, url, pathRows, body, fileDialog, reads>>
  BY DEF OpsChanged
<1> HIDE DEF changed
<1> QED BY <1>4, <1>5, <1>6, <1>7, OpsMarked

LEMMA TypeOpKeeps ==
  ASSUME EInv, NEW i \in DOMAIN opRows, NEW a \in Inputs, NEW b \in Inputs, TypeOp(i, a, b)
  PROVE  EInv'
<1> DEFINE next == [opRows[i] EXCEPT !.a = a, !.b = b]
<1>1. opRows[i] \in OpRows
  BY DEF EInv, EditorTypeOK
<1>2. next \in OpRows
  BY <1>1 DEF OpRows
<1>3. opRows' = OpsClosed([opRows EXCEPT ![i] = next]) /\ OpsChanged(i, next)
  BY DEF TypeOp
<1> HIDE DEF next
<1> QED BY <1>2, <1>3, OpReplaced

LEMMA ChooseOpKeeps ==
  ASSUME EInv, NEW i \in DOMAIN opRows, NEW assert \in BOOLEAN, NEW named \in BOOLEAN,
         NEW test \in {"Equals", "Exists"}, ChooseOp(i, assert, named, test)
  PROVE  EInv'
<1> DEFINE next == [opRows[i] EXCEPT !.assert = assert, !.named = named, !.test = test]
<1>1. opRows[i] \in OpRows
  BY DEF EInv, EditorTypeOK
<1>2. next \in OpRows
  BY <1>1 DEF OpRows
<1>3. opRows' = OpsClosed([opRows EXCEPT ![i] = next]) /\ OpsChanged(i, next)
  BY DEF ChooseOp
<1> HIDE DEF next
<1> QED BY <1>2, <1>3, OpReplaced

\* Whether a row counts does not depend on its box.
LEMMA ToggleOpKeeps ==
  ASSUME EInv, NEW i \in DOMAIN opRows, ToggleOp(i)
  PROVE  EInv'
<1> DEFINE next == [opRows[i] EXCEPT !.on = ~opRows[i].on]
           out == [opRows EXCEPT ![i] = next]
           changed == ~OpIsEmpty(opRows[i]) \/ ~OpIsEmpty(opRows[i])
<1>1. opRows \in Seq(OpRows) /\ opRows[i] \in OpRows /\ OpIsEmpty(Last(opRows)) /\ opRows # <<>>
  BY DEF EInv, EditorTypeOK, OpsEndEmpty
<1>2. next \in OpRows /\ (OpIsEmpty(next) <=> OpIsEmpty(opRows[i]))
  BY <1>1 DEF OpRows, OpIsEmpty, TextA, TextB
<1>3. opRows' = out
  BY DEF ToggleOp
<1> HIDE DEF next
<1>4. out \in Seq(OpRows) /\ Len(out) = Len(opRows) /\ DOMAIN out = DOMAIN opRows
      /\ \A j \in DOMAIN opRows : out[j] = IF j = i THEN next ELSE opRows[j]
  BY <1>1, <1>2
<1>5. \A j \in DOMAIN opRows : OpIsEmpty(out[j]) <=> OpIsEmpty(opRows[j])
  BY <1>2, <1>4
<1>6. out # <<>> /\ OpIsEmpty(Last(out))
  <2>1. Len(opRows) \in DOMAIN opRows
    BY <1>1
  <2>2. Last(out) = out[Len(opRows)] /\ Last(opRows) = opRows[Len(opRows)] /\ out # <<>>
    BY <2>1, <1>4 DEF Last
  <2> QED BY <2>1, <2>2, <1>1, <1>5
<1> HIDE DEF out
<1>7. ASSUME ~changed PROVE PostOps(out) = PostOps(opRows)
  <2>1. \A j \in KeptOps(opRows) : j \in DOMAIN out /\ out[j] = opRows[j]
    BY <1>4, <1>7 DEF KeptOps
  <2>2. \A j \in KeptOps(out) : j \in KeptOps(opRows)
    BY <1>4, <1>5 DEF KeptOps
  <2> QED BY <1>1, <1>4, <2>1, <2>2, PostOpsAgree
<1>8. changed \in BOOLEAN /\ Marked(changed) /\ UNCHANGED <<fields, url, pathRows, body, fileDialog, reads>>
  BY DEF ToggleOp, OpsChanged
<1> HIDE DEF changed
<1> QED BY <1>3, <1>4, <1>6, <1>7, <1>8, OpsMarked

LEMMA RemoveOpKeeps ==
  ASSUME EInv, NEW i \in DOMAIN opRows, RemoveOp(i)
  PROVE  EInv'
<1> DEFINE out == RemoveAt(opRows, i)
           changed == ~OpIsEmpty(opRows[i]) \/ ~OpIsEmpty(opRows[i])
<1>1. opRows \in Seq(OpRows)
  BY DEF EInv, EditorTypeOK
<1>2. out \in Seq(OpRows)
  BY <1>1, RemovedIs
<1>3. opRows' = OpsClosed(out)
  BY DEF RemoveOp
<1>4. ~changed => PostOps(out) = PostOps(opRows)
  BY <1>1, PostOpsRemoved
<1> HIDE DEF out
<1>5. opRows' \in Seq(OpRows) /\ opRows' # <<>> /\ OpIsEmpty(Last(opRows'))
  BY <1>2, <1>3, OpsClosedIs
<1>6. PostOps(opRows') = PostOps(out)
  BY <1>2, <1>3, PostOpsClosed
<1>7. changed \in BOOLEAN /\ Marked(changed) /\ UNCHANGED <<fields, url, pathRows, body, fileDialog, reads>>
  BY DEF RemoveOp, OpsChanged
<1> HIDE DEF changed
<1> QED BY <1>4, <1>5, <1>6, <1>7, OpsMarked

\* The table that is built anew holds the operations that were read from it.
LEMMA RefreshLocaleKeeps ==
  ASSUME EInv, RefreshLocale
  PROVE  EInv'
<1> DEFINE d == PostOps(opRows)
<1>1. d \in Seq(OpDrafts) /\ opRows' = OpsOf(d)
  BY PostOpsTyped DEF EInv, EditorTypeOK, RefreshLocale
<1>2. PostOps(opRows) = d
  OBVIOUS
<1> HIDE DEF d
<1>3. /\ opRows' \in Seq(OpRows) /\ opRows' # <<>> /\ OpIsEmpty(Last(opRows'))
      /\ PostOps(opRows') = PostOps(opRows)
  BY <1>1, <1>2, PostOpsOfOps
<1>4. Marked(FALSE) /\ UNCHANGED <<fields, url, pathRows, body, fileDialog, reads>>
  BY DEF RefreshLocale, Marked, EInv, EditorTypeOK
<1> QED BY <1>3, <1>4, OpsMarked

\* The rows follow the URL, and those of names that stay keep their values.
LEMMA SyncedIs ==
  ASSUME NEW rows \in Seq(PathRows), NEW names \in Seq(Names), NEW out, out = Synced(rows, names)
  PROVE  /\ out \in Seq(PathRows) /\ Len(out) = Len(names)
         /\ \A i \in DOMAIN names : out[i].name = names[i]
         /\ \A i \in DOMAIN rows, j \in DOMAIN names :
               /\ rows[i].name = names[j]
               /\ \A k \in DOMAIN rows : rows[k].name = names[j] => k = i
               => out[j].value = rows[i].value
<1> DEFINE at(j) == SelectInSeq(rows, LAMBDA r : r.name = names[j])
           row(j) == [name |-> names[j], value |-> IF at(j) = 0 THEN "" ELSE rows[at(j)].value]
<1>1. /\ Len(rows) \in Nat /\ DOMAIN rows = 1..Len(rows)
      /\ Len(names) \in Nat /\ DOMAIN names = 1..Len(names)
      /\ \A i \in DOMAIN rows : rows[i] \in PathRows
      /\ \A j \in DOMAIN names : names[j] \in Names
  OBVIOUS
<1>2. ASSUME NEW j \in DOMAIN names
      PROVE  \/ at(j) = 0 /\ \A k \in DOMAIN rows : rows[k].name # names[j]
             \/ at(j) \in DOMAIN rows /\ rows[at(j)].name = names[j]
  <2> DEFINE I == {k \in 1..Len(rows) : rows[k].name = names[j]}
  <2>1. at(j) = IF I # {} THEN Min(I) ELSE 0
    BY DEF SelectInSeq
  <2>2. CASE I = {}
    BY <2>1, <2>2, <1>1
  <2>3. CASE I # {}
    <3>1. I \in SUBSET Nat
      OBVIOUS
    <3>2. \E x \in I : \A y \in I : x <= y
      <4> HIDE DEF I
      <4> QED BY <2>3, <3>1, Least
    <3>3. Min(I) \in I
      BY <3>2 DEF Min
    <3> QED BY <2>1, <2>3, <3>3, <1>1
  <2> QED BY <2>2, <2>3
<1>3. out = [j \in DOMAIN names |-> row(j)]
  BY DEF Synced
<1> HIDE DEF at
<1>4. \A j \in DOMAIN names : row(j) \in PathRows
  BY <1>1, <1>2 DEF PathRows, Inputs
<1>5. \A j \in DOMAIN names : out[j] = row(j)
  BY <1>3
<1>6. out \in Seq(PathRows) /\ Len(out) = Len(names)
  <2> HIDE DEF row
  <2>1. out \in [1..Len(names) -> PathRows]
    BY <1>1, <1>3, <1>4
  <2> QED BY <2>1, <1>1
<1>7. ASSUME NEW i \in DOMAIN rows, NEW j \in DOMAIN names, rows[i].name = names[j],
             \A k \in DOMAIN rows : rows[k].name = names[j] => k = i
      PROVE  out[j].value = rows[i].value
  <2>1. at(j) = i /\ i # 0
    BY <1>1, <1>2, <1>7
  <2>2. row(j).value = rows[i].value
    BY <2>1
  <2> HIDE DEF row
  <2> QED BY <2>2, <1>5
<1>8. ASSUME NEW j \in DOMAIN names PROVE out[j].name = names[j]
  <2>1. row(j).name = names[j]
    OBVIOUS
  <2> HIDE DEF row
  <2> QED BY <2>1, <1>5
<1> HIDE DEF row
<1> QED BY <1>6, <1>7, <1>8

\* The lists of names that a URL can have.
LEMMA UrlsTyped ==
  ASSUME NEW names \in Urls
  PROVE  names \in Seq(Names) /\ \A i, j \in DOMAIN names : names[i] = names[j] => i = j
<1>1. \/ names = <<>>
      \/ \E m \in Names : names = <<m>>
      \/ \E m, n \in Names : names = <<m, n>>
  BY DEF Urls, NameLists
<1>2. CASE names = <<>>
  BY <1>2
<1>3. ASSUME NEW m \in Names, names = <<m>> PROVE names \in Seq(Names)
  BY <1>3
<1>4. ASSUME NEW m \in Names, NEW n \in Names, names = <<m, n>> PROVE names \in Seq(Names)
  BY <1>4
<1> QED BY <1>1, <1>2, <1>3, <1>4 DEF Urls

LEMMA TypeUrlKeeps ==
  ASSUME EInv, NEW names \in Urls, TypeUrl(names)
  PROVE  EInv'
<1>1. url' \in Seq(Names) /\ url' = names /\ \A i, j \in DOMAIN names : names[i] = names[j] => i = j
  BY UrlsTyped DEF TypeUrl
<1>2. /\ pathRows' \in Seq(PathRows) /\ Len(pathRows') = Len(url')
      /\ \A i \in DOMAIN url' : pathRows'[i].name = url'[i]
  BY <1>1, SyncedIs DEF TypeUrl, EInv, EditorTypeOK
<1>3. marked' = TRUE /\ loaded' = NoFile /\ UNCHANGED <<fields, opRows, body, fileDialog, reads>>
  BY DEF TypeUrl, Changed, Marked, EInv, EditorTypeOK
<1>4. EditorTypeOK'
  BY <1>1, <1>2, <1>3 DEF EInv, EditorTypeOK
<1>5. OpsEndEmpty' /\ RowSizeBelongs'
  BY <1>3 DEF EInv, OpsEndEmpty, RowSizeBelongs
<1>6. PathsFit'
  BY <1>1, <1>2 DEF PathsFit
<1>7. CleanMeansSame'
  BY <1>3 DEF CleanMeansSame
<1> QED BY <1>4, <1>5, <1>6, <1>7 DEF EInv

LEMMA TypePathKeeps ==
  ASSUME EInv, NEW i \in DOMAIN pathRows, NEW value \in Inputs, TypePath(i, value)
  PROVE  EInv'
<1> DEFINE r == [pathRows[i] EXCEPT !.value = value]
           out == [pathRows EXCEPT ![i] = r]
<1>1. pathRows \in Seq(PathRows) /\ pathRows[i] \in PathRows
  BY DEF EInv, EditorTypeOK
<1>2. r \in PathRows /\ r.name = pathRows[i].name
  BY <1>1 DEF PathRows
<1>3. pathRows' = out
  BY DEF TypePath
<1> HIDE DEF r
<1>4. /\ out \in Seq(PathRows) /\ Len(out) = Len(pathRows) /\ DOMAIN out = DOMAIN pathRows
      /\ \A j \in DOMAIN out : out[j].name = pathRows[j].name
  BY <1>1, <1>2
<1> HIDE DEF out
<1>5. marked' = TRUE /\ loaded' = NoFile /\ UNCHANGED <<fields, url, opRows, body, fileDialog, reads>>
  BY DEF TypePath, Changed, Marked, EInv, EditorTypeOK
<1>6. EditorTypeOK'
  BY <1>3, <1>4, <1>5 DEF EInv, EditorTypeOK
<1>7. OpsEndEmpty' /\ RowSizeBelongs'
  BY <1>5 DEF EInv, OpsEndEmpty, RowSizeBelongs
<1>8. PathsFit'
  <2>1. DOMAIN url = DOMAIN pathRows
    BY <1>1 DEF EInv, EditorTypeOK, PathsFit
  <2> QED BY <2>1, <1>3, <1>4, <1>5 DEF EInv, PathsFit
<1>9. CleanMeansSame'
  BY <1>5 DEF CleanMeansSame
<1> QED BY <1>6, <1>7, <1>8, <1>9 DEF EInv

\* The file of a binary body: only a choice marks the tab, and the size is not read.
LEMMA FileKeeps ==
  ASSUME EInv, ClearFile \/ \E p \in Files : FileChosen(p) \/ FileSizeRead(p)
  PROVE  EInv'
<1>1. CASE ClearFile \/ \E p \in Files : FileChosen(p)
  <2>1. marked' = TRUE /\ loaded' = NoFile /\ UNCHANGED <<fields, url, pathRows, opRows, fileDialog, reads>>
    BY <1>1 DEF FileChosen, ClearFile, Changed, Marked, EInv, EditorTypeOK
  <2>2. body' \in [path : Files \cup {NoFile}, size : Files \cup {NoFile}]
    BY <1>1 DEF FileChosen, ClearFile
  <2>3. EditorTypeOK'
    BY <2>1, <2>2 DEF EInv, EditorTypeOK
  <2> QED BY <2>1, <2>3 DEF EInv, OpsEndEmpty, RowSizeBelongs, PathsFit, CleanMeansSame
<1>2. ASSUME NEW p \in Files, FileSizeRead(p) PROVE EInv'
  <2>1. /\ UNCHANGED <<fields, url, pathRows, opRows, loaded, marked, fileDialog>>
        /\ reads' \subseteq Files
        /\ body' = [body EXCEPT !.size = p] /\ body \in [path : Files \cup {NoFile}, size : Files \cup {NoFile}]
    BY <1>2 DEF FileSizeRead, EInv, EditorTypeOK
  <2>2. body' \in [path : Files \cup {NoFile}, size : Files \cup {NoFile}] /\ body'.path = body.path
    BY <2>1
  <2>3. EditorTypeOK'
    BY <2>1, <2>2 DEF EInv, EditorTypeOK
  <2>4. EditorDraft' = EditorDraft
    BY <2>1, <2>2 DEF EditorDraft, DraftOf
  <2> QED BY <2>1, <2>3, <2>4 DEF EInv, OpsEndEmpty, RowSizeBelongs, PathsFit, CleanMeansSame
<1> QED BY <1>1, <1>2

LEMMA EditorSaveKeeps ==
  ASSUME EInv, Save
  PROVE  EInv'
<1>1. /\ UNCHANGED <<fields, url, pathRows, opRows, body, fileDialog, reads>>
      /\ marked' = FALSE /\ loaded' = EditorDraft
  BY DEF Save
<1>2. EditorTypeOK'
  BY <1>1 DEF EInv, EditorTypeOK
<1>3. EditorDraft' = EditorDraft
  BY <1>1 DEF EditorDraft, DraftOf
<1> QED BY <1>1, <1>2, <1>3 DEF EInv, OpsEndEmpty, RowSizeBelongs, PathsFit, CleanMeansSame

-----------------------------------------------------------------------------
(* The editor's theorems *)

LEMMA EditorInitHolds == EditorInit => EInv
<1> SUFFICES ASSUME EditorInit PROVE EInv
  OBVIOUS
<1>1. PICK f \in {<<>>} \cup {<<d>> : d \in FieldDrafts}, u \in Urls, v \in Inputs,
           o \in {<<>>} \cup {<<d>> : d \in OpDrafts}, p \in Files \cup {NoFile} :
        loaded = [fields |-> f, url |-> u, path |-> [i \in DOMAIN u |-> [name |-> u[i], value |-> v]],
                  ops |-> o, file |-> p]
  BY DEF EditorInit
<1>2. /\ loaded.fields = f /\ loaded.url = u /\ loaded.ops = o /\ loaded.file = p
      /\ loaded.path = [i \in DOMAIN u |-> [name |-> u[i], value |-> v]]
  BY <1>1
<1>3. /\ fields = FieldsOf(f) /\ url = u /\ pathRows = loaded.path /\ opRows = OpsOf(o)
      /\ body = [path |-> p, size |-> NoFile]
      /\ reads = ({p} \cup {r.file : r \in Range(fields)}) \ {NoFile}
      /\ marked = FALSE /\ fileDialog = NoFile
  BY <1>2 DEF EditorInit
<1>4. f \in Seq(FieldDrafts)
  <2>1. \A d \in FieldDrafts : <<d>> \in Seq(FieldDrafts)
    OBVIOUS
  <2>2. <<>> \in Seq(FieldDrafts)
    OBVIOUS
  <2> QED BY <2>1, <2>2
<1>5. o \in Seq(OpDrafts)
  <2>1. \A d \in OpDrafts : <<d>> \in Seq(OpDrafts)
    OBVIOUS
  <2>2. <<>> \in Seq(OpDrafts)
    OBVIOUS
  <2> QED BY <2>1, <2>2
<1>6. u \in Seq(Names) /\ \A i, j \in DOMAIN u : u[i] = u[j] => i = j
  BY UrlsTyped
<1>7. /\ fields \in Seq(FieldRows) /\ FormFields(fields) = f
      /\ \A i \in DOMAIN fields : fields[i].size = NoFile
  BY <1>3, <1>4, FormFieldsOfFields
<1>8. opRows \in Seq(OpRows) /\ PostOps(opRows) = o /\ opRows # <<>> /\ OpIsEmpty(Last(opRows))
  BY <1>3, <1>5, PostOpsOfOps
<1>9. /\ pathRows \in Seq(PathRows) /\ Len(pathRows) = Len(u)
      /\ \A i \in DOMAIN u : pathRows[i].name = u[i]
  <2>1. Len(u) \in Nat /\ DOMAIN u = 1..Len(u)
    BY <1>6
  <2>2. \A i \in DOMAIN u : [name |-> u[i], value |-> v] \in PathRows
    BY <1>6 DEF PathRows
  <2>3. pathRows \in [1..Len(u) -> PathRows] /\ \A i \in DOMAIN u : pathRows[i].name = u[i]
    BY <1>2, <1>3, <2>1, <2>2
  <2> QED BY <2>1, <2>3
<1>10. reads \subseteq Files
  <2>1. \A r \in Range(fields) : r \in FieldRows
    BY <1>7 DEF Range
  <2>2. \A r \in Range(fields) : r.file \in Files \cup {NoFile}
    BY <2>1 DEF FieldRows
  <2> QED BY <2>2, <1>3
<1>11. EditorTypeOK
  BY <1>3, <1>6, <1>7, <1>8, <1>9, <1>10 DEF EditorTypeOK
<1>12. OpsEndEmpty /\ RowSizeBelongs
  BY <1>7, <1>8 DEF OpsEndEmpty, RowSizeBelongs
<1>13. PathsFit
  BY <1>3, <1>6, <1>9 DEF PathsFit
<1>14. EditorDraft = loaded
  <2>1. EditorDraft = [fields |-> f, url |-> u, path |-> pathRows, ops |-> o, file |-> p]
    BY <1>3, <1>7, <1>8 DEF EditorDraft, DraftOf, PathDraft
  <2> QED BY <2>1, <1>1, <1>2, <1>3
<1> QED BY <1>11, <1>12, <1>13, <1>14 DEF EInv, CleanMeansSame

LEMMA EditorStepKeeps == EInv /\ [EditorNext]_(editorVars) => EInv'
<1> SUFFICES ASSUME EInv, [EditorNext]_(editorVars) PROVE EInv'
  OBVIOUS
<1>1. ASSUME NEW i \in DOMAIN fields, FieldRowEdits(i) PROVE EInv'
  BY <1>1, TypeFieldKeeps, ToggleFieldKeeps, RemoveFieldKeeps, SetFieldKindKeeps, DialogKeeps DEF FieldRowEdits
<1>2. ASSUME NEW i \in DOMAIN opRows, OpRowEdits(i) PROVE EInv'
  BY <1>2, TypeOpKeeps, ChooseOpKeeps, ToggleOpKeeps, RemoveOpKeeps DEF OpRowEdits
<1>3. ASSUME NEW p \in Files, Answers(p) PROVE EInv'
  BY <1>3, RowFileChosenKeeps, RowSizeReadKeeps, FileKeeps DEF Answers
<1>4. CASE DialogDismissed \/ RefreshLocale \/ ClearFile \/ Save
  BY <1>4, DialogKeeps, RefreshLocaleKeeps, FileKeeps, EditorSaveKeeps
<1>5. ASSUME NEW names \in Urls, TypeUrl(names) PROVE EInv'
  BY <1>5, TypeUrlKeeps
<1>6. ASSUME NEW i \in DOMAIN pathRows, NEW value \in Inputs, TypePath(i, value) PROVE EInv'
  BY <1>6, TypePathKeeps
<1>7. CASE UNCHANGED editorVars
  BY <1>7 DEF editorVars, EInv, EditorTypeOK, OpsEndEmpty, RowSizeBelongs, PathsFit, CleanMeansSame, EditorDraft
<1> QED BY <1>1, <1>2, <1>3, <1>4, <1>5, <1>6, <1>7 DEF EditorNext

\* A tab without the mark holds what it was filled with or saved as
\* (request_tab.rs load_draft, draft, mark_dirty).
THEOREM CleanIsSame == EditorSpec => []CleanMeansSame
<1>1. EInv => CleanMeansSame
  BY DEF EInv
<1> QED BY <1>1, EditorInitHolds, EditorStepKeeps, PTL DEF EditorSpec

\* There is a row of operations to type into, and no row shows the size of a file
\* that is not its own (kv_table.rs refresh_row_file_size, ops_table.rs).
THEOREM RowsStayWhole == EditorSpec => []RowsAreWhole
<1>1. EInv => RowsAreWhole
  BY DEF EInv, RowsAreWhole
<1> QED BY <1>1, EditorInitHolds, EditorStepKeeps, PTL DEF EditorSpec

\* The rows of the path parameters follow the URL, and a name that stays keeps its
\* value (kv_table.rs sync_keys).
THEOREM PathRowsFollow == EditorSpec => PathRowsFollowUrl
<1> DEFINE Step == /\ Len(pathRows') = Len(url')
                   /\ \A i \in DOMAIN url' : pathRows'[i].name = url'[i]
                   /\ url' # url => \A i \in DOMAIN url, j \in DOMAIN url' :
                                      url[i] = url'[j] => pathRows'[j].value = pathRows[i].value
<1>1. ASSUME EInv, EditorNext PROVE Step
  <2>1. PathsFit'
    BY <1>1, EditorStepKeeps DEF EInv
  <2>2. ASSUME url' # url, NEW i \in DOMAIN url, NEW j \in DOMAIN url', url[i] = url'[j]
        PROVE  pathRows'[j].value = pathRows[i].value
    <3>1. PICK names \in Urls : TypeUrl(names)
      BY <1>1, <2>2 DEF EditorNext, FieldRowEdits, OpRowEdits, Answers, TypeField, ToggleField, RemoveField,
                        ChooseRowFile, SetFieldKind, FieldsOnly, TypeOp, ChooseOp, ToggleOp, RemoveOp,
                        OpsChanged, RowFileChosen, RowSizeRead, FileChosen, FileSizeRead,
                        DialogDismissed, RefreshLocale, ClearFile, Save, TypePath
    <3>2. names \in Seq(Names) /\ url' = names /\ pathRows' = Synced(pathRows, names)
      BY <3>1, UrlsTyped DEF TypeUrl
    <3>3. pathRows \in Seq(PathRows) /\ DOMAIN pathRows = DOMAIN url
      BY <1>1 DEF EInv, EditorTypeOK, PathsFit
    <3>4. pathRows[i].name = names[j] /\ \A k \in DOMAIN pathRows : pathRows[k].name = names[j] => k = i
      BY <1>1, <2>2, <3>2, <3>3 DEF EInv, PathsFit
    <3>5. i \in DOMAIN pathRows /\ j \in DOMAIN names
      BY <2>2, <3>2, <3>3
    <3> DEFINE out == Synced(pathRows, names)
    <3>6. names \in Seq(Names) /\ pathRows \in Seq(PathRows)
      BY <3>2, <3>3
    <3>7. \A a \in DOMAIN pathRows, b \in DOMAIN names :
             /\ pathRows[a].name = names[b]
             /\ \A k \in DOMAIN pathRows : pathRows[k].name = names[b] => k = a
             => out[b].value = pathRows[a].value
      BY <3>6, SyncedIs
    <3> HIDE DEF out
    <3>8. out[j].value = pathRows[i].value
      BY <3>4, <3>5, <3>7
    <3>9. pathRows' = out
      BY <3>2 DEF out
    <3> QED BY <3>8, <3>9
  <2> QED BY <2>1, <2>2 DEF PathsFit
<1>2. EInv /\ [EditorNext]_(editorVars) => [Step]_(editorVars)
  BY <1>1
<1> QED BY <1>2, EditorInitHolds, EditorStepKeeps, PTL DEF EditorSpec, PathRowsFollowUrl

=============================================================================
