--------------------------- MODULE VariablesProofs ---------------------------
(***************************************************************************)
(* Proofs about Variables, for any requests, groups, tabs, environments    *)
(* and names and values of variables, and about the date that a variable   *)
(* may hold (Calendar), for every day.                                     *)
(*                                                                         *)
(* The invariant has two halves that the handlers keep side by side: what  *)
(* is stored of the table of variables, with the drawer and the file that  *)
(* follow it, and how requests are organised, with the tabs and the filter *)
(* that follow that.                                                       *)
(***************************************************************************)
EXTENDS Variables, Calendar, FiniteSetTheorems, SequenceTheorems, WellFoundedInduction, TLAPS

-----------------------------------------------------------------------------
(* Numbers in order *)

Below == {p \in Nat \X Nat : p[1] < p[2]}

\* The order of the natural numbers is well founded.
LEMMA BelowFounded == IsWellFoundedOn(Below, Nat)
BY NatLessThanWellFounded, Zenon DEF OpToRel, Below

\* A set of numbers that is not empty has a least one.
LEMMA Least ==
  ASSUME NEW S \in SUBSET Nat, S # {}
  PROVE  \E x \in S : \A y \in S : x <= y
<1>1. PICK x \in S : \A y \in S : ~(<<y, x>> \in Below)
  BY BelowFounded, WFMin
<1>2. ASSUME NEW y \in S PROVE x <= y
  <2>1. y < x => <<y, x>> \in Below
    BY DEF Below
  <2> QED BY <2>1, <1>1
<1> QED BY <1>2

\* If it is bounded, it has a greatest one.
LEMMA Greatest ==
  ASSUME NEW b \in Nat, NEW S \in SUBSET (1..b), S # {}
  PROVE  \E x \in S : \A y \in S : y <= x
<1> DEFINE T == {b - y : y \in S}
<1>1. T \subseteq Nat /\ T # {}
  <2>1. \A y \in S : y \in Nat /\ y <= b
    OBVIOUS
  <2>2. \A y \in S : b - y \in Nat
    BY <2>1
  <2> QED BY <2>2
<1>2. PICK t \in T : \A u \in T : t <= u
  <2> HIDE DEF T
  <2> QED BY <1>1, Least
<1>3. PICK x \in S : t = b - x
  BY <1>2
<1>4. ASSUME NEW y \in S PROVE y <= x
  <2>1. b - y \in T
    OBVIOUS
  <2> QED BY <2>1, <1>2, <1>3
<1> QED BY <1>4

\* A bounded set of numbers is finite, and so is each part of it.
LEMMA BoundedIsFinite ==
  ASSUME NEW b \in Nat, NEW S \in SUBSET (1..b)
  PROVE  IsFiniteSet(S) /\ Cardinality(S) \in Nat /\ Cardinality(S) <= b
<1>1. IsFiniteSet(1..b) /\ Cardinality(1..b) = b
  BY FS_Interval
<1> QED BY <1>1, FS_Subset, FS_CardinalityType

\* Its numbers can be put in order.
LEMMA OrderExists ==
  ASSUME NEW b \in Nat, NEW I \in SUBSET (1..b)
  PROVE  \E seq \in [1..Cardinality(I) -> I] : ToSet(seq) = I /\ Ascending(seq)
<1> DEFINE Ordered(J) == \E seq \in [1..Cardinality(J) -> J] : ToSet(seq) = J /\ Ascending(seq)
<1> DEFINE Bad == {n \in Nat : \E J \in SUBSET (1..b) : Cardinality(J) = n /\ ~Ordered(J)}
<1>1. SUFFICES ASSUME Bad # {} PROVE FALSE
  BY BoundedIsFinite
<1>2. PICK n \in Bad : \A m \in Bad : n <= m
  <2>1. Bad \subseteq Nat
    OBVIOUS
  <2> HIDE DEF Bad
  <2> QED BY <1>1, <2>1, Least
<1>3. PICK J \in SUBSET (1..b) : Cardinality(J) = n /\ ~Ordered(J)
  OBVIOUS
<1>4. IsFiniteSet(J) /\ n \in Nat
  BY <1>3, BoundedIsFinite
<1>5. J # {}
  <2>1. SUFFICES ASSUME J = {} PROVE Ordered(J)
    BY <1>3
  <2>2. Cardinality(J) = 0
    BY <2>1, FS_EmptySet
  <2>3. <<>> \in [1..0 -> J] /\ ToSet(<<>>) = {} /\ Ascending(<<>>)
    BY DEF ToSet, Ascending
  <2> QED BY <2>1, <2>2, <2>3
<1>6. PICK m \in J : \A y \in J : y <= m
  BY <1>5, Greatest
<1> DEFINE K == J \ {m}
<1>7. Cardinality(K) = n - 1 /\ K \in SUBSET (1..b) /\ n - 1 \in Nat
  <2>1. Cardinality(K) = n - 1
    BY <1>3, <1>4, <1>6, FS_RemoveElement
  <2>2. K \in SUBSET (1..b)
    BY <1>3
  <2> HIDE DEF K
  <2> QED BY <2>1, <2>2, BoundedIsFinite
<1>8. Ordered(K)
  <2>1. ~(n - 1 \in Bad)
    <3> HIDE DEF Bad
    <3> QED BY <1>2, <1>4, <1>7
  <2> HIDE DEF K, Ordered
  <2> QED BY <2>1, <1>7
<1>9. PICK seq \in [1..(n - 1) -> K] : ToSet(seq) = K /\ Ascending(seq)
  <2> HIDE DEF K
  <2> QED BY <1>7, <1>8
<1> DEFINE more == [k \in 1..n |-> IF k = n THEN m ELSE seq[k]]
<1>10. more \in [1..n -> J]
  BY <1>4, <1>6, <1>7, <1>9
<1>11. ToSet(more) = J
  <2>1. ASSUME NEW j \in J PROVE \E k \in 1..n : more[k] = j
    <3>1. CASE j = m
      BY <3>1, <1>4, <1>7
    <3>2. CASE j # m
      <4>1. j \in ToSet(seq)
        BY <3>2, <1>9
      <4>2. PICK k \in DOMAIN seq : seq[k] = j
        BY <4>1 DEF ToSet
      <4>3. k \in 1..(n - 1)
        BY <1>9
      <4> QED BY <4>2, <4>3, <1>4
    <3> QED BY <3>1, <3>2
  <2>2. DOMAIN more = 1..n
    OBVIOUS
  <2> HIDE DEF more
  <2> QED BY <2>1, <2>2, <1>10 DEF ToSet
<1>12. Ascending(more)
  <2>1. SUFFICES ASSUME NEW i \in 1..n, NEW j \in 1..n, i < j PROVE more[i] < more[j]
    BY DEF Ascending
  <2>2. i \in 1..(n - 1) /\ more[i] = seq[i]
    BY <2>1, <1>4
  <2>3. CASE j = n
    <3>1. seq[i] \in J /\ seq[i] # m
      BY <2>2, <1>9
    <3>2. more[j] = m
      BY <2>3
    <3>3. seq[i] <= m /\ seq[i] \in Nat /\ m \in Nat
      <4>1. J \subseteq Nat
        BY <1>3
      <4> HIDE DEF Bad, K, more
      <4> QED BY <4>1, <3>1, <1>6
    <3> HIDE DEF more
    <3> QED BY <3>1, <3>2, <3>3, <2>2
  <2>4. CASE j # n
    <3>1. j \in 1..(n - 1) /\ more[j] = seq[j]
      BY <2>1, <2>4, <1>4
    <3>2. seq[i] < seq[j]
      <4>1. DOMAIN seq = 1..(n - 1)
        BY <1>9
      <4> HIDE DEF more
      <4> QED BY <4>1, <3>1, <2>1, <2>2, <1>9 DEF Ascending
    <3> HIDE DEF more
    <3> QED BY <3>1, <3>2, <2>2
  <2> QED BY <2>3, <2>4
<1> QED
  <2> HIDE DEF more
  <2> QED BY <1>3, <1>10, <1>11, <1>12

\* What is picked from a sequence are its elements at those places, in order.
LEMMA PickedIs ==
  ASSUME NEW S, NEW seq \in Seq(S), NEW I \in SUBSET DOMAIN seq, NEW out, out = Picked(seq, I)
  PROVE  /\ out \in Seq(S)
         /\ \A i \in I : \E k \in 1..Len(out) : out[k] = seq[i]
         /\ \A k \in 1..Len(out) : \E i \in I : out[k] = seq[i]
<1>1. Len(seq) \in Nat /\ I \in SUBSET (1..Len(seq)) /\ DOMAIN seq = 1..Len(seq)
  OBVIOUS
<1> DEFINE at == CHOOSE places \in [1..Cardinality(I) -> I] : ToSet(places) = I /\ Ascending(places)
<1>2. at \in [1..Cardinality(I) -> I] /\ ToSet(at) = I /\ Cardinality(I) \in Nat
  BY <1>1, OrderExists, BoundedIsFinite
<1>3. out = [k \in 1..Cardinality(I) |-> seq[at[k]]]
  BY DEF Picked
<1> HIDE DEF at
<1>4. out \in [1..Cardinality(I) -> S]
  BY <1>1, <1>2, <1>3
<1>5. out \in Seq(S) /\ Len(out) = Cardinality(I)
  BY <1>2, <1>4
<1>6. \A k \in 1..Len(out) : \E i \in I : out[k] = seq[i]
  BY <1>2, <1>3, <1>5
<1>7. \A i \in I : \E k \in 1..Len(out) : out[k] = seq[i]
  <2>1. \A i \in I : \E k \in 1..Cardinality(I) : at[k] = i
    BY <1>2 DEF ToSet
  <2>2. \A k \in 1..Cardinality(I) : out[k] = seq[at[k]]
    BY <1>3
  <2> QED BY <2>1, <2>2, <1>5
<1> QED BY <1>5, <1>6, <1>7

\* The least number of a set.
LEMMA MinIs ==
  ASSUME NEW I \in SUBSET Nat, I # {}
  PROVE  Min(I) \in I /\ \A i \in I : Min(I) <= i
BY Least DEF Min

-----------------------------------------------------------------------------
(* The table of variables *)

VarRow == [key : Keys, value : Values, on : BOOLEAN]
Environment == [id : EnvIds, rows : VarRows]
Sets == [globals : VarRows, envs : Seq(Environment), active : EnvIds \cup {None},
         groups : UNION {[D -> VarRows] : D \in SUBSET Names}]

\* Two tables have the same environments, whatever rows these have.
SameEnvs(s, u) ==
  /\ Len(u.envs) = Len(s.envs) /\ \A i \in 1..Len(s.envs) : u.envs[i].id = s.envs[i].id
  /\ u.active = s.active

\* Only groups of G are new.
NewGroups(s, u, G) == DOMAIN u.groups \ DOMAIN s.groups \subseteq G

\* The environments of a table.
LEMMA EnvsAre ==
  ASSUME NEW s \in Sets
  PROVE  /\ s.envs \in Seq(Environment) /\ Len(s.envs) \in Nat
         /\ \A i \in 1..Len(s.envs) : s.envs[i].id \in EnvIds /\ s.envs[i].rows \in VarRows
<1>1. s.envs \in Seq(Environment)
  BY DEF Sets
<1>2. \A i \in 1..Len(s.envs) : s.envs[i] \in Environment
  BY <1>1
<1> QED BY <1>1, <1>2 DEF Environment

\* The groups of a table.
LEMMA GroupsAre ==
  ASSUME NEW s \in Sets
  PROVE  /\ DOMAIN s.groups \subseteq Names /\ s.groups \in [DOMAIN s.groups -> VarRows]
         /\ \A g : GroupVars(s, g) \in VarRows
<1>1. PICK D \in SUBSET Names : s.groups \in [D -> VarRows]
  BY DEF Sets
<1>2. <<>> \in VarRows
  BY DEF VarRows
<1> QED BY <1>1, <1>2 DEF GroupVars

\* The place of an environment.
LEMMA IndexIs ==
  ASSUME NEW s \in Sets, NEW id
  PROVE  /\ EnvIndex(s, id) \in 0..Len(s.envs)
         /\ EnvIndex(s, id) # 0 => s.envs[EnvIndex(s, id)].id = id
         /\ \A i \in 1..Len(s.envs) : s.envs[i].id = id => EnvIndex(s, id) # 0
<1> DEFINE I == {i \in 1..Len(s.envs) : s.envs[i].id = id}
<1>1. EnvIndex(s, id) = IF I # {} THEN Min(I) ELSE 0
  BY DEF EnvIndex, SelectInSeq
<1>2. Len(s.envs) \in Nat /\ I \in SUBSET Nat
  BY DEF Sets
<1>3. CASE I = {}
  BY <1>1, <1>2, <1>3
<1>4. CASE I # {}
  <2>1. Min(I) \in I
    <3> HIDE DEF I
    <3> QED BY <1>2, <1>4, MinIs
  <2>2. EnvIndex(s, id) = Min(I)
    BY <1>1, <1>4
  <2>3. Min(I) \in 1..Len(s.envs) /\ s.envs[Min(I)].id = id
    BY <2>1
  <2> HIDE DEF I
  <2> QED BY <2>2, <2>3, <1>2
<1> QED BY <1>3, <1>4

\* It is the same in a table with the same environments.
LEMMA SameIndex ==
  ASSUME NEW s, NEW u, SameEnvs(s, u), NEW id
  PROVE  EnvIndex(u, id) = EnvIndex(s, id)
<1>1. {i \in 1..Len(s.envs) : s.envs[i].id = id} = {i \in 1..Len(u.envs) : u.envs[i].id = id}
  BY DEF SameEnvs
<1> QED BY <1>1 DEF EnvIndex, SelectInSeq

\* A name that is no environment has no place.
LEMMA NoIndex ==
  ASSUME NEW s \in Sets
  PROVE  EnvIndex(s, None) = 0
BY EnvsAre, IndexIs, ConstantsAssumption

\* The rows of an environment.
LEMMA EnvVarsAre ==
  ASSUME NEW s \in Sets, NEW id
  PROVE  EnvVars(s, id) \in VarRows
<1>1. <<>> \in VarRows
  BY DEF VarRows
<1> QED BY <1>1, EnvsAre, IndexIs DEF EnvVars

-----------------------------------------------------------------------------
(* What changes a table *)

\* A row is written.
LEMMA WrittenIs ==
  ASSUME NEW rows \in VarRows, NEW key \in Keys, NEW value \in Values
  PROVE  Written(rows, key, value) \in VarRows
<1> DEFINE I == {i \in 1..Len(rows) : rows[i].on /\ rows[i].key = key}
           J == {i \in 1..Len(rows) : rows[i].key = key}
           lit == IF I # {} THEN Min(I) ELSE 0
           any == IF J # {} THEN Min(J) ELSE 0
           at == IF lit # 0 THEN lit ELSE any
<1>1. rows \in Seq(VarRow) /\ VarRows = Seq(VarRow) /\ Len(rows) \in Nat
  BY DEF VarRows, VarRow
<1>2. lit \in 0..Len(rows)
  <2>1. I \in SUBSET Nat /\ I \subseteq 1..Len(rows)
    BY <1>1
  <2> HIDE DEF I
  <2>2. I # {} => Min(I) \in 1..Len(rows)
    BY <2>1, MinIs
  <2> QED BY <2>2, <1>1
<1>3. any \in 0..Len(rows)
  <2>1. J \in SUBSET Nat /\ J \subseteq 1..Len(rows)
    BY <1>1
  <2> HIDE DEF J
  <2>2. J # {} => Min(J) \in 1..Len(rows)
    BY <2>1, MinIs
  <2> QED BY <2>2, <1>1
<1>4. Row(key, value) \in VarRow
  BY DEF Row, VarRow
<1>5. Written(rows, key, value) =
        IF at = 0 THEN Append(rows, Row(key, value)) ELSE [rows EXCEPT ![at] = Row(key, value)]
  BY DEF Written, SelectInSeq
<1>6. at \in 0..Len(rows)
  BY <1>2, <1>3
<1> HIDE DEF at
<1> QED BY <1>1, <1>4, <1>5, <1>6

\* A group gets rows, or loses them.
LEMMA WithGroupIs ==
  ASSUME NEW s \in Sets, NEW group \in Names, NEW rows \in VarRows, NEW u, u = WithGroup(s, group, rows)
  PROVE  /\ u \in Sets /\ u.globals = s.globals /\ u.envs = s.envs /\ SameEnvs(s, u)
         /\ DOMAIN u.groups = DOMAIN s.groups \cup {group}
         /\ GroupVars(u, group) = rows
         /\ \A g \in DOMAIN s.groups : g # group => u.groups[g] = s.groups[g]
<1> DEFINE D == DOMAIN s.groups \cup {group}
           all == [g \in D |-> IF g = group THEN rows ELSE s.groups[g]]
<1>1. D \in SUBSET Names /\ all \in [D -> VarRows]
  BY GroupsAre
<1>2. u = [s EXCEPT !.groups = all]
  BY DEF WithGroup
<1>3. all[group] = rows /\ DOMAIN all = D /\ \A g \in DOMAIN s.groups : g # group => all[g] = s.groups[g]
  BY <1>1
<1> HIDE DEF D, all
<1>4. all \in UNION {[C -> VarRows] : C \in SUBSET Names}
  BY <1>1
<1>5. u \in Sets /\ u.globals = s.globals /\ u.envs = s.envs /\ u.active = s.active /\ u.groups = all
  BY <1>2, <1>4 DEF Sets
<1> QED BY <1>3, <1>5 DEF SameEnvs, GroupVars, D

LEMMA WithoutGroupIs ==
  ASSUME NEW s \in Sets, NEW group, NEW u, u = WithoutGroup(s, group)
  PROVE  /\ u \in Sets /\ u.globals = s.globals /\ u.envs = s.envs /\ SameEnvs(s, u)
         /\ DOMAIN u.groups = DOMAIN s.groups \ {group}
         /\ \A g \in DOMAIN u.groups : u.groups[g] = s.groups[g]
<1> DEFINE D == DOMAIN s.groups \ {group}
           all == [g \in D |-> s.groups[g]]
<1>1. D \in SUBSET Names /\ all \in [D -> VarRows]
  BY GroupsAre
<1>2. u = [s EXCEPT !.groups = all]
  BY DEF WithoutGroup
<1>3. DOMAIN all = D /\ \A g \in D : all[g] = s.groups[g]
  BY <1>1
<1> HIDE DEF D, all
<1>4. all \in UNION {[C -> VarRows] : C \in SUBSET Names}
  BY <1>1
<1>5. u \in Sets /\ u.globals = s.globals /\ u.envs = s.envs /\ u.active = s.active /\ u.groups = all
  BY <1>2, <1>4 DEF Sets
<1> QED BY <1>3, <1>5 DEF SameEnvs, D

\* The rows of the environment at some place are replaced.
LEMMA EnvRowsAre ==
  ASSUME NEW s \in Sets, NEW n \in 1..Len(s.envs), NEW rows \in VarRows,
         NEW u, u = [s EXCEPT !.envs[n].rows = rows]
  PROVE  /\ u \in Sets /\ SameEnvs(s, u) /\ u.groups = s.groups
         /\ u.envs[n].rows = rows
<1> DEFINE env == [s.envs[n] EXCEPT !.rows = rows]
           all == [s.envs EXCEPT ![n] = env]
<1>1. s.envs \in Seq(Environment) /\ s.envs[n] \in Environment /\ Len(s.envs) \in Nat
  BY EnvsAre
<1>2. env \in Environment /\ env.id = s.envs[n].id /\ env.rows = rows
  BY <1>1 DEF Environment
<1>3. u = [s EXCEPT !.envs = all]
  OBVIOUS
<1> HIDE DEF env
<1>4. all \in Seq(Environment) /\ Len(all) = Len(s.envs) /\ all[n] = env
      /\ \A i \in 1..Len(s.envs) : i # n => all[i] = s.envs[i]
  BY <1>1, <1>2
<1> HIDE DEF all
<1>5. u \in Sets /\ u.active = s.active /\ u.groups = s.groups /\ u.envs = all
  BY <1>3, <1>4 DEF Sets
<1> QED BY <1>2, <1>4, <1>5 DEF SameEnvs

LEMMA GlobalsAre ==
  ASSUME NEW s \in Sets, NEW rows \in VarRows, NEW u, u = [s EXCEPT !.globals = rows]
  PROVE  u \in Sets /\ SameEnvs(s, u) /\ u.groups = s.groups /\ u.globals = rows
BY DEF Sets, SameEnvs

\* A variable is set: in a layer that can be written, in no group but the given one.
LEMMA SetVarIs ==
  ASSUME NEW s \in Sets, NEW scope \in Scopes, NEW group \in Names \cup {NoGroup},
         NEW key \in Keys, NEW value \in Values, NEW u, u = SetVar(s, scope, group, key, value)
  PROVE  u \in Sets /\ SameEnvs(s, u) /\ NewGroups(s, u, {group} \cap Names)
<1>1. CASE ~Writable(s, scope, group)
  <2>1. u = s
    BY <1>1 DEF SetVar
  <2> QED BY <2>1 DEF SameEnvs, NewGroups
<1>2. CASE Writable(s, scope, group) /\ scope = "Global"
  <2>1. u = [s EXCEPT !.globals = Written(s.globals, key, value)]
    BY <1>2 DEF SetVar
  <2>2. Written(s.globals, key, value) \in VarRows
    BY WrittenIs DEF Sets
  <2> QED BY <2>1, <2>2, GlobalsAre DEF NewGroups
<1>3. CASE Writable(s, scope, group) /\ scope = "Environment"
  <2> DEFINE n == EnvIndex(s, s.active)
             rows == Written(s.envs[n].rows, key, value)
  <2>1. n \in 1..Len(s.envs)
    BY <1>3, IndexIs, EnvsAre DEF Writable
  <2>2. u = [s EXCEPT !.envs[n].rows = rows]
    BY <1>3 DEF SetVar
  <2>3. rows \in VarRows
    BY <2>1, EnvsAre, WrittenIs
  <2> HIDE DEF n, rows
  <2> QED BY <2>1, <2>2, <2>3, EnvRowsAre DEF NewGroups
<1>4. CASE Writable(s, scope, group) /\ scope = "Group"
  <2> DEFINE rows == Written(GroupVars(s, group), key, value)
  <2>1. group \in Names /\ rows \in VarRows
    BY <1>4, GroupsAre, WrittenIs DEF Writable
  <2>2. u = WithGroup(s, group, rows)
    BY <1>4 DEF SetVar
  <2> HIDE DEF rows
  <2> QED BY <2>1, <2>2, WithGroupIs DEF NewGroups
<1> QED BY <1>1, <1>2, <1>3, <1>4 DEF Scopes


\* The rows a group gets when another one is renamed to it: its own ones, and of the
\* others the first one of each name it does not have.
Added(target, own) ==
  {i \in DOMAIN own : /\ \A j \in DOMAIN target : target[j].key # own[i].key
                      /\ \A j \in DOMAIN own : j < i => own[j].key # own[i].key}

LEMMA RenamedIs ==
  ASSUME NEW s \in Sets, NEW from \in Names, NEW to \in Names, from # to,
         NEW u, u = RenamedGroup(s, from, to)
  PROVE  /\ u \in Sets /\ SameEnvs(s, u) /\ NewGroups(s, u, {to})
         /\ from \notin DOMAIN s.groups => u = s
         /\ from \in DOMAIN s.groups =>
              GroupVars(u, to) = GroupVars(s, to)
                                 \o Picked(s.groups[from], Added(GroupVars(s, to), s.groups[from]))
<1>1. CASE from \notin DOMAIN s.groups
  <2>1. u = s
    BY <1>1 DEF RenamedGroup
  <2> QED BY <2>1, <1>1 DEF SameEnvs, NewGroups
<1>2. CASE from \in DOMAIN s.groups
  <2> DEFINE target == GroupVars(s, to)
             own == s.groups[from]
             moved == Picked(own, Added(target, own))
             rows == target \o moved
             less == WithoutGroup(s, from)
  <2>1. u = WithGroup(less, to, rows)
    BY <1>2 DEF RenamedGroup, Added
  <2>2. own \in VarRows /\ target \in VarRows /\ VarRows = Seq(VarRow)
    BY <1>2, GroupsAre DEF VarRows, VarRow
  <2>3. Added(target, own) \in SUBSET DOMAIN own
    BY DEF Added
  <2>4. moved \in Seq(VarRow)
    <3> HIDE DEF target, own
    <3> QED BY <2>2, <2>3, PickedIs
  <2>5. rows \in VarRows
    <3> HIDE DEF target, moved
    <3> QED BY <2>2, <2>4
  <2>6. less \in Sets /\ SameEnvs(s, less) /\ DOMAIN less.groups = DOMAIN s.groups \ {from}
    BY WithoutGroupIs
  <2> HIDE DEF target, own, moved, rows, less
  <2>7. /\ u \in Sets /\ SameEnvs(less, u) /\ GroupVars(u, to) = rows
        /\ DOMAIN u.groups = DOMAIN less.groups \cup {to}
    BY <2>1, <2>5, <2>6, WithGroupIs
  <2>8. SameEnvs(s, u)
    BY <2>6, <2>7 DEF SameEnvs
  <2> QED BY <2>6, <2>7, <2>8, <1>2 DEF NewGroups, target, own, moved, rows
<1> QED BY <1>1, <1>2

-----------------------------------------------------------------------------
(* The drawer *)

Sheet == [open : BOOLEAN, scope : Scopes, env : EnvIds \cup {None}, group : Names \cup {NoGroup},
          table : VarRows]

\* The environment of the drawer is there, if there is any.
EnvShown(s, page) == IF s.envs = <<>> THEN page.env = None ELSE EnvIndex(s, page.env) # 0

\* The drawer shows its page of the table.
Shows(s, page) == page.table = PageVars(s, page) /\ EnvShown(s, page)

LEMMA PageIs ==
  ASSUME NEW s \in Sets, NEW page \in Sheet
  PROVE  PageVars(s, page) \in VarRows
BY EnvVarsAre, GroupsAre DEF PageVars, Sheet, Sets, Scopes

LEMMA DefaultIs ==
  ASSUME NEW s \in Sets
  PROVE  /\ DefaultEnv(s) \in EnvIds \cup {None}
         /\ IF s.envs = <<>> THEN DefaultEnv(s) = None ELSE EnvIndex(s, DefaultEnv(s)) # 0
<1>1. CASE EnvIndex(s, s.active) # 0
  <2>1. s.envs # <<>>
    BY <1>1, IndexIs
  <2>2. s.active \in EnvIds \cup {None}
    BY DEF Sets
  <2> QED BY <2>1, <2>2, <1>1 DEF DefaultEnv
<1>2. CASE EnvIndex(s, s.active) = 0 /\ s.envs # <<>>
  <2>1. 1 \in 1..Len(s.envs)
    BY <1>2, EnvsAre
  <2> QED BY <2>1, <1>2, EnvsAre, IndexIs DEF DefaultEnv
<1>3. CASE EnvIndex(s, s.active) = 0 /\ s.envs = <<>>
  BY <1>3 DEF DefaultEnv
<1> QED BY <1>1, <1>2, <1>3

\* The drawer is filled.
LEMMA FilledIs ==
  ASSUME NEW s \in Sets, NEW page \in Sheet, NEW p, p = Filled(s, page)
  PROVE  /\ p \in Sheet /\ p.table = PageVars(s, p)
         /\ p.open = page.open /\ p.scope = page.scope /\ p.env = page.env /\ p.group = page.group
<1>1. PageVars(s, page) \in VarRows
  BY PageIs
<1>2. /\ p \in Sheet /\ p.table = PageVars(s, page)
      /\ p.open = page.open /\ p.scope = page.scope /\ p.env = page.env /\ p.group = page.group
  BY <1>1 DEF Filled, Sheet
<1> QED BY <1>2 DEF PageVars

\* Whatever changed, it then shows its page, of an environment that is there.
LEMMA ObservedIs ==
  ASSUME NEW s \in Sets, NEW page \in Sheet, NEW p, p = Observed(s, page)
  PROVE  p \in Sheet /\ Shows(s, p) /\ p.open = page.open
<1> DEFINE turned == IF EnvIndex(s, page.env) = 0 THEN [page EXCEPT !.env = DefaultEnv(s)] ELSE page
<1>1. turned \in Sheet /\ turned.open = page.open /\ EnvShown(s, turned)
  <2>1. CASE EnvIndex(s, page.env) = 0
    <3>1. turned \in Sheet /\ turned.open = page.open /\ turned.env = DefaultEnv(s)
      BY <2>1, DefaultIs DEF Sheet
    <3> QED BY <3>1, DefaultIs DEF EnvShown
  <2>2. CASE EnvIndex(s, page.env) # 0
    <3>1. s.envs # <<>>
      BY <2>2, IndexIs
    <3> QED BY <2>2, <3>1 DEF EnvShown
  <2> QED BY <2>1, <2>2
<1>2. p = Filled(s, turned)
  BY DEF Observed
<1> HIDE DEF turned
<1> QED BY <1>1, <1>2, FilledIs DEF Shows, EnvShown

\* The group whose rows the drawer may write.
PageGroup(page) == {g \in Names : page.scope = "Group" /\ page.group = g}

\* The rows of the drawer are those of its page once they are written.
LEMMA CommittedIs ==
  ASSUME NEW s \in Sets, NEW page \in Sheet, EnvShown(s, page), NEW rows \in VarRows,
         page.scope = "Environment" => page.env # None,
         page.scope = "Group" => page.group # NoGroup,
         NEW u, u = Committed(s, page, rows)
  PROVE  /\ u \in Sets /\ SameEnvs(s, u) /\ PageVars(u, page) = rows
         /\ NewGroups(s, u, PageGroup(page))
<1>1. CASE page.scope = "Global"
  <2>1. u = [s EXCEPT !.globals = rows]
    BY <1>1 DEF Committed
  <2>2. u \in Sets /\ SameEnvs(s, u) /\ u.groups = s.groups /\ u.globals = rows
    BY <2>1, GlobalsAre
  <2> QED BY <2>2, <1>1 DEF PageVars, NewGroups, PageGroup
<1>2. CASE page.scope = "Environment"
  <2> DEFINE n == EnvIndex(s, page.env)
  <2>1. n \in 1..Len(s.envs)
    BY <1>2, IndexIs, EnvsAre DEF EnvShown
  <2>2. u = [s EXCEPT !.envs[n].rows = rows]
    BY <1>2, <2>1 DEF Committed
  <2>3. EnvIndex(u, page.env) = n
    BY <2>1, <2>2, EnvRowsAre, SameIndex
  <2> HIDE DEF n
  <2>4. u \in Sets /\ SameEnvs(s, u) /\ u.groups = s.groups /\ u.envs[n].rows = rows
    BY <2>1, <2>2, EnvRowsAre
  <2>5. EnvVars(u, page.env) = rows
    BY <2>1, <2>3, <2>4 DEF EnvVars
  <2> QED BY <2>4, <2>5, <1>2 DEF PageVars, NewGroups, PageGroup
<1>3. CASE page.scope = "Group" /\ rows = <<>>
  <2>1. u = WithoutGroup(s, page.group)
    BY <1>3 DEF Committed
  <2>2. u \in Sets /\ SameEnvs(s, u) /\ DOMAIN u.groups = DOMAIN s.groups \ {page.group}
    BY <2>1, WithoutGroupIs
  <2> QED BY <2>2, <1>3 DEF PageVars, GroupVars, NewGroups, PageGroup
<1>4. CASE page.scope = "Group" /\ rows # <<>>
  <2>1. page.group \in Names
    BY <1>4 DEF Sheet
  <2>2. u = WithGroup(s, page.group, rows)
    BY <1>4 DEF Committed
  <2>3. /\ u \in Sets /\ SameEnvs(s, u) /\ DOMAIN u.groups = DOMAIN s.groups \cup {page.group}
        /\ GroupVars(u, page.group) = rows
    BY <2>1, <2>2, WithGroupIs
  <2> QED BY <2>1, <2>3, <1>4 DEF PageVars, NewGroups, PageGroup
<1> QED BY <1>1, <1>2, <1>3, <1>4 DEF Sheet, Scopes


-----------------------------------------------------------------------------
(* The table, its file and the drawer *)

\* What is stored, and what follows it.
Stored ==
  /\ sets \in Sets /\ sheet \in Sheet /\ persist \in BOOLEAN /\ changes \in 0..MaxChanges
  /\ sheet.open => Shows(sets, sheet)
  /\ sets.active # None => EnvIndex(sets, sets.active) # 0
  /\ FileFollows

\* A tab, and the saved requests with their groups.
TabRow == [id : Requests \cup {None}, group : Names \cup {NoGroup}, extract : Ops \cup {None}]
Assignment == UNION {[D -> Names \cup {NoGroup}] : D \in SUBSET Requests}

\* How requests are organised, and what follows that.
Organised ==
  /\ saved \in Assignment
  /\ tabs \in [Tabs -> {None} \cup TabRow]
  /\ GroupCopyIsCurrent /\ FilterHasMembers

\* The environment in use is there in a table with the same environments.
LEMMA ActiveIsThere ==
  ASSUME Stored, NEW next \in Sets, SameEnvs(sets, next)
  PROVE  next.active # None => EnvIndex(next, next.active) # 0
BY SameIndex DEF Stored, SameEnvs

\* update keeps file and drawer with the table.
LEMMA UpdateKeeps ==
  ASSUME Stored, Bounded, NEW next \in Sets, NEW page \in Sheet, Update(next, page),
         next.active # None => EnvIndex(next, next.active) # 0,
         next = sets /\ page.open => Shows(sets, page)
  PROVE  Stored'
<1>1. /\ sets' = next /\ persist' = persist
      /\ file' = IF next # sets /\ persist THEN next ELSE file
      /\ changes' = IF next = sets THEN changes ELSE changes + 1
      /\ sheet' = IF next = sets THEN page ELSE Observed(next, page)
  BY DEF Update
<1>2. changes' \in 0..MaxChanges
  BY <1>1, ConstantsAssumption DEF Bounded, Stored
<1>3. FileFollows'
  BY <1>1 DEF Stored, FileFollows
<1>4. sheet' \in Sheet /\ (sheet'.open => Shows(next, sheet'))
  BY <1>1, ObservedIs
<1>5. Shows(next, sheet') = Shows(sets, sheet)'
  BY <1>1
<1>6. (sets.active # None => EnvIndex(sets, sets.active) # 0)'
  BY <1>1
<1> QED BY <1>1, <1>2, <1>3, <1>4, <1>5, <1>6 DEF Stored

\* An update with the drawer as it is, of a table with the same environments.
LEMMA PlainUpdate ==
  ASSUME Stored, Bounded, NEW next \in Sets, Update(next, sheet), SameEnvs(sets, next)
  PROVE  Stored'
<1>1. sheet \in Sheet /\ (sheet.open => Shows(sets, sheet))
  BY DEF Stored
<1> QED BY <1>1, ActiveIsThere, UpdateKeeps

\* Requests read and write the table, groups are renamed and dissolved.
LEMMA SendStored ==
  ASSUME Stored, Organised, NEW t \in Tabs, NEW pre \in Ops \cup {None}, NEW value \in Values,
         NEW extract \in Ops \cup {None}, Send(t, pre, value, extract)
  PROVE  Stored'
<1> DEFINE next == Prepared(t, pre, value)
<1>1. tabs[t] \in TabRow
  BY DEF Send, Open, Organised
<1>2. CASE UNCHANGED <<tabs, sets, persist, file, sheet, changes>>
  BY <1>2 DEF Stored, FileFollows
<1>3. CASE Update(next, sheet)
  <2>1. CASE pre = None
    <3>1. next = sets
      BY <2>1 DEF Prepared
    <3>2. next \in Sets /\ SameEnvs(sets, next)
      BY <3>1 DEF Stored, SameEnvs
    <3> HIDE DEF next
    <3> QED BY <3>2, <1>3, PlainUpdate DEF Send
  <2>2. CASE pre # None
    <3>1. next = SetVar(sets, pre.scope, tabs[t].group, pre.key, value)
      BY <2>2 DEF Prepared
    <3>2. pre.scope \in Scopes /\ pre.key \in Keys /\ tabs[t].group \in Names \cup {NoGroup}
      BY <2>2, <1>1 DEF Ops, TabRow
    <3> HIDE DEF next
    <3>3. next \in Sets /\ SameEnvs(sets, next)
      BY <3>1, <3>2, SetVarIs DEF Stored
    <3> QED BY <3>3, <1>3, PlainUpdate DEF Send
  <2> QED BY <2>1, <2>2
<1> QED BY <1>2, <1>3 DEF Send

LEMMA RespondStored ==
  ASSUME Stored, Organised, NEW t \in Tabs, NEW value \in Values, Respond(t, value)
  PROVE  Stored'
<1> DEFINE op == tabs[t].extract
           next == SetVar(sets, op.scope, tabs[t].group, op.key, value)
<1>1. tabs[t] \in TabRow /\ op # None
  BY DEF Respond, Open, Organised
<1>2. op.scope \in Scopes /\ op.key \in Keys /\ tabs[t].group \in Names \cup {NoGroup}
  BY <1>1 DEF Ops, TabRow
<1>3. Update(next, sheet) /\ Bounded
  BY DEF Respond
<1> HIDE DEF op
<1>4. next \in Sets /\ SameEnvs(sets, next)
  BY <1>2, SetVarIs DEF Stored
<1> HIDE DEF next
<1> QED BY <1>3, <1>4, PlainUpdate

LEMMA GroupsStored ==
  ASSUME Stored, NEW from \in Names, NEW to \in Names, RenameGroup(from, to) \/ DissolveGroup(from)
  PROVE  Stored'
<1>1. CASE RenameGroup(from, to)
  <2> DEFINE next == RenamedGroup(sets, from, to)
  <2>1. Update(next, sheet) /\ Bounded /\ from # to
    BY <1>1 DEF RenameGroup
  <2>2. next \in Sets /\ SameEnvs(sets, next)
    BY <2>1, RenamedIs DEF Stored
  <2> HIDE DEF next
  <2> QED BY <2>1, <2>2, PlainUpdate
<1>2. CASE DissolveGroup(from)
  <2> DEFINE next == WithoutGroup(sets, from)
  <2>1. Update(next, sheet) /\ Bounded
    BY <1>2 DEF DissolveGroup
  <2>2. next \in Sets /\ SameEnvs(sets, next)
    BY WithoutGroupIs DEF Stored
  <2> HIDE DEF next
  <2> QED BY <2>1, <2>2, PlainUpdate
<1> QED BY <1>1, <1>2

\* The drawer opens, turns a page and closes.
LEMMA PagesStored ==
  ASSUME Stored,
         \/ \E scope \in Scopes, g \in Names \cup {NoGroup} : OpenSheet(scope, g)
         \/ CloseSheet
         \/ \E scope \in Scopes : SetScope(scope)
         \/ \E i \in DOMAIN sets.envs : SelectEnv(i)
         \/ \E g \in Names : SelectGroup(g)
  PROVE  Stored'
<1>1. UNCHANGED <<sets, persist, file, changes>>
  BY DEF OpenSheet, CloseSheet, SetScope, SelectEnv, SelectGroup, TurnPage
<1>2. sets \in Sets /\ sheet \in Sheet
  BY DEF Stored
<1>3. ASSUME NEW page \in Sheet, EnvShown(sets, page), sheet' = Filled(sets, page)
      PROVE  sheet' \in Sheet /\ Shows(sets, sheet')
  BY <1>2, <1>3, FilledIs DEF Shows, EnvShown
<1>4. sheet' \in Sheet /\ (sheet'.open => Shows(sets, sheet'))
  <2>1. ASSUME NEW scope \in Scopes, NEW g \in Names \cup {NoGroup}, OpenSheet(scope, g)
        PROVE  sheet' \in Sheet /\ Shows(sets, sheet')
    <3> DEFINE page == [open |-> TRUE, scope |-> scope, env |-> DefaultEnv(sets), group |-> g, table |-> <<>>]
    <3>1. <<>> \in VarRows
      BY DEF VarRows
    <3>2. page \in Sheet /\ page.env = DefaultEnv(sets)
      BY <3>1, <1>2, DefaultIs DEF Sheet
    <3>3. sheet' = Filled(sets, page)
      BY <2>1 DEF OpenSheet
    <3> HIDE DEF page
    <3>4. EnvShown(sets, page)
      BY <3>2, <1>2, DefaultIs DEF EnvShown
    <3> QED BY <3>2, <3>3, <3>4, <1>3
  <2>2. CASE CloseSheet
    BY <2>2, <1>2 DEF CloseSheet, Sheet
  <2>3. ASSUME NEW scope \in Scopes, SetScope(scope)
        PROVE  sheet' \in Sheet /\ Shows(sets, sheet')
    <3>1. EnvShown(sets, sheet) /\ sheet' = Filled(sets, [sheet EXCEPT !.scope = scope])
      BY <2>3 DEF SetScope, TurnPage, Stored, Shows
    <3>2. [sheet EXCEPT !.scope = scope] \in Sheet /\ [sheet EXCEPT !.scope = scope].env = sheet.env
      BY <1>2 DEF Sheet
    <3> QED BY <3>1, <3>2, <1>3 DEF EnvShown
  <2>4. ASSUME NEW i \in DOMAIN sets.envs, SelectEnv(i)
        PROVE  sheet' \in Sheet /\ Shows(sets, sheet')
    <3> DEFINE id == sets.envs[i].id
    <3>1. i \in 1..Len(sets.envs) /\ id \in EnvIds
      BY <1>2, EnvsAre
    <3>2. [sheet EXCEPT !.env = id] \in Sheet /\ [sheet EXCEPT !.env = id].env = id
      BY <1>2, <3>1 DEF Sheet
    <3>3. sheet' = Filled(sets, [sheet EXCEPT !.env = id])
      BY <2>4 DEF SelectEnv, TurnPage
    <3>4. EnvIndex(sets, id) # 0 /\ sets.envs # <<>>
      BY <3>1, <1>2, IndexIs
    <3> QED BY <3>2, <3>3, <3>4, <1>3 DEF EnvShown
  <2>5. ASSUME NEW g \in Names, SelectGroup(g)
        PROVE  sheet' \in Sheet /\ Shows(sets, sheet')
    <3>1. EnvShown(sets, sheet) /\ sheet' = Filled(sets, [sheet EXCEPT !.group = g])
      BY <2>5 DEF SelectGroup, TurnPage, Stored, Shows
    <3>2. [sheet EXCEPT !.group = g] \in Sheet /\ [sheet EXCEPT !.group = g].env = sheet.env
      BY <1>2 DEF Sheet
    <3> QED BY <3>1, <3>2, <1>3 DEF EnvShown
  <2> QED BY <2>1, <2>2, <2>3, <2>4, <2>5
<1>5. Shows(sets, sheet') = Shows(sets, sheet)'
  BY <1>1
<1> QED BY <1>1, <1>4, <1>5 DEF Stored, FileFollows


\* A row is edited: the drawer's rows and those of its page change together.
LEMMA EditedIs ==
  ASSUME NEW rows \in VarRows, NEW new \in Edited(rows)
  PROVE  new \in VarRows
<1>1. VarRows = Seq(VarRow) /\ rows \in Seq(VarRow) /\ Len(rows) \in Nat
  BY DEF VarRows, VarRow
<1>2. \A i \in 1..Len(rows) : rows[i] \in VarRow
  BY <1>1
<1>3. ASSUME NEW i \in DOMAIN rows, NEW v \in Values PROVE [rows EXCEPT ![i].value = v] \in Seq(VarRow)
  <2>1. [rows[i] EXCEPT !.value = v] \in VarRow
    BY <1>1, <1>2 DEF VarRow
  <2> QED BY <1>1, <2>1
<1>4. ASSUME NEW i \in DOMAIN rows PROVE [rows EXCEPT ![i].on = ~@] \in Seq(VarRow)
  <2> DEFINE off == ~rows[i].on
  <2>1. off \in BOOLEAN /\ rows[i] \in VarRow
    BY <1>1, <1>2
  <2> HIDE DEF off
  <2>2. [rows[i] EXCEPT !.on = off] \in VarRow
    BY <2>1 DEF VarRow
  <2>3. [rows EXCEPT ![i] = [rows[i] EXCEPT !.on = off]] \in Seq(VarRow)
    BY <1>1, <2>2
  <2> QED BY <2>3 DEF off
<1>5. ASSUME NEW i \in DOMAIN rows PROVE RemoveAt(rows, i) \in Seq(VarRow)
  BY <1>1 DEF RemoveAt
<1>6. ASSUME NEW k \in Keys, NEW v \in Values PROVE Append(rows, Row(k, v)) \in Seq(VarRow)
  BY <1>1 DEF Row, VarRow
<1>7. \/ \E i \in DOMAIN rows, v \in Values : new = [rows EXCEPT ![i].value = v]
      \/ \E i \in DOMAIN rows : new = [rows EXCEPT ![i].on = ~@]
      \/ \E i \in DOMAIN rows : new = RemoveAt(rows, i)
      \/ \E k \in Keys, v \in Values : new = Append(rows, Row(k, v))
  BY DEF Edited
<1>8. new \in Seq(VarRow)
  BY <1>3, <1>4, <1>5, <1>6, <1>7
<1> QED BY <1>1, <1>8

LEMMA EditStored ==
  ASSUME Stored, NEW rows \in Edited(sheet.table), EditTable(rows)
  PROVE  Stored'
<1> DEFINE next == Committed(sets, sheet, rows)
           page == [sheet EXCEPT !.table = rows]
<1>1. /\ sets \in Sets /\ sheet \in Sheet /\ EnvShown(sets, sheet)
      /\ Bounded /\ Update(next, page)
      /\ sheet.scope = "Environment" => sheet.env # None
      /\ sheet.scope = "Group" => sheet.group # NoGroup
  BY DEF EditTable, PageExists, Stored, Shows
<1>2. rows \in VarRows
  BY <1>1, EditedIs DEF Sheet
<1>3. next \in Sets /\ SameEnvs(sets, next) /\ PageVars(next, sheet) = rows
  <2>1. next = Committed(sets, sheet, rows)
    OBVIOUS
  <2> HIDE DEF next, page
  <2> QED BY <2>1, <1>1, <1>2, CommittedIs
<1>4. /\ page \in Sheet /\ page.table = rows
      /\ page.scope = sheet.scope /\ page.env = sheet.env /\ page.group = sheet.group
  BY <1>1, <1>2 DEF Sheet
<1> HIDE DEF next, page
<1>5. next = sets => Shows(sets, page)
  BY <1>1, <1>3, <1>4 DEF Shows, EnvShown, PageVars
<1> QED BY <1>1, <1>3, <1>4, <1>5, ActiveIsThere, UpdateKeeps

\* An environment is added, whose page is shown.
WithEnv(s, id, rows, active) ==
  [s EXCEPT !.envs = Append(@, [id |-> id, rows |-> rows]), !.active = active]

LEMMA AddedEnv ==
  ASSUME NEW s \in Sets, NEW id \in EnvIds, NEW rows \in VarRows, NEW active \in {s.active, id},
         s.active # None => EnvIndex(s, s.active) # 0,
         NEW u, u = WithEnv(s, id, rows, active)
  PROVE  /\ u \in Sets /\ u.groups = s.groups
         /\ u.envs # <<>> /\ EnvIndex(u, id) # 0
         /\ u.active # None => EnvIndex(u, u.active) # 0
<1> DEFINE env == [id |-> id, rows |-> rows]
           all == Append(s.envs, env)
           n == Len(s.envs) + 1
<1>1. s.envs \in Seq(Environment) /\ Len(s.envs) \in Nat /\ env \in Environment /\ env.id = id
  BY EnvsAre DEF Environment
<1>2. u = [s EXCEPT !.envs = all, !.active = active]
  BY DEF WithEnv
<1>3. active \in EnvIds \cup {None}
  BY DEF Sets
<1> HIDE DEF env
<1>4. /\ all \in Seq(Environment) /\ Len(all) = n /\ all[n] = env
      /\ \A i \in 1..Len(s.envs) : all[i] = s.envs[i]
  BY <1>1
<1> HIDE DEF all
<1>5. u \in Sets /\ u.envs = all /\ u.active = active /\ u.groups = s.groups
  BY <1>2, <1>3, <1>4 DEF Sets
<1>6. n \in 1..n /\ u.envs # <<>>
  BY <1>1, <1>4, <1>5
<1>7. EnvIndex(u, id) # 0
  BY <1>1, <1>4, <1>5, <1>6, IndexIs
<1>8. ASSUME EnvIndex(s, s.active) # 0 PROVE EnvIndex(u, s.active) # 0
  <2> DEFINE m == EnvIndex(s, s.active)
  <2>1. m \in 1..Len(s.envs) /\ s.envs[m].id = s.active
    BY <1>1, <1>8, IndexIs
  <2> HIDE DEF m
  <2>2. m \in 1..n /\ all[m].id = s.active
    BY <2>1, <1>1, <1>4
  <2> QED BY <2>2, <1>4, <1>5, IndexIs
<1> QED BY <1>5, <1>6, <1>7, <1>8

\* A step of the drawer that turns to another page as it changes the table.
LEMMA TurnedUpdate ==
  ASSUME Stored, Bounded, NEW next \in Sets, NEW page \in Sheet, Update(next, Filled(next, page)),
         next.active # None => EnvIndex(next, next.active) # 0,
         page.open => EnvShown(next, page)
  PROVE  Stored'
<1> DEFINE p == Filled(next, page)
<1>1. p \in Sheet /\ p.open = page.open /\ p.table = PageVars(next, p) /\ p.env = page.env
  BY FilledIs
<1>2. p.open => Shows(next, p)
  BY <1>1 DEF Shows, EnvShown
<1>3. Update(next, p)
  OBVIOUS
<1> HIDE DEF p
<1> QED BY <1>1, <1>2, <1>3, UpdateKeeps

LEMMA NewEnvStored ==
  ASSUME Stored, NEW id \in EnvIds, NewEnv(id)
  PROVE  Stored'
<1> DEFINE next == [sets EXCEPT !.envs = Append(@, [id |-> id, rows |-> <<>>])]
           page == [sheet EXCEPT !.env = id]
<1>1. /\ sets \in Sets /\ sheet \in Sheet /\ (sets.active # None => EnvIndex(sets, sets.active) # 0)
      /\ Bounded /\ Update(next, Filled(next, page))
  BY DEF Stored, NewEnv
<1>2. next = WithEnv(sets, id, <<>>, sets.active)
  BY <1>1 DEF Sets, WithEnv
<1>3. page \in Sheet /\ page.env = id
  BY <1>1 DEF Sheet
<1> HIDE DEF next, page
<1>4. sets.active \in {sets.active, id} /\ <<>> \in VarRows
  BY DEF VarRows
<1>5. next \in Sets /\ next.envs # <<>> /\ EnvIndex(next, id) # 0
      /\ (next.active # None => EnvIndex(next, next.active) # 0)
  BY <1>1, <1>2, <1>4, AddedEnv
<1>6. EnvShown(next, page)
  BY <1>3, <1>5 DEF EnvShown
<1> QED BY <1>1, <1>3, <1>5, <1>6, TurnedUpdate

LEMMA ImportEnvStored ==
  ASSUME Stored, NEW id \in EnvIds, NEW k \in Keys, NEW v \in Values,
         ImportEnvironment(id, <<Row(k, v)>>)
  PROVE  Stored'
<1> DEFINE rows == <<Row(k, v)>>
           next == [sets EXCEPT !.envs = Append(@, [id |-> id, rows |-> rows]), !.active = id]
           page == [sheet EXCEPT !.scope = "Environment", !.env = id]
<1>1. /\ sets \in Sets /\ sheet \in Sheet /\ (sets.active # None => EnvIndex(sets, sets.active) # 0)
      /\ Bounded /\ Update(next, Filled(next, page))
  BY DEF Stored, ImportEnvironment
<1>2. page \in Sheet /\ page.env = id
  BY <1>1 DEF Sheet, Scopes
<1>3. rows \in VarRows
  BY DEF VarRows, Row
<1> HIDE DEF rows
<1>4. next = WithEnv(sets, id, rows, id) /\ id \in {sets.active, id}
  BY DEF WithEnv
<1> HIDE DEF next, page
<1>5. next \in Sets /\ next.envs # <<>> /\ EnvIndex(next, id) # 0
      /\ (next.active # None => EnvIndex(next, next.active) # 0)
  BY <1>1, <1>3, <1>4, AddedEnv
<1>6. EnvShown(next, page)
  BY <1>2, <1>5 DEF EnvShown
<1> QED BY <1>1, <1>2, <1>5, <1>6, TurnedUpdate

\* The environment of the drawer is deleted.
LEMMA DeleteStored == ASSUME Stored, DeleteEnv PROVE Stored'
<1> DEFINE I == {i \in DOMAIN sets.envs : sets.envs[i].id # sheet.env}
           all == Picked(sets.envs, I)
           active == IF sets.active = sheet.env THEN None ELSE sets.active
           next == [sets EXCEPT !.envs = all, !.active = active]
           page == [sheet EXCEPT !.env = DefaultEnv(next)]
<1>1. /\ sets \in Sets /\ sheet \in Sheet /\ (sets.active # None => EnvIndex(sets, sets.active) # 0)
      /\ sets.envs \in Seq(Environment) /\ Len(sets.envs) \in Nat /\ DOMAIN sets.envs = 1..Len(sets.envs)
  BY EnvsAre DEF Stored
<1>2. Bounded /\ Update(next, Filled(next, page))
  BY DEF DeleteEnv
<1>3. I \in SUBSET DOMAIN sets.envs
  OBVIOUS
<1>4. all \in Seq(Environment) /\ \A i \in I : \E k \in 1..Len(all) : all[k] = sets.envs[i]
  <2>1. all = Picked(sets.envs, I)
    OBVIOUS
  <2> HIDE DEF I, all
  <2> QED BY <2>1, <1>1, <1>3, PickedIs
<1>5. active \in EnvIds \cup {None}
  BY <1>1 DEF Sets
<1>6. active # None => \E k \in 1..Len(all) : all[k].id = active
  <2>1. SUFFICES ASSUME active # None PROVE \E k \in 1..Len(all) : all[k].id = active
    OBVIOUS
  <2> DEFINE n == EnvIndex(sets, sets.active)
  <2>2. n \in 1..Len(sets.envs) /\ sets.envs[n].id = sets.active /\ active = sets.active
        /\ sets.active # sheet.env
    BY <2>1, <1>1, IndexIs
  <2> HIDE DEF n, all
  <2>3. n \in I
    BY <2>2, <1>1
  <2> QED BY <2>2, <2>3, <1>4
<1> HIDE DEF I, all, active
<1>7. next \in Sets /\ next.envs = all /\ next.active = active
  BY <1>1, <1>4, <1>5 DEF Sets
<1> HIDE DEF next
<1>8. next.active # None => EnvIndex(next, next.active) # 0
  BY <1>6, <1>7, IndexIs
<1>9. page \in Sheet /\ page.env = DefaultEnv(next)
  BY <1>1, <1>7, DefaultIs DEF Sheet
<1>10. EnvShown(next, page)
  BY <1>7, <1>9, DefaultIs DEF EnvShown
<1> HIDE DEF page
<1> QED BY <1>2, <1>7, <1>8, <1>9, <1>10, TurnedUpdate

\* Another environment is used, or none.
LEMMA ActivateStored ==
  ASSUME Stored, NEW id \in EnvIds \cup {None}, SetActiveEnvironment(id)
  PROVE  Stored'
<1> DEFINE next == [sets EXCEPT !.active = id]
<1>1. Bounded /\ Update(next, sheet) /\ sets \in Sets /\ sheet \in Sheet /\ (id # None => EnvIndex(sets, id) # 0)
  BY DEF SetActiveEnvironment, Stored
<1>2. next \in Sets /\ next.envs = sets.envs /\ next.active = id
  BY <1>1 DEF Sets
<1> HIDE DEF next
<1>3. next.active # None => EnvIndex(next, next.active) # 0
  BY <1>1, <1>2 DEF EnvIndex
<1> QED BY <1>1, <1>2, <1>3, UpdateKeeps DEF Stored

\* A variable is imported.
LEMMA ImportStored ==
  ASSUME Stored, NEW k \in Keys, NEW v \in Values, ImportGlobals(Row(k, v))
  PROVE  Stored'
<1> DEFINE row == Row(k, v)
           I == {i \in 1..Len(sets.globals) : sets.globals[i].key = row.key}
           at == IF I # {} THEN Min(I) ELSE 0
           rows == IF at = 0 THEN Append(sets.globals, row) ELSE [sets.globals EXCEPT ![at] = row]
           next == [sets EXCEPT !.globals = rows]
           page == [sheet EXCEPT !.scope = "Global"]
<1>1. sets \in Sets /\ sheet \in Sheet /\ sets.globals \in Seq(VarRow) /\ row \in VarRow
      /\ VarRows = Seq(VarRow) /\ Len(sets.globals) \in Nat
  <2>1. sets \in Sets /\ sheet \in Sheet
    BY DEF Stored
  <2>2. VarRows = Seq(VarRow)
    BY DEF VarRows, VarRow
  <2>3. sets.globals \in VarRows
    BY <2>1 DEF Sets
  <2>4. row \in VarRow
    BY DEF VarRow, Row
  <2> QED BY <2>1, <2>2, <2>3, <2>4
<1>2. Bounded /\ Update(next, Filled(next, page))
  BY DEF ImportGlobals, SelectInSeq
<1> HIDE DEF row
<1>3. at \in 0..Len(sets.globals)
  <2>1. I \in SUBSET Nat /\ I \subseteq 1..Len(sets.globals)
    BY <1>1
  <2> HIDE DEF I
  <2>2. I # {} => Min(I) \in 1..Len(sets.globals)
    BY <2>1, MinIs
  <2> QED BY <2>2, <1>1
<1> HIDE DEF at
<1>4. rows \in VarRows
  BY <1>1, <1>3
<1> HIDE DEF rows
<1>5. next \in Sets /\ SameEnvs(sets, next)
  BY <1>1, <1>4, GlobalsAre
<1>6. next.envs = <<>> <=> sets.envs = <<>>
  BY <1>1 DEF Sets
<1>7. page \in Sheet /\ page.env = sheet.env /\ page.open = sheet.open
  BY <1>1 DEF Sheet, Scopes
<1> HIDE DEF next, page
<1>8. page.open => EnvShown(next, page)
  BY <1>5, <1>6, <1>7, SameIndex DEF Stored, Shows, EnvShown
<1> QED BY <1>2, <1>5, <1>7, <1>8, ActiveIsThere, TurnedUpdate

\* Handlers that leave the table alone.
LEMMA AsideStored ==
  ASSUME Stored, UNCHANGED <<sets, persist, file, sheet, changes>>
  PROVE  Stored'
BY DEF Stored, FileFollows


-----------------------------------------------------------------------------
(* Requests, tabs and the filter *)

\* A filter that was looked at has members.
LEMMA ValidIs ==
  ASSUME NEW f, NEW list
  PROVE  FilterValid(ValidFilter(f, list), list)
BY DEF ValidFilter, FilterValid

\* What is assigned.
LEMMA AssignedIs ==
  ASSUME NEW list \in Assignment
  PROVE  /\ DOMAIN list \subseteq Requests /\ list \in [DOMAIN list -> Names \cup {NoGroup}]
         /\ \A r \in DOMAIN list : list[r] \in Names \cup {NoGroup}
BY DEF Assignment

\* Requests change their groups.
LEMMA RetagKeeps ==
  ASSUME Organised, NEW list \in [DOMAIN saved -> Names \cup {NoGroup}], NEW chosen, Retag(list, chosen),
         chosen = filter \/ \E r \in DOMAIN saved : list[r] # saved[r]
  PROVE  Organised'
<1> DEFINE changed == {r \in DOMAIN saved : list[r] # saved[r]}
<1>1. /\ saved' = list
      /\ tabs' = [t \in Tabs |-> IF t \in Open /\ tabs[t].id \in changed
                                 THEN [tabs[t] EXCEPT !.group = list[tabs[t].id]] ELSE tabs[t]]
      /\ filter' = IF changed = {} THEN chosen ELSE ValidFilter(chosen, list)
  BY DEF Retag
<1>2. DOMAIN saved \in SUBSET Requests /\ saved \in [DOMAIN saved -> Names \cup {NoGroup}]
      /\ tabs \in [Tabs -> {None} \cup TabRow]
  BY AssignedIs DEF Organised
<1>3. list \in Assignment /\ DOMAIN list = DOMAIN saved
  BY <1>2 DEF Assignment
<1>4. FilterHasMembers'
  <2>1. CASE changed = {}
    <3>1. list = saved
      BY <2>1, <1>2
    <3>2. chosen = filter
      BY <2>1
    <3> QED BY <3>1, <3>2, <2>1, <1>1 DEF Organised, FilterHasMembers
  <2>2. CASE changed # {}
    BY <2>2, <1>1, ValidIs DEF FilterHasMembers
  <2> QED BY <2>1, <2>2
<1>5. ASSUME NEW t \in Tabs
      PROVE  /\ tabs'[t] \in {None} \cup TabRow
             /\ tabs'[t] # None =>
                  IF tabs'[t].id = None THEN tabs'[t].group = NoGroup
                  ELSE tabs'[t].id \in DOMAIN list /\ tabs'[t].group = list[tabs'[t].id]
  <2>1. CASE tabs[t] = None
    BY <2>1, <1>1 DEF Open
  <2>2. CASE tabs[t] # None
    <3>1. /\ tabs[t] \in TabRow
          /\ IF tabs[t].id = None THEN tabs[t].group = NoGroup
             ELSE tabs[t].id \in DOMAIN saved /\ tabs[t].group = saved[tabs[t].id]
      BY <2>2, <1>2 DEF Organised, GroupCopyIsCurrent, Open
    <3>2. CASE tabs[t].id \in changed
      <4>1. tabs'[t] = [tabs[t] EXCEPT !.group = list[tabs[t].id]]
        BY <3>2, <2>2, <1>1 DEF Open
      <4>2. list[tabs[t].id] \in Names \cup {NoGroup} /\ tabs[t].id # None
        BY <3>2, <1>2, ConstantsAssumption
      <4>3. tabs'[t] \in TabRow /\ tabs'[t].id = tabs[t].id /\ tabs'[t].group = list[tabs[t].id]
        BY <4>1, <4>2, <3>1 DEF TabRow
      <4> QED BY <4>2, <4>3, <3>2, <1>3
    <3>3. CASE tabs[t].id \notin changed
      <4>1. tabs'[t] = tabs[t]
        BY <3>3, <1>1
      <4>2. tabs[t].id # None => list[tabs[t].id] = saved[tabs[t].id]
        BY <3>1, <3>3
      <4> QED BY <4>1, <4>2, <3>1, <1>3
    <3> QED BY <3>2, <3>3
  <2> QED BY <2>1, <2>2
<1>6. tabs' \in [Tabs -> {None} \cup TabRow]
  <2>1. tabs' = [t \in Tabs |-> tabs'[t]]
    BY <1>1
  <2> QED BY <2>1, <1>5
<1>7. GroupCopyIsCurrent'
  BY <1>1, <1>5 DEF GroupCopyIsCurrent, Open
<1> QED BY <1>1, <1>3, <1>4, <1>6, <1>7 DEF Organised

\* One tab changes, what is saved does not.
LEMMA TabKeeps ==
  ASSUME Organised, UNCHANGED <<saved, filter>>, NEW t \in Tabs, NEW new \in {None} \cup TabRow,
         tabs' = [tabs EXCEPT ![t] = new],
         new # None => IF new.id = None THEN new.group = NoGroup
                       ELSE new.id \in DOMAIN saved /\ new.group = saved[new.id]
  PROVE  Organised'
<1>1. tabs \in [Tabs -> {None} \cup TabRow]
  BY DEF Organised
<1>2. tabs' \in [Tabs -> {None} \cup TabRow]
  BY <1>1
<1>3. tabs'[t] = new /\ \A u \in Tabs : u # t => tabs'[u] = tabs[u]
  BY <1>1
<1>4. GroupCopyIsCurrent'
  BY <1>3 DEF Organised, GroupCopyIsCurrent, Open
<1> QED BY <1>2, <1>4 DEF Organised, FilterHasMembers

\* Tabs come and go, and are saved again.
LEMMA TabsOrganised ==
  ASSUME Organised, NEW t \in Tabs,
         NewTab(t) \/ CloseTab(t) \/ OverwriteSaved(t) \/ \E r \in Requests : OpenSaved(t, r)
  PROVE  Organised'
<1>1. tabs \in [Tabs -> {None} \cup TabRow] /\ saved \in Assignment
  BY DEF Organised
<1>2. CASE NewTab(t)
  <2>1. Tab(None, NoGroup) \in TabRow
    BY DEF Tab, TabRow
  <2> QED BY <2>1, <1>2, TabKeeps DEF NewTab, Tab
<1>3. CASE CloseTab(t)
  BY <1>3, TabKeeps DEF CloseTab
<1>4. CASE OverwriteSaved(t)
  <2> DEFINE new == [tabs[t] EXCEPT !.group = saved[tabs[t].id]]
  <2>1. tabs[t] \in TabRow /\ tabs[t].id \in DOMAIN saved /\ tabs' = [tabs EXCEPT ![t] = new]
    BY <1>1, <1>4 DEF OverwriteSaved, Open
  <2>2. saved[tabs[t].id] \in Names \cup {NoGroup} /\ tabs[t].id # None
    BY <2>1, <1>1, AssignedIs, ConstantsAssumption
  <2>3. new \in TabRow /\ new.id = tabs[t].id /\ new.group = saved[tabs[t].id]
    BY <2>1, <2>2 DEF TabRow
  <2>4. UNCHANGED <<saved, filter>>
    BY <1>4 DEF OverwriteSaved
  <2> HIDE DEF new
  <2> QED BY <2>1, <2>2, <2>3, <2>4, TabKeeps
<1>5. ASSUME NEW r \in Requests, OpenSaved(t, r) PROVE Organised'
  <2> DEFINE new == Tab(r, saved[r])
  <2>1. r \in DOMAIN saved /\ tabs' = [tabs EXCEPT ![t] = new] /\ UNCHANGED <<saved, filter>>
    BY <1>5 DEF OpenSaved
  <2>2. new \in TabRow /\ new.id = r /\ new.group = saved[r]
    BY <2>1, <1>1, AssignedIs DEF Tab, TabRow
  <2> HIDE DEF new
  <2> QED BY <2>1, <2>2, TabKeeps, ConstantsAssumption
<1> QED BY <1>2, <1>3, <1>4, <1>5

\* A request leaves and its answer arrives: the tab keeps what it shows.
LEMMA ExtractKeeps ==
  ASSUME Organised, UNCHANGED <<saved, filter>>, NEW t \in Open, NEW extract \in Ops \cup {None},
         tabs' = [tabs EXCEPT ![t].extract = extract]
  PROVE  Organised'
<1> DEFINE new == [tabs[t] EXCEPT !.extract = extract]
<1>1. t \in Tabs /\ tabs[t] \in TabRow /\ tabs' = [tabs EXCEPT ![t] = new]
  BY DEF Open, Organised
<1>2. new \in TabRow /\ new.id = tabs[t].id /\ new.group = tabs[t].group
  BY <1>1 DEF TabRow
<1>3. IF tabs[t].id = None THEN tabs[t].group = NoGroup
      ELSE tabs[t].id \in DOMAIN saved /\ tabs[t].group = saved[tabs[t].id]
  BY DEF Organised, GroupCopyIsCurrent
<1> HIDE DEF new
<1> QED BY <1>1, <1>2, <1>3, TabKeeps

\* A tab becomes a saved request.
LEMMA SaveOrganised ==
  ASSUME Organised, NEW t \in Tabs, NEW r \in Requests, NEW g \in Names \cup {NoGroup}, FinishSave(t, r, g)
  PROVE  Organised'
<1> DEFINE list == [q \in DOMAIN saved \cup {r} |-> IF q = r THEN g ELSE saved[q]]
           new == [tabs[t] EXCEPT !.id = r, !.group = g]
<1>1. tabs \in [Tabs -> {None} \cup TabRow] /\ saved \in Assignment
  BY DEF Organised
<1>2. /\ tabs[t] \in TabRow /\ r \notin DOMAIN saved /\ filter' = filter
      /\ saved' = list /\ tabs' = [tabs EXCEPT ![t] = new]
  BY <1>1 DEF FinishSave, Open
<1>3. list \in Assignment /\ DOMAIN list = DOMAIN saved \cup {r} /\ list[r] = g
      /\ \A q \in DOMAIN saved : list[q] = saved[q]
  BY <1>1, <1>2, AssignedIs DEF Assignment
<1>4. new \in TabRow /\ new.id = r /\ new.group = g
  BY <1>2 DEF TabRow
<1> HIDE DEF list, new
<1>5. tabs' \in [Tabs -> {None} \cup TabRow] /\ tabs'[t] = new /\ \A u \in Tabs : u # t => tabs'[u] = tabs[u]
  BY <1>1, <1>2, <1>4
<1>6. GroupCopyIsCurrent'
  BY <1>2, <1>3, <1>4, <1>5, ConstantsAssumption DEF Organised, GroupCopyIsCurrent, Open
<1>7. FilterHasMembers'
  <2>1. FilterValid(filter, saved)
    BY DEF Organised, FilterHasMembers
  <2>2. FilterValid(filter, list)
    BY <2>1, <1>3 DEF FilterValid, Groups
  <2> QED BY <2>2, <1>2 DEF FilterHasMembers
<1> QED BY <1>2, <1>3, <1>5, <1>6, <1>7 DEF Organised

\* A saved request is deleted.
LEMMA DeletionOrganised ==
  ASSUME Organised, NEW r \in Requests, DeleteSaved(r)
  PROVE  Organised'
<1> DEFINE list == [q \in DOMAIN saved \ {r} |-> saved[q]]
<1>1. tabs \in [Tabs -> {None} \cup TabRow] /\ saved \in Assignment
  BY DEF Organised
<1>2. /\ saved' = list /\ filter' = ValidFilter(filter, saved')
      /\ tabs' = [t \in Tabs |-> IF t \in Open /\ tabs[t].id = r
                                 THEN [tabs[t] EXCEPT !.id = None, !.group = NoGroup] ELSE tabs[t]]
  BY DEF DeleteSaved
<1>3. list \in Assignment /\ DOMAIN list = DOMAIN saved \ {r} /\ \A q \in DOMAIN list : list[q] = saved[q]
  <2> DEFINE D == DOMAIN saved \ {r}
  <2>1. D \in SUBSET Requests /\ \A q \in D : saved[q] \in Names \cup {NoGroup}
    BY <1>1, AssignedIs
  <2>2. list = [q \in D |-> saved[q]]
    OBVIOUS
  <2> HIDE DEF D, list
  <2>3. list \in [D -> Names \cup {NoGroup}] /\ DOMAIN list = D /\ \A q \in D : list[q] = saved[q]
    BY <2>1, <2>2
  <2> QED BY <2>1, <2>3 DEF Assignment, D
<1> HIDE DEF list
<1>4. ASSUME NEW t \in Tabs
      PROVE  /\ tabs'[t] \in {None} \cup TabRow
             /\ tabs'[t] # None =>
                  IF tabs'[t].id = None THEN tabs'[t].group = NoGroup
                  ELSE tabs'[t].id \in DOMAIN list /\ tabs'[t].group = list[tabs'[t].id]
  <2>1. CASE tabs[t] = None
    BY <2>1, <1>2 DEF Open
  <2>2. CASE tabs[t] # None
    <3>1. /\ tabs[t] \in TabRow
          /\ IF tabs[t].id = None THEN tabs[t].group = NoGroup
             ELSE tabs[t].id \in DOMAIN saved /\ tabs[t].group = saved[tabs[t].id]
      BY <2>2, <1>1 DEF Organised, GroupCopyIsCurrent, Open
    <3>2. CASE tabs[t].id = r
      <4> DEFINE new == [tabs[t] EXCEPT !.id = None, !.group = NoGroup]
      <4>1. tabs'[t] = new
        BY <3>2, <2>2, <1>2 DEF Open
      <4>2. new \in TabRow /\ new.id = None /\ new.group = NoGroup
        BY <3>1 DEF TabRow
      <4> HIDE DEF new
      <4> QED BY <4>1, <4>2
    <3>3. CASE tabs[t].id # r
      <4>1. tabs'[t] = tabs[t]
        BY <3>3, <1>2
      <4> QED BY <4>1, <3>1, <3>3, <1>3
    <3> QED BY <3>2, <3>3
  <2> QED BY <2>1, <2>2
<1>5. tabs' \in [Tabs -> {None} \cup TabRow]
  <2>1. tabs' = [t \in Tabs |-> tabs'[t]]
    BY <1>2
  <2> QED BY <2>1, <1>4
<1>6. GroupCopyIsCurrent'
  BY <1>2, <1>4 DEF GroupCopyIsCurrent, Open
<1>7. FilterHasMembers'
  BY <1>2, ValidIs DEF FilterHasMembers
<1> QED BY <1>2, <1>3, <1>5, <1>6, <1>7 DEF Organised

\* Requests move between groups.
LEMMA GroupsOrganised ==
  ASSUME Organised,
         \/ \E from, to \in Names : RenameGroup(from, to)
         \/ \E from \in Names : DissolveGroup(from)
         \/ \E r \in Requests, g \in Names \cup {NoGroup} : MoveSavedToGroup(r, g)
  PROVE  Organised'
<1>1. saved \in [DOMAIN saved -> Names \cup {NoGroup}]
  BY AssignedIs DEF Organised
<1>2. ASSUME NEW from \in Names, NEW to \in Names, RenameGroup(from, to) PROVE Organised'
  <2> DEFINE list == [r \in DOMAIN saved |-> IF saved[r] = from THEN to ELSE saved[r]]
             chosen == IF filter = from THEN to ELSE filter
  <2>1. Retag(list, chosen) /\ from \in Groups(saved) /\ from # to
    BY <1>2 DEF RenameGroup
  <2>2. list \in [DOMAIN saved -> Names \cup {NoGroup}]
    BY <1>1
  <2>3. PICK r \in DOMAIN saved : saved[r] = from
    BY <2>1 DEF Groups
  <2>4. list[r] # saved[r]
    BY <2>1, <2>3
  <2> HIDE DEF list, chosen
  <2> QED BY <2>1, <2>2, <2>4, RetagKeeps
<1>3. ASSUME NEW from \in Names, DissolveGroup(from) PROVE Organised'
  <2> DEFINE list == [r \in DOMAIN saved |-> IF saved[r] = from THEN NoGroup ELSE saved[r]]
  <2>1. Retag(list, filter)
    BY <1>3 DEF DissolveGroup
  <2>2. list \in [DOMAIN saved -> Names \cup {NoGroup}]
    BY <1>1
  <2> HIDE DEF list
  <2> QED BY <2>1, <2>2, RetagKeeps
<1>4. ASSUME NEW r \in Requests, NEW g \in Names \cup {NoGroup}, MoveSavedToGroup(r, g) PROVE Organised'
  <2> DEFINE list == [saved EXCEPT ![r] = g]
  <2>1. Retag(list, filter)
    BY <1>4 DEF MoveSavedToGroup
  <2>2. list \in [DOMAIN saved -> Names \cup {NoGroup}]
    BY <1>1
  <2> HIDE DEF list
  <2> QED BY <2>1, <2>2, RetagKeeps
<1> QED BY <1>2, <1>3, <1>4

\* Handlers that leave requests, tabs and the filter alone.
LEMMA AsideOrganised ==
  ASSUME Organised, UNCHANGED <<saved, tabs, filter>>
  PROVE  Organised'
BY DEF Organised, GroupCopyIsCurrent, Open, FilterHasMembers

-----------------------------------------------------------------------------
(* The invariant *)

LEMMA InitInv == Init => Stored /\ Organised
<1> SUFFICES ASSUME Init PROVE Stored /\ Organised
  OBVIOUS
<1>1. PICK globals \in VarRows, groups \in UNION {[D -> VarRows] : D \in SUBSET Names},
           env \in EnvIds, active \in EnvIds \cup {None} :
        /\ sets = [globals |-> globals, groups |-> groups,
                   envs |-> <<[id |-> env, rows |-> <<>>]>>, active |-> active]
        /\ active \in {env, None}
  <2>1. <<>> \in VarRows /\ << >> \in [{} -> VarRows]
    BY DEF VarRows
  <2>2. ASSUME NEW g \in Names, NEW k \in Keys, NEW v \in Values
        PROVE  Twice(k, v) \in VarRows /\ OnlyGroup(g, Twice(k, v)) \in [{g} -> VarRows]
    <3>1. Row(k, v) \in VarRow /\ [Row(k, v) EXCEPT !.on = FALSE] \in VarRow
      BY DEF Row, VarRow
    <3>2. Twice(k, v) \in Seq(VarRow)
      BY <3>1 DEF Twice
    <3> QED BY <3>2 DEF VarRows, VarRow, OnlyGroup
  <2>3. PICK stored \in StoredBefore, env \in EnvIds, activated \in BOOLEAN :
               sets = [globals |-> stored.globals, groups |-> stored.groups,
                       envs |-> <<[id |-> env, rows |-> <<>>]>>, active |-> IF activated THEN env ELSE None]
    BY DEF Init
  <2>4. stored.globals \in VarRows /\ \E D \in SUBSET Names : stored.groups \in [D -> VarRows]
    <3>1. CASE stored = [globals |-> <<>>, groups |-> << >>]
      BY <3>1, <2>1
    <3>2. CASE \E g \in Names, k \in Keys, v \in Values :
                 stored = [globals |-> Twice(k, v), groups |-> OnlyGroup(g, Twice(k, v))]
      <4>1. PICK g \in Names, k \in Keys, v \in Values :
                   stored = [globals |-> Twice(k, v), groups |-> OnlyGroup(g, Twice(k, v))]
        BY <3>2
      <4>2. stored.globals \in VarRows /\ stored.groups \in [{g} -> VarRows] /\ {g} \in SUBSET Names
        BY <4>1, <2>2
      <4> QED BY <4>2
    <3>3. stored \in StoredBefore
      BY <2>3
    <3>4. \/ stored = [globals |-> <<>>, groups |-> << >>]
          \/ \E g \in Names, k \in Keys, v \in Values :
               stored = [globals |-> Twice(k, v), groups |-> OnlyGroup(g, Twice(k, v))]
      BY <3>3 DEF StoredBefore
    <3> QED BY <3>1, <3>2, <3>4
  <2> DEFINE active == IF activated THEN env ELSE None
  <2>5. active \in EnvIds \cup {None} /\ active \in {env, None}
    OBVIOUS
  <2>6. sets = [globals |-> stored.globals, groups |-> stored.groups,
                envs |-> <<[id |-> env, rows |-> <<>>]>>, active |-> active]
    BY <2>3
  <2> HIDE DEF active
  <2>7. stored.groups \in UNION {[D -> VarRows] : D \in SUBSET Names}
    BY <2>4
  <2> QED BY <2>4, <2>5, <2>6, <2>7
<1>2. /\ sets \in Sets /\ Len(sets.envs) = 1 /\ sets.envs[1].id = env /\ sets.active \in {env, None}
  <2>1. <<>> \in VarRows
    BY DEF VarRows
  <2>2. [id |-> env, rows |-> <<>>] \in Environment
    BY <2>1 DEF Environment
  <2> QED BY <1>1, <2>2 DEF Sets
<1>3. sets.active # None => EnvIndex(sets, sets.active) # 0
  <2>1. 1 \in 1..Len(sets.envs)
    BY <1>2
  <2> QED BY <2>1, <1>2, IndexIs
<1>4. sheet \in Sheet /\ ~sheet.open
  <2>1. <<>> \in VarRows /\ "Global" \in Scopes
    BY DEF VarRows, Scopes
  <2>2. sheet = [open |-> FALSE, scope |-> "Global", env |-> None, group |-> NoGroup, table |-> <<>>]
    BY DEF Init
  <2> QED BY <2>1, <2>2 DEF Sheet
<1>5. persist \in BOOLEAN /\ changes \in 0..MaxChanges /\ FileFollows
  BY ConstantsAssumption DEF Init, FileFollows
<1>6. /\ saved \in [Requests -> Names \cup {NoGroup}] /\ tabs = [t \in Tabs |-> None] /\ filter = "All"
  BY DEF Init
<1>7. Organised
  BY <1>6 DEF Organised, Assignment, GroupCopyIsCurrent, Open, FilterHasMembers, FilterValid
<1> QED BY <1>2, <1>3, <1>4, <1>5, <1>7 DEF Stored

\* Every handler keeps both halves.
LEMMA StepInv == Stored /\ Organised /\ [Next]_vars => (Stored /\ Organised)'
<1> SUFFICES ASSUME Stored, Organised, [Next]_vars PROVE Stored' /\ Organised'
  OBVIOUS
<1>1. CASE Organise
  <2>1. ASSUME NEW t \in Tabs,
               NewTab(t) \/ CloseTab(t) \/ OverwriteSaved(t) \/ \E r \in Requests : OpenSaved(t, r)
        PROVE  Stored' /\ Organised'
    <3>1. UNCHANGED <<sets, persist, file, sheet, changes>>
      BY <2>1 DEF NewTab, CloseTab, OverwriteSaved, OpenSaved
    <3> QED BY <3>1, <2>1, AsideStored, TabsOrganised
  <2>2. ASSUME NEW t \in Tabs, NEW r \in Requests, NEW g \in Names \cup {NoGroup}, FinishSave(t, r, g)
        PROVE  Stored' /\ Organised'
    BY <2>2, AsideStored, SaveOrganised DEF FinishSave
  <2>3. ASSUME NEW r \in Requests, DeleteSaved(r)
        PROVE  Stored' /\ Organised'
    BY <2>3, AsideStored, DeletionOrganised DEF DeleteSaved
  <2>4. ASSUME NEW r \in Requests, NEW g \in Names \cup {NoGroup}, MoveSavedToGroup(r, g)
        PROVE  Stored' /\ Organised'
    <3>1. UNCHANGED <<sets, persist, file, sheet, changes>>
      BY <2>4 DEF MoveSavedToGroup
    <3> QED BY <3>1, <2>4, AsideStored, GroupsOrganised
  <2>5. ASSUME NEW f, SetSavedFilter(f)
        PROVE  Stored' /\ Organised'
    <3>1. Stored'
      BY <2>5, AsideStored DEF SetSavedFilter
    <3>2. Organised'
      BY <2>5 DEF SetSavedFilter, Organised, GroupCopyIsCurrent, Open, FilterHasMembers
    <3> QED BY <3>1, <3>2
  <2>6. ASSUME NEW from \in Names, NEW to \in Names, RenameGroup(from, to)
        PROVE  Stored' /\ Organised'
    BY <2>6, GroupsStored, GroupsOrganised
  <2>7. ASSUME NEW g \in Names, DissolveGroup(g)
        PROVE  Stored' /\ Organised'
    BY <2>7, GroupsStored, GroupsOrganised
  <2> QED BY <1>1, <2>1, <2>2, <2>3, <2>4, <2>5, <2>6, <2>7 DEF Organise
<1>2. CASE Exchange
  <2>1. ASSUME NEW t \in Tabs, NEW pre \in Ops \cup {None}, NEW extract \in Ops \cup {None},
               NEW v \in Values, Send(t, pre, v, extract)
        PROVE  Stored' /\ Organised'
    <3>1. Organised'
      BY <2>1, ExtractKeeps, AsideOrganised DEF Send
    <3> QED BY <3>1, <2>1, SendStored
  <2>2. ASSUME NEW t \in Tabs, NEW v \in Values, Respond(t, v)
        PROVE  Stored' /\ Organised'
    <3>1. Organised'
      BY <2>2, ExtractKeeps DEF Respond
    <3> QED BY <3>1, <2>2, RespondStored
  <2>3. ASSUME NEW t \in Tabs, EndWithout(t)
        PROVE  Stored' /\ Organised'
    BY <2>3, ExtractKeeps, AsideStored DEF EndWithout
  <2> QED BY <1>2, <2>1, <2>2, <2>3 DEF Exchange
<1>3. CASE Drawer
  <2>1. Organised'
    <3>1. UNCHANGED <<saved, tabs, filter>>
      BY <1>3 DEF Drawer, OpenSheet, CloseSheet, DeleteEnv, SetScope, SelectEnv, SelectGroup, TurnPage,
                  EditTable, NewEnv, SetActiveEnvironment, ImportEnvironment, ImportGlobals
    <3> QED BY <3>1, AsideOrganised
  <2>2. Stored'
    <3>1. CASE \/ \E scope \in Scopes, g \in Names \cup {NoGroup} : OpenSheet(scope, g)
               \/ CloseSheet
               \/ \E scope \in Scopes : SetScope(scope)
               \/ \E i \in DOMAIN sets.envs : SelectEnv(i)
               \/ \E g \in Names : SelectGroup(g)
      BY <3>1, PagesStored
    <3>2. CASE DeleteEnv
      BY <3>2, DeleteStored
    <3>3. ASSUME NEW rows \in Edited(sheet.table), EditTable(rows) PROVE Stored'
      BY <3>3, EditStored
    <3>4. ASSUME NEW id \in EnvIds, NewEnv(id) PROVE Stored'
      BY <3>4, NewEnvStored
    <3>5. ASSUME NEW id \in EnvIds, NEW k \in Keys, NEW v \in Values, ImportEnvironment(id, <<Row(k, v)>>)
          PROVE  Stored'
      BY <3>5, ImportEnvStored
    <3>6. ASSUME NEW id \in EnvIds \cup {None}, SetActiveEnvironment(id) PROVE Stored'
      BY <3>6, ActivateStored
    <3>7. ASSUME NEW k \in Keys, NEW v \in Values, ImportGlobals(Row(k, v)) PROVE Stored'
      BY <3>7, ImportStored
    <3> QED BY <1>3, <3>1, <3>2, <3>3, <3>4, <3>5, <3>6, <3>7 DEF Drawer
  <2> QED BY <2>1, <2>2
<1>4. CASE UNCHANGED vars
  BY <1>4, AsideStored, AsideOrganised DEF vars
<1> QED BY <1>1, <1>2, <1>3, <1>4 DEF Next

\* What both halves say together.
LEMMA Says == Stored /\ Organised => CopiesAreCurrent
<1> SUFFICES ASSUME Stored, Organised PROVE CopiesAreCurrent
  OBVIOUS
<1>1. sets \in Sets /\ sheet \in Sheet /\ saved \in Assignment
  BY DEF Stored, Organised
<1>2. /\ sets.globals \in VarRows /\ sets.active \in EnvIds \cup {None}
      /\ \A i \in DOMAIN sets.envs : sets.envs[i].id \in EnvIds /\ sets.envs[i].rows \in VarRows
  <2>1. DOMAIN sets.envs = 1..Len(sets.envs)
    BY <1>1, EnvsAre
  <2> QED BY <2>1, <1>1, EnvsAre DEF Sets
<1>3. DOMAIN sets.groups \subseteq Names /\ \A g \in DOMAIN sets.groups : sets.groups[g] \in VarRows
  BY <1>1, GroupsAre
<1>4. DOMAIN saved \subseteq Requests /\ \A r \in DOMAIN saved : saved[r] \in Names \cup {NoGroup}
  BY <1>1, AssignedIs
<1>5. sheet.scope \in Scopes /\ sheet.env \in EnvIds \cup {None} /\ sheet.table \in VarRows
  BY <1>1 DEF Sheet
<1>6. persist \in BOOLEAN /\ changes \in 0..MaxChanges /\ tabs \in [Tabs -> {None} \cup TabRow]
  BY DEF Stored, Organised
<1>7. TypeOK
  BY <1>2, <1>3, <1>4, <1>5, <1>6 DEF TypeOK, TabRow
<1>8. DrawerShowsStored
  BY DEF Stored, Shows, EnvShown, DrawerShowsStored
<1> QED BY <1>7, <1>8 DEF CopiesAreCurrent, Stored, Organised

\* Whatever was renamed, moved, deleted, sent, answered, edited or imported, and
\* in whatever order: the group of a tab, the filter of the side bar, the rows of
\* the drawer and the file are those of the saved requests and of the table.
THEOREM CopiesCurrent == Spec => []CopiesAreCurrent
<1>1. Spec => [](Stored /\ Organised)
  BY InitInv, StepInv, PTL DEF Spec
<1> QED BY <1>1, Says, PTL

-----------------------------------------------------------------------------
(* Where groups come from, and what they keep *)

\* A group that is new is one a request has by then, or the one the drawer edits.
Justified ==
  \A g \in DOMAIN sets'.groups \ DOMAIN sets.groups :
     g \in Groups(saved') \/ (sheet.open /\ sheet.scope = "Group" /\ sheet.group = g)

\* The group a tab shows is one a request has.
LEMMA TabsGroupIsThere ==
  ASSUME Organised, NEW t \in Open, tabs[t].group \in Names
  PROVE  tabs[t].group \in Groups(saved)
<1>1. tabs[t].id \in DOMAIN saved /\ tabs[t].group = saved[tabs[t].id]
  BY ConstantsAssumption DEF Organised, GroupCopyIsCurrent
<1> QED BY <1>1, ConstantsAssumption DEF Groups

\* A variable that a request writes.
LEMMA WritingJustified ==
  ASSUME Stored, Organised, NEW t \in Open, NEW op \in Ops, NEW value \in Values, saved' = saved,
         sets' = SetVar(sets, op.scope, tabs[t].group, op.key, value)
  PROVE  Justified
<1>1. tabs[t] \in TabRow
  BY DEF Open, Organised
<1>2. op.scope \in Scopes /\ op.key \in Keys /\ tabs[t].group \in Names \cup {NoGroup}
  BY <1>1 DEF Ops, TabRow
<1>3. NewGroups(sets, sets', {tabs[t].group} \cap Names)
  BY <1>2, SetVarIs DEF Stored
<1> QED BY <1>3, TabsGroupIsThere DEF NewGroups, Justified

LEMMA ExchangeJustified == ASSUME Stored, Organised, Exchange PROVE Justified
<1>1. CASE sets' = sets
  BY <1>1 DEF Justified
<1>2. ASSUME NEW t \in Tabs, NEW pre \in Ops \cup {None}, NEW extract \in Ops \cup {None},
             NEW v \in Values, Send(t, pre, v, extract), sets' # sets
      PROVE  Justified
  <2>1. t \in Open /\ saved' = saved /\ sets' = Prepared(t, pre, v)
    BY <1>2 DEF Send, Update
  <2>2. pre \in Ops /\ sets' = SetVar(sets, pre.scope, tabs[t].group, pre.key, v)
    BY <1>2, <2>1 DEF Prepared
  <2> QED BY <2>1, <2>2, WritingJustified
<1>3. ASSUME NEW t \in Tabs, NEW v \in Values, Respond(t, v)
      PROVE  Justified
  <2> DEFINE op == tabs[t].extract
  <2>1. /\ t \in Open /\ saved' = saved /\ op # None
        /\ sets' = SetVar(sets, op.scope, tabs[t].group, op.key, v)
    BY <1>3 DEF Respond, Update
  <2>2. op \in Ops
    BY <2>1 DEF Open, Organised, TabRow
  <2> HIDE DEF op
  <2> QED BY <2>1, <2>2, WritingJustified
<1>4. ASSUME NEW t \in Tabs, EndWithout(t) PROVE sets' = sets
  BY <1>4 DEF EndWithout
<1> QED BY <1>1, <1>2, <1>3, <1>4 DEF Exchange

LEMMA OrganiseJustified == ASSUME Stored, Organised, Organise PROVE Justified
<1>1. CASE sets' = sets
  BY <1>1 DEF Justified
<1>2. ASSUME NEW from \in Names, NEW to \in Names, RenameGroup(from, to) PROVE Justified
  <2>1. /\ from # to /\ from \in Groups(saved) /\ sets' = RenamedGroup(sets, from, to)
        /\ saved' = [r \in DOMAIN saved |-> IF saved[r] = from THEN to ELSE saved[r]]
    BY <1>2 DEF RenameGroup, Retag, Update
  <2>2. NewGroups(sets, sets', {to})
    BY <2>1, RenamedIs DEF Stored
  <2>3. to \in Groups(saved')
    BY <2>1, ConstantsAssumption DEF Groups
  <2> QED BY <2>2, <2>3 DEF NewGroups, Justified
<1>3. ASSUME NEW g \in Names, DissolveGroup(g) PROVE Justified
  <2>1. sets' = WithoutGroup(sets, g)
    BY <1>3 DEF DissolveGroup, Update
  <2>2. DOMAIN sets'.groups = DOMAIN sets.groups \ {g}
    BY <2>1, WithoutGroupIs DEF Stored
  <2> QED BY <2>2 DEF Justified
<1>4. \/ sets' = sets
      \/ \E from, to \in Names : RenameGroup(from, to)
      \/ \E g \in Names : DissolveGroup(g)
  BY DEF Organise, NewTab, CloseTab, OverwriteSaved, OpenSaved, FinishSave, DeleteSaved, MoveSavedToGroup,
         SetSavedFilter
<1> QED BY <1>1, <1>2, <1>3, <1>4

LEMMA DrawerJustified == ASSUME Stored, Drawer PROVE Justified
<1>1. sets \in Sets
  BY DEF Stored
<1>2. CASE sets'.groups = sets.groups
  BY <1>2 DEF Justified
<1>3. CASE DeleteEnv
  <2> DEFINE all == Picked(sets.envs, {i \in DOMAIN sets.envs : sets.envs[i].id # sheet.env})
             active == IF sets.active = sheet.env THEN None ELSE sets.active
  <2>1. sets' = [sets EXCEPT !.envs = all, !.active = active]
    BY <1>3 DEF DeleteEnv, Update
  <2> HIDE DEF all, active
  <2>2. sets'.groups = sets.groups
    BY <2>1, <1>1 DEF Sets
  <2> QED BY <2>2, <1>2
<1>4. ASSUME NEW rows \in Edited(sheet.table), EditTable(rows) PROVE Justified
  <2>1. /\ sheet \in Sheet /\ EnvShown(sets, sheet) /\ sheet.open
        /\ sets' = Committed(sets, sheet, rows)
        /\ sheet.scope = "Environment" => sheet.env # None
        /\ sheet.scope = "Group" => sheet.group # NoGroup
    BY <1>4 DEF EditTable, PageExists, Stored, Shows, Update
  <2>2. rows \in VarRows
    BY <2>1, EditedIs DEF Sheet
  <2>3. NewGroups(sets, sets', PageGroup(sheet))
    BY <2>1, <2>2, <1>1, CommittedIs
  <2> QED BY <2>1, <2>3 DEF NewGroups, PageGroup, Justified
<1>5. ASSUME NEW id \in EnvIds, NewEnv(id) PROVE sets'.groups = sets.groups
  <2> DEFINE all == Append(sets.envs, [id |-> id, rows |-> <<>>])
  <2>1. sets' = [sets EXCEPT !.envs = all]
    BY <1>5 DEF NewEnv, Update
  <2> HIDE DEF all
  <2> QED BY <2>1, <1>1 DEF Sets
<1>6. ASSUME NEW id \in EnvIds, NEW k \in Keys, NEW v \in Values, ImportEnvironment(id, <<Row(k, v)>>)
      PROVE  sets'.groups = sets.groups
  <2> DEFINE all == Append(sets.envs, [id |-> id, rows |-> <<Row(k, v)>>])
  <2>1. sets' = [sets EXCEPT !.envs = all, !.active = id]
    BY <1>6 DEF ImportEnvironment, Update
  <2> HIDE DEF all
  <2> QED BY <2>1, <1>1 DEF Sets
<1>7. ASSUME NEW id \in EnvIds \cup {None}, SetActiveEnvironment(id) PROVE sets'.groups = sets.groups
  <2>1. sets' = [sets EXCEPT !.active = id]
    BY <1>7 DEF SetActiveEnvironment, Update
  <2> QED BY <2>1, <1>1 DEF Sets
<1>8. ASSUME NEW k \in Keys, NEW v \in Values, ImportGlobals(Row(k, v)) PROVE sets'.groups = sets.groups
  <2> DEFINE at == SelectInSeq(sets.globals, LAMBDA g : g.key = Row(k, v).key)
             rows == IF at = 0 THEN Append(sets.globals, Row(k, v)) ELSE [sets.globals EXCEPT ![at] = Row(k, v)]
  <2>1. sets' = [sets EXCEPT !.globals = rows]
    BY <1>8 DEF ImportGlobals, Update
  <2> HIDE DEF rows
  <2> QED BY <2>1, <1>1 DEF Sets
<1>9. ASSUME \/ \E scope \in Scopes, g \in Names \cup {NoGroup} : OpenSheet(scope, g)
             \/ CloseSheet
             \/ \E scope \in Scopes : SetScope(scope)
             \/ \E i \in DOMAIN sets.envs : SelectEnv(i)
             \/ \E g \in Names : SelectGroup(g)
      PROVE  sets'.groups = sets.groups
  BY <1>9 DEF OpenSheet, CloseSheet, SetScope, SelectEnv, SelectGroup, TurnPage
<1> QED BY <1>2, <1>3, <1>4, <1>5, <1>6, <1>7, <1>8, <1>9 DEF Drawer

\* A group that was renamed or dissolved while a request was under way does not
\* come back with the answer.
THEOREM NoGroupRevives == Spec => NoRevival
<1>1. Stored /\ Organised /\ [Next]_vars => [Justified]_vars
  BY ExchangeJustified, OrganiseJustified, DrawerJustified DEF Next
<1>2. Spec => [](Stored /\ Organised)
  BY InitInv, StepInv, PTL DEF Spec
<1>3. Spec => [][Justified]_vars
  BY <1>1, <1>2, PTL DEF Spec
<1> QED BY <1>3 DEF NoRevival, Justified

\* The rows of a name, and those of them that are on.
Named(rows, key) == {i \in 1..Len(rows) : rows[i].key = key}
Lit(rows, key) == {i \in 1..Len(rows) : rows[i].on /\ rows[i].key = key}

\* What is read in rows: the value of the first row of the name that is on.
LEMMA ReadIs ==
  ASSUME NEW rows \in VarRows, NEW key
  PROVE  /\ Lit(rows, key) = {} => Read(rows, key) = None
         /\ Lit(rows, key) # {} => /\ Min(Lit(rows, key)) \in Lit(rows, key)
                                   /\ Read(rows, key) = rows[Min(Lit(rows, key))].value
<1> DEFINE I == Lit(rows, key)
<1>1. Len(rows) \in Nat /\ I \in SUBSET Nat
  BY DEF VarRows, Lit
<1>2. SelectInSeq(rows, LAMBDA r : r.on /\ r.key = key) = IF I # {} THEN Min(I) ELSE 0
  BY DEF SelectInSeq, Lit
<1> HIDE DEF I
<1>3. I # {} => Min(I) \in I
  BY <1>1, MinIs
<1>4. I # {} => Min(I) # 0
  BY <1>1, <1>3 DEF I, Lit
<1> QED BY <1>2, <1>3, <1>4 DEF Read, I

LEMMA FirstRowIs ==
  ASSUME NEW rows \in VarRows, NEW key, NEW f, f = Min(Named(rows, key))
  PROVE  /\ Named(rows, key) = {} => FirstRow(rows, key) = None
         /\ Named(rows, key) # {} => /\ f \in Named(rows, key) /\ \A i \in Named(rows, key) : f <= i
                                     /\ FirstRow(rows, key) = IF rows[f].on THEN rows[f].value ELSE None
<1> DEFINE I == Named(rows, key)
<1>1. Len(rows) \in Nat /\ I \in SUBSET Nat
  BY DEF VarRows, Named
<1>2. SelectInSeq(rows, LAMBDA r : r.key = key) = IF I # {} THEN Min(I) ELSE 0
  BY DEF SelectInSeq, Named
<1> HIDE DEF I
<1>3. I # {} => Min(I) \in I /\ \A i \in I : Min(I) <= i
  BY <1>1, MinIs
<1>4. I # {} => Min(I) # 0
  BY <1>1, <1>3 DEF I, Named
<1> QED BY <1>2, <1>3, <1>4 DEF FirstRow, I

\* What is read in the rows a group has after another one was renamed to it.
ReadThen(target, own, k) ==
  IF \E i \in DOMAIN target : target[i].key = k THEN Read(target, k) ELSE FirstRow(own, k)

LEMMA ReadAfter ==
  ASSUME NEW target \in VarRows, NEW own \in VarRows, NEW k,
         NEW rows, rows = target \o Picked(own, Added(target, own))
  PROVE  Read(rows, k) = ReadThen(target, own, k)
<1> DEFINE moved == Picked(own, Added(target, own))
           n == Len(target)
           I == Lit(rows, k)
<1>1. /\ VarRows = Seq(VarRow) /\ target \in Seq(VarRow) /\ own \in Seq(VarRow) /\ n \in Nat
      /\ DOMAIN target = 1..n /\ DOMAIN own = 1..Len(own) /\ Len(own) \in Nat
  BY DEF VarRows, VarRow
<1>2. /\ moved \in Seq(VarRow) /\ Len(moved) \in Nat
      /\ \A i \in Added(target, own) : \E m \in 1..Len(moved) : moved[m] = own[i]
      /\ \A m \in 1..Len(moved) : \E i \in Added(target, own) : moved[m] = own[i]
  <2>1. Added(target, own) \in SUBSET DOMAIN own
    BY DEF Added
  <2> QED BY <2>1, <1>1, PickedIs
<1>3. rows = target \o moved
  OBVIOUS
<1> HIDE DEF moved, n
<1>4. /\ rows \in VarRows /\ Len(rows) = n + Len(moved)
      /\ \A i \in 1..n : rows[i] = target[i]
      /\ \A i \in 1..Len(rows) : i > n => i - n \in 1..Len(moved) /\ rows[i] = moved[i - n]
      /\ \A m \in 1..Len(moved) : n + m \in 1..Len(rows) /\ rows[n + m] = moved[m]
  BY <1>1, <1>2, <1>3 DEF n
<1>5. /\ I = {} => Read(rows, k) = None
      /\ I # {} => Min(I) \in I /\ Read(rows, k) = rows[Min(I)].value
  <2>1. rows \in VarRows
    BY <1>4
  <2> QED BY <2>1, ReadIs
<1>6. CASE \E i \in DOMAIN target : target[i].key = k
  <2> DEFINE J == Lit(target, k)
  <2>1. /\ J = {} => Read(target, k) = None
        /\ J # {} => Min(J) \in J /\ Read(target, k) = target[Min(J)].value
    BY ReadIs
  <2>2. ASSUME NEW i \in 1..Len(rows), i > n PROVE rows[i].key # k
    <3>1. i - n \in 1..Len(moved) /\ rows[i] = moved[i - n]
      BY <1>4, <2>2
    <3>2. PICK j \in Added(target, own) : rows[i] = own[j]
      BY <1>2, <3>1
    <3> QED BY <3>2, <1>6 DEF Added
  <2>3. I = J
    <3>1. \A i \in 1..Len(rows) : i \in I => i \in 1..n
      BY <2>2, <1>1, <1>2, <1>4 DEF Lit
    <3>2. 1..n \subseteq 1..Len(rows)
      BY <1>1, <1>2, <1>4
    <3> QED BY <3>1, <3>2, <1>4 DEF Lit, n
  <2>4. \A i \in J : rows[i] = target[i]
    BY <1>4 DEF Lit, n
  <2> HIDE DEF I, J
  <2> QED BY <2>1, <2>3, <2>4, <1>5, <1>6 DEF ReadThen
<1>7. CASE ~ \E i \in DOMAIN target : target[i].key = k
  <2> DEFINE J == Named(own, k)
             f == Min(J)
  <2>1. /\ J = {} => FirstRow(own, k) = None
        /\ J # {} => /\ f \in J /\ \A i \in J : f <= i
                     /\ FirstRow(own, k) = IF own[f].on THEN own[f].value ELSE None
    <3> HIDE DEF f
    <3>1. f = Min(Named(own, k))
      BY DEF f
    <3> QED BY <3>1, FirstRowIs
  <2> HIDE DEF f
  <2>2. ASSUME NEW i \in Added(target, own), own[i].key = k PROVE J # {} /\ i = f
    <3>1. i \in J
      BY <2>2, <1>1 DEF Added, Named
    <3>2. f \in 1..Len(own) /\ own[f].key = k /\ f <= i /\ i \in 1..Len(own)
      BY <3>1, <2>1 DEF Named
    <3>3. ~(f < i)
      BY <3>2, <2>2, <1>1 DEF Added
    <3> QED BY <3>1, <3>2, <3>3
  <2>3. ASSUME NEW i \in I PROVE J # {} /\ own[f].on /\ rows[i].value = own[f].value
    <3>1. i > n /\ i \in 1..Len(rows) /\ rows[i].on /\ rows[i].key = k
      <4>1. i \in 1..Len(rows) /\ rows[i].on /\ rows[i].key = k
        BY DEF Lit
      <4>2. ~(i \in 1..n)
        BY <4>1, <1>1, <1>4, <1>7
      <4> QED BY <4>1, <4>2, <1>1, <1>2, <1>4
    <3>2. i - n \in 1..Len(moved) /\ rows[i] = moved[i - n]
      BY <3>1, <1>4
    <3>3. PICK j \in Added(target, own) : rows[i] = own[j]
      BY <3>2, <1>2
    <3> QED BY <3>1, <3>3, <2>2
  <2>4. ASSUME J # {}, own[f].on PROVE I # {}
    <3>1. f \in 1..Len(own) /\ own[f].key = k /\ \A i \in 1..Len(own) : own[i].key = k => f <= i
      BY <2>1, <2>4 DEF Named
    <3>2. f \in Added(target, own)
      <4>1. \A j \in DOMAIN target : target[j].key # own[f].key
        BY <3>1, <1>7
      <4>2. \A j \in DOMAIN own : j < f => own[j].key # own[f].key
        BY <3>1, <1>1
      <4> QED BY <4>1, <4>2, <3>1, <1>1 DEF Added
    <3>3. PICK m \in 1..Len(moved) : moved[m] = own[f]
      BY <3>2, <1>2
    <3>4. n + m \in I
      BY <3>1, <3>3, <2>4, <1>4 DEF Lit
    <3> QED BY <3>4
  <2> HIDE DEF I, J
  <2>5. CASE I = {}
    BY <2>5, <2>1, <2>4, <1>5, <1>7 DEF ReadThen
  <2>6. CASE I # {}
    BY <2>6, <2>1, <2>3, <1>5, <1>7 DEF ReadThen
  <2> QED BY <2>5, <2>6
<1> QED BY <1>6, <1>7

\* Renaming a group keeps the value each name has in it, as far as its first row gives it.
THEOREM RenamingKeepsValues == Spec => RenameKeepsValues
<1> DEFINE Kept(from, to, k) ==
             LET there == \E i \in DOMAIN GroupVars(sets, to) : GroupVars(sets, to)[i].key = k IN
             Read(GroupVars(sets', to), k) =
               IF there THEN Read(GroupVars(sets, to), k) ELSE FirstRow(GroupVars(sets, from), k)
<1>1. ASSUME Stored, NEW from \in Names, NEW to \in Names, NEW k \in Keys, RenameGroup(from, to)
      PROVE  Kept(from, to, k)
  <2>1. sets \in Sets /\ from # to /\ sets' = RenamedGroup(sets, from, to)
    BY <1>1 DEF RenameGroup, Update, Stored
  <2>2. GroupVars(sets, to) \in VarRows /\ GroupVars(sets, from) \in VarRows
    BY <2>1, GroupsAre
  <2>3. CASE from \in DOMAIN sets.groups
    <3>1. GroupVars(sets', to) = GroupVars(sets, to)
            \o Picked(GroupVars(sets, from), Added(GroupVars(sets, to), GroupVars(sets, from)))
      BY <2>1, <2>3, RenamedIs DEF GroupVars
    <3> DEFINE target == GroupVars(sets, to)
               own == GroupVars(sets, from)
               rows == GroupVars(sets', to)
    <3>2. target \in VarRows /\ own \in VarRows /\ rows = target \o Picked(own, Added(target, own))
      BY <3>1, <2>2
    <3> HIDE DEF target, own, rows
    <3>3. Read(rows, k) = IF \E i \in DOMAIN target : target[i].key = k THEN Read(target, k)
                          ELSE FirstRow(own, k)
      <4>1. Read(rows, k) = ReadThen(target, own, k)
        BY <3>2, ReadAfter
      <4> QED BY <4>1 DEF ReadThen
    <3> QED BY <3>3 DEF target, own, rows
  <2>4. CASE from \notin DOMAIN sets.groups
    <3>1. sets' = sets /\ GroupVars(sets, from) = <<>>
      BY <2>1, <2>4, RenamedIs DEF GroupVars
    <3>2. FirstRow(<<>>, k) = None
      <4>1. <<>> \in VarRows /\ Named(<<>>, k) = {}
        BY DEF VarRows, Named
      <4> QED BY <4>1, FirstRowIs
    <3>3. ASSUME ~ \E i \in DOMAIN GroupVars(sets, to) : GroupVars(sets, to)[i].key = k
          PROVE  Read(GroupVars(sets, to), k) = None
      <4> DEFINE rows == GroupVars(sets, to)
      <4>1. rows \in VarRows /\ DOMAIN rows = 1..Len(rows)
        BY <2>2 DEF VarRows
      <4> HIDE DEF rows
      <4>2. Lit(rows, k) = {}
        BY <4>1, <3>3 DEF rows, Lit
      <4>3. Read(rows, k) = None
        BY <4>1, <4>2, ReadIs
      <4> QED BY <4>3 DEF rows
    <3> QED BY <3>1, <3>2, <3>3
  <2> QED BY <2>3, <2>4
<1>2. ASSUME Stored
      PROVE  \A from, to \in Names, k \in Keys : RenameGroup(from, to) => Kept(from, to, k)
  BY <1>1, <1>2
<1>3. Spec => [](Stored /\ Organised)
  BY InitInv, StepInv, PTL DEF Spec
<1>4. Spec => [][\A from, to \in Names, k \in Keys : RenameGroup(from, to) => Kept(from, to, k)]_vars
  BY <1>2, <1>3, PTL DEF Spec
<1> QED BY <1>4 DEF RenameKeepsValues

-----------------------------------------------------------------------------
(* The calendar of {{$isoTimestamp}} *)

\* The days of an era before one of its years.
DaysBefore(y) == 365 * y + y \div 4 - y \div 100

Leap(year) == year % 4 = 0 /\ (year % 100 # 0 \/ year % 400 = 0)

\* The parts of a date.
Era(days) == (days + 719468) \div 146097
InEra(days) == days + 719468 - Era(days) * 146097
YearIn(doe) == (doe - doe \div 1460 + doe \div 36524 - doe \div 146096) \div 365

FallsIn(doe, y) ==
  /\ y \in Nat /\ y <= 399 /\ DaysBefore(y) <= doe /\ doe <= DaysBefore(y) + 365
  /\ y < 399 => doe < DaysBefore(y + 1)

\* iso_utc finds the year that a day of an era belongs to.
LEMMA YearOf ==
  ASSUME NEW doe \in Nat, doe <= 146096
  PROVE  FallsIn(doe, YearIn(doe))
<1> DEFINE y == YearIn(doe)
<1> DEFINE a == doe \div 1460
           b == doe \div 36524
           e == doe \div 146096
<1>1. /\ a \in Nat /\ 1460 * a <= doe /\ doe < 1460 * a + 1460
      /\ b \in Nat /\ 36524 * b <= doe /\ doe < 36524 * b + 36524
      /\ e \in Nat /\ 146096 * e <= doe /\ doe < 146096 * e + 146096
  OBVIOUS
<1>2. y = (doe - a + b - e) \div 365
  BY DEF YearIn
<1> HIDE DEF a, b, e, y
<1>3. doe - a + b - e \in Nat
  BY <1>1
<1>4. y \in Nat /\ 365 * y <= doe - a + b - e /\ doe - a + b - e < 365 * y + 365
  BY <1>1, <1>2, <1>3
<1> DEFINE q == y \div 4
           h == y \div 100
           q1 == (y + 1) \div 4
           h1 == (y + 1) \div 100
<1>5. /\ q \in Nat /\ 4 * q <= y /\ y < 4 * q + 4
      /\ h \in Nat /\ 100 * h <= y /\ y < 100 * h + 100
      /\ q1 \in Nat /\ 4 * q1 <= y + 1 /\ y + 1 < 4 * q1 + 4
      /\ h1 \in Nat /\ 100 * h1 <= y + 1 /\ y + 1 < 100 * h1 + 100
  BY <1>4
<1>6. DaysBefore(y) = 365 * y + q - h /\ DaysBefore(y + 1) = 365 * (y + 1) + q1 - h1
  BY DEF DaysBefore
<1> HIDE DEF q, h, q1, h1
<1>7. b <= 4 /\ e <= 1
  BY <1>1
<1>8. y <= 399
  BY <1>1, <1>4, <1>7
<1>9. h <= 3
  BY <1>4, <1>5, <1>8
<1>10. 365 * y + q - h <= doe /\ doe <= 365 * y + q - h + 365
  BY <1>1, <1>4, <1>5, <1>7, <1>8, <1>9
<1>11. y < 399 => doe < 365 * (y + 1) + q1 - h1
  BY <1>1, <1>4, <1>5, <1>7, <1>8, <1>9
<1> QED BY <1>4, <1>6, <1>8, <1>10, <1>11 DEF y, FallsIn

\* The years of an era follow each other, and the leap years are the longer ones.
LEMMA YearEnds ==
  ASSUME NEW y \in Nat, y <= 399
  PROVE  /\ DaysBefore(y) \in Nat
         /\ y < 399 => DaysBefore(y + 1) = DaysBefore(y) + (IF Leap(y + 1) THEN 366 ELSE 365)
         /\ \A x \in Nat : x < y => DaysBefore(x + 1) \in Nat /\ DaysBefore(x + 1) <= DaysBefore(y)
<1> DEFINE q == y \div 4
           h == y \div 100
           q1 == (y + 1) \div 4
           h1 == (y + 1) \div 100
<1>1. /\ q \in Nat /\ 4 * q <= y /\ y < 4 * q + 4
      /\ h \in Nat /\ 100 * h <= y /\ y < 100 * h + 100
      /\ q1 \in Nat /\ 4 * q1 <= y + 1 /\ y + 1 < 4 * q1 + 4
      /\ h1 \in Nat /\ 100 * h1 <= y + 1 /\ y + 1 < 100 * h1 + 100
  OBVIOUS
<1>2. DaysBefore(y) = 365 * y + q - h /\ DaysBefore(y + 1) = 365 * (y + 1) + q1 - h1
  BY DEF DaysBefore
<1>3. DaysBefore(y) \in Nat
  BY <1>1, <1>2
<1>4. ASSUME y < 399 PROVE DaysBefore(y + 1) = DaysBefore(y) + (IF Leap(y + 1) THEN 366 ELSE 365)
  <2>1. (y + 1) % 4 = 0 <=> q1 = q + 1
    BY <1>1
  <2>2. (y + 1) % 100 = 0 <=> h1 = h + 1
    BY <1>1
  <2>3. (y + 1) % 400 # 0
    BY <1>4
  <2>4. q1 \in {q, q + 1} /\ h1 \in {h, h + 1}
    BY <1>1
  <2>5. (y + 1) % 100 = 0 => (y + 1) % 4 = 0
    OBVIOUS
  <2> HIDE DEF q, h, q1, h1
  <2> QED BY <1>1, <1>2, <1>3, <2>1, <2>2, <2>3, <2>4, <2>5 DEF Leap
<1>5. ASSUME NEW x \in Nat, x < y PROVE DaysBefore(x + 1) \in Nat /\ DaysBefore(x + 1) <= DaysBefore(y)
  <2> DEFINE q2 == (x + 1) \div 4
             h2 == (x + 1) \div 100
  <2>1. /\ q2 \in Nat /\ 4 * q2 <= x + 1 /\ x + 1 < 4 * q2 + 4
        /\ h2 \in Nat /\ 100 * h2 <= x + 1 /\ x + 1 < 100 * h2 + 100
    OBVIOUS
  <2>2. DaysBefore(x + 1) = 365 * (x + 1) + q2 - h2
    BY DEF DaysBefore
  <2> HIDE DEF q, h, q2, h2
  <2> QED BY <1>1, <1>2, <1>5, <2>1, <2>2
<1> QED BY <1>3, <1>4, <1>5

\* A year in an era is a leap year when the year it is in the calendar is one.
LEMMA LeapInEra ==
  ASSUME NEW era \in Nat, NEW y \in Nat
  PROVE  Leap(y + 400 * era) <=> Leap(y)
<1>1. (y + 400 * era) % 4 = y % 4
  BY SMTT(30)
<1>2. (y + 400 * era) % 100 = y % 100
  BY SMTT(30)
<1>3. (y + 400 * era) % 400 = y % 400
  BY SMTT(30)
<1> QED BY <1>1, <1>2, <1>3 DEF Leap

\* The month and the day that iso_utc finds for a day of a year.
Month(doy) == (5 * doy + 2) \div 153
DayOf(doy) == doy - (153 * Month(doy) + 2) \div 5 + 1

\* The first days of the months, which are counted from March.
FallsOn(doy, mp, d) ==
  /\ mp \in Nat /\ mp <= 11
  /\ mp = 0 => doy <= 30 /\ d = doy + 1
  /\ mp = 1 => 31 <= doy /\ doy <= 60 /\ d = doy - 30
  /\ mp = 2 => 61 <= doy /\ doy <= 91 /\ d = doy - 60
  /\ mp = 3 => 92 <= doy /\ doy <= 121 /\ d = doy - 91
  /\ mp = 4 => 122 <= doy /\ doy <= 152 /\ d = doy - 121
  /\ mp = 5 => 153 <= doy /\ doy <= 183 /\ d = doy - 152
  /\ mp = 6 => 184 <= doy /\ doy <= 213 /\ d = doy - 183
  /\ mp = 7 => 214 <= doy /\ doy <= 244 /\ d = doy - 213
  /\ mp = 8 => 245 <= doy /\ doy <= 274 /\ d = doy - 244
  /\ mp = 9 => 275 <= doy /\ doy <= 305 /\ d = doy - 274
  /\ mp = 10 => 306 <= doy /\ doy <= 336 /\ d = doy - 305
  /\ mp = 11 => 337 <= doy /\ d = doy - 336

LEMMA MonthArithmetic ==
  ASSUME NEW doy \in Nat, doy <= 365,
         NEW mp \in Nat, 153 * mp <= 5 * doy + 2, 5 * doy + 2 < 153 * mp + 153,
         NEW c \in Nat, 5 * c <= 153 * mp + 2, 153 * mp + 2 < 5 * c + 5
  PROVE  FallsOn(doy, mp, doy - c + 1)
<1>1. mp <= 11
  OBVIOUS
<1>2. /\ mp = 0 => c = 0
      /\ mp = 1 => c = 31
      /\ mp = 2 => c = 61
      /\ mp = 3 => c = 92
      /\ mp = 4 => c = 122
      /\ mp = 5 => c = 153
  OBVIOUS
<1>3. /\ mp = 6 => c = 184
      /\ mp = 7 => c = 214
      /\ mp = 8 => c = 245
      /\ mp = 9 => c = 275
      /\ mp = 10 => c = 306
      /\ mp = 11 => c = 337
  OBVIOUS
<1> QED BY <1>1, <1>2, <1>3 DEF FallsOn

LEMMA Months ==
  ASSUME NEW doy \in Nat, doy <= 365
  PROVE  FallsOn(doy, Month(doy), DayOf(doy))
<1> DEFINE mp == Month(doy)
           c == (153 * mp + 2) \div 5
<1>1. mp \in Nat /\ 153 * mp <= 5 * doy + 2 /\ 5 * doy + 2 < 153 * mp + 153
  BY DEF Month
<1>2. DayOf(doy) = doy - c + 1
  BY DEF DayOf
<1> HIDE DEF mp
<1>3. c \in Nat /\ 5 * c <= 153 * mp + 2 /\ 153 * mp + 2 < 5 * c + 5
  BY <1>1
<1> HIDE DEF c
<1>4. FallsOn(doy, mp, doy - c + 1)
  BY <1>1, <1>3, MonthArithmetic
<1> QED BY <1>2, <1>4 DEF mp

\* From one day of a year to the next.
LEMMA MonthEnds ==
  ASSUME NEW doy \in Nat, doy <= 364,
         NEW mp, mp = Month(doy), NEW d, d = DayOf(doy)
  PROVE  /\ \/ /\ Month(doy + 1) = mp /\ DayOf(doy + 1) = d + 1
               /\ mp \in {1, 3, 6, 8} => d < 30
               /\ mp \notin {1, 3, 6, 8, 11} => d < 31
            \/ /\ Month(doy + 1) = mp + 1 /\ DayOf(doy + 1) = 1
               /\ mp \in {1, 3, 6, 8} => d = 30
               /\ mp \notin {1, 3, 6, 8} => d = 31
               /\ mp # 11
         /\ mp = 11 => d <= 28 /\ (d = 28 => doy = 364)
<1> DEFINE mn == Month(doy + 1)
           dn == DayOf(doy + 1)
<1>1. FallsOn(doy, mp, d)
  BY Months
<1>2. FallsOn(doy + 1, mn, dn)
  BY Months
<1> HIDE DEF mn, dn
<1>3. mn \in {mp, mp + 1}
  BY <1>1, <1>2 DEF FallsOn
<1>4. mp = 11 => d <= 28 /\ (d = 28 => doy = 364)
  BY <1>1 DEF FallsOn
<1>5. CASE mn = mp
  <2>1. /\ dn = d + 1
        /\ mp \in {1, 3, 6, 8} => d < 30
        /\ mp \notin {1, 3, 6, 8, 11} => d < 31
    BY <1>1, <1>2, <1>5 DEF FallsOn
  <2> QED BY <2>1, <1>4, <1>5 DEF mn, dn
<1>6. CASE mn = mp + 1
  <2>1. /\ dn = 1 /\ mp # 11
        /\ mp \in {1, 3, 6, 8} => d = 30
        /\ mp \notin {1, 3, 6, 8} => d = 31
    BY <1>1, <1>2, <1>6 DEF FallsOn
  <2> QED BY <2>1, <1>4, <1>6 DEF mn, dn
<1> QED BY <1>3, <1>5, <1>6

\* A date as it follows from the year of the era, counted from March, and its day.
Shown(era, y, doy) ==
  LET m == IF Month(doy) < 10 THEN Month(doy) + 3 ELSE Month(doy) - 9
  IN <<y + 400 * era + (IF m <= 2 THEN 1 ELSE 0), m, DayOf(doy)>>

LEMMA DateParts ==
  ASSUME NEW days \in Nat
  PROVE  /\ Era(days) \in Nat /\ InEra(days) \in Nat /\ InEra(days) <= 146096
         /\ Date(days) = Shown(Era(days), YearIn(InEra(days)), InEra(days) - DaysBefore(YearIn(InEra(days))))
<1> DEFINE era == Era(days)
           doe == InEra(days)
           y == YearIn(doe)
<1>1. era \in Nat /\ doe \in Nat /\ doe <= 146096
  BY DEF Era, InEra
<1>2. era * 400 = 400 * era
  BY <1>1
<1>3. Date(days) = Shown(era, y, doe - DaysBefore(y))
  BY <1>2 DEF Date, Era, InEra, YearIn, DaysBefore, Month, DayOf, Shown
<1> QED BY <1>1, <1>3

\* One day later it is the next day of the era, or the first day of the next one.
LEMMA EraEnds ==
  ASSUME NEW days \in Nat
  PROVE  \/ Era(days + 1) = Era(days) /\ InEra(days + 1) = InEra(days) + 1
         \/ Era(days + 1) = Era(days) + 1 /\ InEra(days) = 146096 /\ InEra(days + 1) = 0
BY DEF Era, InEra

\* Inside an era it is the next day of the year, or the first one of the next year.
LEMMA YearTurns ==
  ASSUME NEW doe \in Nat, doe + 1 <= 146096,
         NEW y, y = YearIn(doe), NEW next, next = YearIn(doe + 1)
  PROVE  \/ /\ next = y /\ doe - DaysBefore(y) <= 364
            /\ doe - DaysBefore(y) = 364 => Leap(y + 1)
         \/ /\ next = y + 1 /\ doe + 1 = DaysBefore(next)
            /\ doe - DaysBefore(y) = IF Leap(y + 1) THEN 365 ELSE 364
<1> DEFINE len == IF Leap(y + 1) THEN 366 ELSE 365
           b == DaysBefore(y)
           bn == DaysBefore(next)
<1>1. /\ y \in Nat /\ y <= 399 /\ b <= doe /\ doe <= b + 365
      /\ y < 399 => doe < DaysBefore(y + 1)
  BY YearOf DEF FallsIn
<1>2. /\ next \in Nat /\ next <= 399 /\ bn <= doe + 1 /\ doe + 1 <= bn + 365
      /\ next < 399 => doe + 1 < DaysBefore(next + 1)
  BY YearOf DEF FallsIn
<1>3. len \in {365, 366} /\ (y = 399 => Leap(y + 1))
  BY DEF Leap
<1>4. /\ b \in Nat
      /\ y < 399 => DaysBefore(y + 1) = b + len
      /\ next < y => DaysBefore(next + 1) \in Nat /\ DaysBefore(next + 1) <= b
  BY <1>1, <1>2, YearEnds
<1>5. bn \in Nat /\ (y < next => DaysBefore(y + 1) <= bn)
  BY <1>1, <1>2, YearEnds
<1>6. y + 1 < next => DaysBefore(y + 1) <= DaysBefore((y + 1) + 1) /\ DaysBefore((y + 1) + 1) <= bn
  <2> SUFFICES ASSUME y + 1 < next PROVE DaysBefore(y + 1) <= DaysBefore((y + 1) + 1) /\ DaysBefore((y + 1) + 1) <= bn
    OBVIOUS
  <2> DEFINE n == y + 1
  <2>1. n \in Nat /\ n < 399 /\ n < next
    BY <1>1, <1>2
  <2> HIDE DEF n
  <2>2. DaysBefore(n + 1) <= bn
    BY <1>2, <2>1, YearEnds
  <2>3. n + 1 \in Nat /\ n + 1 <= 399 /\ n < n + 1
    BY <2>1
  <2>4. DaysBefore(n) <= DaysBefore(n + 1)
    <3>1. /\ DaysBefore(n) \in Nat
          /\ DaysBefore(n + 1) = DaysBefore(n) + (IF Leap(n + 1) THEN 366 ELSE 365)
      BY <2>1, YearEnds
    <3>2. CASE Leap(n + 1)
      BY <3>1, <3>2
    <3>3. CASE ~Leap(n + 1)
      BY <3>1, <3>3
    <3> QED BY <3>2, <3>3
  <2> QED BY <2>2, <2>4 DEF n
<1>7. next < 399 /\ next = y => doe + 1 < DaysBefore(y + 1)
  BY <1>2
<1> HIDE DEF len, b, bn
<1>8. next >= y
  BY <1>1, <1>2, <1>4
<1>9. next = y \/ next = y + 1
  <2>1. SUFFICES ASSUME y + 1 < next PROVE FALSE
    BY <1>1, <1>2, <1>8
  <2>2. y < 399 /\ DaysBefore(y + 1) = b + len
    BY <1>1, <1>2, <1>4, <2>1
  <2>3. DaysBefore((y + 1) + 1) \in Nat /\ DaysBefore((y + 1) + 1) >= DaysBefore(y + 1) + 365
    <3> DEFINE n == y + 1
    <3>1. n \in Nat /\ n < 399 /\ n <= 399
      BY <1>1, <1>2, <2>1
    <3> HIDE DEF n
    <3>2. DaysBefore(n) \in Nat /\ DaysBefore(n + 1) = DaysBefore(n) + (IF Leap(n + 1) THEN 366 ELSE 365)
      BY <3>1, YearEnds
    <3>3. CASE Leap(n + 1)
      BY <3>2, <3>3 DEF n
    <3>4. CASE ~Leap(n + 1)
      BY <3>2, <3>4 DEF n
    <3> QED BY <3>3, <3>4
  <2> DEFINE b1 == DaysBefore(y + 1)
             b2 == DaysBefore((y + 1) + 1)
  <2>4. b1 \in Nat /\ doe < b1 /\ b2 >= b1 + 365 /\ b2 <= bn /\ b2 \in Nat
    BY <1>1, <1>3, <1>4, <1>6, <2>1, <2>2, <2>3
  <2> HIDE DEF b1, b2
  <2> QED BY <1>2, <1>5, <2>4
<1>10. CASE next = y
  <2>1. bn = b
    BY <1>10 DEF b, bn
  <2>2. doe - b <= 364
    BY <1>1, <1>2, <1>4, <2>1
  <2>3. ASSUME doe - b = 364 PROVE Leap(y + 1)
    <3>1. CASE y < 399
      <4>1. len = 366
        BY <1>1, <1>2, <1>3, <1>4, <1>7, <1>10, <2>3, <3>1
      <4> QED BY <4>1 DEF len
    <3>2. CASE y = 399
      BY <1>3, <3>2
    <3> QED BY <3>1, <3>2, <1>1
  <2> QED BY <1>10, <2>2, <2>3 DEF b
<1>11. CASE next = y + 1
  <2>1. y < 399 /\ bn = b + len
    BY <1>1, <1>2, <1>4, <1>11 DEF bn
  <2>2. doe < bn /\ bn <= doe + 1
    BY <1>1, <1>2, <1>11, <2>1, <1>4
  <2>3. doe + 1 = bn /\ doe - b = len - 1
    BY <1>1, <1>2, <1>3, <1>4, <2>1, <2>2
  <2> QED BY <1>11, <2>3 DEF b, bn, len
<1> QED BY <1>9, <1>10, <1>11

\* The date after a day that is not the last one of a year counted from March.
LEMMA NextInYear ==
  ASSUME NEW era \in Nat, NEW y \in Nat, NEW doy \in Nat, doy <= 364, doy = 364 => Leap(y + 1)
  PROVE  Shown(era, y, doy + 1) = DateAfter(Shown(era, y, doy))
<1> DEFINE mp == Month(doy)
           d == DayOf(doy)
           mn == Month(doy + 1)
           dn == DayOf(doy + 1)
           year == y + 400 * era
<1>1. FallsOn(doy, mp, d)
  BY Months
<1>2. mp \in Nat /\ mp <= 11 /\ d \in Nat /\ year \in Nat
  BY <1>1 DEF FallsOn
<1>3. /\ \/ /\ mn = mp /\ dn = d + 1
            /\ mp \in {1, 3, 6, 8} => d < 30
            /\ mp \notin {1, 3, 6, 8, 11} => d < 31
         \/ /\ mn = mp + 1 /\ dn = 1
            /\ mp \in {1, 3, 6, 8} => d = 30
            /\ mp \notin {1, 3, 6, 8} => d = 31
            /\ mp # 11
      /\ mp = 11 => d <= 28 /\ (d = 28 => doy = 364)
  BY MonthEnds
<1>4. doy = 364 => Leap(year + 1)
  <2>1. year + 1 = (y + 1) + 400 * era
    OBVIOUS
  <2> QED BY <2>1, LeapInEra
<1> HIDE DEF mp, d, mn, dn, year
<1>5. /\ Shown(era, y, doy) = IF mp < 10 THEN <<year, mp + 3, d>> ELSE <<year + 1, mp - 9, d>>
      /\ Shown(era, y, doy + 1) = IF mn < 10 THEN <<year, mn + 3, dn>> ELSE <<year + 1, mn - 9, dn>>
  BY <1>2, <1>3 DEF Shown, mp, d, mn, dn, year
<1>6. CASE mp < 10
  <2> DEFINE l == DaysIn(year, mp + 3)
  <2>1. l = IF mp \in {1, 3, 6, 8} THEN 30 ELSE 31
    BY <1>2, <1>6 DEF DaysIn
  <2>2. DateAfter(<<year, mp + 3, d>>) =
          IF d < l THEN <<year, mp + 3, d + 1>>
          ELSE IF mp < 9 THEN <<year, mp + 4, 1>> ELSE <<year + 1, 1, 1>>
    BY <1>2, <1>6, <2>1 DEF DateAfter
  <2> HIDE DEF l
  <2> QED BY <1>2, <1>3, <1>5, <1>6, <2>1, <2>2
<1>7. CASE mp = 10
  <2>1. DaysIn(year + 1, 1) = 31
    BY DEF DaysIn
  <2>2. DateAfter(<<year + 1, 1, d>>) = IF d < 31 THEN <<year + 1, 1, d + 1>> ELSE <<year + 1, 2, 1>>
    BY <1>2, <2>1 DEF DateAfter
  <2> QED BY <1>2, <1>3, <1>5, <1>7, <2>2
<1>8. CASE mp = 11
  <2>1. DaysIn(year + 1, 2) = IF Leap(year + 1) THEN 29 ELSE 28
    BY DEF DaysIn, Leap
  <2> DEFINE l == DaysIn(year + 1, 2)
  <2>2. d < l
    BY <1>2, <1>3, <1>4, <1>8, <2>1
  <2> HIDE DEF l
  <2>3. DateAfter(<<year + 1, 2, d>>) = <<year + 1, 2, d + 1>>
    BY <1>2, <2>1, <2>2 DEF DateAfter, l
  <2> QED BY <1>2, <1>3, <1>5, <1>8, <2>3
<1> QED BY <1>2, <1>6, <1>7, <1>8

\* The date after the last day of a year counted from March, the end of February.
LEMMA NextYear ==
  ASSUME NEW era \in Nat, NEW y \in Nat, NEW doy, doy = IF Leap(y + 1) THEN 365 ELSE 364,
         NEW era2 \in Nat, NEW y2 \in Nat, y2 + 400 * era2 = y + 400 * era + 1
  PROVE  Shown(era2, y2, 0) = DateAfter(Shown(era, y, doy))
<1> DEFINE year == y + 400 * era
<1>1. FallsOn(doy, Month(doy), DayOf(doy)) /\ FallsOn(0, Month(0), DayOf(0))
  BY Months
<1>2. Month(0) = 0 /\ DayOf(0) = 1
  BY <1>1 DEF FallsOn
<1>3. Month(doy) = 11 /\ DayOf(doy) = IF Leap(y + 1) THEN 29 ELSE 28
  BY <1>1 DEF FallsOn
<1>4. Leap(year + 1) <=> Leap(y + 1)
  <2>1. year + 1 = (y + 1) + 400 * era
    OBVIOUS
  <2> QED BY <2>1, LeapInEra
<1>5. year \in Nat /\ year + 1 = y2 + 400 * era2
  OBVIOUS
<1>6. Shown(era, y, doy) = <<year + 1, 2, DayOf(doy)>> /\ Shown(era2, y2, 0) = <<year + 1, 3, 1>>
  BY <1>2, <1>3, <1>5 DEF Shown
<1> HIDE DEF year
<1>7. DaysIn(year + 1, 2) = IF Leap(year + 1) THEN 29 ELSE 28
  BY DEF DaysIn, Leap
<1>8. DateAfter(<<year + 1, 2, DayOf(doy)>>) = <<year + 1, 3, 1>>
  BY <1>3, <1>4, <1>7 DEF DateAfter
<1> QED BY <1>6, <1>8

\* The first day is the start of 1970, and after each day comes the next one: so
\* iso_utc is right on every day.
LEMMA FirstDay == Date(0) = <<1970, 1, 1>>
BY DEF Date

LEMMA NextDate ==
  ASSUME NEW days \in Nat
  PROVE  Date(days + 1) = DateAfter(Date(days))
<1> DEFINE era == Era(days)
           doe == InEra(days)
           y == YearIn(doe)
           doy == doe - DaysBefore(y)
           era2 == Era(days + 1)
           doe2 == InEra(days + 1)
           y2 == YearIn(doe2)
           doy2 == doe2 - DaysBefore(y2)
<1>1. /\ era \in Nat /\ doe \in Nat /\ doe <= 146096
      /\ Date(days) = Shown(era, y, doy)
  BY DateParts
<1>2. /\ era2 \in Nat /\ doe2 \in Nat /\ doe2 <= 146096
      /\ Date(days + 1) = Shown(era2, y2, doy2)
  <2>1. days + 1 \in Nat
    OBVIOUS
  <2> QED BY <2>1, DateParts
<1>3. \/ era2 = era /\ doe2 = doe + 1
      \/ era2 = era + 1 /\ doe = 146096 /\ doe2 = 0
  BY EraEnds
<1>4. /\ y \in Nat /\ y <= 399 /\ DaysBefore(y) \in Nat /\ doy \in Nat /\ doy <= 365
  <2>1. y \in Nat /\ y <= 399 /\ DaysBefore(y) <= doe /\ doe <= DaysBefore(y) + 365
    BY <1>1, YearOf DEF FallsIn
  <2>2. DaysBefore(y) \in Nat
    BY <2>1, YearEnds
  <2> QED BY <2>1, <2>2, <1>1
<1> HIDE DEF era, era2, doe, doe2
<1>5. CASE era2 = era /\ doe2 = doe + 1
  <2>1. \/ y2 = y /\ doy <= 364 /\ (doy = 364 => Leap(y + 1))
        \/ y2 = y + 1 /\ doe + 1 = DaysBefore(y2) /\ doy = IF Leap(y + 1) THEN 365 ELSE 364
    BY <1>1, <1>2, <1>5, YearTurns
  <2>2. CASE y2 = y /\ doy <= 364 /\ (doy = 364 => Leap(y + 1))
    <3>1. doy2 = doy + 1
      BY <1>1, <1>4, <1>5, <2>2
    <3> QED BY <3>1, <2>2, <1>1, <1>2, <1>4, <1>5, NextInYear
  <2>3. CASE y2 = y + 1 /\ doe + 1 = DaysBefore(y2) /\ doy = IF Leap(y + 1) THEN 365 ELSE 364
    <3>1. doy2 = 0
      BY <1>1, <1>5, <2>3
    <3>2. y2 + 400 * era2 = y + 400 * era + 1
      BY <1>1, <1>4, <1>5, <2>3
    <3> QED BY <3>1, <3>2, <2>3, <1>1, <1>2, <1>4, NextYear
  <2> QED BY <2>1, <2>2, <2>3
<1>6. CASE era2 = era + 1 /\ doe = 146096 /\ doe2 = 0
  <2>1. YearIn(146096) = 399 /\ YearIn(0) = 0
    BY DEF YearIn
  <2>2. DaysBefore(399) = 145731 /\ DaysBefore(0) = 0
    BY DEF DaysBefore
  <2>3. y = 399 /\ y2 = 0 /\ doy = 365 /\ doy2 = 0
    BY <1>6, <2>1, <2>2
  <2>4. Leap(399 + 1)
    BY DEF Leap
  <2>5. y2 + 400 * era2 = y + 400 * era + 1
    BY <1>1, <1>6, <2>3
  <2> QED BY <2>3, <2>4, <2>5, <1>1, <1>2, <1>6, NextYear
<1> QED BY <1>3, <1>5, <1>6

\* DateFollows: the date of the next day is the next date of the calendar, whatever
\* the day is (vars.rs: iso_utc).
THEOREM DatesFollow == CalendarSpec => []DateFollows
<1> DEFINE DayIsNumber == day \in Nat
<1>1. CalendarInit => DayIsNumber
  BY CalendarAssumption DEF CalendarInit
<1>2. DayIsNumber /\ [NextDay]_day => DayIsNumber'
  BY DEF NextDay
<1>3. DayIsNumber => DateFollows
  BY NextDate DEF DateFollows
<1> QED BY <1>1, <1>2, <1>3, PTL DEF CalendarSpec
=============================================================================
