------------------------------ MODULE Masking ------------------------------
(***************************************************************************)
(* The report on operations on the screen (germal-app/src/ui/              *)
(* response_pane.rs): the detail of a failed operation may hold values of  *)
(* secret variables, which are masked before it is shown.  A letter stands *)
(* for an octet, by which the program compares lengths; the mask is one    *)
(* symbol.                                                                 *)
(***************************************************************************)
EXTENDS Strings

CONSTANTS
    Letters,        \* of texts; the sign of the mask is none of them
    Texts,          \* the values of variables
    MaxDetail,      \* bound: the length of a detail
    MaxVariables    \* bound: the variables

Mask == "mask"

ASSUME MaskingAssumption ==
    /\ Mask \notin Letters /\ Texts \subseteq Seq(Letters)
    /\ MaxDetail \in Nat /\ MaxVariables \in Nat

VARIABLES
    detail,     \* what a failed operation says
    tables      \* the variables of all tables

maskVars == <<detail, tables>>

\* The values of variables that are secret and have one.
Secrets(variables) == {r.value : r \in {q \in variables : q.secret}} \ {<<>>}

\* Variant: the shortest first.
SecretValuesShortFirst(variables) ==
    CHOOSE q \in [1..Cardinality(Secrets(variables)) -> Secrets(variables)] :
        Range(q) = Secrets(variables) /\ \A i, j \in DOMAIN q : i < j => Len(q[i]) <= Len(q[j])

\* secret_values: each of them once, the longest first.
SecretValues(variables) ==
    CHOOSE q \in [1..Cardinality(Secrets(variables)) -> Secrets(variables)] :
        Range(q) = Secrets(variables) /\ \A i, j \in DOMAIN q : i < j => Len(q[i]) >= Len(q[j])

Indices(s) == [i \in 1..Len(s) |-> i]
OccursAt(s, value, i) == i + Len(value) <= Len(s) + 1 /\ SubSeq(s, i, i + Len(value) - 1) = value

\* One symbol of a text further: an occurrence is passed over as one mask.
MaskStep(s, value, st, i) ==
    CASE st.skip > 0 -> [out |-> st.out, skip |-> st.skip - 1]
      [] st.skip = 0 /\ OccursAt(s, value, i) -> [out |-> Append(st.out, Mask), skip |-> Len(value) - 1]
      [] OTHER -> [out |-> Append(st.out, s[i]), skip |-> 0]

\* replace: every occurrence from left to right becomes a mask.
Masked(s, value) ==
    FoldLeft(LAMBDA st, i : MaskStep(s, value, st, i), [out |-> <<>>, skip |-> 0], Indices(s)).out

\* mask_with
MaskWith(s, variables) == FoldLeft(Masked, s, SecretValues(variables))

\* is_extracted_var_secret: the value of a line is shown unless its variable is secret now.
ShownValue(variables, key, value) ==
    IF \E r \in variables : r.key = key /\ r.secret THEN <<Mask>> ELSE value

MaskInit == detail = <<>> /\ tables = {}

\* The detail grows; variables are there before it.
WriteDetail ==
    /\ Len(detail) < MaxDetail
    /\ \E c \in Letters : detail' = Append(detail, c)
    /\ UNCHANGED tables

AddSecret ==
    /\ detail = <<>> /\ Cardinality(tables) < MaxVariables
    /\ \E value \in Texts, secret \in BOOLEAN : tables' = tables \cup {[value |-> value, secret |-> secret]}
    /\ UNCHANGED detail

MaskNext == WriteDetail \/ AddSecret

MaskSpec == MaskInit /\ [][MaskNext]_maskVars

-----------------------------------------------------------------------------
\* The places of a text that belong to an occurrence of a secret.
Occurrences(s, values) ==
    {o \in (1..Len(s)) \X (1..Len(s)) : o[1] <= o[2] /\ SubSeq(s, o[1], o[2]) \in values}
Covered(s, values) == UNION {o[1]..o[2] : o \in Occurrences(s, values)}

\* Two occurrences lie apart, or one lies in the other.
Nested(s, values) ==
    \A o, p \in Occurrences(s, values) :
        \/ o[2] < p[1] \/ p[2] < o[1]
        \/ (o[1] <= p[1] /\ p[2] <= o[2]) \/ (p[1] <= o[1] /\ o[2] <= p[2])

\* What is left of a text without the masks, and without some places.
Unmasked(s) == FoldLeft(LAMBDA out, c : IF c = Mask THEN out ELSE Append(out, c), <<>>, s)
Without(s, set) == FoldLeft(LAMBDA out, i : IF i \in set THEN out ELSE Append(out, s[i]), <<>>, Indices(s))

\* What is shown of a report holds no secret, and where secrets lie apart or in
\* each other it shows the other characters and no more (ui/response_pane.rs:
\* secret_values, mask_with).
SecretsAreMasked ==
    LET shown == MaskWith(detail, tables)
        secrets == Secrets(tables)
    IN /\ \A value \in secrets : Find(shown, value) = 0
       /\ Nested(detail, secrets) => Unmasked(shown) = Without(detail, Covered(detail, secrets))
=============================================================================
