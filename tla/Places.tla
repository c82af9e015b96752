------------------------------- MODULE Places -------------------------------
(***************************************************************************)
(* What a filter over a sequence leaves: the elements at the places that   *)
(* pass, in their order.  It is stated over sets of places, so that one    *)
(* can reason about it: SelectSeq and the folds are recursive.             *)
(***************************************************************************)
EXTENDS Naturals, FiniteSets, SequencesExt

Ascending(seq) == \A i, j \in DOMAIN seq : i < j => seq[i] < seq[j]

\* The numbers of a finite set as a sequence, the least one first.
InOrder(I) == CHOOSE seq \in [1..Cardinality(I) -> I] : ToSet(seq) = I /\ Ascending(seq)

\* What a sequence has at the places in I.
Picked(seq, I) == LET places == InOrder(I) IN [k \in DOMAIN places |-> seq[places[k]]]
=============================================================================
