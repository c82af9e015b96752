------------------------------ MODULE Strings ------------------------------
(***************************************************************************)
(* Texts as sequences of symbols, and the functions of the standard        *)
(* library of the program that its parsers are built from.  A symbol       *)
(* stands for one character, or for a word that is never taken apart.      *)
(***************************************************************************)
EXTENDS Integers, Sequences, FiniteSets, SequencesExt

White == {" ", "nl", "cr"}

\* The place of the first occurrence of a text in another; 0 if there is none.
Find(s, p) ==
    LET hits == {i \in 1..(Len(s) - Len(p) + 1) : SubSeq(s, i, i + Len(p) - 1) = p}
    IN IF hits = {} THEN 0 ELSE CHOOSE i \in hits : \A j \in hits : i <= j

FindLast(s, p) ==
    LET hits == {i \in 1..(Len(s) - Len(p) + 1) : SubSeq(s, i, i + Len(p) - 1) = p}
    IN IF hits = {} THEN 0 ELSE CHOOSE i \in hits : \A j \in hits : i >= j

\* The place of the first symbol that is one of some; 0 if there is none.
FindAny(s, set) == SelectInSeq(s, LAMBDA c : c \in set)

Has(s, c) == \E i \in DOMAIN s : s[i] = c

Before(s, i) == SubSeq(s, 1, i - 1)
From(s, i) == SubSeq(s, i, Len(s))

\* split: the pieces between the occurrences of a symbol.
Split(s, c) ==
    FoldLeft(LAMBDA pieces, x : IF x = c THEN Append(pieces, <<>>)
                                ELSE [pieces EXCEPT ![Len(pieces)] = Append(@, x)],
             <<<<>>>>, s)

\* join
Join(pieces, sep) ==
    FlattenSeq([i \in DOMAIN pieces |-> IF i = 1 THEN pieces[i] ELSE sep \o pieces[i]])

\* replace: every symbol of the domain by its text.
Substituted(s, by) == FlattenSeq([i \in DOMAIN s |-> IF s[i] \in DOMAIN by THEN by[s[i]] ELSE <<s[i]>>])

Trim(s) ==
    LET kept == {i \in DOMAIN s : s[i] \notin White}
    IN IF kept = {} THEN <<>>
       ELSE SubSeq(s, CHOOSE i \in kept : \A j \in kept : i <= j, CHOOSE i \in kept : \A j \in kept : i >= j)
=============================================================================
