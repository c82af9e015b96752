---------------------------- MODULE MCVariables ----------------------------
\* Requests, groups, values and environments are interchangeable: no
\* definition of Variables names one of them or orders them.
EXTENDS Variables, TLC

Symmetry ==
    Permutations(Requests) \cup Permutations(Names)
    \cup Permutations(Values) \cup Permutations(EnvIds)
=============================================================================
