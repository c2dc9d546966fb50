---------------------------- MODULE MCRegistry ----------------------------
EXTENDS Registry, TLC

CONSTANTS a, i1, i2

\* i2 is i1 with the flag.
WithFlag == [i \in Infos |-> i2]

OneInFile == {[id |-> a, info |-> i1]}

Symmetry == Permutations(Ptrs) \cup Permutations(Sessions)
=============================================================================
