--------------------------- MODULE MCNodeLifecycle ---------------------------
(* One node with its endpoints, and the commanders as model values.          *)
EXTENDS NodeLifecycle, TLC

CONSTANTS c1, c2

Symmetry == Permutations(Commanders)
===============================================================================
