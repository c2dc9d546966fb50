---------------------------- MODULE MCNetClient ----------------------------
(* The callers are model values, and any can stand for any other.            *)
EXTENDS NetClient, TLC

CONSTANTS c1, c2

Symmetry == Permutations(NetCallers)
===============================================================================
