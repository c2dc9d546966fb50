------------------------------ MODULE MCSmpCall ------------------------------
(* Instances of SmpCall for TLC: the callers are model values.               *)
EXTENDS SmpCall
\* The locker lets one process in, or two.
OneOrTwo == {1, 2}
===============================================================================
