----------------------------- MODULE MCSisServer -----------------------------
(* Instances of SisServer for TLC: the connections are model values.         *)
EXTENDS SisServer
=============================================================================
