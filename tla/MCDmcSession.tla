---------------------------- MODULE MCDmcSession ----------------------------
(* Instances of DmcSession for TLC: the threads are model values.            *)
EXTENDS DmcSession
=============================================================================
