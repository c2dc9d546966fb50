------------------------------ MODULE MCMsgQueue ------------------------------
(* Instances of MsgQueue for TLC: threads and blocks are model values.       *)
EXTENDS MsgQueue, TLC

\* Blocks and producers are interchangeable; used where no liveness is checked.
Symmetric == Permutations(Blocks) \cup Permutations(Consumers)
===============================================================================
