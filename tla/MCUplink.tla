------------------------------ MODULE MCUplink ------------------------------
(* Uplink for TLC: pages of one sample, batches of two, one sample in each    *)
(* publication, so that a few samples need several of each.                   *)
EXTENDS Uplink
=============================================================================
