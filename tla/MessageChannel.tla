---------------------------- MODULE MessageChannel ----------------------------
(***************************************************************************)
(* What a message queue of the gateway promises to the threads on its two  *)
(* ends: every message that was accepted by push is handed out at most     *)
(* once, in the order of acceptance, until the owner closes the queue and  *)
(* what is left in it is discarded.  FTM_MSGQ (MsgQueue.tla) implements it *)
(* when one thread pops.                                                   *)
(***************************************************************************)
EXTENDS Sequences

CONSTANT Msgs          \* the messages of a run, each pushed at most once

VARIABLES put,         \* messages accepted by push so far
          chan,        \* messages accepted and not handed out, oldest first
          got,         \* messages handed out by pop so far
          open         \* FALSE once the owner closed the queue

chVars == <<put, chan, got, open>>

ChInit == put = {} /\ chan = <<>> /\ got = {} /\ open = TRUE

Put(m) ==
    /\ open
    /\ m \notin put
    /\ put' = put \cup {m}
    /\ chan' = Append(chan, m)
    /\ UNCHANGED <<got, open>>

Take ==
    /\ open
    /\ chan # <<>>
    /\ Head(chan) \notin got
    /\ got' = got \cup {Head(chan)}
    /\ chan' = Tail(chan)
    /\ UNCHANGED <<put, open>>

Close ==
    /\ open
    /\ open' = FALSE
    /\ chan' = <<>>
    /\ UNCHANGED <<put, got>>

ChNext == (\E m \in Msgs : Put(m)) \/ Take \/ Close

ChSpec == ChInit /\ [][ChNext]_chVars
===============================================================================
