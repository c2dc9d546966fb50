------------------------------ MODULE MessagePool ------------------------------
(***************************************************************************)
(* What is left of the promise of MessageChannel when several threads pop  *)
(* from one queue: every message that was accepted by push is handed out   *)
(* at most once, and is there to be handed out until the owner closes the  *)
(* queue; in which order nobody says.  FTM_MSGQ (MsgQueue.tla) implements  *)
(* it for any number of threads on both ends.                              *)
(***************************************************************************)

CONSTANT Msgs          \* the messages of a run, each pushed at most once

VARIABLES put,         \* messages accepted by push so far
          pool,        \* messages accepted and not handed out
          got,         \* messages handed out by pop so far
          open         \* FALSE once the owner closed the queue

poolVars == <<put, pool, got, open>>

PoolInit == put = {} /\ pool = {} /\ got = {} /\ open = TRUE

Accept(m) ==
    /\ open
    /\ m \notin put
    /\ put' = put \cup {m}
    /\ pool' = pool \cup {m}
    /\ UNCHANGED <<got, open>>

HandOut(m) ==
    /\ open
    /\ m \in pool /\ m \notin got
    /\ got' = got \cup {m}
    /\ pool' = pool \ {m}
    /\ UNCHANGED <<put, open>>

Discard ==
    /\ open
    /\ open' = FALSE
    /\ pool' = {}
    /\ UNCHANGED <<put, got>>

PoolNext == (\E m \in Msgs : Accept(m) \/ HandOut(m)) \/ Discard

PoolSpec == PoolInit /\ [][PoolNext]_poolVars
===============================================================================
