------------------------------- MODULE RemoteCall -------------------------------
(***************************************************************************)
(* What a command line client takes FTM_SMP_call for: one call at a time   *)
(* is with the service, the service executes it once, and what the caller  *)
(* gets back is the answer to it.  A caller may be turned away before its  *)
(* request is given to the service, and may fail to fetch the answer       *)
(* afterwards.  The promise ends when a caller leaves while its request is *)
(* with the service; what happens then is not said here.  SmpCall.tla      *)
(* implements it.                                                          *)
(***************************************************************************)

CONSTANT Callers

VARIABLES stage,        \* how far the call of each caller is
          answer,       \* what each caller took for the answer to its last call
          kept          \* no caller has left its request behind

callVars == <<stage, answer, kept>>

AtService(c) == stage[c] \in {"asked", "executed"}

CallInit ==
    /\ stage = [c \in Callers |-> "out"]
    /\ answer = [c \in Callers |-> "none"]
    /\ kept = TRUE

Moves(c, from, to) == kept /\ stage[c] = from /\ stage' = [stage EXCEPT ![c] = to]

Begin(c) ==
    /\ Moves(c, "out", "begun")
    /\ answer' = [answer EXCEPT ![c] = "none"]
    /\ UNCHANGED kept

Ask(c) ==
    /\ Moves(c, "begun", "asked")
    /\ \A d \in Callers : ~AtService(d)
    /\ UNCHANGED <<answer, kept>>

Execute(c) == Moves(c, "asked", "executed") /\ UNCHANGED <<answer, kept>>

Return(c) ==
    /\ Moves(c, "executed", "out")
    /\ answer' = [answer EXCEPT ![c] = "own"]
    /\ UNCHANGED kept

Fail(c) ==
    /\ Moves(c, "begun", "out") \/ Moves(c, "executed", "out")
    /\ UNCHANGED <<answer, kept>>

LeaveBehind ==
    /\ kept /\ \E c \in Callers : AtService(c)
    /\ kept' = FALSE
    /\ stage' = [c \in Callers |-> "out"]
    /\ answer' = [c \in Callers |-> "none"]

CallNext ==
    \/ \E c \in Callers : Begin(c) \/ Ask(c) \/ Execute(c) \/ Return(c) \/ Fail(c)
    \/ LeaveBehind

CallSpec == CallInit /\ [][CallNext]_callVars
===============================================================================
