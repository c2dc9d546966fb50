-------------------------------- MODULE SmpCall --------------------------------
(***************************************************************************)
(* Requests to the gateway over one block of shared memory                 *)
(* (FTM_SMP_* of src/common/ftm_shared_memory.c).                          *)
(*                                                                         *)
(* The callers are processes of the command line client, one call each     *)
(* at a time (FTM_SMP_call); the server is the thread FTOM_SERVER_         *)
(* processSM.  A request and its response share one buffer.  Four          *)
(* semaphores order the accesses: xNotUse lets one caller in, xReq and     *)
(* xResp say what the buffer holds, and the locker surrounds each copy.    *)
(* The locker is a named semaphore, which FTM_SMP_createServer opens with  *)
(* 1 or finds from before, and posts once more: it need not exclude        *)
(* anybody.  Every wait has a time limit.                                  *)
(***************************************************************************)
EXTENDS Integers, FiniteSets

CONSTANTS Callers,
          Server,
          Lockers,      \* the values the locker may start with
          MaxCalls      \* bound: calls of a run

ASSUME ProcessesAssumption == Server \notin Callers
ASSUME LockersAssumption == Lockers \subseteq Nat \ {0}
ASSUME BoundAssumption == MaxCalls \in Nat

VARIABLES xNotUse, xReq, xResp,   \* the semaphores of the block
          pLocker,                \* the semaphore around the copies
          pBuff,                  \* the buffer of the block
          place,                  \* where each process is
          mine,                   \* the number of each caller's request
          pRespBuff,              \* what each caller took for its answer
          pReq,                   \* the request the server works on
          calls,                  \* history: calls so far
          clash,                  \* history: processes whose copy overlaps another's
          late,                   \* history: callers that gave up on a posted request
          dropped,                \* history: requests the server gave up on
          timeLimits              \* FALSE: everybody is in time, no wait ends
                                  \* without its permit

semaphores == <<xNotUse, xReq, xResp>>
results    == <<mine, pRespBuff, calls>>
history    == <<late, dropped, timeLimits>>
vars       == <<semaphores, pLocker, pBuff, place, results, pReq, clash, history>>

Processes == Callers \cup {Server}
Message(k, n) == [kind |-> k, of |-> n]
Nothing  == Message("nothing", 0)
Torn     == Message("torn", 0)      \* what two overlapping copies leave
Messages == [kind : {"request", "response", "torn", "nothing"}, of : 0..MaxCalls]

CallerPlaces == {"idle", "enter", "lockPut", "put", "unlockPut", "answer",
                 "lockGet", "get", "unlockGet", "leave"}
ServerPlaces == {"wait", "lockRead", "read", "unlockRead", "serve",
                 "lockWrite", "write", "unlockWrite"}

\* Between its two operations on the locker a process copies, in or out.
Copying(p) == place[p] \in {"put", "get", "read", "write"}
Storing(p) == place[p] \in {"put", "write"}

TypeOK ==
    /\ xNotUse \in 0..1 /\ xReq \in Nat /\ xResp \in Nat /\ pLocker \in Nat
    /\ pBuff \in Messages
    /\ place \in [Processes -> CallerPlaces \cup ServerPlaces]
    /\ place[Server] \in ServerPlaces /\ \A c \in Callers : place[c] \in CallerPlaces
    /\ mine \in [Callers -> 0..MaxCalls] /\ pRespBuff \in [Callers -> Messages]
    /\ pReq \in 0..MaxCalls
    /\ calls \in 0..MaxCalls /\ clash \subseteq Processes
    /\ late \in Nat /\ dropped \in Nat /\ timeLimits \in BOOLEAN

\* FTM_SMP_createServer, and a command line client that has done nothing yet.
Init ==
    /\ xNotUse = 1 /\ xReq = 0 /\ xResp = 0
    /\ pLocker \in Lockers
    /\ pBuff = Nothing
    /\ place = [p \in Processes |-> IF p = Server THEN "wait" ELSE "idle"]
    /\ mine = [c \in Callers |-> 0]
    /\ pRespBuff = [c \in Callers |-> Nothing]
    /\ pReq = 0
    /\ calls = 0 /\ clash = {} /\ late = 0 /\ dropped = 0
    /\ timeLimits \in BOOLEAN

Goto(p, there) == place' = [place EXCEPT ![p] = there]

\* Taking the locker and giving it back.
Lock(p, here, there) ==
    /\ place[p] = here /\ pLocker > 0
    /\ pLocker' = pLocker - 1
    /\ Goto(p, there)
    /\ LET over == {q \in Processes \ {p} : Copying(q) /\ (Storing(q) \/ there \in {"put", "write"})}
       IN clash' = IF over = {} THEN clash ELSE clash \cup over \cup {p}
    /\ UNCHANGED <<semaphores, pBuff, results, pReq, history>>

Unlock(p, here, there) ==
    /\ place[p] = here
    /\ pLocker' = pLocker + 1
    /\ Goto(p, there)
    /\ UNCHANGED <<semaphores, pBuff, results, pReq, clash, history>>

\* What a process copies, which a copy at the same time may tear.
Copied(p, value) == IF p \in clash THEN {value, Torn} ELSE {value}

-------------------------------------------------------------------------------
(* FTM_SMP_call.                                                              *)

Call(c) ==
    /\ place[c] = "idle" /\ calls < MaxCalls
    /\ calls' = calls + 1
    /\ mine' = [mine EXCEPT ![c] = calls + 1]
    /\ pRespBuff' = [pRespBuff EXCEPT ![c] = Nothing]
    /\ Goto(c, "enter")
    /\ UNCHANGED <<semaphores, pLocker, pBuff, pReq, clash, history>>

Enter(c) ==
    /\ place[c] = "enter" /\ xNotUse > 0
    /\ xNotUse' = xNotUse - 1
    /\ Goto(c, "lockPut")
    /\ UNCHANGED <<xReq, xResp, pLocker, pBuff, results, pReq, clash, history>>

\* The block stayed in use, the locker stayed taken: nothing was posted.
EnterTimesOut(c) ==
    /\ timeLimits
    /\ place[c] = "enter" /\ xNotUse = 0
    /\ Goto(c, "idle")
    /\ UNCHANGED <<semaphores, pLocker, pBuff, results, pReq, clash, history>>

LockTimesOut(c) ==
    /\ timeLimits
    /\ place[c] \in {"lockPut", "lockGet"} /\ pLocker = 0
    /\ Goto(c, "leave")
    /\ UNCHANGED <<semaphores, pLocker, pBuff, results, pReq, clash, history>>

Put(c) ==
    /\ place[c] = "put"
    /\ pBuff' \in Copied(c, Message("request", mine[c]))
    /\ xReq' = xReq + 1
    /\ clash' = clash \ {c}
    /\ Goto(c, "unlockPut")
    /\ UNCHANGED <<xNotUse, xResp, pLocker, results, pReq, history>>

\* Fault: the answer is fetched without waiting for it.
AnswerUnasked(c) ==
    /\ place[c] = "answer"
    /\ xResp' = IF xResp > 0 THEN xResp - 1 ELSE 0
    /\ Goto(c, "lockGet")
    /\ UNCHANGED <<xNotUse, xReq, pLocker, pBuff, results, pReq, clash, history>>

Answer(c) ==
    /\ place[c] = "answer" /\ xResp > 0
    /\ xResp' = xResp - 1
    /\ Goto(c, "lockGet")
    /\ UNCHANGED <<xNotUse, xReq, pLocker, pBuff, results, pReq, clash, history>>

\* Fault: giving up, a caller takes its request back.
AnswerTakenBack(c) ==
    /\ timeLimits
    /\ place[c] = "answer" /\ xResp = 0
    /\ xReq' = 0
    /\ late' = late + 1
    /\ Goto(c, "leave")
    /\ UNCHANGED <<xNotUse, xResp, pLocker, pBuff, results, pReq, clash, dropped, timeLimits>>

\* Fault: a caller waits until its request was received.
AnswerTimesOutReceived(c) ==
    /\ timeLimits
    /\ place[c] = "answer" /\ xResp = 0 /\ xReq = 0
    /\ late' = late + 1
    /\ Goto(c, "leave")
    /\ UNCHANGED <<semaphores, pLocker, pBuff, results, pReq, clash, dropped, timeLimits>>

\* The caller gives up, with its request or the answer still on the way.
AnswerTimesOut(c) ==
    /\ timeLimits
    /\ place[c] = "answer" /\ xResp = 0
    /\ late' = late + 1
    /\ Goto(c, "leave")
    /\ UNCHANGED <<semaphores, pLocker, pBuff, results, pReq, clash, dropped, timeLimits>>

Get(c) ==
    /\ place[c] = "get"
    /\ \E m \in Copied(c, pBuff) : pRespBuff' = [pRespBuff EXCEPT ![c] = m]
    /\ clash' = clash \ {c}
    /\ Goto(c, "unlockGet")
    /\ UNCHANGED <<semaphores, pLocker, pBuff, mine, calls, pReq, history>>

Leave(c) ==
    /\ place[c] = "leave"
    /\ xNotUse' = xNotUse + 1
    /\ Goto(c, "idle")
    /\ UNCHANGED <<xReq, xResp, pLocker, pBuff, results, pReq, clash, history>>

-------------------------------------------------------------------------------
(* FTOM_SERVER_processSM with FTM_SMP_receiveReq and FTM_SMP_sendResp.        *)

ReceiveReq ==
    /\ place[Server] = "wait" /\ xReq > 0
    /\ xReq' = xReq - 1
    /\ Goto(Server, "lockRead")
    /\ UNCHANGED <<xNotUse, xResp, pLocker, pBuff, results, pReq, clash, history>>

\* The locker stayed taken, or the response is larger than the buffer: the
\* request was received and will have no response.
Drop ==
    /\ timeLimits
    /\ \/ place[Server] = "lockRead" /\ pLocker = 0
       \/ place[Server] = "lockWrite"
    /\ dropped' = dropped + 1
    /\ Goto(Server, "wait")
    /\ UNCHANGED <<semaphores, pLocker, pBuff, results, pReq, clash, late, timeLimits>>

\* What is read as a request is served as one, whatever it was.
Read ==
    /\ place[Server] = "read"
    /\ \E m \in Copied(Server, pBuff) : pReq' = m.of
    /\ clash' = clash \ {Server}
    /\ Goto(Server, "unlockRead")
    /\ UNCHANGED <<semaphores, pLocker, pBuff, results, history>>

Serve ==
    /\ place[Server] = "serve"
    /\ Goto(Server, "lockWrite")
    /\ UNCHANGED <<semaphores, pLocker, pBuff, results, pReq, clash, history>>

Write ==
    /\ place[Server] = "write"
    /\ pBuff' \in Copied(Server, Message("response", pReq))
    /\ xResp' = xResp + 1
    /\ clash' = clash \ {Server}
    /\ Goto(Server, "unlockWrite")
    /\ UNCHANGED <<xNotUse, xReq, pLocker, results, pReq, history>>

-------------------------------------------------------------------------------

CallerStep(c) ==
    \/ Enter(c) \/ EnterTimesOut(c) \/ LockTimesOut(c)
    \/ Lock(c, "lockPut", "put") \/ Put(c) \/ Unlock(c, "unlockPut", "answer")
    \/ Answer(c) \/ AnswerTimesOut(c)
    \/ Lock(c, "lockGet", "get") \/ Get(c) \/ Unlock(c, "unlockGet", "leave")
    \/ Leave(c)

ServerStep ==
    \/ ReceiveReq \/ Drop \/ Serve
    \/ Lock(Server, "lockRead", "read") \/ Read \/ Unlock(Server, "unlockRead", "serve")
    \/ Lock(Server, "lockWrite", "write") \/ Write \/ Unlock(Server, "unlockWrite", "wait")

Next == (\E c \in Callers : Call(c) \/ CallerStep(c)) \/ ServerStep

Spec == Init /\ [][Next]_vars

\* Whoever is in the middle of a call goes on; nobody has to call.  The server goes
\* on, too, when everybody is in time, and may stop anywhere otherwise.
CallersGoOn == \A c \in Callers : WF_vars(CallerStep(c))
ServerGoesOn == WF_vars(~timeLimits /\ ServerStep)
FairSpec == Spec /\ CallersGoOn /\ ServerGoesOn

-------------------------------------------------------------------------------
(* Properties.                                                                *)

Using(c) == place[c] \notin {"idle", "enter"}

\* One caller at a time has the block, and it is free as soon as that caller is
\* out, whichever of its waits ran out (the error label of FTM_SMP_call).
OneCaller ==
    /\ \A c, d \in Callers : Using(c) /\ Using(d) => c = d
    /\ xNotUse = 1 <=> \A c \in Callers : ~Using(c)

\* As long as no caller gave up on a posted request, the handshake alone keeps a
\* copy from overlapping another: the locker, which may let two in, is not needed.
NoOverlap == late = 0 => \A p, q \in Processes : Copying(p) /\ Copying(q) => p = q

\* Then, too, what a caller takes for its answer answers its own request.
OwnAnswer ==
    late = 0 => \A c \in Callers : pRespBuff[c] \in {Nothing, Message("response", mine[c])}

\* How far the call of a caller is: its request is posted with Put, and executed
\* when the server that read it comes back from the service.
Executed(c) == pReq = mine[c] /\ place[Server] \notin {"unlockRead", "serve"}
Stage(c) ==
    CASE place[c] \in {"enter", "lockPut", "put"} -> "begun"
      [] place[c] \in {"unlockPut", "answer", "lockGet", "get"} ->
             IF Executed(c) THEN "executed" ELSE "asked"
      [] OTHER -> "out"
Took(c) ==
    CASE pRespBuff[c] = Nothing -> "none"
      [] pRespBuff[c] = Message("response", mine[c]) -> "own"
      [] OTHER -> "other"

Remote == INSTANCE RemoteCall WITH
    stage  <- [c \in Callers |-> IF late = 0 THEN Stage(c) ELSE "out"],
    answer <- [c \in Callers |-> IF late = 0 THEN Took(c) ELSE "none"],
    kept   <- late = 0

\* As long as no caller gave up on a posted request, the semaphores and the one
\* buffer are a remote call: each request is executed once, while its caller waits and
\* no other request is with the server, and its answer is the caller's, although the
\* answer of the call before is in the buffer when the request is put there, a request
\* may be dropped after it was received, and any wait but that one may run out.
ImplementsCall == Remote!CallSpec

\* A request that was posted is in xReq, with the server or in xResp until its
\* caller has its answer; a caller that gives up leaves one behind for good,
\* which answers the next caller, unless the server dropped one.
WithServer == place[Server] \in ServerPlaces \ {"wait", "unlockWrite"}
Expecting  == \E c \in Callers : place[c] \in {"unlockPut", "answer"}
RequestsAccounted ==
    xReq + xResp + (IF WithServer THEN 1 ELSE 0) + dropped
        = late + (IF Expecting THEN 1 ELSE 0)

\* Every call comes back, even if the server is stuck, with or without the locker.
CallsReturn == \A c \in Callers : place[c] # "idle" ~> place[c] = "idle"

\* When everybody is in time a call comes back with its answer: the handshake
\* and the locker, however many it lets in, never leave everybody waiting.
CallsAnswered ==
    \A c \in Callers : place[c] = "enter" /\ ~timeLimits
        ~> place[c] = "idle" /\ pRespBuff[c] = Message("response", mine[c])
===============================================================================
