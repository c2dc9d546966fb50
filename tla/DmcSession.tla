------------------------------ MODULE DmcSession ------------------------------
(***************************************************************************)
(* The gateway's one connection with the data manager: the threads of the  *)
(* gateway call FTDMC_request (src/ftdm/lib/ftdm_client.c) on one session, *)
(* and a thread of the data manager (FTDM_SIS_service,                     *)
(* src/ftdm/lib/ftdm_server.c) serves it.  Requests and responses carry no *)
(* number: which response a caller gets is a matter of order alone.        *)
(*                                                                         *)
(* A request is the number of its send on this connection, and a response  *)
(* is the number of the request it answers.  A message is sent and         *)
(* received whole.                                                         *)
(***************************************************************************)
EXTENDS Integers, Sequences, FiniteSets

CONSTANTS Threads,          \* threads of the gateway that use the session
          Free,             \* xLock when nobody holds it
          MaxRequests       \* bound: requests of a run

ASSUME FreeAssumption  == Free \notin Threads
ASSUME BoundAssumption == MaxRequests \in Nat

VARIABLES hSock,            \* the socket is set
          nTimeout,         \* the time limit of the session is set
          xLock,            \* the thread that holds the lock of the session
          pc,               \* where each thread is in FTDMC_request
          mine,             \* the request each thread sent last
          result,           \* what the last call of each thread returned
          requests,         \* number of requests sent
          taken,            \* number of responses read
          unread,           \* number of requests whose caller left without one
          toServer,         \* requests on their way
          toClient,         \* responses on their way
          service,          \* where the thread of the data manager is
          pReq,             \* the request it works on
          executed          \* the requests it has executed, in order

client == <<hSock, nTimeout, xLock, pc, mine, result, requests, taken, unread>>
server == <<service, pReq, executed>>
vars   == <<client, toServer, toClient, server>>

None    == [kind |-> "none"]
Failed  == [kind |-> "error"]
Late    == [kind |-> "timeout"]
NoWait  == [kind |-> "unset"]       \* FTM_RET_OK with nothing read

\* An answer remembers how many callers had left without one before.
Answer(request, response, before) ==
    [kind |-> "answer", request |-> request, response |-> response, before |-> before]

Answers == [kind : {"answer"}, request : Nat, response : Nat, before : Nat]
Results == {None, Failed, Late, NoWait} \cup Answers

TypeOK ==
    /\ hSock \in BOOLEAN /\ nTimeout \in BOOLEAN
    /\ xLock \in Threads \cup {Free}
    /\ pc \in [Threads -> {"idle", "lock", "send", "recv", "unlock", "dead"}]
    /\ mine \in [Threads -> Nat]
    /\ result \in [Threads -> Results]
    /\ requests \in Nat /\ taken \in Nat /\ unread \in Nat
    /\ taken + unread <= requests
    /\ toServer \in Seq(Nat) /\ toClient \in Seq(Nat)
    /\ service \in {"recv", "call", "send", "ended"}
    /\ pReq \in Nat
    /\ executed \in Seq(Nat)

Init ==
    /\ hSock = FALSE /\ nTimeout = FALSE
    /\ xLock = Free
    /\ pc = [t \in Threads |-> "idle"]
    /\ mine = [t \in Threads |-> 0]
    /\ result = [t \in Threads |-> None]
    /\ requests = 0 /\ taken = 0 /\ unread = 0
    /\ toServer = <<>> /\ toClient = <<>>
    /\ service = "recv" /\ pReq = 0
    /\ executed = <<>>

-------------------------------------------------------------------------------
\* FTDMC_connect, called by the thread of FTOM_DMC_process until it succeeds:
\* the socket is set first, which lets the other threads in, ...
Connect ==
    /\ ~hSock
    /\ hSock' = TRUE
    /\ UNCHANGED <<nTimeout, xLock, pc, mine, result, requests, taken, unread,
                   toServer, toClient, server>>

\* ... and the time limit of the session second.
SetTimeout ==
    /\ hSock /\ ~nTimeout
    /\ nTimeout' = TRUE
    /\ UNCHANGED <<hSock, xLock, pc, mine, result, requests, taken, unread,
                   toServer, toClient, server>>

Sending == {t \in Threads : pc[t] \in {"lock", "send"}}

\* A wrapper calls FTDMC_request and finds the socket set.
Call(t) ==
    /\ pc[t] = "idle" /\ hSock
    /\ requests + Cardinality(Sending) < MaxRequests
    /\ pc' = [pc EXCEPT ![t] = "lock"]
    /\ result' = [result EXCEPT ![t] = None]
    /\ UNCHANGED <<hSock, nTimeout, xLock, mine, requests, taken, unread,
                   toServer, toClient, server>>

LockSet(t) ==
    /\ pc[t] = "lock"
    /\ xLock = Free
    /\ xLock' = t
    /\ pc' = [pc EXCEPT ![t] = "send"]
    /\ UNCHANGED <<hSock, nTimeout, mine, result, requests, taken, unread,
                   toServer, toClient, server>>

\* send succeeds, even when the data manager will not read the request any
\* more.  While the time limit is not set, the loop that reads the response
\* ends at once and the caller is told that all is well.
Send(t) ==
    /\ pc[t] = "send"
    /\ requests' = requests + 1
    /\ mine' = [mine EXCEPT ![t] = requests + 1]
    /\ toServer' = IF service = "ended" THEN toServer
                   ELSE Append(toServer, requests + 1)
    /\ IF nTimeout
       THEN /\ pc' = [pc EXCEPT ![t] = "recv"]
            /\ UNCHANGED <<result, unread>>
       ELSE /\ pc' = [pc EXCEPT ![t] = "unlock"]
            /\ result' = [result EXCEPT ![t] = NoWait]
            /\ unread' = unread + 1
    /\ UNCHANGED <<hSock, nTimeout, xLock, taken, toClient, server>>

\* Fault: the error return leaves the lock set.
SendFailsLocked(t) ==
    /\ pc[t] = "send" /\ service = "ended"
    /\ result' = [result EXCEPT ![t] = Failed]
    /\ pc' = [pc EXCEPT ![t] = "idle"]
    /\ UNCHANGED <<hSock, nTimeout, xLock, mine, requests, taken, unread,
                   toServer, toClient, server>>

\* send reports that the connection is broken.
SendFails(t) ==
    /\ pc[t] = "send" /\ service = "ended"
    /\ result' = [result EXCEPT ![t] = Failed]
    /\ pc' = [pc EXCEPT ![t] = "unlock"]
    /\ UNCHANGED <<hSock, nTimeout, xLock, mine, requests, taken, unread,
                   toServer, toClient, server>>

\* send raises SIGPIPE, which no program of the repository handles: the
\* gateway is gone.
SendKills(t) ==
    /\ pc[t] = "send" /\ service = "ended"
    /\ pc' = [u \in Threads |-> "dead"]
    /\ UNCHANGED <<hSock, nTimeout, xLock, mine, result, requests, taken, unread,
                   toServer, toClient, server>>

\* recv returns the oldest response there is.
Recv(t) ==
    /\ pc[t] = "recv" /\ toClient # <<>>
    /\ toClient' = Tail(toClient)
    /\ taken' = taken + 1
    /\ result' = [result EXCEPT ![t] = Answer(mine[t], Head(toClient), unread)]
    /\ pc' = [pc EXCEPT ![t] = "unlock"]
    /\ UNCHANGED <<hSock, nTimeout, xLock, mine, requests, unread, toServer, server>>

\* The polls are used up.  The response may be on its way, or just arrived.
TimeOut(t) ==
    /\ pc[t] = "recv"
    /\ unread' = unread + 1
    /\ result' = [result EXCEPT ![t] = Late]
    /\ pc' = [pc EXCEPT ![t] = "unlock"]
    /\ UNCHANGED <<hSock, nTimeout, xLock, mine, requests, taken,
                   toServer, toClient, server>>

LockReset(t) ==
    /\ pc[t] = "unlock"
    /\ xLock' = Free
    /\ pc' = [pc EXCEPT ![t] = "idle"]
    /\ UNCHANGED <<hSock, nTimeout, mine, result, requests, taken, unread,
                   toServer, toClient, server>>

-------------------------------------------------------------------------------
\* FTDM_SIS_service receives a request, ...
Receive ==
    /\ service = "recv" /\ toServer # <<>>
    /\ pReq' = Head(toServer)
    /\ toServer' = Tail(toServer)
    /\ service' = "call"
    /\ UNCHANGED <<client, toClient, executed>>

\* ... FTDM_SIS_serviceCall executes it, ...
Execute ==
    /\ service = "call"
    /\ executed' = Append(executed, pReq)
    /\ service' = "send"
    /\ UNCHANGED <<client, toServer, toClient, pReq>>

\* Fault: a response that cannot be sent at once is skipped.
RespondOrSkip ==
    /\ service = "send"
    /\ toClient' \in {toClient, Append(toClient, pReq)}
    /\ service' = "recv"
    /\ UNCHANGED <<client, toServer, pReq, executed>>

\* ... and the response is sent, whether the caller still waits or not.
Respond ==
    /\ service = "send"
    /\ toClient' = Append(toClient, pReq)
    /\ service' = "recv"
    /\ UNCHANGED <<client, toServer, pReq, executed>>

\* The session ends: an error of recv or send, the data manager stops, or the
\* connection was refused.  What the gateway had not read yet may be lost.
End ==
    /\ service # "ended"
    /\ service' = "ended"
    /\ toServer' = <<>>
    /\ toClient' \in {toClient, <<>>}
    /\ UNCHANGED <<client, pReq, executed>>

ThreadStep(t) == LockSet(t) \/ Send(t) \/ SendFails(t) \/ SendKills(t)
                   \/ Recv(t) \/ TimeOut(t) \/ LockReset(t)

Next ==
    \/ Connect \/ SetTimeout
    \/ \E t \in Threads : Call(t)
    \/ \E t \in Threads : LockSet(t)
    \/ \E t \in Threads : Send(t)
    \/ \E t \in Threads : SendFails(t)
    \/ \E t \in Threads : SendKills(t)
    \/ \E t \in Threads : Recv(t)
    \/ \E t \in Threads : TimeOut(t)
    \/ \E t \in Threads : LockReset(t)
    \/ Receive \/ Execute \/ Respond \/ End

Spec == Init /\ [][Next]_vars

\* A thread that runs takes its next step; sem_wait serves every waiter that
\* finds the lock free often enough.
Fairness ==
    \A t \in Threads :
        /\ WF_vars(Send(t) \/ SendFails(t) \/ SendKills(t))
        /\ WF_vars(Recv(t) \/ TimeOut(t))
        /\ WF_vars(LockReset(t))
        /\ SF_vars(LockSet(t))

FairSpec == Spec /\ Fairness

-------------------------------------------------------------------------------
\* Every answer is exactly as old as the number of earlier callers that left
\* without theirs: a caller gets its own answer as long as nobody did, and
\* after one timeout every caller gets the answer of the request before its
\* own.
AnswerInSequence ==
    \A t \in Threads :
        result[t].kind = "answer" =>
            result[t].response + result[t].before = result[t].request

\* The data manager executes the requests of the gateway in the order they
\* were sent, each at most once, timeouts or not.
ExecutedInOrder == \A i \in 1..Len(executed) : executed[i] = i

\* A caller that gets its own answer knows that its request was executed, and
\* so were all that came before it.
OwnAnswerMeansDone ==
    \A t \in Threads :
        result[t].kind = "answer" /\ result[t].before = 0 =>
            \A r \in 1..result[t].request : \E i \in 1..Len(executed) : executed[i] = r

\* The lock is with the caller that sends, waits, or is about to give it back, and
\* with nobody else: every way out of FTDMC_request gives it back, so that the next
\* caller waits for somebody who goes on by itself, unless the gateway is killed.
LockAccounted ==
    \A t \in Threads :
        pc[t] # "dead" => (xLock = t <=> pc[t] \in {"send", "recv", "unlock"})

\* Every call comes back, whatever the data manager does and however many
\* threads use the session, unless the gateway is killed.
EveryCallReturns ==
    \A t \in Threads : pc[t] = "lock" ~> pc[t] \in {"idle", "dead"}
===============================================================================
