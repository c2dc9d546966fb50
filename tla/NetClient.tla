------------------------------ MODULE NetClient ------------------------------
(***************************************************************************)
(* The gateway's UDP port and a process that uses it.  In the process the  *)
(* threads of the blocker or the console call FTOM_NET_CLIENT_request and  *)
(* one thread receives (src/ftom/client/ftom/net/ftom_net_client.c); in    *)
(* the gateway one thread answers a request at a time while another sends  *)
(* notifications to everybody registered (src/ftom/ftom_server.c).  The    *)
(* client registers once, when it begins; that is over here.               *)
(*                                                                         *)
(* A response finds its call by number alone.  The client binds 127.0.0.1, *)
(* so a packet stays on one machine: it may be lost when a buffer is full, *)
(* and is neither duplicated nor overtaken.                                *)
(*                                                                         *)
(* A call is known by its place in the order of the calls, which is never  *)
(* used twice; its number is what the code gives it.                       *)
(***************************************************************************)
EXTENDS Naturals, Sequences, FiniteSets

CONSTANTS NetCallers,       \* threads that call through the one client
          MaxNetCalls,      \* bound: calls
          MaxNotes          \* bound: notifications

VARIABLES ulReqID,        \* the client's last number given
          pc,             \* where each caller is in FTOM_NET_CLIENT_request
          call,           \* the call each caller is in
          seen,           \* the number each caller read before it adds one
          trans,          \* for each call: its transaction
          xTransList,     \* the calls whose transaction is in the list
          receiver,       \* the receiving thread: place, packet, call
          toServer,       \* the network: packets on their way to the gateway
          toClient,       \* and back
          answering,      \* the gateway: its UDP thread has not ended
          noteID          \* and the next number of a notification

callers == <<ulReqID, pc, call, seen>>
client  == <<callers, trans, xTransList, receiver>>
network == <<toServer, toClient>>
gateway == <<answering, noteID>>
netVars == <<client, network, gateway>>

NoCall == 0

\* A response says which call it answers; the code's packet does not.
Request(n)        == [kind |-> "request",  id |-> trans[n].ulReqID, call |-> n]
Response(request) == [kind |-> "response", id |-> request.id, call |-> request.call]
Notice(number)    == [kind |-> "notice",   id |-> number, call |-> NoCall]
NoPacket          == [kind |-> "none",     id |-> 0, call |-> NoCall]

\* A transaction as TRANS_create leaves it, and what its caller returns.
Transaction(number) ==
    [ulReqID |-> number, xLock |-> 0, pResp |-> NoPacket, xRet |-> "none"]

Receiving == [at |-> "recv", packet |-> NoPacket, call |-> NoCall]

NetInit ==
    /\ ulReqID = 0
    /\ pc = [c \in NetCallers |-> "idle"]
    /\ call = [c \in NetCallers |-> NoCall] /\ seen = [c \in NetCallers |-> 0]
    /\ trans = <<>> /\ xTransList = <<>>
    /\ receiver = Receiving
    /\ toServer = <<>> /\ toClient = <<>>
    /\ answering = TRUE /\ noteID = 0

--------------------------------------------------------------------------------
(* FTOM_NET_CLIENT_request.                                                   *)

\* A packet gets into the other socket's buffer, or there is no room for it.
MayReach(channel, packet) == channel' = Append(channel, packet) \/ UNCHANGED channel

Begun == Len(trans) + Cardinality({c \in NetCallers : pc[c] = "number"})

\* Every caller increases ulReqID and nothing protects it: reading and writing it
\* are two steps.
ReadNumber(c) ==
    /\ pc[c] = "idle" /\ Begun < MaxNetCalls
    /\ seen' = [seen EXCEPT ![c] = ulReqID]
    /\ pc' = [pc EXCEPT ![c] = "number"]
    /\ UNCHANGED <<ulReqID, call, trans, xTransList, receiver, network, gateway>>

TakeNumber(c) ==
    /\ pc[c] = "number"
    /\ ulReqID' = seen[c] + 1
    /\ seen' = [seen EXCEPT ![c] = 0]
    /\ trans' = Append(trans, Transaction(seen[c] + 1))
    /\ call' = [call EXCEPT ![c] = Len(trans) + 1]
    /\ xTransList' = Append(xTransList, Len(trans) + 1)
    /\ pc' = [pc EXCEPT ![c] = "perform"]
    /\ UNCHANGED <<receiver, network, gateway>>

Perform(c) ==
    /\ pc[c] = "perform"
    /\ MayReach(toServer, Request(call[c]))
    /\ pc' = [pc EXCEPT ![c] = "wait"]
    /\ UNCHANGED <<ulReqID, call, seen, trans, xTransList, receiver, toClient, gateway>>

\* A caller leaves with what it has: sendto failed, the semaphore was posted, or
\* the time is over and it was not.
Finish(c, from, result) ==
    /\ pc[c] = from
    /\ trans' = [trans EXCEPT ![call[c]].xRet = result]
    /\ pc' = [pc EXCEPT ![c] = "destroy"]
    /\ UNCHANGED <<ulReqID, call, seen, xTransList, receiver, network, gateway>>

PerformFails(c) == Finish(c, "perform", "error")
Completed(c)    == trans[call[c]].xLock > 0 /\ Finish(c, "wait", "ok")
TimeOver(c)     == trans[call[c]].xLock = 0 /\ Finish(c, "wait", "timeout")

\* The transaction is taken out of the list, where it is once, and its memory is
\* given back.
Without(q, i) == [k \in 1..(Len(q) - 1) |-> IF k < i THEN q[k] ELSE q[k + 1]]

Destroy(c) ==
    /\ pc[c] = "destroy"
    /\ \E i \in DOMAIN xTransList :
         xTransList[i] = call[c] /\ xTransList' = Without(xTransList, i)
    /\ pc' = [pc EXCEPT ![c] = "idle"]
    /\ UNCHANGED <<ulReqID, call, seen, trans, receiver, network, gateway>>

NetCallerStep(c) ==
    \/ ReadNumber(c) \/ TakeNumber(c) \/ Perform(c) \/ PerformFails(c)
    \/ Destroy(c)
    \/ call[c] # NoCall /\ (Completed(c) \/ TimeOver(c))

--------------------------------------------------------------------------------
(* FTOM_NET_CLIENT_threadMain: the receiving of packets.                       *)

\* Fault: any transaction will do.
MatchesAny(packet) == 1..Len(xTransList)

\* The first transaction in the list with the number of the packet.
Matches(packet) == {i \in 1..Len(xTransList) : trans[xTransList[i]].ulReqID = packet.id}
Found(packet)   ==
    {xTransList[i] : i \in {i \in Matches(packet) : \A j \in Matches(packet) : i <= j}}

\* Fault: the caller is woken before the response is copied.
ReceivePostsFirst ==
    /\ receiver.at = "recv" /\ toClient # <<>>
    /\ LET packet == Head(toClient)
       IN  \/ \E n \in Found(packet) :
                /\ receiver' = [at |-> "deliver", packet |-> packet, call |-> n]
                /\ trans' = [trans EXCEPT ![n].xLock = @ + 1]
           \/ Matches(packet) = {} /\ UNCHANGED <<receiver, trans>>
    /\ toClient' = Tail(toClient)
    /\ UNCHANGED <<callers, xTransList, toServer, gateway>>

\* The list is locked for the search, and not for what is done with its result.
\* What matches nothing is handed on as a notification, or dropped.
Receive ==
    /\ receiver.at = "recv" /\ toClient # <<>>
    /\ LET packet == Head(toClient)
       IN  \/ \E n \in Found(packet) :
                receiver' = [at |-> "deliver", packet |-> packet, call |-> n]
           \/ Matches(packet) = {} /\ UNCHANGED receiver
    /\ toClient' = Tail(toClient)
    /\ UNCHANGED <<callers, trans, xTransList, toServer, gateway>>

\* The response to a call fits into the room the caller has for it; anything else
\* may be longer, and then nothing is copied and the caller is woken all the same.
Deliver ==
    /\ receiver.at = "deliver"
    /\ \E pResp \in {receiver.packet, trans[receiver.call].pResp} :
        /\ receiver.packet.call = receiver.call => pResp = receiver.packet
        /\ trans' = [trans EXCEPT ![receiver.call].pResp = pResp,
                                  ![receiver.call].xLock = @ + 1]
    /\ receiver' = Receiving
    /\ UNCHANGED <<callers, xTransList, network, gateway>>

ReceiverStep == Receive \/ Deliver

--------------------------------------------------------------------------------
(* The gateway: FTOM_SERVER_processUDP and FTOM_SERVER_sendMessage.           *)

\* The service call is one step with its answer: what other threads see of it
\* belongs to other modules.
ServeRequest ==
    /\ answering /\ toServer # <<>>
    /\ toServer' = Tail(toServer)
    /\ MayReach(toClient, Response(Head(toServer)))
    /\ UNCHANGED <<client, gateway>>

\* A sendto that fails closes the socket; it cannot be bound again, and the
\* thread ends.
AnswerFails ==
    /\ answering /\ toServer # <<>>
    /\ toServer' = Tail(toServer)
    /\ answering' = FALSE
    /\ UNCHANGED <<client, toClient, noteID>>

\* Every notification has the next number of the gateway, in the field where a
\* response has the number of its call.  A socket that was closed takes none.
SendNotice ==
    /\ noteID < MaxNotes
    /\ noteID' = noteID + 1
    /\ IF answering THEN MayReach(toClient, Notice(noteID)) ELSE UNCHANGED toClient
    /\ UNCHANGED <<client, toServer, answering>>

GatewayStep == ServeRequest \/ AnswerFails \/ SendNotice

--------------------------------------------------------------------------------

NetNext ==
    \/ \E c \in NetCallers : NetCallerStep(c)
    \/ ReceiverStep
    \/ GatewayStep

NetSpec == NetInit /\ [][NetNext]_netVars

--------------------------------------------------------------------------------
(* Properties.                                                                *)

\* Two calls have one number when two callers increased ulReqID at once, and a
\* notification has the number of a call because the gateway counts its own.
Twins(n)         == {m \in 1..Len(trans) : m # n /\ trans[m].ulReqID = trans[n].ulReqID}
LikeANotice(n)   == trans[n].ulReqID < noteID
Distinguished(n) == Twins(n) = {} /\ ~LikeANotice(n)

\* A call that returns FTM_RET_OK has the response to its own request, whatever
\* was lost and whoever gave up before, unless its number is not its own.
OwnResponse ==
    \A n \in 1..Len(trans) :
        trans[n].xRet = "ok" /\ Distinguished(n) => trans[n].pResp = Response(Request(n))

\* The receiver uses a transaction whose memory was given back only when its
\* caller had given up waiting, or its number is not its own: finding it and
\* using it are two steps, and only the first is under the lock of the list.
GivenBack(n) == \A c \in NetCallers : call[c] = n => pc[c] = "idle"
NoLateTouch ==
    receiver.at = "deliver" /\ GivenBack(receiver.call) /\ Distinguished(receiver.call)
        => trans[receiver.call].xRet = "timeout"
================================================================================
