-------------------------- MODULE DataManagerProofs --------------------------
(***************************************************************************)
(* Proofs about the session of the gateway with the data manager,          *)
(* DmcSession, and about the data manager's server, SisServer.             *)
(*                                                                         *)
(* DmcSession, for any number of threads and requests.  The inductive      *)
(* invariant numbers what is under way: the responses not yet read, the    *)
(* request in the hands of the data manager and the requests not yet       *)
(* received follow each other without a gap, and they end with the request *)
(* sent last.  The lock lets one caller at a time wait, so the requests    *)
(* sent are those answered, those given up and the one that is waited for. *)
(*                                                                         *)
(* SisServer, for any number of connections and permits.  The permits need *)
(* to be counted by the sessions that hold one; that no session outlives a *)
(* stop needs the list to hold every session whose thread may still        *)
(* execute a request.                                                      *)
(***************************************************************************)
EXTENDS DmcSession, SisServer, SequenceTheorems, FiniteSetTheorems, TLAPS

\* Whoever is past the lock holds it.
LockHeld == \A t \in Threads : pc[t] \in {"send", "recv", "unlock"} => xLock = t

\* What was sent was answered, given up, or is waited for.
RequestsCounted ==
    /\ \A t \in Threads :
          pc[t] = "recv" => mine[t] = requests /\ requests = taken + unread + 1
    /\ (\A t \in Threads : pc[t] # "recv") => requests = taken + unread

\* The number of the last request whose response has not been sent yet.
InHand == IF service = "recv" THEN 0 ELSE 1

StreamsNumbered ==
    /\ \A i \in 1..Len(toClient) : toClient[i] = taken + i
    /\ service \in {"call", "send"} => pReq = taken + Len(toClient) + 1
    /\ service # "ended" =>
          /\ requests = taken + Len(toClient) + InHand + Len(toServer)
          /\ \A i \in 1..Len(toServer) :
                toServer[i] = taken + Len(toClient) + InHand + i

ExecutedCounted ==
    /\ service \in {"recv", "call"} => Len(executed) = taken + Len(toClient)
    /\ service = "send" => Len(executed) = taken + Len(toClient) + 1
    /\ Len(executed) >= taken + Len(toClient)

AnswersExecuted ==
    \A t \in Threads :
        result[t].kind = "answer" => result[t].response <= Len(executed)

IInv ==
    /\ TypeOK
    /\ LockHeld
    /\ RequestsCounted
    /\ StreamsNumbered
    /\ ExecutedCounted
    /\ ExecutedInOrder
    /\ AnswerInSequence
    /\ AnswersExecuted

-------------------------------------------------------------------------------
\* The results that are no answers claim nothing.
LEMMA ResultKinds ==
    /\ None \in Results /\ Failed \in Results /\ Late \in Results /\ NoWait \in Results
    /\ None.kind # "answer" /\ Failed.kind # "answer"
    /\ Late.kind # "answer" /\ NoWait.kind # "answer"
    /\ \A r \in Results : r.kind = "answer" =>
          r.request \in Nat /\ r.response \in Nat /\ r.before \in Nat
  BY DEF Results, Answers, None, Failed, Late, NoWait

\* A call that ends without an answer leaves the claims about answers alone.
LEMMA PlainResult ==
    ASSUME IInv, NEW t \in Threads, NEW r \in {None, Failed, Late, NoWait},
           result' = [result EXCEPT ![t] = r], UNCHANGED executed
    PROVE  result' \in [Threads -> Results] /\ AnswerInSequence' /\ AnswersExecuted'
<1>1. r \in Results /\ r.kind # "answer"
  BY ResultKinds
<1>2. result \in [Threads -> Results]
  BY DEF IInv, TypeOK
<1>3. \A u \in Threads : result'[u] = IF u = t THEN r ELSE result[u]
  BY <1>2
<1>4. result' \in [Threads -> Results]
  BY <1>1, <1>2
<1>5. \A u \in Threads : result'[u].kind = "answer" => result'[u] = result[u]
  BY <1>1, <1>3
<1>6. QED
  BY <1>4, <1>5 DEF IInv, AnswerInSequence, AnswersExecuted

LEMMA SameResult ==
    ASSUME IInv, UNCHANGED <<result, executed>>
    PROVE  result' \in [Threads -> Results] /\ AnswerInSequence' /\ AnswersExecuted'
                 /\ ExecutedInOrder'
  BY DEF IInv, TypeOK, AnswerInSequence, AnswersExecuted, ExecutedInOrder

\* Steps of the gateway outside send and recv touch neither stream.
LEMMA SameStreams ==
    ASSUME IInv, UNCHANGED <<requests, taken, toServer, toClient, server>>
    PROVE  StreamsNumbered' /\ ExecutedCounted' /\ ExecutedInOrder'
  BY DEF IInv, StreamsNumbered, ExecutedCounted, ExecutedInOrder, InHand, server

\* While one thread is past the lock, no other waits for a response.
LEMMA Alone ==
    ASSUME IInv, NEW t \in Threads, pc[t] \in {"send", "unlock"}
    PROVE  (\A u \in Threads : pc[u] # "recv") /\ requests = taken + unread
  BY DEF IInv, LockHeld, RequestsCounted

\* A new place of one thread.
LEMMA Moved ==
    ASSUME IInv, NEW t \in Threads, NEW place, pc' = [pc EXCEPT ![t] = place]
    PROVE  \A u \in Threads : pc'[u] = IF u = t THEN place ELSE pc[u]
  BY DEF IInv, TypeOK

-------------------------------------------------------------------------------
LEMMA ConnectStep == IInv /\ (Connect \/ SetTimeout) => IInv'
<1> SUFFICES ASSUME IInv, Connect \/ SetTimeout PROVE IInv'
  OBVIOUS
<1>1. UNCHANGED <<xLock, pc, mine, result, requests, taken, unread,
                  toServer, toClient, server>> /\ hSock' \in BOOLEAN /\ nTimeout' \in BOOLEAN
  BY DEF Connect, SetTimeout, IInv, TypeOK
<1>2. TypeOK' /\ LockHeld' /\ RequestsCounted'
  BY <1>1 DEF IInv, TypeOK, LockHeld, RequestsCounted, server
<1>3. QED
  BY <1>1, <1>2, SameStreams, SameResult DEF IInv, server

LEMMA CallStep == \A t \in Threads : IInv /\ Call(t) => IInv'
<1> SUFFICES ASSUME IInv, NEW t \in Threads, Call(t) PROVE IInv'
  OBVIOUS
<1>1. /\ pc[t] = "idle" /\ pc' = [pc EXCEPT ![t] = "lock"]
      /\ result' = [result EXCEPT ![t] = None]
      /\ UNCHANGED <<hSock, nTimeout, xLock, mine, requests, taken, unread,
                     toServer, toClient, server>>
  BY DEF Call
<1>2. \A u \in Threads : pc'[u] = IF u = t THEN "lock" ELSE pc[u]
  BY <1>1, Moved
<1>3. result' \in [Threads -> Results] /\ AnswerInSequence' /\ AnswersExecuted'
  BY <1>1, PlainResult DEF server
<1>4. TypeOK'
  BY <1>1, <1>3 DEF IInv, TypeOK, server
<1>5. LockHeld' /\ RequestsCounted'
  BY <1>1, <1>2 DEF IInv, LockHeld, RequestsCounted
<1>6. QED
  BY <1>1, <1>3, <1>4, <1>5, SameStreams DEF IInv

LEMMA LockSetStep == \A t \in Threads : IInv /\ LockSet(t) => IInv'
<1> SUFFICES ASSUME IInv, NEW t \in Threads, LockSet(t) PROVE IInv'
  OBVIOUS
<1>1. /\ pc[t] = "lock" /\ xLock = Free /\ xLock' = t
      /\ pc' = [pc EXCEPT ![t] = "send"]
      /\ UNCHANGED <<hSock, nTimeout, mine, result, requests, taken, unread,
                     toServer, toClient, server>>
  BY DEF LockSet
<1>2. \A u \in Threads : pc'[u] = IF u = t THEN "send" ELSE pc[u]
  BY <1>1, Moved
<1>3. \A u \in Threads : pc[u] \notin {"send", "recv", "unlock"}
  BY <1>1, FreeAssumption DEF IInv, LockHeld
<1>4. TypeOK'
  BY <1>1 DEF IInv, TypeOK, server
<1>5. LockHeld' /\ RequestsCounted'
  BY <1>1, <1>2, <1>3 DEF IInv, LockHeld, RequestsCounted
<1>6. QED
  BY <1>1, <1>4, <1>5, SameStreams, SameResult DEF IInv, server

LEMMA SendStep == \A t \in Threads : IInv /\ Send(t) => IInv'
<1> SUFFICES ASSUME IInv, NEW t \in Threads, Send(t) PROVE IInv'
  OBVIOUS
<1>1. /\ pc[t] = "send" /\ requests' = requests + 1
      /\ mine' = [mine EXCEPT ![t] = requests + 1]
      /\ toServer' = IF service = "ended" THEN toServer ELSE Append(toServer, requests + 1)
      /\ UNCHANGED <<hSock, nTimeout, xLock, taken, toClient, server>>
  BY DEF Send
<1>2. /\ \A u \in Threads : pc[u] # "recv" 
      /\ requests = taken + unread
      /\ \A u \in Threads : pc[u] \in {"send", "unlock"} => u = t
  BY <1>1, Alone DEF IInv, LockHeld
<1>3. requests \in Nat /\ taken \in Nat /\ unread \in Nat /\ mine \in [Threads -> Nat]
      /\ toServer \in Seq(Nat) /\ toClient \in Seq(Nat)
  BY DEF IInv, TypeOK
<1>4. /\ LockHeld' /\ RequestsCounted' /\ taken' + unread' <= requests'
      /\ result' \in [Threads -> Results] /\ AnswerInSequence' /\ AnswersExecuted'
      /\ pc' \in [Threads -> {"idle", "lock", "send", "recv", "unlock", "dead"}]
      /\ unread' \in Nat
  <2>1. CASE nTimeout
    <3>1. pc' = [pc EXCEPT ![t] = "recv"] /\ UNCHANGED <<result, unread>>
      BY <2>1 DEF Send
    <3>2. \A u \in Threads : pc'[u] = IF u = t THEN "recv" ELSE pc[u]
      BY <3>1, Moved
    <3>3. mine'[t] = requests'
      BY <1>1, <1>3
    <3>4. LockHeld' /\ RequestsCounted' /\ taken' + unread' <= requests'
      BY <1>1, <1>2, <1>3, <3>1, <3>2, <3>3 DEF IInv, LockHeld, RequestsCounted
    <3>5. result' \in [Threads -> Results] /\ AnswerInSequence' /\ AnswersExecuted'
      BY <1>1, <3>1, SameResult DEF server
    <3>6. pc' \in [Threads -> {"idle", "lock", "send", "recv", "unlock", "dead"}]
          /\ unread' \in Nat
      BY <3>1 DEF IInv, TypeOK
    <3>7. QED
      BY <3>4, <3>5, <3>6
  <2>2. CASE ~nTimeout
    <3>1. /\ pc' = [pc EXCEPT ![t] = "unlock"] /\ unread' = unread + 1
          /\ result' = [result EXCEPT ![t] = NoWait]
      BY <2>2 DEF Send
    <3>2. \A u \in Threads : pc'[u] = IF u = t THEN "unlock" ELSE pc[u]
      BY <3>1, Moved
    <3>3. LockHeld' /\ RequestsCounted' /\ taken' + unread' <= requests'
      BY <1>1, <1>2, <1>3, <3>1, <3>2 DEF IInv, LockHeld, RequestsCounted
    <3>4. result' \in [Threads -> Results] /\ AnswerInSequence' /\ AnswersExecuted'
      BY <1>1, <3>1, PlainResult DEF server
    <3>5. pc' \in [Threads -> {"idle", "lock", "send", "recv", "unlock", "dead"}]
          /\ unread' \in Nat
      BY <1>3, <3>1 DEF IInv, TypeOK
    <3>6. QED
      BY <3>3, <3>4, <3>5
  <2>3. QED
    BY <2>1, <2>2
<1>6. toServer' \in Seq(Nat)
  BY <1>1, <1>3
<1>7. TypeOK'
  <2>1. mine' \in [Threads -> Nat] /\ requests' \in Nat
    BY <1>1, <1>3
  <2>2. QED
    BY <1>1, <1>3, <1>4, <1>6, <2>1 DEF IInv, TypeOK, server
<1>8. StreamsNumbered' /\ ExecutedCounted' /\ ExecutedInOrder'
  <2>1. CASE service = "ended"
    BY <1>1, <2>1 DEF IInv, StreamsNumbered, ExecutedCounted, ExecutedInOrder, InHand, server
  <2>2. CASE service # "ended"
    <3>1. toServer' = Append(toServer, requests + 1)
      BY <1>1, <2>2
    <3>2. requests = taken + Len(toClient) + InHand + Len(toServer)
      BY <2>2 DEF IInv, StreamsNumbered
    <3>3. InHand \in Nat /\ InHand' = InHand
      BY <1>1 DEF InHand, server
    <3>4. Len(toServer') = Len(toServer) + 1 /\ Len(toServer) \in Nat /\ Len(toClient) \in Nat
      BY <1>3, <3>1
    <3>5. \A i \in 1..Len(toServer') : toServer'[i] = taken + Len(toClient) + InHand + i
      <4> SUFFICES ASSUME NEW i \in 1..Len(toServer')
                   PROVE  toServer'[i] = taken + Len(toClient) + InHand + i
        OBVIOUS
      <4>1. CASE i <= Len(toServer)
        BY <1>3, <2>2, <3>1, <3>4, <4>1 DEF IInv, StreamsNumbered
      <4>2. CASE i = Len(toServer) + 1
        <5>1. toServer'[i] = requests + 1
          BY <1>3, <3>1, <4>2
        <5>2. QED
          BY <1>3, <3>2, <3>3, <4>2, <5>1
      <4>3. QED
        BY <1>3, <3>4, <4>1, <4>2
    <3>6. requests' = taken + Len(toClient) + InHand + Len(toServer')
      <4>1. requests' = requests + 1
        BY <1>1
      <4>2. QED
        BY <1>3, <3>2, <3>3, <3>4, <4>1
    <3>7. StreamsNumbered'
      BY <1>1, <3>3, <3>5, <3>6 DEF IInv, StreamsNumbered, server
    <3>8. QED
      BY <1>1, <3>7 DEF IInv, ExecutedCounted, ExecutedInOrder, server
  <2>3. QED
    BY <2>1, <2>2
<1>9. QED
  BY <1>4, <1>7, <1>8 DEF IInv

LEMMA GiveUpStep == \A t \in Threads : IInv /\ (SendFails(t) \/ TimeOut(t)) => IInv'
<1> SUFFICES ASSUME IInv, NEW t \in Threads, SendFails(t) \/ TimeOut(t) PROVE IInv'
  OBVIOUS
<1>1. /\ pc[t] \in {"send", "recv"} /\ pc' = [pc EXCEPT ![t] = "unlock"]
      /\ \E r \in {Failed, Late} : result' = [result EXCEPT ![t] = r]
      /\ unread' = IF pc[t] = "recv" THEN unread + 1 ELSE unread
      /\ UNCHANGED <<hSock, nTimeout, xLock, mine, requests, taken,
                     toServer, toClient, server>>
  BY DEF SendFails, TimeOut
<1>2. \A u \in Threads : pc'[u] = IF u = t THEN "unlock" ELSE pc[u]
  BY <1>1, Moved
<1>3. result' \in [Threads -> Results] /\ AnswerInSequence' /\ AnswersExecuted'
  BY <1>1, PlainResult DEF server
<1>4. requests \in Nat /\ taken \in Nat /\ unread \in Nat
  BY DEF IInv, TypeOK
<1>5. (\A u \in Threads : pc'[u] # "recv") /\ requests = taken + unread'
  BY <1>1, <1>2, <1>4 DEF IInv, LockHeld, RequestsCounted
<1>6. LockHeld' /\ RequestsCounted'
  BY <1>1, <1>2, <1>5 DEF IInv, LockHeld, RequestsCounted
<1>7. TypeOK'
  BY <1>1, <1>3, <1>4, <1>5 DEF IInv, TypeOK, server
<1>8. QED
  BY <1>1, <1>3, <1>6, <1>7, SameStreams DEF IInv

LEMMA SendKillsStep == \A t \in Threads : IInv /\ SendKills(t) => IInv'
<1> SUFFICES ASSUME IInv, NEW t \in Threads, SendKills(t) PROVE IInv'
  OBVIOUS
<1>1. /\ pc[t] = "send" /\ pc' = [u \in Threads |-> "dead"]
      /\ UNCHANGED <<hSock, nTimeout, xLock, mine, result, requests, taken, unread,
                     toServer, toClient, server>>
  BY DEF SendKills
<1>2. LockHeld' /\ RequestsCounted'
  BY <1>1, Alone DEF LockHeld, RequestsCounted
<1>3. TypeOK'
  BY <1>1 DEF IInv, TypeOK, server
<1>4. QED
  BY <1>1, <1>2, <1>3, SameStreams, SameResult DEF IInv, server

LEMMA LockResetStep == \A t \in Threads : IInv /\ LockReset(t) => IInv'
<1> SUFFICES ASSUME IInv, NEW t \in Threads, LockReset(t) PROVE IInv'
  OBVIOUS
<1>1. /\ pc[t] = "unlock" /\ xLock' = Free /\ pc' = [pc EXCEPT ![t] = "idle"]
      /\ UNCHANGED <<hSock, nTimeout, mine, result, requests, taken, unread,
                     toServer, toClient, server>>
  BY DEF LockReset
<1>2. \A u \in Threads : pc'[u] = IF u = t THEN "idle" ELSE pc[u]
  BY <1>1, Moved
<1>3. \A u \in Threads : pc'[u] \notin {"send", "recv", "unlock"}
  BY <1>1, <1>2 DEF IInv, LockHeld
<1>4. LockHeld' /\ RequestsCounted'
  BY <1>1, <1>3, Alone DEF LockHeld, RequestsCounted
<1>5. TypeOK'
  BY <1>1 DEF IInv, TypeOK, server
<1>6. QED
  BY <1>1, <1>4, <1>5, SameStreams, SameResult DEF IInv, server

LEMMA RecvStep == \A t \in Threads : IInv /\ Recv(t) => IInv'
<1> SUFFICES ASSUME IInv, NEW t \in Threads, Recv(t) PROVE IInv'
  OBVIOUS
<1> DEFINE n == Head(toClient)
<1>1. /\ pc[t] = "recv" /\ toClient # <<>> /\ toClient' = Tail(toClient)
      /\ taken' = taken + 1 /\ pc' = [pc EXCEPT ![t] = "unlock"]
      /\ result' = [result EXCEPT ![t] = Answer(mine[t], n, unread)]
      /\ UNCHANGED <<hSock, nTimeout, xLock, mine, requests, unread, toServer, server>>
  BY DEF Recv
<1>2. /\ requests \in Nat /\ taken \in Nat /\ unread \in Nat /\ mine[t] \in Nat
      /\ toServer \in Seq(Nat) /\ toClient \in Seq(Nat) /\ executed \in Seq(Nat)
      /\ result \in [Threads -> Results]
  BY DEF IInv, TypeOK
<1>3. /\ Len(toClient) \in Nat /\ Len(toClient) > 0
      /\ Len(toClient') = Len(toClient) - 1
      /\ \A i \in 1..Len(toClient') : toClient'[i] = toClient[i + 1]
      /\ toClient' \in Seq(Nat) /\ n = toClient[1] /\ n \in Nat
  BY <1>1, <1>2
<1>4. n = taken + 1
  BY <1>3 DEF IInv, StreamsNumbered
<1>5. requests = taken + unread + 1 /\ mine[t] = requests
  BY <1>1 DEF IInv, RequestsCounted
<1>6. \A u \in Threads : pc'[u] = IF u = t THEN "unlock" ELSE pc[u]
  BY <1>1, Moved
<1>7. \A u \in Threads : pc'[u] # "recv"
  BY <1>1, <1>6 DEF IInv, LockHeld
<1>8. LockHeld' /\ RequestsCounted'
  BY <1>1, <1>2, <1>5, <1>6, <1>7 DEF IInv, LockHeld, RequestsCounted
<1>9. StreamsNumbered'
  <2>1. \A i \in 1..Len(toClient') : toClient'[i] = taken' + i
    BY <1>1, <1>2, <1>3 DEF IInv, StreamsNumbered
  <2>2. taken' + Len(toClient') = taken + Len(toClient)
    BY <1>1, <1>2, <1>3
  <2>3. InHand' = InHand /\ InHand \in Nat /\ UNCHANGED <<service, pReq>>
    BY <1>1 DEF InHand, server
  <2>4. QED
    BY <1>1, <2>1, <2>2, <2>3 DEF IInv, StreamsNumbered
<1>10. ExecutedCounted' /\ ExecutedInOrder' /\ n <= Len(executed')
  <2>1. taken' + Len(toClient') = taken + Len(toClient)
    BY <1>1, <1>2, <1>3
  <2>2. UNCHANGED <<service, executed>>
    BY <1>1 DEF server
  <2>3. Len(executed) \in Nat /\ Len(executed) >= taken + Len(toClient)
    BY <1>2 DEF IInv, ExecutedCounted
  <2>4. n <= Len(executed)
    BY <1>2, <1>3, <1>4, <2>3
  <2>5. QED
    BY <2>1, <2>2, <2>4 DEF IInv, ExecutedCounted, ExecutedInOrder
<1>11. result' \in [Threads -> Results] /\ AnswerInSequence' /\ AnswersExecuted'
  <2> DEFINE a == Answer(mine[t], n, unread)
  <2>0. n \in Nat
    BY <1>3
  <2> HIDE DEF n
  <2>1. a \in Results /\ a.request = mine[t] /\ a.response = n /\ a.before = unread
    BY <1>2, <2>0 DEF Answer, Answers, Results
  <2> HIDE DEF a
  <2>2. \A u \in Threads : result'[u] = IF u = t THEN a ELSE result[u]
    BY <1>1, <1>2 DEF a
  <2>3. a.response + a.before = a.request /\ a.response <= Len(executed')
    BY <1>2, <1>4, <1>5, <1>10, <2>1
  <2>4. AnswerInSequence' /\ AnswersExecuted'
    BY <1>1, <2>2, <2>3 DEF IInv, AnswerInSequence, AnswersExecuted, server
  <2>5. result' \in [Threads -> Results]
    BY <1>1, <1>2, <2>1 DEF a
  <2>6. QED
    BY <2>4, <2>5
<1>12. TypeOK'
  <2>1. taken' + unread <= requests
    BY <1>1, <1>2, <1>5
  <2>2. QED
    BY <1>1, <1>2, <1>3, <1>11, <2>1 DEF IInv, TypeOK, server
<1>13. QED
  BY <1>8, <1>9, <1>10, <1>11, <1>12 DEF IInv

-------------------------------------------------------------------------------
\* Steps of the data manager leave the callers alone.
LEMMA SameClient ==
    ASSUME IInv, UNCHANGED client
    PROVE  LockHeld' /\ RequestsCounted' /\ AnswerInSequence'
  BY DEF IInv, LockHeld, RequestsCounted, AnswerInSequence, client

LEMMA ReceiveStep == IInv /\ Receive => IInv'
<1> SUFFICES ASSUME IInv, Receive PROVE IInv'
  OBVIOUS
<1>1. /\ service = "recv" /\ toServer # <<>> /\ pReq' = Head(toServer)
      /\ toServer' = Tail(toServer) /\ service' = "call"
      /\ UNCHANGED <<hSock, nTimeout, xLock, pc, mine, result, requests, taken, unread>>
      /\ UNCHANGED <<toClient, executed>>
  BY DEF Receive, client
<1>2. toServer \in Seq(Nat) /\ requests \in Nat /\ taken \in Nat /\ Len(toClient) \in Nat
  BY DEF IInv, TypeOK
<1>3. /\ Len(toServer) \in Nat /\ Len(toServer) > 0 /\ Len(toServer') = Len(toServer) - 1
      /\ \A i \in 1..Len(toServer') : toServer'[i] = toServer[i + 1]
      /\ toServer' \in Seq(Nat) /\ pReq' = toServer[1] /\ pReq' \in Nat
  BY <1>1, <1>2
<1>4. InHand = 0 /\ InHand' = 1
  BY <1>1 DEF InHand
<1>5. /\ requests = taken + Len(toClient) + Len(toServer)
      /\ \A i \in 1..Len(toServer) : toServer[i] = taken + Len(toClient) + i
  BY <1>1, <1>2, <1>4 DEF IInv, StreamsNumbered
<1>6. pReq' = taken + Len(toClient) + 1
  BY <1>3, <1>5
<1>7. /\ requests = taken + Len(toClient) + 1 + Len(toServer')
      /\ \A i \in 1..Len(toServer') : toServer'[i] = taken + Len(toClient) + 1 + i
  BY <1>2, <1>3, <1>5
<1>8. StreamsNumbered'
  BY <1>1, <1>4, <1>6, <1>7 DEF IInv, StreamsNumbered
<1>9. TypeOK' /\ ExecutedCounted' /\ ExecutedInOrder' /\ AnswersExecuted'
  BY <1>1, <1>3 DEF IInv, TypeOK, ExecutedCounted, ExecutedInOrder, AnswersExecuted
<1>10. QED
  BY <1>1, <1>8, <1>9, SameClient DEF IInv, client

LEMMA ExecuteStep == IInv /\ Execute => IInv'
<1> SUFFICES ASSUME IInv, Execute PROVE IInv'
  OBVIOUS
<1>1. /\ service = "call" /\ executed' = Append(executed, pReq) /\ service' = "send"
      /\ UNCHANGED <<hSock, nTimeout, xLock, pc, mine, result, requests, taken, unread>>
      /\ UNCHANGED <<toServer, toClient, pReq>>
  BY DEF Execute, client
<1>2. executed \in Seq(Nat) /\ pReq \in Nat /\ taken \in Nat /\ Len(toClient) \in Nat
  BY DEF IInv, TypeOK
<1>3. /\ Len(executed') = Len(executed) + 1 /\ executed' \in Seq(Nat)
      /\ Len(executed) \in Nat
      /\ \A i \in 1..Len(executed) : executed'[i] = executed[i]
      /\ executed'[Len(executed) + 1] = pReq
  BY <1>1, <1>2
<1>4. pReq = Len(executed) + 1 /\ Len(executed) = taken + Len(toClient)
  BY <1>1, <1>2, <1>3 DEF IInv, StreamsNumbered, ExecutedCounted
<1>5. ExecutedInOrder'
  BY <1>3, <1>4 DEF IInv, ExecutedInOrder
<1>6. ExecutedCounted'
  BY <1>1, <1>2, <1>3, <1>4 DEF ExecutedCounted
<1>7. AnswersExecuted'
  <2> SUFFICES ASSUME NEW t \in Threads, result[t].kind = "answer"
               PROVE  result[t].response <= Len(executed')
    BY <1>1 DEF AnswersExecuted
  <2>1. result[t].response <= Len(executed)
    BY DEF IInv, AnswersExecuted
  <2>2. result[t].response \in Nat
    BY ResultKinds DEF IInv, TypeOK
  <2>3. QED
    BY <1>3, <2>1, <2>2
<1>8. StreamsNumbered' /\ TypeOK'
  BY <1>1, <1>3 DEF IInv, StreamsNumbered, InHand, TypeOK
<1>9. QED
  BY <1>1, <1>5, <1>6, <1>7, <1>8, SameClient DEF IInv, client

LEMMA RespondStep == IInv /\ Respond => IInv'
<1> SUFFICES ASSUME IInv, Respond PROVE IInv'
  OBVIOUS
<1>1. /\ service = "send" /\ toClient' = Append(toClient, pReq) /\ service' = "recv"
      /\ UNCHANGED <<hSock, nTimeout, xLock, pc, mine, result, requests, taken, unread>>
      /\ UNCHANGED <<toServer, pReq, executed>>
  BY DEF Respond, client
<1>2. toClient \in Seq(Nat) /\ pReq \in Nat /\ taken \in Nat /\ Len(toServer) \in Nat
      /\ requests \in Nat
  BY DEF IInv, TypeOK
<1>3. /\ Len(toClient') = Len(toClient) + 1 /\ toClient' \in Seq(Nat)
      /\ Len(toClient) \in Nat
      /\ \A i \in 1..Len(toClient) : toClient'[i] = toClient[i]
      /\ toClient'[Len(toClient) + 1] = pReq
  BY <1>1, <1>2
<1>4. pReq = taken + Len(toClient) + 1 /\ InHand = 1 /\ InHand' = 0
  BY <1>1 DEF IInv, StreamsNumbered, InHand
<1>5. \A i \in 1..Len(toClient') : toClient'[i] = taken + i
  <2>1. \A i \in 1..Len(toClient) : toClient[i] = taken + i
    BY DEF IInv, StreamsNumbered
  <2>2. pReq = taken + (Len(toClient) + 1)
    BY <1>2, <1>3, <1>4
  <2>3. ASSUME NEW i \in 1..Len(toClient') PROVE i \in 1..Len(toClient) \/ i = Len(toClient) + 1
    BY <1>3
  <2>4. QED
    BY <1>3, <2>1, <2>2, <2>3
<1>6. /\ requests = taken + Len(toClient) + 1 + Len(toServer)
      /\ \A i \in 1..Len(toServer) : toServer[i] = taken + Len(toClient) + 1 + i
  BY <1>1, <1>4 DEF IInv, StreamsNumbered
<1>7. /\ requests = taken + Len(toClient') + 0 + Len(toServer)
      /\ \A i \in 1..Len(toServer) : toServer[i] = taken + Len(toClient') + 0 + i
  BY <1>2, <1>3, <1>6
<1>8. StreamsNumbered'
  BY <1>1, <1>4, <1>5, <1>7 DEF StreamsNumbered
<1>9. ExecutedCounted'
  BY <1>1, <1>2, <1>3 DEF IInv, ExecutedCounted
<1>10. TypeOK' /\ ExecutedInOrder' /\ AnswersExecuted'
  BY <1>1, <1>3 DEF IInv, TypeOK, ExecutedInOrder, AnswersExecuted
<1>11. QED
  BY <1>1, <1>8, <1>9, <1>10, SameClient DEF IInv, client

LEMMA EndStep == IInv /\ End => IInv'
<1> SUFFICES ASSUME IInv, End PROVE IInv'
  OBVIOUS
<1>1. /\ service' = "ended" /\ toServer' = <<>> /\ toClient' \in {toClient, <<>>}
      /\ UNCHANGED <<hSock, nTimeout, xLock, pc, mine, result, requests, taken, unread>>
      /\ UNCHANGED <<pReq, executed>>
  BY DEF End, client
<1>2. toClient \in Seq(Nat) /\ taken \in Nat /\ Len(executed) \in Nat
  BY DEF IInv, TypeOK
<1>3. Len(toClient') \in Nat /\ Len(toClient') <= Len(toClient)
  BY <1>1, <1>2
<1>4. StreamsNumbered'
  BY <1>1, <1>2, <1>3 DEF IInv, StreamsNumbered
<1>5. Len(executed) >= taken + Len(toClient')
  BY <1>2, <1>3 DEF IInv, ExecutedCounted
<1>6. ExecutedCounted' /\ ExecutedInOrder' /\ AnswersExecuted'
  BY <1>1, <1>5 DEF IInv, ExecutedCounted, ExecutedInOrder, AnswersExecuted
<1>7. TypeOK'
  <2>0. <<>> \in Seq(Nat)
    OBVIOUS
  <2>1. toClient' \in Seq(Nat) /\ toServer' \in Seq(Nat)
    BY <1>1, <1>2, <2>0, Zenon
  <2>2. QED
    BY <1>1, <2>1 DEF IInv, TypeOK
<1>8. QED
  BY <1>1, <1>4, <1>6, <1>7, SameClient DEF IInv, client

-------------------------------------------------------------------------------
LEMMA Initial == Init => IInv
<1> SUFFICES ASSUME Init PROVE IInv
  OBVIOUS
<1>1. \A t \in Threads : result[t] = None /\ result[t].kind # "answer"
  BY ResultKinds DEF Init
<1>2. <<>> \in Seq(Nat) /\ Len(<<>>) = 0
  OBVIOUS
<1>3. TypeOK
  <2>1. result \in [Threads -> Results] /\ mine \in [Threads -> Nat]
        /\ pc \in [Threads -> {"idle", "lock", "send", "recv", "unlock", "dead"}]
    BY ResultKinds DEF Init
  <2>2. toServer \in Seq(Nat) /\ toClient \in Seq(Nat) /\ executed \in Seq(Nat)
    BY <1>2, Zenon DEF Init
  <2>3. hSock \in BOOLEAN /\ nTimeout \in BOOLEAN
    BY Zenon DEF Init
  <2>4. /\ xLock \in Threads \cup {Free} /\ service \in {"recv", "call", "send", "ended"}
        /\ requests = 0 /\ taken = 0 /\ unread = 0 /\ pReq = 0
    BY Zenon DEF Init
  <2>5. QED
    BY <2>1, <2>2, <2>3, <2>4 DEF TypeOK
<1>4. LockHeld /\ RequestsCounted
  BY DEF Init, LockHeld, RequestsCounted
<1>5. StreamsNumbered /\ ExecutedCounted /\ ExecutedInOrder
  BY <1>2 DEF Init, StreamsNumbered, InHand, ExecutedCounted, ExecutedInOrder
<1>6. AnswerInSequence /\ AnswersExecuted
  BY <1>1 DEF AnswerInSequence, AnswersExecuted
<1>7. QED
  BY <1>3, <1>4, <1>5, <1>6 DEF IInv

LEMMA Inductive == IInv /\ [Next]_vars => IInv'
<1> SUFFICES ASSUME IInv, [Next]_vars PROVE IInv'
  OBVIOUS
<1>1. CASE Connect \/ SetTimeout
  BY <1>1, ConnectStep
<1>2. CASE \E t \in Threads : Call(t) \/ LockSet(t) \/ Send(t) \/ LockReset(t)
  BY <1>2, CallStep, LockSetStep, SendStep, LockResetStep
<1>3. CASE \E t \in Threads : SendFails(t) \/ SendKills(t) \/ TimeOut(t) \/ Recv(t)
  BY <1>3, GiveUpStep, SendKillsStep, RecvStep
<1>4. CASE Receive \/ Execute \/ Respond \/ End
  BY <1>4, ReceiveStep, ExecuteStep, RespondStep, EndStep
<1>5. CASE UNCHANGED vars
  BY <1>5, SameStreams, SameResult
     DEF IInv, vars, client, server, TypeOK, LockHeld, RequestsCounted
<1>6. QED
  BY <1>1, <1>2, <1>3, <1>4, <1>5 DEF Next

LEMMA Invariant == Spec => []IInv
  BY Initial, Inductive, PTL DEF Spec

\* The variables keep their types, and no caller is counted twice.
THEOREM TypeCorrect == Spec => []TypeOK
<1>1. IInv => TypeOK
  BY DEF IInv
<1>2. QED
  BY <1>1, Invariant, PTL

\* Whatever the data manager does, an answer is behind its request by exactly
\* the callers that left without theirs.
THEOREM AnswersInSequence == Spec => []AnswerInSequence
<1>1. IInv => AnswerInSequence
  BY DEF IInv
<1>2. QED
  BY <1>1, Invariant, PTL

\* No timeout makes the data manager repeat a request or change their order.
THEOREM ExecutionInOrder == Spec => []ExecutedInOrder
<1>1. IInv => ExecutedInOrder
  BY DEF IInv
<1>2. QED
  BY <1>1, Invariant, PTL

\* A caller that gets its own answer finds its request, and all before it, done.
THEOREM OwnAnswersAreDone == Spec => []OwnAnswerMeansDone
<1>1. IInv => OwnAnswerMeansDone
  <2> SUFFICES ASSUME IInv, NEW t \in Threads,
                      result[t].kind = "answer", result[t].before = 0,
                      NEW r \in 1..result[t].request
               PROVE  \E i \in 1..Len(executed) : executed[i] = r
    BY DEF OwnAnswerMeansDone
  <2>1. result[t].request \in Nat /\ result[t].response \in Nat
    BY ResultKinds DEF IInv, TypeOK
  <2>2. result[t].response = result[t].request
    BY <2>1 DEF IInv, AnswerInSequence
  <2>3. result[t].request <= Len(executed) /\ Len(executed) \in Nat
    BY <2>2 DEF IInv, AnswersExecuted, TypeOK
  <2>4. r \in 1..Len(executed)
    BY <2>1, <2>3
  <2>5. QED
    BY <2>4 DEF IInv, ExecutedInOrder
<1>2. QED
  BY <1>1, Invariant, PTL

\* The converse of LockHeld: whoever holds the lock is on its way to give it back.
LockReturned == \A t \in Threads : xLock = t => pc[t] \in {"send", "recv", "unlock", "dead"}

LEMMA LockReturnedStep == IInv /\ LockReturned /\ [Next]_vars => LockReturned'
<1> SUFFICES ASSUME IInv, LockReturned, [Next]_vars PROVE LockReturned'
  OBVIOUS
<1>1. pc \in [Threads -> {"idle", "lock", "send", "recv", "unlock", "dead"}]
  BY DEF IInv, TypeOK
<1>2. CASE Connect \/ SetTimeout \/ Receive \/ Execute \/ Respond \/ End \/ UNCHANGED vars
  BY <1>2 DEF Connect, SetTimeout, Receive, Execute, Respond, End, vars, client, LockReturned
<1>3. ASSUME NEW t \in Threads, Call(t) PROVE LockReturned'
  BY <1>1, <1>3 DEF Call, LockReturned
<1>4. ASSUME NEW t \in Threads, LockSet(t) PROVE LockReturned'
  BY <1>1, <1>4 DEF LockSet, LockReturned
<1>5. ASSUME NEW t \in Threads, Send(t) \/ SendFails(t) \/ Recv(t) \/ TimeOut(t)
      PROVE  LockReturned'
  BY <1>1, <1>5 DEF Send, SendFails, Recv, TimeOut, LockReturned
<1>6. ASSUME NEW t \in Threads, SendKills(t) PROVE LockReturned'
  BY <1>6 DEF SendKills, LockReturned
<1>7. ASSUME NEW t \in Threads, LockReset(t) PROVE LockReturned'
  BY <1>7, FreeAssumption DEF LockReset, LockReturned
<1>8. QED
  BY <1>2, <1>3, <1>4, <1>5, <1>6, <1>7 DEF Next

\* No call leaves the lock behind, so whoever waits for it waits for a caller that
\* needs nobody to go on: what EveryCallReturns rests on.
THEOREM LockNeverLost == Spec => []LockAccounted
<1>1. Init => LockReturned
  BY FreeAssumption DEF Init, LockReturned
<1>2. IInv /\ LockReturned => LockAccounted
  BY DEF IInv, LockHeld, LockReturned, LockAccounted
<1>3. QED
  BY <1>1, <1>2, Invariant, LockReturnedStep, PTL DEF Spec

-------------------------------------------------------------------------------
(* The data manager's server.                                                 *)

\* A session is in the list from before its thread starts until it is destroyed.
Active == {"wait", "recv", "call", "send", "destroy"}
ActiveListed == \A c \in Conns : session[c] \in Active => c \in pSessionList

StoppedEmpty == acceptor = "stopped" => pSessionList = {}
KilledGone   == acceptor = "killed" => \A c \in Conns : session[c] = "gone"

SisInv == SisTypeOK /\ PermitsAccounted /\ ActiveListed /\ StoppedEmpty /\ KilledGone

-------------------------------------------------------------------------------
LEMMA HoldingFinite == IsFiniteSet(Holding) /\ Cardinality(Holding) \in Nat
<1>1. Holding \subseteq Conns
  BY DEF Holding
<1>2. QED
  BY <1>1, ConnsAssumption, FS_Subset, FS_CardinalityType

\* One session moves; the others stay where they are.
LEMMA MovedOne ==
    ASSUME SisTypeOK, NEW c \in Conns, NEW place, Goto(c, place)
    PROVE  \A d \in Conns : session'[d] = IF d = c THEN place ELSE session[d]
  BY DEF SisTypeOK, Goto

\* A move among the places of admitted sessions, or among the others, changes
\* no count.
LEMMA SameHolding ==
    ASSUME SisTypeOK, NEW c \in Conns, NEW place, Goto(c, place),
           session[c] \in Serving <=> place \in Serving
    PROVE  Holding' = Holding
<1>1. \A d \in Conns : session'[d] = IF d = c THEN place ELSE session[d]
  BY MovedOne
<1>2. QED
  BY <1>1 DEF Holding

LEMMA OneMore ==
    ASSUME SisTypeOK, NEW c \in Conns, NEW place, Goto(c, place),
           session[c] \notin Serving, place \in Serving
    PROVE  Cardinality(Holding') = Cardinality(Holding) + 1
<1>1. \A d \in Conns : session'[d] = IF d = c THEN place ELSE session[d]
  BY MovedOne
<1>2. Holding' = Holding \cup {c} /\ c \notin Holding
  BY <1>1 DEF Holding
<1>3. QED
  BY <1>2, HoldingFinite, FS_AddElement

LEMMA OneLess ==
    ASSUME SisTypeOK, NEW c \in Conns, NEW place, Goto(c, place),
           session[c] \in Serving, place \notin Serving
    PROVE  Cardinality(Holding') = Cardinality(Holding) - 1
<1>1. \A d \in Conns : session'[d] = IF d = c THEN place ELSE session[d]
  BY MovedOne
<1>2. Holding' = Holding \ {c} /\ c \in Holding
  BY <1>1 DEF Holding
<1>3. QED
  BY <1>2, HoldingFinite, FS_RemoveElement

-------------------------------------------------------------------------------
Places == {"none", "wait", "refused", "gone"} \cup Serving

\* A step that moves one session, none of the server's places and no permit.
LEMMA MoveKeeps ==
    ASSUME SisInv, NEW c \in Conns, NEW place \in Places, Goto(c, place),
           session[c] # "gone",
           session[c] \in Serving <=> place \in Serving,
           UNCHANGED <<bStop, acceptor, xSemaphore, ended, peer>>,
           joining' \in Conns \cup {NoConn},
           pending' \in [Conns -> 0..MaxPending],
           pSessionList' \subseteq Conns,
           \A d \in pSessionList : d # c => d \in pSessionList',
           place \in Active => c \in pSessionList',
           acceptor # "stopped"
    PROVE  SisInv'
<1>1. \A d \in Conns : session'[d] = IF d = c THEN place ELSE session[d]
  BY MovedOne DEF SisInv
<1>2. Holding' = Holding
  BY SameHolding DEF SisInv
<1>3. session' \in [Conns -> Places]
  BY DEF SisInv, SisTypeOK, Goto, Places
<1>5. SisTypeOK'
  BY <1>3 DEF SisInv, SisTypeOK, Places
<1>6. PermitsAccounted'
  BY <1>2 DEF SisInv, PermitsAccounted
<1>7. ActiveListed'
  <2> SUFFICES ASSUME NEW d \in Conns,
                      session'[d] \in Active
               PROVE  d \in pSessionList'
    BY DEF ActiveListed
  <2>1. CASE d = c
    BY <1>1, <2>1
  <2>2. CASE d # c
    <3>1. d \in pSessionList
      BY <1>1, <2>2 DEF SisInv, ActiveListed
    <3>2. QED
      BY <2>2, <3>1
  <2>3. QED
    BY <2>1, <2>2
<1>8. StoppedEmpty' /\ KilledGone'
  BY DEF SisInv, StoppedEmpty, KilledGone
<1>9. QED
  BY <1>5, <1>6, <1>7, <1>8 DEF SisInv

\* A step that moves no session and leaves the permits alone.
LEMMA StillKeeps ==
    ASSUME SisInv, UNCHANGED <<session, xSemaphore, pSessionList>>,
           bStop' \in BOOLEAN, joining' \in Conns \cup {NoConn}, ended' \subseteq Conns,
           peer' \in [Conns -> {"new", "open", "closed"}],
           pending' \in [Conns -> 0..MaxPending],
           acceptor' \in {"accept", "join", "stopped", "killed"},
           acceptor' = "killed" <=> acceptor = "killed",
           acceptor' = "stopped" => pSessionList = {}
    PROVE  SisInv'
<1>1. SisTypeOK'
  BY DEF SisInv, SisTypeOK
<1>2. Holding' = Holding
  BY DEF Holding
<1>3. PermitsAccounted' /\ ActiveListed' /\ StoppedEmpty' /\ KilledGone'
  BY <1>2 DEF SisInv, PermitsAccounted, ActiveListed, Active, StoppedEmpty, KilledGone
<1>4. QED
  BY <1>1, <1>3 DEF SisInv

LEMMA PeerSteps == \A c \in Conns : SisInv /\ (PeerConnects(c) \/ PeerRequests(c) \/ PeerHangsUp(c)) => SisInv'
<1> SUFFICES ASSUME SisInv, NEW c \in Conns, PeerConnects(c) \/ PeerRequests(c) \/ PeerHangsUp(c)
             PROVE  SisInv'
  OBVIOUS
<1>1. UNCHANGED <<bStop, acceptor, joining, xSemaphore, pSessionList, session, ended>>
  BY DEF PeerConnects, PeerRequests, PeerHangsUp
<1>2. peer' \in [Conns -> {"new", "open", "closed"}]
  BY DEF PeerConnects, PeerRequests, PeerHangsUp, SisInv, SisTypeOK
<1>3. pending' \in [Conns -> 0..MaxPending]
  BY SessionAssumption DEF PeerConnects, PeerRequests, PeerHangsUp, SisInv, SisTypeOK
<1>4. QED
  BY <1>1, <1>2, <1>3, StillKeeps DEF SisInv, SisTypeOK, StoppedEmpty

LEMMA ServerSteps ==
    SisInv /\ (Stop \/ LeaveLoop \/ Finish \/ \E c \in Conns : EndSession(c)) => SisInv'
<1> SUFFICES ASSUME SisInv, Stop \/ LeaveLoop \/ Finish \/ \E c \in Conns : EndSession(c)
             PROVE  SisInv'
  OBVIOUS
<1>1. UNCHANGED <<xSemaphore, pSessionList, session, peer, pending>>
  BY DEF Stop, LeaveLoop, Finish, EndSession
<1>2. /\ bStop' \in BOOLEAN /\ joining' \in Conns \cup {NoConn} /\ ended' \subseteq Conns
      /\ acceptor' \in {"accept", "join", "stopped", "killed"}
      /\ acceptor' = "killed" <=> acceptor = "killed"
      /\ acceptor' = "stopped" => pSessionList = {}
  BY DEF Stop, LeaveLoop, Finish, EndSession, SisInv, SisTypeOK, StoppedEmpty
<1>3. QED
  BY <1>1, <1>2, StillKeeps DEF SisInv, SisTypeOK

LEMMA AcceptSteps ==
    \A c \in Conns : SisInv /\ (Accept(c) \/ AcceptFails(c) \/ Joined(c)) => SisInv'
<1> SUFFICES ASSUME SisInv, NEW c \in Conns, Accept(c) \/ AcceptFails(c) \/ Joined(c)
             PROVE  SisInv'
  OBVIOUS
<1>1. CASE Accept(c)
  <2>1. /\ Goto(c, "wait") /\ session[c] = "none" /\ acceptor = "accept"
        /\ pSessionList' = pSessionList \cup {c}
        /\ UNCHANGED <<bStop, acceptor, joining, xSemaphore, ended, peer, pending>>
    BY <1>1 DEF Accept
  <2>2. "wait" \in Places
    BY DEF Places
  <2>3. QED
    BY <2>1, <2>2, MoveKeeps DEF SisInv, SisTypeOK, Serving
<1>2. CASE AcceptFails(c)
  <2>1. /\ Goto(c, "gone") /\ session[c] = "none" /\ acceptor = "accept"
        /\ UNCHANGED <<bStop, acceptor, joining, xSemaphore, pSessionList, ended, peer, pending>>
    BY <1>2 DEF AcceptFails
  <2>2. "gone" \in Places /\ "gone" \notin Active
    BY DEF Places, Active
  <2>3. QED
    BY <2>1, <2>2, MoveKeeps DEF SisInv, SisTypeOK, Serving
<1>3. CASE Joined(c)
  <2>1. CASE session[c] = "refused"
    <3>1. /\ Goto(c, "gone") /\ acceptor = "join" /\ joining' = NoConn
          /\ pSessionList' = pSessionList \ {c}
          /\ UNCHANGED <<bStop, acceptor, xSemaphore, ended, peer, pending>>
      BY <1>3 DEF Joined
    <3>2. "gone" \in Places /\ "gone" \notin Active
      BY DEF Places, Active
    <3>3. QED
      BY <2>1, <3>1, <3>2, MoveKeeps DEF SisInv, SisTypeOK, Serving
  <2>2. CASE session[c] = "gone"
    <3>1. /\ UNCHANGED session /\ pSessionList' = pSessionList \ {c} /\ acceptor = "join"
          /\ joining' = NoConn /\ UNCHANGED <<bStop, acceptor, xSemaphore, ended, peer, pending>>
      BY <1>3, <2>2 DEF Joined, Goto, SisInv, SisTypeOK
    <3>2. SisTypeOK'
      BY <3>1 DEF SisInv, SisTypeOK
    <3>3. Holding' = Holding
      BY <3>1 DEF Holding
    <3>4. PermitsAccounted' /\ ActiveListed' /\ StoppedEmpty' /\ KilledGone'
      BY <2>2, <3>1, <3>3
         DEF SisInv, PermitsAccounted, ActiveListed, Active, StoppedEmpty, KilledGone
    <3>5. QED
      BY <3>2, <3>4 DEF SisInv
  <2>3. QED
    BY <1>3, <2>1, <2>2 DEF Joined
<1>4. QED
  BY <1>1, <1>2, <1>3

-------------------------------------------------------------------------------
LEMMA PermitSteps == \A c \in Conns : SisInv /\ (Admit(c) \/ Post(c)) => SisInv'
<1> SUFFICES ASSUME SisInv, NEW c \in Conns, Admit(c) \/ Post(c) PROVE SisInv'
  OBVIOUS
<1>1. /\ UNCHANGED <<bStop, acceptor, joining, pSessionList, ended, peer, pending>>
      /\ session[c] \in {"wait", "post"}
      /\ \E place \in {"recv", "destroy", "gone"} : Goto(c, place)
  BY DEF Admit, Post
<1>2. acceptor # "killed" /\ xSemaphore \in 0..MaxSession /\ Cardinality(Holding) \in Nat
  BY <1>1, HoldingFinite DEF SisInv, KilledGone, SisTypeOK
<1>3. xSemaphore' \in 0..MaxSession /\ xSemaphore' + Cardinality(Holding') = MaxSession
  <2>1. CASE Admit(c)
    <3>1. Cardinality(Holding') = Cardinality(Holding) + 1
      BY <2>1, OneMore DEF Admit, SisInv, Serving
    <3>2. xSemaphore > 0 /\ xSemaphore' = xSemaphore - 1
      BY <2>1 DEF Admit
    <3>3. QED
      BY <1>2, <3>1, <3>2, SessionAssumption DEF SisInv, PermitsAccounted
  <2>2. CASE Post(c)
    <3>1. Cardinality(Holding') = Cardinality(Holding) - 1
      BY <2>2, OneLess DEF Post, SisInv, Serving
    <3>2. Cardinality(Holding') \in Nat
      <4>1. Holding' \subseteq Conns
        BY DEF Holding
      <4>2. QED
        BY <4>1, ConnsAssumption, FS_Subset, FS_CardinalityType
    <3>3. xSemaphore' = xSemaphore + 1
      BY <2>2 DEF Post
    <3>4. QED
      BY <1>2, <3>1, <3>2, <3>3, SessionAssumption DEF SisInv, PermitsAccounted
  <2>3. QED
    BY <2>1, <2>2
<1>4. SisTypeOK'
  BY <1>1, <1>3 DEF SisInv, SisTypeOK, Goto, Serving
<1>5. ActiveListed'
  <2>1. PICK place \in {"recv", "destroy", "gone"} : Goto(c, place)
    BY <1>1
  <2>2. \A d \in Conns : session'[d] = IF d = c THEN place ELSE session[d]
    BY <2>1, MovedOne DEF SisInv
  <2>3. session[c] = "post" => place = "gone"
    BY <2>1, <2>2 DEF Admit, Post, Goto, SisInv, SisTypeOK
  <2>4. QED
    BY <1>1, <2>1, <2>2, <2>3 DEF SisInv, ActiveListed, Active
<1>6. PermitsAccounted' /\ StoppedEmpty' /\ KilledGone'
  BY <1>1, <1>2, <1>3 DEF SisInv, PermitsAccounted, StoppedEmpty, KilledGone
<1>7. QED
  BY <1>4, <1>5, <1>6 DEF SisInv

LEMMA KillStep == \A c \in Conns : SisInv /\ RespondKills(c) => SisInv'
<1> SUFFICES ASSUME SisInv, NEW c \in Conns, RespondKills(c) PROVE SisInv'
  OBVIOUS
<1>1. /\ acceptor' = "killed" /\ session' = [d \in Conns |-> "gone"]
      /\ UNCHANGED <<bStop, joining, xSemaphore, pSessionList, ended, peer, pending>>
  BY DEF RespondKills
<1>2. SisTypeOK'
  BY <1>1 DEF SisInv, SisTypeOK
<1>3. QED
  BY <1>1, <1>2 DEF SisInv, PermitsAccounted, ActiveListed, Active, StoppedEmpty, KilledGone

LEMMA LoopSteps ==
    \A c \in Conns :
        SisInv /\ (Refuse(c) \/ ReceiveRequest(c) \/ Disconnected(c) \/ ExecuteRequest(c)
                   \/ SendResponse(c) \/ RespondFails(c) \/ Destroy(c)) => SisInv'
<1> SUFFICES ASSUME SisInv, NEW c \in Conns,
                    Refuse(c) \/ ReceiveRequest(c) \/ Disconnected(c) \/ ExecuteRequest(c)
                      \/ SendResponse(c) \/ RespondFails(c) \/ Destroy(c)
             PROVE  SisInv'
  OBVIOUS
<1>1. /\ session[c] \in Active /\ c \in pSessionList /\ acceptor # "stopped"
      /\ UNCHANGED <<bStop, acceptor, joining, xSemaphore, ended, peer>>
  BY DEF Refuse, ReceiveRequest, Disconnected, ExecuteRequest, SendResponse, RespondFails, Destroy,
         Active, SisInv, ActiveListed, StoppedEmpty
<1>2. pending' \in [Conns -> 0..MaxPending]
  BY SessionAssumption
     DEF Refuse, ReceiveRequest, Disconnected, ExecuteRequest, SendResponse, RespondFails, Destroy, SisInv, SisTypeOK
<1>3. \E place \in Places :
          /\ Goto(c, place)
          /\ session[c] \in Serving <=> place \in Serving
          /\ place \in Active => pSessionList' = pSessionList
          /\ pSessionList' \in {pSessionList, pSessionList \ {c}}
  BY DEF Refuse, ReceiveRequest, Disconnected, ExecuteRequest, SendResponse, RespondFails, Destroy,
         Places, Serving, Active
<1>4. PICK place \in Places :
          /\ Goto(c, place)
          /\ session[c] \in Serving <=> place \in Serving
          /\ place \in Active => pSessionList' = pSessionList
          /\ pSessionList' \in {pSessionList, pSessionList \ {c}}
  BY <1>3
<1>5. session[c] # "gone"
  BY <1>1 DEF Active
<1>6. pSessionList' \subseteq Conns /\ \A d \in pSessionList : d # c => d \in pSessionList'
  BY <1>4 DEF SisInv, SisTypeOK
<1>7. joining' \in Conns \cup {NoConn}
  BY <1>1 DEF SisInv, SisTypeOK
<1>8. QED
  BY <1>1, <1>2, <1>4, <1>5, <1>6, <1>7, MoveKeeps

-------------------------------------------------------------------------------
LEMMA SisInitial == SisInit => SisInv
<1> SUFFICES ASSUME SisInit PROVE SisInv
  OBVIOUS
<1>1. SisTypeOK
  <2>1. bStop \in BOOLEAN
    BY Zenon DEF SisInit
  <2>2. xSemaphore \in 0..MaxSession /\ pending \in [Conns -> 0..MaxPending]
    BY SessionAssumption DEF SisInit
  <2>3. QED
    BY <2>1, <2>2 DEF SisInit, SisTypeOK
<1>2. Holding = {}
  BY DEF SisInit, Holding, Serving
<1>3. PermitsAccounted
  BY <1>2, FS_EmptySet, SessionAssumption DEF SisInit, PermitsAccounted
<1>4. QED
  BY <1>1, <1>3 DEF SisInit, SisInv, ActiveListed, Active, StoppedEmpty, KilledGone

LEMMA SisInductive == SisInv /\ [SisNext]_sisVars => SisInv'
<1> SUFFICES ASSUME SisInv, [SisNext]_sisVars PROVE SisInv'
  OBVIOUS
<1>1. CASE \E c \in Conns : PeerConnects(c) \/ PeerRequests(c) \/ PeerHangsUp(c)
  BY <1>1, PeerSteps
<1>2. CASE \E c \in Conns : Accept(c) \/ AcceptFails(c) \/ Joined(c)
  BY <1>2, AcceptSteps
<1>3. CASE Stop \/ LeaveLoop \/ Finish \/ \E c \in Conns : EndSession(c)
  BY <1>3, ServerSteps
<1>4. CASE \E c \in Conns : Service(c)
  BY <1>4, PermitSteps, KillStep, LoopSteps DEF Service
<1>5. CASE UNCHANGED sisVars
  BY <1>5, StillKeeps DEF sisVars, SisInv, SisTypeOK, StoppedEmpty
<1>6. QED
  BY <1>1, <1>2, <1>3, <1>4, <1>5 DEF SisNext, Ending

LEMMA SisInvariant == SisSpec => []SisInv
  BY SisInitial, SisInductive, PTL DEF SisSpec

\* The variables keep their types; in particular no session takes a permit that
\* is not there.
THEOREM SisTypeCorrect == SisSpec => []SisTypeOK
<1>1. SisInv => SisTypeOK
  BY DEF SisInv
<1>2. QED
  BY <1>1, SisInvariant, PTL

\* No way a session ends loses a permit or makes one up.
THEOREM PermitsAreAccounted == SisSpec => []PermitsAccounted
<1>1. SisInv => PermitsAccounted
  BY DEF SisInv
<1>2. QED
  BY <1>1, SisInvariant, PTL

\* After a stop no session uses the database.
THEOREM StopEndsService == SisSpec => []NoServiceAfterStop
<1>1. SisInv => NoServiceAfterStop
  BY DEF SisInv, NoServiceAfterStop, StoppedEmpty, ActiveListed, Active, SisTypeOK, Serving
<1>2. QED
  BY <1>1, SisInvariant, PTL
-------------------------------------------------------------------------------
(* Why a stop comes to its end.                                               *)

\* The session that is joined was told to stop.
ToldToStop == joining # NoConn => acceptor \in {"join", "killed"} /\ joining \in ended

LEMMA ToldInit == SisInit => ToldToStop
  BY DEF SisInit, ToldToStop

LEMMA ToldStep == SisInv /\ ToldToStop /\ [SisNext]_sisVars => ToldToStop'
<1> SUFFICES ASSUME SisInv, ToldToStop, [SisNext]_sisVars PROVE ToldToStop'
  OBVIOUS
<1>1. CASE \E c \in Conns : PeerConnects(c) \/ PeerRequests(c) \/ PeerHangsUp(c)
  BY <1>1 DEF PeerConnects, PeerRequests, PeerHangsUp, ToldToStop
<1>2. CASE \E c \in Conns : Accept(c) \/ AcceptFails(c) \/ Joined(c)
  BY <1>2 DEF Accept, AcceptFails, Joined, ToldToStop
<1>3. CASE Stop \/ LeaveLoop \/ Finish \/ \E c \in Conns : EndSession(c)
  BY <1>3 DEF Stop, LeaveLoop, Finish, EndSession, ToldToStop
<1>4. CASE \E c \in Conns : Service(c)
  BY <1>4 DEF Service, Admit, Refuse, ReceiveRequest, Disconnected, ExecuteRequest,
              SendResponse, RespondFails, RespondKills, Destroy, Post, ToldToStop
<1>5. CASE UNCHANGED sisVars
  BY <1>5 DEF sisVars, ToldToStop
<1>6. QED
  BY <1>1, <1>2, <1>3, <1>4, <1>5 DEF SisNext, Ending

\* A step of a session's thread, unless it kills the data manager, moves that thread
\* alone, and nearer to its end if it was told to stop.
LEMMA ServiceAdvances ==
    ASSUME SisInv, NEW c \in Conns, Service(c), acceptor' # "killed"
    PROVE  /\ UNCHANGED <<joining, ended>> /\ pSessionList' \subseteq pSessionList
           /\ \A d \in Conns \ {c} : session'[d] = session[d]
           /\ c \in ended => Ahead(session'[c]) < Ahead(session[c])
<1>1. ~RespondKills(c)
  BY DEF RespondKills
<1>2. UNCHANGED <<joining, ended>> /\ pSessionList' \subseteq pSessionList
  BY <1>1 DEF Service, Admit, Refuse, ReceiveRequest, Disconnected, ExecuteRequest,
              SendResponse, RespondFails, Destroy, Post
<1>3. \A place : Goto(c, place) => \A d \in Conns : session'[d] = IF d = c THEN place ELSE session[d]
  BY MovedOne DEF SisInv
<1>4. \A d \in Conns \ {c} : session'[d] = session[d]
  BY <1>1, <1>3 DEF Service, Admit, Refuse, ReceiveRequest, Disconnected, ExecuteRequest,
                    SendResponse, RespondFails, Destroy, Post
<1>5. ASSUME c \in ended PROVE Ahead(session'[c]) < Ahead(session[c])
  <2>1. CASE session[c] = "wait"
    <3>1. session'[c] \in {"destroy", "refused"}
      BY <1>1, <1>3, <1>5, <2>1 DEF Service, Admit, Refuse, ReceiveRequest, Disconnected,
         ExecuteRequest, SendResponse, RespondFails, Destroy, Post
    <3>2. QED
      BY <2>1, <3>1 DEF Ahead
  <2>2. CASE session[c] = "recv"
    <3>1. session'[c] \in {"call", "destroy"}
      BY <1>1, <1>3, <2>2 DEF Service, Admit, Refuse, ReceiveRequest, Disconnected,
         ExecuteRequest, SendResponse, RespondFails, Destroy, Post
    <3>2. QED
      BY <2>2, <3>1 DEF Ahead
  <2>3. CASE session[c] = "call"
    <3>1. session'[c] = "send"
      BY <1>1, <1>3, <2>3 DEF Service, Admit, Refuse, ReceiveRequest, Disconnected,
         ExecuteRequest, SendResponse, RespondFails, Destroy, Post
    <3>2. QED
      BY <2>3, <3>1 DEF Ahead
  <2>4. CASE session[c] = "send"
    <3>1. session'[c] = "destroy"
      BY <1>1, <1>3, <1>5, <2>4 DEF Service, Admit, Refuse, ReceiveRequest, Disconnected,
         ExecuteRequest, SendResponse, RespondFails, Destroy, Post
    <3>2. QED
      BY <2>4, <3>1 DEF Ahead
  <2>5. CASE session[c] = "destroy"
    <3>1. session'[c] = "post"
      BY <1>1, <1>3, <2>5 DEF Service, Admit, Refuse, ReceiveRequest, Disconnected,
         ExecuteRequest, SendResponse, RespondFails, Destroy, Post
    <3>2. QED
      BY <2>5, <3>1 DEF Ahead
  <2>6. CASE session[c] = "post"
    <3>1. session'[c] = "gone"
      BY <1>1, <1>3, <2>6 DEF Service, Admit, Refuse, ReceiveRequest, Disconnected,
         ExecuteRequest, SendResponse, RespondFails, Destroy, Post
    <3>2. QED
      BY <2>6, <3>1 DEF Ahead
  <2>7. session[c] \in {"wait", "recv", "call", "send", "destroy", "post"}
    BY <1>1 DEF Service, Admit, Refuse, ReceiveRequest, Disconnected, ExecuteRequest,
                SendResponse, RespondFails, Destroy, Post
  <2>8. QED
    BY <2>1, <2>2, <2>3, <2>4, <2>5, <2>6, <2>7
<1>6. QED
  BY <1>2, <1>4, <1>5

\* A stop waits for the threads of finitely many sessions, one after the other, each of
\* which has at most five steps to make and waits for nobody.
THEOREM StopComesNearer == SisSpec => StopAdvances
<1> DEFINE Advances ==
      acceptor = "join" /\ acceptor' # "killed" =>
          /\ pSessionList' \subseteq pSessionList
          /\ joining # NoConn =>
                /\ joining \in ended
                /\ \/ /\ joining' = joining
                      /\ Ahead(session'[joining]) <= Ahead(session[joining])
                      /\ Service(joining) =>
                             Ahead(session'[joining]) < Ahead(session[joining])
                   \/ /\ joining' = NoConn /\ joining \notin pSessionList'
                      /\ Ahead(session[joining]) = 0
<1>1. SisInv /\ ToldToStop /\ [SisNext]_sisVars => [Advances]_sisVars
  <2> SUFFICES ASSUME SisInv, ToldToStop, SisNext, acceptor = "join", acceptor' # "killed"
               PROVE  Advances
    OBVIOUS
  <2>1. joining # NoConn => joining \in Conns /\ joining \in ended
    BY DEF SisInv, SisTypeOK, ToldToStop
  <2>2. \A place : Ahead(place) \in Nat /\ Ahead(place) <= Ahead(place)
    BY DEF Ahead
  <2>3. CASE \E c \in Conns : Service(c)
    <3>1. PICK c \in Conns : Service(c)
      BY <2>3
    <3>2. ASSUME joining # NoConn, Service(joining) PROVE Ahead(session'[joining]) < Ahead(session[joining])
      BY <2>1, <3>2, ServiceAdvances
    <3>3. ASSUME joining # NoConn PROVE Ahead(session'[joining]) <= Ahead(session[joining])
      <4>1. CASE joining = c
        BY <2>1, <2>2, <3>1, <3>2, <3>3, <4>1
      <4>2. CASE joining # c
        <5>1. session'[joining] = session[joining]
          BY <2>1, <3>1, <3>3, <4>2, ServiceAdvances
        <5>2. QED
          BY <2>2, <5>1
      <4>3. QED
        BY <4>1, <4>2
    <3>4. joining' = joining /\ pSessionList' \subseteq pSessionList
      BY <3>1, ServiceAdvances
    <3>5. QED
      BY <2>1, <3>2, <3>3, <3>4
  <2>4. CASE ~\E c \in Conns : Service(c)
    <3>1. joining # NoConn => ~Service(joining)
      BY <2>1, <2>4
    <3>2. CASE \E c \in Conns : PeerConnects(c) \/ PeerRequests(c) \/ PeerHangsUp(c)
      <4>1. UNCHANGED <<joining, session, pSessionList>>
        BY <3>2 DEF PeerConnects, PeerRequests, PeerHangsUp
      <4>2. QED
        BY <2>1, <2>2, <3>1, <4>1
    <3>3. CASE \E c \in Conns : Joined(c)
      <4>1. /\ joining # NoConn /\ joining' = NoConn /\ pSessionList' = pSessionList \ {joining}
            /\ session[joining] \in {"refused", "gone"}
        BY <3>3, ConnsAssumption DEF Joined
      <4>2. Ahead(session[joining]) = 0
        BY <4>1 DEF Ahead
      <4>3. QED
        BY <2>1, <4>1, <4>2
    <3>4. CASE Finish \/ \E c \in Conns : EndSession(c)
      BY <3>4 DEF Finish, EndSession
    <3>5. QED
      BY <2>4, <3>2, <3>3, <3>4 DEF SisNext, Ending, Accept, AcceptFails, Stop, LeaveLoop
  <2>5. QED
    BY <2>3, <2>4
<1>2. QED
  BY <1>1, SisInvariant, ToldInit, ToldStep, PTL DEF SisSpec, StopAdvances
===============================================================================
