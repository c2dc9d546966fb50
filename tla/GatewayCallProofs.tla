-------------------------- MODULE GatewayCallProofs --------------------------
(***************************************************************************)
(* Proofs about the two ways another process calls the gateway: SmpCall,   *)
(* over shared memory, and NetClient, over UDP.                            *)
(*                                                                         *)
(* SmpCall, for any set of callers, any start of the locker and any number *)
(* of calls.  That one caller at a time has the block                      *)
(* follows from xNotUse alone.  With it the requests can be accounted for: *)
(* as long as nobody gave up, at most one of xReq, the server and xResp    *)
(* holds something, and only while a caller expects its answer.  From that *)
(* follows what the buffer holds at each of these places, hence the rest.  *)
(* That it is a remote call needs to know, besides, whose request the      *)
(* server read last (ServiceInv): it tells a request that was executed     *)
(* from one that waits.                                                    *)
(*                                                                         *)
(* NetClient, for any set of callers and any number of calls and notices.  *)
(* A call has one packet on its way at most, so its response is delivered  *)
(* once; and what is delivered to a call whose number is its own is that   *)
(* response, because it was found by that number.                          *)
(***************************************************************************)
EXTENDS SmpCall, NetClient, SequenceTheorems, TLAPS

\* What the buffer and the server hold while nobody has given up.
HandshakeInv ==
    late = 0 =>
      /\ clash = {}
      /\ \A c \in Callers :
            /\ place[c] \in {"unlockPut", "answer"} =>
                  /\ xReq > 0 \/ place[Server] \in {"lockRead", "read"}
                        => pBuff = Message("request", mine[c])
                  /\ place[Server] \in {"unlockRead", "serve", "lockWrite", "write"}
                        => pReq = mine[c]
                  /\ xResp > 0 => pBuff = Message("response", mine[c])
            /\ place[c] \in {"lockGet", "get"} => pBuff = Message("response", mine[c])

IInv == TypeOK /\ OneCaller /\ RequestsAccounted /\ HandshakeInv /\ OwnAnswer

-------------------------------------------------------------------------------
\* One process moves; the others stay where they are.
LEMMA MovedOne ==
    ASSUME TypeOK, NEW p \in Processes, NEW there, Goto(p, there)
    PROVE  \A q \in Processes : place'[q] = IF q = p THEN there ELSE place[q]
  BY DEF TypeOK, Goto

\* A caller's move leaves the server alone, and one within the block, or
\* outside it, changes nothing about who has the block.
LEMMA CallerMoves ==
    ASSUME TypeOK, OneCaller, NEW c \in Callers, NEW there \in CallerPlaces, Goto(c, there)
    PROVE  /\ place' \in [Processes -> CallerPlaces \cup ServerPlaces]
           /\ place'[Server] = place[Server]
           /\ place'[c] = there
           /\ \A d \in Callers : d # c => place'[d] = place[d]
           /\ \A d \in Callers : place'[d] \in CallerPlaces
  BY MovedOne, ProcessesAssumption DEF TypeOK, Goto, Processes

LEMMA ServerMoves ==
    ASSUME TypeOK, NEW there \in ServerPlaces, Goto(Server, there)
    PROVE  /\ place' \in [Processes -> CallerPlaces \cup ServerPlaces]
           /\ place'[Server] = there
           /\ \A d \in Callers : place'[d] = place[d]
  BY MovedOne, ProcessesAssumption DEF TypeOK, Goto, Processes

\* A caller that has the block is the only one, and nobody else expects an answer.
LEMMA OnlyUser ==
    ASSUME OneCaller, NEW c \in Callers, Using(c)
    PROVE  /\ \A d \in Callers : Using(d) => d = c
           /\ xNotUse # 1
           /\ Expecting <=> place[c] \in {"unlockPut", "answer"}
  BY DEF OneCaller, Expecting, Using

\* Nobody gave up: there is at most one request on its way, and only for a
\* caller that expects the answer.
LEMMA OneOnTheWay ==
    ASSUME TypeOK, RequestsAccounted, late = 0
    PROVE  /\ ~Expecting => xReq = 0 /\ xResp = 0 /\ ~WithServer
           /\ WithServer => xReq = 0 /\ xResp = 0
           /\ xReq > 0 => xResp = 0 /\ xReq = 1
           /\ xResp > 0 => xReq = 0 /\ xResp = 1
  BY DEF TypeOK, RequestsAccounted

\* Then no copy overlaps another.
LEMMA NoOverlapFollows == IInv => NoOverlap
<1> SUFFICES ASSUME IInv, late = 0, NEW p \in Processes, NEW q \in Processes,
                    Copying(p), Copying(q)
             PROVE  p = q
  BY DEF NoOverlap
<1>1. ASSUME NEW c \in Callers, Copying(c) PROVE Using(c) /\ ~Expecting
  BY <1>1, OnlyUser DEF IInv, Copying, Using, TypeOK, CallerPlaces
<1>2. Copying(Server) => WithServer
  BY DEF IInv, TypeOK, Copying, WithServer, ServerPlaces
<1>3. ~Expecting => ~WithServer
  BY OneOnTheWay DEF IInv
<1>4. \A c, d \in Callers : Copying(c) /\ Copying(d) => c = d
  BY <1>1 DEF IInv, OneCaller
<1>5. QED
  BY <1>1, <1>2, <1>3, <1>4 DEF Processes

-------------------------------------------------------------------------------
(* The steps, invariant by invariant.                                         *)

LEMMA CopiedMessage ==
    ASSUME NEW p, NEW m \in Messages, NEW n \in Copied(p, m)
    PROVE  n \in Messages
  BY BoundAssumption DEF Copied, Torn, Message, Messages

LEMMA TypeStep == TypeOK /\ OneCaller /\ [Next]_vars => TypeOK'
<1> SUFFICES ASSUME TypeOK, OneCaller, [Next]_vars PROVE TypeOK'
  OBVIOUS
<1>1. ASSUME NEW c \in Callers, Call(c) PROVE TypeOK'
  <2>1. "enter" \in CallerPlaces /\ Nothing \in Messages
    BY BoundAssumption DEF CallerPlaces, Nothing, Message, Messages
  <2>2. calls + 1 \in 0..MaxCalls
    BY <1>1, BoundAssumption DEF TypeOK, Call
  <2>3. QED
    BY <1>1, <2>1, <2>2, CallerMoves DEF TypeOK, Call, semaphores, history
<1>2. ASSUME NEW c \in Callers, CallerStep(c) PROVE TypeOK'
  <2>1. PICK there \in CallerPlaces : Goto(c, there)
    BY <1>2 DEF CallerStep, Enter, EnterTimesOut, LockTimesOut, Lock, Put, Unlock, Answer,
                AnswerTimesOut, Get, Leave, CallerPlaces
  <2>2. /\ place' \in [Processes -> CallerPlaces \cup ServerPlaces]
        /\ place'[Server] \in ServerPlaces /\ \A d \in Callers : place'[d] \in CallerPlaces
    BY <2>1, CallerMoves DEF TypeOK
  <2>3. xNotUse' \in 0..1 /\ xReq' \in Nat /\ xResp' \in Nat /\ pLocker' \in Nat
        /\ late' \in Nat /\ dropped' \in Nat /\ UNCHANGED <<mine, calls, pReq, timeLimits>>
    BY <1>2, OnlyUser DEF TypeOK, CallerStep, Enter, EnterTimesOut, LockTimesOut, Lock, Put, Unlock,
                Answer, AnswerTimesOut, Get, Leave, semaphores, history, results, Using
  <2>4. pBuff' \in Messages /\ pRespBuff' \in [Callers -> Messages]
    <3>1. CASE Put(c)
      <4>1. Message("request", mine[c]) \in Messages
        BY DEF TypeOK, Message, Messages
      <4>2. QED
        BY <3>1, <4>1, CopiedMessage DEF Put, TypeOK, results
    <3>2. CASE Get(c)
      BY <3>2, CopiedMessage DEF Get, TypeOK
    <3>3. QED
      BY <1>2, <3>1, <3>2 DEF TypeOK, CallerStep, Enter, EnterTimesOut, LockTimesOut, Lock, Unlock,
                Answer, AnswerTimesOut, Leave, results
  <2>5. clash' \subseteq Processes
    BY <1>2 DEF TypeOK, CallerStep, Enter, EnterTimesOut, LockTimesOut, Lock, Put, Unlock,
                Answer, AnswerTimesOut, Get, Leave, Processes
  <2>6. QED
    BY <2>2, <2>3, <2>4, <2>5 DEF TypeOK
<1>3. ASSUME ServerStep PROVE TypeOK'
  <2>1. PICK there \in ServerPlaces : Goto(Server, there)
    BY <1>3 DEF ServerStep, ReceiveReq, Drop, Serve, Lock, Read, Unlock, Write, ServerPlaces
  <2>2. /\ place' \in [Processes -> CallerPlaces \cup ServerPlaces]
        /\ place'[Server] \in ServerPlaces /\ \A d \in Callers : place'[d] \in CallerPlaces
    BY <2>1, ServerMoves DEF TypeOK
  <2>3. xNotUse' \in 0..1 /\ xReq' \in Nat /\ xResp' \in Nat /\ pLocker' \in Nat
        /\ late' \in Nat /\ dropped' \in Nat /\ UNCHANGED <<mine, calls, pRespBuff, timeLimits>>
    BY <1>3 DEF TypeOK, ServerStep, ReceiveReq, Drop, Serve, Lock, Read, Unlock, Write,
                semaphores, history, results
  <2>4. pBuff' \in Messages /\ pReq' \in 0..MaxCalls
    <3>1. CASE Write
      <4>1. Message("response", pReq) \in Messages
        BY DEF TypeOK, Message, Messages
      <4>2. QED
        BY <3>1, <4>1, CopiedMessage DEF Write, TypeOK, results
    <3>2. CASE Read
      <4>1. PICK m \in Copied(Server, pBuff) : pReq' = m.of
        BY <3>2 DEF Read
      <4>2. m \in Messages
        BY CopiedMessage DEF TypeOK
      <4>3. QED
        BY <3>2, <4>1, <4>2 DEF Read, TypeOK, Messages
    <3>3. QED
      BY <1>3, <3>1, <3>2 DEF TypeOK, ServerStep, ReceiveReq, Drop, Serve, Lock, Unlock, results
  <2>5. clash' \subseteq Processes
    BY <1>3 DEF TypeOK, ServerStep, ReceiveReq, Drop, Serve, Lock, Read, Unlock, Write, Processes
  <2>6. QED
    BY <2>2, <2>3, <2>4, <2>5 DEF TypeOK
<1>4. CASE UNCHANGED vars
  BY <1>4 DEF TypeOK, vars, semaphores, results, history
<1>5. QED
  BY <1>1, <1>2, <1>3, <1>4 DEF Next

LEMMA OneCallerStep == TypeOK /\ OneCaller /\ [Next]_vars => OneCaller'
<1> SUFFICES ASSUME TypeOK, OneCaller, [Next]_vars PROVE OneCaller'
  OBVIOUS
<1>1. ASSUME NEW c \in Callers, Call(c) PROVE OneCaller'
  <2>1. \A d \in Callers : Using(d)' <=> Using(d)
    BY <1>1, CallerMoves DEF Call, Using, CallerPlaces
  <2>2. QED
    BY <1>1, <2>1 DEF OneCaller, Call, semaphores
<1>2. ASSUME NEW c \in Callers, CallerStep(c) PROVE OneCaller'
  <2>1. CASE Enter(c)
    <3>1. \A d \in Callers : ~Using(d)
      BY <2>1 DEF Enter, OneCaller, TypeOK
    <3>2. \A d \in Callers : Using(d)' <=> d = c
      BY <2>1, <3>1, CallerMoves DEF Enter, Using, CallerPlaces
    <3>3. xNotUse' = 0
      BY <2>1 DEF Enter, TypeOK
    <3>4. QED
      BY <3>2, <3>3 DEF OneCaller
  <2>2. CASE Leave(c)
    <3>1. Using(c) /\ xNotUse = 0
      BY <2>2 DEF Leave, OneCaller, TypeOK, Using
    <3>2. \A d \in Callers : ~Using(d)'
      BY <2>2, <3>1, OnlyUser, CallerMoves DEF Leave, Using, CallerPlaces
    <3>3. xNotUse' = 1
      BY <2>2, <3>1 DEF Leave
    <3>4. QED
      BY <3>2, <3>3 DEF OneCaller
  <2>3. CASE ~Enter(c) /\ ~Leave(c)
    <3>1. PICK there \in CallerPlaces :
             Goto(c, there) /\ (Using(c) <=> there \notin {"idle", "enter"})
      BY <1>2, <2>3 DEF CallerStep, EnterTimesOut, LockTimesOut, Lock, Put, Unlock, Answer,
                AnswerTimesOut, Get, CallerPlaces, Using
    <3>2. \A d \in Callers : Using(d)' <=> Using(d)
      BY <3>1, CallerMoves DEF Using
    <3>3. xNotUse' = xNotUse
      BY <1>2, <2>3 DEF CallerStep, EnterTimesOut, LockTimesOut, Lock, Put, Unlock, Answer,
                AnswerTimesOut, Get, semaphores
    <3>4. QED
      BY <3>2, <3>3 DEF OneCaller
  <2>4. QED
    BY <2>1, <2>2, <2>3
<1>3. ASSUME ServerStep PROVE OneCaller'
  <2>1. PICK there \in ServerPlaces : Goto(Server, there)
    BY <1>3 DEF ServerStep, ReceiveReq, Drop, Serve, Lock, Read, Unlock, Write, ServerPlaces
  <2>2. \A d \in Callers : Using(d)' <=> Using(d)
    BY <2>1, ServerMoves DEF Using
  <2>3. xNotUse' = xNotUse
    BY <1>3 DEF ServerStep, ReceiveReq, Drop, Serve, Lock, Read, Unlock, Write, semaphores
  <2>4. QED
    BY <2>2, <2>3 DEF OneCaller
<1>4. CASE UNCHANGED vars
  BY <1>4 DEF OneCaller, Using, vars, semaphores
<1>5. QED
  BY <1>1, <1>2, <1>3, <1>4 DEF Next

\* Whether somebody expects an answer depends on who has the block alone.
LEMMA ExpectingMove ==
    ASSUME TypeOK, OneCaller, NEW c \in Callers, NEW there \in CallerPlaces, Goto(c, there)
    PROVE  /\ Using(c) => /\ Expecting <=> place[c] \in {"unlockPut", "answer"}
                          /\ Expecting' <=> there \in {"unlockPut", "answer"}
           /\ ~Using(c) /\ there \notin {"unlockPut", "answer"} => (Expecting' <=> Expecting)
           /\ WithServer' <=> WithServer
<1>1. WithServer' <=> WithServer
  BY CallerMoves DEF WithServer
<1>2. ASSUME Using(c) PROVE Expecting' <=> there \in {"unlockPut", "answer"}
  BY <1>2, OnlyUser, CallerMoves DEF Expecting, Using
<1>3. ASSUME ~Using(c), there \notin {"unlockPut", "answer"} PROVE Expecting' <=> Expecting
  BY <1>3, CallerMoves DEF Expecting, Using
<1>4. QED
  BY <1>1, <1>2, <1>3, OnlyUser

LEMMA AccountedStep ==
    TypeOK /\ OneCaller /\ RequestsAccounted /\ [Next]_vars => RequestsAccounted'
<1> SUFFICES ASSUME TypeOK, OneCaller, RequestsAccounted, [Next]_vars PROVE RequestsAccounted'
  OBVIOUS
<1>1. ASSUME NEW c \in Callers, Call(c) PROVE RequestsAccounted'
  <2>1. (Expecting' <=> Expecting) /\ (WithServer' <=> WithServer)
    BY <1>1, ExpectingMove DEF Call, CallerPlaces, Using
  <2>2. QED
    BY <1>1, <2>1 DEF RequestsAccounted, Call, semaphores, history
<1>2. ASSUME NEW c \in Callers, CallerStep(c) PROVE RequestsAccounted'
  <2>1. CASE Put(c)
    <3>1. ~Expecting /\ Expecting' /\ (WithServer' <=> WithServer)
      BY <2>1, ExpectingMove DEF Put, CallerPlaces, Using
    <3>2. QED
      BY <2>1, <3>1 DEF RequestsAccounted, Put, TypeOK, history
  <2>2. CASE Answer(c)
    <3>1. Expecting /\ ~Expecting' /\ (WithServer' <=> WithServer)
      BY <2>2, ExpectingMove DEF Answer, CallerPlaces, Using
    <3>2. QED
      BY <2>2, <3>1 DEF RequestsAccounted, Answer, TypeOK, history
  <2>3. CASE AnswerTimesOut(c)
    <3>1. Expecting /\ ~Expecting' /\ (WithServer' <=> WithServer)
      BY <2>3, ExpectingMove DEF AnswerTimesOut, CallerPlaces, Using
    <3>2. QED
      BY <2>3, <3>1 DEF RequestsAccounted, AnswerTimesOut, TypeOK, semaphores
  <2>4. CASE ~Put(c) /\ ~Answer(c) /\ ~AnswerTimesOut(c)
    <3>1. PICK there \in CallerPlaces :
             /\ Goto(c, there)
             /\ there \in {"unlockPut", "answer"} <=> place[c] \in {"unlockPut", "answer"}
             /\ ~Using(c) => there \notin {"unlockPut", "answer"}
      BY <1>2, <2>4 DEF CallerStep, Enter, EnterTimesOut, LockTimesOut, Lock, Unlock, Get, Leave,
                CallerPlaces, Using
    <3>2. (Expecting' <=> Expecting) /\ (WithServer' <=> WithServer)
      BY <3>1, ExpectingMove
    <3>3. UNCHANGED <<xReq, xResp, late, dropped>>
      BY <1>2, <2>4 DEF CallerStep, Enter, EnterTimesOut, LockTimesOut, Lock, Unlock, Get, Leave,
                semaphores, history
    <3>4. QED
      BY <3>2, <3>3 DEF RequestsAccounted
  <2>5. QED
    BY <2>1, <2>2, <2>3, <2>4
<1>3. ASSUME ServerStep PROVE RequestsAccounted'
  <2>1. PICK there \in ServerPlaces : Goto(Server, there)
    BY <1>3 DEF ServerStep, ReceiveReq, Drop, Serve, Lock, Read, Unlock, Write, ServerPlaces
  <2>2. place'[Server] = there /\ (Expecting' <=> Expecting)
    BY <2>1, ServerMoves DEF Expecting
  <2>3. WithServer' <=> there \notin {"wait", "unlockWrite"}
    BY <2>2 DEF WithServer
  <2>4. WithServer <=> place[Server] \notin {"wait", "unlockWrite"}
    BY DEF WithServer, TypeOK
  <2>5. xReq' + xResp' + (IF WithServer' THEN 1 ELSE 0) + dropped'
            = xReq + xResp + (IF WithServer THEN 1 ELSE 0) + dropped
    BY <1>3, <2>1, <2>2, <2>3, <2>4, ServerMoves
       DEF ServerStep, ReceiveReq, Drop, Serve, Lock, Read, Unlock, Write,
           semaphores, history, TypeOK, ServerPlaces
  <2>6. late' = late
    BY <1>3 DEF ServerStep, ReceiveReq, Drop, Serve, Lock, Read, Unlock, Write, history
  <2>7. QED
    BY <2>2, <2>5, <2>6 DEF RequestsAccounted
<1>4. CASE UNCHANGED vars
  BY <1>4 DEF RequestsAccounted, WithServer, Expecting, vars, semaphores, history
<1>5. QED
  BY <1>1, <1>2, <1>3, <1>4 DEF Next

\* Nobody gave up: while a caller copies, or is about to, no request is on its
\* way, and while the server holds one, no caller copies.
LEMMA Apart ==
    ASSUME TypeOK, OneCaller, RequestsAccounted, late = 0
    PROVE  /\ \A c \in Callers : place[c] \in {"lockPut", "put", "lockGet", "get"} =>
                /\ xReq = 0 /\ xResp = 0 /\ ~WithServer /\ ~Copying(Server)
                /\ \A d \in Callers \ {c} : ~Using(d) /\ ~Copying(d)
           /\ WithServer => \A d \in Callers : ~Copying(d) /\ place[d] # "lockGet"
<1>1. ASSUME NEW c \in Callers, place[c] \in {"lockPut", "put", "lockGet", "get"}
      PROVE  /\ xReq = 0 /\ xResp = 0 /\ ~WithServer /\ ~Copying(Server)
             /\ \A d \in Callers \ {c} : ~Using(d) /\ ~Copying(d)
  <2>1. Using(c) /\ ~Expecting
    BY <1>1, OnlyUser DEF Using
  <2>2. xReq = 0 /\ xResp = 0 /\ ~WithServer
    BY <2>1, OneOnTheWay
  <2>3. ~Copying(Server)
    BY <2>2 DEF WithServer, Copying, ServerPlaces, TypeOK
  <2>4. \A d \in Callers \ {c} : ~Using(d)
    BY <2>1, OnlyUser
  <2>5. \A d \in Callers : ~Using(d) => ~Copying(d)
    BY DEF Using, Copying
  <2>6. QED
    BY <2>2, <2>3, <2>4, <2>5
<1>2. ASSUME WithServer, NEW d \in Callers PROVE ~Copying(d) /\ place[d] # "lockGet"
  <2>1. SUFFICES ASSUME place[d] \in {"lockPut", "put", "lockGet", "get"} PROVE FALSE
    BY DEF Copying, TypeOK, CallerPlaces
  <2>2. QED
    BY <1>1, <1>2, <2>1
<1>3. QED
  BY <1>1, <1>2

\* A process that takes the locker then starts no overlap.
LEMMA LockAlone ==
    ASSUME TypeOK, OneCaller, RequestsAccounted, late = 0, clash = {},
           NEW p \in Processes, NEW here, NEW there, Lock(p, here, there),
           \/ p \in Callers /\ here \in {"lockPut", "lockGet"}
           \/ p = Server /\ here \in {"lockRead", "lockWrite"}
    PROVE  clash' = {}
<1>1. \A q \in Processes \ {p} : ~Copying(q)
  <2>1. CASE p \in Callers
    BY <2>1, Apart, ProcessesAssumption DEF Lock, Processes
  <2>2. CASE p = Server
    <3>1. WithServer
      BY <2>2, ProcessesAssumption DEF Lock, WithServer, ServerPlaces
    <3>2. QED
      BY <2>2, <3>1, Apart DEF Processes
  <2>3. QED
    BY <2>1, <2>2
<1>2. QED
  BY <1>1 DEF Lock

LEMMA HandshakeStep == IInv /\ [Next]_vars => HandshakeInv'
<1> SUFFICES ASSUME IInv, [Next]_vars, late' = 0 PROVE HandshakeInv'
  BY DEF HandshakeInv
<1>. USE DEF IInv
<1>1. late = 0
  BY DEF TypeOK, Next, Call, CallerStep, Enter, EnterTimesOut, LockTimesOut, Lock, Put, Unlock,
         Answer, AnswerTimesOut, Get, Leave, ServerStep, ReceiveReq, Drop, Serve, Read, Write,
         vars, history
<1>2. clash = {}
  BY <1>1 DEF HandshakeInv
<1>3. ASSUME NEW c \in Callers, Call(c) PROVE HandshakeInv'
  <2>1. place'[c] = "enter" /\ place'[Server] = place[Server]
        /\ \A d \in Callers : d # c => place'[d] = place[d] /\ mine'[d] = mine[d]
    BY <1>3, CallerMoves DEF Call, CallerPlaces, TypeOK
  <2>2. QED
    BY <1>1, <1>3, <2>1 DEF HandshakeInv, Call, semaphores
<1>4. ASSUME NEW c \in Callers, CallerStep(c) PROVE HandshakeInv'
  <2>1. PICK there \in CallerPlaces : Goto(c, there)
    BY <1>4 DEF CallerStep, Enter, EnterTimesOut, LockTimesOut, Lock, Put, Unlock, Answer,
                AnswerTimesOut, Get, Leave, CallerPlaces
  <2>2. /\ place'[c] = there /\ place'[Server] = place[Server]
        /\ \A d \in Callers : d # c => place'[d] = place[d]
    BY <2>1, CallerMoves
  <2>3. mine' = mine /\ pReq' = pReq
    BY <1>4 DEF CallerStep, Enter, EnterTimesOut, LockTimesOut, Lock, Put, Unlock, Answer,
                AnswerTimesOut, Get, Leave, results
  <2>4. clash' = {}
    <3>1. CASE Lock(c, "lockPut", "put") \/ Lock(c, "lockGet", "get")
      BY <1>1, <1>2, <3>1, LockAlone DEF Processes
    <3>2. QED
      BY <1>2, <1>4, <3>1 DEF CallerStep, Enter, EnterTimesOut, LockTimesOut, Put, Unlock, Answer,
                AnswerTimesOut, Get, Leave
  <2>5. CASE Put(c)
    <3>1. pBuff' = Message("request", mine[c])
      BY <1>2, <2>5 DEF Put, Copied
    <3>2. place'[c] = "unlockPut"
      BY <2>5, CallerMoves DEF Put, CallerPlaces
    <3>3. xResp' = 0 /\ place'[Server] \in {"wait", "unlockWrite"}
      BY <1>1, <2>2, <2>5, Apart DEF Put, WithServer, TypeOK
    <3>4. \A d \in Callers \ {c} : place'[d] \in {"idle", "enter"}
      BY <1>1, <2>2, <2>5, Apart DEF Put, Using
    <3>5. QED
      BY <2>3, <2>4, <3>1, <3>2, <3>3, <3>4 DEF HandshakeInv
  <2>6. CASE Answer(c)
    <3>1. place'[c] = "lockGet" /\ pBuff' = Message("response", mine[c])
      BY <1>1, <2>6, CallerMoves DEF Answer, HandshakeInv, CallerPlaces
    <3>2. \A d \in Callers \ {c} : place'[d] \in {"idle", "enter"}
      BY <2>2, <2>6, OnlyUser DEF Answer, Using
    <3>3. QED
      BY <2>3, <2>4, <3>1, <3>2 DEF HandshakeInv
  <2>7. CASE AnswerTimesOut(c)
    BY <1>1, <2>7 DEF AnswerTimesOut
  <2>8. CASE ~Put(c) /\ ~Answer(c) /\ ~AnswerTimesOut(c)
    <3>1. UNCHANGED <<xReq, xResp, pBuff>>
      BY <1>4, <2>8 DEF CallerStep, Enter, EnterTimesOut, LockTimesOut, Lock, Unlock, Get, Leave,
                semaphores
    <3>2. /\ place'[c] \in {"unlockPut", "answer"} => place[c] \in {"unlockPut", "answer"}
          /\ place'[c] \in {"lockGet", "get"} => place[c] \in {"lockGet", "get"}
      BY <1>4, <2>8 DEF CallerStep, Enter, EnterTimesOut, LockTimesOut, Lock, Unlock, Get, Leave,
                Goto, TypeOK, Processes
    <3>3. QED
      BY <1>1, <2>2, <2>3, <2>4, <3>1, <3>2 DEF HandshakeInv
  <2>9. QED
    BY <2>5, <2>6, <2>7, <2>8
<1>5. ASSUME ServerStep PROVE HandshakeInv'
  <2>1. PICK there \in ServerPlaces : Goto(Server, there)
    BY <1>5 DEF ServerStep, ReceiveReq, Drop, Serve, Lock, Read, Unlock, Write, ServerPlaces
  <2>2. place'[Server] = there /\ \A d \in Callers : place'[d] = place[d]
    BY <2>1, ServerMoves
  <2>3. mine' = mine
    BY <1>5 DEF ServerStep, ReceiveReq, Drop, Serve, Lock, Read, Unlock, Write, results
  <2>4. clash' = {}
    <3>1. CASE Lock(Server, "lockRead", "read") \/ Lock(Server, "lockWrite", "write")
      BY <1>1, <1>2, <3>1, LockAlone DEF Processes
    <3>2. QED
      BY <1>2, <1>5, <3>1 DEF ServerStep, ReceiveReq, Drop, Serve, Read, Unlock, Write
  <2>5. CASE ReceiveReq
    <3>1. xResp' = xResp /\ pBuff' = pBuff /\ place'[Server] = "lockRead" /\ xReq > 0
      BY <2>5, ServerMoves DEF ReceiveReq, ServerPlaces
    <3>2. QED
      BY <1>1, <2>2, <2>3, <2>4, <3>1 DEF HandshakeInv
  <2>6. CASE Read
    <3>1. pReq' = pBuff.of /\ pBuff' = pBuff /\ place'[Server] = "unlockRead"
          /\ UNCHANGED <<xReq, xResp>>
      BY <1>2, <2>6, ServerMoves DEF Read, Copied, ServerPlaces, semaphores
    <3>2. \A d \in Callers : place[d] \in {"unlockPut", "answer"} => pReq' = mine[d]
      BY <1>1, <2>6, <3>1 DEF HandshakeInv, Read, Message
    <3>3. QED
      BY <1>1, <2>2, <2>3, <2>4, <3>1, <3>2 DEF HandshakeInv
  <2>7. CASE Write
    <3>1. pBuff' = Message("response", pReq) /\ place'[Server] = "unlockWrite" /\ xReq' = xReq
      BY <1>2, <2>7, ServerMoves DEF Write, Copied, ServerPlaces
    <3>2. xReq = 0 /\ \A d \in Callers : ~Copying(d) /\ place[d] # "lockGet"
      BY <1>1, <2>7, OneOnTheWay, Apart DEF Write, WithServer, ServerPlaces
    <3>3. \A d \in Callers : place[d] \in {"unlockPut", "answer"} => pReq = mine[d]
      BY <1>1, <2>7 DEF HandshakeInv, Write
    <3>4. QED
      BY <2>2, <2>3, <2>4, <3>1, <3>2, <3>3 DEF HandshakeInv, Copying
  <2>8. CASE ~ReceiveReq /\ ~Read /\ ~Write
    <3>1. UNCHANGED <<xReq, xResp, pBuff, pReq>>
      BY <1>5, <2>8 DEF ServerStep, Drop, Serve, Lock, Unlock, semaphores
    <3>2. LET in == {"lockRead", "read"}
              out == {"unlockRead", "serve", "lockWrite", "write"}
          IN  /\ place'[Server] \in in => place[Server] \in in
              /\ place'[Server] \in out => place[Server] \in out
      BY <1>5, <2>8 DEF ServerStep, Drop, Serve, Lock, Unlock, Goto, TypeOK, Processes
    <3>3. QED
      BY <1>1, <2>2, <2>3, <2>4, <3>1, <3>2 DEF HandshakeInv
  <2>9. QED
    BY <2>5, <2>6, <2>7, <2>8
<1>6. CASE UNCHANGED vars
  BY <1>1, <1>6 DEF HandshakeInv, vars, semaphores, results, history
<1>7. QED
  BY <1>3, <1>4, <1>5, <1>6 DEF Next

LEMMA OwnAnswerStep == IInv /\ [Next]_vars => OwnAnswer'
<1> SUFFICES ASSUME IInv, [Next]_vars, late' = 0 PROVE OwnAnswer'
  BY DEF OwnAnswer
<1>. USE DEF IInv
<1>1. late = 0
  BY DEF TypeOK, Next, Call, CallerStep, Enter, EnterTimesOut, LockTimesOut, Lock, Put, Unlock,
         Answer, AnswerTimesOut, Get, Leave, ServerStep, ReceiveReq, Drop, Serve, Read, Write,
         vars, history
<1>2. ASSUME NEW c \in Callers, Call(c) PROVE OwnAnswer'
  <2>1. \A d \in Callers : IF d = c THEN pRespBuff'[d] = Nothing
                                    ELSE pRespBuff'[d] = pRespBuff[d] /\ mine'[d] = mine[d]
    BY <1>2 DEF Call, TypeOK
  <2>2. QED
    BY <1>1, <2>1 DEF OwnAnswer
<1>3. ASSUME NEW c \in Callers, CallerStep(c) PROVE OwnAnswer'
  <2>1. CASE Get(c)
    <3>1. pBuff = Message("response", mine[c]) /\ clash = {}
      BY <1>1, <2>1 DEF Get, HandshakeInv
    <3>2. pRespBuff' = [pRespBuff EXCEPT ![c] = Message("response", mine[c])] /\ mine' = mine
      BY <2>1, <3>1 DEF Get, Copied
    <3>3. QED
      BY <1>1, <3>2 DEF OwnAnswer, TypeOK
  <2>2. CASE ~Get(c)
    BY <1>1, <1>3, <2>2 DEF OwnAnswer, CallerStep, Enter, EnterTimesOut, LockTimesOut, Lock, Put,
                Unlock, Answer, AnswerTimesOut, Leave, results
  <2>3. QED
    BY <2>1, <2>2
<1>4. ASSUME ServerStep PROVE OwnAnswer'
  BY <1>1, <1>4 DEF OwnAnswer, ServerStep, ReceiveReq, Drop, Serve, Lock, Read, Unlock, Write, results
<1>5. CASE UNCHANGED vars
  BY <1>1, <1>5 DEF OwnAnswer, vars, results
<1>6. QED
  BY <1>2, <1>3, <1>4, <1>5 DEF Next

LEMMA InitInv == Init => IInv
<1> SUFFICES ASSUME Init PROVE IInv
  OBVIOUS
<1>1. place[Server] = "wait" /\ \A c \in Callers : place[c] = "idle"
  BY ProcessesAssumption DEF Init, Processes
<1>2. Nothing \in Messages
  BY BoundAssumption DEF Nothing, Message, Messages
<1>3. TypeOK
  BY <1>1, <1>2, LockersAssumption, BoundAssumption DEF Init, TypeOK, CallerPlaces, ServerPlaces
<1>4. OneCaller
  BY <1>1 DEF Init, OneCaller, Using
<1>5. RequestsAccounted
  BY <1>1 DEF Init, RequestsAccounted, WithServer, Expecting
<1>6. HandshakeInv
  BY <1>1 DEF Init, HandshakeInv
<1>7. OwnAnswer
  BY DEF Init, OwnAnswer
<1>8. QED
  BY <1>3, <1>4, <1>5, <1>6, <1>7 DEF IInv

LEMMA Invariance == Spec => []IInv
<1>1. IInv /\ [Next]_vars => IInv'
  BY TypeStep, OneCallerStep, AccountedStep, HandshakeStep, OwnAnswerStep DEF IInv
<1>2. QED
  BY InitInv, <1>1, PTL DEF Spec

-------------------------------------------------------------------------------
(* The results.                                                               *)

\* The semaphores, the buffer and the places of the processes keep their types,
\* xNotUse that of a semaphore of one permit, whichever wait of FTM_SMP_call ends early.
THEOREM TypeCorrect == Spec => []TypeOK
<1>1. IInv => TypeOK
  BY DEF IInv
<1>2. QED
  BY <1>1, Invariance, PTL

\* One caller at a time is between the wait for xNotUse and the end of
\* FTM_SMP_call, and the block is free if nobody is.
THEOREM OneCallerAlways == Spec => []OneCaller
<1>1. IInv => OneCaller
  BY DEF IInv
<1>2. QED
  BY <1>1, Invariance, PTL

\* What callers that gave up leave in xReq, with the server and in xResp is
\* exactly one request each, less those the server dropped.
THEOREM RequestsAlwaysAccounted == Spec => []RequestsAccounted
<1>1. IInv => RequestsAccounted
  BY DEF IInv
<1>2. QED
  BY <1>1, Invariance, PTL

\* Until somebody gives up, no two copies to and from the buffer overlap, however
\* many processes the locker lets in.
THEOREM NoOverlapAlways == Spec => []NoOverlap
  BY NoOverlapFollows, Invariance, PTL

\* Until somebody gives up, FTM_SMP_call returns the answer to its own request.
THEOREM OwnAnswerAlways == Spec => []OwnAnswer
<1>1. IInv => OwnAnswer
  BY DEF IInv
<1>2. QED
  BY <1>1, Invariance, PTL

-------------------------------------------------------------------------------
(* SmpCall is a remote call.                                                   *)

\* Which call the server read last: that of a caller from the moment its request is
\* read until it has its answer, and an earlier one before.
ServiceInv ==
    /\ \A c, d \in Callers : mine[c] = mine[d] /\ mine[c] # 0 => c = d
    /\ \A c \in Callers : mine[c] <= calls /\ (place[c] # "idle" => mine[c] # 0)
    /\ late = 0 =>
         /\ pReq <= calls
         /\ \A c \in Callers :
              /\ place[c] \in {"enter", "lockPut", "put"} => pReq # mine[c]
              /\ place[c] \in {"unlockPut", "answer"} =>
                   /\ xReq > 0 \/ place[Server] \in {"lockRead", "read"} => pReq # mine[c]
                   /\ xResp > 0 => pReq = mine[c]
              /\ place[c] \in {"lockGet", "get"} => pReq = mine[c]

LEMMA ServiceInit == Init => ServiceInv
<1> SUFFICES ASSUME Init PROVE ServiceInv
  OBVIOUS
<1>1. place[Server] = "wait" /\ \A c \in Callers : place[c] = "idle" /\ mine[c] = 0
  BY ProcessesAssumption DEF Init, Processes
<1>2. QED
  BY <1>1 DEF Init, ServiceInv

\* A caller's step leaves the numbers and the last request read alone, unless it is a
\* new call; the other callers stay where they are.
LEMMA CallerLeaves ==
    ASSUME TypeOK, OneCaller, NEW c \in Callers, CallerStep(c)
    PROVE  /\ UNCHANGED <<mine, calls, pReq>> /\ place'[Server] = place[Server]
           /\ place'[c] \in CallerPlaces
           /\ \A d \in Callers \ {c} : place'[d] = place[d] /\ pRespBuff'[d] = pRespBuff[d]
<1>1. PICK there \in CallerPlaces : Goto(c, there)
  BY DEF CallerStep, Enter, EnterTimesOut, LockTimesOut, Lock, Put, Unlock, Answer,
         AnswerTimesOut, Get, Leave, CallerPlaces
<1>2. QED
  BY <1>1, CallerMoves DEF TypeOK, CallerStep, Enter, EnterTimesOut, LockTimesOut, Lock, Put, Unlock,
         Answer, AnswerTimesOut, Get, Leave, results

LEMMA ServerLeaves ==
    ASSUME TypeOK, ServerStep
    PROVE  /\ UNCHANGED <<mine, calls, pRespBuff, late>> /\ place'[Server] \in ServerPlaces
           /\ \A d \in Callers : place'[d] = place[d]
<1>1. PICK there \in ServerPlaces : Goto(Server, there)
  BY DEF ServerStep, ReceiveReq, Drop, Serve, Lock, Read, Unlock, Write, ServerPlaces
<1>2. QED
  BY <1>1, ServerMoves DEF ServerStep, ReceiveReq, Drop, Serve, Lock, Read, Unlock, Write, results,
         history

\* A new call: its number is greater than all that were ever read or drawn.
LEMMA CallLeaves ==
    ASSUME TypeOK, OneCaller, NEW c \in Callers, Call(c)
    PROVE  /\ place[c] = "idle" /\ place'[c] = "enter" /\ place'[Server] = place[Server]
           /\ UNCHANGED <<semaphores, pReq, late>>
           /\ mine'[c] = calls + 1 /\ calls' = calls + 1 /\ pRespBuff'[c] = Nothing
           /\ \A d \in Callers \ {c} :
                place'[d] = place[d] /\ mine'[d] = mine[d] /\ pRespBuff'[d] = pRespBuff[d]
  BY CallerMoves DEF Call, CallerPlaces, TypeOK, history

LEMMA ServiceStep == IInv /\ ServiceInv /\ [Next]_vars => ServiceInv'
<1> SUFFICES ASSUME IInv, ServiceInv, [Next]_vars PROVE ServiceInv'
  OBVIOUS
<1>0. /\ TypeOK /\ OneCaller /\ RequestsAccounted /\ HandshakeInv
      /\ calls \in Nat /\ pReq \in Nat /\ mine \in [Callers -> Nat] /\ late \in Nat
      /\ xReq \in Nat /\ xResp \in Nat
  BY BoundAssumption DEF IInv, TypeOK
<1>1. ASSUME NEW c \in Callers, Call(c) PROVE ServiceInv'
  BY <1>0, <1>1, CallLeaves DEF ServiceInv, semaphores
<1>2. ASSUME NEW c \in Callers, CallerStep(c) PROVE ServiceInv'
  <2>1. /\ UNCHANGED <<mine, calls, pReq>> /\ place'[Server] = place[Server]
        /\ place'[c] \in CallerPlaces
        /\ \A d \in Callers \ {c} : place'[d] = place[d]
    BY <1>0, <1>2, CallerLeaves
  <2>2. place[c] # "idle"
    BY <1>2 DEF CallerStep, Enter, EnterTimesOut, LockTimesOut, Lock, Put, Unlock, Answer,
               AnswerTimesOut, Get, Leave
  <2>3. late' = 0 => late = 0 /\ ~AnswerTimesOut(c)
    BY <1>0, <1>2 DEF CallerStep, Enter, EnterTimesOut, LockTimesOut, Lock, Put, Unlock, Answer,
               AnswerTimesOut, Get, Leave, history
  <2> SUFFICES ASSUME late = 0, ~AnswerTimesOut(c), NEW d \in Callers
               PROVE  /\ place'[d] \in {"enter", "lockPut", "put"} => pReq # mine[d]
                      /\ place'[d] \in {"unlockPut", "answer"} =>
                           /\ xReq' > 0 \/ place[Server] \in {"lockRead", "read"} => pReq # mine[d]
                           /\ xResp' > 0 => pReq = mine[d]
                      /\ place'[d] \in {"lockGet", "get"} => pReq = mine[d]
    BY <2>1, <2>2, <2>3 DEF ServiceInv
  <2>4. CASE Put(c)
    <3>1. place'[c] = "unlockPut" /\ xResp' = 0 /\ pReq # mine[c]
      BY <1>0, <2>1, <2>4, Apart DEF Put, Goto, TypeOK, Processes, ServiceInv
    <3>2. \A e \in Callers \ {c} : place'[e] \in {"idle", "enter"}
      BY <1>0, <2>1, <2>4, Apart DEF Put, Using
    <3>3. QED
      BY <1>0, <2>1, <3>1, <3>2 DEF ServiceInv
  <2>5. CASE Answer(c)
    <3>1. place'[c] = "lockGet" /\ pReq = mine[c]
      BY <1>0, <2>5 DEF Answer, Goto, TypeOK, Processes, ServiceInv
    <3>2. \A e \in Callers \ {c} : place'[e] \in {"idle", "enter"}
      BY <1>0, <2>1, <2>5, OnlyUser DEF Answer, Using
    <3>3. QED
      BY <2>1, <3>1, <3>2 DEF ServiceInv
  <2>6. CASE ~Put(c) /\ ~Answer(c)
    <3>1. UNCHANGED <<xReq, xResp>>
      BY <1>2, <2>6 DEF CallerStep, Enter, EnterTimesOut, LockTimesOut, Lock, Unlock, Get, Leave,
                semaphores
    <3>2. /\ place'[c] \in {"unlockPut", "answer"} => place[c] \in {"unlockPut", "answer"}
          /\ place'[c] \in {"lockGet", "get"} => place[c] \in {"lockGet", "get"}
          /\ place'[c] \in {"enter", "lockPut", "put"} => place[c] \in {"enter", "lockPut", "put"}
      BY <1>0, <1>2, <2>6 DEF CallerStep, Enter, EnterTimesOut, LockTimesOut, Lock, Unlock, Get, Leave,
                Goto, TypeOK, Processes
    <3>3. QED
      BY <2>1, <3>1, <3>2 DEF ServiceInv
  <2>7. QED
    BY <2>4, <2>5, <2>6
<1>3. ASSUME ServerStep PROVE ServiceInv'
  <2>1. /\ UNCHANGED <<mine, calls, late>> /\ place'[Server] \in ServerPlaces
        /\ \A d \in Callers : place'[d] = place[d]
    BY <1>0, <1>3, ServerLeaves
  <2> SUFFICES ASSUME late = 0
               PROVE  /\ pReq' <= calls
                      /\ \A c \in Callers :
                           /\ place[c] \in {"enter", "lockPut", "put"} => pReq' # mine[c]
                           /\ place[c] \in {"unlockPut", "answer"} =>
                                /\ xReq' > 0 \/ place'[Server] \in {"lockRead", "read"}
                                     => pReq' # mine[c]
                                /\ xResp' > 0 => pReq' = mine[c]
                           /\ place[c] \in {"lockGet", "get"} => pReq' = mine[c]
    BY <2>1 DEF ServiceInv
  <2>2. CASE Read
    <3>1. WithServer /\ xReq' = 0 /\ xResp' = 0 /\ place'[Server] = "unlockRead"
      BY <1>0, <2>2, OneOnTheWay DEF Read, WithServer, ServerPlaces, Goto, TypeOK, Processes, semaphores
    <3>2. PICK d \in Callers : place[d] \in {"unlockPut", "answer"}
      BY <1>0, <3>1, OneOnTheWay DEF Expecting
    <3>3. pReq' = mine[d] /\ mine[d] # 0
      BY <1>0, <2>2, <3>2 DEF Read, HandshakeInv, Copied, Message, ServiceInv
    <3>4. \A c \in Callers \ {d} : place[c] \in {"idle", "enter"}
      BY <1>0, <3>2, OnlyUser DEF Using
    <3>5. QED
      BY <1>0, <3>1, <3>2, <3>3, <3>4 DEF ServiceInv
  <2>3. CASE Write
    <3>1. WithServer /\ xReq' = 0 /\ pReq' = pReq /\ place'[Server] = "unlockWrite"
      BY <1>0, <2>3, OneOnTheWay DEF Write, WithServer, ServerPlaces, Goto, TypeOK, Processes
    <3>2. \A c \in Callers : place[c] \in {"unlockPut", "answer"} => pReq = mine[c]
      BY <1>0, <2>3 DEF Write, HandshakeInv
    <3>3. QED
      BY <1>0, <3>1, <3>2 DEF ServiceInv
  <2>4. CASE ~Read /\ ~Write
    <3>1. /\ pReq' = pReq /\ xResp' = xResp /\ (xReq' > 0 => xReq > 0)
          /\ place'[Server] \in {"lockRead", "read"} =>
               xReq > 0 \/ place[Server] \in {"lockRead", "read"}
      BY <1>0, <1>3, <2>4 DEF ServerStep, ReceiveReq, Drop, Serve, Lock, Unlock, semaphores, Goto,
               TypeOK, Processes
    <3>2. QED
      BY <1>0, <3>1 DEF ServiceInv
  <2>5. QED
    BY <2>2, <2>3, <2>4
<1>4. CASE UNCHANGED vars
  BY <1>4 DEF ServiceInv, vars, semaphores, results, history
<1>5. QED
  BY <1>1, <1>2, <1>3, <1>4 DEF Next

\* What the calls look like from outside.
Stages  == [c \in Callers |-> IF late = 0 THEN Stage(c) ELSE "out"]
Replies == [c \in Callers |-> IF late = 0 THEN Took(c) ELSE "none"]

\* A caller's step shows in its own stage and answer alone.
LEMMA OneStageMoves ==
    ASSUME late = 0, late' = 0, NEW c \in Callers, UNCHANGED pReq, place'[Server] = place[Server],
           \A d \in Callers \ {c} : place'[d] = place[d] /\ mine'[d] = mine[d]
                                    /\ pRespBuff'[d] = pRespBuff[d]
    PROVE  /\ Stages' = [Stages EXCEPT ![c] = Stage(c)']
           /\ Replies' = [Replies EXCEPT ![c] = Took(c)']
<1>1. \A d \in Callers \ {c} : Stage(d)' = Stage(d) /\ Took(d)' = Took(d)
  BY DEF Stage, Executed, Took
<1>2. QED
  BY <1>1 DEF Stages, Replies

\* A caller that has the block is the only one whose call can be at the service.
LEMMA OthersAway ==
    ASSUME TypeOK, OneCaller, late = 0, NEW c \in Callers, Using(c)
    PROVE  \A d \in Callers \ {c} : Stages[d] \notin {"asked", "executed"}
<1>1. \A d \in Callers \ {c} : place[d] \in {"idle", "enter"}
  BY OnlyUser DEF Using
<1>2. QED
  BY <1>1 DEF Stages, Stage

\* Whoever fetches its answer has been executed, and the server is elsewhere.
LEMMA FetchedIsExecuted ==
    ASSUME IInv, ServiceInv, late = 0, NEW c \in Callers, place[c] \in {"lockGet", "get"}
    PROVE  Stage(c) = "executed"
<1>1. ~WithServer
  BY Apart DEF IInv
<1>2. QED
  BY <1>1 DEF IInv, TypeOK, WithServer, ServerPlaces, ServiceInv, Stage, Executed

LEMMA CallBegins ==
    ASSUME IInv, late = 0, NEW c \in Callers, Call(c)
    PROVE  Remote!Begin(c)
<1>1. Stages' = [Stages EXCEPT ![c] = Stage(c)'] /\ Replies' = [Replies EXCEPT ![c] = Took(c)']
  BY CallLeaves, OneStageMoves DEF IInv
<1>2. place[c] = "idle" /\ place'[c] = "enter" /\ pRespBuff'[c] = Nothing /\ late' = 0
  BY CallLeaves DEF IInv
<1>3. Stages[c] = "out"
  BY <1>2 DEF Stages, Stage
<1>4. Stage(c)' = "begun"
  BY <1>2 DEF Stage
<1>5. Took(c)' = "none"
  BY <1>2 DEF Took, Nothing, Message
<1>6. QED
  BY <1>1, <1>2, <1>3, <1>4, <1>5 DEF Remote!Begin, Remote!Moves, Stages, Replies

LEMMA CallerStepShows ==
    ASSUME IInv, ServiceInv, late = 0, NEW c \in Callers, CallerStep(c), ~AnswerTimesOut(c)
    PROVE  \/ Remote!Ask(c) \/ Remote!Return(c) \/ Remote!Fail(c)
           \/ UNCHANGED <<Stages, Replies>> /\ late' = 0
<1>0. TypeOK /\ OneCaller
  BY DEF IInv
<1>1. /\ UNCHANGED <<mine, pReq>> /\ place'[Server] = place[Server]
      /\ \A d \in Callers \ {c} : place'[d] = place[d] /\ pRespBuff'[d] = pRespBuff[d]
  BY <1>0, CallerLeaves
<1>2. late' = 0
  BY DEF CallerStep, Enter, EnterTimesOut, LockTimesOut, Lock, Put, Unlock, Answer,
         AnswerTimesOut, Get, Leave, history
<1>3. Stages' = [Stages EXCEPT ![c] = Stage(c)'] /\ Replies' = [Replies EXCEPT ![c] = Took(c)']
  BY <1>1, <1>2, OneStageMoves
<1>4. Stages[c] = Stage(c) /\ Replies[c] = Took(c)
  BY DEF Stages, Replies
<1>5. \A there : Goto(c, there) => place'[c] = there
  BY <1>0 DEF Goto, TypeOK, Processes
<1>6. ~Get(c) => Took(c)' = Took(c)
  BY <1>1 DEF Took, CallerStep, Enter, EnterTimesOut, LockTimesOut, Lock, Put, Unlock, Answer,
         AnswerTimesOut, Leave, results
<1>7. CASE Put(c)
  <2>1. Stage(c) = "begun" /\ Stage(c)' = "asked"
    BY <1>1, <1>5, <1>7 DEF Put, Stage, Executed, ServiceInv
  <2>2. \A d \in Callers : Stages[d] \notin {"asked", "executed"}
    BY <1>0, <1>4, <1>7, <2>1, OthersAway DEF Put, Using
  <2>3. Replies' = Replies
    BY <1>3, <1>4, <1>6, <1>7 DEF Put, Get, Replies
  <2>4. Remote!Ask(c)
    BY <1>2, <1>3, <1>4, <2>1, <2>2, <2>3
       DEF Remote!Ask, Remote!Moves, Remote!AtService, Stages, Replies
  <2>5. QED
    BY <2>4
<1>8. CASE Get(c)
  <2>1. Stage(c) = "executed" /\ Stage(c)' = "out"
    BY <1>5, <1>8, FetchedIsExecuted DEF Get, Stage
  <2>2. Took(c)' = "own"
    <3>1. pBuff = Message("response", mine[c]) /\ clash = {}
      BY <1>8 DEF Get, IInv, HandshakeInv
    <3>2. pRespBuff'[c] = Message("response", mine[c])
      BY <1>0, <1>8, <3>1 DEF Get, Copied, TypeOK
    <3>3. QED
      BY <1>1, <3>2 DEF Took, Message, Nothing
  <2>3. Remote!Return(c)
    BY <1>2, <1>3, <1>4, <2>1, <2>2 DEF Remote!Return, Remote!Moves, Stages, Replies
  <2>4. QED
    BY <2>3
<1>9. CASE EnterTimesOut(c) \/ LockTimesOut(c)
  <2>1. Stage(c) \in {"begun", "executed"} /\ Stage(c)' = "out"
    BY <1>5, <1>9, FetchedIsExecuted DEF EnterTimesOut, LockTimesOut, Stage
  <2>2. Replies' = Replies
    BY <1>3, <1>4, <1>6, <1>9 DEF EnterTimesOut, LockTimesOut, Get, Replies
  <2>3. Remote!Fail(c)
    BY <1>2, <1>3, <1>4, <2>1, <2>2 DEF Remote!Fail, Remote!Moves, Stages, Replies
  <2>4. QED
    BY <2>3
<1>10. CASE ~Put(c) /\ ~Get(c) /\ ~EnterTimesOut(c) /\ ~LockTimesOut(c)
  <2>1. Stage(c)' = Stage(c)
    BY <1>1, <1>5, <1>10 DEF CallerStep, Enter, Lock, Unlock, Answer, Leave, Stage, Executed
  <2>2. QED
    BY <1>2, <1>3, <1>4, <1>6, <1>10, <2>1 DEF Stages, Replies
<1>11. QED
  BY <1>7, <1>8, <1>9, <1>10

\* The server comes back from the service: the call that waits is executed.
LEMMA ServeExecutes ==
    ASSUME IInv, ServiceInv, late = 0, Serve
    PROVE  \E c \in Callers : Remote!Execute(c)
<1>1. WithServer /\ place'[Server] = "lockWrite" /\ pReq' = pReq
      /\ \A d \in Callers : place'[d] = place[d]
  BY ServerLeaves DEF IInv, TypeOK, Serve, WithServer, ServerPlaces, Goto, Processes, ServerStep
<1>2. PICK c \in Callers : place[c] \in {"unlockPut", "answer"}
  BY <1>1, OneOnTheWay DEF IInv, Expecting
<1>3. pReq = mine[c]
  BY <1>2 DEF IInv, HandshakeInv, Serve
<1>4. Stage(c) = "asked" /\ Stage(c)' = "executed"
  BY <1>1, <1>2, <1>3 DEF Stage, Executed, Serve, results
<1>5. \A d \in Callers \ {c} : Stage(d)' = Stage(d)
  BY <1>1, <1>2, OnlyUser DEF IInv, Stage, Using
<1>6. Stages' = [Stages EXCEPT ![c] = "executed"] /\ Stages[c] = "asked"
  BY <1>4, <1>5 DEF Stages, Serve, history
<1>7. Replies' = Replies
  BY DEF Serve, results, history, Replies, Took
<1>8. Remote!Execute(c)
  BY <1>6, <1>7 DEF Remote!Execute, Remote!Moves, Stages, Replies, Serve, history
<1>9. QED
  BY <1>8

\* Of all else the server does nothing shows, a request that it drops included.
LEMMA ServerStutters ==
    ASSUME IInv, ServiceInv, late = 0, ServerStep, ~Serve
    PROVE  UNCHANGED <<Stages, Replies, late>>
<1>1. /\ UNCHANGED <<mine, pRespBuff, late>>
      /\ \A d \in Callers : place'[d] = place[d]
  BY ServerLeaves DEF IInv
<1>2. \A there : Goto(Server, there) => place'[Server] = there
  BY DEF IInv, TypeOK, Goto, Processes
<1>3. CASE Read
  <2>1. WithServer /\ place'[Server] = "unlockRead"
    BY <1>2, <1>3 DEF Read, WithServer, ServerPlaces
  <2>2. \A d \in Callers : place[d] \notin {"lockGet", "get"}
    BY <2>1, Apart DEF IInv, Copying
  <2>3. \A d \in Callers : place[d] \in {"unlockPut", "answer"} => pReq # mine[d]
    BY <1>3 DEF Read, ServiceInv
  <2>4. \A d \in Callers : Stage(d)' = Stage(d)
    BY <1>1, <2>1, <2>2, <2>3 DEF Stage, Executed
  <2>5. QED
    BY <1>1, <2>4 DEF Stages, Replies, Took
<1>4. CASE ~Read
  <2>1. pReq' = pReq
    BY <1>4 DEF ServerStep, ReceiveReq, Drop, Lock, Unlock, Write
  <2>2. place'[Server] \in {"unlockRead", "serve"} <=> place[Server] \in {"unlockRead", "serve"}
    BY <1>2, <1>4 DEF ServerStep, ReceiveReq, Drop, Serve, Lock, Unlock, Write
  <2>3. \A d \in Callers : Stage(d)' = Stage(d)
    BY <1>1, <2>1, <2>2 DEF Stage, Executed
  <2>4. QED
    BY <1>1, <2>3 DEF Stages, Replies, Took
<1>5. QED
  BY <1>3, <1>4

\* A caller gives up on a request it posted.
LEMMA TimeOutLeavesBehind ==
    ASSUME IInv, late = 0, NEW c \in Callers, AnswerTimesOut(c)
    PROVE  Remote!LeaveBehind
<1>1. late' # 0
  BY DEF AnswerTimesOut
<1>2. Stages[c] \in {"asked", "executed"}
  BY DEF AnswerTimesOut, Stages, Stage
<1>3. QED
  BY <1>1, <1>2 DEF Remote!LeaveBehind, Remote!AtService, Stages, Replies

LEMMA StepIsRemoteStep ==
    ASSUME IInv, ServiceInv, [Next]_vars
    PROVE  [Remote!CallNext]_<<Stages, Replies, late = 0>>
<1>1. CASE late # 0
  <2>1. late' # 0
    BY <1>1 DEF IInv, TypeOK, Next, Call, CallerStep, Enter, EnterTimesOut, LockTimesOut, Lock, Put,
           Unlock, Answer, AnswerTimesOut, Get, Leave, ServerStep, ReceiveReq, Drop, Serve, Read,
           Write, vars, history
  <2>2. QED
    BY <1>1, <2>1 DEF Stages, Replies
<1>2. CASE late = 0
  <2>1. ASSUME NEW c \in Callers, Call(c) PROVE Remote!CallNext
    BY <1>2, <2>1, CallBegins DEF Remote!CallNext
  <2>2. ASSUME NEW c \in Callers, CallerStep(c), ~AnswerTimesOut(c)
        PROVE  Remote!CallNext \/ UNCHANGED <<Stages, Replies, late>>
    BY <1>2, <2>2, CallerStepShows DEF Remote!CallNext
  <2>3. ASSUME NEW c \in Callers, AnswerTimesOut(c) PROVE Remote!CallNext
    BY <1>2, <2>3, TimeOutLeavesBehind DEF Remote!CallNext
  <2>4. CASE Serve
    BY <1>2, <2>4, ServeExecutes DEF Remote!CallNext
  <2>5. ASSUME ServerStep, ~Serve PROVE UNCHANGED <<Stages, Replies, late>>
    BY <1>2, <2>5, ServerStutters
  <2>6. CASE UNCHANGED vars
    BY <2>6 DEF vars, results, history, Stages, Replies, Stage, Executed, Took
  <2>7. QED
    BY <2>1, <2>2, <2>3, <2>4, <2>5, <2>6 DEF Next
<1>3. QED
  BY <1>1, <1>2

\* Until the first caller gives up on a request it posted, FTM_SMP_call is a remote
\* call: whichever other waits run out and whatever the server drops, a request is
\* executed once, alone, and a caller that returns with something has its answer.
THEOREM CallIsRemoteCall == Spec => ImplementsCall
<1>1. Init => IInv /\ ServiceInv
  BY InitInv, ServiceInit
<1>2. IInv /\ ServiceInv /\ [Next]_vars => (IInv /\ ServiceInv)'
  BY TypeStep, OneCallerStep, AccountedStep, HandshakeStep, OwnAnswerStep, ServiceStep DEF IInv
<1>3. Init => Remote!CallInit
  <2> SUFFICES ASSUME Init PROVE Remote!CallInit
    OBVIOUS
  <2>1. \A c \in Callers : Stage(c) = "out" /\ Took(c) = "none"
    <3> TAKE c \in Callers
    <3>1. place[c] = "idle" /\ pRespBuff[c] = Nothing
      BY ProcessesAssumption DEF Init, Processes
    <3>2. QED
      BY <3>1 DEF Stage, Took, Nothing, Message
  <2>2. QED
    BY <2>1 DEF Init, Remote!CallInit
<1>4. IInv /\ ServiceInv /\ [Next]_vars => [Remote!CallNext]_(Remote!callVars)
  BY StepIsRemoteStep DEF Remote!callVars, Stages, Replies
<1>5. QED
  BY <1>1, <1>2, <1>3, <1>4, PTL DEF Spec, ImplementsCall, Remote!CallSpec

-------------------------------------------------------------------------------
(* NetClient.                                                                 *)

NetPackets == [kind : {"request", "response", "notice", "none"}, id : Nat, call : Nat]

NetTransactions ==
    [ulReqID : Nat, xLock : Nat, pResp : NetPackets, xRet : {"none", "ok", "error", "timeout"}]

NetTypes ==
    /\ ulReqID \in Nat /\ noteID \in Nat
    /\ pc \in [NetCallers -> {"idle", "number", "perform", "wait", "destroy"}]
    /\ call \in [NetCallers -> Nat] /\ seen \in [NetCallers -> Nat]
    /\ trans \in Seq(NetTransactions) /\ xTransList \in Seq(Nat)
    /\ receiver \in [at : {"recv", "deliver"}, packet : NetPackets, call : Nat]
    /\ toServer \in Seq(NetPackets) /\ toClient \in Seq(NetPackets)

\* What a packet is about.
CallsBegun == 1..Len(trans)
Asks(p)    == p.kind = "request"  /\ p.call \in CallsBegun /\ p.id = trans[p.call].ulReqID
Answers(p) == p.kind = "response" /\ p.call \in CallsBegun /\ p.id = trans[p.call].ulReqID
Tells(p)   == p.kind = "notice"   /\ p.id < noteID

\* Where the request of a call or its response may be.
AtGateway(n) == \E i \in DOMAIN toServer : toServer[i].call = n
OnItsWay(n)  == \E i \in DOMAIN toClient : toClient[i].kind = "response" /\ toClient[i].call = n
InHand(n)    == /\ receiver.at = "deliver"
                /\ receiver.packet.kind = "response" /\ receiver.packet.call = n
Underway(n)  == AtGateway(n) \/ OnItsWay(n) \/ InHand(n)

PacketsKnown ==
    /\ \A i \in DOMAIN toServer : Asks(toServer[i])
    /\ \A i \in DOMAIN toClient : Answers(toClient[i]) \/ Tells(toClient[i])
    /\ receiver.at = "deliver" =>
         /\ Answers(receiver.packet) \/ Tells(receiver.packet)
         /\ receiver.call \in CallsBegun
         /\ trans[receiver.call].ulReqID = receiver.packet.id

\* A call has one packet on its way at most.
OnePacket ==
    /\ \A i, j \in DOMAIN toServer : toServer[i].call = toServer[j].call => i = j
    /\ \A i, j \in DOMAIN toClient :
         (toClient[i].kind = "response" /\ toClient[j].kind = "response"
             /\ toClient[i].call = toClient[j].call) => i = j
    /\ \A n \in CallsBegun : /\ ~(AtGateway(n) /\ OnItsWay(n))
                             /\ ~(AtGateway(n) /\ InHand(n))
                             /\ ~(OnItsWay(n) /\ InHand(n))

\* A call has one caller at most, and the list has no call that was not begun.
CallersKnown ==
    /\ \A c \in NetCallers : call[c] \in 0..Len(trans)
    /\ \A c \in NetCallers : pc[c] \in {"perform", "wait", "destroy"} => call[c] # 0
    /\ \A c, d \in NetCallers : call[c] = call[d] /\ call[c] # 0 => c = d
    /\ \A i \in DOMAIN xTransList : xTransList[i] \in CallsBegun

Unsent(n) == trans[n].xRet = "error" \/ \E c \in NetCallers : call[c] = n /\ pc[c] = "perform"
Open(n)   == \E c \in NetCallers : call[c] = n /\ pc[c] \in {"perform", "wait"}
Own(n)    == [kind |-> "response", id |-> trans[n].ulReqID, call |-> n]

\* What is known of a call: until its response was delivered it is the only one under way.
CallSound(n) ==
    /\ trans[n].xRet = "none" <=> Open(n)
    /\ trans[n].xRet = "ok" => trans[n].xLock > 0
    /\ Unsent(n) => ~Underway(n)
    /\ Distinguished(n) /\ Unsent(n) => trans[n].xLock = 0
    /\ Distinguished(n) /\ trans[n].xLock > 0 => ~Underway(n) /\ trans[n].pResp = Own(n)

CallsSound == \A n \in CallsBegun : CallSound(n)

NetIInv == NetTypes /\ PacketsKnown /\ OnePacket /\ CallersKnown /\ CallsSound

LEMMA AppendedOne ==
    ASSUME NEW S, NEW q \in Seq(S), NEW e \in S
    PROVE  /\ Append(q, e) \in Seq(S) /\ Len(Append(q, e)) = Len(q) + 1 /\ Len(q) \in Nat
           /\ DOMAIN q = 1..Len(q) /\ DOMAIN Append(q, e) = 1..(Len(q) + 1)
           /\ \A i \in 1..Len(q) : Append(q, e)[i] = q[i]
           /\ Append(q, e)[Len(q) + 1] = e
  BY AppendProperties, LenProperties

LEMMA TookFirst ==
    ASSUME NEW S, NEW q \in Seq(S), q # <<>>
    PROVE  /\ Tail(q) \in Seq(S) /\ Head(q) \in S /\ Head(q) = q[1] /\ 1 \in DOMAIN q
           /\ \A i \in DOMAIN Tail(q) :
                i \in Nat /\ i + 1 # 1 /\ i + 1 \in DOMAIN q /\ Tail(q)[i] = q[i + 1]
<1>1. /\ Tail(q) \in Seq(S) /\ Head(q) \in S /\ Len(Tail(q)) = Len(q) - 1
      /\ \A i \in 1..Len(Tail(q)) : Tail(q)[i] = q[i + 1]
  BY HeadTailProperties
<1>2. Len(q) \in Nat \ {0} /\ DOMAIN q = 1..Len(q) /\ DOMAIN Tail(q) = 1..Len(Tail(q))
  BY <1>1, EmptySeq, LenProperties
<1>3. Head(q) = q[1]
  OBVIOUS
<1>4. QED
  BY <1>1, <1>2, <1>3

LEMMA NetWithout ==
    ASSUME NEW S, NEW q \in Seq(S), NEW i \in DOMAIN q
    PROVE  /\ Without(q, i) \in Seq(S)
           /\ \A k \in DOMAIN Without(q, i) : \E m \in DOMAIN q : Without(q, i)[k] = q[m]
<1>1. Len(q) \in Nat /\ Len(q) >= 1 /\ i \in 1..Len(q) /\ DOMAIN q = 1..Len(q)
      /\ \A k \in 1..Len(q) : q[k] \in S
  BY LenProperties, ElementOfSeq
<1>2. Len(q) - 1 \in Nat
  BY <1>1
<1>3. \A k \in 1..(Len(q) - 1) : /\ k \in 1..Len(q) /\ k + 1 \in 1..Len(q)
                                 /\ (IF k < i THEN q[k] ELSE q[k + 1]) \in S
  BY <1>1
<1>4. Without(q, i) = [k \in 1..(Len(q) - 1) |-> IF k < i THEN q[k] ELSE q[k + 1]]
  BY DEF Without
<1>5. Without(q, i) \in Seq(S)
  BY <1>2, <1>3, <1>4, IsASeq
<1>6. QED
  BY <1>1, <1>3, <1>4, <1>5

LEMMA BegunCalls ==
    ASSUME NetTypes
    PROVE  /\ Len(trans) \in Nat /\ DOMAIN trans = CallsBegun
           /\ \A m \in CallsBegun : trans[m] \in NetTransactions
<1>1. trans \in Seq(NetTransactions)
  BY DEF NetTypes
<1>2. QED
  BY <1>1, LenProperties, ElementOfSeq DEF CallsBegun

\* A call that can be told apart could be told apart before.
LEMMA DistinguishedBefore ==
    ASSUME Len(trans) \in Nat, Len(trans') \in Nat, Len(trans) <= Len(trans'),
           \A m \in CallsBegun : trans'[m].ulReqID = trans[m].ulReqID /\ trans[m].ulReqID \in Nat,
           noteID \in Nat, noteID' \in Nat, noteID <= noteID',
           NEW n \in CallsBegun, Distinguished(n)'
    PROVE  Distinguished(n)
  BY DEF Distinguished, Twins, LikeANotice, CallsBegun

\* What is delivered to a call that can be told apart is its own response.
LEMMA OwnPacket ==
    ASSUME NetIInv, receiver.at = "deliver", Distinguished(receiver.call)
    PROVE  receiver.packet = Own(receiver.call) /\ InHand(receiver.call)
<1> USE DEF NetIInv
<1>1. /\ Answers(receiver.packet) \/ Tells(receiver.packet)
      /\ receiver.call \in CallsBegun /\ trans[receiver.call].ulReqID = receiver.packet.id
  BY DEF PacketsKnown
<1>2. ~Tells(receiver.packet)
  BY <1>1 DEF Tells, Distinguished, LikeANotice
<1>3. receiver.packet.call = receiver.call
  BY <1>1, <1>2 DEF Answers, CallsBegun, Distinguished, Twins
<1>4. receiver.packet \in NetPackets
  BY DEF NetTypes
<1>5. QED
  BY <1>1, <1>2, <1>3, <1>4 DEF Answers, Own, InHand, NetPackets

\* A step that changes no transaction and brings no packet on its way.
LEMMA CallsStay ==
    ASSUME NetIInv, trans' = trans, noteID' \in Nat, noteID <= noteID',
           \A n \in CallsBegun : /\ Open(n) <=> Open(n)'
                                 /\ Unsent(n)' => Unsent(n)
                                 /\ Underway(n)' => Underway(n)
    PROVE  CallsSound'
<1>1. Len(trans) \in Nat /\ \A m \in CallsBegun : trans[m].ulReqID \in Nat
  BY BegunCalls DEF NetIInv, NetTransactions
<1>2. \A n \in CallsBegun : Distinguished(n)' => Distinguished(n)
  BY <1>1, DistinguishedBefore DEF NetIInv, NetTypes
<1>3. CallsBegun' = CallsBegun /\ \A n : Own(n)' = Own(n)
  BY DEF CallsBegun, Own
<1>4. ASSUME NEW n \in CallsBegun PROVE CallSound(n)'
  BY <1>2, <1>3 DEF NetIInv, CallsSound, CallSound
<1>5. QED
  BY <1>3, <1>4 DEF CallsSound

\* The places of the callers when one of them moves.
LEMMA OneCallerMoves ==
    ASSUME NetTypes, NEW c \in NetCallers, NEW at, pc' = [pc EXCEPT ![c] = at], call' = call
    PROVE  /\ pc'[c] = at /\ \A d \in NetCallers \ {c} : pc'[d] = pc[d]
           /\ \A n : pc[c] \notin {"perform", "wait"} /\ Open(n) => Open(n)'
           /\ \A n : at \notin {"perform", "wait"} /\ Open(n)' => Open(n)
           /\ \A n : at # "perform" /\ trans' = trans /\ Unsent(n)' => Unsent(n)
  BY DEF NetTypes, Open, Unsent

LEMMA PacketsStay ==
    ASSUME PacketsKnown, OnePacket, UNCHANGED <<trans, toServer, toClient, receiver, noteID>>
    PROVE  PacketsKnown' /\ OnePacket' /\ \A n : Underway(n)' = Underway(n)
  BY DEF PacketsKnown, OnePacket, Underway, AtGateway, OnItsWay, InHand, CallsBegun, Asks, Answers, Tells

LEMMA NetReadNumber ==
    ASSUME NetIInv, NEW c \in NetCallers, ReadNumber(c)
    PROVE  NetIInv'
<1> USE DEF NetIInv
<1>1. /\ pc[c] = "idle" /\ pc' = [pc EXCEPT ![c] = "number"]
      /\ seen' = [seen EXCEPT ![c] = ulReqID]
      /\ UNCHANGED <<ulReqID, call, trans, xTransList, receiver, toServer, toClient, noteID>>
  BY DEF ReadNumber, network, gateway
<1>2. NetTypes'
  BY <1>1 DEF NetTypes
<1>3. PacketsKnown' /\ OnePacket' /\ \A n : Underway(n)' = Underway(n)
  BY <1>1, PacketsStay
<1>4. CallersKnown'
  BY <1>1, OneCallerMoves DEF CallersKnown, CallsBegun
<1>5. \A n : (Open(n) <=> Open(n)') /\ (Unsent(n)' => Unsent(n))
  BY <1>1, OneCallerMoves
<1>6. CallsSound'
  BY <1>1, <1>3, <1>5, CallsStay DEF NetTypes
<1>7. QED
  BY <1>2, <1>3, <1>4, <1>6

\* The call that begins has no packet yet.
LEMMA NetTakeNumber ==
    ASSUME NetIInv, NEW c \in NetCallers, TakeNumber(c)
    PROVE  NetIInv'
<1> USE DEF NetIInv
<1>1. PICK new : new = Len(trans) + 1
  OBVIOUS
<1>2. PICK t : t = Transaction(seen[c] + 1)
  OBVIOUS
<1>3. /\ pc[c] = "number" /\ pc' = [pc EXCEPT ![c] = "perform"] /\ ulReqID' = seen[c] + 1
      /\ seen' = [seen EXCEPT ![c] = 0] /\ call' = [call EXCEPT ![c] = new]
      /\ trans' = Append(trans, t) /\ xTransList' = Append(xTransList, new)
      /\ UNCHANGED <<receiver, toServer, toClient, noteID>>
  BY <1>1, <1>2 DEF TakeNumber, network, gateway
<1>4. /\ trans \in Seq(NetTransactions) /\ Len(trans) \in Nat /\ DOMAIN trans = CallsBegun
      /\ xTransList \in Seq(Nat) /\ new \in Nat /\ seen[c] + 1 \in Nat
  BY <1>1, BegunCalls DEF NetTypes
<1>5. t \in NetTransactions /\ t.xRet = "none" /\ t.xLock = 0
  BY <1>2, <1>4 DEF Transaction, NoPacket, NoCall, NetTransactions, NetPackets
<1>6. /\ trans' \in Seq(NetTransactions) /\ Len(trans') = new /\ CallsBegun' = CallsBegun \cup {new}
      /\ trans'[new] = t /\ \A n \in CallsBegun : trans'[n] = trans[n]
      /\ new \notin CallsBegun /\ new # 0 /\ 0 \notin CallsBegun
  BY <1>1, <1>3, <1>4, <1>5, AppendedOne DEF CallsBegun
<1>7. /\ xTransList' \in Seq(Nat)
      /\ \A i \in DOMAIN xTransList' :
            \/ xTransList'[i] = new
            \/ i \in DOMAIN xTransList /\ xTransList'[i] = xTransList[i]
  BY <1>3, <1>4, AppendedOne
<1>8. NetTypes'
  BY <1>3, <1>4, <1>6, <1>7 DEF NetTypes
<1>9. /\ pc'[c] = "perform" /\ call'[c] = new
      /\ \A d \in NetCallers \ {c} : pc'[d] = pc[d] /\ call'[d] = call[d]
  BY <1>3 DEF NetTypes
<1>10. \A d \in NetCallers : call[d] # new
  BY <1>1, <1>4 DEF CallersKnown
<1>11. CallersKnown'
  <2>1. \A d \in NetCallers : call'[d] \in 0..Len(trans')
    BY <1>1, <1>4, <1>6, <1>9 DEF CallersKnown
  <2>2. \A d, e \in NetCallers : call'[d] = call'[e] /\ call'[d] # 0 => d = e
    BY <1>9, <1>10 DEF CallersKnown
  <2>3. QED
    BY <1>6, <1>7, <1>9, <2>1, <2>2 DEF CallersKnown
<1>12. PacketsKnown'
  BY <1>3, <1>6 DEF PacketsKnown, Asks, Answers, Tells
<1>13. /\ \A n : AtGateway(n)' = AtGateway(n) /\ OnItsWay(n)' = OnItsWay(n) /\ InHand(n)' = InHand(n)
       /\ ~AtGateway(new) /\ ~OnItsWay(new) /\ ~InHand(new)
  BY <1>3, <1>6 DEF AtGateway, OnItsWay, InHand, PacketsKnown, Asks, Answers, Tells
<1>14. OnePacket'
  BY <1>3, <1>6, <1>13 DEF OnePacket
<1>15. ASSUME NEW n \in CallsBegun
       PROVE  (Open(n) <=> Open(n)') /\ (Unsent(n)' => Unsent(n)) /\ Own(n)' = Own(n)
  <2>1. n # new /\ trans'[n] = trans[n]
    BY <1>6
  <2>2. Open(n) <=> Open(n)'
    BY <1>3, <1>9, <2>1 DEF Open
  <2>3. Unsent(n)' => Unsent(n)
    BY <1>9, <2>1 DEF Unsent
  <2>4. QED
    BY <2>1, <2>2, <2>3 DEF Own
<1>16. \A n \in CallsBegun : Distinguished(n)' => Distinguished(n)
  <2>1. /\ Len(trans') \in Nat /\ Len(trans) <= Len(trans') /\ noteID \in Nat /\ noteID' = noteID
        /\ \A m \in CallsBegun : trans'[m].ulReqID = trans[m].ulReqID /\ trans[m].ulReqID \in Nat
    <3>1. \A m \in CallsBegun : trans[m].ulReqID \in Nat
      BY BegunCalls DEF NetTransactions
    <3>2. noteID \in Nat
      BY DEF NetTypes
    <3>3. QED
      BY <1>1, <1>3, <1>4, <1>6, <3>1, <3>2
  <2>2. QED
    BY <1>4, <2>1, DistinguishedBefore
<1>17. Open(new)'
  BY <1>9 DEF Open
<1>18. CallSound(new)'
  BY <1>5, <1>6, <1>13, <1>17 DEF CallSound, Underway
<1>19. ASSUME NEW n \in CallsBegun PROVE CallSound(n)'
  BY <1>6, <1>13, <1>15, <1>16 DEF CallsSound, CallSound, Underway
<1>20. QED
  BY <1>6, <1>8, <1>11, <1>12, <1>14, <1>18, <1>19 DEF CallsSound

\* The request of a call that was not sent is the first packet of that call.
LEMMA NetPerform ==
    ASSUME NetIInv, NEW c \in NetCallers, Perform(c)
    PROVE  NetIInv'
<1> USE DEF NetIInv
<1>1. PICK m : m = call[c]
  OBVIOUS
<1>2. /\ pc[c] = "perform" /\ pc' = [pc EXCEPT ![c] = "wait"]
      /\ UNCHANGED <<ulReqID, call, seen, trans, xTransList, receiver, toClient, noteID>>
      /\ toServer' = Append(toServer, Request(m)) \/ UNCHANGED toServer
  BY <1>1 DEF Perform, MayReach, gateway
<1>3. m \in CallsBegun /\ Unsent(m) /\ ~Underway(m)
  BY <1>1, <1>2 DEF CallersKnown, CallsBegun, Unsent, CallsSound, CallSound, NetTypes
<1>4. Request(m) = [kind |-> "request", id |-> trans[m].ulReqID, call |-> m]
  BY DEF Request
<1>5. Request(m) \in NetPackets
  BY <1>3, <1>4, BegunCalls DEF NetPackets, NetTransactions, CallsBegun
<1>6. /\ toServer' \in Seq(NetPackets)
      /\ \/ toServer' = toServer
         \/ /\ DOMAIN toServer' = DOMAIN toServer \cup {Len(toServer) + 1}
            /\ Len(toServer) + 1 \notin DOMAIN toServer
            /\ toServer'[Len(toServer) + 1] = Request(m)
            /\ \A i \in DOMAIN toServer : toServer'[i] = toServer[i]
  <2>1. toServer \in Seq(NetPackets)
    BY DEF NetTypes
  <2>2. CASE toServer' = Append(toServer, Request(m))
    BY <1>5, <2>1, <2>2, AppendedOne
  <2>3. CASE UNCHANGED toServer
    BY <2>1, <2>3
  <2>4. QED
    BY <1>2, <2>2, <2>3
<1>7. NetTypes'
  BY <1>2, <1>6 DEF NetTypes
<1>8. \A n : Underway(n)' => Underway(n) \/ n = m
  BY <1>2, <1>4, <1>6 DEF Underway, AtGateway, OnItsWay, InHand
<1>9. PacketsKnown'
  BY <1>2, <1>3, <1>4, <1>6 DEF PacketsKnown, Asks, Answers, Tells, CallsBegun
<1>10. OnePacket'
  BY <1>2, <1>3, <1>4, <1>6 DEF OnePacket, Underway, AtGateway, OnItsWay, InHand, CallsBegun
<1>11. CallersKnown' /\ \A n : Open(n) => Open(n)'
  BY <1>2 DEF CallersKnown, CallsBegun, NetTypes, Open
<1>12. \A n \in CallsBegun : Unsent(n)' => Unsent(n) /\ n # m
  <2>1. trans[m].xRet = "none"
    BY <1>1, <1>2, <1>3 DEF CallsSound, CallSound, Open
  <2>2. \A d \in NetCallers \ {c} : call[d] # m /\ pc'[d] = pc[d]
    BY <1>1, <1>2, <1>3 DEF CallersKnown, NetTypes, CallsBegun
  <2>3. ~Unsent(m)'
    BY <1>2, <2>1, <2>2 DEF Unsent, NetTypes
  <2>4. QED
    BY <1>2, <2>2, <2>3 DEF Unsent, NetTypes
<1>13. \A n : Own(n)' = Own(n) /\ (Distinguished(n)' = Distinguished(n)) /\ CallsBegun' = CallsBegun
  BY <1>2 DEF Own, Distinguished, Twins, LikeANotice, CallsBegun
<1>14. ASSUME NEW n \in CallsBegun PROVE CallSound(n)'
  <2>1. Open(n)' <=> Open(n)
    BY <1>2 DEF Open, NetTypes
  <2>2. CASE n # m
    BY <1>2, <1>8, <1>12, <1>13, <2>1, <2>2 DEF CallsSound, CallSound
  <2>3. CASE n = m
    BY <1>2, <1>3, <1>12, <1>13, <2>1, <2>3 DEF CallsSound, CallSound
  <2>4. QED
    BY <2>2, <2>3
<1>15. QED
  BY <1>7, <1>9, <1>10, <1>11, <1>13, <1>14 DEF CallsSound

\* A caller that leaves: what its call says then.
LEMMA NetFinish ==
    ASSUME NetIInv, NEW c \in NetCallers,
           \/ PerformFails(c)
           \/ call[c] # NoCall /\ (Completed(c) \/ TimeOver(c))
    PROVE  NetIInv'
<1> USE DEF NetIInv
<1>1. PICK m : m = call[c]
  OBVIOUS
<1>2. PICK r \in {"error", "ok", "timeout"} :
        /\ trans' = [trans EXCEPT ![m].xRet = r]
        /\ \/ pc[c] = "perform" /\ r = "error"
           \/ pc[c] = "wait" /\ r = "ok" /\ trans[m].xLock > 0
           \/ pc[c] = "wait" /\ r = "timeout"
        /\ pc' = [pc EXCEPT ![c] = "destroy"]
        /\ UNCHANGED <<ulReqID, call, seen, xTransList, receiver, toServer, toClient, noteID>>
  BY <1>1 DEF PerformFails, Completed, TimeOver, Finish, network, gateway
<1>3. m \in CallsBegun /\ Open(m) /\ (r = "error" => Unsent(m))
  BY <1>1, <1>2 DEF CallersKnown, CallsBegun, Open, Unsent, NetTypes
<1>4. /\ trans \in Seq(NetTransactions) /\ Len(trans) \in Nat /\ DOMAIN trans = CallsBegun
      /\ trans[m] \in NetTransactions
  BY <1>3, BegunCalls DEF NetTypes
<1>5. [trans[m] EXCEPT !.xRet = r] \in NetTransactions
  BY <1>4 DEF NetTransactions
<1>6. /\ trans' \in Seq(NetTransactions) /\ Len(trans') = Len(trans) /\ CallsBegun' = CallsBegun
      /\ \A n \in CallsBegun \ {m} : trans'[n] = trans[n]
      /\ trans'[m] = [trans[m] EXCEPT !.xRet = r]
  BY <1>2, <1>3, <1>4, <1>5, ExceptSeq DEF CallsBegun
<1>7. /\ trans'[m].xRet = r /\ trans'[m].ulReqID = trans[m].ulReqID
      /\ trans'[m].xLock = trans[m].xLock /\ trans'[m].pResp = trans[m].pResp
  BY <1>4, <1>6 DEF NetTransactions
<1>8. \A n \in CallsBegun : trans'[n].ulReqID = trans[n].ulReqID
  BY <1>6, <1>7
<1>9. NetTypes'
  BY <1>2, <1>6 DEF NetTypes
<1>10. PacketsKnown'
  BY <1>2, <1>6, <1>8 DEF PacketsKnown, Asks, Answers, Tells
<1>11. OnePacket' /\ \A n : Underway(n)' = Underway(n)
  BY <1>2, <1>6 DEF OnePacket, Underway, AtGateway, OnItsWay, InHand
<1>12. /\ pc'[c] = "destroy" /\ \A d \in NetCallers \ {c} : pc'[d] = pc[d] /\ call[d] # m
       /\ call' = call
  BY <1>1, <1>2, <1>3 DEF CallersKnown, NetTypes, CallsBegun
<1>13. CallersKnown'
  BY <1>1, <1>2, <1>3, <1>6, <1>12 DEF CallersKnown, CallsBegun
<1>14. \A n \in CallsBegun : Distinguished(n)' => Distinguished(n)
  BY <1>2, <1>6, <1>8 DEF Distinguished, Twins, LikeANotice, CallsBegun
<1>15. \A n \in CallsBegun : Own(n)' = Own(n)
  BY <1>8 DEF Own
<1>16. ASSUME NEW n \in CallsBegun PROVE CallSound(n)'
  <2>1. CASE n = m
    <3>1. ~Open(m)' /\ (Unsent(m)' => Unsent(m))
      BY <1>3, <1>7, <1>12 DEF Open, Unsent
    <3>2. QED
      BY <1>2, <1>3, <1>7, <1>11, <1>14, <1>15, <2>1, <3>1 DEF CallsSound, CallSound
  <2>2. CASE n # m
    <3>1. (Open(n)' <=> Open(n)) /\ (Unsent(n)' => Unsent(n))
      BY <1>1, <1>6, <1>12, <2>2 DEF Open, Unsent
    <3>2. QED
      BY <1>6, <1>11, <1>14, <1>15, <2>2, <3>1 DEF CallsSound, CallSound
  <2>3. QED
    BY <2>1, <2>2
<1>17. QED
  BY <1>6, <1>9, <1>10, <1>11, <1>13, <1>16 DEF CallsSound

LEMMA NetDestroy ==
    ASSUME NetIInv, NEW c \in NetCallers, Destroy(c)
    PROVE  NetIInv'
<1> USE DEF NetIInv
<1>1. /\ pc[c] = "destroy" /\ pc' = [pc EXCEPT ![c] = "idle"]
      /\ UNCHANGED <<ulReqID, call, seen, trans, receiver, toServer, toClient, noteID>>
  BY DEF Destroy, network, gateway
<1>2. PICK i \in DOMAIN xTransList : xTransList' = Without(xTransList, i)
  BY DEF Destroy
<1>3. /\ xTransList' \in Seq(Nat)
      /\ \A k \in DOMAIN xTransList' : \E m \in DOMAIN xTransList : xTransList'[k] = xTransList[m]
  BY <1>2, NetWithout DEF NetTypes
<1>4. NetTypes'
  BY <1>1, <1>3 DEF NetTypes
<1>5. PacketsKnown' /\ OnePacket' /\ \A n : Underway(n)' = Underway(n)
  BY <1>1, PacketsStay
<1>6. CallersKnown'
  BY <1>1, <1>3, OneCallerMoves DEF CallersKnown, CallsBegun
<1>7. \A n : (Open(n) <=> Open(n)') /\ (Unsent(n)' => Unsent(n))
  BY <1>1, OneCallerMoves
<1>8. CallsSound'
  BY <1>1, <1>5, <1>7, CallsStay DEF NetTypes
<1>9. QED
  BY <1>4, <1>5, <1>6, <1>8

\* The first packet is taken in hand, or it is about nobody's number.
LEMMA NetReceive ==
    ASSUME NetIInv, Receive
    PROVE  NetIInv'
<1> USE DEF NetIInv
<1>1. /\ receiver.at = "recv" /\ toClient # <<>> /\ toClient' = Tail(toClient)
      /\ UNCHANGED <<ulReqID, pc, call, seen, trans, xTransList, toServer, noteID>>
  BY DEF Receive, callers, gateway
<1>2. toClient \in Seq(NetPackets)
  BY DEF NetTypes
<1>3. /\ Tail(toClient) \in Seq(NetPackets) /\ Head(toClient) \in NetPackets
      /\ Head(toClient) = toClient[1] /\ 1 \in DOMAIN toClient
      /\ \A i \in DOMAIN Tail(toClient) :
           i \in Nat /\ i + 1 # 1 /\ i + 1 \in DOMAIN toClient /\ Tail(toClient)[i] = toClient[i + 1]
  BY <1>1, <1>2, TookFirst
<1>4. \/ /\ receiver' = receiver
      \/ \E n \in CallsBegun : /\ receiver' = [at |-> "deliver", packet |-> Head(toClient), call |-> n]
                               /\ trans[n].ulReqID = Head(toClient).id
  <2>1. CASE UNCHANGED receiver
    BY <2>1
  <2>2. ASSUME NEW n \in Found(Head(toClient)),
               receiver' = [at |-> "deliver", packet |-> Head(toClient), call |-> n]
        PROVE  n \in CallsBegun /\ trans[n].ulReqID = Head(toClient).id
    <3>1. PICK i \in Matches(Head(toClient)) : n = xTransList[i]
      BY <2>2 DEF Found
    <3>2. i \in DOMAIN xTransList /\ trans[n].ulReqID = Head(toClient).id
      BY <3>1, LenProperties DEF Matches, NetTypes
    <3>3. QED
      BY <3>1, <3>2 DEF CallersKnown
  <2>3. QED
    BY <2>1, <2>2 DEF Receive
<1>5. CallsBegun' = CallsBegun /\ CallsBegun \subseteq Nat
  BY <1>1 DEF CallsBegun
<1>6. NetTypes'
  BY <1>1, <1>3, <1>4, <1>5 DEF NetTypes
<1>7. PacketsKnown'
  BY <1>1, <1>3, <1>4, <1>5 DEF PacketsKnown, Asks, Answers, Tells
<1>8. /\ \A n : AtGateway(n)' = AtGateway(n) /\ ~InHand(n)
      /\ \A n : OnItsWay(n)' => OnItsWay(n)
      /\ \A n : InHand(n)' => toClient[1].kind = "response" /\ toClient[1].call = n
  BY <1>1, <1>3, <1>4 DEF AtGateway, OnItsWay, InHand
<1>9. \A n : InHand(n)' => OnItsWay(n) /\ ~OnItsWay(n)'
  BY <1>1, <1>3, <1>8 DEF OnItsWay, OnePacket
<1>10. OnePacket'
  <2>1. \A n \in CallsBegun : /\ ~(AtGateway(n)' /\ OnItsWay(n)')
                              /\ ~(AtGateway(n)' /\ InHand(n)')
                              /\ ~(OnItsWay(n)' /\ InHand(n)')
    BY <1>8, <1>9 DEF OnePacket
  <2>2. \A i, j \in DOMAIN toClient' :
          (toClient'[i].kind = "response" /\ toClient'[j].kind = "response"
             /\ toClient'[i].call = toClient'[j].call) => i = j
    <3>1. ASSUME NEW i \in DOMAIN toClient', NEW j \in DOMAIN toClient',
                 toClient'[i].kind = "response", toClient'[j].kind = "response",
                 toClient'[i].call = toClient'[j].call
          PROVE  i = j
      <4>1. i + 1 = j + 1
        BY <1>1, <1>3, <3>1 DEF OnePacket
      <4>2. QED
        BY <1>1, <1>3, <4>1
    <3>2. QED
      BY <3>1
  <2>3. QED
    BY <1>1, <1>5, <2>1, <2>2 DEF OnePacket
<1>11. CallersKnown' /\ \A n : (Open(n) <=> Open(n)') /\ (Unsent(n)' => Unsent(n))
  BY <1>1 DEF CallersKnown, CallsBegun, Open, Unsent
<1>12. CallsSound'
  BY <1>1, <1>8, <1>9, <1>11, CallsStay DEF NetTypes, Underway
<1>13. QED
  BY <1>6, <1>7, <1>10, <1>11, <1>12

\* What is delivered: to a call that can be told apart, its own response and once.
LEMMA NetDeliver ==
    ASSUME NetIInv, Deliver
    PROVE  NetIInv'
<1> USE DEF NetIInv
<1>1. PICK m : m = receiver.call
  OBVIOUS
<1>2. PICK pResp \in {receiver.packet, trans[m].pResp} :
        /\ receiver.packet.call = m => pResp = receiver.packet
        /\ trans' = [trans EXCEPT ![m].pResp = pResp, ![m].xLock = @ + 1]
  BY <1>1 DEF Deliver
<1>3. /\ receiver.at = "deliver" /\ receiver' = Receiving
      /\ UNCHANGED <<ulReqID, pc, call, seen, xTransList, toServer, toClient, noteID>>
  BY DEF Deliver, callers, network, gateway
<1>4. m \in CallsBegun /\ receiver.packet \in NetPackets
  BY <1>1, <1>3 DEF PacketsKnown, NetTypes
<1>5. /\ trans \in Seq(NetTransactions) /\ Len(trans) \in Nat /\ DOMAIN trans = CallsBegun
      /\ trans[m] \in NetTransactions
  BY <1>4, BegunCalls DEF NetTypes
<1>6. PICK t : t = [trans[m] EXCEPT !.pResp = pResp, !.xLock = @ + 1]
  OBVIOUS
<1>7. /\ t \in NetTransactions /\ t.ulReqID = trans[m].ulReqID /\ t.xRet = trans[m].xRet
      /\ t.xLock = trans[m].xLock + 1 /\ t.pResp = pResp
  <2>1. pResp \in NetPackets
    BY <1>2, <1>4, <1>5 DEF NetTransactions
  <2>2. t = [ulReqID |-> trans[m].ulReqID, xLock |-> trans[m].xLock + 1, pResp |-> pResp,
             xRet |-> trans[m].xRet]
    BY <1>5, <1>6 DEF NetTransactions
  <2>3. /\ trans[m].ulReqID \in Nat /\ trans[m].xLock + 1 \in Nat
        /\ trans[m].xRet \in {"none", "ok", "error", "timeout"}
    BY <1>5 DEF NetTransactions
  <2>4. QED
    BY <2>1, <2>2, <2>3 DEF NetTransactions
<1>8. trans' = [trans EXCEPT ![m] = t]
  BY <1>2, <1>4, <1>5, <1>6
<1>9. /\ trans' \in Seq(NetTransactions) /\ Len(trans') = Len(trans) /\ CallsBegun' = CallsBegun
      /\ \A n \in CallsBegun \ {m} : trans'[n] = trans[n]
      /\ trans'[m] = t
  BY <1>4, <1>5, <1>7, <1>8, ExceptSeq DEF CallsBegun
<1>10. \A n \in CallsBegun : trans'[n].ulReqID = trans[n].ulReqID
  BY <1>7, <1>9
<1>11. receiver'.at = "recv"
       /\ receiver' \in [at : {"recv", "deliver"}, packet : NetPackets, call : Nat]
  BY <1>3 DEF Receiving, NoPacket, NoCall, NetPackets
<1>12. NetTypes'
  BY <1>3, <1>9, <1>11 DEF NetTypes
<1>13. PacketsKnown' /\ CallersKnown'
  BY <1>3, <1>9, <1>10, <1>11 DEF PacketsKnown, CallersKnown, Asks, Answers, Tells
<1>14. \A n : AtGateway(n)' = AtGateway(n) /\ OnItsWay(n)' = OnItsWay(n) /\ ~InHand(n)'
  BY <1>3, <1>11 DEF AtGateway, OnItsWay, InHand
<1>15. OnePacket'
  BY <1>3, <1>9, <1>14 DEF OnePacket
<1>16. \A n \in CallsBegun : Distinguished(n)' => Distinguished(n)
  BY <1>3, <1>9, <1>10 DEF Distinguished, Twins, LikeANotice, CallsBegun
<1>17. ASSUME NEW n \in CallsBegun
       PROVE  (Open(n)' <=> Open(n)) /\ (Unsent(n)' <=> Unsent(n)) /\ Own(n)' = Own(n)
  <2>1. trans'[n].xRet = trans[n].xRet
    BY <1>7, <1>9
  <2>2. QED
    BY <1>3, <1>10, <2>1 DEF Open, Unsent, Own
<1>18. ASSUME NEW n \in CallsBegun PROVE CallSound(n)'
  <2>1. CASE n # m
    BY <1>9, <1>14, <1>16, <1>17, <2>1 DEF CallsSound, CallSound, Underway
  <2>2. CASE n = m
    <3>1. trans[m].xLock \in Nat
      BY <1>5 DEF NetTransactions
    <3>2. Distinguished(m) =>
            /\ receiver.packet = Own(m) /\ ~Unsent(m) /\ pResp = Own(m)
            /\ ~AtGateway(m) /\ ~OnItsWay(m)
      <4>1. SUFFICES ASSUME Distinguished(m)
                     PROVE  /\ receiver.packet = Own(m) /\ ~Unsent(m) /\ pResp = Own(m)
                            /\ ~AtGateway(m) /\ ~OnItsWay(m)
        OBVIOUS
      <4>2. receiver.packet = Own(m) /\ InHand(m)
        BY <1>1, <1>3, <4>1, OwnPacket
      <4>3. ~Unsent(m) /\ ~AtGateway(m) /\ ~OnItsWay(m)
        BY <1>4, <4>2 DEF CallsSound, CallSound, OnePacket, Underway
      <4>4. QED
        BY <1>2, <4>2, <4>3 DEF Own
    <3>3. QED
      BY <1>7, <1>9, <1>14, <1>16, <1>17, <2>2, <3>1, <3>2 DEF CallsSound, CallSound, Underway
  <2>3. QED
    BY <2>1, <2>2
<1>19. QED
  BY <1>9, <1>12, <1>13, <1>15, <1>18 DEF CallsSound

\* The gateway takes the oldest request.
LEMMA TakesRequest ==
    ASSUME NetIInv, toServer # <<>>, toServer' = Tail(toServer)
    PROVE  /\ toServer' \in Seq(NetPackets) /\ Asks(Head(toServer)) /\ Head(toServer) \in NetPackets
           /\ \A i \in DOMAIN toServer' : \E j \in DOMAIN toServer : toServer'[i] = toServer[j]
           /\ \A i, j \in DOMAIN toServer' : toServer'[i].call = toServer'[j].call => i = j
           /\ AtGateway(Head(toServer).call) /\ \A n : AtGateway(n)' => AtGateway(n)
           /\ \A i \in DOMAIN toServer' : toServer'[i].call # Head(toServer).call
<1> USE DEF NetIInv
<1>1. toServer \in Seq(NetPackets)
  BY DEF NetTypes
<1>2. /\ Tail(toServer) \in Seq(NetPackets) /\ Head(toServer) \in NetPackets
      /\ Head(toServer) = toServer[1] /\ 1 \in DOMAIN toServer
      /\ \A i \in DOMAIN Tail(toServer) :
           i \in Nat /\ i + 1 # 1 /\ i + 1 \in DOMAIN toServer /\ Tail(toServer)[i] = toServer[i + 1]
  BY <1>1, TookFirst
<1>3. Asks(Head(toServer)) /\ AtGateway(Head(toServer).call)
  BY <1>2 DEF PacketsKnown, AtGateway
<1>4. \A n : AtGateway(n)' => AtGateway(n)
  BY <1>2 DEF AtGateway
<1>5. \A i \in DOMAIN toServer' : toServer'[i].call # Head(toServer).call
  BY <1>2 DEF OnePacket
<1>6. ASSUME NEW i \in DOMAIN toServer', NEW j \in DOMAIN toServer',
             toServer'[i].call = toServer'[j].call
      PROVE  i = j
  <2>1. i + 1 = j + 1
    BY <1>2, <1>6 DEF OnePacket
  <2>2. QED
    BY <1>2, <2>1
<1>7. QED
  BY <1>2, <1>3, <1>4, <1>5, <1>6

\* It answers, and the answer may be lost, or its socket is closed.
LEMMA NetServe ==
    ASSUME NetIInv, ServeRequest \/ AnswerFails
    PROVE  NetIInv'
<1> USE DEF NetIInv
<1>1. PICK q : q = Response(Head(toServer))
  OBVIOUS
<1>2. PICK m : m = Head(toServer).call
  OBVIOUS
<1>3. /\ toServer # <<>> /\ toServer' = Tail(toServer)
      /\ toClient' = Append(toClient, q) \/ toClient' = toClient
      /\ UNCHANGED <<ulReqID, pc, call, seen, trans, xTransList, receiver, noteID>>
  BY <1>1 DEF ServeRequest, AnswerFails, MayReach, client, callers, gateway
<1>4. q = [kind |-> "response", id |-> Head(toServer).id, call |-> m]
  BY <1>1, <1>2 DEF Response
<1>5. /\ toServer' \in Seq(NetPackets) /\ Asks(Head(toServer)) /\ Head(toServer) \in NetPackets
      /\ \A i \in DOMAIN toServer' : \E j \in DOMAIN toServer : toServer'[i] = toServer[j]
      /\ \A i, j \in DOMAIN toServer' : toServer'[i].call = toServer'[j].call => i = j
      /\ AtGateway(m) /\ \A n : AtGateway(n)' => AtGateway(n)
      /\ \A i \in DOMAIN toServer' : toServer'[i].call # m
  BY <1>2, <1>3, TakesRequest
<1>6. q \in NetPackets /\ Answers(q) /\ m \in CallsBegun
  BY <1>2, <1>4, <1>5 DEF Asks, Answers, NetPackets
<1>7. /\ toClient' \in Seq(NetPackets)
      /\ \/ toClient' = toClient
         \/ /\ DOMAIN toClient' = DOMAIN toClient \cup {Len(toClient) + 1}
            /\ Len(toClient) + 1 \notin DOMAIN toClient
            /\ toClient'[Len(toClient) + 1] = q
            /\ \A i \in DOMAIN toClient : toClient'[i] = toClient[i]
  <2>1. toClient \in Seq(NetPackets)
    BY DEF NetTypes
  <2>2. CASE toClient' = Append(toClient, q)
    BY <1>6, <2>1, <2>2, AppendedOne
  <2>3. CASE toClient' = toClient
    BY <2>1, <2>3
  <2>4. QED
    BY <1>3, <2>2, <2>3
<1>8. NetTypes'
  BY <1>3, <1>5, <1>7 DEF NetTypes
<1>9. CallsBegun' = CallsBegun
  BY <1>3 DEF CallsBegun
<1>10. PacketsKnown'
  BY <1>3, <1>5, <1>6, <1>7, <1>9 DEF PacketsKnown, Asks, Answers, Tells
<1>11. /\ ~AtGateway(m)' /\ ~OnItsWay(m) /\ ~InHand(m)
       /\ \A n : OnItsWay(n)' => OnItsWay(n) \/ n = m
       /\ \A n : InHand(n)' = InHand(n)
  <2>1. ~AtGateway(m)' /\ ~OnItsWay(m) /\ ~InHand(m)
    BY <1>5, <1>6 DEF AtGateway, OnePacket
  <2>2. \A n : OnItsWay(n)' => OnItsWay(n) \/ n = m
    BY <1>4, <1>7 DEF OnItsWay
  <2>3. QED
    BY <1>3, <2>1, <2>2 DEF InHand
<1>12. OnePacket'
  <2>1. ASSUME NEW i \in DOMAIN toClient', NEW j \in DOMAIN toClient',
               toClient'[i].kind = "response", toClient'[j].kind = "response",
               toClient'[i].call = toClient'[j].call
        PROVE  i = j
    BY <1>4, <1>7, <1>11, <2>1 DEF OnePacket, OnItsWay
  <2>2. \A n \in CallsBegun : /\ ~(AtGateway(n)' /\ OnItsWay(n)')
                              /\ ~(AtGateway(n)' /\ InHand(n)')
                              /\ ~(OnItsWay(n)' /\ InHand(n)')
    BY <1>5, <1>11 DEF OnePacket
  <2>3. QED
    BY <1>5, <1>9, <2>1, <2>2 DEF OnePacket
<1>13. CallersKnown' /\ \A n : (Open(n) <=> Open(n)') /\ (Unsent(n)' => Unsent(n))
  BY <1>3 DEF CallersKnown, CallsBegun, Open, Unsent
<1>14. \A n : Underway(n)' => Underway(n)
  BY <1>5, <1>11 DEF Underway
<1>15. CallsSound'
  BY <1>3, <1>13, <1>14, CallsStay DEF NetTypes
<1>16. QED
  BY <1>8, <1>10, <1>12, <1>13, <1>15

\* A notification has the next number of the gateway.
LEMMA NetSendNotice ==
    ASSUME NetIInv, SendNotice
    PROVE  NetIInv'
<1> USE DEF NetIInv
<1>1. PICK q : q = Notice(noteID)
  OBVIOUS
<1>2. /\ noteID' = noteID + 1
      /\ toClient' = Append(toClient, q) \/ toClient' = toClient
      /\ UNCHANGED <<ulReqID, pc, call, seen, trans, xTransList, receiver, toServer>>
  BY <1>1 DEF SendNotice, MayReach, client, callers
<1>3. noteID \in Nat /\ noteID' \in Nat /\ noteID < noteID' /\ toClient \in Seq(NetPackets)
  BY <1>2 DEF NetTypes
<1>4. q \in NetPackets /\ q.kind = "notice" /\ q.id = noteID
  BY <1>1, <1>3 DEF Notice, NoCall, NetPackets
<1>5. /\ toClient' \in Seq(NetPackets)
      /\ \/ toClient' = toClient
         \/ /\ DOMAIN toClient' = DOMAIN toClient \cup {Len(toClient) + 1}
            /\ Len(toClient) + 1 \notin DOMAIN toClient
            /\ toClient'[Len(toClient) + 1] = q
            /\ \A i \in DOMAIN toClient : toClient'[i] = toClient[i]
  <2>1. CASE toClient' = Append(toClient, q)
    BY <1>3, <1>4, <2>1, AppendedOne
  <2>2. CASE toClient' = toClient
    BY <1>3, <2>2
  <2>3. QED
    BY <1>2, <2>1, <2>2
<1>6. NetTypes'
  BY <1>2, <1>3, <1>5 DEF NetTypes
<1>7. PacketsKnown'
  <2>1. \A p \in NetPackets : p.id < noteID => p.id < noteID'
    BY <1>2, <1>3 DEF NetPackets
  <2>2. \A i \in DOMAIN toClient : toClient[i] \in NetPackets
    BY <1>3, LenProperties, ElementOfSeq
  <2>3. receiver.packet \in NetPackets
    BY DEF NetTypes
  <2>4. /\ \A i \in DOMAIN toServer' : Asks(toServer[i])'
        /\ receiver.at = "deliver" =>
             /\ receiver'.call \in CallsBegun' /\ trans'[receiver'.call].ulReqID = receiver'.packet.id
             /\ Answers(receiver.packet)' \/ Tells(receiver.packet)'
    BY <1>2, <2>1, <2>3 DEF PacketsKnown, CallsBegun, Asks, Answers, Tells
  <2>5. \A i \in DOMAIN toClient' : Answers(toClient[i])' \/ Tells(toClient[i])'
    BY <1>2, <1>3, <1>4, <1>5, <2>1, <2>2 DEF PacketsKnown, CallsBegun, Answers, Tells
  <2>6. QED
    BY <1>2, <2>4, <2>5 DEF PacketsKnown
<1>8. \A n : AtGateway(n)' = AtGateway(n) /\ OnItsWay(n)' = OnItsWay(n) /\ InHand(n)' = InHand(n)
  BY <1>2, <1>4, <1>5 DEF AtGateway, OnItsWay, InHand
<1>9. OnePacket'
  <2>1. ASSUME NEW i \in DOMAIN toClient', NEW j \in DOMAIN toClient',
               toClient'[i].kind = "response", toClient'[j].kind = "response",
               toClient'[i].call = toClient'[j].call
        PROVE  i = j
    BY <1>4, <1>5, <2>1 DEF OnePacket
  <2>2. QED
    BY <1>2, <1>8, <2>1 DEF OnePacket, CallsBegun
<1>10. CallersKnown' /\ \A n : (Open(n) <=> Open(n)') /\ (Unsent(n)' => Unsent(n))
  BY <1>2 DEF CallersKnown, CallsBegun, Open, Unsent
<1>11. CallsSound'
  BY <1>2, <1>3, <1>8, <1>10, CallsStay DEF Underway
<1>12. QED
  BY <1>6, <1>7, <1>9, <1>10, <1>11

LEMMA NetInitInv == NetInit => NetIInv
<1> SUFFICES ASSUME NetInit PROVE NetIInv
  OBVIOUS
<1>1. /\ trans = <<>> /\ xTransList = <<>> /\ toServer = <<>> /\ toClient = <<>>
      /\ receiver = [at |-> "recv", packet |-> [kind |-> "none", id |-> 0, call |-> 0], call |-> 0]
      /\ pc = [c \in NetCallers |-> "idle"] /\ ulReqID = 0 /\ noteID = 0
      /\ call = [c \in NetCallers |-> 0] /\ seen = [c \in NetCallers |-> 0]
  BY DEF NetInit, Receiving, NoPacket, NoCall
<1>2. CallsBegun = {} /\ Len(trans) = 0
  BY <1>1 DEF CallsBegun
<1>3. NetTypes
  BY <1>1 DEF NetTypes, NetPackets
<1>4. PacketsKnown /\ OnePacket
  BY <1>1, <1>2 DEF PacketsKnown, OnePacket
<1>5. CallersKnown /\ CallsSound
  BY <1>1, <1>2 DEF CallersKnown, CallsSound
<1>6. QED
  BY <1>3, <1>4, <1>5 DEF NetIInv

LEMMA NetStep == NetIInv /\ [NetNext]_netVars => NetIInv'
<1> SUFFICES ASSUME NetIInv, [NetNext]_netVars PROVE NetIInv'
  OBVIOUS
<1>1. CASE UNCHANGED netVars
  <2>1. UNCHANGED <<ulReqID, pc, call, seen, trans, xTransList, receiver, toServer, toClient, noteID>>
    BY <1>1 DEF netVars, client, callers, network, gateway
  <2>2. NetTypes' /\ CallersKnown' /\ \A n : (Open(n) <=> Open(n)') /\ (Unsent(n)' => Unsent(n))
    BY <2>1 DEF NetIInv, NetTypes, CallersKnown, CallsBegun, Open, Unsent
  <2>3. PacketsKnown' /\ OnePacket' /\ \A n : Underway(n)' = Underway(n)
    BY <2>1, PacketsStay DEF NetIInv
  <2>4. CallsSound'
    BY <2>1, <2>2, <2>3, CallsStay DEF NetIInv, NetTypes
  <2>5. QED
    BY <2>2, <2>3, <2>4 DEF NetIInv
<1>2. ASSUME NEW c \in NetCallers, NetCallerStep(c) PROVE NetIInv'
  BY <1>2, NetReadNumber, NetTakeNumber, NetPerform, NetFinish, NetDestroy DEF NetCallerStep
<1>3. CASE ReceiverStep
  BY <1>3, NetReceive, NetDeliver DEF ReceiverStep
<1>4. CASE GatewayStep
  BY <1>4, NetServe, NetSendNotice DEF GatewayStep
<1>5. QED
  BY <1>1, <1>2, <1>3, <1>4 DEF NetNext

LEMMA NetInvariance == NetSpec => []NetIInv
  BY NetInitInv, NetStep, PTL DEF NetSpec

\* A call of the network client that returns FTM_RET_OK has the response to its own
\* request, for any number of callers, calls and notifications and whatever was lost,
\* unless another call or a notification has its number.
THEOREM NetOwnResponse == NetSpec => []OwnResponse
<1>1. NetIInv => OwnResponse
  BY DEF NetIInv, CallsSound, CallSound, Own, CallsBegun, OwnResponse, Response, Request
<1>2. QED
  BY <1>1, NetInvariance, PTL

\* The receiver of the network client touches a transaction that was given back only when
\* its caller had given up, unless another call or a notification has its number.
THEOREM NetNoLateTouch == NetSpec => []NoLateTouch
<1>1. NetIInv => NoLateTouch
  <2>1. SUFFICES ASSUME NetIInv, NEW n, n = receiver.call, receiver.at = "deliver",
                        GivenBack(n), Distinguished(n)
                 PROVE  trans[n].xRet = "timeout"
    BY DEF NoLateTouch
  <2>2. n \in CallsBegun /\ trans[n] \in NetTransactions
    BY <2>1, BegunCalls DEF NetIInv, PacketsKnown
  <2>3. Underway(n)
    BY <2>1, OwnPacket DEF Underway
  <2>4. ~Open(n)
    BY <2>1 DEF Open, GivenBack
  <2>5. CallSound(n)
    BY <2>2 , <2>1 DEF NetIInv, CallsSound
  <2>6. trans[n].xLock \in Nat /\ trans[n].xRet \in {"none", "ok", "error", "timeout"}
    BY <2>2 DEF NetTransactions
  <2>7. QED
    BY <2>1, <2>3, <2>4, <2>5, <2>6 DEF CallSound, Unsent
<1>2. QED
  BY <1>1, NetInvariance, PTL
===============================================================================
