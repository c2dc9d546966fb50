------------------------------ MODULE SisServer ------------------------------
(***************************************************************************)
(* The data manager's server (FTDM_SIS, src/ftdm/lib/ftdm_server.c): one   *)
(* thread accepts connections, and every accepted connection gets a        *)
(* session and a thread of its own.  A session waits two seconds for one   *)
(* of MaxSession permits; it serves its peer while it holds one.  To stop, *)
(* the accepting thread ends the sessions it finds in the list, one after  *)
(* the other; then the database is closed.                                 *)
(*                                                                         *)
(* Every connection has its own element of Conns.  Requests have no        *)
(* content here (DmcSession is about their order).                         *)
(***************************************************************************)
EXTENDS Integers, FiniteSets

CONSTANTS Conns,            \* connections of a run
          MaxSession,       \* ulMaxSession
          NoConn,           \* the accepting thread waits for no session
          MaxPending        \* bound: requests of a peer not yet received

ASSUME ConnsAssumption   == IsFiniteSet(Conns) /\ NoConn \notin Conns
ASSUME SessionAssumption == MaxSession \in Nat /\ MaxPending \in Nat

VARIABLES bStop,            \* the shell wants the server to stop
          acceptor,         \* where the accepting thread is
          joining,          \* the session whose thread it waits for
          xSemaphore,       \* the permits left
          pSessionList,     \* the sessions in the list
          session,          \* where the thread of each session is
          ended,            \* sessions told to stop, with their socket shut
          peer,             \* the other end of each connection
          pending           \* requests each session has not received yet

sisVars == <<bStop, acceptor, joining, xSemaphore, pSessionList, session, ended,
             peer, pending>>

Serving == {"recv", "call", "send", "destroy", "post"}

SisTypeOK ==
    /\ bStop \in BOOLEAN
    /\ acceptor \in {"accept", "join", "stopped", "killed"}
    /\ joining \in Conns \cup {NoConn}
    /\ xSemaphore \in 0..MaxSession
    /\ pSessionList \subseteq Conns
    /\ session \in [Conns -> {"none", "wait", "refused", "gone"} \cup Serving]
    /\ ended \subseteq Conns
    /\ peer \in [Conns -> {"new", "open", "closed"}]
    /\ pending \in [Conns -> 0..MaxPending]

SisInit ==
    /\ bStop = FALSE
    /\ acceptor = "accept" /\ joining = NoConn
    /\ xSemaphore = MaxSession
    /\ pSessionList = {} /\ ended = {}
    /\ session = [c \in Conns |-> "none"]
    /\ peer = [c \in Conns |-> "new"]
    /\ pending = [c \in Conns |-> 0]

Goto(c, place) == session' = [session EXCEPT ![c] = place]

-------------------------------------------------------------------------------
(* The peers: the gateway and the consoles.                                   *)

\* The connection waits to be accepted.
PeerConnects(c) ==
    /\ acceptor # "killed" /\ peer[c] = "new"
    /\ peer' = [peer EXCEPT ![c] = "open"]
    /\ UNCHANGED <<bStop, acceptor, joining, xSemaphore, pSessionList, session,
                   ended, pending>>

PeerRequests(c) ==
    /\ peer[c] = "open" /\ pending[c] < MaxPending
    /\ pending' = [pending EXCEPT ![c] = @ + 1]
    /\ UNCHANGED <<bStop, acceptor, joining, xSemaphore, pSessionList, session,
                   ended, peer>>

PeerHangsUp(c) ==
    /\ peer[c] = "open"
    /\ peer' = [peer EXCEPT ![c] = "closed"]
    /\ UNCHANGED <<bStop, acceptor, joining, xSemaphore, pSessionList, session,
                   ended, pending>>

-------------------------------------------------------------------------------
(* The accepting thread.                                                      *)

\* accept, FTDM_SIS_createSession and the thread of the session.
Accept(c) ==
    /\ acceptor = "accept" /\ peer[c] # "new" /\ session[c] = "none"
    /\ pSessionList' = pSessionList \cup {c}
    /\ Goto(c, "wait")
    /\ UNCHANGED <<bStop, acceptor, joining, xSemaphore, ended, peer, pending>>

\* There is no memory for the session, or no thread: it is taken back.
AcceptFails(c) ==
    /\ acceptor = "accept" /\ peer[c] # "new" /\ session[c] = "none"
    /\ Goto(c, "gone")
    /\ UNCHANGED <<bStop, acceptor, joining, xSemaphore, pSessionList, ended,
                   peer, pending>>

\* FTDM_SIS_stop, called by the shell.
Stop ==
    /\ ~bStop /\ acceptor = "accept"
    /\ bStop' = TRUE
    /\ UNCHANGED <<acceptor, joining, xSemaphore, pSessionList, session, ended,
                   peer, pending>>

\* The loop that accepts connections ends.
LeaveLoop ==
    /\ acceptor = "accept" /\ bStop
    /\ acceptor' = "join"
    /\ UNCHANGED <<bStop, joining, xSemaphore, pSessionList, session, ended,
                   peer, pending>>

\* Fault: the socket of the session is not shut.
EndSessionOpen(c) ==
    /\ acceptor = "join" /\ joining = NoConn /\ c \in pSessionList
    /\ joining' = c
    /\ UNCHANGED <<bStop, acceptor, xSemaphore, pSessionList, session, ended,
                   peer, pending>>

\* The next session of the list is told to stop, and its socket is shut.
EndSession(c) ==
    /\ acceptor = "join" /\ joining = NoConn /\ c \in pSessionList
    /\ ended' = ended \cup {c}
    /\ joining' = c
    /\ UNCHANGED <<bStop, acceptor, xSemaphore, pSessionList, session, peer, pending>>

\* Fault: the thread of the session is not joined.
NotJoined(c) ==
    /\ acceptor = "join" /\ joining = c
    /\ pSessionList' = pSessionList \ {c}
    /\ joining' = NoConn
    /\ UNCHANGED <<bStop, acceptor, xSemaphore, session, ended, peer, pending>>

\* The thread of the session has ended.  Its session is destroyed, again if it
\* served: FTM_MEM_free finds no such block and does nothing.
Joined(c) ==
    /\ acceptor = "join" /\ joining = c
    /\ session[c] \in {"refused", "gone"}
    /\ pSessionList' = pSessionList \ {c}
    /\ Goto(c, "gone")
    /\ joining' = NoConn
    /\ UNCHANGED <<bStop, acceptor, xSemaphore, ended, peer, pending>>

\* The list is empty: the thread ends, and the database is closed.
Finish ==
    /\ acceptor = "join" /\ joining = NoConn /\ pSessionList = {}
    /\ acceptor' = "stopped"
    /\ UNCHANGED <<bStop, joining, xSemaphore, pSessionList, session, ended,
                   peer, pending>>

-------------------------------------------------------------------------------
(* The thread of a session: FTDM_SIS_service.                                 *)

Admit(c) ==
    /\ session[c] = "wait" /\ xSemaphore > 0
    /\ xSemaphore' = xSemaphore - 1
    /\ Goto(c, IF c \in ended THEN "destroy" ELSE "recv")
    /\ UNCHANGED <<bStop, acceptor, joining, pSessionList, ended, peer, pending>>

\* Fault: a session that got no permit ends like the others.
RefuseAndPost(c) ==
    /\ session[c] = "wait" /\ xSemaphore = 0
    /\ Goto(c, "destroy")
    /\ UNCHANGED <<bStop, acceptor, joining, xSemaphore, pSessionList, ended, peer, pending>>

\* Two seconds have passed without a permit.  The session stays in the list,
\* its socket open, and its peer is told nothing.
Refuse(c) ==
    /\ session[c] = "wait" /\ xSemaphore = 0
    /\ Goto(c, "refused")
    /\ UNCHANGED <<bStop, acceptor, joining, xSemaphore, pSessionList, ended,
                   peer, pending>>

ReceiveRequest(c) ==
    /\ session[c] = "recv" /\ pending[c] > 0
    /\ pending' = [pending EXCEPT ![c] = @ - 1]
    /\ Goto(c, "call")
    /\ UNCHANGED <<bStop, acceptor, joining, xSemaphore, pSessionList, ended, peer>>

\* Fault: only the end of the server ends the loop.
DisconnectedIgnored(c) ==
    /\ session[c] = "recv"
    /\ c \in ended /\ pending[c] = 0
    /\ Goto(c, "destroy")
    /\ UNCHANGED <<bStop, acceptor, joining, xSemaphore, pSessionList, ended,
                   peer, pending>>

\* recv finds the connection closed, or broken, or its own end shut.
Disconnected(c) ==
    /\ session[c] = "recv"
    /\ peer[c] = "closed" \/ (c \in ended /\ pending[c] = 0)
    /\ Goto(c, "destroy")
    /\ UNCHANGED <<bStop, acceptor, joining, xSemaphore, pSessionList, ended,
                   peer, pending>>

ExecuteRequest(c) ==
    /\ session[c] = "call"
    /\ Goto(c, "send")
    /\ UNCHANGED <<bStop, acceptor, joining, xSemaphore, pSessionList, ended,
                   peer, pending>>

\* The response is sent; the loop goes on unless the session was told to stop.
SendResponse(c) ==
    /\ session[c] = "send"
    /\ Goto(c, IF c \in ended THEN "destroy" ELSE "recv")
    /\ UNCHANGED <<bStop, acceptor, joining, xSemaphore, pSessionList, ended,
                   peer, pending>>

\* The response does not fit the socket, or the connection is broken.
RespondFails(c) ==
    /\ session[c] = "send"
    /\ Goto(c, "destroy")
    /\ UNCHANGED <<bStop, acceptor, joining, xSemaphore, pSessionList, ended,
                   peer, pending>>

\* send raises SIGPIPE on a broken connection: the data manager is gone.
RespondKills(c) ==
    /\ session[c] = "send" /\ peer[c] = "closed"
    /\ acceptor' = "killed"
    /\ session' = [d \in Conns |-> "gone"]
    /\ UNCHANGED <<bStop, joining, xSemaphore, pSessionList, ended, peer, pending>>

\* FTDM_SIS_destroySession.
Destroy(c) ==
    /\ session[c] = "destroy"
    /\ pSessionList' = pSessionList \ {c}
    /\ Goto(c, "post")
    /\ UNCHANGED <<bStop, acceptor, joining, xSemaphore, ended, peer, pending>>

Post(c) ==
    /\ session[c] = "post"
    /\ xSemaphore' = xSemaphore + 1
    /\ Goto(c, "gone")
    /\ UNCHANGED <<bStop, acceptor, joining, pSessionList, ended, peer, pending>>

Service(c) ==
    \/ Admit(c) \/ Refuse(c) \/ ReceiveRequest(c) \/ Disconnected(c) \/ ExecuteRequest(c)
    \/ SendResponse(c) \/ RespondFails(c) \/ RespondKills(c) \/ Destroy(c) \/ Post(c)

\* What the accepting thread does to come to its end.
Ending ==
    \/ LeaveLoop \/ Finish
    \/ \E c \in Conns : EndSession(c) \/ Joined(c)

SisNext ==
    \/ \E c \in Conns : PeerConnects(c)
    \/ \E c \in Conns : PeerRequests(c)
    \/ \E c \in Conns : PeerHangsUp(c)
    \/ \E c \in Conns : Accept(c)
    \/ \E c \in Conns : AcceptFails(c)
    \/ Stop \/ Ending
    \/ \E c \in Conns : Service(c)

SisSpec == SisInit /\ [][SisNext]_sisVars

\* Every thread of the data manager goes on; the peers need not.
SisFairness == WF_sisVars(Ending) /\ \A c \in Conns : WF_sisVars(Service(c))

SisFairSpec == SisSpec /\ SisFairness

-------------------------------------------------------------------------------
\* A permit is left or held by exactly one session that was admitted, however
\* it ends; a session that was refused gives none back.
Holding == {c \in Conns : session[c] \in Serving}

PermitsAccounted ==
    acceptor # "killed" => xSemaphore + Cardinality(Holding) = MaxSession

\* Once the accepting thread has ended, and the database is closed after it, no
\* session executes a request or will: the list held every session it had to
\* wait for, although sessions leave the list by themselves meanwhile.
NoServiceAfterStop ==
    acceptor = "stopped" =>
        \A c \in Conns : session[c] \in {"none", "refused", "post", "gone"}

\* A stop comes to its end, although sessions wait for their peers or for a
\* permit.
StopReturns == bStop ~> acceptor \in {"stopped", "killed"}

\* The steps that the thread of a session has still to make when it was told to stop.
Ahead(place) ==
    CASE place = "recv" -> 5
      [] place = "call" -> 4
      [] place \in {"wait", "send"} -> 3
      [] place = "destroy" -> 2
      [] place = "post" -> 1
      [] OTHER -> 0

\* Why a stop comes to its end: nothing is added to the list any more, the session
\* that is joined was told to stop, so that it waits for no peer, and whatever its
\* thread does brings it nearer to its end, although it may execute one more request.
StopAdvances ==
    [][acceptor = "join" /\ acceptor' # "killed" =>
          /\ pSessionList' \subseteq pSessionList
          /\ joining # NoConn =>
                /\ joining \in ended
                /\ \/ /\ joining' = joining
                      /\ Ahead(session'[joining]) <= Ahead(session[joining])
                      /\ Service(joining) =>
                             Ahead(session'[joining]) < Ahead(session[joining])
                   \/ /\ joining' = NoConn /\ joining \notin pSessionList'
                      /\ Ahead(session[joining]) = 0]_sisVars

\* A session whose peer has hung up leaves the list, unless it was refused.
HangUpIsNoticed ==
    \A c \in Conns :
        (peer[c] = "closed" /\ c \in pSessionList) ~>
            \/ c \notin pSessionList
            \/ session[c] = "refused"
            \/ acceptor = "killed"
===============================================================================
