---------------------------- MODULE NodeLifecycle ----------------------------
(***************************************************************************)
(* A node of the gateway, its endpoints and the commands that start and    *)
(* stop them (src/ftom/node/ftom_node.c, src/ftom/lib/ftom_ep.c).  The     *)
(* node and each endpoint run a thread of their own.  The thread says that *)
(* it runs (bStop = FALSE) when it begins, not whoever creates it; it ends *)
(* when it takes a QUIT message from its queue.  To stop an object, a QUIT *)
(* is pushed and the thread created last is joined; when there is no QUIT  *)
(* to push, the thread is cancelled.  The sessions of the server and the   *)
(* shell give the commands, and nothing orders them.                       *)
(*                                                                         *)
(* The node is object 0, endpoint i of its list is object i.  A thread is  *)
(* known by its number among the threads of its object.                    *)
(***************************************************************************)
EXTENDS Integers, FiniteSets

CONSTANTS NumEPs,           \* endpoints linked to the node
          MaxRuns,          \* bound: threads created for an object
          MaxQuits,         \* bound: QUIT messages in a queue
          MaxCancels,       \* bound: threads cancelled
          Commanders,       \* sessions of the server, and the shell
          Patient           \* commands are given only when all is settled

EPs     == 1..NumEPs
Node    == 0
Objects == Node..NumEPs
Runs    == 1..MaxRuns

ASSUME BoundAssumption == {NumEPs, MaxRuns, MaxQuits, MaxCancels} \subseteq Nat
ASSUME CommandersAssumption == Commanders \cap Runs = {}
ASSUME PatientAssumption == Patient \in BOOLEAN

\* Who stops endpoints: a command, and a thread of the node that ends.
Stoppers == Commanders \cup Runs

VARIABLES bStop,            \* each object is stopped, or says so
          quits,            \* QUIT messages in the queue of each object
          xThread,          \* the number of the last thread of each object
          bEnable,          \* each endpoint is enabled
          bConnected,       \* the node is connected
          epThread,         \* where each thread of each endpoint is
          place,            \* where each command and node thread is
          at,               \* the endpoint it has come to
          joins,            \* the thread it joins
          cancelled,        \* threads that pthread_cancel was called for
          raced,            \* history: the node connected before a command had settled
          unsent            \* history: a QUIT for the node could not be queued

failures == <<cancelled, unsent>>
vars == <<bStop, quits, xThread, bEnable, bConnected, epThread, place, at, joins, raced, failures>>

TypeOK ==
    /\ bStop \in [Objects -> BOOLEAN]
    /\ quits \in [Objects -> 0..MaxQuits]
    /\ xThread \in [Objects -> 0..MaxRuns]
    /\ bEnable \in [EPs -> BOOLEAN]
    /\ bConnected \in BOOLEAN
    /\ epThread \in [EPs -> [Runs -> {"none", "created", "loop", "ended", "joined"}]]
    /\ place \in [Stoppers -> {"idle", "none", "created", "loop", "init", "connect",
                               "poll", "stop", "pushed", "join", "quit", "last", "stuck", "ended"}]
    /\ \A c \in Commanders :
           place[c] \in {"idle", "stop", "pushed", "join", "quit", "last", "stuck"}
    /\ \A r \in Runs : place[r] \notin {"idle", "quit", "last"}
    /\ at \in [Stoppers -> 1..(NumEPs + 1)]
    /\ joins \in [Stoppers -> 0..MaxRuns]
    /\ cancelled \subseteq Objects \X (0..MaxRuns)
    /\ raced \in BOOLEAN /\ unsent \in BOOLEAN

Init ==
    /\ bStop = [o \in Objects |-> TRUE]
    /\ quits = [o \in Objects |-> 0]
    /\ xThread = [o \in Objects |-> 0]
    /\ bEnable \in [EPs -> BOOLEAN]
    /\ bConnected = FALSE
    /\ epThread = [e \in EPs |-> [r \in Runs |-> "none"]]
    /\ place = [s \in Stoppers |-> IF s \in Runs THEN "none" ELSE "idle"]
    /\ at = [s \in Stoppers |-> 1]
    /\ joins = [s \in Stoppers |-> 0]
    /\ cancelled = {} /\ raced = FALSE /\ unsent = FALSE

-------------------------------------------------------------------------------
EPLives(e, r) == epThread[e][r] = "loop"
NodeLives(r)  == place[r] \notin {"none", "created", "ended"}

Threads(o) == IF o = Node THEN {r \in Runs : place[r] \notin {"none", "ended"}}
              ELSE {r \in Runs : epThread[o][r] \notin {"none", "ended", "joined"}}

\* No command is under way, every thread has begun, none has been told to stop
\* or is on its way out, and the node is not starting its endpoints.
Settled ==
    /\ \A c \in Commanders : place[c] = "idle"
    /\ \A r \in Runs :
           /\ place[r] \notin {"created", "connect"}
           /\ NodeLives(r) => ~bStop[Node] /\ quits[Node] = 0 /\ <<Node, r>> \notin cancelled
    /\ \A e \in EPs : \A r \in Runs :
           /\ epThread[e][r] # "created"
           /\ EPLives(e, r) => ~bStop[e] /\ quits[e] = 0 /\ <<e, r>> \notin cancelled

Commanded(c) == place[c] = "idle" /\ (Patient => Settled)

Goto(s, p) == place' = [place EXCEPT ![s] = p]
Rewind(s)  == at' = [at EXCEPT ![s] = 1]

\* The next thread of an object gets the first number not in use.
IsNext(r, used) == r \notin used /\ \A q \in Runs : q < r => q \in used

\* Fault: a thread that runs already is not noticed.
StartEPAgain(e, enabled) ==
    \/ UNCHANGED <<xThread, epThread>>
    \/ /\ enabled
       /\ \E r \in Runs :
              /\ IsNext(r, {q \in Runs : epThread[e][q] # "none"})
              /\ xThread' = [xThread EXCEPT ![e] = r]
              /\ epThread' = [epThread EXCEPT ![e][r] = "created"]

\* FTOM_EP_start from the check of bEnable on.  pthread_create may fail.
StartEP(e, enabled) ==
    \/ UNCHANGED <<xThread, epThread>>
    \/ /\ enabled /\ bStop[e]
       /\ \E r \in Runs :
              /\ IsNext(r, {q \in Runs : epThread[e][q] # "none"})
              /\ xThread' = [xThread EXCEPT ![e] = r]
              /\ epThread' = [epThread EXCEPT ![e][r] = "created"]

\* Those that no thread is there to take are counted up to MaxQuits.
PushQuit(o) ==
    /\ quits[o] < MaxQuits \/ Threads(o) = {}
    /\ quits' = [quits EXCEPT ![o] = IF @ < MaxQuits THEN @ + 1 ELSE @]

\* pthread_cancel, of the thread created last.
Cancel(o) ==
    /\ Cardinality(cancelled) < MaxCancels
    /\ cancelled' = cancelled \cup {<<o, xThread[o]>>}

\* FTOM_EP_stop, the first part: a QUIT that could not be made or not be queued
\* is none, and then the thread is cancelled.
TellEP(e) ==
    \/ PushQuit(e) /\ UNCHANGED cancelled
    \/ Cancel(e) /\ UNCHANGED quits

-------------------------------------------------------------------------------
(* The thread of an endpoint: FTOM_EP_threadMain.                             *)

EPBegin(e, r) ==
    /\ epThread[e][r] = "created"
    /\ bStop' = [bStop EXCEPT ![e] = FALSE]
    /\ epThread' = [epThread EXCEPT ![e][r] = "loop"]
    /\ UNCHANGED <<quits, xThread, bEnable, bConnected, place, at, joins, raced, failures>>

\* FTOM_EP_message takes the QUIT.
EPQuit(e, r) ==
    /\ EPLives(e, r) /\ ~bStop[e] /\ quits[e] > 0
    /\ quits' = [quits EXCEPT ![e] = @ - 1]
    /\ bStop' = [bStop EXCEPT ![e] = TRUE]
    /\ UNCHANGED <<xThread, bEnable, bConnected, epThread, place, at, joins, raced, failures>>

EPEnd(e, r) ==
    /\ EPLives(e, r) /\ bStop[e]
    /\ epThread' = [epThread EXCEPT ![e][r] = "ended"]
    /\ UNCHANGED <<bStop, quits, xThread, bEnable, bConnected, place, at, joins, raced, failures>>

\* A cancelled thread ends wherever it is next cancellable, with bStop as it is.
EPDies(e, r) ==
    /\ <<e, r>> \in cancelled /\ epThread[e][r] \in {"created", "loop"}
    /\ epThread' = [epThread EXCEPT ![e][r] = "ended"]
    /\ UNCHANGED <<bStop, quits, xThread, bEnable, bConnected, place, at, joins, raced, failures>>

-------------------------------------------------------------------------------
(* FTOM_EP_stop for one endpoint after the other, waiting for each: first     *)
(* part of a command to stop the node, and last thing the node's thread does. *)

NextEP(s) == at' = [at EXCEPT ![s] = @ + 1] /\ Goto(s, "stop")

\* Fault: the endpoint is told to stop and not waited for.
StopEPNoWait(s) ==
    /\ place[s] = "stop" /\ at[s] <= NumEPs
    /\ IF bStop[at[s]] THEN UNCHANGED <<quits, cancelled>> ELSE TellEP(at[s])
    /\ NextEP(s)
    /\ UNCHANGED <<bStop, xThread, bEnable, bConnected, epThread, joins, raced, unsent>>

StopEP(s) ==
    /\ place[s] = "stop" /\ at[s] <= NumEPs
    /\ IF bStop[at[s]]
       THEN NextEP(s) /\ UNCHANGED <<quits, cancelled>>
       ELSE TellEP(at[s]) /\ Goto(s, "pushed") /\ UNCHANGED at
    /\ UNCHANGED <<bStop, xThread, bEnable, bConnected, epThread, joins, raced, unsent>>

\* pthread_join is given the thread that is the last one now.
JoinEP(s) ==
    /\ place[s] = "pushed"
    /\ joins' = [joins EXCEPT ![s] = xThread[at[s]]]
    /\ Goto(s, "join")
    /\ UNCHANGED <<bStop, quits, xThread, bEnable, bConnected, epThread, at, raced, failures>>

\* pthread_join returns when the thread has ended.  When two join the same
\* thread, one of them may return at once with an error.
JoinedEP(s) ==
    /\ place[s] = "join"
    /\ \/ /\ epThread[at[s]][joins[s]] = "ended"
          /\ epThread' = [epThread EXCEPT ![at[s]][joins[s]] = "joined"]
       \/ /\ \E t \in Stoppers \ {s} :
                 place[t] = "join" /\ at[t] = at[s] /\ joins[t] = joins[s]
          /\ UNCHANGED epThread
    /\ NextEP(s)
    /\ joins' = [joins EXCEPT ![s] = 0]
    /\ UNCHANGED <<bStop, quits, xThread, bEnable, bConnected, raced, failures>>

\* To join a thread that was joined before, as FTOM_EP_stop does when it cancelled
\* the thread the time before, is undefined: it returns or it never does.
JoinEPAgain(s) ==
    /\ place[s] = "join" /\ epThread[at[s]][joins[s]] = "joined"
    /\ NextEP(s) \/ (Goto(s, "stuck") /\ UNCHANGED at)
    /\ joins' = [joins EXCEPT ![s] = 0]
    /\ UNCHANGED <<bStop, quits, xThread, bEnable, bConnected, epThread, raced, failures>>

-------------------------------------------------------------------------------
(* The thread of the node: FTOM_NODE_threadMain.                              *)

NodeBegin(r) ==
    /\ place[r] = "created"
    /\ bStop' = [bStop EXCEPT ![Node] = FALSE]
    /\ Goto(r, "loop")
    /\ UNCHANGED <<quits, xThread, bEnable, bConnected, epThread, at, joins, raced, failures>>

\* The node is not connected and it is time to try.
NodeTry(r) ==
    /\ place[r] = "loop" /\ ~bStop[Node] /\ ~bConnected
    /\ Goto(r, "init")
    /\ UNCHANGED <<bStop, quits, xThread, bEnable, bConnected, epThread, at, joins, raced, failures>>

\* The node is connected, or it is not yet time, or fInit failed.
NodeWait(r) ==
    /\ (place[r] = "loop" /\ ~bStop[Node]) \/ place[r] = "init"
    /\ Goto(r, "poll")
    /\ UNCHANGED <<bStop, quits, xThread, bEnable, bConnected, epThread, at, joins, raced, failures>>

\* fInit succeeds, or there is none: FTOM_NODE_connect.
NodeConnect(r) ==
    /\ place[r] = "init"
    /\ bConnected' = TRUE
    /\ raced' = (raced \/ ~Settled)
    /\ Goto(r, "connect")
    /\ UNCHANGED <<bStop, quits, xThread, bEnable, epThread, at, joins, failures>>

NodeStartEP(r) ==
    /\ place[r] = "connect" /\ at[r] <= NumEPs
    /\ StartEP(at[r], bEnable[at[r]])
    /\ at' = [at EXCEPT ![r] = @ + 1]
    /\ UNCHANGED <<bStop, quits, bEnable, bConnected, place, joins, raced, failures>>

NodeConnected(r) ==
    /\ place[r] = "connect" /\ at[r] > NumEPs
    /\ Goto(r, "poll") /\ Rewind(r)
    /\ UNCHANGED <<bStop, quits, xThread, bEnable, bConnected, epThread, joins, raced, failures>>

NodeQuit(r) ==
    /\ place[r] = "poll" /\ ~bStop[Node] /\ quits[Node] > 0
    /\ quits' = [quits EXCEPT ![Node] = @ - 1]
    /\ bStop' = [bStop EXCEPT ![Node] = TRUE]
    /\ UNCHANGED <<xThread, bEnable, bConnected, epThread, place, at, joins, raced, failures>>

\* There was no message in time, or the thread is to end.
NodeLoop(r) ==
    /\ place[r] = "poll" /\ (quits[Node] = 0 \/ bStop[Node])
    /\ Goto(r, "loop")
    /\ UNCHANGED <<bStop, quits, xThread, bEnable, bConnected, epThread, at, joins, raced, failures>>

\* The loop is left: FTOM_NODE_disconnect stops the endpoints first.
NodeLeave(r) ==
    /\ place[r] = "loop" /\ bStop[Node]
    /\ Goto(r, "stop")
    /\ UNCHANGED <<bStop, quits, xThread, bEnable, bConnected, epThread, at, joins, raced, failures>>

\* Fault: the node stays connected.
NodeEndConnected(r) ==
    /\ r \in Runs /\ place[r] = "stop" /\ at[r] > NumEPs
    /\ Goto(r, "ended") /\ Rewind(r)
    /\ UNCHANGED <<bStop, quits, xThread, bEnable, bConnected, epThread, joins, raced, failures>>

NodeEnd(r) ==
    /\ r \in Runs /\ place[r] = "stop" /\ at[r] > NumEPs
    /\ bConnected' = FALSE
    /\ Goto(r, "ended") /\ Rewind(r)
    /\ UNCHANGED <<bStop, quits, xThread, bEnable, epThread, joins, raced, failures>>

\* A cancelled thread does not disconnect.
NodeDies(r) ==
    /\ <<Node, r>> \in cancelled /\ place[r] \notin {"none", "ended"}
    /\ Goto(r, "ended") /\ Rewind(r)
    /\ joins' = [joins EXCEPT ![r] = 0]
    /\ UNCHANGED <<bStop, quits, xThread, bEnable, bConnected, epThread, raced, failures>>

-------------------------------------------------------------------------------
(* The commands.                                                              *)

\* FTOM_NODE_start.
StartNode(c) ==
    /\ bStop[Node] /\ Commanded(c)
    /\ \E r \in Runs :
           /\ IsNext(r, {q \in Runs : place[q] # "none"})
           /\ xThread' = [xThread EXCEPT ![Node] = r]
           /\ Goto(r, "created")
    /\ UNCHANGED <<bStop, quits, bEnable, bConnected, epThread, at, joins, raced, failures>>

\* FTOM_NODE_stop: the endpoints first, ...
StopNode(c) ==
    /\ ~bStop[Node] /\ Commanded(c)
    /\ Goto(c, "stop")
    /\ UNCHANGED <<bStop, quits, xThread, bEnable, bConnected, epThread, at, joins, raced, failures>>

\* Fault: the QUIT could not be made, and the thread is joined all the same.
QuitNodeUntold(c) ==
    /\ c \in Commanders /\ place[c] = "stop" /\ at[c] > NumEPs
    /\ Goto(c, "quit") /\ Rewind(c)
    /\ UNCHANGED <<bStop, quits, xThread, bEnable, bConnected, epThread, joins, raced, failures>>

\* ... then the thread of the node is sent a QUIT, or cancelled when there is no
\* memory for one; a QUIT that could not be queued is thrown away ...
QuitNode(c) ==
    /\ c \in Commanders /\ place[c] = "stop" /\ at[c] > NumEPs
    /\ \/ PushQuit(Node) /\ UNCHANGED failures
       \/ Cancel(Node) /\ UNCHANGED <<quits, unsent>>
       \/ unsent' = TRUE /\ UNCHANGED <<quits, cancelled>>
    /\ Goto(c, "quit") /\ Rewind(c)
    /\ UNCHANGED <<bStop, xThread, bEnable, bConnected, epThread, joins, raced>>

\* ... and joined, whatever became of the QUIT.
JoinNode(c) ==
    /\ place[c] = "quit"
    /\ joins' = [joins EXCEPT ![c] = xThread[Node]]
    /\ Goto(c, "last")
    /\ UNCHANGED <<bStop, quits, xThread, bEnable, bConnected, epThread, at, raced, failures>>

NodeStopped(c) ==
    /\ place[c] = "last"
    /\ \/ joins[c] # 0 /\ place[joins[c]] = "ended"
       \/ \E d \in Commanders \ {c} : place[d] = "last" /\ joins[d] = joins[c]
    /\ xThread' = [xThread EXCEPT ![Node] = 0]
    /\ joins' = [joins EXCEPT ![c] = 0]
    /\ Goto(c, "idle")
    /\ UNCHANGED <<bStop, quits, bEnable, bConnected, epThread, at, raced, failures>>

\* Another stop has set xThread to 0, and to join that is undefined as well.
JoinNone(c) ==
    /\ place[c] = "last" /\ joins[c] = 0
    /\ \/ Goto(c, "idle") /\ xThread' = [xThread EXCEPT ![Node] = 0]
       \/ Goto(c, "stuck") /\ UNCHANGED xThread
    /\ UNCHANGED <<bStop, quits, bEnable, bConnected, epThread, at, joins, raced, failures>>

\* FTOM_EP_setInfo with bEnable.
Enable(c, e) ==
    /\ ~bEnable[e] /\ Commanded(c)
    /\ bEnable' = [bEnable EXCEPT ![e] = TRUE]
    /\ StartEP(e, TRUE)
    /\ UNCHANGED <<bStop, quits, bConnected, place, at, joins, raced, failures>>

\* Fault: an endpoint that does not run is sent a QUIT as well.
DisableAlways(c, e) ==
    /\ bEnable[e] /\ Commanded(c)
    /\ bEnable' = [bEnable EXCEPT ![e] = FALSE]
    /\ TellEP(e)
    /\ UNCHANGED <<bStop, xThread, bConnected, epThread, place, at, joins, raced, unsent>>

\* Fault: only the flag is set.
DisableOnly(c, e) ==
    /\ bEnable[e] /\ Commanded(c)
    /\ bEnable' = [bEnable EXCEPT ![e] = FALSE]
    /\ UNCHANGED <<bStop, quits, xThread, bConnected, epThread, place, at, joins, raced, failures>>

Disable(c, e) ==
    /\ bEnable[e] /\ Commanded(c)
    /\ bEnable' = [bEnable EXCEPT ![e] = FALSE]
    /\ IF bStop[e] THEN UNCHANGED <<quits, cancelled>> ELSE TellEP(e)
    /\ UNCHANGED <<bStop, xThread, bConnected, epThread, place, at, joins, raced, unsent>>

\* The shell's commands for an endpoint; the stop does not wait.
EPStart(c, e) ==
    /\ Commanded(c)
    /\ StartEP(e, bEnable[e])
    /\ UNCHANGED <<bStop, quits, bEnable, bConnected, place, at, joins, raced, failures>>

EPStop(c, e) ==
    /\ ~bStop[e] /\ Commanded(c)
    /\ TellEP(e)
    /\ UNCHANGED <<bStop, xThread, bEnable, bConnected, epThread, place, at, joins, raced, unsent>>

-------------------------------------------------------------------------------
EPStep(e, r) == EPBegin(e, r) \/ EPQuit(e, r) \/ EPEnd(e, r)

StopStep(s) == StopEP(s) \/ JoinEP(s) \/ JoinedEP(s) \/ JoinEPAgain(s)

NodeStep(r) == NodeBegin(r) \/ NodeTry(r) \/ NodeWait(r) \/ NodeConnect(r)
                 \/ NodeStartEP(r) \/ NodeConnected(r) \/ NodeQuit(r)
                 \/ NodeLoop(r) \/ NodeLeave(r) \/ NodeEnd(r)

CommandStep(c) == QuitNode(c) \/ JoinNode(c) \/ NodeStopped(c) \/ JoinNone(c)

Next ==
    \/ \E e \in EPs, r \in Runs : EPStep(e, r)
    \/ \E s \in Stoppers : StopStep(s)
    \/ \E r \in Runs : NodeStep(r)
    \/ \E e \in EPs, r \in Runs : EPDies(e, r)
    \/ \E r \in Runs : NodeDies(r)
    \/ \E c \in Commanders : StartNode(c)
    \/ \E c \in Commanders : StopNode(c)
    \/ \E c \in Commanders : CommandStep(c)
    \/ \E c \in Commanders, e \in EPs : Enable(c, e)
    \/ \E c \in Commanders, e \in EPs : Disable(c, e)
    \/ \E c \in Commanders, e \in EPs : EPStart(c, e)
    \/ \E c \in Commanders, e \in EPs : EPStop(c, e)

Spec == Init /\ [][Next]_vars

\* Every thread goes on, or ends once it is cancelled, and so does a command that
\* was given.
Fairness ==
    /\ \A e \in EPs, r \in Runs : WF_vars(EPStep(e, r) \/ EPDies(e, r))
    /\ \A r \in Runs : WF_vars(NodeDies(r))
    /\ \A r \in Runs : WF_vars(NodeStep(r) \/ StopStep(r))
    /\ \A c \in Commanders : WF_vars(CommandStep(c) \/ StopStep(c))

FairSpec == Spec /\ Fairness

-------------------------------------------------------------------------------
\* An object that says it runs has a thread that will take the QUIT of a stop,
\* and a stop that joins is not in vain: however commands and the node's own
\* starts and stops interleave, the last thread to leave has set bStop.  Only a
\* thread that was cancelled leaves an object behind that says it runs.
RunningHasThread ==
    /\ \A e \in EPs : ~bStop[e] => \E r \in Runs : EPLives(e, r) \/ <<e, r>> \in cancelled
    /\ ~bStop[Node] => \E r \in Runs : NodeLives(r) \/ <<Node, r>> \in cancelled

\* A node is never left connected without a thread, unless the thread was
\* cancelled by a stop that had no memory for a QUIT.
ConnectedHasThread ==
    bConnected => \E r \in Runs : NodeLives(r) \/ <<Node, r>> \in cancelled

\* As long as a command is given only after the last one has settled, and the
\* node did not connect in between, ...
Orderly == Patient /\ ~raced

\* ... no object has two threads, ...
OneThread == Orderly => \A o \in Objects : \A r, q \in Threads(o) : r = q

\* ... no QUIT is left over that would end the next thread of its object: one that
\* nobody takes is for an object that still says it runs and so is not started
\* again, because its thread was cancelled, ...
QuitHasReader ==
    Orderly => \A o \in Objects : quits[o] > 0 =>
                 /\ ~bStop[o]
                 /\ quits[o] = 1 \/ \E r \in Runs : <<o, r>> \in cancelled

\* ... and a stop of the node returns with no thread left, of the node or of
\* an endpoint.
StopLeavesNothing ==
    [][\A c \in Commanders :
           place[c] = "last" /\ place'[c] = "idle" /\ Orderly =>
               \A o \in Objects : Threads(o) = {}]_vars

\* A stop of the node returns, whether its threads took a QUIT or were cancelled.
\* It waits for ever only when a QUIT for the node could not be queued, or when
\* somebody joins a thread that was cancelled, and joined, by an earlier stop.
StopReturns ==
    \A c \in Commanders : place[c] = "stop" ~>
        \/ place[c] = "idle" \/ raced \/ unsent
        \/ cancelled # {} /\ \E s \in Stoppers : place[s] = "stuck"

\* A disabled endpoint ends, told or cancelled, whatever the node does meanwhile.
DisabledStops ==
    \A e \in EPs : ~bEnable[e] ~> bEnable[e] \/ Threads(e) = {} \/ raced
===============================================================================
