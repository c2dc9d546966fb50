------------------------- MODULE NodeLifecycleProofs -------------------------
(***************************************************************************)
(* Proofs about NodeLifecycle for any number of endpoints, threads and     *)
(* commanders, patient or not.                                             *)
(***************************************************************************)
EXTENDS NodeLifecycle, TLAPS

\* The kinds of the constants, and that a thread of the node is no command.
LEMMA Sets ==
    /\ Node = 0 /\ Node \in Objects /\ Node \notin EPs
    /\ EPs \subseteq Objects /\ EPs \subseteq Nat
    /\ \A o \in Objects : o = Node \/ o \in EPs
    /\ \A c \in Commanders : c \notin Runs /\ c \in Stoppers
    /\ Runs \subseteq Stoppers /\ Runs \subseteq 0..MaxRuns
  BY BoundAssumption, CommandersAssumption DEF Node, Objects, EPs, Runs, Stoppers

\* The parts of TypeOK about places.
Places == {"idle", "none", "created", "loop", "init", "connect", "poll",
           "stop", "pushed", "join", "quit", "last", "stuck", "ended"}

PlacesOK ==
    /\ \A c \in Commanders : place[c] \in {"idle", "stop", "pushed", "join", "quit", "last", "stuck"}
    /\ \A r \in Runs : place[r] \notin {"idle", "quit", "last"}

\* Whoever waits for an endpoint has come to one.
AtEndpoint == \A s \in Stoppers : place[s] \in {"pushed", "join"} => at[s] \in EPs

\* The thread that makes RunningHasThread true of the node has not left its
\* loop: one that is stopping the endpoints may end while bStop is FALSE,
\* because another has begun since.  A thread that was cancelled may have left
\* anywhere.
Looping(r) == place[r] \in {"loop", "init", "connect", "poll"}

EPsRun   ==
    \A e \in EPs : ~bStop[e] => \E r \in Runs : EPLives(e, r) \/ <<e, r>> \in cancelled
NodeRuns == ~bStop[Node] => \E r \in Runs : Looping(r) \/ <<Node, r>> \in cancelled

Inv == TypeOK /\ AtEndpoint /\ EPsRun /\ NodeRuns /\ ConnectedHasThread

LEMMA InitInv == Init => Inv
<1> SUFFICES ASSUME Init PROVE Inv
  OBVIOUS
<1>1. place \in [Stoppers -> Places] /\ PlacesOK
  BY Sets DEF Init, Places, PlacesOK
<1>2. at \in [Stoppers -> 1..(NumEPs + 1)] /\ joins \in [Stoppers -> 0..MaxRuns]
  BY BoundAssumption DEF Init
<1>3. quits \in [Objects -> 0..MaxQuits] /\ xThread \in [Objects -> 0..MaxRuns]
  BY BoundAssumption DEF Init
<1>4. bStop \in [Objects -> BOOLEAN] /\ bEnable \in [EPs -> BOOLEAN]
  BY DEF Init
<1>5. epThread \in [EPs -> [Runs -> {"none", "created", "loop", "ended", "joined"}]]
  BY DEF Init
<1>6. TypeOK
  BY <1>1, <1>2, <1>3, <1>4, <1>5 DEF Init, TypeOK, PlacesOK, Places
<1>7. AtEndpoint /\ EPsRun /\ NodeRuns /\ ConnectedHasThread
  BY Sets DEF Init, AtEndpoint, EPsRun, NodeRuns, ConnectedHasThread
<1>8. QED
  BY <1>6, <1>7 DEF Inv

\* A start of an endpoint keeps the threads typed and every thread that lives.
LEMMA StartType ==
    ASSUME TypeOK, NEW e \in EPs, NEW b \in BOOLEAN, StartEP(e, b)
    PROVE  /\ xThread' \in [Objects -> 0..MaxRuns]
           /\ epThread' \in [EPs -> [Runs -> {"none", "created", "loop", "ended", "joined"}]]
           /\ \A d \in EPs, r \in Runs : EPLives(d, r) => EPLives(d, r)'
<1>1. CASE UNCHANGED <<xThread, epThread>>
  BY <1>1 DEF TypeOK, EPLives
<1>2. CASE \E r \in Runs :
              /\ IsNext(r, {q \in Runs : epThread[e][q] # "none"})
              /\ xThread' = [xThread EXCEPT ![e] = r]
              /\ epThread' = [epThread EXCEPT ![e][r] = "created"]
  BY <1>2, Sets DEF TypeOK, EPLives, IsNext
<1>3. QED
  BY <1>1, <1>2 DEF StartEP

\* A QUIT that is pushed or not keeps the queues typed.
LEMMA QuitType ==
    ASSUME TypeOK, NEW o \in Objects, PushQuit(o) \/ UNCHANGED quits
    PROVE  quits' \in [Objects -> 0..MaxQuits]
<1>1. CASE PushQuit(o)
  BY <1>1, BoundAssumption DEF TypeOK, PushQuit
<1>2. QED
  BY <1>1 DEF TypeOK

\* The same of the threads that are cancelled, which only become more.
LEMMA CancelType ==
    ASSUME TypeOK, NEW o \in Objects, Cancel(o) \/ UNCHANGED cancelled
    PROVE  cancelled \subseteq cancelled' /\ cancelled' \subseteq Objects \X (0..MaxRuns)
  BY DEF TypeOK, Cancel

LEMMA TellType ==
    ASSUME TypeOK, NEW e \in EPs, TellEP(e) \/ UNCHANGED <<quits, cancelled>>
    PROVE  /\ quits' \in [Objects -> 0..MaxQuits]
           /\ cancelled \subseteq cancelled' /\ cancelled' \subseteq Objects \X (0..MaxRuns)
<1>1. /\ PushQuit(e) \/ UNCHANGED quits
      /\ Cancel(e) \/ UNCHANGED cancelled
      /\ e \in Objects
  BY Sets DEF TellEP
<1>2. QED
  BY <1>1, QuitType, CancelType

LEMMA EPStepInv ==
    ASSUME Inv, NEW e \in EPs, NEW r \in Runs, EPStep(e, r) \/ EPDies(e, r)
    PROVE  Inv'
<1>1. CASE EPBegin(e, r)
  <2>1. TypeOK'
    BY <1>1, Sets DEF Inv, TypeOK, EPBegin, failures
  <2>2. EPsRun' /\ NodeRuns'
    BY <1>1, Sets DEF Inv, TypeOK, EPBegin, failures, EPsRun, EPLives, NodeRuns, Looping
  <2>3. QED
    BY <1>1, <2>1, <2>2 DEF Inv, EPBegin, failures, AtEndpoint, ConnectedHasThread, NodeLives
<1>2. CASE EPQuit(e, r)
  <2>1. TypeOK'
    BY <1>2, Sets, BoundAssumption DEF Inv, TypeOK, EPQuit, failures
  <2>2. EPsRun' /\ NodeRuns'
    BY <1>2, Sets DEF Inv, TypeOK, EPQuit, failures, EPsRun, EPLives, NodeRuns, Looping
  <2>3. QED
    BY <1>2, <2>1, <2>2 DEF Inv, EPQuit, failures, AtEndpoint, ConnectedHasThread, NodeLives
<1>3. CASE EPEnd(e, r)
  <2>1. TypeOK'
    BY <1>3, Sets DEF Inv, TypeOK, EPEnd, failures
  <2>2. EPsRun' /\ NodeRuns'
    BY <1>3, Sets DEF Inv, TypeOK, EPEnd, failures, EPsRun, EPLives, NodeRuns, Looping
  <2>3. QED
    BY <1>3, <2>1, <2>2 DEF Inv, EPEnd, failures, AtEndpoint, ConnectedHasThread, NodeLives
<1>4. CASE EPDies(e, r)
  <2>1. TypeOK'
    BY <1>4, Sets DEF Inv, TypeOK, EPDies, failures
  <2>2. EPsRun' /\ NodeRuns'
    <3>1. /\ \A d \in EPs, q \in Runs : EPLives(d, q) => EPLives(d, q)' \/ (d = e /\ q = r)
          /\ <<e, r>> \in cancelled' /\ UNCHANGED <<bStop, cancelled, place>>
      BY <1>4 DEF Inv, TypeOK, EPDies, EPLives, failures
    <3>2. QED
      BY <3>1 DEF Inv, EPsRun, NodeRuns, Looping
  <2>3. QED
    BY <1>4, <2>1, <2>2 DEF Inv, EPDies, AtEndpoint, ConnectedHasThread, NodeLives, failures
<1>5. QED
  BY <1>1, <1>2, <1>3, <1>4 DEF EPStep

\* Going to a place of the right kind keeps the places typed.
LEMMA GotoType ==
    ASSUME TypeOK, NEW s \in Stoppers, NEW p \in Places, Goto(s, p),
           s \in Commanders => p \in {"idle", "stop", "pushed", "join", "quit", "last", "stuck"},
           s \in Runs => p \notin {"idle", "quit", "last"}
    PROVE  place' \in [Stoppers -> Places] /\ PlacesOK'
  BY Sets DEF TypeOK, Goto, Places, PlacesOK

\* Stepping on from an endpoint, or going back to the first.
LEMMA AtType ==
    ASSUME TypeOK, NEW s \in Stoppers,
           \/ at[s] \in EPs /\ at' = [at EXCEPT ![s] = @ + 1]
           \/ Rewind(s)
           \/ UNCHANGED at
    PROVE  at' \in [Stoppers -> 1..(NumEPs + 1)]
<1>1. CASE at[s] \in EPs /\ at' = [at EXCEPT ![s] = @ + 1]
  <2>1. at[s] + 1 \in 1..(NumEPs + 1)
    BY <1>1, BoundAssumption DEF EPs
  <2>2. QED
    BY <1>1, <2>1 DEF TypeOK
<1>2. CASE Rewind(s)
  BY <1>2, BoundAssumption DEF TypeOK, Rewind
<1>3. QED
  BY <1>1, <1>2 DEF TypeOK

\* A step of a stopper that was not looping, to a place that still lives,
\* keeps what the invariant says of the threads.
LEMMA KeepThreads ==
    ASSUME Inv, NEW s \in Stoppers, NEW p, UNCHANGED <<bStop, bConnected>>,
           \A e \in EPs, r \in Runs : EPLives(e, r) => EPLives(e, r)',
           cancelled \subseteq cancelled',
           Goto(s, p), ~Looping(s) \/ p \in {"loop", "init", "connect", "poll"},
           p \notin {"none", "created", "ended"}
    PROVE  EPsRun' /\ NodeRuns' /\ ConnectedHasThread'
<1>1. \A r \in Runs : (Looping(r) => Looping(r)') /\ (NodeLives(r) => NodeLives(r)')
  BY DEF Inv, TypeOK, Goto, Looping, NodeLives
<1>2. QED
  BY <1>1 DEF Inv, EPsRun, NodeRuns, ConnectedHasThread

LEMMA StopStepInv ==
    ASSUME Inv, NEW s \in Stoppers, StopStep(s)
    PROVE  Inv'
<1> USE Sets DEF Inv, failures
<1>1. ASSUME NEW p \in {"stop", "pushed", "join", "stuck"}, Goto(s, p)
      PROVE  place' \in [Stoppers -> Places] /\ PlacesOK'
  BY <1>1, GotoType DEF Places
<1>2. CASE StopEP(s)
  <2>1. at[s] \in EPs
    BY <1>2, BoundAssumption DEF StopEP, TypeOK, EPs
  <2>2. /\ quits' \in [Objects -> 0..MaxQuits]
        /\ cancelled \subseteq cancelled' /\ cancelled' \subseteq Objects \X (0..MaxRuns)
    BY <1>2, <2>1, TellType DEF StopEP
  <2>3. \A e \in EPs, r \in Runs : EPLives(e, r) => EPLives(e, r)'
    BY <1>2 DEF StopEP, EPLives
  <2>4. CASE NextEP(s)
    <3>1. TypeOK'
      BY <1>1, <1>2, <2>1, <2>2, <2>4, AtType
         DEF StopEP, NextEP, TypeOK, PlacesOK, Places
    <3>2. AtEndpoint'
      BY <1>2, <2>4 DEF StopEP, NextEP, Goto, TypeOK, AtEndpoint
    <3>3. EPsRun' /\ NodeRuns' /\ ConnectedHasThread'
      BY <1>2, <2>2, <2>3, <2>4, KeepThreads DEF StopEP, NextEP, Looping
    <3>4. QED
      BY <3>1, <3>2, <3>3
  <2>5. CASE Goto(s, "pushed") /\ UNCHANGED at
    <3>1. TypeOK'
      BY <1>1, <1>2, <2>2, <2>5 DEF StopEP, TypeOK, PlacesOK, Places
    <3>2. AtEndpoint'
      BY <1>2, <2>1, <2>5 DEF StopEP, Goto, TypeOK, AtEndpoint
    <3>3. EPsRun' /\ NodeRuns' /\ ConnectedHasThread'
      BY <1>2, <2>2, <2>3, <2>5, KeepThreads DEF StopEP, Looping
    <3>4. QED
      BY <3>1, <3>2, <3>3
  <2>6. QED
    BY <1>2, <2>4, <2>5 DEF StopEP
<1>3. CASE JoinEP(s)
  <2>1. at[s] \in EPs
    BY <1>3 DEF JoinEP, AtEndpoint
  <2>2. TypeOK'
    BY <1>1, <1>3, <2>1 DEF JoinEP, TypeOK, PlacesOK, Places
  <2>3. AtEndpoint'
    BY <1>3, <2>1 DEF JoinEP, Goto, TypeOK, AtEndpoint
  <2>4. EPsRun' /\ NodeRuns' /\ ConnectedHasThread'
    BY <1>3, KeepThreads DEF JoinEP, Looping, EPLives
  <2>5. QED
    BY <2>2, <2>3, <2>4
<1>4. CASE JoinedEP(s)
  <2>1. at[s] \in EPs
    BY <1>4 DEF JoinedEP, AtEndpoint
  <2>2. joins' \in [Stoppers -> 0..MaxRuns]
    BY <1>4, BoundAssumption DEF JoinedEP, TypeOK
  <2>3. /\ epThread' \in [EPs -> [Runs -> {"none", "created", "loop", "ended", "joined"}]]
        /\ \A e \in EPs, r \in Runs : EPLives(e, r) => EPLives(e, r)'
    BY <1>4, <2>1 DEF JoinedEP, TypeOK, EPLives
  <2>4. TypeOK'
    BY <1>1, <1>4, <2>1, <2>2, <2>3, AtType DEF JoinedEP, NextEP, TypeOK, PlacesOK, Places
  <2>5. AtEndpoint'
    BY <1>4 DEF JoinedEP, NextEP, Goto, TypeOK, AtEndpoint
  <2>6. EPsRun' /\ NodeRuns' /\ ConnectedHasThread'
    BY <1>4, <2>3, KeepThreads DEF JoinedEP, NextEP, Looping
  <2>7. QED
    BY <2>4, <2>5, <2>6
<1>5. CASE JoinEPAgain(s)
  <2>1. at[s] \in EPs
    BY <1>5 DEF JoinEPAgain, AtEndpoint
  <2>2. joins' \in [Stoppers -> 0..MaxRuns] /\ UNCHANGED <<bStop, bConnected, epThread, cancelled>>
    BY <1>5, BoundAssumption DEF JoinEPAgain, TypeOK
  <2>3. PICK p \in {"stop", "stuck"} : Goto(s, p) /\ (p = "stuck" => UNCHANGED at)
    BY <1>5 DEF JoinEPAgain, NextEP
  <2>4. at' \in [Stoppers -> 1..(NumEPs + 1)] /\ \A t \in Stoppers : t # s => at'[t] = at[t]
    BY <1>5, <2>1, AtType DEF JoinEPAgain, NextEP, TypeOK
  <2>5. TypeOK'
    BY <1>1, <1>5, <2>2, <2>3, <2>4 DEF JoinEPAgain, TypeOK, PlacesOK, Places
  <2>6. AtEndpoint'
    BY <2>3, <2>4 DEF Goto, TypeOK, AtEndpoint
  <2>7. EPsRun' /\ NodeRuns' /\ ConnectedHasThread'
    BY <1>5, <2>2, <2>3, KeepThreads DEF JoinEPAgain, Looping, EPLives
  <2>8. QED
    BY <2>5, <2>6, <2>7
<1>6. QED
  BY <1>2, <1>3, <1>4, <1>5 DEF StopStep

LEMMA NodeStepInv ==
    ASSUME Inv, NEW r \in Runs, NodeStep(r) \/ NodeDies(r)
    PROVE  Inv'
<1> USE Sets DEF Inv, failures
<1>1. ASSUME NEW p \in Places \ {"idle", "quit", "last"}, Goto(r, p)
      PROVE  place' \in [Stoppers -> Places] /\ PlacesOK'
  BY <1>1, GotoType DEF Places
<1>2. ASSUME NEW p \in Places \ {"pushed", "join"}, Goto(r, p),
             \A s \in Stoppers : s # r => at'[s] = at[s]
      PROVE  AtEndpoint'
  BY <1>2 DEF AtEndpoint, Goto, TypeOK
<1>3. CASE NodeBegin(r)
  <2>1. bStop' \in [Objects -> BOOLEAN] /\ bStop'[Node] = FALSE /\ \A e \in EPs : bStop'[e] = bStop[e]
    BY <1>3 DEF NodeBegin, TypeOK
  <2>2. TypeOK'
    BY <1>1, <1>3, <2>1 DEF NodeBegin, TypeOK, PlacesOK, Places
  <2>3. AtEndpoint'
    BY <1>2, <1>3 DEF NodeBegin, Places
  <2>4. Looping(r)' /\ NodeLives(r)'
    BY <1>3 DEF NodeBegin, Goto, TypeOK, Looping, NodeLives
  <2>5. EPsRun' /\ NodeRuns' /\ ConnectedHasThread'
    BY <1>3, <2>1, <2>4 DEF NodeBegin, EPsRun, EPLives, NodeRuns, ConnectedHasThread
  <2>6. QED
    BY <2>2, <2>3, <2>5
<1>4. CASE NodeTry(r) \/ NodeWait(r) \/ NodeConnected(r) \/ NodeLoop(r)
  <2>1. PICK p \in {"init", "poll", "loop"} : Goto(r, p)
    BY <1>4 DEF NodeTry, NodeWait, NodeConnected, NodeLoop
  <2>2. /\ UNCHANGED <<bStop, quits, xThread, bEnable, bConnected, epThread, joins, raced, failures>>
        /\ Rewind(r) \/ UNCHANGED at
    BY <1>4 DEF NodeTry, NodeWait, NodeConnected, NodeLoop
  <2>3. at' \in [Stoppers -> 1..(NumEPs + 1)]
    BY <2>2, AtType
  <2>4. TypeOK'
    BY <1>1, <2>1, <2>2, <2>3 DEF TypeOK, PlacesOK, Places
  <2>5. AtEndpoint'
    BY <1>2, <2>1, <2>2 DEF Places, Rewind, TypeOK
  <2>6. EPsRun' /\ NodeRuns' /\ ConnectedHasThread'
    BY <2>1, <2>2, KeepThreads DEF EPLives
  <2>7. QED
    BY <2>4, <2>5, <2>6
<1>5. CASE NodeConnect(r)
  <2>1. raced' \in BOOLEAN
    BY <1>5 DEF NodeConnect, TypeOK
  <2>2. TypeOK'
    BY <1>1, <1>5, <2>1 DEF NodeConnect, TypeOK, PlacesOK, Places
  <2>3. AtEndpoint'
    BY <1>2, <1>5 DEF NodeConnect, Places
  <2>4. \A q \in Runs : Looping(q) => Looping(q)'
    BY <1>5 DEF NodeConnect, Goto, TypeOK, Looping
  <2>5. NodeLives(r)'
    BY <1>5 DEF NodeConnect, Goto, TypeOK, NodeLives
  <2>6. EPsRun' /\ NodeRuns' /\ ConnectedHasThread'
    BY <1>5, <2>4, <2>5 DEF NodeConnect, EPsRun, EPLives, NodeRuns, ConnectedHasThread
  <2>7. QED
    BY <2>2, <2>3, <2>6
<1>6. CASE NodeStartEP(r)
  <2>1. at[r] \in EPs /\ bEnable[at[r]] \in BOOLEAN
    BY <1>6, BoundAssumption DEF NodeStartEP, TypeOK, EPs
  <2>2. /\ xThread' \in [Objects -> 0..MaxRuns]
        /\ epThread' \in [EPs -> [Runs -> {"none", "created", "loop", "ended", "joined"}]]
        /\ \A d \in EPs, q \in Runs : EPLives(d, q) => EPLives(d, q)'
    BY <1>6, <2>1, StartType DEF NodeStartEP
  <2>3. at' \in [Stoppers -> 1..(NumEPs + 1)]
    BY <1>6, <2>1, AtType DEF NodeStartEP
  <2>4. TypeOK'
    BY <1>6, <2>2, <2>3 DEF NodeStartEP, TypeOK
  <2>5. AtEndpoint'
    BY <1>6 DEF NodeStartEP, TypeOK, AtEndpoint
  <2>6. EPsRun' /\ NodeRuns' /\ ConnectedHasThread'
    BY <1>6, <2>2 DEF NodeStartEP, EPsRun, NodeRuns, Looping, ConnectedHasThread, NodeLives
  <2>7. QED
    BY <2>4, <2>5, <2>6
<1>7. CASE NodeQuit(r)
  <2>1. bStop' \in [Objects -> BOOLEAN] /\ bStop'[Node] = TRUE /\ \A e \in EPs : bStop'[e] = bStop[e]
    BY <1>7 DEF NodeQuit, TypeOK
  <2>2. quits' \in [Objects -> 0..MaxQuits]
    BY <1>7, BoundAssumption DEF NodeQuit, TypeOK
  <2>3. TypeOK'
    BY <1>7, <2>1, <2>2 DEF NodeQuit, TypeOK
  <2>4. EPsRun'
    BY <1>7, <2>1 DEF NodeQuit, EPsRun, EPLives
  <2>5. NodeRuns'
    BY <2>1 DEF NodeRuns
  <2>6. ConnectedHasThread' /\ AtEndpoint'
    BY <1>7 DEF NodeQuit, ConnectedHasThread, NodeLives, AtEndpoint
  <2>7. QED
    BY <2>3, <2>4, <2>5, <2>6
<1>8. CASE NodeLeave(r)
  <2>1. TypeOK'
    BY <1>1, <1>8 DEF NodeLeave, TypeOK, PlacesOK, Places
  <2>2. AtEndpoint'
    BY <1>2, <1>8 DEF NodeLeave, Places
  <2>3. NodeLives(r)'
    BY <1>8 DEF NodeLeave, Goto, TypeOK, NodeLives
  <2>4. EPsRun' /\ NodeRuns' /\ ConnectedHasThread'
    BY <1>8, <2>3 DEF NodeLeave, EPsRun, EPLives, NodeRuns, ConnectedHasThread
  <2>5. QED
    BY <2>1, <2>2, <2>4
<1>9. CASE NodeEnd(r)
  <2>1. at' \in [Stoppers -> 1..(NumEPs + 1)]
    BY <1>9, AtType DEF NodeEnd
  <2>2. TypeOK'
    BY <1>1, <1>9, <2>1 DEF NodeEnd, TypeOK, PlacesOK, Places
  <2>3. AtEndpoint'
    BY <1>2, <1>9 DEF NodeEnd, Places, Rewind, TypeOK
  <2>4. \A q \in Runs : Looping(q) => Looping(q)'
    BY <1>9 DEF NodeEnd, Goto, TypeOK, Looping
  <2>5. EPsRun' /\ NodeRuns' /\ ConnectedHasThread'
    BY <1>9, <2>4 DEF NodeEnd, EPsRun, EPLives, NodeRuns, ConnectedHasThread
  <2>6. QED
    BY <2>2, <2>3, <2>5
<1>10. CASE NodeDies(r)
  <2>1. at' \in [Stoppers -> 1..(NumEPs + 1)] /\ joins' \in [Stoppers -> 0..MaxRuns]
    BY <1>10, AtType, BoundAssumption DEF NodeDies, TypeOK
  <2>2. TypeOK'
    BY <1>1, <1>10, <2>1 DEF NodeDies, TypeOK, PlacesOK, Places
  <2>3. AtEndpoint'
    BY <1>2, <1>10 DEF NodeDies, Places, Rewind, TypeOK
  <2>4. /\ \A q \in Runs : q # r => place'[q] = place[q]
        /\ UNCHANGED <<bStop, bConnected, epThread, cancelled>> /\ <<Node, r>> \in cancelled
    BY <1>10 DEF NodeDies, Goto, TypeOK
  <2>5. EPsRun' /\ NodeRuns' /\ ConnectedHasThread'
    BY <2>4 DEF EPsRun, EPLives, NodeRuns, Looping, ConnectedHasThread, NodeLives
  <2>6. QED
    BY <2>2, <2>3, <2>5
<1>11. QED
  BY <1>3, <1>4, <1>5, <1>6, <1>7, <1>8, <1>9, <1>10 DEF NodeStep

LEMMA CommandInv ==
    ASSUME Inv, NEW c \in Commanders, StartNode(c) \/ StopNode(c) \/ CommandStep(c)
    PROVE  Inv'
<1> USE Sets DEF Inv, failures
<1>1. ASSUME NEW p \in {"idle", "stop", "quit", "last", "stuck"}, Goto(c, p)
      PROVE  /\ place' \in [Stoppers -> Places] /\ PlacesOK'
             /\ \A s \in Stoppers : place'[s] \in {"pushed", "join"} => s # c /\ place'[s] = place[s]
             /\ \A r \in Runs : place'[r] = place[r]
  <2>1. place' \in [Stoppers -> Places] /\ PlacesOK'
    BY <1>1, GotoType DEF Places
  <2>2. QED
    BY <1>1, <2>1 DEF Goto, TypeOK
<1>2. CASE StartNode(c)
  <2>1. PICK r \in Runs : /\ IsNext(r, {q \in Runs : place[q] # "none"})
                          /\ xThread' = [xThread EXCEPT ![Node] = r]
                          /\ Goto(r, "created")
    BY <1>2 DEF StartNode
  <2>2. place[r] = "none" /\ xThread' \in [Objects -> 0..MaxRuns]
    BY <2>1 DEF IsNext, TypeOK
  <2>3. place' \in [Stoppers -> Places] /\ PlacesOK'
    BY <2>1, GotoType DEF Places
  <2>4. TypeOK'
    BY <1>2, <2>2, <2>3 DEF StartNode, TypeOK, PlacesOK, Places
  <2>5. AtEndpoint'
    BY <1>2, <2>1 DEF StartNode, Goto, TypeOK, AtEndpoint
  <2>6. \A q \in Runs : (Looping(q) => Looping(q)') /\ (NodeLives(q) => NodeLives(q)')
    BY <2>1, <2>2 DEF Goto, TypeOK, Looping, NodeLives
  <2>7. EPsRun' /\ NodeRuns' /\ ConnectedHasThread'
    BY <1>2, <2>6 DEF StartNode, EPsRun, EPLives, NodeRuns, ConnectedHasThread
  <2>8. QED
    BY <2>4, <2>5, <2>7
<1>3. CASE StopNode(c)
  <2>1. TypeOK'
    BY <1>1, <1>3 DEF StopNode, TypeOK, PlacesOK, Places
  <2>2. AtEndpoint' /\ EPsRun' /\ NodeRuns' /\ ConnectedHasThread'
    BY <1>1, <1>3 DEF StopNode, AtEndpoint, EPsRun, EPLives, NodeRuns, Looping,
                      ConnectedHasThread, NodeLives
  <2>3. QED
    BY <2>1, <2>2
<1>4. CASE QuitNode(c)
  <2>1. /\ quits' \in [Objects -> 0..MaxQuits] /\ at' \in [Stoppers -> 1..(NumEPs + 1)]
        /\ cancelled \subseteq cancelled' /\ cancelled' \subseteq Objects \X (0..MaxRuns)
    <3>1. /\ PushQuit(Node) \/ UNCHANGED quits
          /\ Cancel(Node) \/ UNCHANGED cancelled
      BY <1>4 DEF QuitNode
    <3>2. QED
      BY <1>4, <3>1, QuitType, CancelType, AtType DEF QuitNode
  <2>2. TypeOK'
    BY <1>1, <1>4, <2>1 DEF QuitNode, TypeOK, PlacesOK, Places
  <2>3. AtEndpoint'
    BY <1>1, <1>4 DEF QuitNode, Rewind, TypeOK, AtEndpoint
  <2>4. EPsRun' /\ NodeRuns' /\ ConnectedHasThread'
    BY <1>1, <1>4, <2>1 DEF QuitNode, EPsRun, EPLives, NodeRuns, Looping, ConnectedHasThread, NodeLives
  <2>5. QED
    BY <2>2, <2>3, <2>4
<1>5. CASE JoinNode(c)
  <2>1. TypeOK'
    BY <1>1, <1>5 DEF JoinNode, TypeOK, PlacesOK, Places
  <2>2. AtEndpoint' /\ EPsRun' /\ NodeRuns' /\ ConnectedHasThread'
    BY <1>1, <1>5 DEF JoinNode, AtEndpoint, EPsRun, EPLives, NodeRuns, Looping,
                      ConnectedHasThread, NodeLives
  <2>3. QED
    BY <2>1, <2>2
<1>6. CASE NodeStopped(c)
  <2>1. joins' \in [Stoppers -> 0..MaxRuns] /\ xThread' \in [Objects -> 0..MaxRuns]
    BY <1>6, BoundAssumption DEF NodeStopped, TypeOK
  <2>2. TypeOK'
    BY <1>1, <1>6, <2>1 DEF NodeStopped, TypeOK, PlacesOK, Places
  <2>3. AtEndpoint' /\ EPsRun' /\ NodeRuns' /\ ConnectedHasThread'
    BY <1>1, <1>6 DEF NodeStopped, AtEndpoint, EPsRun, EPLives, NodeRuns, Looping,
                      ConnectedHasThread, NodeLives
  <2>4. QED
    BY <2>2, <2>3
<1>7. CASE JoinNone(c)
  <2>1. xThread' \in [Objects -> 0..MaxRuns]
    BY <1>7, BoundAssumption DEF JoinNone, TypeOK
  <2>2. TypeOK'
    BY <1>1, <1>7, <2>1 DEF JoinNone, TypeOK, PlacesOK, Places
  <2>3. AtEndpoint' /\ EPsRun' /\ NodeRuns' /\ ConnectedHasThread'
    BY <1>1, <1>7 DEF JoinNone, AtEndpoint, EPsRun, EPLives, NodeRuns, Looping,
                      ConnectedHasThread, NodeLives
  <2>4. QED
    BY <2>2, <2>3
<1>8. QED
  BY <1>2, <1>3, <1>4, <1>5, <1>6, <1>7 DEF CommandStep

LEMMA EPCommandInv ==
    ASSUME Inv, NEW c \in Commanders, NEW e \in EPs,
           Enable(c, e) \/ Disable(c, e) \/ EPStart(c, e) \/ EPStop(c, e)
    PROVE  Inv'
<1> USE Sets DEF Inv, failures
<1>1. UNCHANGED <<bStop, bConnected, place, at, joins, raced, unsent>>
  BY DEF Enable, Disable, EPStart, EPStop
<1>2. bEnable' \in [EPs -> BOOLEAN]
  BY DEF Enable, Disable, EPStart, EPStop, TypeOK
<1>3. /\ quits' \in [Objects -> 0..MaxQuits]
      /\ cancelled \subseteq cancelled' /\ cancelled' \subseteq Objects \X (0..MaxRuns)
      /\ xThread' \in [Objects -> 0..MaxRuns]
      /\ epThread' \in [EPs -> [Runs -> {"none", "created", "loop", "ended", "joined"}]]
      /\ \A d \in EPs, r \in Runs : EPLives(d, r) => EPLives(d, r)'
  <2>1. CASE Enable(c, e) \/ EPStart(c, e)
    <3>1. UNCHANGED <<quits, cancelled>> /\ bEnable[e] \in BOOLEAN /\ \E b \in BOOLEAN : StartEP(e, b)
      BY <2>1 DEF Enable, EPStart, TypeOK
    <3>2. QED
      BY <3>1, StartType DEF TypeOK
  <2>2. CASE Disable(c, e) \/ EPStop(c, e)
    <3>1. UNCHANGED <<xThread, epThread>> /\ (TellEP(e) \/ UNCHANGED <<quits, cancelled>>)
      BY <2>2 DEF Disable, EPStop
    <3>2. QED
      BY <3>1, TellType DEF TypeOK, EPLives
  <2>3. QED
    BY <2>1, <2>2
<1>4. TypeOK'
  BY <1>1, <1>2, <1>3 DEF TypeOK
<1>5. AtEndpoint' /\ EPsRun' /\ NodeRuns' /\ ConnectedHasThread'
  BY <1>1, <1>3 DEF AtEndpoint, EPsRun, NodeRuns, Looping, ConnectedHasThread, NodeLives
<1>6. QED
  BY <1>4, <1>5

LEMMA NextInv == Inv /\ [Next]_vars => Inv'
<1> SUFFICES ASSUME Inv, [Next]_vars PROVE Inv'
  OBVIOUS
<1>1. CASE Next
  BY <1>1, Sets, EPStepInv, StopStepInv, NodeStepInv, CommandInv, EPCommandInv DEF Next
<1>2. CASE UNCHANGED vars
  BY <1>2 DEF vars, failures, Inv, TypeOK, AtEndpoint, EPsRun, EPLives, NodeRuns, Looping,
              ConnectedHasThread, NodeLives
<1>3. QED
  BY <1>1, <1>2

LEMMA Invariant == Spec => []Inv
  BY InitInv, NextInv, PTL DEF Spec

-------------------------------------------------------------------------------
\* Every flag, queue, thread and place keeps its kind, whoever gives commands.
THEOREM TypeCorrect == Spec => []TypeOK
<1>1. Inv => TypeOK
  BY DEF Inv
<1>2. QED
  BY <1>1, Invariant, PTL

\* An object that says it runs (FTOM_EP_stop and FTOM_NODE_stop then join it)
\* has a thread that is still to take a QUIT, whichever QUITs could not be made or
\* queued: without one the object keeps saying so only after pthread_cancel.
THEOREM StopsAreHeard == Spec => []RunningHasThread
<1>1. Inv => RunningHasThread
  BY DEF Inv, EPsRun, NodeRuns, Looping, RunningHasThread, NodeLives
<1>2. QED
  BY <1>1, Invariant, PTL

\* FTOM_NODE_connect is undone unless a thread of the node was cancelled: a node
\* whose threads have ended is not connected, and the next one will connect it again.
THEOREM NeverLeftConnected == Spec => []ConnectedHasThread
<1>1. Inv => ConnectedHasThread
  BY DEF Inv
<1>2. QED
  BY <1>1, Invariant, PTL

-------------------------------------------------------------------------------
(* One command at a time.                                                     *)

\* An endpoint without a thread, and one whose thread, if any, is in its loop and
\* has not been told to stop.
Gone(e)   == \A r \in Runs : epThread[e][r] \in {"none", "ended", "joined"}
AtRest(e) ==
    \/ Gone(e)
    \/ /\ quits[e] = 0
       /\ \A r \in Runs : epThread[e][r] # "created" /\ (EPLives(e, r) => ~bStop[e])

NodeGone == \A r \in Runs : place[r] \in {"none", "ended"}

\* The places where a thread stops the endpoints.
StoppingPlaces == {"stop", "pushed", "join", "stuck"}

\* An object has no thread but the last; a QUIT is there for one that runs, unless it
\* was cancelled, and then the object is not started again; and a thread that has
\* not begun finds the object stopped.
EPSound ==
    \A e \in EPs :
        /\ \A r \in Runs : epThread[e][r] \notin {"none", "ended", "joined"} => r = xThread[e]
        /\ quits[e] > 0 => ~bStop[e] /\ (quits[e] = 1 \/ Gone(e))
        /\ \A r \in Runs : epThread[e][r] = "created" => bStop[e]
NodeSound ==
    /\ \A r \in Runs : place[r] \notin {"none", "ended"} => r = xThread[Node]
    /\ quits[Node] > 0 => ~bStop[Node] /\ (quits[Node] = 1 \/ NodeGone)
    /\ \A r \in Runs : place[r] \in {"created"} \cup StoppingPlaces => bStop[Node]

\* The two halves of a stop of the node: its endpoints, and the node itself.
Stopping(c) == place[c] \in {"stop", "pushed", "join"}
Ending(c)   == place[c] \in {"quit", "last"}

OneCommand ==
    \A c, d \in Commanders : place[c] # "idle" /\ place[d] # "idle" => c = d

\* The node is told to stop, and stops, in the second half only.
Told ==
    /\ quits[Node] > 0 => NodeGone \/ \E c \in Commanders : Ending(c)
    /\ \A r \in Runs : NodeLives(r) /\ bStop[Node] => \E c \in Commanders : Ending(c)

\* A stop has the endpoints behind it without a thread, those before it as it found
\* them, and keeps the node from starting any.
Commanding ==
    \A c \in Commanders :
        /\ place[c] # "idle" => \A r \in Runs : place[r] \notin {"created", "connect"}
        /\ ~Stopping(c) /\ place[c] # "stuck" => at[c] = 1
        /\ Stopping(c) =>
             /\ ~bStop[Node]
             /\ \A e \in EPs :
                  /\ e < at[c] => Gone(e)
                  /\ e > at[c] \/ (e = at[c] /\ place[c] = "stop") => AtRest(e)
        /\ place[c] = "join" => joins[c] = xThread[at[c]]
        /\ Ending(c) => \A e \in EPs : Gone(e)
        /\ place[c] = "last" => joins[c] = xThread[Node]

\* A node that starts its endpoints has the ones it has not come to as they were.
Connecting ==
    \A r \in Runs : place[r] = "connect" => \A e \in EPs : e >= at[r] => AtRest(e)

Disciplined ==
    EPSound /\ NodeSound /\ OneCommand /\ Told /\ Commanding /\ Connecting

LEMMA EndpointOrder ==
    \A d \in EPs, n \in Int :
        /\ d < n + 1 => (d < n \/ d = n)
        /\ d >= n + 1 => d > n
        /\ (d > n \/ d = n) => d >= n
        /\ d > n => d # n
  BY DEF EPs

\* Threads only go.
LEMMA GoneStays ==
    ASSUME TypeOK, NEW e \in EPs, NEW q \in Runs, NEW v \in {"ended", "joined"},
           epThread' = [epThread EXCEPT ![e][q] = v] \/ UNCHANGED epThread
    PROVE  \A d \in EPs : Gone(d) => Gone(d)'
  BY DEF TypeOK, Gone

\* What a step of an endpoint's thread means to those who wait for endpoints.
LEMMA EPStepFrame ==
    ASSUME Inv, NEW e \in EPs, NEW r \in Runs, EPStep(e, r) \/ EPDies(e, r)
    PROVE  /\ UNCHANGED <<xThread, place, at, joins, raced>>
           /\ bStop'[Node] = bStop[Node] /\ quits'[Node] = quits[Node]
           /\ \A d \in EPs : (AtRest(d) => AtRest(d)') /\ (Gone(d) => Gone(d)')
<1> USE Sets DEF Inv, TypeOK, AtRest, Gone, EPLives
<1>1. CASE EPBegin(e, r)
  BY <1>1 DEF EPBegin
<1>2. CASE EPQuit(e, r)
  <2>1. quits[e] # 0 /\ \A d \in Objects : d # e => quits'[d] = quits[d] /\ bStop'[d] = bStop[d]
    BY <1>2 DEF EPQuit
  <2>2. UNCHANGED <<xThread, place, at, joins, raced, epThread>> /\ Node # e
    BY <1>2 DEF EPQuit
  <2>3. QED
    BY <2>1, <2>2
<1>3. CASE EPEnd(e, r)
  BY <1>3 DEF EPEnd
<1>4. CASE EPDies(e, r)
  BY <1>4 DEF EPDies
<1>5. QED
  BY <1>1, <1>2, <1>3, <1>4 DEF EPStep

\* Nothing but the endpoints' threads has moved, and those only towards rest.
LEMMA EndpointsOnly ==
    ASSUME Disciplined, UNCHANGED <<xThread, place, at, joins>>,
           bStop'[Node] = bStop[Node], quits'[Node] = quits[Node],
           \A d \in EPs : (AtRest(d) => AtRest(d)') /\ (Gone(d) => Gone(d)')
    PROVE  NodeSound' /\ OneCommand' /\ Told' /\ Commanding' /\ Connecting'
<1>1. NodeSound' /\ OneCommand'
  BY DEF Disciplined, NodeSound, OneCommand, NodeGone
<1>2. Told'
  BY DEF Disciplined, Told, Ending, NodeLives, NodeGone
<1>3. Commanding'
  BY DEF Disciplined, Commanding, Stopping, Ending
<1>4. Connecting'
  BY DEF Disciplined, Connecting
<1>5. QED
  BY <1>1, <1>2, <1>3, <1>4

LEMMA EPStepDisciplined ==
    ASSUME Inv, Disciplined, NEW e \in EPs, NEW r \in Runs, EPStep(e, r) \/ EPDies(e, r)
    PROVE  Disciplined'
<1>1. NodeSound' /\ OneCommand' /\ Told' /\ Commanding' /\ Connecting'
  BY EPStepFrame, EndpointsOnly
<1>2. \A d \in EPs : Gone(d) => Gone(d)'
  BY EPStepFrame
<1>3. EPSound'
  <2> USE Sets DEF Inv, TypeOK, EPSound, Disciplined
  <2>1. CASE EPBegin(e, r)
    <3>1. /\ bStop[e] /\ \A d \in Objects : d # e => bStop'[d] = bStop[d]
          /\ UNCHANGED <<quits, xThread>>
          /\ epThread' = [epThread EXCEPT ![e][r] = "loop"] /\ epThread[e][r] = "created"
      BY <2>1 DEF EPBegin
    <3>2. ~(quits[e] > 0)
      BY <3>1
    <3>3. \A q \in Runs : epThread[e][q] = "created" => q = r
      BY <3>1
    <3>4. QED
      BY <1>2, <3>1, <3>2, <3>3
  <2>2. CASE EPQuit(e, r)
    <3>1. ~Gone(e)
      BY <2>2 DEF EPQuit, EPLives, Gone
    <3>2. quits[e] = 1 /\ quits'[e] = 0 /\ \A d \in EPs : d # e => quits'[d] = quits[d]
      BY <2>2, <3>1 DEF EPQuit
    <3>3. QED
      BY <1>2, <2>2, <3>2 DEF EPQuit
  <2>3. CASE EPEnd(e, r)
    BY <1>2, <2>3 DEF EPEnd
  <2>4. CASE EPDies(e, r)
    BY <1>2, <2>4 DEF EPDies
  <2>5. QED
    BY <2>1, <2>2, <2>3, <2>4 DEF EPStep
<1>4. QED
  BY <1>1, <1>3 DEF Disciplined

\* A step of the node's thread that moves it, and does no more to the endpoints than
\* one of theirs.
LEMMA NodeMoves ==
    ASSUME Inv, Disciplined, NEW r \in Runs,
           NEW p \in {"loop", "init", "poll", "stop", "pushed", "join", "stuck", "ended"}, Goto(r, p),
           place[r] \notin {"none", "ended"}, NodeLives(r) \/ p = "ended",
           p \in StoppingPlaces => bStop[Node],
           UNCHANGED <<bStop, xThread>>, quits'[Node] = quits[Node], EPSound',
           \A d \in EPs : (AtRest(d) => AtRest(d)') /\ (Gone(d) => Gone(d)'),
           \A s \in Stoppers : s # r => at'[s] = at[s] /\ joins'[s] = joins[s]
    PROVE  Disciplined'
<1>1. /\ place'[r] = p /\ \A s \in Stoppers : s # r => place'[s] = place[s]
      /\ \A c \in Commanders : c # r /\ c \in Stoppers
      /\ \A q \in Runs : q \in Stoppers
  BY Sets DEF Inv, TypeOK, Goto
<1>2. NodeGone => NodeGone'
  BY DEF NodeGone
<1>3. NodeSound' /\ OneCommand'
  <2>1. NodeSound'
    BY <1>1, <1>2 DEF Disciplined, NodeSound, StoppingPlaces
  <2>2. OneCommand'
    BY <1>1 DEF Disciplined, OneCommand
  <2>3. QED
    BY <2>1, <2>2
<1>4. Told'
  <2>1. NodeLives(r)' => NodeLives(r)
    BY <1>1 DEF NodeLives
  <2>2. QED
    BY <1>1, <1>2, <2>1 DEF Disciplined, Told, Ending, NodeLives
<1>5. Commanding'
  BY <1>1 DEF Disciplined, Commanding, Stopping, Ending
<1>6. Connecting'
  BY <1>1 DEF Disciplined, Connecting
<1>7. QED
  BY <1>3, <1>4, <1>5, <1>6 DEF Disciplined

\* A start of an endpoint that has no thread, or none that has been told to stop.
LEMMA StartSound ==
    ASSUME Inv, Disciplined, NEW e \in EPs, NEW b \in BOOLEAN, StartEP(e, b), AtRest(e),
           UNCHANGED <<bStop, quits>>
    PROVE  /\ EPSound' /\ xThread'[Node] = xThread[Node]
           /\ \A d \in EPs : d # e => (AtRest(d) => AtRest(d)') /\ xThread'[d] = xThread[d]
<1> USE Sets DEF Inv, TypeOK
<1>1. CASE UNCHANGED <<xThread, epThread>>
  BY <1>1 DEF Disciplined, EPSound, AtRest, EPLives, Gone
<1>2. CASE bStop[e] /\ \E r \in Runs :
              /\ IsNext(r, {q \in Runs : epThread[e][q] # "none"})
              /\ xThread' = [xThread EXCEPT ![e] = r]
              /\ epThread' = [epThread EXCEPT ![e][r] = "created"]
  <2>1. PICK r \in Runs : /\ xThread' = [xThread EXCEPT ![e] = r]
                          /\ epThread' = [epThread EXCEPT ![e][r] = "created"]
    BY <1>2
  <2>2. Gone(e) /\ ~(quits[e] > 0)
    BY <1>2 DEF AtRest, EPLives, Gone, Disciplined, EPSound
  <2>3. \A d \in EPs : d # e => epThread'[d] = epThread[d] /\ xThread'[d] = xThread[d]
    BY <2>1
  <2>4. EPSound'
    BY <1>2, <2>1, <2>2, <2>3 DEF Disciplined, EPSound, Gone
  <2>5. QED
    BY <2>1, <2>3, <2>4 DEF AtRest, EPLives, Gone
<1>3. QED
  BY <1>1, <1>2 DEF StartEP

\* What holds when a command may be given.
LEMMA SettledMeans ==
    ASSUME Inv, Disciplined, Settled
    PROVE  /\ \A c \in Commanders : place[c] = "idle" /\ ~Stopping(c) /\ ~Ending(c)
           /\ \A e \in EPs : AtRest(e)
           /\ \A r \in Runs : /\ place[r] \notin {"created", "connect"}
                              /\ NodeLives(r) => ~bStop[Node]
           /\ bStop[Node] => NodeGone
           /\ quits[Node] > 0 => NodeGone /\ ~bStop[Node]
<1>1. /\ \A c \in Commanders : place[c] = "idle"
      /\ \A r \in Runs : /\ place[r] \notin {"created", "connect"}
                         /\ NodeLives(r) => ~bStop[Node]
  BY DEF Settled
<1>2. bStop[Node] => NodeGone
  BY <1>1 DEF NodeLives, NodeGone
<1>3. quits[Node] > 0 => NodeGone /\ ~bStop[Node]
  BY <1>1 DEF Disciplined, NodeSound, Told, Ending
<1>4. \A e \in EPs : AtRest(e)
  <2> SUFFICES ASSUME NEW e \in EPs, NEW r \in Runs,
                      epThread[e][r] \notin {"none", "ended", "joined"}
               PROVE  /\ quits[e] = 0
                      /\ \A q \in Runs : epThread[e][q] # "created" /\ (EPLives(e, q) => ~bStop[e])
    BY DEF AtRest, Gone
  <2>1. epThread[e][r] \in {"none", "created", "loop", "ended", "joined"}
    BY DEF Inv, TypeOK
  <2>2. EPLives(e, r)
    BY <2>1 DEF Settled, EPLives
  <2>3. QED
    BY <2>2 DEF Settled
<1>5. QED
  BY <1>1, <1>2, <1>3, <1>4 DEF Stopping, Ending

LEMMA NodeStepDisciplined ==
    ASSUME Inv, Disciplined, NEW r \in Runs, NodeStep(r) \/ NodeDies(r),
           NodeConnect(r) => Settled
    PROVE  Disciplined'
<1> USE Sets DEF Inv
<1>0. \A s \in Stoppers : s \in Commanders => s # r
  OBVIOUS
<1>1. CASE NodeTry(r) \/ NodeWait(r) \/ NodeConnected(r) \/ NodeLoop(r) \/ NodeLeave(r) \/ NodeEnd(r)
         \/ NodeDies(r)
  <2>1. PICK p \in {"loop", "init", "poll", "stop", "ended"} :
          Goto(r, p) /\ (p = "stop" => bStop[Node])
    BY <1>1 DEF NodeTry, NodeWait, NodeConnected, NodeLoop, NodeLeave, NodeEnd, NodeDies
  <2>2. place[r] \notin {"none", "ended"} /\ (NodeLives(r) \/ p = "ended")
    <3>1. CASE NodeDies(r)
      BY <2>1, <3>1 DEF NodeDies, Goto, TypeOK
    <3>2. CASE ~NodeDies(r)
      BY <1>1, <3>2 DEF NodeTry, NodeWait, NodeConnected, NodeLoop, NodeLeave, NodeEnd, NodeLives
    <3>3. QED
      BY <3>1, <3>2
  <2>3. /\ UNCHANGED <<bStop, quits, xThread, epThread>>
        /\ \A s \in Stoppers : s # r => at'[s] = at[s] /\ joins'[s] = joins[s]
    BY <1>1 DEF NodeTry, NodeWait, NodeConnected, NodeLoop, NodeLeave, NodeEnd, NodeDies,
                Rewind, TypeOK
  <2>4. EPSound' /\ \A d \in EPs : (AtRest(d) => AtRest(d)') /\ (Gone(d) => Gone(d)')
    BY <2>3 DEF Disciplined, EPSound, AtRest, Gone, EPLives
  <2>5. QED
    BY <2>1, <2>2, <2>3, <2>4, NodeMoves DEF StoppingPlaces
<1>2. CASE NodeBegin(r)
  <2>1. /\ bStop'[Node] = FALSE /\ \A e \in EPs : bStop'[e] = bStop[e]
        /\ place'[r] = "loop" /\ \A s \in Stoppers : s # r => place'[s] = place[s]
        /\ bStop[Node] /\ \A c \in Commanders : place[c] = "idle"
    BY <1>2 DEF NodeBegin, Goto, TypeOK, Disciplined, NodeSound, Commanding
  <2>2. /\ \A c \in Commanders : ~Ending(c) /\ place'[c] = "idle"
        /\ \A q \in Runs : q # r => place[q] \in {"none", "ended"}
        /\ \A q \in Runs : q # r => place'[q] \in {"none", "ended"}
    BY <1>2, <2>1 DEF NodeBegin, Disciplined, NodeSound, Ending
  <2>3. ~(quits[Node] > 0) /\ quits' = quits
    BY <1>2, <2>1 DEF NodeBegin, Disciplined, NodeSound
  <2>4. EPSound' /\ NodeSound' /\ OneCommand'
    BY <1>2, <2>1, <2>2, <2>3 DEF NodeBegin, Disciplined, EPSound, Gone, NodeSound, StoppingPlaces,
                                  OneCommand
  <2>5. Told' /\ Connecting'
    BY <2>1, <2>2, <2>3 DEF Told, Connecting
  <2>6. Commanding'
    BY <1>2, <2>1, <2>2 DEF NodeBegin, Disciplined, Commanding, Stopping, Ending
  <2>7. QED
    BY <2>4, <2>5, <2>6 DEF Disciplined
<1>3. CASE NodeConnect(r)
  <2>1. /\ UNCHANGED <<bStop, quits, xThread, epThread, at, joins>>
        /\ place[r] = "init" /\ place'[r] = "connect"
        /\ \A s \in Stoppers : s # r => place'[s] = place[s]
    BY <1>3 DEF NodeConnect, Goto, TypeOK
  <2>2. /\ \A c \in Commanders : place[c] = "idle" /\ place'[c] = "idle"
        /\ \A e \in EPs : AtRest(e)'
    BY <1>3, <2>1, SettledMeans DEF AtRest, EPLives, Gone
  <2>3. EPSound' /\ NodeSound' /\ OneCommand'
    <3>1. EPSound'
      BY <2>1 DEF Disciplined, EPSound, Gone
    <3>2. ~NodeGone
      BY <2>1 DEF NodeGone
    <3>3. NodeSound'
      BY <2>1, <3>2 DEF Disciplined, NodeSound, StoppingPlaces
    <3>4. OneCommand'
      BY <2>2 DEF OneCommand
    <3>5. QED
      BY <3>1, <3>3, <3>4
  <2>4. Told'
    BY <2>1, <2>2 DEF Disciplined, Told, Ending, NodeLives, NodeGone
  <2>5. Commanding'
    BY <2>1, <2>2 DEF Disciplined, Commanding, Stopping, Ending
  <2>6. Connecting'
    BY <2>2 DEF Connecting
  <2>7. QED
    BY <2>3, <2>4, <2>5, <2>6 DEF Disciplined
<1>4. CASE NodeStartEP(r)
  <2> DEFINE e == at[r]
  <2>1. /\ e \in EPs /\ AtRest(e) /\ bEnable[e] \in BOOLEAN
        /\ UNCHANGED <<bStop, quits, place, joins>>
        /\ place[r] = "connect" /\ StartEP(e, bEnable[e])
        /\ at'[r] = e + 1 /\ \A s \in Stoppers : s # r => at'[s] = at[s]
    BY <1>4, BoundAssumption DEF NodeStartEP, TypeOK, EPs, Disciplined, Connecting
  <2>2. \A c \in Commanders : place[c] = "idle"
    BY <2>1 DEF Disciplined, Commanding
  <2> HIDE DEF e
  <2>3. EPSound' /\ xThread'[Node] = xThread[Node]
        /\ \A d \in EPs : d # e => (AtRest(d) => AtRest(d)') /\ xThread'[d] = xThread[d]
    BY <2>1, StartSound
  <2>4. NodeSound' /\ OneCommand' /\ Told'
    BY <2>1, <2>3 DEF Disciplined, NodeSound, NodeGone, OneCommand, Told, Ending, NodeLives
  <2>5. Commanding'
    BY <2>1, <2>2 DEF Disciplined, Commanding, Stopping, Ending
  <2>6. Connecting'
    <3>1. \A q \in Runs : place[q] = "connect" => q = r
      BY <2>1 DEF Disciplined, NodeSound
    <3>2. \A d \in EPs : d >= e + 1 => d # e /\ d >= e
      BY <2>1
    <3>3. QED
      BY <2>1, <2>3, <3>1, <3>2 DEF Disciplined, Connecting, e
  <2>7. QED
    BY <2>3, <2>4, <2>5, <2>6 DEF Disciplined
<1>5. CASE NodeQuit(r)
  <2>1. /\ quits[Node] = 1 /\ quits'[Node] = 0 /\ \A e \in EPs : quits'[e] = quits[e]
        /\ bStop'[Node] = TRUE /\ \A e \in EPs : bStop'[e] = bStop[e]
        /\ UNCHANGED <<xThread, epThread, place, at, joins>>
    <3>1. quits[Node] = 1 /\ quits' = [quits EXCEPT ![Node] = @ - 1]
      BY <1>5 DEF NodeQuit, Disciplined, NodeSound, NodeGone
    <3>2. bStop' = [bStop EXCEPT ![Node] = TRUE]
          /\ UNCHANGED <<xThread, epThread, place, at, joins>>
      BY <1>5 DEF NodeQuit
    <3>3. \A e \in EPs : e \in Objects /\ e # Node
      BY Sets
    <3>4. quits \in [Objects -> 0..MaxQuits] /\ bStop \in [Objects -> BOOLEAN] /\ Node \in Objects
      BY Sets DEF TypeOK
    <3>5. quits'[Node] = 0 /\ \A e \in EPs : quits'[e] = quits[e]
      BY <3>1, <3>3, <3>4
    <3>6. bStop'[Node] = TRUE /\ \A e \in EPs : bStop'[e] = bStop[e]
      BY <3>2, <3>3, <3>4
    <3>7. QED
      BY <3>1, <3>2, <3>5, <3>6
  <2>2. PICK c \in Commanders : Ending(c)
    BY <1>5, <2>1 DEF NodeQuit, Disciplined, Told, NodeGone
  <2>3. \A d \in Commanders : ~Stopping(d)
    BY <2>2 DEF Disciplined, OneCommand, Ending, Stopping
  <2>4. EPSound' /\ NodeSound' /\ OneCommand'
    BY <2>1 DEF Disciplined, EPSound, Gone, NodeSound, OneCommand
  <2>5. Told'
    BY <2>1, <2>2 DEF Told, Ending
  <2>6. Commanding'
    BY <2>1, <2>3 DEF Disciplined, Commanding, Stopping, Ending, Gone
  <2>7. Connecting'
    BY <2>1, <2>2 DEF Disciplined, Commanding, Ending, Connecting
  <2>8. QED
    BY <2>4, <2>5, <2>6, <2>7 DEF Disciplined
<1>6. QED
  BY <1>1, <1>2, <1>3, <1>4, <1>5 DEF NodeStep

\* What a step of a stop does to the endpoints: no more than their threads do, and a
\* QUIT goes to one that says it runs.
LEMMA StopStepFrame ==
    ASSUME Inv, Disciplined, NEW s \in Stoppers, StopStep(s)
    PROVE  /\ UNCHANGED <<bStop, xThread>> /\ quits'[Node] = quits[Node]
           /\ EPSound' \/ StopEP(s)
           /\ \A d \in EPs : Gone(d) => Gone(d)'
           /\ \A d \in EPs : d # at[s] \/ UNCHANGED quits => (AtRest(d) => AtRest(d)')
           /\ \A t \in Stoppers : t # s => at'[t] = at[t] /\ joins'[t] = joins[t]
<1> USE Sets DEF Inv
<1>1. CASE StopEP(s)
  <2>1. at[s] \in EPs
    BY <1>1, BoundAssumption DEF StopEP, TypeOK, EPs
  <2>2. \A d \in Objects : d # at[s] \/ UNCHANGED quits => quits'[d] = quits[d]
    BY <1>1, <2>1 DEF StopEP, TellEP, PushQuit, TypeOK
  <2>3. UNCHANGED <<bStop, xThread, epThread, joins>>
        /\ \A t \in Stoppers : t # s => at'[t] = at[t]
    BY <1>1 DEF StopEP, NextEP, TypeOK
  <2>4. Node # at[s] /\ \A d \in EPs : d \in Objects
    BY <2>1
  <2>5. QED
    BY <1>1, <2>2, <2>3, <2>4 DEF AtRest, Gone, EPLives
<1>2. CASE JoinedEP(s)
  <2>1. at[s] \in EPs
    BY <1>2 DEF JoinedEP, AtEndpoint
  <2>2. /\ UNCHANGED <<bStop, quits, xThread>>
        /\ \A t \in Stoppers : t # s => at'[t] = at[t] /\ joins'[t] = joins[t]
    BY <1>2 DEF JoinedEP, NextEP, TypeOK
  <2>3. \A d \in EPs, r \in Runs :
          epThread'[d][r] = epThread[d][r] \/ (epThread[d][r] = "ended" /\ epThread'[d][r] = "joined")
    BY <1>2, <2>1 DEF JoinedEP, TypeOK
  <2>4. \A d \in EPs : (Gone(d) => Gone(d)') /\ (AtRest(d) => AtRest(d)')
    BY <2>2, <2>3 DEF AtRest, Gone, EPLives
  <2>5. EPSound'
    BY <2>2, <2>3, <2>4 DEF Disciplined, EPSound
  <2>6. QED
    BY <2>2, <2>4, <2>5
<1>3. CASE JoinEP(s) \/ JoinEPAgain(s)
  <2>1. /\ UNCHANGED <<bStop, quits, xThread, epThread>>
        /\ \A t \in Stoppers : t # s => at'[t] = at[t] /\ joins'[t] = joins[t]
    BY <1>3 DEF JoinEP, JoinEPAgain, NextEP, TypeOK
  <2>2. EPSound' /\ \A d \in EPs : (Gone(d) => Gone(d)') /\ (AtRest(d) => AtRest(d)')
    BY <2>1 DEF Disciplined, EPSound, AtRest, Gone, EPLives
  <2>3. QED
    BY <2>1, <2>2
<1>4. QED
  BY <1>1, <1>2, <1>3 DEF StopStep

\* A QUIT, or a cancellation, for an endpoint that has nothing in its queue, or that
\* nobody is there to read it.
LEMMA TellSound ==
    ASSUME Inv, Disciplined, NEW e \in EPs, AtRest(e), ~bStop[e],
           TellEP(e), UNCHANGED <<bStop, xThread, epThread>>
    PROVE  /\ EPSound' /\ \A o \in Objects : o # e => quits'[o] = quits[o]
<1> USE Sets DEF Inv, TypeOK
<1>1. /\ \A o \in Objects : o # e => quits'[o] = quits[o]
      /\ quits'[e] = quits[e] \/ quits'[e] = IF quits[e] < MaxQuits THEN quits[e] + 1 ELSE quits[e]
  BY DEF TellEP, PushQuit
<1>2. Gone(e) \/ quits[e] = 0
  BY DEF AtRest
<1>3. Gone(e)' = Gone(e)
  BY DEF Gone
<1>4. quits'[e] > 0 => quits'[e] = 1 \/ Gone(e)'
  BY <1>1, <1>2, <1>3, BoundAssumption
<1>5. \A d \in EPs : quits'[d] > 0 => ~bStop'[d] /\ (quits'[d] = 1 \/ Gone(d)')
  <2>1. ASSUME NEW d \in EPs, d # e, quits'[d] > 0 PROVE ~bStop'[d] /\ (quits'[d] = 1 \/ Gone(d)')
    BY <1>1, <2>1 DEF Disciplined, EPSound, Gone
  <2>2. QED
    BY <1>4, <2>1
<1>6. EPSound'
  BY <1>5 DEF Disciplined, EPSound
<1>7. QED
  BY <1>1, <1>6

\* A stop of the endpoints is a command's; the node's own finds them all without a
\* thread, and only those that were cancelled say they run.
LEMMA StopStepDisciplined ==
    ASSUME Inv, Disciplined, NEW s \in Stoppers, StopStep(s)
    PROVE  Disciplined'
<1> USE Sets DEF Inv
<1>1. CASE s \in Runs
  <2>1. PICK p \in {"stop", "pushed", "join", "stuck"} : Goto(s, p)
    BY DEF StopStep, StopEP, JoinEP, JoinedEP, JoinEPAgain, NextEP
  <2>2. NodeLives(s) /\ bStop[Node]
    BY <1>1 DEF StopStep, StopEP, JoinEP, JoinedEP, JoinEPAgain, NodeLives, Disciplined, NodeSound,
                StoppingPlaces
  <2>3. \A e \in EPs : Gone(e)
    BY <1>1, <2>2 DEF Disciplined, Told, Commanding
  <2>4. \A e \in EPs : Gone(e)' /\ AtRest(e)'
    BY <2>3, StopStepFrame DEF AtRest
  <2>5. EPSound'
    <3>1. CASE StopEP(s) /\ ~bStop[at[s]]
      <4>1. at[s] \in EPs /\ TellEP(at[s]) /\ UNCHANGED <<bStop, xThread, epThread>>
        BY <3>1, BoundAssumption DEF StopEP, TypeOK, EPs
      <4>2. AtRest(at[s])
        BY <2>3, <4>1 DEF AtRest
      <4>3. QED
        BY <3>1, <4>1, <4>2, TellSound
    <3>2. CASE StopEP(s) /\ bStop[at[s]]
      BY <3>2 DEF StopEP, Disciplined, EPSound, Gone
    <3>3. CASE ~StopEP(s)
      BY <3>3, StopStepFrame
    <3>4. QED
      BY <3>1, <3>2, <3>3
  <2>6. QED
    BY <1>1, <2>1, <2>2, <2>4, <2>5, StopStepFrame, NodeMoves DEF NodeLives
<1>2. CASE s \in Commanders
  <2>0. /\ Stopping(s) /\ ~bStop[Node] /\ at[s] \in 1..(NumEPs + 1)
        /\ \A c \in Commanders : c # s => place[c] = "idle"
        /\ UNCHANGED <<bStop, xThread, bEnable>>
        /\ \A t \in Stoppers : t # s => place'[t] = place[t] /\ at'[t] = at[t] /\ joins'[t] = joins[t]
        /\ \A r \in Runs : r # s
        /\ \A e \in EPs : Gone(e) => Gone(e)'
    BY <1>2, StopStepFrame
       DEF StopStep, StopEP, JoinEP, JoinedEP, JoinEPAgain, NextEP, Goto, Stopping, TypeOK,
           Disciplined, OneCommand, Commanding
  <2>1. quits'[Node] = quits[Node] /\ (NodeGone => NodeGone')
    BY <2>0, StopStepFrame DEF NodeGone
  <2>2. /\ Stopping(s)' \/ place'[s] = "stuck"
        /\ at'[s] \in {at[s], at[s] + 1}
    BY DEF StopStep, StopEP, JoinEP, JoinedEP, JoinEPAgain, NextEP, Goto, Stopping, TypeOK
  <2>3. NodeSound' /\ OneCommand' /\ Told'
    <3>1. NodeSound'
      BY <1>2, <2>0, <2>1 DEF Disciplined, NodeSound
    <3>2. OneCommand'
      BY <1>2, <2>0 DEF OneCommand
    <3>3. Told'
      BY <1>2, <2>0, <2>1 DEF Disciplined, Told, Ending, NodeLives, Stopping
    <3>4. QED
      BY <3>1, <3>2, <3>3
  <2>4. Connecting'
    BY <1>2, <2>0, <2>2 DEF Disciplined, Commanding, Connecting, Stopping
  <2>5. ASSUME EPSound',
               Stopping(s)' => \A e \in EPs :
                 /\ e < at'[s] => Gone(e)
                 /\ e > at'[s] \/ (e = at'[s] /\ place'[s] = "stop") => AtRest(e)',
               place'[s] = "join" => joins'[s] = xThread[at'[s]]
        PROVE  Disciplined'
    <3>1. Commanding'
      BY <1>2, <2>0, <2>2, <2>5
         DEF Disciplined, Commanding, Stopping, Ending
    <3>2. QED
      BY <2>3, <2>4, <2>5, <3>1 DEF Disciplined
  <2>6. CASE StopEP(s)
    <3>1. at[s] \in EPs /\ place[s] = "stop" /\ AtRest(at[s])
      BY <1>2, <2>0, <2>6, BoundAssumption DEF StopEP, EPs, Disciplined, Commanding
    <3>2. CASE bStop[at[s]]
      <4>1. Gone(at[s]) /\ UNCHANGED <<quits, epThread>> /\ at'[s] = at[s] + 1 /\ place'[s] = "stop"
        BY <2>6, <3>1, <3>2 DEF StopEP, NextEP, Goto, TypeOK, AtRest, Gone, EPLives
      <4>2. \A e \in EPs : (e < at'[s] => Gone(e)) /\ (e >= at'[s] => AtRest(e)')
        <5>1. \A e \in EPs : /\ e < at[s] + 1 => e < at[s] \/ e = at[s]
                             /\ e >= at[s] + 1 => e > at[s]
          BY <2>0, EndpointOrder
        <5>2. \A e \in EPs : AtRest(e) => AtRest(e)'
          BY <4>1, StopStepFrame
        <5>3. QED
          BY <1>2, <2>0, <3>1, <4>1, <5>1, <5>2 DEF Disciplined, Commanding
      <4>3. EPSound'
        BY <2>0, <4>1 DEF Disciplined, EPSound, Gone
      <4>4. \A e \in EPs : e > at'[s] \/ e = at'[s] => e >= at'[s]
        BY <2>0, <4>1, EndpointOrder
      <4>5. QED
        BY <2>5, <4>1, <4>2, <4>3, <4>4
    <3>3. CASE ~bStop[at[s]]
      <4>1. /\ TellEP(at[s]) /\ UNCHANGED <<at, epThread>> /\ place'[s] = "pushed"
        BY <2>6, <3>3 DEF StopEP, Goto, TypeOK
      <4>2. EPSound'
        BY <2>0, <3>1, <3>3, <4>1, TellSound
      <4>3. \A e \in EPs : e > at[s] => e # at[s]
        BY <2>0, EndpointOrder
      <4>4. \A e \in EPs : e > at[s] => AtRest(e)'
        BY <1>2, <2>0, <4>3, StopStepFrame DEF Disciplined, Commanding
      <4>5. QED
        BY <1>2, <2>0, <2>5, <4>1, <4>2, <4>4 DEF Disciplined, Commanding
    <3>4. QED
      BY <3>2, <3>3
  <2>7. CASE JoinEP(s)
    <3>1. UNCHANGED <<quits, at>> /\ place'[s] = "join" /\ joins'[s] = xThread[at[s]]
      BY <2>7 DEF JoinEP, Goto, TypeOK
    <3>2. EPSound' /\ \A e \in EPs : AtRest(e) => AtRest(e)'
      BY <2>7, <3>1, StopStepFrame DEF JoinEP, StopEP
    <3>3. QED
      BY <1>2, <2>0, <2>5, <3>1, <3>2 DEF Disciplined, Commanding
  <2>8. CASE JoinedEP(s) \/ JoinEPAgain(s)
    <3>1. /\ UNCHANGED quits /\ place[s] = "join" /\ at[s] \in EPs /\ joins[s] = xThread[at[s]]
          /\ \/ place'[s] = "stop" /\ at'[s] = at[s] + 1
             \/ place'[s] = "stuck"
      BY <1>2, <2>8 DEF JoinedEP, JoinEPAgain, NextEP, Goto, TypeOK, AtEndpoint, Disciplined, Commanding
    <3>2. \A t \in Stoppers \ {s} : place[t] # "join"
      BY <2>0 DEF Disciplined, NodeSound, StoppingPlaces, Stoppers
    <3>3. epThread[at[s]][xThread[at[s]]] \in {"ended", "joined"}
      BY <2>8, <3>1, <3>2 DEF JoinedEP, JoinEPAgain
    <3>4. Gone(at[s])
      BY <3>1, <3>3 DEF Gone, Disciplined, EPSound
    <3>5. EPSound' /\ \A e \in EPs : AtRest(e) => AtRest(e)'
      BY <2>8, <3>1, StopStepFrame DEF JoinedEP, JoinEPAgain, StopEP
    <3>6. CASE place'[s] = "stuck"
      BY <2>5, <3>5, <3>6 DEF Stopping
    <3>7. CASE place'[s] = "stop" /\ at'[s] = at[s] + 1
      <4>1. \A e \in EPs : /\ e < at[s] + 1 => e < at[s] \/ e = at[s]
                           /\ e >= at[s] + 1 => e > at[s]
        BY <2>0, EndpointOrder
      <4>2. \A e \in EPs : (e < at'[s] => Gone(e)) /\ (e >= at'[s] => AtRest(e)')
        BY <1>2, <2>0, <3>4, <3>5, <3>7, <4>1 DEF Disciplined, Commanding
      <4>3. \A e \in EPs : e > at'[s] \/ e = at'[s] => e >= at'[s]
        BY <2>0, <3>7, EndpointOrder
      <4>4. QED
        BY <2>5, <3>5, <3>7, <4>2, <4>3
    <3>8. QED
      BY <3>1, <3>6, <3>7
  <2>9. QED
    BY <2>6, <2>7, <2>8 DEF StopStep
<1>3. QED
  BY <1>1, <1>2 DEF Stoppers

LEMMA StartNodeDisciplined ==
    ASSUME Inv, Disciplined, Settled, NEW c \in Commanders, StartNode(c)
    PROVE  Disciplined'
<1> USE Sets DEF Inv
<1>1. PICK r \in Runs : /\ IsNext(r, {q \in Runs : place[q] # "none"})
                        /\ xThread' = [xThread EXCEPT ![Node] = r]
                        /\ Goto(r, "created")
  BY DEF StartNode
<1>2. /\ xThread'[Node] = r /\ \A e \in EPs : xThread'[e] = xThread[e]
      /\ place'[r] = "created" /\ \A s \in Stoppers : s # r => place'[s] = place[s]
      /\ bStop[Node] /\ UNCHANGED <<bStop, quits, epThread, at, joins>>
  BY <1>1 DEF StartNode, Goto, TypeOK
<1>3. /\ \A d \in Commanders : place'[d] = "idle" /\ place[d] = "idle"
      /\ ~(quits[Node] > 0)
      /\ \A q \in Runs : q # r => place'[q] \in {"none", "ended"}
  BY <1>2, SettledMeans DEF NodeGone
<1>4. EPSound' /\ NodeSound' /\ OneCommand'
  BY <1>2, <1>3 DEF Disciplined, EPSound, Gone, NodeSound, StoppingPlaces, OneCommand
<1>5. Told' /\ Connecting'
  BY <1>2, <1>3 DEF Told, Connecting, NodeLives
<1>6. Commanding'
  BY <1>2, <1>3 DEF Disciplined, Commanding, Stopping, Ending
<1>7. QED
  BY <1>4, <1>5, <1>6 DEF Disciplined

LEMMA StopNodeDisciplined ==
    ASSUME Inv, Disciplined, Settled, NEW c \in Commanders, StopNode(c)
    PROVE  Disciplined'
<1> USE Sets DEF Inv
<1>1. /\ place'[c] = "stop" /\ \A s \in Stoppers : s # c => place'[s] = place[s]
      /\ ~bStop[Node] /\ UNCHANGED <<bStop, quits, xThread, epThread, at, joins>>
      /\ \A r \in Runs : place'[r] = place[r]
  BY DEF StopNode, Goto, TypeOK
<1>2. /\ \A d \in Commanders : place[d] = "idle" /\ ~Stopping(d)
      /\ \A e \in EPs : AtRest(e)
      /\ \A r \in Runs : place[r] \notin {"created", "connect"}
      /\ quits[Node] > 0 => NodeGone
  BY SettledMeans
<1>3. EPSound' /\ NodeSound' /\ OneCommand'
  <2>1. EPSound' /\ NodeSound'
    BY <1>1 DEF Disciplined, EPSound, Gone, NodeSound, NodeGone
  <2>2. \A d \in Commanders : place'[d] # "idle" => d = c
    BY <1>1, <1>2
  <2>3. QED
    BY <2>1, <2>2 DEF OneCommand
<1>4. Told' /\ Connecting'
  BY <1>1, <1>2 DEF Told, Connecting, NodeLives, NodeGone
<1>5. \A e \in EPs : AtRest(e)' /\ ~(e < 1)
  <2>1. \A e \in EPs : ~(e < 1)
    BY BoundAssumption DEF EPs
  <2>2. QED
    BY <1>1, <1>2, <2>1 DEF AtRest, EPLives, Gone
<1>6. Commanding'
  BY <1>1, <1>2, <1>5 DEF Disciplined, Commanding, Stopping, Ending
<1>7. QED
  BY <1>3, <1>4, <1>6 DEF Disciplined

\* A thread of the node that was joined, or of which there is none, was the last.
LEMMA NodeJoined ==
    ASSUME Inv, Disciplined, NEW c \in Commanders, NodeStopped(c) \/ JoinNone(c),
           joins[c] = xThread[Node], \A d \in Commanders : d # c => place[d] = "idle"
    PROVE  NodeGone
<1>1. CASE JoinNone(c)
  BY <1>1 DEF JoinNone, NodeGone, Disciplined, NodeSound, Runs
<1>2. CASE NodeStopped(c)
  BY <1>2 DEF NodeStopped, NodeGone, Disciplined, NodeSound
<1>3. QED
  BY <1>1, <1>2

LEMMA CommandStepDisciplined ==
    ASSUME Inv, Disciplined, NEW c \in Commanders, CommandStep(c)
    PROVE  Disciplined'
<1> USE Sets DEF Inv
<1>0. /\ UNCHANGED <<bStop, epThread>> /\ place[c] # "idle"
      /\ \A d \in Commanders : d # c => place[d] = "idle"
      /\ \A s \in Stoppers : s # c => place'[s] = place[s] /\ at'[s] = at[s]
      /\ \A r \in Runs : r # c /\ place'[r] = place[r]
  BY DEF CommandStep, QuitNode, JoinNode, NodeStopped, JoinNone, Rewind, Goto, TypeOK,
         Disciplined, OneCommand
<1>1. \A e \in EPs : Gone(e) => Gone(e)'
  BY <1>0 DEF Gone
<1>2. OneCommand'
  BY <1>0 DEF Disciplined, OneCommand
<1>3. \A r \in Runs : place[r] \notin {"created", "connect"}
  BY <1>0 DEF Disciplined, Commanding
<1>4. Connecting' /\ (NodeGone => NodeGone')
  BY <1>0, <1>3 DEF Connecting, NodeGone
<1>5. CASE QuitNode(c)
  <2>1. /\ place[c] = "stop" /\ place'[c] = "quit" /\ at'[c] = 1
        /\ \A e \in EPs : e < at[c] /\ quits'[e] = quits[e]
        /\ UNCHANGED <<xThread, joins>>
    <3>1. /\ place[c] = "stop" /\ place'[c] = "quit" /\ at'[c] = 1 /\ at[c] > NumEPs
          /\ UNCHANGED <<xThread, joins>>
      BY <1>5 DEF QuitNode, Goto, Rewind, TypeOK
    <3>2. \A e \in EPs : quits'[e] = quits[e]
      BY <1>5 DEF QuitNode, PushQuit, TypeOK
    <3>3. \A e \in EPs : e < at[c]
      <4>1. at[c] \in 1..(NumEPs + 1)
        BY DEF TypeOK
      <4>2. QED
        BY <3>1, <4>1, BoundAssumption DEF EPs
    <3>4. QED
      BY <3>1, <3>2, <3>3
  <2>2. quits[Node] = 0 \/ NodeGone
    <3>1. ~\E d \in Commanders : Ending(d)
      BY <1>0, <2>1 DEF Ending
    <3>2. quits[Node] \in Nat
      BY BoundAssumption DEF TypeOK
    <3>3. QED
      BY <3>1, <3>2 DEF Disciplined, Told
  <2>3. ~bStop[Node] /\ (quits'[Node] > 0 => quits'[Node] = 1 \/ NodeGone)
    <3>1. quits'[Node] = quits[Node] \/ quits'[Node] = IF quits[Node] < MaxQuits THEN quits[Node] + 1
                                                       ELSE quits[Node]
      BY <1>5 DEF QuitNode, PushQuit, TypeOK
    <3>2. ~bStop[Node]
      BY <2>1 DEF Disciplined, Commanding, Stopping
    <3>3. QED
      BY <2>2, <3>1, <3>2, BoundAssumption DEF TypeOK
  <2>4. EPSound' /\ NodeSound'
    <3>1. EPSound'
      BY <1>0, <2>1 DEF Disciplined, EPSound, Gone
    <3>2. quits'[Node] > 0 => ~bStop'[Node] /\ (quits'[Node] = 1 \/ NodeGone')
      BY <1>0, <1>4, <2>3
    <3>3. NodeSound'
      BY <1>0, <2>1, <3>2 DEF Disciplined, NodeSound
    <3>4. QED
      BY <3>1, <3>3
  <2>5. Told'
    BY <2>1 DEF Told, Ending
  <2>6. Commanding'
    BY <1>0, <1>1, <2>1 DEF Disciplined, Commanding, Stopping, Ending
  <2>7. QED
    BY <1>2, <1>4, <2>4, <2>5, <2>6 DEF Disciplined
<1>6. CASE JoinNode(c)
  <2>1. /\ place[c] = "quit" /\ place'[c] = "last" /\ joins'[c] = xThread[Node]
        /\ UNCHANGED <<xThread, quits, at>>
    BY <1>6 DEF JoinNode, Goto, TypeOK
  <2>2. EPSound' /\ NodeSound'
    BY <1>0, <1>4, <2>1 DEF Disciplined, EPSound, Gone, NodeSound
  <2>3. Told'
    BY <2>1 DEF Told, Ending
  <2>4. Commanding'
    BY <1>0, <1>1, <2>1 DEF Disciplined, Commanding, Stopping, Ending
  <2>5. QED
    BY <1>2, <1>4, <2>2, <2>3, <2>4 DEF Disciplined
<1>7. CASE NodeStopped(c) \/ JoinNone(c)
  <2>1. /\ place[c] = "last" /\ place'[c] \in {"idle", "stuck"} /\ at' = at /\ UNCHANGED quits
        /\ \A e \in EPs : xThread'[e] = xThread[e]
    BY <1>7 DEF NodeStopped, JoinNone, Goto, TypeOK
  <2>2. joins[c] = xThread[Node] /\ ~Stopping(c) /\ at[c] = 1
    BY <2>1 DEF Disciplined, Commanding, Stopping
  <2>3. NodeGone
    BY <1>0, <1>7, <2>2, NodeJoined
  <2>4. \A r \in Runs : place'[r] \in {"none", "ended"}
    BY <1>0, <2>3 DEF NodeGone
  <2>5. EPSound' /\ NodeSound'
    <3>1. EPSound'
      <4>1. epThread' = epThread /\ bStop' = bStop /\ quits' = quits
        BY <1>0, <2>1
      <4>2. \A e \in EPs : Gone(e) => Gone(e)'
        BY <1>1
      <4>3. EPSound
        BY DEF Disciplined
      <4>4. QED
        BY <2>1, <4>1, <4>2, <4>3 DEF EPSound
    <3>2. NodeSound'
      BY <1>0, <1>4, <2>1, <2>3, <2>4 DEF Disciplined, NodeSound, StoppingPlaces
    <3>3. QED
      BY <3>1, <3>2
  <2>6. Told'
    BY <1>4, <2>3, <2>4 DEF Told, NodeLives
  <2>7. Commanding'
    <3>1. \A d \in Commanders : place'[d] \in {"idle", "stuck"} /\ at'[d] = 1
      BY <1>0, <2>1, <2>2 DEF Disciplined, Commanding, Stopping
    <3>2. QED
      BY <2>4, <3>1 DEF Commanding, Stopping, Ending
  <2>8. QED
    BY <1>2, <1>4, <2>5, <2>6, <2>7 DEF Disciplined
<1>8. QED
  BY <1>5, <1>6, <1>7 DEF CommandStep

LEMMA EPCommandDisciplined ==
    ASSUME Inv, Disciplined, Settled, NEW c \in Commanders, NEW e \in EPs,
           Enable(c, e) \/ Disable(c, e) \/ EPStart(c, e) \/ EPStop(c, e)
    PROVE  Disciplined'
<1> USE Sets DEF Inv
<1>1. UNCHANGED <<bStop, place, at, joins>>
  BY DEF Enable, Disable, EPStart, EPStop
<1>2. /\ \A d \in Commanders : place[d] = "idle" /\ ~Stopping(d) /\ ~Ending(d)
      /\ \A r \in Runs : place[r] # "connect"
      /\ AtRest(e)
  BY SettledMeans
<1>3. OneCommand' /\ Connecting'
  BY <1>1, <1>2 DEF OneCommand, Connecting
<1>4. ASSUME quits'[Node] = quits[Node], xThread'[Node] = xThread[Node]
      PROVE  NodeSound' /\ Told' /\ Commanding'
  BY <1>1, <1>2, <1>4 DEF Disciplined, NodeSound, NodeGone, Told, Commanding, Stopping, Ending, NodeLives
<1>5. CASE Enable(c, e) \/ EPStart(c, e)
  <2>1. UNCHANGED <<bStop, quits>> /\ \E b \in BOOLEAN : StartEP(e, b)
    BY <1>5 DEF Enable, EPStart, TypeOK
  <2>2. EPSound' /\ xThread'[Node] = xThread[Node]
    BY <1>2, <2>1, StartSound
  <2>3. QED
    BY <1>3, <1>4, <2>1, <2>2 DEF Disciplined
<1>6. CASE Disable(c, e) \/ EPStop(c, e)
  <2>1. UNCHANGED <<bStop, xThread, epThread>> /\ ((TellEP(e) /\ ~bStop[e]) \/ UNCHANGED quits)
    BY <1>6 DEF Disable, EPStop
  <2>2. CASE UNCHANGED quits
    BY <1>3, <1>4, <2>1, <2>2 DEF Disciplined, EPSound, Gone
  <2>3. CASE TellEP(e) /\ ~bStop[e]
    BY <1>2, <1>3, <1>4, <2>1, <2>3, TellSound DEF Disciplined
  <2>4. QED
    BY <2>1, <2>2, <2>3
<1>7. QED
  BY <1>5, <1>6

LEMMA DisciplinedInit == Init => Disciplined
<1> SUFFICES ASSUME Init PROVE Disciplined
  OBVIOUS
<1>1. EPSound
  BY Sets DEF Init, EPSound
<1>2. NodeSound
  BY Sets DEF Init, NodeSound
<1>3. \A c \in Commanders : place[c] = "idle" /\ at[c] = 1
  BY Sets DEF Init
<1>4. \A r \in Runs : place[r] = "none"
  BY Sets DEF Init
<1>5. OneCommand /\ Told /\ Commanding /\ Connecting
  BY <1>3, <1>4, Sets DEF Init, OneCommand, Told, NodeLives, NodeGone, Commanding, Stopping, Ending, Connecting
<1>6. QED
  BY <1>1, <1>2, <1>5 DEF Disciplined

LEMMA DisciplinedStep ==
    Inv /\ (Orderly => Disciplined) /\ [Next]_vars => (Orderly => Disciplined)'
<1> SUFFICES ASSUME Inv, Orderly => Disciplined, [Next]_vars, Orderly'
             PROVE  Disciplined'
  OBVIOUS
<1>1. Patient /\ ~raced'
  BY DEF Orderly
<1>2. ~raced
  BY <1>1 DEF Next, vars, EPStep, EPBegin, EPQuit, EPEnd, StopStep, StopEP, JoinEP, JoinedEP, JoinEPAgain,
              NodeStep, NodeBegin, NodeTry, NodeWait, NodeConnect, NodeStartEP,
              NodeConnected, NodeQuit, NodeLoop, NodeLeave, NodeEnd, NodeDies, EPDies,
              StartNode, StopNode, CommandStep, QuitNode, JoinNode, NodeStopped, JoinNone,
              Enable, Disable, EPStart, EPStop
<1>3. Disciplined
  BY <1>1, <1>2 DEF Orderly
<1>4. CASE UNCHANGED vars
  BY <1>3, <1>4 DEF vars, Disciplined, EPSound, NodeSound, OneCommand, Told, Commanding,
                    Connecting, Stopping, Ending, Gone, AtRest, EPLives, NodeLives, NodeGone
<1>5. ASSUME NEW r \in Runs, NodeStep(r) \/ NodeDies(r) PROVE Disciplined'
  <2>1. NodeConnect(r) => Settled
    BY <1>1 DEF NodeConnect
  <2>2. QED
    BY <1>3, <1>5, <2>1, NodeStepDisciplined
<1>6. ASSUME NEW c \in Commanders, StartNode(c) \/ StopNode(c) PROVE Disciplined'
  <2>1. Settled
    BY <1>1, <1>6 DEF StartNode, StopNode, Commanded
  <2>2. QED
    BY <1>3, <1>6, <2>1, StartNodeDisciplined, StopNodeDisciplined
<1>7. ASSUME NEW c \in Commanders, NEW e \in EPs,
             Enable(c, e) \/ Disable(c, e) \/ EPStart(c, e) \/ EPStop(c, e)
      PROVE  Disciplined'
  <2>1. Settled
    BY <1>1, <1>7 DEF Enable, Disable, EPStart, EPStop, Commanded
  <2>2. QED
    BY <1>3, <1>7, <2>1, EPCommandDisciplined
<1>8. QED
  BY <1>3, <1>4, <1>5, <1>6, <1>7, EPStepDisciplined, StopStepDisciplined,
     CommandStepDisciplined DEF Next

LEMMA Discipline == Spec => [](Orderly => Disciplined)
<1>1. Init => (Orderly => Disciplined)
  BY DisciplinedInit
<1>2. QED
  BY <1>1, Invariant, DisciplinedStep, PTL DEF Spec

\* Commands given one after the other never leave an object with two threads, of
\* which a stop would join one: FTOM_NODE_start and FTOM_EP_start look at bStop, which
\* says "stopped" until the new thread has begun.
THEOREM NeverTwoThreads == Spec => []OneThread
<1>1. (Orderly => Disciplined) => OneThread
  BY Sets DEF Disciplined, EPSound, NodeSound, OneThread, Threads
<1>2. QED
  BY <1>1, Discipline, PTL

\* Nor do they leave a QUIT behind that would end the next thread of its object: what
\* nobody takes stays with an object whose thread was cancelled, and has no next.
THEOREM NoQuitLeftOver == Spec => []QuitHasReader
<1>1. Inv /\ (Orderly => Disciplined) => QuitHasReader
  <2> SUFFICES ASSUME Inv, Orderly, Disciplined, NEW o \in Objects, quits[o] > 0
               PROVE  ~bStop[o] /\ (quits[o] = 1 \/ \E r \in Runs : <<o, r>> \in cancelled)
    BY DEF QuitHasReader
  <2>1. CASE o \in EPs
    BY <2>1 DEF Inv, EPsRun, EPLives, Disciplined, EPSound, Gone
  <2>2. CASE o = Node
    BY <2>2 DEF Inv, NodeRuns, Looping, Disciplined, NodeSound, NodeGone
  <2>3. QED
    BY <2>1, <2>2, Sets
<1>2. QED
  BY <1>1, Invariant, Discipline, PTL

\* When FTOM_NODE_stop returns, the node's thread and the threads of all its endpoints
\* have ended, however many there are.
THEOREM StopIsComplete == Spec => StopLeavesNothing
<1>1. ASSUME Inv, Orderly, Disciplined, Next, NEW c \in Commanders,
             place[c] = "last", place'[c] = "idle"
      PROVE  \A o \in Objects : Threads(o) = {}
  <2> USE Sets DEF Inv
  <2>1. NodeStopped(c) \/ JoinNone(c)
    <3> USE DEF Goto, TypeOK
    <3>1. \A d \in Commanders : ~StartNode(d) /\ ~StopNode(d)
      BY <1>1 DEF StartNode, StopNode, Commanded, Settled
    <3>2. \A d \in Commanders, e \in EPs : ~Enable(d, e) /\ ~Disable(d, e) /\ ~EPStart(d, e) /\ ~EPStop(d, e)
      BY <1>1 DEF Enable, Disable, EPStart, EPStop, Commanded, Settled
    <3>3. \A e \in EPs, r \in Runs : ~EPStep(e, r) /\ ~EPDies(e, r)
      BY <1>1 DEF EPStep, EPBegin, EPQuit, EPEnd, EPDies
    <3>4. \A s \in Stoppers : ~StopStep(s)
      BY <1>1 DEF StopStep, StopEP, JoinEP, JoinedEP, JoinEPAgain, NextEP
    <3>5. \A r \in Runs : ~NodeStep(r) /\ ~NodeDies(r)
      BY <1>1 DEF NodeStep, NodeBegin, NodeTry, NodeWait, NodeConnect, NodeStartEP, NodeConnected,
                  NodeQuit, NodeLoop, NodeLeave, NodeEnd, NodeDies, Rewind
    <3>6. PICK d \in Commanders : CommandStep(d)
      BY <1>1, <3>1, <3>2, <3>3, <3>4, <3>5 DEF Next
    <3>7. ~QuitNode(c) /\ ~JoinNode(c) /\ (d # c => ~QuitNode(d) /\ ~JoinNode(d) /\ ~NodeStopped(d) /\ ~JoinNone(d))
      BY <1>1 DEF QuitNode, JoinNode, NodeStopped, JoinNone
    <3>8. QED
      BY <3>6, <3>7 DEF CommandStep
  <2>2. \A e \in EPs : Gone(e)
    BY <1>1 DEF Disciplined, Commanding, Ending
  <2>3. joins[c] = xThread[Node] /\ \A d \in Commanders : d # c => place[d] = "idle"
    BY <1>1 DEF Disciplined, Commanding, OneCommand
  <2>4. NodeGone
    BY <1>1, <2>1, <2>3, NodeJoined
  <2>5. QED
    BY <2>2, <2>4 DEF Threads, Gone, NodeGone
<1>2. Inv /\ (Orderly => Disciplined) /\ [Next]_vars =>
        [\A c \in Commanders :
           place[c] = "last" /\ place'[c] = "idle" /\ Orderly =>
               \A o \in Objects : Threads(o) = {}]_vars
  BY <1>1
<1>3. QED
  BY <1>2, Invariant, Discipline, PTL DEF Spec, StopLeavesNothing
===============================================================================
