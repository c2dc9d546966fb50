------------------------------- MODULE Gateway -------------------------------
(***************************************************************************)
(* The objects of the gateway (src/ftom): the main thread copies what the  *)
(* data manager holds into lists of pointers and starts the nodes, while   *)
(* sessions of the gateway's server already create, destroy and set        *)
(* objects, each in both places.                                           *)
(*                                                                         *)
(* Every call of the data manager and every change of a list is a step of  *)
(* its own; no lock covers two of them.  Calls of the data manager may     *)
(* fail, and hardly a caller looks at the answer.  The data manager itself *)
(* is what its sessions answer (Registry has its inside): a row here is an *)
(* object it can be asked for.  Where a thread uses a freed object the     *)
(* behaviour is lost, until the process is started again.                  *)
(***************************************************************************)
EXTENDS Naturals, Sequences, FiniteSets, SequencesExt

CONSTANTS Consoles,     \* sessions of the gateway's server
          Main,         \* the thread of FTOM_process
          Nodes, Endpoints, Others,  \* identifiers
          Old, New,     \* what an object holds at first, and what a request says
          NoRow,        \* the data manager has no such object
          Attaching,    \* nodes of a class that endpoints are attached to
          Window,       \* bound of the code: identifiers in one answer
          MaxEvents     \* bound: requests that change something, failed calls and
                        \* deaths of the process, together

ASSUME ThreadAssumption == Main \notin Consoles
ASSUME ClassAssumption == Attaching \subseteq Nodes
ASSUME RowAssumption == NoRow \notin Nodes \cup {Old, New}
ASSUME FiniteAssumption == IsFiniteSet(Nodes) /\ IsFiniteSet(Endpoints) /\ IsFiniteSet(Others)
ASSUME GatewayBounds == {Window, MaxEvents} \subseteq Nat

Threads == Consoles \cup {Main}
Kinds == {"node", "ep", "trigger", "action", "rule"}

\* The order of FTOM_TASK_sync; of the classes only the count can go wrong.
Order == <<"node", "class", "ep", "trigger", "action", "rule">>

VARIABLES
    subject,   \* the kinds this behaviour is about
    row,       \* the data manager's objects: their content, an endpoint's is its node
    obj,       \* every object ever made; a pointer is its index, 0 is NULL
    list,      \* of each kind, the pointers in the order they were appended
    state,     \* xState
    sync,      \* how far FTOM_TASK_sync or FTOM_TASK_start has come
    job,       \* what each thread works on, and where
    events,    \* counted against the bound
    lost,      \* has a thread used a freed object?
    history    \* what properties leave out, see Blank

store == <<subject, row>>
memory == <<obj, list>>
control == <<state, sync>>
vars == <<store, memory, control, job, events, lost, history>>

Idle == [at |-> "idle", kind |-> "node", id |-> NoRow, info |-> NoRow,
         ptr |-> 0, node |-> 0, ep |-> 0, new |-> FALSE, back |-> "idle"]

Blank == [failed   |-> {},   \* objects a call was answered with an error about, or not made
          raced    |-> {},   \* objects two threads worked on at once
          cut      |-> {},   \* rows the list of identifiers left out
          early    |-> {},   \* objects a session created before the end of the sync
          orphaned |-> {},   \* endpoints that could not be linked when they were made
          moved    |-> {},   \* endpoints that were given another node
          stopped  |-> {},   \* nodes a request has stopped
          rounds   |-> 1,    \* times the synchronisation began
          removals |-> 0]    \* nodes removed while the main thread started them

Unsynced == [phase |-> 1, count |-> 0, todo |-> {}, next |-> "count"]

Ids(k) == CASE k = "node" -> Nodes [] k = "ep" -> Endpoints [] OTHER -> Others

\* A data manager with whatever an earlier run left; the plain kinds share nothing
\* with one another, nodes and endpoints do.
Init ==
    /\ subject \in {{"node", "ep"}, {"trigger"}, {"action"}, {"rule"}}
    /\ \E nodes \in [Nodes -> {Old, NoRow}], eps \in [Endpoints -> Nodes \cup {NoRow}],
          others \in [Others -> {Old, NoRow}] :
         row = [k \in Kinds |-> IF k \notin subject THEN [id \in Ids(k) |-> NoRow]
                                ELSE CASE k = "node" -> nodes [] k = "ep" -> eps
                                       [] OTHER -> others]
    /\ obj = <<>> /\ list = [k \in Kinds |-> <<>>]
    /\ state = "CONNECTED" /\ sync = Unsynced
    /\ job = [t \in Threads |-> Idle]
    /\ events = 0 /\ lost = FALSE /\ history = Blank

Listed(k) == ToSet(list[k])
Live == {p \in DOMAIN obj : obj[p].alive}
Holders(k, id) == {p \in Listed(k) : obj[p].id = id}
Rows(k) == {id \in Ids(k) : row[k][id] # NoRow}

\* FTM_LIST_get: the first that matches, if any does.
Get(k, id) == {list[k][i] : i \in {i \in DOMAIN list[k] :
                 obj[list[k][i]].id = id /\ \A j \in 1..(i - 1) : obj[list[k][j]].id # id}}

-------------------------------------------------------------------------------
(* Threads, and the calls they make.                                          *)

Event == events < MaxEvents /\ events' = events + 1

Key(j) == <<j.kind, j.id>>

\* What a thread works on: what its job is about, and the endpoint it destroys.
Holds(j) == {Key(j)} \cup (IF j.ep = 0 THEN {} ELSE {<<"ep", obj[j.ep].id>>})

\* Two jobs about one object, or about an endpoint and its node.
Clash(a, b) ==
    /\ a.at # "idle" /\ b.at # "idle"
    /\ \/ Holds(a) \cap Holds(b) # {}
       \/ a.kind = "ep" /\ b.kind = "node" /\ a.info = b.id
       \/ b.kind = "ep" /\ a.kind = "node" /\ b.info = a.id

\* History h and the races that thread t gets into when it goes on with j: what the
\* jobs are about, and what they both work on.
Racing(t, j, h) ==
    LET rivals == {u \in Threads \ {t} : Clash(job[u], j)}
    IN  [h EXCEPT !.raced = @ \cup UNION {{Key(j), Key(job[u])} \cup (Holds(j) \cap Holds(job[u])) :
                                           u \in rivals}]

\* Thread t takes up job j; h is the history but for the races.
Take(t, j, h) ==
    /\ job[t].at = "idle" /\ job' = [job EXCEPT ![t] = j]
    /\ history' = Racing(t, j, h)

\* A request of the client of session c.
Begin(c, j, h) ==
    /\ Event /\ Take(c, j, h)

\* What a thread is about to look into.
Uses(t) ==
    LET j == job[t]
    IN  CASE j.at \in {"append", "look", "seek", "idle"} -> {}
          [] j.at = "link" -> {j.ptr, j.node}
          [] j.at = "unlink" -> {j.ep, j.node}
          [] j.at = "unhook" -> {j.ep, obj[j.ep].node} \ {0}
          [] j.at \in {"dropEP", "delistEP"} -> {j.ep}
          [] j.at \in {"empty", "purge"} -> {j.ptr} \cup ToSet(obj[j.ptr].eps)
          [] OTHER -> {j.ptr}

At(t, k, place) ==
    job[t].at = place /\ job[t].kind = k /\ Uses(t) \subseteq Live

Goto(t, place) == job' = [job EXCEPT ![t].at = place]
End(t) == job' = [job EXCEPT ![t] = Idle]

\* A freed object is used; what comes then is undefined.
UseFreed(t) ==
    /\ ~(Uses(t) \subseteq Live) /\ lost' = TRUE
    /\ UNCHANGED <<store, memory, control, job, events, history>>

\* A call that makes the data manager's object hold content.  It does nothing if it
\* does not apply; and it may fail, unsent or with its answer lost.
Call(k, id, content, applies) ==
    LET done == [row EXCEPT ![k][id] = content]
        noted == [history EXCEPT !.failed = @ \cup {<<k, id>>}]
    IN  \/ applies /\ row' = done /\ UNCHANGED <<events, history>>
        \/ ~applies /\ history' = noted /\ UNCHANGED <<row, events>>
        \/ /\ Event
           /\ row' \in {row} \cup (IF applies THEN {done} ELSE {})
           /\ history' = noted

DBStep == UNCHANGED <<subject, memory, control, lost>>
ObjStep == UNCHANGED <<store, control, events, lost>>

Fresh(j) == [kind |-> j.kind, id |-> j.id, info |-> j.info, alive |-> TRUE,
             node |-> 0, eps |-> <<>>, run |-> FALSE]

-------------------------------------------------------------------------------
(* Steps of one kind of object, whoever takes them.                           *)

\* An object is made, and t goes on with it.
Make(t, place) ==
    /\ obj' = Append(obj, Fresh(job[t]))
    /\ job' = [job EXCEPT ![t].ptr = Len(obj) + 1, ![t].at = place]

Enlist(t, k) == list' = [list EXCEPT ![k] = Append(@, job[t].ptr)]

\* FTM_LIST_remove takes the first entry with the pointer, if there is one.
Without(q, p) ==
    IF p \notin ToSet(q) THEN q
    ELSE [k \in 1..(Len(q) - 1) |-> IF \E i \in 1..k : q[i] = p THEN q[k + 1] ELSE q[k]]

Unlist(k, p) ==
    /\ list' = [list EXCEPT ![k] = Without(@, p)]
    /\ obj' = [obj EXCEPT ![p] = [Fresh(@) EXCEPT !.alive = FALSE]]

\* Fault: detached, and left in the node's list.
Detached(e, n) == [obj EXCEPT ![e].node = 0]

Unlinked(e, n) == [obj EXCEPT ![e].node = 0, ![n].eps = Without(@, e)]

\* Fault: FTOM_NODE_create does not look for the identifier.
LookNodeBlindly(t) ==
    /\ At(t, "node", "look")
    /\ Make(t, IF job[t].new THEN "add" ELSE "append")
    /\ UNCHANGED <<list, history>> /\ ObjStep

\* FTOM_NODE_create: refused when it is listed.
LookNode(t) ==
    LET j == job[t]
    IN  /\ At(t, "node", "look")
        /\ \/ Holders("node", j.id) # {} /\ End(t) /\ UNCHANGED obj
           \/ Holders("node", j.id) = {} /\ Make(t, IF j.new THEN "add" ELSE "append")
        /\ UNCHANGED <<list, history>> /\ ObjStep

AddNode(t) ==
    LET j == job[t]
    IN  /\ At(t, "node", "add") /\ Goto(t, "append")
        /\ Call("node", j.id, j.info, row["node"][j.id] = NoRow) /\ DBStep

AppendNode(t) ==
    /\ At(t, "node", "append") /\ Enlist(t, "node")
    /\ IF job[t].new THEN Goto(t, "start") ELSE End(t)
    /\ UNCHANGED <<obj, history>> /\ ObjStep

\* FTOM_NODE_start.  Where it is refused, as by a node that runs, or fails, the
\* handler that has just created the node destroys it.
StartNode(t) ==
    LET j == job[t]
        refused == IF j.new THEN Goto(t, "drop") ELSE End(t)
    IN  /\ At(t, "node", "start")
        /\ \/ /\ ~obj[j.ptr].run /\ End(t)
              /\ obj' = [obj EXCEPT ![j.ptr].run = TRUE]
              /\ UNCHANGED <<events, history>>
           \/ /\ obj[j.ptr].run /\ refused
              /\ obj' = [obj EXCEPT ![j.ptr].run = ~j.new]
              /\ UNCHANGED <<events, history>>
           \/ /\ ~obj[j.ptr].run /\ refused
              /\ Event
              /\ history' = [history EXCEPT !.failed = @ \cup {Key(j)}]
              /\ UNCHANGED obj
        /\ UNCHANGED <<store, list, control, lost>>

\* FTOM_SERVER_NODE_destroy takes the first endpoint, unlinks it and destroys it, as
\* long as there is one, and gives up where one cannot be unlinked.
EmptyNode(t) ==
    LET n == job[t].ptr
        e == Head(obj[n].eps)
        next == [job[t] EXCEPT !.ep = e, !.back = "empty", !.at = "dropEP"]
    IN  /\ At(t, "node", "empty")
        /\ \/ obj[n].eps = <<>> /\ Goto(t, "drop") /\ UNCHANGED <<obj, history>>
           \/ /\ obj[n].eps # <<>> /\ obj[e].node = n
              /\ obj' = Unlinked(e, n)
              /\ job' = [job EXCEPT ![t] = next] /\ history' = Racing(t, next, history)
           \/ obj[n].eps # <<>> /\ obj[e].node # n /\ End(t) /\ UNCHANGED <<obj, history>>
        /\ UNCHANGED list /\ ObjStep

DropNode(t) ==
    /\ At(t, "node", "drop") /\ Goto(t, "purge")
    /\ Call("node", job[t].id, NoRow, TRUE) /\ DBStep

\* FTOM_NODE_destroy has a loop of its own, which does not look at the answer: it
\* comes back to an endpoint that was freed and not unlinked.
PurgeNode(t) ==
    LET n == job[t].ptr
        e == Head(obj[n].eps)
        next == [job[t] EXCEPT !.ep = e, !.back = "purge", !.at = "dropEP"]
    IN  /\ At(t, "node", "purge")
        /\ \/ obj[n].eps = <<>> /\ Goto(t, "delist") /\ UNCHANGED <<obj, lost, history>>
           \/ /\ obj[n].eps # <<>> /\ obj[e].node = n /\ UNCHANGED lost
              /\ obj' = Unlinked(e, n)
              /\ job' = [job EXCEPT ![t] = next] /\ history' = Racing(t, next, history)
           \/ /\ obj[n].eps # <<>> /\ obj[e].node # n
              /\ lost' = TRUE /\ UNCHANGED <<obj, job, history>>
        /\ UNCHANGED <<store, list, control, events>>

DelistNode(t) ==
    /\ At(t, "node", "delist") /\ Unlist("node", job[t].ptr) /\ End(t)
    /\ history' = [history EXCEPT !.removals = @ + (IF state = "SYNCHRONIZED" THEN 1 ELSE 0)]
    /\ ObjStep

\* FTOM_NODE_setAttr: the object, then the data manager.  A class that has no fSet
\* refuses, and it may fail.
WriteNode(t) ==
    /\ At(t, "node", "write")
    /\ \/ Goto(t, "save") /\ obj' = [obj EXCEPT ![job[t].ptr].info = job[t].info]
       \/ End(t) /\ UNCHANGED obj
    /\ UNCHANGED <<list, history>> /\ ObjStep

SaveNode(t) ==
    LET j == job[t]
    IN  /\ At(t, "node", "save") /\ End(t)
        /\ Call("node", j.id, j.info, row["node"][j.id] # NoRow) /\ DBStep

\* FTOM_EP_create: the other way round, listed first.
LookEP(t) ==
    /\ At(t, "ep", "look")
    /\ \/ Holders("ep", job[t].id) # {} /\ End(t) /\ UNCHANGED obj
       \/ Holders("ep", job[t].id) = {} /\ Make(t, "append")
    /\ UNCHANGED <<list, history>> /\ ObjStep

AppendEP(t) ==
    /\ At(t, "ep", "append") /\ Enlist(t, "ep")
    /\ Goto(t, IF job[t].new THEN "add" ELSE "seek")
    /\ UNCHANGED <<obj, history>> /\ ObjStep

AddEP(t) ==
    LET j == job[t]
    IN  /\ At(t, "ep", "add") /\ Goto(t, "link")
        /\ Call("ep", j.id, j.info, row["ep"][j.id] = NoRow) /\ DBStep

Orphan(t) == history' = [history EXCEPT !.orphaned = @ \cup {job[t].id}]

\* The synchronisation and FTOM_EP_start look for the node by its identifier.
SeekNode(t) ==
    LET found == Get("node", job[t].info)
    IN  /\ At(t, "ep", "seek")
        /\ \/ \E n \in found : job' = [job EXCEPT ![t].node = n, ![t].at = "link"]
              /\ UNCHANGED history
           \/ found = {} /\ End(t) /\ Orphan(t)
        /\ UNCHANGED memory /\ ObjStep

\* Fault: a node that does not run yet takes no endpoint.
LinkToRunning(t) ==
    LET e == job[t].ptr
        n == job[t].node
    IN  /\ At(t, "ep", "link") /\ End(t)
        /\ obj' = IF obj[n].id \in Attaching /\ obj[n].run
                  THEN [obj EXCEPT ![e].node = n, ![n].eps = Append(@, e)] ELSE obj
        /\ UNCHANGED <<list, history>> /\ ObjStep

\* FTOM_NODE_linkEP: not every class has fAttachEP, and it may fail.  The handler of a
\* creation does not look at the answer, and FTOM_EP_start tries once more.
LinkEP(t) ==
    LET e == job[t].ptr
        n == job[t].node
        refused == \/ ~job[t].new /\ End(t) /\ Orphan(t)
                   \/ /\ job[t].new /\ UNCHANGED history
                      /\ job' = [job EXCEPT ![t].at = "seek", ![t].new = FALSE]
    IN  /\ At(t, "ep", "link")
        /\ \/ /\ obj[n].id \in Attaching /\ End(t)
              /\ obj' = [obj EXCEPT ![e].node = n, ![n].eps = Append(@, e)]
              /\ UNCHANGED <<events, history>>
           \/ obj[n].id \notin Attaching /\ refused /\ UNCHANGED <<obj, events>>
           \/ /\ obj[n].id \in Attaching /\ refused /\ UNCHANGED obj
              /\ Event
        /\ UNCHANGED <<store, list, control, lost>>

\* FTOM_NODE_unlinkEP: refused by a node the endpoint is not attached to, and with it
\* the destruction that was asked for.
UnlinkEP(t) ==
    LET e == job[t].ep
        n == job[t].node
        linked == obj[e].node = n /\ obj[n].id \in Attaching
    IN  /\ At(t, "ep", "unlink")
        /\ \/ linked /\ obj' = Unlinked(e, n) /\ Goto(t, "dropEP")
           \/ ~linked /\ UNCHANGED obj /\ End(t)
        /\ UNCHANGED <<list, history>> /\ ObjStep

\* FTOM_EP_destroy unlinks it from the node it has; no node of that identifier is listed.
UnhookEP(t) ==
    LET e == job[t].ep
    IN  /\ At(t, "ep", "unhook") /\ Goto(t, "dropEP")
        /\ obj' = IF obj[e].node = 0 THEN obj ELSE Unlinked(e, obj[e].node)
        /\ UNCHANGED <<list, history>> /\ ObjStep

\* Fault: the row stays.
DropEPInMemory(t) ==
    /\ \E k \in {"node", "ep"} : At(t, k, "dropEP")
    /\ Goto(t, "delistEP") /\ UNCHANGED <<row, events, history>> /\ DBStep

DropEP(t) ==
    /\ \E k \in {"node", "ep"} : At(t, k, "dropEP")
    /\ Goto(t, "delistEP")
    /\ Call("ep", obj[job[t].ep].id, NoRow, TRUE) /\ DBStep

DelistEP(t) ==
    LET j == job[t]
    IN  /\ \E k \in {"node", "ep"} : At(t, k, "delistEP")
        /\ Unlist("ep", j.ep)
        /\ IF j.back = "idle" THEN End(t)
           ELSE job' = [job EXCEPT ![t].at = j.back, ![t].ep = 0]
        /\ UNCHANGED history /\ ObjStep

\* FTOM_EP_setInfo: the data manager, then the object.  Its identifier of the node is
\* changed and nothing else of the link; enabled, it is started and linked if it has
\* no node.
SaveEP(t) ==
    LET j == job[t]
    IN  /\ At(t, "ep", "save") /\ Goto(t, "write")
        /\ Call("ep", j.id, j.info, row["ep"][j.id] # NoRow) /\ DBStep

WriteEP(t) ==
    LET j == job[t]
        e == j.ptr
    IN  /\ At(t, "ep", "write")
        /\ obj' = [obj EXCEPT ![e].info = j.info]
        /\ End(t) \/ (obj[e].node = 0 /\ Goto(t, "seek"))
        /\ history' = [history EXCEPT !.moved = @ \cup
                         IF obj[e].info = j.info THEN {} ELSE {j.id}]
        /\ UNCHANGED list /\ ObjStep

\* Triggers, actions and rules: nothing looks for the identifier, and the object is
\* listed before the data manager has it.
AppendPlain(t, k) ==
    /\ At(t, k, "append")
    /\ obj' = Append(obj, Fresh(job[t]))
    /\ list' = [list EXCEPT ![k] = Append(@, Len(obj) + 1)]
    /\ IF job[t].new
       THEN job' = [job EXCEPT ![t].ptr = Len(obj) + 1, ![t].at = "add"]
       ELSE End(t)
    /\ UNCHANGED history /\ ObjStep

AddPlain(t, k) ==
    LET j == job[t]
    IN  /\ At(t, k, "add") /\ End(t)
        /\ Call(k, j.id, j.info, row[k][j.id] = NoRow) /\ DBStep

\* The data manager does not list its triggers: it finds none to remove.
DropPlain(t, k) ==
    /\ At(t, k, "drop") /\ Goto(t, "delist")
    /\ Call(k, job[t].id, NoRow, k # "trigger") /\ DBStep

DelistPlain(t, k) ==
    /\ At(t, k, "delist") /\ Unlist(k, job[t].ptr) /\ End(t)
    /\ UNCHANGED history /\ ObjStep

\* It has no command that sets one of the three; the object is set all the same.
SavePlain(t, k) ==
    /\ At(t, k, "save") /\ Goto(t, "write")
    /\ Call(k, job[t].id, job[t].info, FALSE) /\ DBStep

WritePlain(t, k) ==
    /\ At(t, k, "write") /\ End(t)
    /\ obj' = [obj EXCEPT ![job[t].ptr].info = job[t].info]
    /\ UNCHANGED <<list, history>> /\ ObjStep

AppendTrigger(t) == AppendPlain(t, "trigger")
AddTrigger(t) == AddPlain(t, "trigger")
DropTrigger(t) == DropPlain(t, "trigger")
DelistTrigger(t) == DelistPlain(t, "trigger")
SaveTrigger(t) == SavePlain(t, "trigger")
WriteTrigger(t) == WritePlain(t, "trigger")

AppendAction(t) == AppendPlain(t, "action")
AddAction(t) == AddPlain(t, "action")
DropAction(t) == DropPlain(t, "action")
DelistAction(t) == DelistPlain(t, "action")
SaveAction(t) == SavePlain(t, "action")
WriteAction(t) == WritePlain(t, "action")

AppendRule(t) == AppendPlain(t, "rule")
AddRule(t) == AddPlain(t, "rule")
DropRule(t) == DropPlain(t, "rule")
DelistRule(t) == DelistPlain(t, "rule")
SaveRule(t) == SavePlain(t, "rule")
WriteRule(t) == WritePlain(t, "rule")

\* A creation that fails before its object is listed: no class of the node's model, no
\* memory, no place in the list.  Only FTOM_NODE_create does not look whether the list
\* took the node, and goes on with one that nobody will find.
CreationFails(t) ==
    LET j == job[t]
        unnoticed == At(t, "node", "append")
    IN  /\ \/ unnoticed
           \/ \E k \in {"node", "ep"} : At(t, k, "look") /\ Holders(k, j.id) = {}
           \/ \E k \in Kinds \ {"node", "ep"} : At(t, k, "append")
        /\ IF unnoticed /\ j.new THEN Goto(t, "start") ELSE End(t)
        /\ Event /\ history' = [history EXCEPT !.failed = @ \cup {Key(j)}]
        /\ UNCHANGED <<store, memory, control, lost>>

NodeStep(t) ==
    \/ LookNode(t) \/ AddNode(t) \/ AppendNode(t) \/ StartNode(t)
    \/ EmptyNode(t) \/ DropNode(t) \/ PurgeNode(t) \/ DelistNode(t)
    \/ WriteNode(t) \/ SaveNode(t)
EPStep(t) ==
    \/ LookEP(t) \/ AppendEP(t) \/ AddEP(t) \/ SeekNode(t) \/ LinkEP(t)
    \/ UnlinkEP(t) \/ UnhookEP(t) \/ DropEP(t) \/ DelistEP(t) \/ SaveEP(t) \/ WriteEP(t)
TriggerStep(t) ==
    \/ AppendTrigger(t) \/ AddTrigger(t) \/ DropTrigger(t) \/ DelistTrigger(t)
    \/ SaveTrigger(t) \/ WriteTrigger(t)
ActionStep(t) ==
    \/ AppendAction(t) \/ AddAction(t) \/ DropAction(t) \/ DelistAction(t)
    \/ SaveAction(t) \/ WriteAction(t)
RuleStep(t) ==
    \/ AppendRule(t) \/ AddRule(t) \/ DropRule(t) \/ DelistRule(t)
    \/ SaveRule(t) \/ WriteRule(t)

\* A thread that has a job goes on with it.
Step(t) ==
    /\ job[t].at # "idle"
    /\ \/ NodeStep(t) \/ EPStep(t) \/ TriggerStep(t) \/ ActionStep(t) \/ RuleStep(t)
       \/ CreationFails(t) \/ UseFreed(t)

-------------------------------------------------------------------------------
(* The handlers of the gateway's server.                                      *)

ReqStep == UNCHANGED <<store, control, lost>>

\* A request to create an object; before the end of the synchronisation it is early.
Create(c, j) ==
    Begin(c, j, [history EXCEPT !.early = @ \cup IF state = "CONNECTED" THEN {Key(j)} ELSE {}])

Stopped(id) == [history EXCEPT !.stopped = @ \cup {id}]

\* The creation of a node that exists is refused, and the node that exists is stopped
\* and destroyed.
NODE_create(c) ==
    /\ subject = {"node", "ep"}
    /\ \E id \in Nodes :
         LET j == [Idle EXCEPT !.id = id, !.info = New]
         IN  \/ /\ Get("node", id) = {} /\ UNCHANGED obj
                /\ Create(c, [j EXCEPT !.at = "look", !.new = TRUE])
             \/ \E p \in Get("node", id) :
                  /\ Begin(c, [j EXCEPT !.at = "drop", !.ptr = p], Stopped(id))
                  /\ obj' = [obj EXCEPT ![p].run = FALSE]
    /\ UNCHANGED list /\ ReqStep

\* A request that finds a node, with a place to go on at.
OnNode(c, place, h(_)) ==
    /\ subject = {"node", "ep"}
    /\ \E id \in Nodes : \E p \in Get("node", id) :
         Begin(c, [Idle EXCEPT !.at = place, !.id = id, !.ptr = p, !.info = New], h(id))
    /\ UNCHANGED list /\ ReqStep

Halted(p) == [obj EXCEPT ![p].run = FALSE]
Unmarked(id) == history

NODE_destroy(c) == OnNode(c, "empty", Stopped) /\ obj' = Halted(job'[c].ptr)
NODE_run(c) == OnNode(c, "start", Unmarked) /\ UNCHANGED obj
NODE_set(c) == OnNode(c, "write", Unmarked) /\ UNCHANGED obj

NODE_stop(c) ==
    /\ subject = {"node", "ep"}
    /\ \E id \in Nodes : \E p \in Get("node", id) :
         /\ Begin(c, Idle, Stopped(id)) /\ obj' = Halted(p)
    /\ UNCHANGED list /\ ReqStep

EP_create(c) ==
    /\ subject = {"node", "ep"}
    /\ \E id \in Endpoints, did \in Nodes : \E n \in Get("node", did) :
         Create(c, [Idle EXCEPT !.at = "look", !.kind = "ep", !.id = id,
                                !.info = did, !.node = n, !.new = TRUE])
    /\ UNCHANGED memory /\ ReqStep

EP_destroy(c) ==
    /\ subject = {"node", "ep"}
    /\ \E id \in Endpoints : \E e \in Get("ep", id) :
         LET j == [Idle EXCEPT !.kind = "ep", !.id = id, !.info = obj[e].info, !.ep = e]
             found == Get("node", obj[e].info)
         IN  \/ \E n \in found : Begin(c, [j EXCEPT !.at = "unlink", !.node = n], history)
             \/ found = {} /\ Begin(c, [j EXCEPT !.at = "unhook"], history)
    /\ UNCHANGED memory /\ ReqStep

EP_set(c) ==
    /\ subject = {"node", "ep"}
    /\ \E id \in Endpoints, did \in Nodes : \E e \in Get("ep", id) :
         Begin(c, [Idle EXCEPT !.at = "save", !.kind = "ep", !.id = id,
                               !.info = did, !.ptr = e], history)
    /\ UNCHANGED memory /\ ReqStep

CreatePlain(c, k) ==
    /\ subject = {k}
    /\ \E id \in Others :
         Create(c, [Idle EXCEPT !.at = "append", !.kind = k, !.id = id,
                                !.info = New, !.new = TRUE])
    /\ UNCHANGED memory /\ ReqStep

OnPlain(c, k, place) ==
    /\ subject = {k}
    /\ \E id \in Others : \E p \in Get(k, id) :
         Begin(c, [Idle EXCEPT !.at = place, !.kind = k, !.id = id,
                               !.info = New, !.ptr = p], history)
    /\ UNCHANGED memory /\ ReqStep

TRIGGER_add(c) == CreatePlain(c, "trigger")
TRIGGER_del(c) == OnPlain(c, "trigger", "drop")
TRIGGER_set(c) == OnPlain(c, "trigger", "save")
ACTION_add(c) == CreatePlain(c, "action")
ACTION_del(c) == OnPlain(c, "action", "drop")
ACTION_set(c) == OnPlain(c, "action", "save")
RULE_add(c) == CreatePlain(c, "rule")
RULE_del(c) == OnPlain(c, "rule", "drop")
RULE_set(c) == OnPlain(c, "rule", "save")

\* A session without one takes up what its client asks for, if that may ask for more.
Request(c) ==
    /\ job[c].at = "idle" /\ events < MaxEvents
    /\ \/ NODE_create(c) \/ NODE_destroy(c) \/ NODE_run(c) \/ NODE_stop(c) \/ NODE_set(c)
       \/ EP_create(c) \/ EP_destroy(c) \/ EP_set(c)
       \/ TRIGGER_add(c) \/ TRIGGER_del(c) \/ TRIGGER_set(c)
       \/ ACTION_add(c) \/ ACTION_del(c) \/ ACTION_set(c)
       \/ RULE_add(c) \/ RULE_del(c) \/ RULE_set(c)
-------------------------------------------------------------------------------
(* The main thread.                                                           *)

MainStep == UNCHANGED <<store, memory, lost>>
Free == job[Main].at = "idle"

\* What the data manager lists of a kind: it lists no triggers, and of its rules the
\* number but never the identifiers.
Served(k) == IF k = "trigger" \/ k \notin Kinds THEN {} ELSE Rows(k)
Named(k) == IF k = "rule" THEN {} ELSE Served(k)

Syncing(k, next) ==
    /\ state = "CONNECTED" /\ Free /\ sync.phase <= Len(Order)
    /\ Order[sync.phase] = k /\ sync.next = next

LeaveOut(k, S) ==
    [history EXCEPT !.cut = @ \cup {<<k, id>> : id \in (IF k \in Kinds THEN Rows(k) ELSE {}) \ S}]

NextKind == [Unsynced EXCEPT !.phase = sync.phase + 1]

\* A count that fails ends the synchronisation; the next begins with the nodes.
Count(k) ==
    /\ Syncing(k, "count")
    /\ \/ /\ sync' = IF Served(k) = {} THEN NextKind
                     ELSE [sync EXCEPT !.count = Cardinality(Served(k)), !.next = "list"]
          /\ history' = LeaveOut(k, Served(k)) /\ UNCHANGED events
       \/ /\ Event
          /\ sync' = Unsynced /\ history' = [history EXCEPT !.rounds = @ + 1]
    /\ UNCHANGED <<state, job>> /\ MainStep

\* As many identifiers as were counted, and as fit into the answer; where none come
\* the kind is passed over.
List(k) ==
    LET room == IF sync.count < Window THEN sync.count ELSE Window
    IN  /\ Syncing(k, "list")
        /\ \/ \E S \in SUBSET Named(k) :
                /\ Cardinality(S) <= room /\ Cardinality(S) < room => S = Named(k)
                /\ sync' = [sync EXCEPT !.todo = S, !.next = "load"]
                /\ history' = LeaveOut(k, S) /\ UNCHANGED events
           \/ /\ Event
              /\ sync' = NextKind /\ history' = LeaveOut(k, {})
        /\ UNCHANGED <<state, job>> /\ MainStep

\* One identifier after the other: what the data manager says of it is handed to
\* FTOM_NODE_create and the like; if it says nothing, the next.
Load(k, place) ==
    /\ Syncing(k, "load")
    /\ \/ \E id \in sync.todo :
            /\ sync' = [sync EXCEPT !.todo = @ \ {id}]
            /\ \/ /\ row[k][id] # NoRow /\ UNCHANGED events
                  /\ Take(Main, [Idle EXCEPT !.at = place, !.kind = k, !.id = id,
                                             !.info = row[k][id]], history)
               \/ row[k][id] = NoRow /\ UNCHANGED <<job, events, history>>
               \/ /\ Event
                  /\ history' = [history EXCEPT !.failed = @ \cup {<<k, id>>}]
                  /\ UNCHANGED job
       \/ sync.todo = {} /\ sync' = NextKind /\ UNCHANGED <<job, events, history>>
    /\ UNCHANGED state /\ MainStep

SyncNodes == Count("node") \/ List("node") \/ Load("node", "look")
SyncClasses == Count("class")
SyncEPs == Count("ep") \/ List("ep") \/ Load("ep", "look")
SyncTriggers == Count("trigger")
SyncActions == Count("action") \/ List("action") \/ Load("action", "append")
SyncRules == Count("rule") \/ List("rule") \/ Load("rule", "append")

Synchronized ==
    /\ state = "CONNECTED" /\ Free /\ sync.phase > Len(Order)
    /\ state' = "SYNCHRONIZED" /\ sync' = [Unsynced EXCEPT !.count = Len(list["node"])]
    /\ UNCHANGED <<job, events, history>> /\ MainStep

\* FTOM_TASK_start: the nodes by their place in the list, first of those there were.
StartFrom(first) ==
    LET i == sync.phase
    IN  /\ state = "SYNCHRONIZED" /\ Free /\ UNCHANGED events /\ MainStep
        /\ \/ /\ i <= sync.count
              /\ sync' = [sync EXCEPT !.phase = i + 1] /\ UNCHANGED state
              /\ \/ /\ first <= i /\ i <= Len(list["node"])
                    /\ LET p == list["node"][i]
                       IN  Take(Main, [Idle EXCEPT !.at = "start", !.id = obj[p].id,
                                                   !.ptr = p], history)
                 \/ ~(first <= i /\ i <= Len(list["node"])) /\ UNCHANGED <<job, history>>
           \/ /\ i > sync.count /\ state' = "PROCESSING" /\ sync' = Unsynced
              /\ UNCHANGED <<job, history>>

\* Fault: counts from one.
StartNextButFirst == StartFrom(2)

StartNext == StartFrom(1)

MainThread ==
    \/ /\ Free
       /\ \/ SyncNodes \/ SyncClasses \/ SyncEPs \/ SyncTriggers \/ SyncActions \/ SyncRules
          \/ Synchronized \/ StartNext
    \/ Step(Main)

\* The process dies and is started again, between any two steps.
Restart ==
    /\ Event
    /\ obj' = <<>> /\ list' = [k \in Kinds |-> <<>>]
    /\ state' = "CONNECTED" /\ sync' = Unsynced
    /\ job' = [t \in Threads |-> Idle]
    /\ lost' = FALSE /\ history' = Blank
    /\ UNCHANGED <<store>>

Next ==
    \/ ~lost /\ MainThread
    \/ ~lost /\ \E c \in Consoles : Request(c) \/ Step(c)
    \/ Restart

Spec == Init /\ [][Next]_vars

-------------------------------------------------------------------------------
(* Types.                                                                     *)

Identifiers == Nodes \cup Endpoints \cup Others \cup {NoRow}  \* and what stands for none
Contents == Nodes \cup {Old, New, NoRow}
Keys == Kinds \X Identifiers

Objects == [kind : Kinds, id : Identifiers, info : Contents, alive : BOOLEAN,
            node : Nat, eps : Seq(Nat), run : BOOLEAN]

Places == {"idle", "look", "add", "append", "start", "empty", "drop", "purge", "delist",
           "write", "save", "seek", "link", "unlink", "unhook", "dropEP", "delistEP"}

Jobs == [at : Places, kind : Kinds, id : Identifiers, info : Contents,
         ptr : Nat, node : Nat, ep : Nat, new : BOOLEAN, back : {"idle", "empty", "purge"}]

Histories == [failed : SUBSET Keys, raced : SUBSET Keys, cut : SUBSET Keys, early : SUBSET Keys,
              orphaned : SUBSET Identifiers, moved : SUBSET Identifiers,
              stopped : SUBSET Identifiers, rounds : Nat \ {0}, removals : Nat]

TypeOK ==
    /\ subject \in {{"node", "ep"}, {"trigger"}, {"action"}, {"rule"}}
    /\ DOMAIN row = Kinds /\ \A k \in Kinds : row[k] \in [Ids(k) -> Contents]
    /\ obj \in Seq(Objects) /\ list \in [Kinds -> Seq(Nat)]
    /\ state \in {"CONNECTED", "SYNCHRONIZED", "PROCESSING"}
    /\ sync \in [phase : Nat \ {0}, count : Nat, todo : SUBSET Identifiers,
                 next : {"count", "list", "load"}]
    /\ job \in [Threads -> Jobs]
    /\ events \in 0..MaxEvents /\ lost \in BOOLEAN /\ history \in Histories

-------------------------------------------------------------------------------
(* Properties.                                                                *)

Busy(k, id) ==
    \E t \in Threads :
        LET j == job[t]
        IN  j.at # "idle" /\ (Key(j) = <<k, id>> \/ (k = "ep" /\ j.ep # 0 /\ obj[j.ep].id = id))
Excused(k, id) == <<k, id>> \in history.failed \cup history.raced \cup history.cut

\* Nothing looks for a trigger, an action or a rule before it is listed once more, by a
\* synchronisation that is repeated or comes after a session.
MayBeTwice(k, id) ==
    k \notin {"node", "ep"} /\ (history.rounds > 1 \/ <<k, id>> \in history.early)

\* Once the nodes are started, the gateway lists what the data manager holds and
\* nothing else, and says the same of it, whatever sessions created, destroyed and set
\* before and meanwhile.  Left out is what is being worked on, what a failed call of the
\* data manager, a failed creation or two threads at once were about, and what the data
\* manager did not name.
InStep ==
    (state = "PROCESSING" /\ ~lost) =>
        \A k \in subject : \A id \in Ids(k) :
            \/ Busy(k, id) \/ Excused(k, id) \/ MayBeTwice(k, id)
            \/ /\ (id \in Rows(k)) <=> (Holders(k, id) # {})
               /\ \A p \in Holders(k, id) : obj[p].info = row[k][id]

Twice(k, id) ==
    \E i, j \in DOMAIN list[k] : i # j /\ obj[list[k][i]].id = id /\ obj[list[k][j]].id = id

\* A node or an endpoint is never listed twice unless two threads create it at once;
\* a synchronisation that begins again meets those of the one before.  Nothing looks
\* for a trigger, an action or a rule: such an object is listed twice only where the
\* synchronisation was repeated, a session was faster than it, or one identifier was
\* given twice.
OnceEach ==
    ~lost => \A k \in subject : \A id \in Ids(k) :
        Twice(k, id) =>
            \/ <<k, id>> \in history.raced
            \/ MayBeTwice(k, id) \/ Busy(k, id) \/ <<k, id>> \in history.failed

\* What a node has in its list of endpoints is an endpoint that exists and that has
\* this node, and it has it once, also while nodes and endpoints come and go.
LinksSound ==
    ~lost => \A n \in Listed("node") :
        <<"node", obj[n].id>> \notin history.raced =>
            \A i \in DOMAIN obj[n].eps :
                LET e == obj[n].eps[i]
                IN  <<"ep", obj[e].id>> \notin history.raced =>
                        /\ obj[e].alive /\ obj[e].node = n
                        /\ \A j \in DOMAIN obj[n].eps : obj[n].eps[j] = e => i = j

\* A listed endpoint can be destroyed: where its node is listed it is linked to it, and
\* so FTOM_NODE_unlinkEP will not refuse.  Left out are endpoints that had no node to be
\* linked to when they were made, or were given another one since.
HasItsNode ==
    ~lost => \A e \in Listed("ep") :
        LET o == obj[e]
        IN  \/ Busy("ep", o.id) \/ Excused("ep", o.id)
            \/ Busy("node", o.info) \/ <<"node", o.info>> \in history.raced
            \/ o.id \in history.orphaned \cup history.moved
            \/ \A n \in Holders("node", o.info) : o.node = n

\* When the main thread has started the nodes, no more of them stand still, with nobody
\* having stopped them, than were removed meanwhile: each removal moves the rest of the
\* list up by one.
NoneSkipped ==
    (state = "PROCESSING" /\ ~lost) =>
        Cardinality({n \in Listed("node") :
            /\ ~obj[n].run /\ ~Busy("node", obj[n].id)
            /\ obj[n].id \notin history.stopped
            /\ <<"node", obj[n].id>> \notin history.failed}) <= history.removals
==============================================================================
