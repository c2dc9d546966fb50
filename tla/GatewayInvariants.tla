-------------------------- MODULE GatewayInvariants --------------------------
(***************************************************************************)
(* What is always true of Gateway, for the proofs of GatewayProofs.        *)
(*                                                                         *)
(* The inductive invariants build on each other.  Types says what a thread *)
(* has in hand at each place.  Alone says that two threads that work on    *)
(* the same object, or on an endpoint and its node, are noted in           *)
(* history.raced as soon as they do; so whoever works on an object that is *)
(* not noted is alone with it, and its steps are the only ones that change *)
(* it.  Links says where endpoints and nodes are linked, Lists what of     *)
(* them is listed, and Knows what each thread knows, at the place it is    *)
(* at, of the list and of the row of its object.  Homes says of every      *)
(* listed endpoint that it is linked to the node it names, or on its way   *)
(* to it or away from it.  Roles, Distinct and Starting are about the main *)
(* thread on its way through the nodes: Roles says which thread makes      *)
(* nodes and when, Distinct that each is listed once, and Starting that    *)
(* what stands still is where the main thread will come to, but for as     *)
(* many as were removed.                                                   *)
(*                                                                         *)
(* A step of a thread is described once by what it does to the objects,    *)
(* the lists and the rows (Deed), and once by what it leaves alone (Minds, *)
(* Moves); the invariants are proved from these descriptions.              *)
(***************************************************************************)
EXTENDS Gateway

-------------------------------------------------------------------------------
(* Types.                                                                     *)

Plain == {"trigger", "action", "rule"}
Linked == {"node", "ep"}

\* A pointer to an object of kind k and identifier id, alive or not.
Is(p, k, id) == p \in DOMAIN obj /\ obj[p].kind = k /\ obj[p].id = id

\* What the objects and the lists point to.
ObjOK(p) ==
    /\ obj[p].id \in Ids(obj[p].kind)
    /\ \A e \in ToSet(obj[p].eps) : e \in DOMAIN obj /\ obj[e].kind = "ep"
    /\ obj[p].eps # <<>> => obj[p].kind = "node"
    /\ obj[p].node # 0 => obj[p].node \in DOMAIN obj /\ obj[obj[p].node].kind = "node"

ListsOK ==
    /\ list \in [Kinds -> Seq(Nat)]
    /\ \A k \in Kinds : \A p \in Listed(k) : p \in DOMAIN obj /\ obj[p].kind = k

RowsOK == DOMAIN row = Kinds /\ \A k \in Kinds : row[k] \in [Ids(k) -> Contents]

\* What a thread holds at the place it is at.
NodeHand(j) ==
    /\ j.at \in {"look", "add", "append", "start", "empty", "drop", "purge", "delist",
                 "write", "save", "dropEP", "delistEP"}
    /\ j.at # "look" => Is(j.ptr, "node", j.id)
    /\ IF j.at \in {"dropEP", "delistEP"}
       THEN j.ep \in DOMAIN obj /\ obj[j.ep].kind = "ep" /\ j.back \in {"empty", "purge"}
       ELSE j.ep = 0
EPHand(j) ==
    /\ j.at \in {"look", "append", "add", "seek", "link", "unlink", "unhook", "dropEP",
                 "delistEP", "save", "write"}
    /\ j.back = "idle"
    /\ IF j.at \in {"unlink", "unhook", "dropEP", "delistEP"}
       THEN Is(j.ep, "ep", j.id)
       ELSE j.ep = 0 /\ (j.at # "look" => Is(j.ptr, "ep", j.id))
    /\ (j.at \in {"link", "unlink", "add"} \/ (j.new /\ j.at \in {"look", "append"}))
         => Is(j.node, "node", j.info)
PlainHand(j) ==
    /\ j.at \in {"append", "add", "drop", "delist", "save", "write"} /\ j.ep = 0
    /\ j.at # "append" => Is(j.ptr, j.kind, j.id)

Hand(j) ==
    /\ j.id \in Ids(j.kind)
    /\ j.kind = "node" => NodeHand(j)
    /\ j.kind = "ep" => EPHand(j)
    /\ j.kind \in Plain => PlainHand(j)

Hands == \A t \in Threads : job[t] = Idle \/ (job[t].at # "idle" /\ Hand(job[t]))

\* What the main thread is to load.
TodoOK ==
    sync.next = "load" /\ state = "CONNECTED" =>
        \A k \in Kinds : Order[sync.phase] = k => sync.todo \subseteq Ids(k)

Types == TypeOK /\ (\A p \in DOMAIN obj : ObjOK(p)) /\ ListsOK /\ Hands /\ TodoOK

-------------------------------------------------------------------------------
(* Races.                                                                     *)

Raced(k, id) == <<k, id>> \in history.raced
Together(a, b) == {Key(a), Key(b)} \cup (Holds(a) \cap Holds(b))

\* Two threads that work on the same object, or on a node and an endpoint of it, are
\* noted as soon as they do.
Alone ==
    \A t, u \in Threads :
        t # u /\ Clash(job[t], job[u]) => Together(job[t], job[u]) \subseteq history.raced

-------------------------------------------------------------------------------
(* Endpoints and the lists of the nodes they are attached to.                 *)

\* An endpoint has no node where it is on its way to one, and where it is taken apart.
Bare(t) ==
    LET j == job[t]
    IN  /\ j.kind = "ep" /\ j.at \in {"append", "add", "seek", "link"} /\ ~Raced("ep", j.id) =>
             obj[j.ptr].node = 0
        /\ j.at \in {"dropEP", "delistEP"} /\ ~Raced("ep", obj[j.ep].id) => obj[j.ep].node = 0

Attached(n) ==
    \A i \in DOMAIN obj[n].eps :
        LET e == obj[n].eps[i]
        IN  ~Raced("ep", obj[e].id) =>
              /\ obj[e].alive /\ obj[e].node = n
              /\ \A j \in DOMAIN obj[n].eps : obj[n].eps[j] = e => i = j

Links == (\A n \in DOMAIN obj : Attached(n)) /\ \A t \in Threads : Bare(t)

-------------------------------------------------------------------------------
(* What is listed, and how often.                                             *)

\* A thread at this place has found its object in the list, or put it there.
Grasp(j) ==
    \/ j.kind = "node" /\ j.at \notin {"idle", "look", "add", "append"}
    \/ j.kind = "ep" /\ j.at \in {"add", "seek", "link", "save", "write"}
    \/ j.kind \in Plain /\ j.at \notin {"idle", "append"}

\* A node may work without being listed where a call that was about it has failed.
Loose(k, id) == k = "node" /\ <<k, id>> \in history.failed

InHand(t) ==
    LET j == job[t]
    IN  /\ Grasp(j) /\ ~Raced(j.kind, j.id) /\ ~Loose(j.kind, j.id) => j.ptr \in Listed(j.kind)
        /\ j.ep # 0 /\ ~Raced("ep", obj[j.ep].id) => j.ep \in Listed("ep")

Placed(e) == obj[e].kind = "ep" /\ obj[e].node # 0 /\ ~Raced("ep", obj[e].id) => e \in Listed("ep")

\* A job that has found no such object, and is to list one.
Adds(j, k, id) == j.kind = k /\ j.id = id /\ (j.at = "append" \/ (k = "node" /\ j.at = "add"))

Once(k, id) ==
    ~Raced(k, id) => /\ ~Twice(k, id)
                     /\ \A t \in Threads : Adds(job[t], k, id) => Holders(k, id) = {}

Lists ==
    /\ \A t \in Threads : InHand(t)
    /\ \A e \in DOMAIN obj : Placed(e)
    /\ \A k \in Linked : \A id \in Ids(k) : Once(k, id)

-------------------------------------------------------------------------------
(* What the lists and the data manager say of the same object.                *)

\* Nobody else works on an object that was never raced for.
Works(t, k, id) == job[t].at # "idle" /\ <<k, id>> \in Holds(job[t])

\* The synchronisation has still to come to the row, or has still to load it.
NotYet(k, id) ==
    /\ state = "CONNECTED" /\ \A i \in 1..(sync.phase - 1) : Order[i] # k
    /\ sync.phase <= Len(Order) /\ Order[sync.phase] = k /\ sync.next = "load" => id \in sync.todo

\* Nothing is left out of an object that no two threads and no failed call were about,
\* and that cannot have been loaded twice.
Regular(k, id) == <<k, id>> \notin history.raced \cup history.failed /\ ~MayBeTwice(k, id)

\* What is listed is what the data manager holds; and what it holds is listed, is still
\* to be loaded, or was left out.
Backed(k, id) == \A p \in Holders(k, id) : obj[p].info = row[k][id] /\ row[k][id] # NoRow
Shown(k, id) == row[k][id] # NoRow => Holders(k, id) # {} \/ NotYet(k, id) \/ <<k, id>> \in history.cut
Settled(k, id) == Backed(k, id) /\ Shown(k, id)

\* The content is what the data manager holds; the object, listed or not, has it.
Stored(k, id, info) == row[k][id] = info /\ info # NoRow
Carries(p, info) == obj[p].info = info /\ info # NoRow

\* What holds while thread t works on a node, an endpoint, or another object.
NodeClaim(j, id) ==
    /\ j.at = "look" => IF j.new THEN Settled("node", id) /\ j.info # NoRow
                        ELSE Stored("node", id, j.info) /\ Backed("node", id)
    /\ j.at \in {"add", "save"} => Carries(j.ptr, j.info)
    /\ j.at = "append" => Carries(j.ptr, j.info) /\ Stored("node", id, j.info)
    /\ j.at \in {"start", "empty", "drop", "write"} => Backed("node", id)
    /\ j.at = "write" => j.info # NoRow
    /\ j.at \in {"dropEP", "delistEP"} /\ j.back = "empty" => Backed("node", id)
    /\ j.at \in {"dropEP", "delistEP"} /\ j.back = "purge" => row["node"][id] = NoRow
    /\ j.at \in {"purge", "delist"} => row["node"][id] = NoRow

EPClaim(j, id) ==
    /\ j.at = "look" => IF j.new THEN Settled("ep", id) /\ j.info # NoRow
                        ELSE Stored("ep", id, j.info) /\ Backed("ep", id)
    /\ j.at \in {"append", "add"} => Carries(j.ptr, j.info)
    /\ j.at = "append" /\ ~j.new => Stored("ep", id, j.info)
    /\ j.at \in {"seek", "link", "unlink", "unhook", "save"} => Backed("ep", id)
    /\ j.at = "save" => j.info # NoRow
    /\ j.at = "write" => Stored("ep", id, j.info)

PlainClaim(j, k, id) ==
    /\ j.at # "add" => ~Twice(k, id)
    /\ j.at = "append" => IF j.new THEN Settled(k, id) /\ j.info # NoRow
                          ELSE Stored(k, id, j.info) /\ Holders(k, id) = {}
    /\ j.at = "add" => /\ Carries(j.ptr, j.info)
                       /\ row[k][id] = NoRow => Holders(k, id) = {j.ptr} /\ ~Twice(k, id)
    /\ j.at = "drop" => Backed(k, id)
    /\ j.at = "delist" => row[k][id] = NoRow
    /\ j.at # "write"

\* The endpoint in hand, whoever destroys it.
KillClaim(j, id) ==
    /\ j.at = "dropEP" => Backed("ep", id)
    /\ j.at = "delistEP" => row["ep"][id] = NoRow

Claim(t, k, id) ==
    LET j == job[t]
    IN  /\ Key(j) = <<k, id>> =>
             /\ k = "node" => NodeClaim(j, id)
             /\ k = "ep" => EPClaim(j, id)
             /\ k \in Plain => PlainClaim(j, k, id)
        /\ k = "ep" => KillClaim(j, id)

\* What the synchronisation is still to load is not there yet, and nobody works on it.
Unborn(k, id) == k \in Plain /\ NotYet(k, id) => Holders(k, id) = {} /\ ~Busy(k, id)

\* What nobody works on.
Rested(k, id) == ~Busy(k, id) => Settled(k, id) /\ ~Twice(k, id)

Known(k, id) ==
    Regular(k, id) =>
        /\ \A t \in Threads : Works(t, k, id) => Claim(t, k, id)
        /\ Unborn(k, id) /\ Rested(k, id)

Knows == \A k \in Kinds : \A id \in Ids(k) : Known(k, id)

-------------------------------------------------------------------------------
(* The node that an endpoint is linked to.                                    *)

\* A thread that has found the node that an endpoint is to be linked to.
Expects(j) == j.kind = "ep" /\ (j.at \in {"link", "add"} \/ (j.new /\ j.at \in {"look", "append"}))

\* The node that an endpoint is to be linked to is listed, and the endpoint says which it
\* is; a node that is taken off the list has no endpoint left.
Ready(t) ==
    LET j == job[t]
    IN  /\ Expects(j) /\ ~Raced("node", j.info) => j.node \in Listed("node")
        /\ j.kind = "ep" /\ j.at \in {"append", "add", "seek", "link"} /\ ~Raced("ep", j.id)
             => obj[j.ptr].info = j.info
        /\ j.kind = "node" /\ j.at = "delist" /\ ~Raced("node", j.id) => obj[j.ptr].eps = <<>>

\* The node of an endpoint has it in its list.
Counted(e) ==
    obj[e].node # 0 /\ ~Raced("node", obj[obj[e].node].id) => e \in ToSet(obj[obj[e].node].eps)

\* An endpoint that is on its way to its node or away from it; every other has its node.
OnItsWay(t, id) ==
    Works(t, "ep", id) /\ job[t].at \in {"append", "add", "seek", "link", "dropEP", "delistEP"}

HasNode(e) ==
    LET o == obj[e]
    IN  Raced("node", o.info) \/ (o.node \in Listed("node") /\ obj[o.node].id = o.info)

AtHome(id) ==
    /\ ~Raced("ep", id) /\ id \notin history.orphaned \cup history.moved
    /\ \A t \in Threads : ~OnItsWay(t, id)

Homed(e) == AtHome(obj[e].id) => HasNode(e)

Homes ==
    /\ \A t \in Threads : Ready(t)
    /\ \A e \in DOMAIN obj : Counted(e)
    /\ \A e \in Listed("ep") : Homed(e)

-------------------------------------------------------------------------------
(* Which nodes the main thread has not started.                               *)

\* A node that stands still, with nobody having stopped it.
Standing(p) ==
    /\ ~obj[p].run /\ obj[p].id \notin history.stopped
    /\ <<"node", obj[p].id>> \notin history.failed

\* Whoever works with j will start it, or has made it and takes it away again.
Tends(j, p) ==
    /\ j.kind = "node" /\ j.ptr = p
    /\ \/ j.at = "start"
       \/ j.new /\ (j.at \in {"drop", "purge", "delist"}
                    \/ (j.at \in {"dropEP", "delistEP"} /\ j.back = "purge"))

Forgotten(p) == Standing(p) /\ \A t \in Threads : ~Tends(job[t], p)

Neglected == {p \in DOMAIN obj : Forgotten(p)}

\* Places of the list of nodes where such a node is, and those the main thread will not
\* come to any more.
Missed == {q \in DOMAIN list["node"] : list["node"][q] \in Neglected}
Passed == IF state = "SYNCHRONIZED" THEN {q \in Missed : q < sync.phase} ELSE Missed

\* Only the main thread makes nodes that it does not start at once, and only before the
\* synchronisation has ended.
Roles ==
    /\ ~job[Main].new /\ (state # "CONNECTED" => job[Main].at \in {"idle", "start"})
    /\ \A c \in Consoles : job[c].kind = "node" /\ job[c].at \in {"look", "add", "append"} => job[c].new

\* j is about to list a node; it has a pointer of its own, and each pointer is listed once.
ToList(j) == j.kind = "node" /\ j.at \in {"add", "append"}
Distinct ==
    /\ \A i, k \in DOMAIN list["node"] : list["node"][i] = list["node"][k] => i = k
    /\ \A t \in Threads : ToList(job[t]) =>
         /\ job[t].ptr \notin Listed("node")
         /\ \A u \in Threads \ {t} : ToList(job[u]) => job[u].ptr # job[t].ptr

\* What is not started yet is where the main thread will come to, but for as many nodes as
\* were removed.
Starting ==
    /\ state = "SYNCHRONIZED" => Missed \subseteq 1..sync.count
    /\ state # "CONNECTED" => Cardinality(Passed) <= history.removals

-------------------------------------------------------------------------------
(* What a step leaves alone: all that its thread does not work on.            *)

\* What a thread's steps do to its job.
OthersStay(t) == \A u \in Threads \ {t} : job'[u] = job[u]
SameJob(t) ==
    /\ job'[t].kind = job[t].kind /\ job'[t].id = job[t].id
    /\ job'[t].info = job[t].info
    /\ job'[t].new = job[t].new \/ (job[t].kind = "ep" /\ job[t].at = "link" /\ ~job'[t].new)
SameHands(t) ==
    /\ job'[t].ptr = job[t].ptr /\ job'[t].node = job[t].node
    /\ job'[t].ep = job[t].ep /\ job'[t].back = job[t].back

\* Objects keep what they are about, and are never fewer.
ObjGrows ==
    /\ DOMAIN obj \subseteq DOMAIN obj'
    /\ \A p \in DOMAIN obj : obj'[p].kind = obj[p].kind /\ obj'[p].id = obj[p].id

\* Thread t moved: the other jobs stayed as they were.
Moves(t) == ObjGrows /\ OthersStay(t)

\* Nothing is written but whether nodes run.
OnlyRun ==
    /\ DOMAIN obj' = DOMAIN obj
    /\ \A p \in DOMAIN obj :
         /\ obj'[p].kind = obj[p].kind /\ obj'[p].id = obj[p].id /\ obj'[p].info = obj[p].info
         /\ obj'[p].alive = obj[p].alive /\ obj'[p].node = obj[p].node /\ obj'[p].eps = obj[p].eps

Enlists(t) ==
    \E p \in DOMAIN obj' :
        /\ job[t].at = "append" /\ obj'[p].kind = job[t].kind /\ obj'[p].id = job[t].id
        /\ list' = [list EXCEPT ![job[t].kind] = Append(@, p)]
Unlists(t) ==
    \E k \in Kinds, p \in DOMAIN obj :
        /\ job[t].at \in {"delist", "delistEP"} /\ obj[p].kind = k /\ Works(t, k, obj[p].id)
        /\ obj'[p].node = 0
        /\ list' = [list EXCEPT ![k] = Without(@, p)]

\* An endpoint gets a node where it is linked to it, and nowhere else.
Nodeless(t) ==
    \A p \in DOMAIN obj' :
        \/ obj'[p].node = 0
        \/ p \in DOMAIN obj /\ obj'[p].node = obj[p].node
        \/ p = job[t].ptr /\ job[t].kind = "ep" /\ job[t].at = "link" /\ UNCHANGED list

Minds(t) ==
    /\ Nodeless(t)
    /\ UNCHANGED list \/ Enlists(t) \/ Unlists(t)
    /\ \A k \in Kinds : \A id \in Ids(k) : row'[k][id] = row[k][id] \/ Works(t, k, id)
    /\ \A p \in DOMAIN obj : obj'[p].info = obj[p].info \/ Works(t, obj[p].kind, obj[p].id)

-------------------------------------------------------------------------------
(* What the steps do, field by field.                                         *)

GoesTo(t, place) == SameJob(t) /\ SameHands(t) /\ job'[t].at = place
Ends(t) == job'[t] = Idle

\* p is a new object, made from the job of t.
Grown(t, p) ==
    /\ p \notin DOMAIN obj /\ DOMAIN obj' = DOMAIN obj \cup {p} /\ p # 0
    /\ \A q \in DOMAIN obj : obj'[q] = obj[q]
    /\ obj'[p].kind = job[t].kind /\ obj'[p].id = job[t].id /\ obj'[p].info = job[t].info
    /\ obj'[p].node = 0 /\ obj'[p].eps = <<>>

\* p is freed.
Gone(k, p) ==
    /\ list' = [list EXCEPT ![k] = Without(@, p)]
    /\ DOMAIN obj' = DOMAIN obj /\ \A q \in DOMAIN obj \ {p} : obj'[q] = obj[q]
    /\ obj'[p].info = obj[p].info /\ obj'[p].node = 0 /\ obj'[p].eps = <<>>

\* p is written.
Told(p, content) ==
    /\ DOMAIN obj' = DOMAIN obj /\ \A q \in DOMAIN obj \ {p} : obj'[q] = obj[q]
    /\ obj'[p].info = content /\ obj'[p].node = obj[p].node /\ obj'[p].eps = obj[p].eps

\* Endpoint e leaves node n, or joins it.
Rebound(e, n, to, eps) ==
    /\ DOMAIN obj' = DOMAIN obj /\ e # n /\ \A q \in DOMAIN obj \ {e, n} : obj'[q] = obj[q]
    /\ obj'[e].node = to /\ obj'[e].info = obj[e].info /\ obj'[e].eps = obj[e].eps
    /\ obj'[n].node = obj[n].node /\ obj'[n].info = obj[n].info /\ obj'[n].eps = eps
Split(e, n) == Rebound(e, n, 0, Without(obj[n].eps, e))
Tied(e, n) == Rebound(e, n, n, Append(obj[n].eps, e))

\* The data manager has done what it was asked to, or the call is noted.
Answered(k, id, content, applies) ==
    /\ UNCHANGED memory
    /\ (applies /\ row'[k][id] = content) \/ <<k, id>> \in history'.failed
    /\ \A l \in Kinds : \A i \in Ids(l) : <<l, i>> # <<k, id>> => row'[l][i] = row[l][i]

\* A node's destruction takes endpoint e in hand.
Takes(t, e) ==
    /\ SameJob(t) /\ job'[t].ptr = job[t].ptr /\ job'[t].at = "dropEP" /\ job'[t].ep = e
    /\ job'[t].back = job[t].at
GoesWith(t, p, place) ==
    SameJob(t) /\ job'[t].at = place /\ job'[t].ptr = p /\ job'[t].node = job[t].node /\ job'[t].ep = job[t].ep

\* What is done to the memory, and where t goes on.
NodeDeed(t) ==
    LET j == job[t]
        n == j.ptr
    IN  \/ j.at = "look" /\ UNCHANGED <<memory, row>> /\ Ends(t) /\ Holders("node", j.id) # {}
        \/ /\ j.at = "look" /\ UNCHANGED <<list, row>> /\ Holders("node", j.id) = {}
           /\ \E p : Grown(t, p) /\ GoesWith(t, p, IF j.new THEN "add" ELSE "append")
        \/ /\ j.at = "add" /\ Answered("node", j.id, j.info, row["node"][j.id] = NoRow)
           /\ GoesTo(t, "append")
        \/ /\ j.at = "append" /\ list' = [list EXCEPT !["node"] = Append(@, n)] /\ UNCHANGED <<obj, row>>
           /\ (j.new /\ GoesTo(t, "start")) \/ (~j.new /\ Ends(t))
        \/ j.at = "start" /\ OnlyRun /\ UNCHANGED <<list, row>> /\ (Ends(t) \/ (j.new /\ GoesTo(t, "drop")))
        \/ /\ j.at \in {"empty", "purge"} /\ UNCHANGED <<memory, row>> /\ obj[n].eps = <<>>
           /\ GoesTo(t, IF j.at = "empty" THEN "drop" ELSE "delist")
        \/ /\ j.at \in {"empty", "purge"} /\ UNCHANGED <<list, row>>
           /\ \E e \in ToSet(obj[n].eps) : obj[e].node = n /\ Split(e, n) /\ Takes(t, e)
        \/ j.at = "empty" /\ UNCHANGED <<memory, row>> /\ Ends(t)
        \/ j.at = "purge" /\ UNCHANGED <<memory, row, job>>
        \/ j.at = "drop" /\ Answered("node", j.id, NoRow, TRUE) /\ GoesTo(t, "purge")
        \/ j.at = "delist" /\ Gone("node", n) /\ UNCHANGED row /\ Ends(t)
        \/ j.at = "write" /\ Told(n, j.info) /\ UNCHANGED <<list, row>> /\ GoesTo(t, "save")
        \/ j.at = "write" /\ UNCHANGED <<memory, row>> /\ Ends(t)
        \/ j.at = "save" /\ Answered("node", j.id, j.info, row["node"][j.id] # NoRow) /\ Ends(t)

EPDeed(t) ==
    LET j == job[t]
        e == j.ptr
    IN  \/ j.at = "look" /\ UNCHANGED <<memory, row>> /\ Ends(t) /\ Holders("ep", j.id) # {}
        \/ /\ j.at = "look" /\ UNCHANGED <<list, row>> /\ Holders("ep", j.id) = {}
           /\ \E p : Grown(t, p) /\ GoesWith(t, p, "append")
        \/ /\ j.at = "append" /\ list' = [list EXCEPT !["ep"] = Append(@, e)] /\ UNCHANGED <<obj, row>>
           /\ GoesTo(t, IF j.new THEN "add" ELSE "seek")
        \/ /\ j.at = "add" /\ Answered("ep", j.id, j.info, row["ep"][j.id] = NoRow)
           /\ GoesTo(t, "link")
        \/ /\ j.at = "seek" /\ UNCHANGED <<memory, row>>
           /\ \/ /\ SameJob(t) /\ job'[t].at = "link" /\ job'[t].ptr = e /\ job'[t].ep = j.ep
                 /\ job'[t].node \in Get("node", j.info)
              \/ Ends(t) /\ j.id \in history'.orphaned
        \/ j.at = "link" /\ UNCHANGED <<memory, row>> /\ GoesTo(t, "seek")
        \/ /\ j.at = "link" /\ UNCHANGED <<list, row>> /\ Ends(t)
           /\ Tied(e, j.node) \/ (UNCHANGED obj /\ j.id \in history'.orphaned)
        \/ /\ j.at = "unlink" /\ UNCHANGED <<list, row>> /\ obj[j.ep].node = j.node /\ Split(j.ep, j.node)
           /\ GoesTo(t, "dropEP")
        \/ j.at = "unlink" /\ UNCHANGED <<memory, row>> /\ Ends(t)
        \/ /\ j.at = "unhook" /\ UNCHANGED <<list, row>> /\ GoesTo(t, "dropEP")
           /\ \/ obj[j.ep].node = 0 /\ UNCHANGED obj
              \/ obj[j.ep].node # 0 /\ Split(j.ep, obj[j.ep].node)
        \/ /\ j.at = "save" /\ Answered("ep", j.id, j.info, row["ep"][j.id] # NoRow)
           /\ GoesTo(t, "write")
        \/ /\ j.at = "write" /\ Told(e, j.info) /\ UNCHANGED <<list, row>>
           /\ obj[e].info = j.info \/ j.id \in history'.moved
           /\ Ends(t) \/ (obj[e].node = 0 /\ GoesTo(t, "seek"))

\* Whoever has the endpoint in hand.
KillDeed(t) ==
    LET j == job[t]
    IN  \/ j.at = "dropEP" /\ Answered("ep", obj[j.ep].id, NoRow, TRUE) /\ GoesTo(t, "delistEP")
        \/ /\ j.at = "delistEP" /\ Gone("ep", j.ep) /\ UNCHANGED row
           /\ \/ j.kind = "ep" /\ Ends(t)
              \/ /\ j.kind = "node" /\ SameJob(t) /\ job'[t].ptr = j.ptr /\ job'[t].at = j.back
                 /\ job'[t].ep = 0

PlainDeed(t) ==
    LET j == job[t]
        k == j.kind
    IN  \/ /\ j.at = "append" /\ UNCHANGED row
           /\ \E p : /\ Grown(t, p) /\ list' = [list EXCEPT ![k] = Append(@, p)]
                     /\ (j.new /\ GoesWith(t, p, "add")) \/ (~j.new /\ Ends(t))
        \/ j.at = "add" /\ Answered(k, j.id, j.info, row[k][j.id] = NoRow) /\ Ends(t)
        \/ j.at = "drop" /\ Answered(k, j.id, NoRow, k # "trigger") /\ GoesTo(t, "delist")
        \/ j.at = "delist" /\ Gone(k, j.ptr) /\ UNCHANGED row /\ Ends(t)
        \/ j.at = "save" /\ Answered(k, j.id, j.info, FALSE) /\ GoesTo(t, "write")
        \/ j.at = "write" /\ Told(j.ptr, j.info) /\ UNCHANGED <<list, row>> /\ Ends(t)

\* Nothing is done, and that is noted.
FailDeed(t) ==
    LET j == job[t]
    IN  /\ UNCHANGED <<memory, row>> /\ Key(j) \in history'.failed /\ j.ep = 0
        /\ j.at = "look" \/ (j.at = "append" /\ j.kind # "ep")
        /\ Ends(t) \/ (j.kind = "node" /\ j.at = "append" /\ j.new /\ GoesTo(t, "start"))

\* A step of t is one of these, or a freed object was used.
Deed(t) ==
    /\ job[t].at # "idle" /\ Hand(job[t]) /\ job[t] \in Jobs
    /\ \/ job[t].kind = "node" /\ NodeDeed(t)
       \/ job[t].kind = "ep" /\ EPDeed(t)
       \/ job[t].kind \in Linked /\ KillDeed(t)
       \/ job[t].kind \in Plain /\ PlainDeed(t)
       \/ FailDeed(t)
       \/ UNCHANGED <<memory, row, job>>

-------------------------------------------------------------------------------
(* What the steps do to the links, to the list of nodes, and to what runs.    *)

Calm ==
    /\ \A p \in DOMAIN obj : obj'[p].node = obj[p].node /\ obj'[p].eps = obj[p].eps
    /\ \A p \in DOMAIN obj' \ DOMAIN obj : obj'[p].node = 0
    /\ Listed("node") \subseteq Listed("node")'

Frees(t) ==
    \E k \in Kinds, p \in DOMAIN obj :
        /\ obj[p].kind = k /\ Gone(k, p) /\ Works(t, k, obj[p].id)
        /\ k = "node" => job[t].kind = "node" /\ job[t].at = "delist" /\ p = job[t].ptr

Splits(t) ==
    \E e, n \in DOMAIN obj :
        /\ obj[e].kind = "ep" /\ obj[n].kind = "node" /\ obj[e].node = n /\ Split(e, n) /\ UNCHANGED list
        /\ Works(t, "ep", obj[e].id) \/ Works(t, "ep", obj[e].id)'

Ties(t) ==
    /\ job[t].kind = "ep" /\ job[t].at = "link" /\ UNCHANGED list
    /\ Is(job[t].ptr, "ep", job[t].id) /\ Is(job[t].node, "node", job[t].info)
    /\ Tied(job[t].ptr, job[t].node)

\* Nodes run, and are counted as stopped or removed, as before.
SameRun == \A p \in DOMAIN obj : obj[p].kind = "node" => obj'[p].run = obj[p].run
SameCount == history'.stopped = history.stopped /\ history'.removals = history.removals

\* A node is started, or it is noted that it was not; or the thread takes it away again.
StartsNode(t) ==
    LET j == job[t]
    IN  /\ j.kind = "node" /\ j.at = "start" /\ SameCount /\ UNCHANGED list
        /\ \A p \in DOMAIN obj \ {j.ptr} : obj'[p].run = obj[p].run
        /\ obj'[j.ptr].run \/ Key(j) \in history'.failed \/ (j.new /\ GoesTo(t, "drop"))

\* A node is removed.
Removing(t) ==
    LET j == job[t]
    IN  /\ j.kind = "node" /\ j.at = "delist" /\ Gone("node", j.ptr) /\ Ends(t)
        /\ history'.stopped = history.stopped
        /\ history'.removals = history.removals + (IF state = "SYNCHRONIZED" THEN 1 ELSE 0)

\* Or neither.
Otherwise(t) ==
    /\ SameRun /\ SameCount
    /\ job[t].kind = "node" => job[t].at \notin {"start", "delist"}
===============================================================================
