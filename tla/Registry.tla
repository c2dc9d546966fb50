------------------------------- MODULE Registry -------------------------------
(***************************************************************************)
(* The objects the data manager keeps (src/ftdm/lib/ftdm.c): nodes,        *)
(* endpoints, triggers, actions and rules, each kind in a table that       *)
(* outlives the process and in a list of pointers beside it.               *)
(*                                                                         *)
(* Sessions add, delete and set objects at the same time.  The call on the *)
(* table and the change of the list are steps of their own, with no lock   *)
(* over both, and the five kinds differ in what they look up, in what they *)
(* list and in what a boot loads.  The kinds share nothing, so a behaviour *)
(* is about one of them.  Requests that only read, or that are refused at  *)
(* their first test, leave everything alone and are left out.              *)
(***************************************************************************)
EXTENDS Naturals, Sequences, FiniteSets

CONSTANTS Sessions,      \* threads of FTDM_SIS_service
          Ids,           \* identifiers (DID, EPID, ID)
          Infos,         \* contents of an object
          Flagged,       \* a content with FTM_EP_FLAG_STATIC set
          File,          \* nodes or endpoints in the configuration file
          NoRow,         \* no row of that identifier
          Ptrs, NoPtr,   \* blocks of the heap, and none
          MaxRequests,   \* bound: requests that change something
          MaxFailures    \* bound: calls of SQLite or malloc that fail

Kinds == {"node", "ep", "trigger", "action", "rule"}

ASSUME RowAssumption == NoRow \notin Infos
ASSUME FlagAssumption ==
    Flagged \in [Infos -> Infos] /\ \A i \in Infos : Flagged[Flagged[i]] = Flagged[i]
ASSUME FileAssumption == File \subseteq [id : Ids, info : Infos]
ASSUME PtrAssumption == NoPtr \notin Ptrs
ASSUME ObjectsAssumption == Ids # {} /\ Infos # {}
ASSUME RegistryBounds == MaxRequests \in Nat /\ MaxFailures \in Nat

VARIABLES
    kind,       \* the kind of object this behaviour is about
    table,      \* does the table exist?
    row,        \* its rows
    phase,      \* of the process: down, loading, file or serving
    list,       \* pNodeList, pEPList, pTriggerList, pActionList or pRuleList
    heap,       \* what each block holds; a freed block keeps what it held
    live,       \* the blocks that are allocated
    pc, req, ptr,       \* each session: place, request, pointer it holds
    requests, failures, \* counted against the bounds
    overlap,    \* history: identifiers two sessions worked on at once
    failed,     \* history: identifiers a failed call was about
    astray,     \* history: has a session used a freed block, or a block been
                \* handed out that the list still names?
    promised    \* history: identifiers whose creation was answered with OK

store == <<table, row>>
memory == <<list, heap, live>>
session == <<pc, req, ptr>>
bounds == <<requests, failures>>
history == <<overlap, failed, astray, promised>>
vars == <<kind, phase, store, memory, session, bounds, history>>

Places == {"idle", "recheck", "insert", "append", "unlist", "destroy", "write", "update"}
Objects == [id : Ids, info : Infos]
Blank == CHOOSE o \in Objects : TRUE

TypeOK ==
    /\ kind \in Kinds /\ table \in BOOLEAN
    /\ phase \in {"down", "loading", "file", "serving"}
    /\ row \in [Ids -> Infos \cup {NoRow}]
    /\ list \in Seq(Ptrs) /\ heap \in [Ptrs -> Objects] /\ live \subseteq Ptrs
    /\ pc \in [Sessions -> Places]
    /\ req \in [Sessions -> Objects] /\ ptr \in [Sessions -> Ptrs \cup {NoPtr}]
    /\ requests \in 0..MaxRequests /\ failures \in 0..MaxFailures
    /\ overlap \subseteq Ids /\ failed \subseteq Ids
    /\ astray \in BOOLEAN /\ promised \subseteq Ids

\* A database that was never used, or one an earlier run left behind.
Init ==
    /\ kind \in Kinds /\ table = TRUE
    /\ row \in [Ids -> Infos \cup {NoRow}]
    /\ phase = "down" /\ list = <<>> /\ live = {}
    /\ heap = [p \in Ptrs |-> Blank]
    /\ pc = [s \in Sessions |-> "idle"]
    /\ req = [s \in Sessions |-> Blank]
    /\ ptr = [s \in Sessions |-> NoPtr]
    /\ requests = 0 /\ failures = 0
    /\ overlap = {} /\ failed = {} /\ astray = FALSE /\ promised = {}

Rows == {id \in Ids : row[id] # NoRow}
Listed == {list[i] : i \in DOMAIN list}
Holders(id) == {p \in Listed \cap live : heap[p].id = id}

-------------------------------------------------------------------------------
(* The boot, and its end.                                                     *)

\* The tables are opened, and made if they are missing; with -e they are dropped
\* at once, and there is no table to write to until the next start.
Open(erase) ==
    /\ phase = "down" /\ phase' = "loading"
    /\ table' = ~erase
    /\ row' = IF erase THEN [id \in Ids |-> NoRow] ELSE row
    /\ promised' = IF erase THEN {} ELSE promised
    /\ UNCHANGED <<kind, memory, session, bounds, overlap, failed, astray>>

\* Only nodes and endpoints are read from their tables.
Unloaded == IF kind \in {"node", "ep"} THEN {id \in Rows : Holders(id) = {}} ELSE {}

\* A call of the database or the allocator fails in work on id.
Fail(id) ==
    /\ failures < MaxFailures /\ failures' = failures + 1
    /\ failed' = failed \cup {id}

\* An endpoint is appended by FTDM_createEP and once more by the boot itself (727,
\* whose failure would spare it the second entry, is taken not to fail).
Entries(p) == IF kind = "ep" THEN <<p, p>> ELSE <<p>>

Enlist(p, o) ==
    /\ list' = list \o Entries(p)
    /\ heap' = [heap EXCEPT ![p] = o]
    /\ live' = live \cup {p}

\* FTDM_loadObjectFromDB: an object for a row, ...
LoadRow ==
    /\ phase = "loading"
    /\ \E id \in Unloaded, p \in Ptrs \ live : Enlist(p, [id |-> id, info |-> row[id]])
    /\ UNCHANGED <<kind, phase, store, session, bounds, history>>

RowsLoaded ==
    /\ phase = "loading" /\ Unloaded = {} /\ phase' = "file"
    /\ UNCHANGED <<kind, store, memory, session, bounds, history>>

\* ... unless a call fails: then the table is not read, or one row is passed over,
\* and an endpoint that finds no place in the list loses its row.
LoadFails ==
    /\ phase = "loading" /\ Unloaded # {} /\ phase' = "file"
    /\ failures < MaxFailures /\ failures' = failures + 1
    /\ failed' = failed \cup Unloaded
    /\ \/ list = <<>> /\ UNCHANGED row
       \/ \E id \in Ids :
            /\ Unloaded = {id}
            /\ row' = row \/ (kind = "ep" /\ row' = [row EXCEPT ![id] = NoRow])
    /\ UNCHANGED <<kind, table, memory, session, requests, overlap, astray, promised>>

\* FTDM_DBIF_addNode and FTDM_DBIF_addEP set FTM_EP_FLAG_STATIC in the information
\* and store it.
Stored(info) == IF kind \in {"node", "ep"} THEN Flagged[info] ELSE info
InsertedRow(o) ==
    IF row[o.id] = NoRow THEN [row EXCEPT ![o.id] = Stored(o.info)] ELSE row

\* A node is a copy of the information from after that, an endpoint from before.
Copy(o) == IF kind = "node" THEN [o EXCEPT !.info = Flagged[@]] ELSE o

\* FTDM_loadObjectFromConfig: a node of the file is refused when it has a row, an
\* endpoint is taken over; there are no other kinds in the file.  An endpoint that
\* the file names more than once is left out.
Taken(o) ==
    /\ phase = "file" /\ table
    /\ \/ kind = "node" /\ row[o.id] = NoRow
       \/ kind = "ep" /\ Cardinality(Holders(o.id)) < 2

LoadFile ==
    /\ \E o \in File, p \in Ptrs \ live :
         Taken(o) /\ row' = InsertedRow(o) /\ Enlist(p, Copy(o))
    /\ UNCHANGED <<kind, phase, table, session, bounds, history>>

\* The INSERT fails, or there is no memory for the object or its place in the list.
FileFails ==
    /\ \E o \in File :
         /\ Taken(o) /\ Fail(o.id)
         /\ \/ UNCHANGED row /\ \E p \in Ptrs \ live : Enlist(p, Copy(o))
            \/ row' = InsertedRow(o) /\ UNCHANGED memory
            \/ kind = "ep" /\ row' = [row EXCEPT ![o.id] = NoRow] /\ UNCHANGED memory
    /\ UNCHANGED <<kind, phase, table, session, requests, overlap, astray, promised>>

Serve ==
    /\ phase = "file" /\ phase' = "serving"
    /\ UNCHANGED <<kind, store, memory, session, bounds, history>>

\* The process ends or dies, between any two steps of its sessions.
Crash ==
    /\ phase # "down" /\ phase' = "down"
    /\ list' = <<>> /\ live' = {}
    /\ heap' = [p \in Ptrs |-> Blank]
    /\ pc' = [s \in Sessions |-> "idle"]
    /\ req' = [s \in Sessions |-> Blank]
    /\ ptr' = [s \in Sessions |-> NoPtr]
    /\ UNCHANGED <<kind, store, bounds, history>>

-------------------------------------------------------------------------------
(* Requests.                                                                  *)

\* Session s takes up a request on object o, with pointer p in hand.
Begin(s, o, p, at) ==
    /\ phase = "serving" /\ pc[s] = "idle" /\ requests < MaxRequests
    /\ requests' = requests + 1
    /\ pc' = [pc EXCEPT ![s] = at]
    /\ req' = [req EXCEPT ![s] = o]
    /\ ptr' = [ptr EXCEPT ![s] = p]
    /\ overlap' = IF \E t \in Sessions : pc[t] # "idle" /\ req[t].id = o.id
                  THEN overlap \cup {o.id} ELSE overlap

End(s) ==
    /\ pc' = [pc EXCEPT ![s] = "idle"]
    /\ req' = [req EXCEPT ![s] = Blank]
    /\ ptr' = [ptr EXCEPT ![s] = NoPtr]

Goto(s, at) == pc' = [pc EXCEPT ![s] = at] /\ UNCHANGED <<req, ptr>>

\* Fault: the comparator takes any identifier for the one looked for.
MatchesAny(i, id) == TRUE

\* What FTM_LIST_get may return: the first block with the identifier.  A freed
\* block still in the list is read too; it may look as it did, or not.
Matches(i, id) == heap[list[i]].id = id
Lookup(id) == {list[i] : i \in {i \in DOMAIN list :
                 Matches(i, id) /\ ~\E j \in 1..(i - 1) : list[j] \in live /\ Matches(j, id)}}

\* FTDM_NODE_create: FTDM_DBIF_addNode looks for a row first.
AddNode(s) ==
    /\ kind = "node" /\ table
    /\ \E o \in Objects : row[o.id] = NoRow /\ Begin(s, o, NoPtr, "insert")
    /\ UNCHANGED <<kind, phase, store, memory, failures, failed, astray, promised>>

\* FTDM_EP_create: the block is made first; an endpoint with a row is taken over.
AddEP(s) ==
    /\ kind = "ep" /\ table
    /\ \E o \in Objects, p \in Ptrs \ live :
         /\ Begin(s, o, p, IF row[o.id] = NoRow THEN "recheck" ELSE "append")
         /\ heap' = [heap EXCEPT ![p] = o]
         /\ live' = live \cup {p}
         /\ astray' = (astray \/ p \in Listed)
    /\ UNCHANGED <<kind, phase, store, list, failures, failed, promised>>

\* FTDM_TRIGGER_create, FTDM_ACTION_create and FTDM_RULE_create look in the list.
AddUnlisted(s) ==
    /\ table
    /\ \E o \in Objects : Holders(o.id) = {} /\ Begin(s, o, NoPtr, "insert")
    /\ UNCHANGED <<kind, phase, store, memory, failures, failed, astray, promised>>

AddTrigger(s) == kind = "trigger" /\ AddUnlisted(s)
AddAction(s) == kind = "action" /\ AddUnlisted(s)
AddRule(s) == kind = "rule" /\ AddUnlisted(s)

\* FTDM_DBIF_addEP looks for the row once more, and refuses.
Recheck(s) ==
    /\ pc[s] = "recheck"
    /\ IF row[req[s].id] = NoRow
       THEN Goto(s, "insert") /\ UNCHANGED live
       ELSE End(s) /\ live' = live \ {ptr[s]}
    /\ UNCHANGED <<kind, phase, store, list, heap, bounds, history>>

\* The INSERT.  Whether a row is there already, or the step fails, is not looked at.
Insert(s) ==
    LET o == req[s]
    IN  /\ pc[s] = "insert" /\ Goto(s, "append")
        /\ \/ row' = InsertedRow(o) /\ UNCHANGED <<failures, failed>>
           \/ Fail(o.id) /\ UNCHANGED row
        /\ UNCHANGED <<kind, phase, table, memory, requests, overlap, astray, promised>>

InsertNode(s) == kind = "node" /\ Insert(s)
InsertEP(s) == kind = "ep" /\ Insert(s)
InsertTrigger(s) == kind = "trigger" /\ Insert(s)
InsertAction(s) == kind = "action" /\ Insert(s)
InsertRule(s) == kind = "rule" /\ Insert(s)

\* The client of an addition has its OK.
Added(s) ==
    /\ pc[s] = "append" /\ End(s)
    /\ promised' = promised \cup {req[s].id}
    /\ UNCHANGED <<kind, phase, store, bounds, overlap, failed, astray>>

\* FTDM_createNode and FTDM_createAction list the new object,
ListNode(s) == kind = "node" /\ Added(s) /\ \E p \in Ptrs \ live : Enlist(p, Copy(req[s]))
ListAction(s) == kind = "action" /\ Added(s) /\ \E p \in Ptrs \ live : Enlist(p, Copy(req[s]))

\* FTDM_createEP the one that was made before,
ListEP(s) ==
    /\ kind = "ep" /\ Added(s)
    /\ list' = Append(list, ptr[s]) /\ UNCHANGED <<heap, live>>

\* and FTDM_createRule what its variable happens to hold: FTDM_RULE_create does not
\* hand its block out.  FTDM_SIS_addTrigger lists nothing.
ListRule(s) ==
    /\ kind = "rule" /\ Added(s)
    /\ \E p \in Ptrs : list' = Append(list, p)
    /\ UNCHANGED <<heap, live>>

ListNothing(s) == kind = "trigger" /\ Added(s) /\ UNCHANGED memory

\* There is no memory for the object or for its place in the list: the row is
\* deleted again, whoever inserted it.
AddFails(s) ==
    LET id == req[s].id
    IN  /\ pc[s] = "append" /\ End(s) /\ Fail(id)
        /\ row' = [row EXCEPT ![id] = NoRow]
        /\ live' = live \ {ptr[s]}
        /\ UNCHANGED <<kind, phase, table, list, heap, requests, overlap, astray, promised>>

\* The pointer a deletion or a set works with, found in the list.
Find(s, at) ==
    \E o \in Objects : \E p \in Lookup(o.id) :
        /\ Begin(s, o, p, at)
        /\ astray' = (astray \/ p \notin live)
        /\ promised' = IF at = "unlist" THEN promised \ {o.id} ELSE promised

Delete(s) ==
    /\ Find(s, "unlist")
    /\ UNCHANGED <<kind, phase, store, memory, failures, failed>>

\* No trigger is ever found.
DeleteNode(s) == kind = "node" /\ Delete(s)
DeleteEP(s) == kind = "ep" /\ Delete(s)
DeleteAction(s) == kind = "action" /\ Delete(s)
DeleteRule(s) == kind = "rule" /\ Delete(s)

\* FTM_LIST_remove takes the first entry with the pointer, and fails without one.
Without(q, i) == [k \in 1..(Len(q) - 1) |-> IF k < i THEN q[k] ELSE q[k + 1]]

\* Fault: goes on to destroy what was not in the list any more.
UnlistAnyway(s) ==
    /\ pc[s] = "unlist" /\ Goto(s, "destroy")
    /\ \/ \E i \in DOMAIN list :
            /\ list[i] = ptr[s] /\ \A j \in 1..(i - 1) : list[j] # ptr[s]
            /\ list' = Without(list, i)
       \/ ptr[s] \notin Listed /\ UNCHANGED list
    /\ UNCHANGED <<kind, phase, store, heap, live, bounds, history>>

Unlist(s) ==
    /\ pc[s] = "unlist"
    /\ \/ /\ Goto(s, "destroy")
          /\ \E i \in DOMAIN list :
               /\ list[i] = ptr[s] /\ \A j \in 1..(i - 1) : list[j] # ptr[s]
               /\ list' = Without(list, i)
       \/ ptr[s] \notin Listed /\ End(s) /\ UNCHANGED list
    /\ UNCHANGED <<kind, phase, store, heap, live, bounds, history>>

\* The row of the identifier the block holds is deleted, if the database lets it,
\* and the block is freed in any case.
Destroy(s) ==
    LET p == ptr[s]
        id == heap[p].id
    IN  /\ pc[s] = "destroy" /\ End(s)
        /\ \/ row' = [row EXCEPT ![id] = NoRow] /\ UNCHANGED <<failures, failed>>
           \/ Fail(id) /\ UNCHANGED row
        /\ live' = live \ {p}
        /\ astray' = (astray \/ \E t \in Sessions \ {s} : ptr[t] = p)
        /\ UNCHANGED <<kind, phase, table, list, heap, requests, overlap, promised>>

\* Fault: FTDM_EP_destroy2, which leaves the row.
DestroyObjectOnly(s) ==
    /\ kind = "ep" /\ pc[s] = "destroy" /\ End(s)
    /\ live' = live \ {ptr[s]}
    /\ astray' = (astray \/ \E t \in Sessions \ {s} : ptr[t] = ptr[s])
    /\ UNCHANGED <<kind, phase, store, list, heap, bounds, overlap, failed, promised>>

DestroyNode(s) == kind = "node" /\ Destroy(s)
DestroyEP(s) == kind = "ep" /\ Destroy(s)
DestroyAction(s) == kind = "action" /\ Destroy(s)
DestroyRule(s) == kind = "rule" /\ Destroy(s)

\* FTDM_SIS_setNode and FTDM_SIS_setEP; actions and rules cannot be set, and a
\* trigger is never found.
SetObject(s) ==
    /\ Find(s, "write")
    /\ UNCHANGED <<kind, phase, store, memory, failures, failed>>

SetNode(s) == kind = "node" /\ SetObject(s)
SetEP(s) == kind = "ep" /\ SetObject(s)

\* A node is overwritten in memory only.
WriteNode(s) ==
    /\ kind = "node" /\ pc[s] = "write" /\ End(s)
    /\ heap' = [heap EXCEPT ![ptr[s]] = req[s]]
    /\ UNCHANGED <<kind, phase, store, list, live, bounds, history>>

\* An endpoint keeps its identifier, and goes to the table next.
WriteEP(s) ==
    /\ kind = "ep" /\ pc[s] = "write" /\ Goto(s, "update")
    /\ heap' = [heap EXCEPT ![ptr[s]].info = req[s].info]
    /\ UNCHANGED <<kind, phase, store, list, live, bounds, history>>

\* Fault: the UPDATE takes what the request said.
UpdateFromRequest(s) ==
    LET o == [id |-> heap[ptr[s]].id, info |-> req[s].info]
    IN  /\ pc[s] = "update" /\ End(s)
        /\ row' = IF row[o.id] = NoRow THEN row ELSE [row EXCEPT ![o.id] = o.info]
        /\ UNCHANGED <<kind, phase, table, memory, bounds, history>>

\* The UPDATE takes what the block holds by then.
Update(s) ==
    LET o == heap[ptr[s]]
    IN  /\ pc[s] = "update" /\ End(s)
        /\ \/ /\ row' = IF row[o.id] = NoRow THEN row ELSE [row EXCEPT ![o.id] = o.info]
              /\ UNCHANGED <<failures, failed>>
           \/ Fail(o.id) /\ UNCHANGED row
        /\ UNCHANGED <<kind, phase, table, memory, requests, overlap, astray, promised>>

\* The handlers of FTDM_SIS_serviceCall, kind by kind.
NodeRequest(s) ==
    \/ AddNode(s) \/ InsertNode(s) \/ ListNode(s)
    \/ DeleteNode(s) \/ DestroyNode(s) \/ SetNode(s) \/ WriteNode(s)
EPRequest(s) ==
    \/ AddEP(s) \/ Recheck(s) \/ InsertEP(s) \/ ListEP(s)
    \/ DeleteEP(s) \/ DestroyEP(s) \/ SetEP(s) \/ WriteEP(s) \/ Update(s)
TriggerRequest(s) == AddTrigger(s) \/ InsertTrigger(s) \/ ListNothing(s)
ActionRequest(s) ==
    AddAction(s) \/ InsertAction(s) \/ ListAction(s) \/ DeleteAction(s) \/ DestroyAction(s)
RuleRequest(s) ==
    AddRule(s) \/ InsertRule(s) \/ ListRule(s) \/ DeleteRule(s) \/ DestroyRule(s)

Next ==
    \/ \E erase \in BOOLEAN : Open(erase)
    \/ LoadRow \/ RowsLoaded \/ LoadFails \/ LoadFile \/ FileFails \/ Serve \/ Crash
    \/ \E s \in Sessions :
         \/ NodeRequest(s) \/ EPRequest(s) \/ TriggerRequest(s)
         \/ ActionRequest(s) \/ RuleRequest(s) \/ AddFails(s) \/ Unlist(s)

Spec == Init /\ [][Next]_vars

-------------------------------------------------------------------------------
(* Properties.                                                                *)

Busy(id) == \E s \in Sessions : pc[s] # "idle" /\ req[s].id = id

\* No node or action that a client can look up has been freed, whatever the
\* sessions do at once, and none is in its list twice: a deletion frees what it took
\* out of the list itself (ftdm.c 1056-1100, 1711-1750).
NeverDangling ==
    kind \in {"node", "action"} =>
        /\ Listed \subseteq live
        /\ \A i, j \in DOMAIN list : list[i] = list[j] => i = j

\* Every row of a node or an endpoint has an object a client can reach, whatever came
\* between: requests on other objects, deletions, the end of the process.  Left out
\* are rows that are worked on, and those a failed call or two sessions at once were
\* about.
RowsListed ==
    (phase = "serving" /\ kind \in {"node", "ep"} /\ ~astray) =>
        \A id \in Rows \ (overlap \cup failed) : Busy(id) \/ Holders(id) # {}

\* What was created and answered with OK, and not deleted since, is in the table, also
\* after the process has died and come back: the row is inserted before the object is
\* listed, and every call on the database is a transaction (ftdm_sqlite.c 1018-1034).
AddsSurvive == ~astray => (promised \ (overlap \cup failed)) \subseteq Rows

\* What the table and the list say of an endpoint agrees once nobody works on it, also
\* after two sessions set it at once: each writes the table from the block, and the
\* last of them finds the block as it stays (ftdm_ep.c 366-369).  They may differ in
\* FTM_EP_FLAG_STATIC, and then the row has it: FTDM_EP_create copies the information
\* (50) before FTDM_DBIF_addEP sets the flag in it and stores it (ftdm_sqlite.c 1319).
RowsCurrent ==
    (phase = "serving" /\ kind = "ep" /\ ~astray) =>
        \A id \in Rows \ failed :
            (~Busy(id) /\ Cardinality(Holders(id)) = 1) =>
                \A p \in Holders(id) : row[id] \in {heap[p].info, Flagged[heap[p].info]}
=============================================================================
