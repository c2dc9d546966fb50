---------------------------- MODULE RegistryProofs ----------------------------
(***************************************************************************)
(* Proofs about Registry, for any sets of sessions, identifiers and blocks *)
(* and any number of requests and failures.  That no listed node or action *)
(* has been freed needs to know of every session in the middle of a        *)
(* deletion that it alone holds its block.                                 *)
(***************************************************************************)
EXTENDS Registry, SequenceTheorems, FiniteSetTheorems, TLAPS

\* Where a pointer is needed there is one.
PtrOK ==
    /\ \A s \in Sessions :
         pc[s] \in {"unlist", "destroy", "write", "update"} => ptr[s] \in Ptrs
    /\ \A s \in Sessions : (kind = "ep" /\ pc[s] \in {"recheck", "insert", "append"})
                              => ptr[s] \in Ptrs

Types == TypeOK /\ PtrOK

\* Kinds whose objects are listed once each, by the session that made them.
Sound == kind \in {"node", "action"}

\* Each block is listed once, and is allocated.
ListSound == Listed \subseteq live /\ \A i, j \in DOMAIN list : list[i] = list[j] => i = j

\* A session that is about to free a block is alone with it.
OwnsPrey ==
    /\ \A s \in Sessions : pc[s] = "destroy" => ptr[s] \in live \ Listed
    /\ \A s, t \in Sessions : (pc[s] = "destroy" /\ pc[t] = "destroy" /\ ptr[s] = ptr[t])
                                 => s = t

\* A session that adds has no block yet.
NoneInHand == \A s \in Sessions : pc[s] \in {"recheck", "insert", "append"} => ptr[s] = NoPtr

\* The last step of an addition, what a set writes, and additions that look in the list.
Lists(s) == ListNode(s) \/ ListAction(s) \/ ListEP(s) \/ ListRule(s) \/ ListNothing(s)
Writes(s) == WriteNode(s) \/ WriteEP(s)
AddsOther(s) == AddTrigger(s) \/ AddAction(s) \/ AddRule(s)

\* The steps of a session, all kinds together.
SessionStep(s) ==
    \/ AddNode(s) \/ AddEP(s) \/ AddsOther(s) \/ Recheck(s) \/ Insert(s)
    \/ Lists(s) \/ AddFails(s) \/ Unlist(s) \/ Destroy(s)
    \/ Delete(s) \/ SetObject(s) \/ Writes(s) \/ Update(s)

\* The steps of the boot, and its end.
Boots ==
    \/ \E erase \in BOOLEAN : Open(erase)
    \/ LoadRow \/ RowsLoaded \/ LoadFails \/ LoadFile \/ FileFails \/ Serve \/ Crash

IInv == Sound => ListSound /\ OwnsPrey /\ NoneInHand

-------------------------------------------------------------------------------
LEMMA BlankIsObject == Blank \in Objects
<1>1. PICK i \in Ids, v \in Infos : TRUE
  BY ObjectsAssumption
<1>2. [id |-> i, info |-> v] \in Objects
  BY DEF Objects
<1>3. QED
  BY <1>2 DEF Blank

\* Taking out one entry leaves the others, in their order.
LEMMA WithoutProperties ==
    ASSUME NEW S, NEW q \in Seq(S), NEW i \in DOMAIN q
    PROVE  /\ Without(q, i) \in Seq(S)
           /\ DOMAIN Without(q, i) = 1..(Len(q) - 1)
           /\ \A k \in 1..(Len(q) - 1) :
                 Without(q, i)[k] = IF k < i THEN q[k] ELSE q[k + 1]
<1>1. Len(q) \in Nat /\ Len(q) >= 1 /\ i \in 1..Len(q) /\ \A k \in 1..Len(q) : q[k] \in S
  BY LenProperties, ElementOfSeq
<1>2. Len(q) - 1 \in Nat
  BY <1>1
<1>3. \A k \in 1..(Len(q) - 1) : (IF k < i THEN q[k] ELSE q[k + 1]) \in S
  BY <1>1
<1>4. QED
  BY <1>2, <1>3, IsASeq DEF Without

\* A list with one entry less, of blocks that were each listed once, lists each once
\* and no longer the one taken out.
LEMMA UnlistedOnce ==
    ASSUME TypeOK, ListSound, NEW i \in DOMAIN list, list' = Without(list, i), live' = live
    PROVE  /\ ListSound'
           /\ Listed' = Listed \ {list[i]}
<1>1. list \in Seq(Ptrs)
  BY DEF TypeOK
<1>2. Len(list) \in Nat /\ DOMAIN list = 1..Len(list)
  BY <1>1, LenProperties
<1>3. /\ DOMAIN list' = 1..(Len(list) - 1)
      /\ \A k \in 1..(Len(list) - 1) : list'[k] = IF k < i THEN list[k] ELSE list[k + 1]
  BY <1>1, WithoutProperties
<1>4. \A k, m \in 1..Len(list) : list[k] = list[m] => k = m
  BY <1>2 DEF ListSound
<1>5. \A k \in 1..(Len(list) - 1) : list'[k] \in Listed /\ list'[k] # list[i]
  BY <1>2, <1>3, <1>4 DEF Listed
<1>6. ASSUME NEW p \in Listed \ {list[i]} PROVE p \in Listed'
  <2>1. PICK k \in 1..Len(list) : list[k] = p
    BY <1>2 DEF Listed
  <2>2. CASE k < i
    <3>1. k \in 1..(Len(list) - 1) /\ list'[k] = p
      BY <1>2, <1>3, <2>1, <2>2
    <3>2. QED
      BY <1>3, <3>1 DEF Listed
  <2>3. CASE k > i
    <3>1. k - 1 \in 1..(Len(list) - 1) /\ ~(k - 1 < i) /\ (k - 1) + 1 = k
      BY <1>2, <2>3
    <3>2. list'[k - 1] = list[(k - 1) + 1]
      BY <1>3, <3>1
    <3>3. QED
      BY <1>3, <2>1, <3>1, <3>2 DEF Listed
  <2>4. QED
    BY <1>2, <2>1, <2>2, <2>3
<1>7. Listed' = Listed \ {list[i]}
  <2>1. ASSUME NEW p \in Listed' PROVE p \in Listed \ {list[i]}
    <3>1. PICK k \in 1..(Len(list) - 1) : list'[k] = p
      BY <1>3 DEF Listed
    <3>2. QED
      BY <1>5, <3>1
  <2>2. QED
    BY <1>6, <2>1
<1>8. \A k, m \in DOMAIN list' : list'[k] = list'[m] => k = m
  BY <1>2, <1>3, <1>4
<1>9. QED
  BY <1>7, <1>8 DEF ListSound

\* Listing a block that was free keeps every block listed once.
LEMMA EnlistedOnce ==
    ASSUME TypeOK, ListSound, kind # "ep", NEW p \in Ptrs \ live, NEW o, Enlist(p, o)
    PROVE  /\ ListSound'
           /\ Listed' = Listed \cup {p}
<1>1. list \in Seq(Ptrs) /\ list' = list \o <<p>> /\ live' = live \cup {p}
  BY DEF TypeOK, Enlist, Entries
<1>2. list' = Append(list, p)
  BY <1>1, AppendIsConcat
<1>3. Len(list) \in Nat /\ DOMAIN list = 1..Len(list)
  BY <1>1, LenProperties
<1>4. /\ DOMAIN list' = 1..(Len(list) + 1)
      /\ \A k \in 1..Len(list) : list'[k] = list[k]
      /\ list'[Len(list) + 1] = p
  BY <1>1, <1>2, <1>3, AppendProperties, LenProperties
<1>5. Listed' = Listed \cup {p}
  BY <1>3, <1>4 DEF Listed
<1>6. \A k \in 1..Len(list) : list[k] # p
  BY <1>3 DEF ListSound, Listed
<1>7. \A k, m \in DOMAIN list' : list'[k] = list'[m] => k = m
  BY <1>3, <1>4, <1>6 DEF ListSound
<1>8. QED
  BY <1>1, <1>5, <1>7 DEF ListSound

-------------------------------------------------------------------------------
\* Types is inductive.
LEMMA TypesInit == Init => Types
<1> SUFFICES ASSUME Init PROVE Types
  OBVIOUS
<1>1. Blank \in Objects
  BY BlankIsObject
<1>2. list \in Seq(Ptrs)
  BY EmptySeq DEF Init
<1>3. TypeOK
  <2>1. /\ heap \in [Ptrs -> Objects] /\ req \in [Sessions -> Objects]
        /\ pc \in [Sessions -> Places] /\ ptr \in [Sessions -> Ptrs \cup {NoPtr}]
    BY <1>1 DEF Init, Places
  <2>2. requests \in 0..MaxRequests /\ failures \in 0..MaxFailures
    BY RegistryBounds DEF Init
  <2>3. /\ kind \in Kinds /\ table \in BOOLEAN /\ astray \in BOOLEAN
        /\ phase \in {"down", "loading", "file", "serving"} /\ live \subseteq Ptrs
        /\ overlap \subseteq Ids /\ failed \subseteq Ids /\ promised \subseteq Ids
        /\ row \in [Ids -> Infos \cup {NoRow}]
    BY DEF Init
  <2>4. QED
    BY <1>2, <2>1, <2>2, <2>3 DEF TypeOK
<1>4. PtrOK
  BY DEF Init, PtrOK
<1>5. QED
  BY <1>3, <1>4 DEF Types

\* What a lookup finds is a block.
LEMMA LookupFinds ==
    ASSUME TypeOK, NEW id, NEW p \in Lookup(id)
    PROVE  p \in Ptrs /\ p \in Listed
<1>1. PICK i \in DOMAIN list : p = list[i]
  BY DEF Lookup
<1>2. list \in Seq(Ptrs)
  BY DEF TypeOK
<1>3. QED
  BY <1>1, <1>2, LenProperties, ElementOfSeq DEF Listed

\* What is stored, and what is copied, is a content of an object again.
LEMMA CopyIsObject ==
    ASSUME NEW o \in Objects
    PROVE  /\ Copy(o) \in Objects /\ Copy(o).id = o.id
           /\ kind = "ep" => Copy(o) = o
           /\ o.id \in Ids /\ o.info \in Infos
           /\ Stored(o.info) \in Infos /\ Stored(o.info) # NoRow
           /\ kind = "ep" => Stored(o.info) = Flagged[o.info]
  BY FlagAssumption, RowAssumption DEF Copy, Stored, Objects

LEMMA InsertedIsRow ==
    ASSUME TypeOK, NEW o \in Objects
    PROVE  /\ InsertedRow(o) \in [Ids -> Infos \cup {NoRow}]
           /\ InsertedRow(o)[o.id] # NoRow
           /\ InsertedRow(o)[o.id] = IF row[o.id] = NoRow THEN Stored(o.info) ELSE row[o.id]
           /\ \A id \in Ids \ {o.id} : InsertedRow(o)[id] = row[id]
  BY CopyIsObject DEF InsertedRow, TypeOK

LEMMA FileObjects == \A o \in File : o \in Objects
  BY FileAssumption DEF Objects

LEMMA EnlistTypes ==
    ASSUME TypeOK, NEW p \in Ptrs, NEW o \in Objects, Enlist(p, o)
    PROVE  list' \in Seq(Ptrs) /\ heap' \in [Ptrs -> Objects] /\ live' \subseteq Ptrs
<1>1. Entries(p) \in Seq(Ptrs)
  BY DEF Entries
<1>2. list' \in Seq(Ptrs)
  BY <1>1, ConcatProperties DEF Enlist, TypeOK
<1>3. QED
  BY <1>2 DEF Enlist, TypeOK

LEMMA FailTypes ==
    ASSUME TypeOK, NEW id \in Ids, Fail(id)
    PROVE  failures' \in 0..MaxFailures /\ failed' \subseteq Ids
  BY RegistryBounds DEF Fail, TypeOK

LEMMA TypesBoot ==
    ASSUME Types, Boots
    PROVE  Types'
<1> USE DEF Types, PtrOK
<1>1. CASE \E erase \in BOOLEAN : Open(erase)
  BY <1>1 DEF Open, TypeOK, memory, session, bounds
<1>2. CASE LoadRow
  <2>1. PICK id \in Unloaded, p \in Ptrs \ live : Enlist(p, [id |-> id, info |-> row[id]])
    BY <1>2 DEF LoadRow
  <2>2. id \in Ids /\ row[id] \in Infos
    BY <2>1 DEF Unloaded, Rows, TypeOK
  <2>3. [id |-> id, info |-> row[id]] \in Objects
    BY <2>2 DEF Objects
  <2>4. list' \in Seq(Ptrs) /\ heap' \in [Ptrs -> Objects] /\ live' \subseteq Ptrs
    BY <2>1, <2>3, EnlistTypes
  <2>5. QED
    BY <1>2, <2>4 DEF LoadRow, TypeOK, store, session, bounds, history
<1>3. CASE LoadFile
  <2>1. PICK o \in Objects, p \in Ptrs \ live : Enlist(p, Copy(o)) /\ row' = InsertedRow(o)
    BY <1>3, FileObjects DEF LoadFile
  <2>2. list' \in Seq(Ptrs) /\ heap' \in [Ptrs -> Objects] /\ live' \subseteq Ptrs
    BY <2>1, EnlistTypes, CopyIsObject
  <2>3. row' \in [Ids -> Infos \cup {NoRow}]
    BY <2>1, InsertedIsRow
  <2>4. QED
    BY <1>3, <2>2, <2>3 DEF LoadFile, TypeOK, session, bounds, history
<1>4. CASE Serve \/ RowsLoaded
  BY <1>4 DEF Serve, RowsLoaded, TypeOK, store, memory, session, bounds, history
<1>5. CASE Crash
  BY <1>5, BlankIsObject, EmptySeq DEF Crash, TypeOK, Places, store, bounds, history
<1>6. CASE LoadFails
  <2>1. row' \in [Ids -> Infos \cup {NoRow}] /\ failed' \subseteq Ids
    BY <1>6 DEF LoadFails, Unloaded, Rows, TypeOK
  <2>2. failures' \in 0..MaxFailures
    BY <1>6, RegistryBounds DEF LoadFails, TypeOK
  <2>3. QED
    BY <1>6, <2>1, <2>2 DEF LoadFails, TypeOK, memory, session
<1>7. CASE FileFails
  <2>1. PICK o \in Objects :
          /\ Fail(o.id)
          /\ \/ UNCHANGED row /\ \E p \in Ptrs \ live : Enlist(p, Copy(o))
             \/ row' = InsertedRow(o) /\ UNCHANGED memory
             \/ kind = "ep" /\ row' = [row EXCEPT ![o.id] = NoRow] /\ UNCHANGED memory
    BY <1>7, FileObjects DEF FileFails
  <2>2. failures' \in 0..MaxFailures /\ failed' \subseteq Ids
    BY <2>1, FailTypes, CopyIsObject
  <2>3. list' \in Seq(Ptrs) /\ heap' \in [Ptrs -> Objects] /\ live' \subseteq Ptrs
    <3>1. CASE UNCHANGED memory
      BY <3>1 DEF memory, TypeOK
    <3>2. CASE \E p \in Ptrs \ live : Enlist(p, Copy(o))
      BY <3>2, EnlistTypes, CopyIsObject
    <3>3. QED
      BY <2>1, <3>1, <3>2
  <2>4. row' \in [Ids -> Infos \cup {NoRow}]
    <3>1. CASE row' = InsertedRow(o)
      BY <3>1, InsertedIsRow
    <3>2. CASE row' # InsertedRow(o)
      BY <2>1, <3>2 DEF TypeOK
    <3>3. QED
      BY <3>1, <3>2
  <2>5. QED
    BY <1>7, <2>2, <2>3, <2>4 DEF FileFails, TypeOK, session
<1>8. QED
  BY <1>1, <1>2, <1>3, <1>4, <1>5, <1>6, <1>7 DEF Boots

\* A request that begins, one that goes on and one that ends keep the sessions' places,
\* requests and pointers in their types.
LEMMA BeginTypes ==
    ASSUME Types, NEW s \in Sessions, NEW o \in Objects, NEW p \in Ptrs \cup {NoPtr},
           NEW at \in Places, Begin(s, o, p, at)
    PROVE  /\ pc' \in [Sessions -> Places]
           /\ req' \in [Sessions -> Objects] /\ ptr' \in [Sessions -> Ptrs \cup {NoPtr}]
           /\ requests' \in 0..MaxRequests
           /\ overlap' \subseteq Ids
<1>1. o.id \in Ids
  BY DEF Objects
<1>2. QED
  BY <1>1, RegistryBounds DEF Begin, Types, TypeOK

LEMMA EndTypes ==
    ASSUME TypeOK, NEW s \in Sessions, End(s)
    PROVE  /\ pc' \in [Sessions -> Places]
           /\ req' \in [Sessions -> Objects] /\ ptr' \in [Sessions -> Ptrs \cup {NoPtr}]
  BY BlankIsObject DEF End, TypeOK, Places

LEMMA GotoTypes ==
    ASSUME TypeOK, NEW s \in Sessions, NEW at \in Places, Goto(s, at)
    PROVE  /\ pc' \in [Sessions -> Places]
           /\ req' \in [Sessions -> Objects] /\ ptr' \in [Sessions -> Ptrs \cup {NoPtr}]
  BY DEF Goto, TypeOK

LEMMA TypesAdd ==
    ASSUME Types, NEW s \in Sessions,
           AddNode(s) \/ AddEP(s) \/ AddsOther(s) \/ Recheck(s) \/ Insert(s)
    PROVE  Types'
<1> USE DEF Types
<1>1. CASE AddNode(s)
  <2>1. PICK o \in Objects : Begin(s, o, NoPtr, "insert")
    BY <1>1 DEF AddNode
  <2>2. "insert" \in Places
    BY DEF Places
  <2>3. TypeOK'
    BY <1>1, <2>1, <2>2, BeginTypes DEF AddNode, TypeOK, store, memory
  <2>4. PtrOK'
    BY <1>1, <2>1 DEF AddNode, PtrOK, Begin, TypeOK
  <2>5. QED
    BY <2>3, <2>4
<1>2. CASE AddEP(s)
  <2>1. PICK o \in Objects, p \in Ptrs \ live :
           /\ Begin(s, o, p, IF row[o.id] = NoRow THEN "recheck" ELSE "append")
           /\ heap' = [heap EXCEPT ![p] = o]
           /\ live' = live \cup {p}
           /\ astray' = (astray \/ p \in Listed)
    BY <1>2 DEF AddEP
  <2>2. (IF row[o.id] = NoRow THEN "recheck" ELSE "append") \in Places
    BY DEF Places
  <2>3. /\ pc' \in [Sessions -> Places]
        /\ req' \in [Sessions -> Objects] /\ ptr' \in [Sessions -> Ptrs \cup {NoPtr}]
        /\ requests' \in 0..MaxRequests
        /\ overlap' \subseteq Ids
    BY <2>1, <2>2, BeginTypes
  <2>4. heap' \in [Ptrs -> Objects] /\ live' \subseteq Ptrs /\ astray' \in BOOLEAN
    BY <2>1 DEF TypeOK
  <2>5. TypeOK'
    BY <1>2, <2>3, <2>4 DEF AddEP, TypeOK, store
  <2>6. PtrOK'
    BY <1>2, <2>1 DEF AddEP, PtrOK, Begin, TypeOK
  <2>7. QED
    BY <2>5, <2>6
<1>3. CASE AddsOther(s)
  <2>1. PICK o \in Objects : Begin(s, o, NoPtr, "insert")
    BY <1>3 DEF AddsOther, AddTrigger, AddAction, AddRule, AddUnlisted
  <2>2. "insert" \in Places
    BY DEF Places
  <2>3. TypeOK'
    BY <1>3, <2>1, <2>2, BeginTypes DEF AddsOther, AddTrigger, AddAction, AddRule, AddUnlisted, TypeOK, store, memory
  <2>4. PtrOK'
    BY <1>3, <2>1 DEF AddsOther, AddTrigger, AddAction, AddRule, AddUnlisted, PtrOK, Begin, TypeOK
  <2>5. QED
    BY <2>3, <2>4
<1>4. CASE Recheck(s)
  <2>1. "insert" \in Places
    BY DEF Places
  <2>2. TypeOK'
    BY <1>4, <2>1, GotoTypes, EndTypes DEF Recheck, TypeOK, store, bounds, history
  <2>3. PtrOK'
    BY <1>4 DEF Recheck, PtrOK, Goto, End, TypeOK
  <2>4. QED
    BY <2>2, <2>3
<1>5. CASE Insert(s)
  <2>1. "append" \in Places /\ req[s] \in Objects /\ req[s].id \in Ids /\ req[s].info \in Infos
    BY DEF Places, TypeOK, Objects
  <2>2. row' \in [Ids -> Infos \cup {NoRow}]
    BY <1>5, <2>1, InsertedIsRow DEF Insert, TypeOK
  <2>3. failures' \in 0..MaxFailures /\ failed' \subseteq Ids
    BY <1>5, <2>1, FailTypes DEF Insert, TypeOK
  <2>4. TypeOK'
    BY <1>5, <2>1, <2>2, <2>3, GotoTypes DEF Insert, TypeOK, memory
  <2>5. PtrOK'
    BY <1>5 DEF Insert, PtrOK, Goto, TypeOK
  <2>6. QED
    BY <2>4, <2>5
<1>6. QED
  BY <1>1, <1>2, <1>3, <1>4, <1>5

LEMMA TypesList ==
    ASSUME Types, NEW s \in Sessions, Lists(s) \/ AddFails(s) \/ Unlist(s) \/ Destroy(s)
    PROVE  Types'
<1> USE DEF Types
<1>1. CASE Lists(s)
  <2>1. req[s] \in Objects /\ req[s].id \in Ids
    BY DEF TypeOK, Objects
  <2>2. Added(s)
    BY <1>1 DEF Lists, ListNode, ListAction, ListEP, ListRule, ListNothing
  <2>3. list' \in Seq(Ptrs) /\ heap' \in [Ptrs -> Objects] /\ live' \subseteq Ptrs
    <3>1. CASE ListEP(s)
      <4>1. ptr[s] \in Ptrs /\ list' = Append(list, ptr[s]) /\ UNCHANGED <<heap, live>>
        BY <3>1 DEF ListEP, Added, PtrOK
      <4>2. QED
        BY <4>1, AppendProperties DEF TypeOK
    <3>2. CASE ListNode(s) \/ ListAction(s)
      <4>1. PICK p \in Ptrs \ live : Enlist(p, Copy(req[s]))
        BY <3>2 DEF ListNode, ListAction
      <4>2. QED
        BY <2>1, <4>1, EnlistTypes, CopyIsObject
    <3>3. CASE ListRule(s)
      <4>1. PICK p \in Ptrs : list' = Append(list, p) /\ UNCHANGED <<heap, live>>
        BY <3>3 DEF ListRule
      <4>2. QED
        BY <4>1, AppendProperties DEF TypeOK
    <3>4. CASE ListNothing(s)
      BY <3>4 DEF ListNothing, TypeOK, memory
    <3>5. QED
      BY <1>1, <3>1, <3>2, <3>3, <3>4 DEF Lists
  <2>4. TypeOK'
    BY <2>1, <2>2, <2>3, EndTypes DEF Added, TypeOK, store, bounds
  <2>5. PtrOK'
    BY <2>2 DEF Added, PtrOK, End, TypeOK
  <2>6. QED
    BY <2>4, <2>5
<1>2. CASE AddFails(s)
  <2>1. req[s].id \in Ids
    BY DEF TypeOK, Objects
  <2>2. failures' \in 0..MaxFailures /\ failed' \subseteq Ids
    BY <1>2, <2>1, FailTypes DEF AddFails
  <2>3. row' \in [Ids -> Infos \cup {NoRow}] /\ live' \subseteq Ptrs
    BY <1>2, <2>1 DEF AddFails, TypeOK
  <2>4. TypeOK'
    BY <1>2, <2>2, <2>3, EndTypes DEF AddFails, TypeOK
  <2>5. PtrOK'
    BY <1>2 DEF AddFails, PtrOK, End, TypeOK
  <2>6. QED
    BY <2>4, <2>5
<1>3. CASE Unlist(s)
  <2>1. "destroy" \in Places
    BY DEF Places
  <2>2. list' \in Seq(Ptrs)
    BY <1>3, WithoutProperties DEF Unlist, TypeOK
  <2>3. TypeOK'
    BY <1>3, <2>1, <2>2, GotoTypes, EndTypes DEF Unlist, TypeOK, store, bounds, history
  <2>4. PtrOK'
    BY <1>3 DEF Unlist, PtrOK, Goto, End, TypeOK
  <2>5. QED
    BY <2>3, <2>4
<1>4. CASE Destroy(s)
  <2>1. ptr[s] \in Ptrs /\ heap[ptr[s]].id \in Ids
    BY <1>4 DEF Destroy, PtrOK, TypeOK, Objects
  <2>2. failures' \in 0..MaxFailures /\ failed' \subseteq Ids
    BY <1>4, <2>1, FailTypes DEF Destroy, TypeOK
  <2>3. row' \in [Ids -> Infos \cup {NoRow}] /\ live' \subseteq Ptrs /\ astray' \in BOOLEAN
    BY <1>4, <2>1 DEF Destroy, TypeOK
  <2>4. TypeOK'
    BY <1>4, <2>2, <2>3, EndTypes DEF Destroy, TypeOK
  <2>5. PtrOK'
    BY <1>4 DEF Destroy, PtrOK, End, TypeOK
  <2>6. QED
    BY <2>4, <2>5
<1>5. QED
  BY <1>1, <1>2, <1>3, <1>4

LEMMA TypesSet ==
    ASSUME Types, NEW s \in Sessions, Delete(s) \/ SetObject(s) \/ Writes(s) \/ Update(s)
    PROVE  Types'
<1> USE DEF Types
<1>1. ASSUME NEW at \in {"unlist", "write"}, Find(s, at),
             UNCHANGED <<kind, phase, store, memory, failures, failed>>
      PROVE  Types'
  <2>1. PICK o \in Objects : \E p \in Lookup(o.id) :
           /\ Begin(s, o, p, at)
           /\ astray' = (astray \/ p \notin live)
           /\ promised' = IF at = "unlist" THEN promised \ {o.id} ELSE promised
    BY <1>1 DEF Find
  <2>2. PICK p \in Lookup(o.id) :
           /\ Begin(s, o, p, at)
           /\ astray' = (astray \/ p \notin live)
           /\ promised' = IF at = "unlist" THEN promised \ {o.id} ELSE promised
    BY <2>1
  <2>3. p \in Ptrs /\ at \in Places
    BY <2>2, LookupFinds DEF Places
  <2>4. TypeOK'
    BY <1>1, <2>2, <2>3, BeginTypes DEF TypeOK, store, memory
  <2>5. PtrOK'
    BY <1>1, <2>2, <2>3 DEF PtrOK, Begin, TypeOK
  <2>6. QED
    BY <2>4, <2>5
<1>2. CASE Delete(s) \/ SetObject(s)
  BY <1>1, <1>2 DEF Delete, SetObject
<1>3. CASE Writes(s)
  <2>1. ptr[s] \in Ptrs /\ req[s] \in Objects /\ req[s].info \in Infos /\ "update" \in Places
    BY <1>3 DEF Writes, WriteNode, WriteEP, PtrOK, TypeOK, Places, Objects
  <2>2. heap' \in [Ptrs -> Objects]
    <3>1. CASE WriteNode(s)
      BY <2>1, <3>1 DEF WriteNode, TypeOK
    <3>2. CASE WriteEP(s)
      <4>1. heap \in [Ptrs -> Objects] /\ heap' = [heap EXCEPT ![ptr[s]].info = req[s].info]
        BY <3>2 DEF WriteEP, TypeOK
      <4>2. QED
        BY <2>1, <4>1 DEF Objects
    <3>3. QED
      BY <1>3, <3>1, <3>2 DEF Writes
  <2>3. TypeOK'
    <3>1. /\ pc' \in [Sessions -> Places]
          /\ req' \in [Sessions -> Objects] /\ ptr' \in [Sessions -> Ptrs \cup {NoPtr}]
      BY <1>3, <2>1, GotoTypes, EndTypes DEF Writes, WriteNode, WriteEP
    <3>2. UNCHANGED <<kind, phase, table, row, list, live, bounds, history>>
      BY <1>3 DEF Writes, WriteNode, WriteEP, store
    <3>3. QED
      BY <2>2, <3>1, <3>2 DEF TypeOK, bounds, history
  <2>4. PtrOK'
    BY <1>3 DEF Writes, WriteNode, WriteEP, PtrOK, Goto, End, TypeOK
  <2>5. QED
    BY <2>3, <2>4
<1>4. CASE Update(s)
  <2>1. ptr[s] \in Ptrs /\ heap[ptr[s]].id \in Ids /\ heap[ptr[s]].info \in Infos
    BY <1>4 DEF Update, PtrOK, TypeOK, Objects
  <2>2. failures' \in 0..MaxFailures /\ failed' \subseteq Ids
    BY <1>4, <2>1, FailTypes DEF Update, TypeOK
  <2>3. row' \in [Ids -> Infos \cup {NoRow}]
    BY <1>4, <2>1 DEF Update, TypeOK
  <2>4. TypeOK'
    BY <1>4, <2>2, <2>3, EndTypes DEF Update, TypeOK, memory
  <2>5. PtrOK'
    BY <1>4 DEF Update, PtrOK, End, TypeOK, memory
  <2>6. QED
    BY <2>4, <2>5
<1>5. QED
  BY <1>2, <1>3, <1>4

\* The handlers of the kinds are made of these steps.
LEMMA HandlerSteps ==
    ASSUME NEW s \in Sessions,
           \/ NodeRequest(s) \/ EPRequest(s) \/ TriggerRequest(s)
           \/ ActionRequest(s) \/ RuleRequest(s) \/ AddFails(s) \/ Unlist(s)
    PROVE  SessionStep(s)
  BY DEF NodeRequest, EPRequest, TriggerRequest, ActionRequest, RuleRequest, SessionStep,
         AddsOther, Lists, Writes,
         InsertNode, InsertEP, InsertTrigger, InsertAction, InsertRule,
         DeleteNode, DeleteEP, DeleteAction, DeleteRule,
         DestroyNode, DestroyEP, DestroyAction, DestroyRule, SetNode, SetEP

LEMMA NextSplit ==
    ASSUME Next
    PROVE  Boots \/ \E s \in Sessions : SessionStep(s)
  BY HandlerSteps DEF Next, Boots

LEMMA TypesStep == Types /\ [Next]_vars => Types'
<1> SUFFICES ASSUME Types, [Next]_vars PROVE Types'
  OBVIOUS
<1>1. CASE UNCHANGED vars
  BY <1>1 DEF vars, store, memory, session, bounds, history, Types, TypeOK, PtrOK
<1>2. CASE Next
  BY <1>2, NextSplit, TypesBoot, TypesAdd, TypesList, TypesSet DEF SessionStep
<1>3. QED
  BY <1>1, <1>2

\* Every reachable state is well typed: no session follows a pointer it has not got.
THEOREM TypeCorrect == Spec => []TypeOK
<1>1. Spec => []Types
  BY TypesInit, TypesStep, PTL DEF Spec
<1>2. Types => TypeOK
  BY DEF Types
<1>3. QED
  BY <1>1, <1>2, PTL

-------------------------------------------------------------------------------
\* IInv is inductive.
LEMMA IInvInit == Init => IInv
  BY DEF Init, IInv, ListSound, OwnsPrey, NoneInHand, Listed

LEMMA BootKeeps ==
    ASSUME Types, IInv, Sound, Boots
    PROVE  ListSound' /\ OwnsPrey' /\ NoneInHand'
<1> USE DEF Types, IInv
<1>1. CASE UNCHANGED <<list, live, pc, ptr>>
  BY <1>1 DEF ListSound, OwnsPrey, NoneInHand, Listed
<1>2. ASSUME NEW p \in Ptrs \ live, NEW o, Enlist(p, o), UNCHANGED session
      PROVE  ListSound' /\ OwnsPrey' /\ NoneInHand'
  <2>1. ListSound' /\ Listed' = Listed \cup {p}
    BY <1>2, EnlistedOnce DEF Sound
  <2>2. UNCHANGED session /\ live' = live \cup {p}
    BY <1>2 DEF Enlist
  <2>3. OwnsPrey' /\ NoneInHand'
    BY <2>1, <2>2 DEF session, OwnsPrey, NoneInHand
  <2>4. QED
    BY <2>1, <2>3
<1>3. CASE Crash
  BY <1>3 DEF Crash, ListSound, OwnsPrey, NoneInHand, Listed
<1>4. CASE (\E erase \in BOOLEAN : Open(erase)) \/ Serve \/ RowsLoaded \/ LoadFails
  BY <1>1, <1>4 DEF Open, Serve, RowsLoaded, LoadFails, memory, session
<1>5. CASE LoadRow \/ LoadFile \/ FileFails
  <2>1. UNCHANGED session /\ ((\E p \in Ptrs \ live, o \in Objects : Enlist(p, o)) \/ UNCHANGED memory)
    <3>1. CASE LoadRow
      <4>1. \A id \in Unloaded : [id |-> id, info |-> row[id]] \in Objects
        BY DEF Unloaded, Rows, TypeOK, Objects
      <4>2. QED
        BY <3>1, <4>1 DEF LoadRow
    <3>2. CASE LoadFile
      BY <3>2, CopyIsObject, FileObjects DEF LoadFile
    <3>3. CASE FileFails
      BY <3>3, CopyIsObject, FileObjects DEF FileFails
    <3>4. QED
      BY <1>5, <3>1, <3>2, <3>3
  <2>2. QED
    BY <1>1, <1>2, <2>1 DEF session, memory
<1>6. QED
  BY <1>3, <1>4, <1>5 DEF Boots

LEMMA BeginKeeps ==
    ASSUME Types, IInv, Sound, NEW s \in Sessions, NEW o, NEW p, NEW at,
           Begin(s, o, p, at), at \in {"insert", "unlist", "write"},
           at = "insert" => p = NoPtr,
           UNCHANGED memory
    PROVE  ListSound' /\ OwnsPrey' /\ NoneInHand'
<1>1. ListSound'
  BY DEF IInv, memory, ListSound, Listed
<1>2. \A t \in Sessions : /\ pc'[t] = IF t = s THEN at ELSE pc[t]
                          /\ ptr'[t] = IF t = s THEN p ELSE ptr[t]
  BY DEF Begin, Types, TypeOK
<1>3. Listed' = Listed /\ live' = live
  BY DEF memory, Listed
<1>4. OwnsPrey'
  BY <1>2, <1>3 DEF IInv, OwnsPrey
<1>5. NoneInHand'
  BY <1>2 DEF IInv, NoneInHand
<1>6. QED
  BY <1>1, <1>4, <1>5

LEMMA SessionKeeps ==
    ASSUME Types, IInv, Sound, NEW s \in Sessions,
           SessionStep(s)
    PROVE  ListSound' /\ OwnsPrey' /\ NoneInHand'
<1> USE DEF IInv
<1>1. CASE AddNode(s)
  BY <1>1, BeginKeeps DEF AddNode
<1>2. CASE AddEP(s)
  BY <1>2 DEF AddEP, Sound
<1>3. CASE AddsOther(s)
  BY <1>3, BeginKeeps DEF AddsOther, AddTrigger, AddAction, AddRule, AddUnlisted
<1>4. CASE Recheck(s)
  <2>1. ptr[s] = NoPtr /\ live' = live
    <3>1. ptr[s] = NoPtr /\ ptr[s] \notin live
      BY <1>4, PtrAssumption DEF Recheck, NoneInHand, Types, TypeOK
    <3>2. QED
      BY <1>4, <3>1 DEF Recheck
  <2>2. ListSound'
    BY <1>4, <2>1 DEF Recheck, ListSound, Listed
  <2>3. OwnsPrey' /\ NoneInHand'
    BY <1>4, <2>1 DEF Recheck, Goto, End, OwnsPrey, NoneInHand, Listed, Types, TypeOK
  <2>4. QED
    BY <2>2, <2>3
<1>5. CASE Insert(s)
  BY <1>5 DEF Insert, Goto, memory, ListSound, OwnsPrey, NoneInHand, Listed, Types, TypeOK
<1>6. CASE Lists(s)
  <2>1. PICK p \in Ptrs \ live : Enlist(p, Copy(req[s]))
    BY <1>6 DEF Lists, ListNode, ListAction, ListEP, ListRule, ListNothing, Sound
  <2>2. ListSound' /\ Listed' = Listed \cup {p}
    BY <2>1, EnlistedOnce DEF Sound, Types
  <2>3. live' = live \cup {p}
    BY <2>1 DEF Enlist
  <2>4. Added(s)
    BY <1>6 DEF Lists, ListNode, ListAction, ListEP, ListRule, ListNothing
  <2>5. OwnsPrey' /\ NoneInHand'
    BY <2>2, <2>3, <2>4 DEF Added, End, OwnsPrey, NoneInHand, Types, TypeOK
  <2>6. QED
    BY <2>2, <2>5
<1>7. CASE AddFails(s)
  <2>1. ptr[s] = NoPtr /\ live' = live
    <3>1. ptr[s] = NoPtr /\ ptr[s] \notin live
      BY <1>7, PtrAssumption DEF AddFails, NoneInHand, Types, TypeOK
    <3>2. QED
      BY <1>7, <3>1 DEF AddFails
  <2>2. ListSound'
    BY <1>7, <2>1 DEF AddFails, ListSound, Listed
  <2>3. OwnsPrey' /\ NoneInHand'
    BY <1>7, <2>1 DEF AddFails, End, OwnsPrey, NoneInHand, Listed, Types, TypeOK
  <2>4. QED
    BY <2>2, <2>3
<1>8. CASE Unlist(s)
  <2>1. CASE ptr[s] \notin Listed /\ End(s) /\ UNCHANGED list
    BY <1>8, <2>1 DEF Unlist, End, ListSound, OwnsPrey, NoneInHand, Listed, Types, TypeOK
  <2>2. ASSUME NEW i \in DOMAIN list, list[i] = ptr[s], list' = Without(list, i),
               Goto(s, "destroy")
        PROVE  ListSound' /\ OwnsPrey' /\ NoneInHand'
    <3>1. live' = live
      BY <1>8 DEF Unlist
    <3>2. ListSound' /\ Listed' = Listed \ {ptr[s]}
      BY <2>2, <3>1, UnlistedOnce DEF Types
    <3>3. ptr[s] \in Listed /\ ptr[s] \in live
      BY <2>2 DEF Listed, ListSound
    <3>4. \A t \in Sessions : pc'[t] = IF t = s THEN "destroy" ELSE pc[t]
      BY <2>2 DEF Goto, Types, TypeOK
    <3>5. ptr' = ptr
      BY <2>2 DEF Goto
    <3>6. \A t \in Sessions : pc[t] = "destroy" => ptr[t] # ptr[s]
      BY <3>3 DEF OwnsPrey
    <3>7. OwnsPrey'
      BY <3>1, <3>2, <3>3, <3>4, <3>5, <3>6 DEF OwnsPrey
    <3>8. NoneInHand'
      BY <3>4, <3>5 DEF NoneInHand
    <3>9. QED
      BY <3>2, <3>7, <3>8
  <2>3. QED
    BY <1>8, <2>1, <2>2 DEF Unlist
<1>9. CASE Destroy(s)
  <2>1. list' = list /\ live' = live \ {ptr[s]} /\ ptr[s] \notin Listed
    BY <1>9 DEF Destroy, OwnsPrey
  <2>2. ListSound' /\ Listed' = Listed
    BY <2>1 DEF ListSound, Listed
  <2>3. \A t \in Sessions : /\ pc'[t] = IF t = s THEN "idle" ELSE pc[t]
                            /\ t # s => ptr'[t] = ptr[t]
    BY <1>9 DEF Destroy, End, Types, TypeOK
  <2>4. \A t \in Sessions \ {s} : pc[t] = "destroy" => ptr[t] # ptr[s]
    BY <1>9 DEF Destroy, OwnsPrey
  <2>5. OwnsPrey'
    BY <2>1, <2>2, <2>3, <2>4 DEF OwnsPrey
  <2>6. NoneInHand'
    BY <2>3 DEF NoneInHand
  <2>7. QED
    BY <2>2, <2>5, <2>6
<1>10. CASE Delete(s) \/ SetObject(s)
  <2>1. PICK at \in {"unlist", "write"} : Find(s, at) /\ UNCHANGED memory
    BY <1>10 DEF Delete, SetObject
  <2>2. PICK o \in Objects : \E p \in Lookup(o.id) : Begin(s, o, p, at)
    BY <2>1 DEF Find
  <2>3. PICK p \in Lookup(o.id) : Begin(s, o, p, at)
    BY <2>2
  <2>4. QED
    BY <2>1, <2>3, BeginKeeps
<1>11. CASE Writes(s)
  <2>1. Listed' = Listed /\ UNCHANGED <<list, live>>
    BY <1>11 DEF Writes, WriteNode, WriteEP, Listed
  <2>2. \A t \in Sessions : pc'[t] # pc[t] => pc'[t] \in {"idle", "update"}
    BY <1>11 DEF Writes, WriteNode, WriteEP, Goto, End, Types, TypeOK
  <2>3. \A t \in Sessions : pc'[t] \in {"idle", "update"} \/ ptr'[t] = ptr[t]
    BY <1>11 DEF Writes, WriteNode, WriteEP, Goto, End, Types, TypeOK
  <2>4. QED
    BY <2>1, <2>2, <2>3 DEF ListSound, OwnsPrey, NoneInHand
<1>12. CASE Update(s)
  <2>1. Listed' = Listed /\ UNCHANGED <<list, live>>
    BY <1>12 DEF Update, Listed, memory
  <2>2. \A t \in Sessions : pc'[t] # pc[t] => pc'[t] = "idle"
    BY <1>12 DEF Update, End, Types, TypeOK
  <2>3. \A t \in Sessions : pc'[t] = "idle" \/ ptr'[t] = ptr[t]
    BY <1>12 DEF Update, End, Types, TypeOK
  <2>4. QED
    BY <2>1, <2>2, <2>3 DEF ListSound, OwnsPrey, NoneInHand
<1>13. QED
  BY <1>1, <1>2, <1>3, <1>4, <1>5, <1>6, <1>7, <1>8, <1>9, <1>10, <1>11, <1>12
     DEF SessionStep

\* The kind of object stays.
LEMMA KindStays == [Next]_vars => kind' = kind
<1> SUFFICES ASSUME [Next]_vars PROVE kind' = kind
  OBVIOUS
<1>1. CASE UNCHANGED vars
  BY <1>1 DEF vars
<1>2. CASE Boots
  BY <1>2 DEF Boots, Open, LoadRow, RowsLoaded, LoadFails, LoadFile, FileFails, Serve, Crash
<1>3. ASSUME NEW s \in Sessions,
             SessionStep(s)
      PROVE  kind' = kind
  BY <1>3 DEF SessionStep, AddNode, AddEP, AddsOther, AddTrigger, AddAction, AddRule, AddUnlisted, Recheck, Insert, Lists, ListNode,
              ListAction, ListEP, ListRule, ListNothing, Added, AddFails, Unlist, Destroy,
              Delete, SetObject, Writes, WriteNode, WriteEP, Update
<1>4. QED
  BY <1>1, <1>2, <1>3, NextSplit

LEMMA IInvStep == Types /\ IInv /\ [Next]_vars => IInv'
<1> SUFFICES ASSUME Types, IInv, [Next]_vars, Sound' PROVE ListSound' /\ OwnsPrey' /\ NoneInHand'
  BY DEF IInv
<1>1. Sound
  BY KindStays DEF Sound
<1>2. CASE UNCHANGED vars
  BY <1>1, <1>2 DEF vars, memory, session, IInv, ListSound, OwnsPrey, NoneInHand, Listed
<1>3. CASE Next
  BY <1>1, <1>3, NextSplit, BootKeeps, SessionKeeps
<1>4. QED
  BY <1>2, <1>3

\* However many sessions add, delete and set at once, and however often calls fail, no
\* node and no action that is listed has been freed, and none is listed twice.
THEOREM NothingDangles == Spec => []NeverDangling
<1>1. Spec => [](Types /\ IInv)
  BY TypesInit, TypesStep, IInvInit, IInvStep, PTL DEF Spec
<1>2. IInv => NeverDangling
  BY DEF IInv, Sound, ListSound, NeverDangling
<1>3. QED
  BY <1>1, <1>2, PTL

-------------------------------------------------------------------------------
(* The table and the list, as long as no session has used a freed block.      *)

Adding(s) == pc[s] \in {"recheck", "insert", "append"}

\* Sessions work only while the process serves, and nothing is left of a process.
Quiet ==
    /\ phase # "serving" => \A s \in Sessions : pc[s] = "idle"
    /\ phase = "down" => live = {}

\* What a session holds is allocated, and is the object it was asked about.
HandLive ==
    /\ \A s \in Sessions : pc[s] = "idle" => ptr[s] = NoPtr
    /\ \A s \in Sessions : ptr[s] # NoPtr => ptr[s] \in live /\ heap[ptr[s]].id = req[s].id

\* An endpoint that is being added is its session's alone.
HandOwn ==
    /\ \A s \in Sessions : Adding(s) /\ kind # "ep" => ptr[s] = NoPtr
    /\ \A s \in Sessions : Adding(s) /\ ptr[s] # NoPtr =>
         /\ heap[ptr[s]] = req[s] /\ ptr[s] \notin Listed
         /\ \A t \in Sessions \ {s} : ptr[t] # ptr[s]

\* An object that was looked up is in the list until a deletion takes it out.
HandListed ==
    \A s \in Sessions : pc[s] \in {"unlist", "write", "update"} =>
        ptr[s] \in Listed \/ \E t \in Sessions : pc[t] = "destroy" /\ ptr[t] = ptr[s]

\* Two sessions that work on one identifier are noted.
Overlaps ==
    \A s, t \in Sessions :
        s # t /\ pc[s] # "idle" /\ pc[t] # "idle" /\ req[s].id = req[t].id => req[s].id \in overlap

\* What the place of a session says of the row of its object.
RowSound ==
    /\ \A s \in Sessions : pc[s] \in {"unlist", "destroy"} => req[s].id \notin promised \ overlap
    /\ \A s \in Sessions : pc[s] = "append" => req[s].id \in Rows \cup failed \cup overlap
    /\ \A s \in Sessions : pc[s] = "recheck" => req[s].id \notin Rows \ overlap

Survive == (promised \ (overlap \cup failed)) \subseteq Rows

Held == Quiet /\ HandLive /\ HandOwn /\ HandListed /\ Overlaps /\ RowSound /\ Survive

LEMMA BeginFrame ==
    ASSUME TypeOK, NEW s \in Sessions, NEW o, NEW p, NEW at, Begin(s, o, p, at)
    PROVE  /\ phase = "serving" /\ pc[s] = "idle"
           /\ pc'[s] = at /\ req'[s] = o /\ ptr'[s] = p
           /\ \A t \in Sessions \ {s} : pc'[t] = pc[t] /\ req'[t] = req[t] /\ ptr'[t] = ptr[t]
           /\ overlap \subseteq overlap'
           /\ \A t \in Sessions \ {s} : pc[t] # "idle" /\ req[t].id = o.id => o.id \in overlap'
  BY DEF TypeOK, Begin

LEMMA EndFrame ==
    ASSUME TypeOK, NEW s \in Sessions, End(s)
    PROVE  /\ pc'[s] = "idle" /\ ptr'[s] = NoPtr
           /\ \A t \in Sessions \ {s} : pc'[t] = pc[t] /\ req'[t] = req[t] /\ ptr'[t] = ptr[t]
  BY DEF TypeOK, End

LEMMA GotoFrame ==
    ASSUME TypeOK, NEW s \in Sessions, NEW at, Goto(s, at)
    PROVE  /\ pc'[s] = at /\ ptr' = ptr /\ req' = req
           /\ \A t \in Sessions \ {s} : pc'[t] = pc[t]
  BY DEF TypeOK, Goto

LEMMA BeginOverlaps ==
    ASSUME TypeOK, Overlaps, NEW s \in Sessions, NEW o, NEW p, NEW at, Begin(s, o, p, at)
    PROVE  Overlaps'
  BY BeginFrame DEF Overlaps

LEMMA OverlapsStay ==
    ASSUME Overlaps, overlap' = overlap,
           \A t \in Sessions : pc'[t] # "idle" => pc[t] # "idle" /\ req'[t] = req[t]
    PROVE  Overlaps'
  BY DEF Overlaps

LEMMA HeldAddOther ==
    ASSUME Types, Held, NEW s \in Sessions, AddNode(s) \/ AddsOther(s)
    PROVE  Held'
<1> USE DEF Types, Held
<1>1. PICK o \in Objects : Begin(s, o, NoPtr, "insert")
  BY DEF AddNode, AddsOther, AddTrigger, AddAction, AddRule, AddUnlisted
<1>2. kind # "ep" /\ UNCHANGED <<kind, phase, row, list, heap, live, failed, promised>>
  BY DEF AddNode, AddsOther, AddTrigger, AddAction, AddRule, AddUnlisted, store, memory
<1>3. Quiet' /\ HandLive' /\ HandOwn'
  BY <1>1, <1>2, BeginFrame DEF Quiet, HandLive, HandOwn, Adding, Listed
<1>4. HandListed'
  BY <1>1, <1>2, BeginFrame DEF HandListed, Listed
<1>5. Overlaps'
  BY <1>1, BeginOverlaps
<1>6. RowSound' /\ Survive'
  BY <1>1, <1>2, BeginFrame DEF RowSound, Survive, Rows
<1>7. QED
  BY <1>3, <1>4, <1>5, <1>6

LEMMA HeldAddEP ==
    ASSUME Types, Held, NEW s \in Sessions, AddEP(s), ~astray'
    PROVE  Held'
<1> USE DEF Types, Held
<1>1. PICK o \in Objects, p \in Ptrs \ live :
         /\ Begin(s, o, p, IF row[o.id] = NoRow THEN "recheck" ELSE "append")
         /\ heap' = [heap EXCEPT ![p] = o] /\ live' = live \cup {p}
         /\ p \notin Listed
  BY DEF AddEP
<1>2. kind = "ep" /\ UNCHANGED <<kind, phase, row, list, failed, promised>>
  BY DEF AddEP, store
<1>3. /\ p # NoPtr /\ heap'[p] = o /\ \A q \in Ptrs \ {p} : heap'[q] = heap[q]
      /\ live \subseteq Ptrs /\ o.id \in Ids
  BY <1>1, PtrAssumption DEF TypeOK, Objects
<1>4. \A t \in Sessions : ptr[t] # p
  BY <1>1, <1>3 DEF HandLive
<1>5. \A t \in Sessions : ptr[t] # NoPtr => heap'[ptr[t]] = heap[ptr[t]] /\ ptr[t] \in live'
  BY <1>1, <1>3, <1>4 DEF HandLive
<1>6. Quiet' /\ HandLive'
  BY <1>1, <1>2, <1>3, <1>5, BeginFrame DEF Quiet, HandLive
<1>7. HandOwn'
  BY <1>1, <1>2, <1>3, <1>4, <1>5, BeginFrame DEF HandOwn, Adding, Listed
<1>8. HandListed'
  BY <1>1, <1>2, BeginFrame DEF HandListed, Listed
<1>9. Overlaps'
  BY <1>1, BeginOverlaps
<1>10. Survive'
  BY <1>1, <1>2, BeginFrame DEF Survive, Rows
<1>11. RowSound'
  BY <1>1, <1>2, <1>3, BeginFrame DEF RowSound, Rows
<1>12. QED
  BY <1>6, <1>7, <1>8, <1>9, <1>10, <1>11

\* What a lookup finds has the identifier that was looked for.
LEMMA LookupMatches ==
    ASSUME TypeOK, NEW id, NEW p \in Lookup(id)
    PROVE  heap[p].id = id
  BY DEF Lookup, Matches

LEMMA HeldFind ==
    ASSUME Types, Held, NEW s \in Sessions, Delete(s) \/ SetObject(s), ~astray'
    PROVE  Held'
<1> USE DEF Types, Held
<1>0. PICK at \in {"unlist", "write"} : Find(s, at)
  BY DEF Delete, SetObject
<1>1. PICK o \in Objects : \E p \in Lookup(o.id) :
        /\ Begin(s, o, p, at)
        /\ p \in live
        /\ promised' = IF at = "unlist" THEN promised \ {o.id} ELSE promised
  BY <1>0 DEF Find
<1>2. PICK p \in Lookup(o.id) :
        /\ Begin(s, o, p, at)
        /\ p \in live
        /\ promised' = IF at = "unlist" THEN promised \ {o.id} ELSE promised
  BY <1>1
<1>3. UNCHANGED <<kind, phase, row, list, heap, live, failed>>
  BY DEF Delete, SetObject, store, memory
<1>4. p \in Ptrs /\ p \in Listed /\ heap[p].id = o.id /\ p # NoPtr
  BY <1>2, LookupFinds, LookupMatches, PtrAssumption
<1>5. Quiet' /\ HandLive'
  BY <1>2, <1>3, <1>4, BeginFrame DEF Quiet, HandLive
<1>6. HandOwn'
  BY <1>2, <1>3, <1>4, BeginFrame DEF HandOwn, Adding, Listed
<1>7. HandListed'
  BY <1>2, <1>3, <1>4, BeginFrame DEF HandListed, Listed
<1>8. Overlaps'
  BY <1>2, BeginOverlaps
<1>9. RowSound'
  BY <1>2, <1>3, BeginFrame DEF RowSound, Rows
<1>10. Survive'
  BY <1>2, <1>3, BeginFrame DEF Survive, Rows
<1>11. QED
  BY <1>5, <1>6, <1>7, <1>8, <1>9, <1>10

LEMMA HeldRecheck ==
    ASSUME Types, Held, NEW s \in Sessions, Recheck(s)
    PROVE  Held'
<1> USE DEF Types, Held
<1>1. /\ pc[s] = "recheck"
      /\ UNCHANGED <<kind, phase, row, list, heap, overlap, failed, promised>>
  BY DEF Recheck, store, history
<1>2. CASE row[req[s].id] = NoRow
  <2>1. Goto(s, "insert") /\ UNCHANGED live
    BY <1>2 DEF Recheck
  <2>2. Quiet' /\ HandLive' /\ HandOwn' /\ HandListed'
    BY <1>1, <2>1, GotoFrame DEF Quiet, HandLive, HandOwn, HandListed, Adding, Listed
  <2>3. Overlaps' /\ RowSound' /\ Survive'
    BY <1>1, <2>1, GotoFrame DEF Overlaps, RowSound, Survive, Rows
  <2>4. QED
    BY <2>2, <2>3
<1>3. CASE row[req[s].id] # NoRow
  <2>1. End(s) /\ live' = live \ {ptr[s]}
    BY <1>3 DEF Recheck
  <2>2. \A t \in Sessions \ {s} : ptr[t] # NoPtr => ptr[t] # ptr[s]
    BY <1>1 DEF HandOwn, Adding
  <2>3. Quiet' /\ HandLive'
    BY <1>1, <2>1, <2>2, EndFrame DEF Quiet, HandLive
  <2>4. HandOwn' /\ HandListed'
    BY <1>1, <2>1, EndFrame DEF HandOwn, HandListed, Adding, Listed
  <2>5. Overlaps' /\ RowSound' /\ Survive'
    BY <1>1, <2>1, EndFrame DEF Overlaps, RowSound, Survive, Rows
  <2>6. QED
    BY <2>3, <2>4, <2>5
<1>4. QED
  BY <1>2, <1>3

LEMMA HeldInsert ==
    ASSUME Types, Held, NEW s \in Sessions, Insert(s)
    PROVE  Held'
<1> USE DEF Types, Held
<1> DEFINE id == req[s].id
<1>1. /\ pc[s] = "insert" /\ Goto(s, "append")
      /\ UNCHANGED <<kind, phase, list, heap, live, overlap, promised>>
  BY DEF Insert, memory
<1>2. id \in Ids /\ req[s].info \in Infos /\ req[s].info # NoRow
  BY RowAssumption DEF TypeOK, Objects
<1>3. /\ failed \subseteq failed' /\ Rows \subseteq Rows' /\ id \in Rows' \cup failed'
      /\ Rows' \subseteq Rows \cup {id}
  <2>1. req[s] \in Objects
    BY DEF TypeOK
  <2>2. QED
    BY <1>2, <2>1, InsertedIsRow DEF Insert, Fail, Rows
<1>4. Quiet' /\ HandLive' /\ HandOwn' /\ HandListed' /\ Overlaps'
  BY <1>1, GotoFrame DEF Quiet, HandLive, HandOwn, HandListed, Overlaps, Adding, Listed
<1>5. \A t \in Sessions \ {s} : pc[t] = "recheck" /\ req[t].id = id => id \in overlap
  BY <1>1 DEF Overlaps
<1> HIDE DEF id
<1>6. RowSound'
  <2>1. \A t \in Sessions : pc'[t] \in {"unlist", "destroy"} => req'[t].id \notin promised' \ overlap'
    BY <1>1, GotoFrame DEF RowSound
  <2>2. \A t \in Sessions : pc'[t] = "append" => req'[t].id \in Rows' \cup failed' \cup overlap'
    BY <1>1, <1>3, GotoFrame DEF RowSound, id
  <2>3. \A t \in Sessions : pc'[t] = "recheck" => req'[t].id \notin Rows' \ overlap'
    BY <1>1, <1>3, <1>5, GotoFrame DEF RowSound
  <2>4. QED
    BY <2>1, <2>2, <2>3 DEF RowSound
<1>7. Survive'
  BY <1>1, <1>3 DEF Survive
<1>8. QED
  BY <1>4, <1>6, <1>7

\* A list with one entry more, or one less.
LEMMA ListGrows ==
    ASSUME TypeOK, NEW p \in Ptrs, list' = Append(list, p)
    PROVE  Listed' = Listed \cup {p}
<1>1. /\ Len(list) \in Nat /\ DOMAIN list = 1..Len(list)
      /\ DOMAIN list' = 1..(Len(list) + 1)
      /\ \A k \in 1..Len(list) : list'[k] = list[k]
      /\ list'[Len(list) + 1] = p
  BY AppendProperties, LenProperties DEF TypeOK
<1>2. QED
  BY <1>1 DEF Listed

LEMMA EnlistGrows ==
    ASSUME TypeOK, NEW p \in Ptrs, NEW o, Enlist(p, o)
    PROVE  Listed' = Listed \cup {p}
<1> DEFINE e == Entries(p)
<1>1. e \in Seq(Ptrs) /\ Len(e) \in 1..2 /\ \A k \in 1..Len(e) : e[k] = p
  BY DEF Entries
<1>2. list \in Seq(Ptrs) /\ list' = list \o e
  BY DEF TypeOK, Enlist
<1> HIDE DEF e
<1>3. /\ Len(list) \in Nat /\ Len(e) \in Nat /\ DOMAIN list = 1..Len(list)
      /\ list' \in Seq(Ptrs) /\ Len(list') = Len(list) + Len(e)
      /\ DOMAIN list' = 1..Len(list')
      /\ \A k \in 1..Len(list') : list'[k] = IF k <= Len(list) THEN list[k] ELSE e[k - Len(list)]
  BY <1>1, <1>2, ConcatProperties, LenProperties
<1>4. \A k \in 1..Len(list') : list'[k] \in Listed \cup {p}
  <2>1. ASSUME NEW k \in 1..Len(list') PROVE list'[k] \in Listed \cup {p}
    <3>1. CASE k <= Len(list)
      BY <1>3, <3>1 DEF Listed
    <3>2. CASE ~(k <= Len(list))
      <4>1. k - Len(list) \in 1..Len(e)
        BY <1>3, <3>2
      <4>2. QED
        BY <1>1, <1>3, <3>2, <4>1
    <3>3. QED
      BY <3>1, <3>2
  <2>2. QED
    BY <2>1
<1>5. \A k \in 1..Len(list) : k \in 1..Len(list') /\ list'[k] = list[k]
  BY <1>3
<1>6. Len(list) + 1 \in 1..Len(list') /\ list'[Len(list) + 1] = p
  <2>1. /\ Len(list) + 1 \in 1..Len(list') /\ ~(Len(list) + 1 <= Len(list))
        /\ (Len(list) + 1) - Len(list) = 1 /\ 1 \in 1..Len(e)
    <3>1. ASSUME NEW m \in Nat, NEW n \in 1..2
          PROVE  m + 1 \in 1..(m + n) /\ ~(m + 1 <= m) /\ (m + 1) - m = 1 /\ 1 \in 1..n
      OBVIOUS
    <3>2. QED
      BY <1>1, <1>3, <3>1
  <2>2. list'[Len(list) + 1] = e[(Len(list) + 1) - Len(list)]
    BY <1>3, <2>1
  <2>3. e[1] = p
    BY <1>1, <2>1
  <2>4. QED
    BY <2>1, <2>2, <2>3
<1>7. QED
  BY <1>3, <1>4, <1>5, <1>6 DEF Listed

LEMMA UnlistShrinks ==
    ASSUME TypeOK, NEW i \in DOMAIN list, list' = Without(list, i)
    PROVE  Listed' \subseteq Listed /\ Listed \ {list[i]} \subseteq Listed'
<1>1. list \in Seq(Ptrs)
  BY DEF TypeOK
<1>2. Len(list) \in Nat /\ DOMAIN list = 1..Len(list)
  BY <1>1, LenProperties
<1>3. /\ DOMAIN list' = 1..(Len(list) - 1)
      /\ \A k \in 1..(Len(list) - 1) : list'[k] = IF k < i THEN list[k] ELSE list[k + 1]
  BY <1>1, WithoutProperties
<1>4. Listed' \subseteq Listed
  BY <1>2, <1>3 DEF Listed
<1>5. ASSUME NEW p \in Listed \ {list[i]} PROVE p \in Listed'
  <2>1. PICK k \in 1..Len(list) : list[k] = p
    BY <1>2 DEF Listed
  <2>2. CASE k < i
    <3>1. k \in 1..(Len(list) - 1) /\ list'[k] = p
      BY <1>2, <1>3, <2>1, <2>2
    <3>2. QED
      BY <1>3, <3>1 DEF Listed
  <2>3. CASE k > i
    <3>1. k - 1 \in 1..(Len(list) - 1) /\ ~(k - 1 < i) /\ (k - 1) + 1 = k
      BY <1>2, <2>3
    <3>2. list'[k - 1] = list[(k - 1) + 1]
      BY <1>3, <3>1
    <3>3. QED
      BY <1>3, <2>1, <3>1, <3>2 DEF Listed
  <2>4. QED
    BY <1>2, <2>1, <2>2, <2>3
<1>6. QED
  BY <1>4, <1>5

\* What the last step of an addition lists: a block that was free, the one that was made
\* before, any block for a rule, or none.
LEMMA ListsWhat ==
    ASSUME Types, NEW s \in Sessions, Lists(s)
    PROVE  /\ pc[s] = "append" /\ End(s) /\ promised' = promised \cup {req[s].id}
           /\ UNCHANGED <<kind, phase, row, overlap, failed>>
           /\ \/ /\ kind \in {"node", "action"}
                 /\ \E p \in Ptrs \ live : /\ Listed' = Listed \cup {p}
                                           /\ live' = live \cup {p}
                                           /\ heap' = [heap EXCEPT ![p] = Copy(req[s])]
              \/ /\ kind = "ep" /\ ptr[s] \in Ptrs /\ UNCHANGED <<heap, live>>
                 /\ Listed' = Listed \cup {ptr[s]}
              \/ /\ kind \in {"rule", "trigger"} /\ UNCHANGED <<heap, live>>
                 /\ Listed \subseteq Listed'
<1>1. Added(s)
  BY DEF Lists, ListNode, ListAction, ListEP, ListRule, ListNothing
<1>2. /\ pc[s] = "append" /\ End(s) /\ promised' = promised \cup {req[s].id}
      /\ UNCHANGED <<kind, phase, row, overlap, failed>>
  BY <1>1 DEF Added, store
<1>3. CASE ListNode(s) \/ ListAction(s)
  <2>1. PICK p \in Ptrs \ live : Enlist(p, Copy(req[s]))
    BY <1>3 DEF ListNode, ListAction
  <2>2. /\ Listed' = Listed \cup {p} /\ live' = live \cup {p}
        /\ heap' = [heap EXCEPT ![p] = Copy(req[s])] /\ kind \in {"node", "action"}
    BY <1>3, <2>1, EnlistGrows DEF Types, Enlist, ListNode, ListAction
  <2>3. QED
    BY <1>2, <2>2
<1>4. CASE ListEP(s)
  <2>1. /\ kind = "ep" /\ ptr[s] \in Ptrs /\ UNCHANGED <<heap, live>>
        /\ Listed' = Listed \cup {ptr[s]}
    BY <1>2, <1>4, ListGrows DEF ListEP, Types, PtrOK
  <2>2. QED
    BY <1>2, <2>1
<1>5. CASE ListRule(s)
  <2>1. kind = "rule" /\ UNCHANGED <<heap, live>> /\ Listed \subseteq Listed'
    BY <1>5, ListGrows DEF ListRule, Types
  <2>2. QED
    BY <1>2, <2>1
<1>6. CASE ListNothing(s)
  <2>1. kind = "trigger" /\ UNCHANGED <<heap, live>> /\ Listed \subseteq Listed'
    BY <1>6 DEF ListNothing, memory, Listed
  <2>2. QED
    BY <1>2, <2>1
<1>7. QED
  BY <1>3, <1>4, <1>5, <1>6 DEF Lists

LEMMA HeldLists ==
    ASSUME Types, Held, NEW s \in Sessions, Lists(s)
    PROVE  Held'
<1> USE DEF Types, Held
<1>1. /\ pc[s] = "append" /\ End(s) /\ promised' = promised \cup {req[s].id}
      /\ UNCHANGED <<kind, phase, row, overlap, failed>> /\ Listed \subseteq Listed'
  BY ListsWhat
<1>2. \A t \in Sessions \ {s} : pc[t] # "idle" /\ req[t].id = req[s].id => req[s].id \in overlap
  BY <1>1 DEF Overlaps
<1>3. Overlaps' /\ HandListed' /\ Survive'
  BY <1>1, EndFrame DEF Overlaps, HandListed, Survive, RowSound, Rows
<1>4. RowSound'
  BY <1>1, <1>2, EndFrame DEF RowSound, Rows
<1>5. Quiet' /\ HandLive' /\ HandOwn'
  <2>1. CASE kind \in {"node", "action"}
    <3>1. PICK p \in Ptrs \ live : /\ Listed' = Listed \cup {p} /\ live' = live \cup {p}
                                   /\ heap' = [heap EXCEPT ![p] = Copy(req[s])]
      BY <2>1, ListsWhat
    <3>2. \A t \in Sessions : ptr[t] # NoPtr => heap'[ptr[t]] = heap[ptr[t]] /\ ptr[t] # p
      BY <3>1 DEF HandLive, TypeOK
    <3>3. QED
      BY <1>1, <2>1, <3>1, <3>2, EndFrame DEF Quiet, HandLive, HandOwn, Adding
  <2>2. CASE kind = "ep"
    <3>1. ptr[s] \in Ptrs /\ UNCHANGED <<heap, live>> /\ Listed' = Listed \cup {ptr[s]}
      BY <2>2, ListsWhat
    <3>2. \A t \in Sessions \ {s} : ptr[t] # ptr[s]
      BY <1>1, <3>1, PtrAssumption DEF HandOwn, Adding
    <3>3. QED
      BY <1>1, <2>2, <3>1, <3>2, EndFrame DEF Quiet, HandLive, HandOwn, Adding
  <2>3. CASE kind \in {"rule", "trigger"}
    <3>1. UNCHANGED <<heap, live>>
      BY <2>3, ListsWhat
    <3>2. QED
      BY <1>1, <2>3, <3>1, EndFrame DEF Quiet, HandLive, HandOwn, Adding
  <2>4. QED
    BY <2>1, <2>2, <2>3 DEF TypeOK, Kinds
<1>6. QED
  BY <1>3, <1>4, <1>5

LEMMA HeldAddFails ==
    ASSUME Types, Held, NEW s \in Sessions, AddFails(s)
    PROVE  Held'
<1> USE DEF Types, Held
<1> DEFINE id == req[s].id
<1>1. /\ pc[s] = "append" /\ End(s) /\ live' = live \ {ptr[s]}
      /\ UNCHANGED <<kind, phase, list, heap, overlap, promised>>
      /\ failed' = failed \cup {id} /\ row' = [row EXCEPT ![id] = NoRow] /\ id \in Ids
  BY DEF AddFails, Fail, TypeOK, Objects
<1>2. Rows' = Rows \ {id}
  BY <1>1 DEF Rows, TypeOK
<1> HIDE DEF id
<1>3. \A t \in Sessions \ {s} : ptr[t] # NoPtr => ptr[t] # ptr[s]
  BY <1>1 DEF HandOwn, Adding
<1>4. Quiet' /\ HandLive' /\ HandOwn' /\ HandListed' /\ Overlaps'
  BY <1>1, <1>3, EndFrame DEF Quiet, HandLive, HandOwn, HandListed, Overlaps, Adding, Listed
<1>5. RowSound' /\ Survive'
  BY <1>1, <1>2, EndFrame DEF RowSound, Survive
<1>6. QED
  BY <1>4, <1>5

LEMMA HeldUnlist ==
    ASSUME Types, Held, NEW s \in Sessions, Unlist(s)
    PROVE  Held'
<1> USE DEF Types, Held
<1>1. pc[s] = "unlist" /\ UNCHANGED <<kind, phase, row, heap, live, overlap, failed, promised>>
  BY DEF Unlist, store, history
<1>2. CASE End(s) /\ UNCHANGED list
  <2>1. Quiet' /\ HandLive' /\ HandOwn' /\ HandListed'
    BY <1>1, <1>2, EndFrame DEF Quiet, HandLive, HandOwn, HandListed, Adding, Listed
  <2>2. Overlaps' /\ RowSound' /\ Survive'
    BY <1>1, <1>2, EndFrame DEF Overlaps, RowSound, Survive, Rows
  <2>3. QED
    BY <2>1, <2>2
<1>3. ASSUME NEW i \in DOMAIN list, list[i] = ptr[s], list' = Without(list, i), Goto(s, "destroy")
      PROVE  Held'
  <2>1. Listed' \subseteq Listed /\ Listed \ {ptr[s]} \subseteq Listed'
    BY <1>3, UnlistShrinks
  <2>2. Quiet' /\ HandLive' /\ HandOwn'
    BY <1>1, <1>3, <2>1, GotoFrame DEF Quiet, HandLive, HandOwn, Adding
  <2>3. HandListed'
    <3>1. ASSUME NEW t \in Sessions, pc'[t] \in {"unlist", "write", "update"}, ptr'[t] \notin Listed'
          PROVE  \E u \in Sessions : pc'[u] = "destroy" /\ ptr'[u] = ptr'[t]
      <4>1. t # s /\ pc[t] = pc'[t] /\ ptr' = ptr /\ pc'[s] = "destroy"
        BY <1>3, <3>1, GotoFrame
      <4>2. CASE ptr[t] = ptr[s]
        BY <4>1, <4>2
      <4>3. CASE ptr[t] \notin Listed
        <5>1. PICK u \in Sessions : pc[u] = "destroy" /\ ptr[u] = ptr[t]
          BY <3>1, <4>1, <4>3 DEF HandListed
        <5>2. u # s
          BY <1>1, <5>1
        <5>3. pc'[u] = "destroy"
          BY <1>3, <5>1, <5>2, GotoFrame
        <5>4. QED
          BY <4>1, <5>1, <5>3
      <4>4. QED
        BY <2>1, <3>1, <4>1, <4>2, <4>3
    <3>2. QED
      BY <3>1 DEF HandListed
  <2>4. Overlaps' /\ RowSound' /\ Survive'
    BY <1>1, <1>3, GotoFrame DEF Overlaps, RowSound, Survive, Rows
  <2>5. QED
    BY <2>2, <2>3, <2>4
<1>4. QED
  BY <1>2, <1>3 DEF Unlist

\* A deletion that frees a block nobody else holds.
LEMMA DestroyWhat ==
    ASSUME Types, Held, NEW s \in Sessions, Destroy(s), ~astray'
    PROVE  /\ pc[s] = "destroy" /\ End(s) /\ ptr[s] \in Ptrs /\ live' = live \ {ptr[s]}
           /\ UNCHANGED <<kind, phase, list, heap, overlap, promised>>
           /\ heap[ptr[s]].id = req[s].id /\ ptr[s] \in live
           /\ \A t \in Sessions \ {s} : ptr[t] # ptr[s]
           /\ failed \subseteq failed' /\ Rows' \subseteq Rows /\ Rows \ {req[s].id} \subseteq Rows'
           /\ req[s].id \notin Rows' \ failed'
           /\ \A id \in Ids \ {req[s].id} : row'[id] = row[id]
<1> USE DEF Types, Held
<1>1. pc[s] = "destroy" /\ ptr[s] \in Ptrs
  BY DEF Destroy, PtrOK
<1>2. heap[ptr[s]].id = req[s].id /\ ptr[s] \in live
  BY <1>1, PtrAssumption DEF HandLive
<1>3. req[s].id \in Ids
  BY DEF TypeOK, Objects
<1>4. /\ End(s) /\ live' = live \ {ptr[s]}
      /\ UNCHANGED <<kind, phase, list, heap, overlap, promised>>
      /\ \A t \in Sessions \ {s} : ptr[t] # ptr[s]
  BY DEF Destroy
<1>5. \/ row' = [row EXCEPT ![req[s].id] = NoRow] /\ UNCHANGED failed
      \/ failed' = failed \cup {req[s].id} /\ UNCHANGED row
  BY <1>2 DEF Destroy, Fail
<1>6. /\ failed \subseteq failed' /\ Rows' \subseteq Rows /\ Rows \ {req[s].id} \subseteq Rows'
      /\ req[s].id \notin Rows' \ failed'
      /\ \A id \in Ids \ {req[s].id} : row'[id] = row[id]
  BY <1>3, <1>5 DEF Rows, TypeOK
<1>7. QED
  BY <1>1, <1>2, <1>4, <1>6

LEMMA HeldDestroy ==
    ASSUME Types, Held, NEW s \in Sessions, Destroy(s), ~astray'
    PROVE  Held'
<1> USE DEF Types, Held
<1>1. Quiet' /\ HandLive' /\ HandOwn' /\ HandListed' /\ Overlaps'
  BY DestroyWhat, EndFrame DEF Quiet, HandLive, HandOwn, HandListed, Overlaps, Adding, Listed
<1>2. \A t \in Sessions \ {s} : pc[t] # "idle" /\ req[t].id = req[s].id => req[s].id \in overlap
  BY DestroyWhat DEF Overlaps
<1>3. RowSound'
  BY <1>2, DestroyWhat, EndFrame DEF RowSound
<1>4. Survive'
  BY DestroyWhat DEF RowSound, Survive
<1>5. QED
  BY <1>1, <1>3, <1>4

\* A set keeps the identifier of the block it writes.
LEMMA WriteWhat ==
    ASSUME Types, Held, NEW s \in Sessions, Writes(s)
    PROVE  /\ pc[s] = "write" /\ ptr[s] \in Ptrs /\ heap[ptr[s]].id = req[s].id
           /\ UNCHANGED <<kind, phase, row, list, live, overlap, failed, promised>>
           /\ heap'[ptr[s]].id = req[s].id
           /\ \A q \in Ptrs \ {ptr[s]} : heap'[q] = heap[q]
           /\ \/ kind = "node" /\ End(s)
              \/ kind = "ep" /\ Goto(s, "update")
<1> USE DEF Types, Held
<1>1. pc[s] = "write" /\ ptr[s] \in Ptrs
  BY DEF Writes, WriteNode, WriteEP, PtrOK
<1>2. heap[ptr[s]].id = req[s].id
  BY <1>1, PtrAssumption DEF HandLive
<1>3. /\ UNCHANGED <<kind, phase, row, list, live, overlap, failed, promised>>
      /\ \/ kind = "node" /\ End(s)
         \/ kind = "ep" /\ Goto(s, "update")
  <2>1. CASE WriteNode(s)
    BY <2>1, Zenon DEF WriteNode, store, history
  <2>2. CASE WriteEP(s)
    BY <2>2, Zenon DEF WriteEP, store, history
  <2>3. QED
    BY <2>1, <2>2, Zenon DEF Writes
<1>4. heap'[ptr[s]].id = req[s].id /\ \A q \in Ptrs \ {ptr[s]} : heap'[q] = heap[q]
  <2>1. heap \in [Ptrs -> Objects]
    BY DEF TypeOK
  <2>2. CASE heap' = [heap EXCEPT ![ptr[s]] = req[s]]
    BY <1>1, <2>1, <2>2
  <2>3. CASE heap' = [heap EXCEPT ![ptr[s]].info = req[s].info]
    BY <1>1, <1>2, <2>1, <2>3 DEF Objects
  <2>4. QED
    BY <2>2, <2>3 DEF Writes, WriteNode, WriteEP
<1>5. QED
  BY <1>1, <1>2, <1>3, <1>4

LEMMA HeldWrites ==
    ASSUME Types, Held, NEW s \in Sessions, Writes(s)
    PROVE  Held'
<1> USE DEF Types, Held
<1>0. /\ \A t \in Sessions \ {s} : pc'[t] = pc[t] /\ req'[t] = req[t] /\ ptr'[t] = ptr[t]
      /\ \/ pc'[s] = "idle" /\ ptr'[s] = NoPtr
         \/ pc'[s] = "update" /\ ptr'[s] = ptr[s] /\ req'[s] = req[s]
  BY WriteWhat, EndFrame, GotoFrame
<1>1. \A t \in Sessions : ptr[t] # NoPtr => heap'[ptr[t]].id = req[t].id /\ ptr[t] \in Ptrs
  BY WriteWhat DEF HandLive, TypeOK
<1>2. \A t \in Sessions : Adding(t) /\ ptr[t] # NoPtr => heap'[ptr[t]] = heap[ptr[t]]
  BY WriteWhat, <1>1 DEF HandOwn, Adding
<1>3. Quiet' /\ HandLive' /\ HandListed'
  BY <1>0, <1>1, WriteWhat DEF Quiet, HandLive, HandListed, Listed
<1>4. HandOwn'
  BY <1>0, <1>2, WriteWhat DEF HandOwn, Adding, Listed
<1>5. Overlaps' /\ RowSound' /\ Survive'
  BY <1>0, WriteWhat DEF Overlaps, RowSound, Survive, Rows
<1>6. QED
  BY <1>3, <1>4, <1>5

LEMMA UpdateWhat ==
    ASSUME Types, Held, NEW s \in Sessions, Update(s)
    PROVE  /\ pc[s] = "update" /\ ptr[s] \in Ptrs /\ heap[ptr[s]].id = req[s].id /\ End(s)
           /\ UNCHANGED <<kind, phase, list, heap, live, overlap, promised>>
           /\ Rows' = Rows /\ failed \subseteq failed'
           /\ \A id \in Ids \ {req[s].id} : row'[id] = row[id]
           /\ req[s].id \in Rows' \ failed' => row'[req[s].id] = heap[ptr[s]].info
<1> USE DEF Types, Held
<1>1. pc[s] = "update" /\ ptr[s] \in Ptrs
  BY DEF Update, PtrOK
<1>2. heap[ptr[s]].id = req[s].id
  BY <1>1, PtrAssumption DEF HandLive
<1>3. req[s].id \in Ids /\ heap[ptr[s]].info \in Infos /\ heap[ptr[s]].info # NoRow
  BY <1>1, RowAssumption DEF TypeOK, Objects
<1>4. /\ End(s) /\ UNCHANGED <<kind, phase, list, heap, live, overlap, promised>>
      /\ \/ /\ row' = IF row[req[s].id] = NoRow THEN row
                      ELSE [row EXCEPT ![req[s].id] = heap[ptr[s]].info]
            /\ UNCHANGED failed
         \/ failed' = failed \cup {req[s].id} /\ UNCHANGED row
  BY <1>2 DEF Update, Fail, memory
<1>5. /\ Rows' = Rows /\ failed \subseteq failed'
      /\ \A id \in Ids \ {req[s].id} : row'[id] = row[id]
      /\ req[s].id \in Rows' \ failed' => row'[req[s].id] = heap[ptr[s]].info
  BY <1>3, <1>4 DEF Rows, TypeOK
<1>6. QED
  BY <1>1, <1>2, <1>4, <1>5

LEMMA HeldUpdate ==
    ASSUME Types, Held, NEW s \in Sessions, Update(s)
    PROVE  Held'
<1> USE DEF Types, Held
<1>1. Quiet' /\ HandLive' /\ HandOwn' /\ HandListed'
  BY UpdateWhat, EndFrame DEF Quiet, HandLive, HandOwn, HandListed, Adding, Listed
<1>2. Overlaps' /\ RowSound' /\ Survive'
  BY UpdateWhat, EndFrame DEF Overlaps, RowSound, Survive
<1>3. QED
  BY <1>1, <1>2

LEMMA HeldBoot ==
    ASSUME Types, Held, Boots
    PROVE  Held'
<1> USE DEF Types, Held
<1>1. ASSUME phase' # "down" \/ live' = {}, phase # "serving",
             UNCHANGED <<pc, req, ptr>>, Survive'
      PROVE  Held'
  <2>1. \A s \in Sessions : pc'[s] = "idle" /\ ptr'[s] = NoPtr
    BY <1>1 DEF Quiet, HandLive
  <2>2. QED
    BY <1>1, <2>1 DEF Quiet, HandLive, HandOwn, HandListed, Overlaps, RowSound, Adding
<1>2. CASE \E erase \in BOOLEAN : Open(erase)
  <2>1. Survive'
    BY <1>2 DEF Open, Survive, Rows
  <2>2. QED
    BY <1>1, <1>2, <2>1 DEF Open, session
<1>3. CASE LoadRow
  BY <1>1, <1>3 DEF LoadRow, session, store, history, Survive, Rows
<1>4. CASE LoadFile
  <2>1. PICK o \in Objects : row' = InsertedRow(o)
    BY <1>4, FileObjects DEF LoadFile
  <2>2. Rows \subseteq Rows'
    BY <2>1, InsertedIsRow DEF Rows
  <2>3. QED
    BY <1>1, <1>4, <2>2 DEF LoadFile, Taken, session, history, Survive
<1>5. CASE Serve \/ RowsLoaded
  <2>1. Survive'
    BY <1>5 DEF Serve, RowsLoaded, store, history, Survive, Rows
  <2>2. QED
    BY <1>1, <1>5, <2>1 DEF Serve, RowsLoaded, session
<1>6. CASE Crash
  BY <1>6 DEF Crash, store, history, Quiet, HandLive, HandOwn, HandListed, Overlaps, RowSound,
              Survive, Adding, Rows
<1>7. CASE LoadFails
  <2>1. Rows \subseteq Rows' \cup failed' /\ failed \subseteq failed'
    BY <1>7 DEF LoadFails, Rows, TypeOK
  <2>2. QED
    BY <1>1, <1>7, <2>1 DEF LoadFails, session, Survive
<1>8. CASE FileFails
  <2>1. PICK o \in Objects :
          /\ Fail(o.id)
          /\ UNCHANGED row \/ row' = InsertedRow(o) \/ row' = [row EXCEPT ![o.id] = NoRow]
    BY <1>8, FileObjects DEF FileFails
  <2>2. Rows \subseteq Rows' \cup failed' /\ failed \subseteq failed'
    BY <2>1, InsertedIsRow DEF Fail, Rows, TypeOK
  <2>3. QED
    BY <1>1, <1>8, <2>2 DEF FileFails, Taken, session, Survive
<1>9. QED
  BY <1>2, <1>3, <1>4, <1>5, <1>6, <1>7, <1>8 DEF Boots

\* A session that has gone astray is never forgotten.
LEMMA AstrayStays == [Next]_vars /\ astray => astray'
<1> SUFFICES ASSUME [Next]_vars, astray PROVE astray'
  OBVIOUS
<1>1. CASE UNCHANGED vars
  BY <1>1 DEF vars, history
<1>2. CASE Boots
  BY <1>2 DEF Boots, Open, LoadRow, RowsLoaded, LoadFails, LoadFile, FileFails, Serve, Crash, history
<1>3. ASSUME NEW s \in Sessions, SessionStep(s) PROVE astray'
  BY <1>3 DEF SessionStep, AddNode, AddEP, AddsOther, AddTrigger, AddAction, AddRule, AddUnlisted,
              Recheck, Insert, Lists, ListNode, ListAction, ListEP, ListRule, ListNothing, Added,
              AddFails, Unlist, Destroy, Delete, SetObject, Find, Writes, WriteNode, WriteEP,
              Update, history
<1>4. QED
  BY <1>1, <1>2, <1>3, NextSplit

LEMMA HeldInit == Init => Held
  BY DEF Init, Held, Quiet, HandLive, HandOwn, HandListed, Overlaps, RowSound, Survive, Adding

LEMMA HeldStep == Types /\ (~astray => Held) /\ [Next]_vars => (~astray => Held)'
<1> SUFFICES ASSUME Types, ~astray => Held, [Next]_vars, ~astray' PROVE Held'
  OBVIOUS
<1>1. Held
  BY AstrayStays
<1>2. CASE UNCHANGED vars
  BY <1>1, <1>2 DEF vars, store, memory, session, history, Held, Quiet, HandLive, HandOwn,
                    HandListed, Overlaps, RowSound, Survive, Adding, Listed, Rows
<1>3. CASE Boots
  BY <1>1, <1>3, HeldBoot
<1>4. ASSUME NEW s \in Sessions, SessionStep(s) PROVE Held'
  BY <1>1, <1>4, HeldAddOther, HeldAddEP, HeldFind, HeldRecheck, HeldInsert, HeldLists,
     HeldAddFails, HeldUnlist, HeldDestroy, HeldWrites, HeldUpdate DEF SessionStep
<1>5. QED
  BY <1>2, <1>3, <1>4, NextSplit

\* What was created and answered with OK stays in the table until it is deleted, for any
\* number of sessions and across the process's deaths, unless two sessions worked on it at
\* once, a call about it failed, or a freed block was used.
THEOREM CreatedStays == Spec => []AddsSurvive
<1>1. Init => (~astray => Held)
  BY HeldInit
<1>2. (~astray => Held) => AddsSurvive
  BY DEF Held, Survive, AddsSurvive
<1>3. QED
  BY <1>1, <1>2, TypesInit, TypesStep, HeldStep, PTL DEF Spec

-------------------------------------------------------------------------------
(* Every row of a node or an endpoint has an object in the list.              *)

Reach ==
    (phase \in {"file", "serving"} /\ kind \in {"node", "ep"}) =>
        \A id \in Rows \ (overlap \cup failed) : Busy(id) \/ Holders(id) # {}

\* It is enough to look at the identifier i that the step is about.
LEMMA ReachStays ==
    ASSUME Reach, NEW i,
           kind' = kind, phase' = phase, overlap \subseteq overlap', failed \subseteq failed',
           Rows' \subseteq Rows \cup {i},
           \A id \in Ids \ {i} : Busy(id) => Busy(id)',
           \A id \in Ids \ {i} : Holders(id) # {} => Holders(id)' # {},
           (kind \in {"node", "ep"} /\ i \in Rows' \ (overlap' \cup failed'))
               => Busy(i)' \/ Holders(i)' # {}
    PROVE  Reach'
<1> SUFFICES ASSUME phase' \in {"file", "serving"}, kind' \in {"node", "ep"},
                    NEW id \in Rows' \ (overlap' \cup failed')
             PROVE  Busy(id)' \/ Holders(id)' # {}
  BY DEF Reach
<1>1. id \in Ids
  BY DEF Rows
<1>2. CASE id = i
  BY <1>2
<1>3. CASE id # i
  BY <1>1, <1>3 DEF Reach
<1>4. QED
  BY <1>2, <1>3

\* A session that goes on stays busy, one that ends leaves the others busy.
LEMMA BusyOthers ==
    ASSUME NEW s \in Sessions, NEW i, pc[s] # "idle" => req[s].id = i,
           \A t \in Sessions \ {s} : pc'[t] = pc[t] /\ req'[t] = req[t]
    PROVE  \A id \in Ids \ {i} : Busy(id) => Busy(id)'
  BY DEF Busy

\* An identifier keeps its objects when the blocks of other identifiers are freed, taken
\* out or written.
LEMMA HoldersOthers ==
    ASSUME NEW i,
           \A p \in Listed \cap live : heap[p].id # i =>
               p \in Listed' /\ p \in live' /\ heap'[p].id = heap[p].id
    PROVE  \A id \in Ids \ {i} : Holders(id) # {} => Holders(id)' # {}
  BY DEF Holders

LEMMA ReachAdd ==
    ASSUME Types, Held, Reach, NEW s \in Sessions, AddNode(s) \/ AddsOther(s) \/ AddEP(s)
    PROVE  Reach'
<1> USE DEF Types, Held
<1>1. PICK o \in Objects, p \in Ptrs \cup {NoPtr}, at \in Places \ {"idle"} : Begin(s, o, p, at)
  BY DEF AddNode, AddsOther, AddTrigger, AddAction, AddRule, AddUnlisted, AddEP, Places
<1>2. UNCHANGED <<kind, phase, row, list, failed>>
  BY DEF AddNode, AddsOther, AddTrigger, AddAction, AddRule, AddUnlisted, AddEP, store, memory
<1>3. \A q \in live : q \in live' /\ heap'[q] = heap[q]
  <2>1. CASE AddNode(s) \/ AddsOther(s)
    BY <2>1 DEF AddNode, AddsOther, AddTrigger, AddAction, AddRule, AddUnlisted, memory
  <2>2. CASE AddEP(s)
    <3>1. PICK c \in Objects, q \in Ptrs \ live : heap' = [heap EXCEPT ![q] = c] /\ live' = live \cup {q}
      BY <2>2 DEF AddEP
    <3>2. QED
      BY <3>1 DEF TypeOK
  <2>3. QED
    BY <2>1, <2>2
<1>4. PICK i : i = o.id
  OBVIOUS
<1>5. pc'[s] # "idle" /\ req'[s].id = i
  BY <1>1, <1>4, BeginFrame
<1>6. Busy(i)'
  BY <1>5 DEF Busy
<1>7. \A id \in Ids \ {i} : Busy(id) => Busy(id)'
  <2>1. pc[s] = "idle" /\ \A t \in Sessions \ {s} : pc'[t] = pc[t] /\ req'[t] = req[t]
    BY <1>1, BeginFrame
  <2>2. QED
    BY <2>1, BusyOthers
<1>8. \A id \in Ids \ {i} : Holders(id) # {} => Holders(id)' # {}
  BY <1>2, <1>3, HoldersOthers DEF Listed
<1>9. overlap \subseteq overlap' /\ Rows' = Rows
  BY <1>1, <1>2, BeginFrame DEF Rows
<1>10. QED
  BY <1>2, <1>6, <1>7, <1>8, <1>9, ReachStays

LEMMA ReachFind ==
    ASSUME Types, Held, Reach, NEW s \in Sessions, Delete(s) \/ SetObject(s)
    PROVE  Reach'
<1> USE DEF Types, Held
<1>1. PICK at \in {"unlist", "write"} : Find(s, at)
  BY DEF Delete, SetObject
<1>2. PICK o \in Objects : \E p \in Lookup(o.id) : Begin(s, o, p, at)
  BY <1>1 DEF Find
<1>3. PICK p \in Lookup(o.id) : Begin(s, o, p, at)
  BY <1>2
<1>4. UNCHANGED <<kind, phase, row, list, heap, live, failed>>
  BY DEF Delete, SetObject, store, memory
<1>5. PICK i : i = o.id
  OBVIOUS
<1>6. Busy(i)'
  BY <1>3, <1>5, BeginFrame DEF Busy
<1>7. \A id \in Ids \ {i} : Busy(id) => Busy(id)'
  BY <1>3, BeginFrame, BusyOthers
<1>8. \A id \in Ids \ {i} : Holders(id) # {} => Holders(id)' # {}
  BY <1>4, HoldersOthers DEF Listed
<1>9. overlap \subseteq overlap' /\ Rows' = Rows
  BY <1>3, <1>4, BeginFrame DEF Rows
<1>10. QED
  BY <1>4, <1>6, <1>7, <1>8, <1>9, ReachStays

LEMMA ReachRecheck ==
    ASSUME Types, Held, Reach, NEW s \in Sessions, Recheck(s)
    PROVE  Reach'
<1> USE DEF Types, Held
<1>1. /\ pc[s] = "recheck" /\ req[s].id \in Ids
      /\ UNCHANGED <<kind, phase, row, list, heap, overlap, failed>>
  BY DEF Recheck, store, history, TypeOK, Objects
<1>2. PICK i \in Ids : i = req[s].id
  BY <1>1
<1>3. /\ \A t \in Sessions \ {s} : pc'[t] = pc[t] /\ req'[t] = req[t]
      /\ live \ {ptr[s]} \subseteq live'
  BY EndFrame, GotoFrame DEF Recheck
<1>4. ptr[s] # NoPtr => ptr[s] \notin Listed
  BY <1>1 DEF HandOwn, Adding
<1>5. NoPtr \notin live
  BY PtrAssumption DEF TypeOK
<1>6. \A id \in Ids \ {i} : Holders(id) # {} => Holders(id)' # {}
  BY <1>1, <1>3, <1>4, <1>5, HoldersOthers DEF Listed
<1>7. \A id \in Ids \ {i} : Busy(id) => Busy(id)'
  BY <1>2, <1>3, BusyOthers
<1>8. i \in Rows' \ overlap' => Busy(i)'
  <2>1. CASE row[i] = NoRow
    BY <1>1, <2>1 DEF Rows
  <2>2. CASE row[i] # NoRow
    BY <1>1, <1>2, <2>2 DEF RowSound, Rows
  <2>3. QED
    BY <2>1, <2>2
<1>9. Rows' = Rows
  BY <1>1 DEF Rows
<1>10. QED
  BY <1>1, <1>6, <1>7, <1>8, <1>9, ReachStays

LEMMA ReachInsert ==
    ASSUME Types, Held, Reach, NEW s \in Sessions, Insert(s)
    PROVE  Reach'
<1> USE DEF Types, Held
<1>1. /\ pc[s] = "insert" /\ Goto(s, "append") /\ req[s].id \in Ids
      /\ UNCHANGED <<kind, phase, list, heap, live, overlap>> /\ failed \subseteq failed'
  BY DEF Insert, Fail, memory, TypeOK, Objects
<1>2. PICK i \in Ids : i = req[s].id
  BY <1>1
<1>3. Rows' \subseteq Rows \cup {i}
  BY <1>2, InsertedIsRow DEF Insert, Rows, TypeOK
<1>4. Busy(i)'
  BY <1>1, <1>2, GotoFrame DEF Busy
<1>5. \A id \in Ids \ {i} : Busy(id) => Busy(id)'
  BY <1>1, <1>2, GotoFrame, BusyOthers
<1>6. \A id \in Ids \ {i} : Holders(id) # {} => Holders(id)' # {}
  BY <1>1, HoldersOthers DEF Listed
<1>7. QED
  BY <1>1, <1>3, <1>4, <1>5, <1>6, ReachStays

LEMMA ReachLists ==
    ASSUME Types, Held, Reach, NEW s \in Sessions, Lists(s)
    PROVE  Reach'
<1> USE DEF Types, Held
<1>1. /\ pc[s] = "append" /\ End(s) /\ UNCHANGED <<kind, phase, row, overlap, failed>>
      /\ req[s].id \in Ids
  BY ListsWhat DEF TypeOK, Objects
<1>2. PICK i \in Ids : i = req[s].id
  BY <1>1
<1>3. \A id \in Ids \ {i} : Busy(id) => Busy(id)'
  BY <1>1, <1>2, EndFrame, BusyOthers
<1>4. CASE kind \in {"node", "action"}
  <2>1. PICK p \in Ptrs \ live : /\ Listed' = Listed \cup {p} /\ live' = live \cup {p}
                                 /\ heap' = [heap EXCEPT ![p] = Copy(req[s])]
    BY <1>4, ListsWhat
  <2>2. heap'[p].id = req[s].id /\ \A q \in live : heap'[q] = heap[q]
    BY <2>1, CopyIsObject DEF TypeOK
  <2>3. p \in Holders(i)'
    BY <1>2, <2>1, <2>2 DEF Holders
  <2>4. \A id \in Ids \ {i} : Holders(id) # {} => Holders(id)' # {}
    BY <2>1, <2>2, HoldersOthers
  <2>5. QED
    BY <1>1, <1>3, <2>3, <2>4, ReachStays DEF Rows
<1>5. CASE kind = "ep"
  <2>1. ptr[s] \in Ptrs /\ UNCHANGED <<heap, live>> /\ Listed' = Listed \cup {ptr[s]}
    BY <1>5, ListsWhat
  <2>2. ptr[s] \in live /\ heap[ptr[s]].id = i
    BY <1>2, <2>1, PtrAssumption DEF HandLive
  <2>3. Holders(i)' # {}
    BY <2>1, <2>2 DEF Holders
  <2>4. \A id \in Ids \ {i} : Holders(id) # {} => Holders(id)' # {}
    BY <2>1, HoldersOthers
  <2>5. QED
    BY <1>1, <1>3, <2>3, <2>4, ReachStays DEF Rows
<1>6. CASE kind \in {"rule", "trigger"}
  BY <1>1, <1>6 DEF Reach
<1>7. QED
  BY <1>4, <1>5, <1>6 DEF TypeOK, Kinds

LEMMA ReachAddFails ==
    ASSUME Types, Held, Reach, NEW s \in Sessions, AddFails(s)
    PROVE  Reach'
<1> USE DEF Types, Held
<1>1. /\ pc[s] = "append" /\ End(s) /\ live' = live \ {ptr[s]} /\ req[s].id \in Ids
      /\ UNCHANGED <<kind, phase, list, heap, overlap>> /\ failed' = failed \cup {req[s].id}
      /\ row' = [row EXCEPT ![req[s].id] = NoRow]
  BY DEF AddFails, Fail, TypeOK, Objects
<1>2. PICK i \in Ids : i = req[s].id
  BY <1>1
<1>3. i \in failed' /\ failed \subseteq failed' /\ Rows' \subseteq Rows
  BY <1>1, <1>2 DEF Rows, TypeOK
<1>4. \A id \in Ids \ {i} : Busy(id) => Busy(id)'
  BY <1>1, <1>2, EndFrame, BusyOthers
<1>5. ptr[s] \notin Listed \cap live
  BY <1>1, PtrAssumption DEF HandOwn, Adding, TypeOK
<1>6. \A id \in Ids \ {i} : Holders(id) # {} => Holders(id)' # {}
  BY <1>1, <1>5, HoldersOthers DEF Listed
<1>7. QED
  BY <1>1, <1>3, <1>4, <1>6, ReachStays

\* A block that is not listed although its session looked it up is in the hands of a
\* deletion, and the two are noted.
LEMMA GoneIsNoted ==
    ASSUME Types, Held, NEW s \in Sessions, pc[s] \in {"unlist", "write", "update"},
           ptr[s] \notin Listed
    PROVE  req[s].id \in overlap
<1> USE DEF Types, Held
<1>1. PICK t \in Sessions : pc[t] = "destroy" /\ ptr[t] = ptr[s]
  BY DEF HandListed
<1>2. ptr[s] # NoPtr
  BY PtrAssumption DEF PtrOK
<1>3. req[t].id = req[s].id /\ t # s /\ pc[s] # "idle" /\ pc[t] # "idle"
  BY <1>1, <1>2 DEF HandLive
<1>4. QED
  BY <1>3 DEF Overlaps

LEMMA ReachUnlist ==
    ASSUME Types, Held, Reach, NEW s \in Sessions, Unlist(s)
    PROVE  Reach'
<1> USE DEF Types, Held
<1>1. /\ pc[s] = "unlist" /\ ptr[s] \in Ptrs /\ req[s].id \in Ids
      /\ UNCHANGED <<kind, phase, row, heap, live, overlap, failed>>
  BY DEF Unlist, store, history, PtrOK, TypeOK, Objects
<1>2. PICK i \in Ids : i = req[s].id
  BY <1>1
<1>3. Rows' = Rows
  BY <1>1 DEF Rows
<1>4. CASE ptr[s] \notin Listed /\ End(s) /\ UNCHANGED list
  <2>1. i \in overlap'
    BY <1>1, <1>2, <1>4, GoneIsNoted
  <2>2. \A id \in Ids \ {i} : Busy(id) => Busy(id)'
    BY <1>2, <1>4, EndFrame, BusyOthers
  <2>3. \A id \in Ids \ {i} : Holders(id) # {} => Holders(id)' # {}
    BY <1>1, <1>4, HoldersOthers DEF Listed
  <2>4. QED
    BY <1>1, <1>3, <2>1, <2>2, <2>3, ReachStays
<1>5. ASSUME NEW k \in DOMAIN list, list[k] = ptr[s], list' = Without(list, k), Goto(s, "destroy")
      PROVE  Reach'
  <2>1. Listed \ {ptr[s]} \subseteq Listed'
    BY <1>5, UnlistShrinks
  <2>2. heap[ptr[s]].id = i
    BY <1>1, <1>2, PtrAssumption DEF HandLive
  <2>3. Busy(i)'
    BY <1>2, <1>5, GotoFrame DEF Busy
  <2>4. \A id \in Ids \ {i} : Busy(id) => Busy(id)'
    BY <1>1, <1>2, <1>5, GotoFrame, BusyOthers
  <2>5. \A id \in Ids \ {i} : Holders(id) # {} => Holders(id)' # {}
    BY <1>1, <2>1, <2>2, HoldersOthers
  <2>6. QED
    BY <1>1, <1>3, <2>3, <2>4, <2>5, ReachStays
<1>6. QED
  BY <1>4, <1>5 DEF Unlist

LEMMA ReachDestroy ==
    ASSUME Types, Held, Reach, NEW s \in Sessions, Destroy(s), ~astray'
    PROVE  Reach'
<1> USE DEF Types, Held
<1>1. PICK i \in Ids : i = req[s].id
  BY DEF TypeOK, Objects
<1>2. /\ pc[s] = "destroy" /\ End(s) /\ live' = live \ {ptr[s]}
      /\ UNCHANGED <<kind, phase, list, heap, overlap>> /\ heap[ptr[s]].id = i
      /\ failed \subseteq failed' /\ Rows' \subseteq Rows /\ i \notin Rows' \ failed'
  BY <1>1, DestroyWhat
<1>3. \A id \in Ids \ {i} : Busy(id) => Busy(id)'
  BY <1>1, <1>2, EndFrame, BusyOthers
<1>4. \A id \in Ids \ {i} : Holders(id) # {} => Holders(id)' # {}
  BY <1>2, HoldersOthers DEF Listed
<1>5. QED
  BY <1>2, <1>3, <1>4, ReachStays

LEMMA ReachWrites ==
    ASSUME Types, Held, Reach, NEW s \in Sessions, Writes(s)
    PROVE  Reach'
<1> USE DEF Types, Held
<1>1. PICK i \in Ids : i = req[s].id
  BY DEF TypeOK, Objects
<1>2. /\ pc[s] = "write" /\ ptr[s] \in Ptrs /\ heap[ptr[s]].id = i
      /\ UNCHANGED <<kind, phase, row, list, live, overlap, failed>>
      /\ heap'[ptr[s]].id = i
      /\ \A q \in Ptrs \ {ptr[s]} : heap'[q] = heap[q]
  BY <1>1, WriteWhat
<1>3. \A t \in Sessions \ {s} : pc'[t] = pc[t] /\ req'[t] = req[t]
  BY WriteWhat, EndFrame, GotoFrame
<1>4. \A id \in Ids \ {i} : Busy(id) => Busy(id)'
  BY <1>1, <1>3, BusyOthers
<1>5. \A id \in Ids \ {i} : Holders(id) # {} => Holders(id)' # {}
  BY <1>2, HoldersOthers DEF Listed, TypeOK
<1>6. i \in overlap' \/ Holders(i)' # {}
  <2>1. CASE ptr[s] \notin Listed
    BY <1>1, <1>2, <2>1, GoneIsNoted
  <2>2. CASE ptr[s] \in Listed
    <3>1. ptr[s] \in live
      BY <1>2, PtrAssumption DEF HandLive
    <3>2. QED
      BY <1>2, <2>2, <3>1 DEF Holders, Listed
  <2>3. QED
    BY <2>1, <2>2
<1>7. QED
  BY <1>2, <1>4, <1>5, <1>6, ReachStays DEF Rows

LEMMA ReachUpdate ==
    ASSUME Types, Held, Reach, NEW s \in Sessions, Update(s)
    PROVE  Reach'
<1> USE DEF Types, Held
<1>1. PICK i \in Ids : i = req[s].id
  BY DEF TypeOK, Objects
<1>2. /\ pc[s] = "update" /\ ptr[s] \in Ptrs /\ heap[ptr[s]].id = i /\ End(s)
      /\ UNCHANGED <<kind, phase, list, heap, live, overlap>>
      /\ Rows' = Rows /\ failed \subseteq failed'
  BY <1>1, UpdateWhat
<1>3. \A id \in Ids \ {i} : Busy(id) => Busy(id)'
  BY <1>1, <1>2, EndFrame, BusyOthers
<1>4. \A id \in Ids \ {i} : Holders(id) # {} => Holders(id)' # {}
  BY <1>2, HoldersOthers DEF Listed
<1>5. i \in overlap' \/ Holders(i)' # {}
  <2>1. CASE ptr[s] \notin Listed
    BY <1>1, <1>2, <2>1, GoneIsNoted
  <2>2. CASE ptr[s] \in Listed
    <3>1. ptr[s] \in live
      BY <1>2, PtrAssumption DEF HandLive
    <3>2. QED
      BY <1>2, <2>2, <3>1 DEF Holders, Listed
  <2>3. QED
    BY <2>1, <2>2
<1>6. QED
  BY <1>2, <1>3, <1>4, <1>5, ReachStays

\* What an object more in the list changes.
LEMMA EnlistHolders ==
    ASSUME TypeOK, NEW p \in Ptrs \ live, NEW o \in Objects, Enlist(p, o)
    PROVE  /\ heap'[p] = o /\ \A q \in live : heap'[q] = heap[q]
           /\ p \in Holders(o.id)'
           /\ \A id : Holders(id) \subseteq Holders(id)'
           /\ \A id \in Ids \ {o.id} : Holders(id)' = Holders(id)
<1>1. /\ heap'[p] = o /\ \A q \in live : heap'[q] = heap[q]
      /\ live' = live \cup {p} /\ Listed' = Listed \cup {p}
  BY EnlistGrows DEF Enlist, TypeOK
<1>2. QED
  BY <1>1 DEF Holders

\* A boot does not serve before every row has its object, or a failure was noted.
LEMMA ReachBoot ==
    ASSUME Types, Reach, Boots
    PROVE  Reach'
<1> USE DEF Types
<1>1. CASE (\E erase \in BOOLEAN : Open(erase)) \/ LoadRow \/ Crash
  BY <1>1 DEF Open, LoadRow, Crash, Reach
<1>2. CASE RowsLoaded
  <2>1. kind \in {"node", "ep"} => \A id \in Rows : Holders(id) # {}
    BY <1>2 DEF RowsLoaded, Unloaded
  <2>2. UNCHANGED <<kind, row, list, heap, live>>
    BY <1>2 DEF RowsLoaded, store, memory
  <2>3. QED
    BY <2>1, <2>2 DEF Reach, Rows, Holders, Listed
<1>3. CASE LoadFails
  <2>1. kind \in {"node", "ep"} => \A id \in Rows : Holders(id) # {} \/ id \in failed'
    BY <1>3 DEF LoadFails, Unloaded
  <2>2. UNCHANGED <<kind, list, heap, live>> /\ Rows' \subseteq Rows
    BY <1>3 DEF LoadFails, memory, Rows, TypeOK
  <2>3. QED
    BY <2>1, <2>2 DEF Reach, Holders, Listed
<1>4. CASE LoadFile
  <2>1. PICK o \in Objects, p \in Ptrs \ live : row' = InsertedRow(o) /\ Enlist(p, Copy(o))
    BY <1>4, FileObjects DEF LoadFile
  <2>2. /\ UNCHANGED <<kind, phase, pc, req, overlap, failed>> /\ phase = "file"
    BY <1>4 DEF LoadFile, Taken, session, history
  <2>3. p \in Holders(o.id)' /\ \A id : Holders(id) \subseteq Holders(id)'
    BY <2>1, CopyIsObject, EnlistHolders
  <2>4. Rows' \subseteq Rows \cup {o.id}
    BY <2>1, InsertedIsRow DEF Rows
  <2>5. QED
    BY <2>2, <2>3, <2>4 DEF Reach, Busy
<1>5. CASE FileFails
  <2>1. PICK o \in Objects :
          /\ Fail(o.id)
          /\ UNCHANGED row \/ row' = InsertedRow(o) \/ row' = [row EXCEPT ![o.id] = NoRow]
          /\ UNCHANGED memory \/ \E p \in Ptrs \ live : Enlist(p, Copy(o))
    BY <1>5, FileObjects DEF FileFails
  <2>2. /\ UNCHANGED <<kind, phase, pc, req, overlap>> /\ phase = "file"
        /\ failed' = failed \cup {o.id}
    BY <1>5, <2>1 DEF FileFails, Taken, Fail, session
  <2>3. \A id : Holders(id) \subseteq Holders(id)'
    BY <2>1, CopyIsObject, EnlistHolders DEF memory, Holders, Listed
  <2>4. Rows' \subseteq Rows \cup {o.id}
    BY <2>1, InsertedIsRow DEF Rows, TypeOK
  <2>5. QED
    BY <2>2, <2>3, <2>4 DEF Reach, Busy
<1>6. CASE Serve
  BY <1>6 DEF Serve, store, memory, session, history, Reach, Busy, Rows, Holders, Listed
<1>7. QED
  BY <1>1, <1>2, <1>3, <1>4, <1>5, <1>6 DEF Boots

LEMMA ReachStep == Types /\ Held /\ Reach /\ [Next]_vars /\ ~astray' => Reach'
<1> SUFFICES ASSUME Types, Held, Reach, [Next]_vars, ~astray' PROVE Reach'
  OBVIOUS
<1>1. CASE UNCHANGED vars
  BY <1>1 DEF vars, store, memory, session, history, Reach, Busy, Holders, Listed, Rows
<1>2. CASE Boots
  BY <1>2, ReachBoot
<1>3. ASSUME NEW s \in Sessions, SessionStep(s) PROVE Reach'
  BY <1>3, ReachAdd, ReachFind, ReachRecheck, ReachInsert, ReachLists, ReachAddFails,
     ReachUnlist, ReachDestroy, ReachWrites, ReachUpdate DEF SessionStep
<1>4. QED
  BY <1>1, <1>2, <1>3, NextSplit

\* Every row of a node or an endpoint that nobody works on has an object in the list while
\* the process serves, for any number of sessions and after any number of boots, unless two
\* sessions worked on it at once, a call about it failed, or a freed block was used.
THEOREM RowsAreReachable == Spec => []RowsListed
<1>1. Init => (~astray => Held) /\ (~astray => Reach)
  BY HeldInit DEF Init, Reach
<1>2. Types /\ (~astray => Held) /\ (~astray => Reach) /\ [Next]_vars => (~astray => Reach)'
  BY ReachStep, AstrayStays
<1>3. (~astray => Reach) => RowsListed
  BY DEF Reach, RowsListed
<1>4. QED
  BY <1>1, <1>2, <1>3, TypesInit, TypesStep, HeldStep, PTL DEF Spec

-------------------------------------------------------------------------------
(* The table and the list agree on an endpoint.                               *)

\* A block that is listed, was made to be listed, or was just taken out.
Reached(p) == p \in Listed \/ \E s \in Sessions : pc[s] \in {"append", "destroy"} /\ ptr[s] = p

\* A block that a session has written and has yet to bring to the table.
Renewed(p) == \E s \in Sessions : pc[s] = "update" /\ ptr[s] = p

\* The row of the identifier is what the block holds, or that with the flag.
Agrees(a, id) == row[id] \in {heap[a].info, Flagged[heap[a].info]}

\* An object from which the row of the identifier was written, or is about to be.
Author(id) ==
    \E a \in live : heap[a].id = id /\ Reached(a) /\ (Agrees(a, id) \/ Renewed(a))

Authored ==
    kind = "ep" =>
        /\ phase = "serving" => \A id \in Rows \ failed : Author(id)
        /\ phase \in {"loading", "file"} =>
             \A id \in Rows \ failed : Holders(id) # {} => \E a \in Holders(id) : Agrees(a, id)
        /\ phase = "file" => \A id \in Rows \ failed : Holders(id) # {}

LEMMA AuthoredStays ==
    ASSUME Authored, kind' = kind, phase = "serving", phase' = phase, failed \subseteq failed',
           \A id \in Rows' \ failed' : Author(id)' \/ (id \in Rows /\ (Author(id) => Author(id)'))
    PROVE  Authored'
  BY DEF Authored

\* What keeps an author: its block stays reached, and what it holds stays or is to be
\* written.
LEMMA AuthorStays ==
    ASSUME NEW id, row'[id] = row[id],
           \A p \in live : heap[p].id = id /\ Reached(p) =>
               /\ p \in live' /\ Reached(p)' /\ heap'[p].id = id
               /\ heap'[p].info = heap[p].info \/ Renewed(p)'
               /\ Renewed(p) => Renewed(p)'
    PROVE  Author(id) => Author(id)'
  BY DEF Author, Agrees

\* A session that takes up a request takes no author away.
LEMMA AuthoredBegin ==
    ASSUME Types, Held, Authored, kind = "ep", kind' = kind, UNCHANGED <<phase, row, list, failed>>,
           NEW s \in Sessions, NEW o, NEW p, NEW at, Begin(s, o, p, at),
           \A q \in live : q \in live' /\ heap'[q] = heap[q]
    PROVE  Authored'
<1>1. /\ phase = "serving" /\ pc[s] = "idle"
      /\ \A t \in Sessions \ {s} : pc'[t] = pc[t] /\ ptr'[t] = ptr[t]
  BY BeginFrame DEF Types
<1>2. Listed' = Listed /\ Rows' = Rows
  BY DEF Listed, Rows
<1>3. \A q : (Reached(q) => Reached(q)') /\ (Renewed(q) => Renewed(q)')
  BY <1>1, <1>2 DEF Reached, Renewed
<1>4. \A id \in Rows' : Author(id) => Author(id)'
  BY <1>3, AuthorStays
<1>5. QED
  BY <1>1, <1>2, <1>4, AuthoredStays

LEMMA AuthoredAddEP ==
    ASSUME Types, Held, Authored, NEW s \in Sessions, AddEP(s)
    PROVE  Authored'
<1>1. PICK o \in Objects, p \in Ptrs \ live :
         /\ Begin(s, o, p, IF row[o.id] = NoRow THEN "recheck" ELSE "append")
         /\ heap' = [heap EXCEPT ![p] = o] /\ live' = live \cup {p}
  BY DEF AddEP
<1>2. \A q \in live : q \in live' /\ heap'[q] = heap[q]
  BY <1>1 DEF Types, TypeOK
<1>3. kind = "ep" /\ kind' = kind /\ UNCHANGED <<phase, row, list, failed>>
  BY DEF AddEP, store
<1>4. QED
  BY <1>1, <1>2, <1>3, AuthoredBegin

LEMMA AuthoredFind ==
    ASSUME Types, Held, Authored, kind = "ep", NEW s \in Sessions, Delete(s) \/ SetObject(s)
    PROVE  Authored'
<1>1. PICK at \in {"unlist", "write"} : Find(s, at)
  BY DEF Delete, SetObject
<1>2. PICK o \in Objects : \E p \in Lookup(o.id) : Begin(s, o, p, at)
  BY <1>1 DEF Find
<1>3. PICK p \in Lookup(o.id) : Begin(s, o, p, at)
  BY <1>2
<1>4. UNCHANGED <<kind, phase, row, list, heap, live, failed>>
  BY DEF Delete, SetObject, store, memory
<1>5. QED
  BY <1>3, <1>4, AuthoredBegin

\* A session in the middle of a request works while the process serves.
LEMMA AtWork == ASSUME Held, NEW s \in Sessions, pc[s] # "idle" PROVE phase = "serving"
  BY DEF Held, Quiet

LEMMA AuthoredRecheck ==
    ASSUME Types, Held, Authored, kind = "ep", NEW s \in Sessions, Recheck(s)
    PROVE  Authored'
<1> USE DEF Types, Held
<1>1. pc[s] = "recheck" /\ UNCHANGED <<kind, phase, row, list, heap, failed>> /\ phase = "serving"
  BY AtWork DEF Recheck, store, history
<1>2. /\ \A t \in Sessions \ {s} : pc'[t] = pc[t] /\ ptr'[t] = ptr[t]
      /\ live \ {ptr[s]} \subseteq live'
  BY EndFrame, GotoFrame DEF Recheck
<1>3. Listed' = Listed /\ Rows' = Rows
  BY <1>1 DEF Listed, Rows
<1>4. \A q : (Reached(q) => Reached(q)') /\ (Renewed(q) => Renewed(q)')
  BY <1>1, <1>2, <1>3 DEF Reached, Renewed
<1>5. \A q \in live : Reached(q) => q # ptr[s]
  BY <1>1, PtrAssumption DEF Reached, HandOwn, Adding, TypeOK
<1>6. \A id \in Rows' : Author(id) => Author(id)'
  BY <1>1, <1>2, <1>4, <1>5, AuthorStays
<1>7. QED
  BY <1>1, <1>3, <1>6, AuthoredStays

LEMMA AuthoredInsert ==
    ASSUME Types, Held, Authored, kind = "ep", NEW s \in Sessions, Insert(s)
    PROVE  Authored'
<1> USE DEF Types, Held
<1>1. /\ pc[s] = "insert" /\ Goto(s, "append") /\ req[s] \in Objects
      /\ UNCHANGED <<kind, phase, list, heap, live>> /\ phase = "serving"
  BY AtWork DEF Insert, memory, TypeOK
<1>2. PICK o \in Objects : o = req[s]
  BY <1>1
<1>3. o.id \in Ids /\ o.info \in Infos /\ o.info # NoRow
  BY RowAssumption DEF Objects
<1>4. \/ row' = InsertedRow(o) /\ UNCHANGED failed
      \/ failed' = failed \cup {o.id} /\ UNCHANGED row
  BY <1>2 DEF Insert, Fail
<1>5. /\ failed \subseteq failed'
      /\ \A id \in Ids \ {o.id} : row'[id] = row[id]
      /\ o.id \in Rows' \ failed' =>
           row'[o.id] = IF row[o.id] = NoRow THEN Flagged[o.info] ELSE row[o.id]
  BY <1>3, <1>4, InsertedIsRow, CopyIsObject
<1>6. Listed' = Listed
  BY <1>1 DEF Listed
<1>7. \A q : (Reached(q) => Reached(q)') /\ (Renewed(q) => Renewed(q)')
  BY <1>1, <1>6, GotoFrame DEF Reached, Renewed
<1>8. \A id \in Ids : row'[id] = row[id] => (Author(id) => Author(id)')
  BY <1>1, <1>7, AuthorStays
<1>9. ptr[s] \in live /\ heap[ptr[s]] = o
  BY <1>1, <1>2, PtrAssumption DEF PtrOK, HandLive, HandOwn, Adding
<1>10. Reached(ptr[s])'
  BY <1>1, GotoFrame DEF Reached
<1>11. row'[o.id] = Flagged[o.info] => Author(o.id)'
  BY <1>1, <1>9, <1>10, GotoFrame DEF Author, Agrees
<1>12. ASSUME NEW id \in Rows' \ failed'
       PROVE  Author(id)' \/ (id \in Rows /\ (Author(id) => Author(id)'))
  BY <1>5, <1>8, <1>11, <1>12 DEF Rows
<1>13. QED
  BY <1>1, <1>5, <1>12, AuthoredStays

LEMMA AuthoredLists ==
    ASSUME Types, Held, Authored, kind = "ep", NEW s \in Sessions, Lists(s)
    PROVE  Authored'
<1> USE DEF Types, Held
<1>1. /\ pc[s] = "append" /\ End(s) /\ UNCHANGED <<kind, phase, row, heap, live, failed>>
      /\ phase = "serving" /\ Listed' = Listed \cup {ptr[s]}
  BY ListsWhat, AtWork
<1>2. \A q : (Reached(q) => Reached(q)') /\ (Renewed(q) => Renewed(q)')
  BY <1>1, EndFrame DEF Reached, Renewed
<1>3. \A id \in Rows' : Author(id) => Author(id)'
  BY <1>1, <1>2, AuthorStays
<1>4. QED
  BY <1>1, <1>3, AuthoredStays DEF Rows

LEMMA AuthoredAddFails ==
    ASSUME Types, Held, Authored, kind = "ep", NEW s \in Sessions, AddFails(s)
    PROVE  Authored'
<1> USE DEF Types, Held
<1>1. PICK i \in Ids : i = req[s].id
  BY DEF TypeOK, Objects
<1>2. /\ pc[s] = "append" /\ End(s) /\ live' = live \ {ptr[s]}
      /\ UNCHANGED <<kind, phase, list, heap>> /\ failed' = failed \cup {i}
      /\ row' = [row EXCEPT ![i] = NoRow] /\ phase = "serving"
  BY <1>1, AtWork DEF AddFails, Fail
<1>3. heap[ptr[s]].id = i
  BY <1>1, <1>2, PtrAssumption DEF HandLive, PtrOK
<1>4. Listed' = Listed /\ \A id \in Ids \ {i} : row'[id] = row[id]
  BY <1>2 DEF Listed, TypeOK
<1>5. \A q \in live : heap[q].id # i => (Reached(q) => Reached(q)') /\ (Renewed(q) => Renewed(q)')
  BY <1>2, <1>3, <1>4, EndFrame DEF Reached, Renewed
<1>6. \A id \in Ids \ {i} : Author(id) => Author(id)'
  BY <1>2, <1>3, <1>4, <1>5, AuthorStays
<1>7. QED
  BY <1>2, <1>4, <1>6, AuthoredStays DEF Rows

LEMMA AuthoredUnlist ==
    ASSUME Types, Held, Authored, kind = "ep", NEW s \in Sessions, Unlist(s)
    PROVE  Authored'
<1> USE DEF Types, Held
<1>1. pc[s] = "unlist" /\ UNCHANGED <<kind, phase, row, heap, live, failed>> /\ phase = "serving"
  BY AtWork DEF Unlist, store, history
<1>2. \A q : (Reached(q) => Reached(q)') /\ (Renewed(q) => Renewed(q)')
  <2>1. CASE End(s) /\ UNCHANGED list
    BY <1>1, <2>1, EndFrame DEF Reached, Renewed, Listed
  <2>2. ASSUME NEW k \in DOMAIN list, list[k] = ptr[s], list' = Without(list, k),
               Goto(s, "destroy"), NEW q
        PROVE  (Reached(q) => Reached(q)') /\ (Renewed(q) => Renewed(q)')
    <3>1. Listed \ {ptr[s]} \subseteq Listed'
      BY <2>2, UnlistShrinks
    <3>2. Reached(ptr[s])'
      BY <2>2, GotoFrame DEF Reached
    <3>3. QED
      BY <1>1, <2>2, <3>1, <3>2, GotoFrame DEF Reached, Renewed
  <2>3. QED
    BY <2>1, <2>2 DEF Unlist
<1>3. \A id \in Rows' : Author(id) => Author(id)'
  BY <1>1, <1>2, AuthorStays
<1>4. QED
  BY <1>1, <1>3, AuthoredStays DEF Rows

LEMMA AuthoredDestroy ==
    ASSUME Types, Held, Authored, kind = "ep", NEW s \in Sessions, Destroy(s), ~astray'
    PROVE  Authored'
<1> USE DEF Types, Held
<1>1. PICK i \in Ids : i = req[s].id
  BY DEF TypeOK, Objects
<1>2. /\ pc[s] = "destroy" /\ End(s) /\ live' = live \ {ptr[s]} /\ heap[ptr[s]].id = i
      /\ UNCHANGED <<kind, phase, list, heap>> /\ failed \subseteq failed'
      /\ Rows' \subseteq Rows /\ i \notin Rows' \ failed'
      /\ \A id \in Ids \ {i} : row'[id] = row[id]
  BY <1>1, DestroyWhat
<1>3. phase = "serving" /\ Listed' = Listed
  BY <1>2, AtWork DEF Listed
<1>4. \A q \in live : heap[q].id # i => (Reached(q) => Reached(q)') /\ (Renewed(q) => Renewed(q)')
  BY <1>2, <1>3, EndFrame DEF Reached, Renewed
<1>5. \A id \in Ids \ {i} : Author(id) => Author(id)'
  BY <1>2, <1>4, AuthorStays
<1>6. QED
  BY <1>2, <1>3, <1>5, AuthoredStays DEF Rows

LEMMA AuthoredWrites ==
    ASSUME Types, Held, Authored, kind = "ep", NEW s \in Sessions, Writes(s)
    PROVE  Authored'
<1> USE DEF Types, Held
<1>1. /\ pc[s] = "write" /\ ptr[s] \in Ptrs /\ heap[ptr[s]].id = req[s].id
      /\ UNCHANGED <<kind, phase, row, list, live, failed>>
      /\ heap'[ptr[s]].id = req[s].id /\ Goto(s, "update")
      /\ \A q \in Ptrs \ {ptr[s]} : heap'[q] = heap[q]
  BY WriteWhat
<1>2. phase = "serving" /\ Listed' = Listed
  BY <1>1, AtWork DEF Listed
<1>3. \A q : (Reached(q) => Reached(q)') /\ (Renewed(q) => Renewed(q)')
  BY <1>1, <1>2, GotoFrame DEF Reached, Renewed
<1>4. ASSUME NEW q \in live PROVE heap'[q].id = heap[q].id /\ (heap'[q] = heap[q] \/ Renewed(q)')
  <2>1. CASE q = ptr[s]
    <3>1. Renewed(q)'
      BY <1>1, <2>1, GotoFrame DEF Renewed
    <3>2. QED
      BY <1>1, <2>1, <3>1
  <2>2. CASE q # ptr[s]
    BY <1>1, <2>2 DEF TypeOK
  <2>3. QED
    BY <2>1, <2>2
<1>5. \A id \in Rows' : Author(id) => Author(id)'
  BY <1>1, <1>3, <1>4, AuthorStays
<1>6. QED
  BY <1>1, <1>2, <1>5, AuthoredStays DEF Rows

LEMMA AuthoredUpdate ==
    ASSUME Types, Held, Authored, kind = "ep", NEW s \in Sessions, Update(s)
    PROVE  Authored'
<1> USE DEF Types, Held
<1>1. PICK i \in Ids : i = req[s].id
  BY DEF TypeOK, Objects
<1>2. /\ pc[s] = "update" /\ ptr[s] \in Ptrs /\ heap[ptr[s]].id = i /\ End(s)
      /\ UNCHANGED <<kind, phase, list, heap, live>> /\ Rows' = Rows /\ failed \subseteq failed'
      /\ \A id \in Ids \ {i} : row'[id] = row[id]
      /\ i \in Rows' \ failed' => row'[i] = heap[ptr[s]].info
  BY <1>1, UpdateWhat
<1>3. phase = "serving" /\ Listed' = Listed
  BY <1>2, AtWork DEF Listed
<1>4. \A q : Reached(q) => Reached(q)'
  BY <1>2, <1>3, EndFrame DEF Reached
<1>5. \A q : heap[q].id # i => (Renewed(q) => Renewed(q)')
  BY <1>2, EndFrame DEF Renewed
<1>6. \A id \in Ids \ {i} : Author(id) => Author(id)'
  BY <1>2, <1>4, <1>5, AuthorStays
<1>7. Reached(ptr[s])
  BY <1>2 DEF HandListed, Reached
<1>8. ptr[s] \in live
  BY <1>2, PtrAssumption DEF HandLive
<1>9. i \in Rows' \ failed' => Author(i)'
  BY <1>2, <1>4, <1>7, <1>8 DEF Author, Agrees
<1>10. QED
  BY <1>2, <1>3, <1>6, <1>9, AuthoredStays DEF Rows

LEMMA AuthoredBoot ==
    ASSUME Types, Held, Authored, kind = "ep", Boots
    PROVE  Authored'
<1> USE DEF Types, Held
<1>1. CASE \E erase \in BOOLEAN : Open(erase)
  <2>1. phase' = "loading" /\ live' = {}
    BY <1>1 DEF Open, memory, Quiet
  <2>2. QED
    BY <2>1 DEF Authored, Holders
<1>2. CASE LoadRow
  <2>1. PICK i \in Unloaded, p \in Ptrs \ live : Enlist(p, [id |-> i, info |-> row[i]])
    BY <1>2 DEF LoadRow
  <2>2. phase = "loading" /\ UNCHANGED <<kind, phase, row, failed>> /\ i \in Ids
    BY <1>2, <2>1 DEF LoadRow, store, history, Unloaded, Rows
  <2>3. PICK o \in Objects : o = [id |-> i, info |-> row[i]]
    BY <2>1 DEF Unloaded, Rows, TypeOK, Objects
  <2>4. /\ heap'[p] = o /\ o.id = i /\ o.info = row[i]
        /\ \A q \in live : heap'[q] = heap[q]
        /\ p \in Holders(i)'
        /\ \A id \in Ids \ {i} : Holders(id)' = Holders(id)
    BY <2>1, <2>3, EnlistHolders
  <2>5. ASSUME NEW id \in Rows' \ failed', Holders(id)' # {}
        PROVE  \E a \in Holders(id)' : Agrees(a, id)'
    <3>1. CASE id = i
      <4>1. p \in Holders(id)'
        BY <2>4, <3>1 DEF Holders
      <4>2. row'[id] = heap'[p].info
        BY <2>2, <2>4, <3>1
      <4>3. QED
        BY <4>1, <4>2 DEF Agrees
    <3>2. CASE id # i
      <4>1. id \in Ids \ {i} /\ id \in Rows \ failed
        BY <2>2, <2>5, <3>2 DEF Rows
      <4>2. PICK a \in Holders(id) : Agrees(a, id)
        BY <2>2, <2>4, <2>5, <4>1 DEF Authored
      <4>3. a \in Holders(id)' /\ Agrees(a, id)'
        BY <2>2, <2>4, <4>1, <4>2 DEF Holders, Agrees
      <4>4. QED
        BY <4>3
    <3>3. QED
      BY <3>1, <3>2
  <2>6. QED
    BY <2>2, <2>5 DEF Authored
<1>3. CASE LoadFile \/ FileFails
  <2>1. PICK o \in Objects :
          /\ \/ row' = InsertedRow(o) /\ UNCHANGED failed /\ \E p \in Ptrs \ live : Enlist(p, Copy(o))
             \/ /\ failed' = failed \cup {o.id}
                /\ UNCHANGED row \/ row' = InsertedRow(o) \/ row' = [row EXCEPT ![o.id] = NoRow]
                /\ UNCHANGED memory \/ \E p \in Ptrs \ live : Enlist(p, Copy(o))
    <3>1. CASE LoadFile
      BY <3>1, FileObjects DEF LoadFile, history
    <3>2. CASE FileFails
      BY <3>2, FileObjects DEF FileFails, Fail
    <3>3. QED
      BY <1>3, <3>1, <3>2
  <2>2. phase = "file" /\ UNCHANGED <<kind, phase>> /\ o.id \in Ids /\ Copy(o) = o
    BY <1>3, CopyIsObject DEF LoadFile, FileFails, Taken
  <2>3. /\ \A id : Holders(id) \subseteq Holders(id)'
        /\ \A q \in live : heap'[q] = heap[q]
        /\ o.id \notin failed' => \E p \in Holders(o.id)' : heap'[p] = o
    <3>1. CASE UNCHANGED memory /\ failed' = failed \cup {o.id}
      BY <3>1 DEF memory, Holders, Listed
    <3>2. CASE \E p \in Ptrs \ live : Enlist(p, o)
      BY <3>2, EnlistHolders
    <3>3. QED
      BY <2>1, <2>2, <3>1, <3>2
  <2>4. ASSUME NEW id \in Rows' \ failed' PROVE \E a \in Holders(id)' : Agrees(a, id)'
    <3>1. CASE id = o.id /\ row[id] = NoRow
      <4>1. row' = InsertedRow(o) /\ o.id \notin failed'
        BY <2>1, <2>4, <3>1 DEF Rows
      <4>2. row'[id] = Flagged[o.info]
        BY <2>2, <3>1, <4>1, InsertedIsRow, CopyIsObject
      <4>3. QED
        BY <2>3, <3>1, <4>1, <4>2 DEF Agrees
    <3>2. CASE id # o.id \/ row[id] # NoRow
      <4>1. id \in Rows \ failed /\ row'[id] = row[id]
        BY <2>1, <2>2, <2>4, <3>2, InsertedIsRow DEF Rows, TypeOK
      <4>2. PICK a \in Holders(id) : Agrees(a, id)
        BY <2>2, <4>1 DEF Authored
      <4>3. a \in Holders(id)' /\ Agrees(a, id)'
        BY <2>3, <4>1, <4>2 DEF Holders, Agrees
      <4>4. QED
        BY <4>3
    <3>3. QED
      BY <3>1, <3>2
  <2>5. QED
    BY <2>2, <2>4 DEF Authored
<1>4. CASE RowsLoaded \/ LoadFails
  <2>1. /\ phase = "loading" /\ phase' = "file" /\ UNCHANGED <<kind, list, heap, live>>
        /\ failed \subseteq failed'
    BY <1>4 DEF RowsLoaded, LoadFails, store, memory, history
  <2>2. \A id \in Rows' \ failed' : id \in Rows \ failed /\ row'[id] = row[id] /\ Holders(id) # {}
    <3>1. CASE RowsLoaded
      BY <3>1 DEF RowsLoaded, Unloaded, store, history, Rows
    <3>2. CASE LoadFails
      <4>1. \A id \in Rows \ failed' : Holders(id) # {}
        BY <3>2 DEF LoadFails, Unloaded
      <4>2. failed \subseteq failed' /\ \A id \in Ids : row'[id] = row[id] \/ row'[id] = NoRow
        BY <3>2 DEF LoadFails, TypeOK
      <4>3. QED
        BY <4>1, <4>2 DEF Rows
    <3>3. QED
      BY <1>4, <3>1, <3>2
  <2>3. \A id : Holders(id)' = Holders(id)
    BY <2>1 DEF Holders, Listed
  <2>4. ASSUME NEW id \in Rows' \ failed' PROVE \E a \in Holders(id)' : Agrees(a, id)'
    <3>1. PICK a \in Holders(id) : Agrees(a, id)
      BY <2>1, <2>2 DEF Authored
    <3>2. QED
      BY <2>1, <2>2, <2>3, <3>1 DEF Agrees
  <2>5. QED
    BY <2>1, <2>4 DEF Authored
<1>5. CASE Serve
  <2>1. /\ phase = "file" /\ phase' = "serving"
        /\ UNCHANGED <<kind, row, list, heap, live, failed>>
    BY <1>5 DEF Serve, store, memory, history
  <2>2. ASSUME NEW id \in Rows \ failed PROVE Author(id)'
    <3>1. PICK a \in Holders(id) : Agrees(a, id)
      BY <2>1 DEF Authored
    <3>2. QED
      BY <2>1, <3>1 DEF Author, Holders, Reached, Listed, Agrees
  <2>3. QED
    BY <2>1, <2>2 DEF Authored, Rows
<1>6. CASE Crash
  BY <1>6 DEF Crash, Authored
<1>7. QED
  BY <1>1, <1>2, <1>3, <1>4, <1>5, <1>6 DEF Boots

LEMMA AuthoredStep == Types /\ Held /\ Authored /\ [Next]_vars /\ ~astray' => Authored'
<1> SUFFICES ASSUME Types, Held, Authored, [Next]_vars, ~astray', kind = "ep" PROVE Authored'
  BY KindStays DEF Authored
<1>1. CASE UNCHANGED vars
  BY <1>1 DEF vars, store, memory, session, history, Authored, Author, Agrees, Reached, Renewed,
              Holders, Listed, Rows
<1>2. CASE Boots
  BY <1>2, AuthoredBoot
<1>3. ASSUME NEW s \in Sessions, SessionStep(s) PROVE Authored'
  <2>1. ~AddNode(s) /\ ~AddsOther(s)
    BY DEF AddNode, AddsOther, AddTrigger, AddAction, AddRule
  <2>2. QED
    BY <1>3, <2>1, AuthoredAddEP, AuthoredFind, AuthoredRecheck, AuthoredInsert, AuthoredLists,
       AuthoredAddFails, AuthoredUnlist, AuthoredDestroy, AuthoredWrites, AuthoredUpdate
       DEF SessionStep
<1>4. QED
  BY <1>1, <1>2, <1>3, NextSplit

\* An endpoint nobody works on has its author in the list; when it is the only object with
\* the identifier, it is what a client reads.
LEMMA AuthoredIsCurrent == Types /\ Held /\ Authored /\ ~astray => RowsCurrent
<1> SUFFICES ASSUME Types, Held, Authored, phase = "serving", kind = "ep",
                    NEW id \in Rows \ failed, ~Busy(id), Cardinality(Holders(id)) = 1
             PROVE  \A p \in Holders(id) : Agrees(p, id)
  BY DEF RowsCurrent, Agrees
<1> USE DEF Types, Held
<1>1. PICK a \in live : heap[a].id = id /\ Reached(a) /\ (Agrees(a, id) \/ Renewed(a))
  BY DEF Authored, Author
<1>2. a \in Ptrs /\ a # NoPtr
  BY PtrAssumption DEF TypeOK
<1>3. \A s \in Sessions : pc[s] # "idle" => ptr[s] # a
  BY <1>1, <1>2 DEF HandLive, Busy
<1>4. a \in Holders(id) /\ Agrees(a, id)
  BY <1>1, <1>3 DEF Holders, Reached, Renewed
<1>5. IsFiniteSet(Holders(id))
  <2>1. list \in Seq(Ptrs)
    BY DEF TypeOK
  <2>2. Len(list) \in Nat /\ DOMAIN list = 1..Len(list)
    BY <2>1, LenProperties
  <2>3. IsFiniteSet(DOMAIN list)
    BY <2>2, FS_Interval
  <2>4. IsFiniteSet(Listed)
    <3>1. list \in [DOMAIN list -> Listed] /\ \A p \in Listed : \E k \in DOMAIN list : list[k] = p
      BY <2>1 DEF Listed
    <3>2. list \in Surjection(DOMAIN list, Listed)
      BY <3>1 DEF Surjection
    <3>3. QED
      BY <2>3, <3>2, FS_Surjection
  <2>5. QED
    BY <2>4, FS_Subset DEF Holders
<1>6. PICK x : Holders(id) = {x}
  BY <1>5, FS_Singleton
<1>7. QED
  BY <1>4, <1>6

\* What the table and the list say of an endpoint that nobody works on is the same, but for
\* FTM_EP_FLAG_STATIC, which the row of one that was just added has and its copy has not (ftdm_ep.c
\* 50, ftdm_sqlite.c 1319), for any number of sessions, those that set it at once included, as long as no call about it has
\* failed and no freed block was used.
THEOREM ListAgrees == Spec => []RowsCurrent
<1>1. Init => (~astray => Held) /\ (~astray => Authored)
  BY HeldInit DEF Init, Authored
<1>2. Types /\ (~astray => Held) /\ (~astray => Authored) /\ [Next]_vars => (~astray => Authored)'
  BY AuthoredStep, AstrayStays
<1>3. Types /\ (~astray => Held) /\ (~astray => Authored) => RowsCurrent
  BY AuthoredIsCurrent DEF RowsCurrent
<1>4. QED
  BY <1>1, <1>2, <1>3, TypesInit, TypesStep, HeldStep, PTL DEF Spec
=============================================================================
