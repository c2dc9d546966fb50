---------------------------- MODULE GatewayProofs ----------------------------
(***************************************************************************)
(* Proofs about Gateway, for any consoles, identifiers and lengths of runs: *)
(* that it keeps its types, that a node and its endpoints are linked both   *)
(* ways, that no object is listed twice, that its lists are in step with    *)
(* what the data manager holds, that a listed endpoint has its node, and    *)
(* that the main thread, when it starts the nodes, leaves out at most as    *)
(* many as were removed meanwhile.                                          *)
(*                                                                          *)
(* The invariants, and the descriptions of the steps that they are proved   *)
(* from, are in GatewayInvariants.                                          *)
(***************************************************************************)
EXTENDS GatewayInvariants, SequenceTheorems, FiniteSetTheorems, TLAPS

-------------------------------------------------------------------------------
(* Sequences.                                                                 *)

LEMMA SeqFacts ==
    ASSUME NEW S, NEW q \in Seq(S)
    PROVE  /\ Len(q) \in Nat /\ DOMAIN q = 1..Len(q) /\ \A i \in DOMAIN q : q[i] \in S
           /\ ToSet(q) = {q[i] : i \in DOMAIN q}
  BY LenProperties, ElementOfSeq DEF ToSet

LEMMA Appended ==
    ASSUME NEW S, NEW q \in Seq(S), NEW e \in S
    PROVE  /\ Append(q, e) \in Seq(S) /\ Len(Append(q, e)) = Len(q) + 1
           /\ DOMAIN Append(q, e) = DOMAIN q \cup {Len(q) + 1} /\ Len(q) + 1 \notin DOMAIN q
           /\ \A i \in DOMAIN q : Append(q, e)[i] = q[i]
           /\ Append(q, e)[Len(q) + 1] = e
           /\ ToSet(Append(q, e)) = ToSet(q) \cup {e}
<1>1. /\ Append(q, e) \in Seq(S) /\ Len(Append(q, e)) = Len(q) + 1
      /\ \A i \in 1..Len(q) : Append(q, e)[i] = q[i]
      /\ Append(q, e)[Len(q) + 1] = e
  BY AppendProperties
<1>2. Len(q) \in Nat /\ DOMAIN q = 1..Len(q) /\ DOMAIN Append(q, e) = 1..(Len(q) + 1)
  BY <1>1, LenProperties
<1>3. DOMAIN Append(q, e) = DOMAIN q \cup {Len(q) + 1} /\ Len(q) + 1 \notin DOMAIN q
  BY <1>2
<1>4. ToSet(Append(q, e)) = ToSet(q) \cup {e}
  BY <1>1, <1>2, <1>3 DEF ToSet
<1>5. QED
  BY <1>1, <1>2, <1>3, <1>4

\* Without takes out one entry: where it is, the others move up by one.
LEMMA WithoutOne ==
    ASSUME NEW S, NEW q \in Seq(S), NEW e \in ToSet(q)
    PROVE  /\ Without(q, e) \in Seq(S) /\ Len(Without(q, e)) = Len(q) - 1
           /\ DOMAIN Without(q, e) = 1..(Len(q) - 1) /\ Len(q) \in Nat /\ DOMAIN q = 1..Len(q)
           /\ \A k \in 1..(Len(q) - 1) :
                Without(q, e)[k] = IF \E i \in 1..k : q[i] = e THEN q[k + 1] ELSE q[k]
<1>1. Len(q) \in Nat /\ DOMAIN q = 1..Len(q) /\ \A i \in DOMAIN q : q[i] \in S
  BY SeqFacts
<1>2. Len(q) - 1 \in Nat
  BY <1>1 DEF ToSet
<1>3. Without(q, e) = [k \in 1..(Len(q) - 1) |-> IF \E i \in 1..k : q[i] = e THEN q[k + 1] ELSE q[k]]
  BY DEF Without
<1>4. \A k \in 1..(Len(q) - 1) : (IF \E i \in 1..k : q[i] = e THEN q[k + 1] ELSE q[k]) \in S
  BY <1>1
<1>5. Without(q, e) \in Seq(S) /\ Len(Without(q, e)) = Len(q) - 1
  BY <1>2, <1>3, <1>4, IsASeq, LenProperties
<1>6. QED
  BY <1>1, <1>3, <1>5

LEMMA WithoutType ==
    ASSUME NEW S, NEW q \in Seq(S), NEW e
    PROVE  Without(q, e) \in Seq(S) /\ ToSet(Without(q, e)) \subseteq ToSet(q)
<1>1. CASE e \notin ToSet(q)
  BY <1>1 DEF Without
<1>2. CASE e \in ToSet(q)
  <2>1. \A k \in 1..(Len(q) - 1) : Without(q, e)[k] \in {q[k], q[k + 1]} /\ k \in 1..Len(q) /\ k + 1 \in 1..Len(q)
    BY <1>2, WithoutOne
  <2>2. QED
    BY <1>2, <2>1, WithoutOne DEF ToSet
<1>3. QED
  BY <1>1, <1>2

\* What is not taken out stays.
LEMMA WithoutKeeps ==
    ASSUME NEW S, NEW q \in Seq(S), NEW e
    PROVE  ToSet(q) \ {e} \subseteq ToSet(Without(q, e))
<1>1. CASE e \notin ToSet(q)
  BY <1>1 DEF Without
<1>2. CASE e \in ToSet(q)
  <2>1. ASSUME NEW k \in 1..Len(q), q[k] # e PROVE q[k] \in ToSet(Without(q, e))
    <3>1. CASE \E i \in 1..k : q[i] = e
      <4>1. \E i \in 1..(k - 1) : q[i] = e
        BY <2>1, <3>1
      <4>2. k - 1 \in 1..(Len(q) - 1) /\ (k - 1) + 1 = k
        BY <4>1, WithoutOne, <1>2
      <4>3. Without(q, e)[k - 1] = q[k]
        BY <4>1, <4>2, <1>2, WithoutOne
      <4>4. QED
        BY <4>2, <4>3, <1>2, WithoutOne DEF ToSet
    <3>2. CASE ~\E i \in 1..k : q[i] = e
      <4>1. k \in 1..(Len(q) - 1)
        BY <3>2, <1>2, WithoutOne DEF ToSet
      <4>2. QED
        BY <4>1, <3>2, <1>2, WithoutOne DEF ToSet
    <3>3. QED
      BY <3>1, <3>2
  <2>2. QED
    BY <2>1, <1>2, WithoutOne DEF ToSet
<1>3. QED
  BY <1>1, <1>2

\* Two entries of what is left were two entries, in the same order.
LEMMA WithoutOrder ==
    ASSUME NEW S, NEW q \in Seq(S), NEW e, NEW i, NEW j,
           i \in DOMAIN Without(q, e), j \in DOMAIN Without(q, e), i < j
    PROVE  \E k, l \in DOMAIN q : k < l /\ Without(q, e)[i] = q[k] /\ Without(q, e)[j] = q[l]
<1>1. CASE e \notin ToSet(q)
  BY <1>1 DEF Without
<1>2. CASE e \in ToSet(q)
  <2>1. i \in 1..(Len(q) - 1) /\ j \in 1..(Len(q) - 1) /\ Len(q) \in Nat /\ DOMAIN q = 1..Len(q)
    BY <1>2, WithoutOne
  <2>5. \A k \in 1..(Len(q) - 1) :
          Without(q, e)[k] = IF \E m \in 1..k : q[m] = e THEN q[k + 1] ELSE q[k]
    BY <1>2, WithoutOne
  <2>2. CASE \E m \in 1..i : q[m] = e
    <3>1. \E m \in 1..j : q[m] = e
      BY <2>1, <2>2
    <3>2. Without(q, e)[i] = q[i + 1] /\ Without(q, e)[j] = q[j + 1]
      BY <2>1, <2>5, <2>2, <3>1
    <3>3. QED
      BY <2>1, <3>2
  <2>3. CASE ~\E m \in 1..i : q[m] = e
    <3>1. Without(q, e)[i] = q[i] /\ (Without(q, e)[j] = q[j] \/ Without(q, e)[j] = q[j + 1])
      BY <2>1, <2>5, <2>3
    <3>2. i \in DOMAIN q /\ j \in DOMAIN q /\ j + 1 \in DOMAIN q /\ i < j + 1
      BY <2>1
    <3>3. QED
      BY <3>1, <3>2
  <2>4. QED
    BY <2>2, <2>3
<1>3. QED
  BY <1>1, <1>2

\* An entry that was there once is gone.
LEMMA WithoutTakes ==
    ASSUME NEW S, NEW q \in Seq(S), NEW e, \A i, j \in DOMAIN q : q[i] = e /\ q[j] = e => i = j
    PROVE  e \notin ToSet(Without(q, e))
<1>1. CASE e \notin ToSet(q)
  BY <1>1 DEF Without
<1>2. CASE e \in ToSet(q)
  <2>1. ASSUME NEW k \in 1..(Len(q) - 1), Without(q, e)[k] = e PROVE FALSE
    <3>1. k \in DOMAIN q /\ k + 1 \in DOMAIN q /\ k # k + 1
      BY <1>2, WithoutOne
    <3>2. CASE \E i \in 1..k : q[i] = e
      <4>1. PICK i \in 1..k : q[i] = e
        BY <3>2
      <4>2. q[k + 1] = e
        BY <1>2, <2>1, <3>2, WithoutOne
      <4>3. i \in DOMAIN q /\ i # k + 1
        BY <3>1, <1>2, WithoutOne
      <4>4. QED
        BY <3>1, <4>1, <4>2, <4>3
    <3>3. CASE ~\E i \in 1..k : q[i] = e
      <4>1. q[k] = e /\ k \in 1..k
        BY <1>2, <2>1, <3>3, WithoutOne
      <4>2. QED
        BY <3>3, <4>1
    <3>4. QED
      BY <3>2, <3>3
  <2>2. QED
    BY <1>2, <2>1, WithoutOne DEF ToSet
<1>3. QED
  BY <1>1, <1>2

-------------------------------------------------------------------------------
(* Types.                                                                     *)

LEMMA Sets ==
    /\ Kinds = Plain \cup Linked /\ {"node", "ep", "trigger", "action", "rule"} = Kinds
    /\ \A k \in Kinds : Ids(k) \subseteq Identifiers
    /\ Idle \in Jobs /\ Blank \in Histories
    /\ Main \in Threads /\ Consoles \subseteq Threads /\ Threads = Consoles \cup {Main}
    /\ Unsynced = [phase |-> 1, count |-> 0, todo |-> {}, next |-> "count"]
    /\ {New, Old, NoRow} \subseteq Contents /\ Nodes \subseteq Contents /\ NoRow \in Identifiers
    /\ Ids("node") = Nodes /\ Ids("ep") = Endpoints /\ \A k \in Plain : Ids(k) = Others
  BY DEF Kinds, Plain, Linked, Ids, Identifiers, Idle, Jobs, Blank, Histories, Threads, Unsynced,
         Contents, Places, Keys

LEMMA Went ==
    ASSUME TypeOK, NEW t \in Threads, NEW place \in Places, Goto(t, place)
    PROVE  /\ job' \in [Threads -> Jobs] /\ OthersStay(t) /\ SameJob(t) /\ SameHands(t)
           /\ job'[t].at = place
<1>1. job \in [Threads -> Jobs] /\ job' = [job EXCEPT ![t].at = place]
  BY DEF TypeOK, Goto
<1>2. /\ job[t] \in Jobs /\ [job[t] EXCEPT !.at = place] \in Jobs
      /\ job'[t] = [job[t] EXCEPT !.at = place] /\ OthersStay(t)
  BY <1>1 DEF Jobs, OthersStay
<1>3. job' \in [Threads -> Jobs]
  BY <1>1, <1>2
<1>4. SameJob(t) /\ SameHands(t) /\ job'[t].at = place
  BY <1>2 DEF Jobs, SameJob, SameHands
<1>5. QED
  BY <1>2, <1>3, <1>4

LEMMA Ended ==
    ASSUME TypeOK, NEW t \in Threads, End(t)
    PROVE  job' \in [Threads -> Jobs] /\ OthersStay(t) /\ job'[t] = Idle
  BY Sets DEF TypeOK, End, OthersStay

LEMMA Took ==
    ASSUME TypeOK, NEW t \in Threads, NEW j \in Jobs, job' = [job EXCEPT ![t] = j]
    PROVE  job' \in [Threads -> Jobs] /\ OthersStay(t) /\ job'[t] = j
  BY DEF TypeOK, OthersStay

LEMMA HandsStay ==
    ASSUME Hands, ObjGrows, NEW t, OthersStay(t),
           t \in Threads => job'[t] = Idle \/ (job'[t].at # "idle" /\ Hand(job[t])')
    PROVE  Hands'
<1>1. ASSUME NEW u \in Threads \ {t} PROVE job'[u] = Idle \/ (job'[u].at # "idle" /\ Hand(job[u])')
  <2>1. job'[u] = job[u]
    BY DEF OthersStay
  <2>2. \A p, k, id : Is(p, k, id) => Is(p, k, id)'
    BY DEF Is, ObjGrows
  <2>3. \A e \in DOMAIN obj : e \in DOMAIN obj' /\ obj'[e].kind = obj[e].kind
    BY DEF ObjGrows
  <2>4. ASSUME Hand(job[u]) PROVE Hand(job[u])'
    BY <2>1, <2>2, <2>3, <2>4 DEF Hand, NodeHand, EPHand, PlainHand
  <2>5. QED
    BY <2>1, <2>4 DEF Hands
<1>2. QED
  BY <1>1 DEF Hands

-------------------------------------------------------------------------------
(* What the steps do to the objects, the rows and the history.                *)

LEMMA ObjFacts ==
    ASSUME TypeOK
    PROVE  /\ Len(obj) \in Nat /\ DOMAIN obj = 1..Len(obj)
           /\ \A p \in DOMAIN obj : obj[p] \in Objects /\ p \in Nat /\ p # 0
<1>1. obj \in Seq(Objects)
  BY DEF TypeOK
<1>2. QED
  BY <1>1, SeqFacts

\* An object is made.
LEMMA Made ==
    ASSUME Types, NEW o \in Objects, o.id \in Ids(o.kind), o.node = 0, o.eps = <<>>,
           obj' = Append(obj, o)
    PROVE  /\ obj' \in Seq(Objects) /\ ObjGrows
           /\ DOMAIN obj' = DOMAIN obj \cup {Len(obj) + 1} /\ Len(obj) + 1 \notin DOMAIN obj
           /\ \A p \in DOMAIN obj : obj'[p] = obj[p]
           /\ obj'[Len(obj) + 1] = o /\ Len(obj) + 1 \in Nat
           /\ \A p \in DOMAIN obj' : ObjOK(p)'
<1>1. obj \in Seq(Objects)
  BY DEF Types, TypeOK
<1>2. /\ obj' \in Seq(Objects) /\ DOMAIN obj' = DOMAIN obj \cup {Len(obj) + 1}
      /\ Len(obj) + 1 \notin DOMAIN obj /\ \A p \in DOMAIN obj : obj'[p] = obj[p]
      /\ obj'[Len(obj) + 1] = o
  BY <1>1, Appended
<1>3. ObjGrows /\ Len(obj) + 1 \in Nat
  BY <1>2, ObjFacts DEF ObjGrows, Types
<1>4. ASSUME NEW p \in DOMAIN obj PROVE ObjOK(p)'
  BY <1>2 DEF ObjOK, Types
<1>5. ASSUME NEW p, p = Len(obj) + 1 PROVE ObjOK(p)'
  <2>1. obj'[p] = o /\ ToSet(<<>>) = {}
    BY <1>2, <1>5 DEF ToSet
  <2>2. QED
    BY <2>1 DEF ObjOK
<1>6. QED
  BY <1>2, <1>3, <1>4, <1>5

\* An object is changed, but not what it is about.
LEMMA Changed ==
    ASSUME TypeOK, NEW p \in DOMAIN obj, NEW o \in Objects, o.kind = obj[p].kind, o.id = obj[p].id,
           obj' = [obj EXCEPT ![p] = o]
    PROVE  /\ obj' \in Seq(Objects) /\ ObjGrows /\ DOMAIN obj' = DOMAIN obj
           /\ obj'[p] = o /\ \A q \in DOMAIN obj \ {p} : obj'[q] = obj[q]
<1>1. obj \in Seq(Objects)
  BY DEF TypeOK
<1>2. obj' \in Seq(Objects) /\ DOMAIN obj' = DOMAIN obj
  BY <1>1, ExceptSeq
<1>3. QED
  BY <1>2 DEF ObjGrows

LEMMA Rewritten ==
    ASSUME Types, NEW p \in DOMAIN obj, NEW c \in Contents, obj' = [obj EXCEPT ![p].info = c]
    PROVE  /\ obj' \in Seq(Objects) /\ ObjGrows /\ DOMAIN obj' = DOMAIN obj
           /\ \A q \in DOMAIN obj \ {p} : obj'[q] = obj[q]
           /\ obj'[p] \in Objects /\ obj'[p] = [obj[p] EXCEPT !.info = c]
           /\ \A q \in DOMAIN obj : ObjOK(q)'
<1>1. /\ [obj[p] EXCEPT !.info = c] \in Objects
      /\ [obj[p] EXCEPT !.info = c].kind = obj[p].kind /\ [obj[p] EXCEPT !.info = c].id = obj[p].id
      /\ [obj[p] EXCEPT !.info = c].eps = obj[p].eps /\ [obj[p] EXCEPT !.info = c].node = obj[p].node
  BY ObjFacts DEF Types, Objects
<1>2. obj' = [obj EXCEPT ![p] = [obj[p] EXCEPT !.info = c]]
  OBVIOUS
<1>3. /\ obj' \in Seq(Objects) /\ ObjGrows /\ DOMAIN obj' = DOMAIN obj
      /\ obj'[p] = [obj[p] EXCEPT !.info = c] /\ \A q \in DOMAIN obj \ {p} : obj'[q] = obj[q]
  BY <1>1, <1>2, Changed DEF Types
<1>4. \A q \in DOMAIN obj : /\ obj'[q].eps = obj[q].eps /\ obj'[q].node = obj[q].node
                            /\ obj'[q].kind = obj[q].kind /\ obj'[q].id = obj[q].id
  BY <1>1, <1>3
<1>5. \A q \in DOMAIN obj : ObjOK(q)'
  BY <1>3, <1>4 DEF ObjOK, Types
<1>6. QED
  BY <1>1, <1>3, <1>5

LEMMA Switched ==
    ASSUME Types, NEW p \in DOMAIN obj, NEW b \in BOOLEAN, obj' = [obj EXCEPT ![p].run = b]
    PROVE  /\ obj' \in Seq(Objects) /\ ObjGrows /\ DOMAIN obj' = DOMAIN obj
           /\ \A q \in DOMAIN obj \ {p} : obj'[q] = obj[q]
           /\ obj'[p] \in Objects /\ obj'[p] = [obj[p] EXCEPT !.run = b]
           /\ \A q \in DOMAIN obj : ObjOK(q)'
<1>1. /\ [obj[p] EXCEPT !.run = b] \in Objects
      /\ [obj[p] EXCEPT !.run = b].kind = obj[p].kind /\ [obj[p] EXCEPT !.run = b].id = obj[p].id
      /\ [obj[p] EXCEPT !.run = b].eps = obj[p].eps /\ [obj[p] EXCEPT !.run = b].node = obj[p].node
  BY ObjFacts DEF Types, Objects
<1>2. obj' = [obj EXCEPT ![p] = [obj[p] EXCEPT !.run = b]]
  OBVIOUS
<1>3. /\ obj' \in Seq(Objects) /\ ObjGrows /\ DOMAIN obj' = DOMAIN obj
      /\ obj'[p] = [obj[p] EXCEPT !.run = b] /\ \A q \in DOMAIN obj \ {p} : obj'[q] = obj[q]
  BY <1>1, <1>2, Changed DEF Types
<1>4. \A q \in DOMAIN obj : /\ obj'[q].eps = obj[q].eps /\ obj'[q].node = obj[q].node
                            /\ obj'[q].kind = obj[q].kind /\ obj'[q].id = obj[q].id
  BY <1>1, <1>3
<1>5. \A q \in DOMAIN obj : ObjOK(q)'
  BY <1>3, <1>4 DEF ObjOK, Types
<1>6. QED
  BY <1>1, <1>3, <1>5

LEMMA Freed ==
    ASSUME Types, NEW p \in DOMAIN obj, obj' = [obj EXCEPT ![p] = [Fresh(@) EXCEPT !.alive = FALSE]]
    PROVE  /\ obj' \in Seq(Objects) /\ ObjGrows /\ DOMAIN obj' = DOMAIN obj
           /\ \A q \in DOMAIN obj \ {p} : obj'[q] = obj[q]
           /\ obj'[p] \in Objects /\ ~obj'[p].alive /\ obj'[p].node = 0 /\ obj'[p].eps = <<>>
           /\ obj'[p].info = obj[p].info
           /\ \A q \in DOMAIN obj : ObjOK(q)'
<1> DEFINE o == [Fresh(obj[p]) EXCEPT !.alive = FALSE]
<1>1. /\ o \in Objects /\ o.kind = obj[p].kind /\ o.id = obj[p].id /\ o.eps = <<>> /\ o.node = 0
      /\ ~o.alive /\ o.info = obj[p].info
  BY ObjFacts, EmptySeq DEF Types, Objects, Fresh
<1>2. obj' = [obj EXCEPT ![p] = o]
  OBVIOUS
<1> HIDE DEF o
<1>3. /\ obj' \in Seq(Objects) /\ ObjGrows /\ DOMAIN obj' = DOMAIN obj
      /\ obj'[p] = o /\ \A q \in DOMAIN obj \ {p} : obj'[q] = obj[q]
  BY <1>1, <1>2, Changed DEF Types
<1>4. \A q \in DOMAIN obj \ {p} : ObjOK(q)'
  BY <1>1, <1>3 DEF ObjOK, Types, ObjGrows
<1>5. ObjOK(p)'
  <2>1. ToSet(<<>>) = {} /\ obj[p].id \in Ids(obj[p].kind)
    BY DEF ToSet, Types, ObjOK
  <2>2. obj'[p].eps = <<>> /\ obj'[p].node = 0 /\ obj'[p].kind = obj[p].kind /\ obj'[p].id = obj[p].id
    BY <1>1, <1>3
  <2>3. QED
    BY <2>1, <2>2 DEF ObjOK
<1>6. QED
  BY <1>1, <1>3, <1>4, <1>5

\* Endpoint e and node n are two objects; the one is taken from the other's list, ...
LEMMA Parted ==
    ASSUME Types, NEW e \in DOMAIN obj, NEW n \in DOMAIN obj,
           obj[e].kind = "ep", obj[n].kind = "node", obj' = Unlinked(e, n)
    PROVE  /\ obj' \in Seq(Objects) /\ ObjGrows /\ DOMAIN obj' = DOMAIN obj /\ e # n
           /\ \A q \in DOMAIN obj \ {e, n} : obj'[q] = obj[q]
           /\ obj'[e] = [obj[e] EXCEPT !.node = 0]
           /\ obj'[n] = [obj[n] EXCEPT !.eps = Without(obj[n].eps, e)]
           /\ \A q \in DOMAIN obj : ObjOK(q)'
<1>1. e # n
  OBVIOUS
<1>2. /\ [obj[e] EXCEPT !.node = 0] \in Objects
      /\ [obj[e] EXCEPT !.node = 0].kind = obj[e].kind /\ [obj[e] EXCEPT !.node = 0].id = obj[e].id
      /\ [obj[e] EXCEPT !.node = 0].eps = obj[e].eps /\ [obj[e] EXCEPT !.node = 0].node = 0
  BY ObjFacts DEF Types, Objects
<1>3. Without(obj[n].eps, e) \in Seq(Nat) /\ ToSet(Without(obj[n].eps, e)) \subseteq ToSet(obj[n].eps)
  BY ObjFacts, WithoutType DEF Types, Objects
<1>4. /\ [obj[n] EXCEPT !.eps = Without(obj[n].eps, e)] \in Objects
      /\ [obj[n] EXCEPT !.eps = Without(obj[n].eps, e)].kind = obj[n].kind
      /\ [obj[n] EXCEPT !.eps = Without(obj[n].eps, e)].id = obj[n].id
      /\ [obj[n] EXCEPT !.eps = Without(obj[n].eps, e)].eps = Without(obj[n].eps, e)
      /\ [obj[n] EXCEPT !.eps = Without(obj[n].eps, e)].node = obj[n].node
  BY <1>3, ObjFacts DEF Types, Objects
<1>5. /\ DOMAIN obj' = DOMAIN obj /\ \A q \in DOMAIN obj \ {e, n} : obj'[q] = obj[q]
      /\ obj'[e] = [obj[e] EXCEPT !.node = 0]
      /\ obj'[n] = [obj[n] EXCEPT !.eps = Without(obj[n].eps, e)]
  BY <1>1 DEF Unlinked
<1>6. obj' \in Seq(Objects)
  <2>1. obj' = [q \in 1..Len(obj) |-> obj'[q]] /\ \A q \in 1..Len(obj) : obj'[q] \in Objects
    BY <1>2, <1>4, <1>5, ObjFacts DEF Types, Unlinked
  <2>2. QED
    BY <2>1, ObjFacts, IsASeq DEF Types
<1>7. ObjGrows
  BY <1>2, <1>4, <1>5 DEF ObjGrows
<1>8. \A q \in DOMAIN obj : ObjOK(q)
  BY DEF Types, ObjOK
<1>9. Without(obj[n].eps, e) # <<>> => obj[n].eps # <<>>
  BY DEF Without, ToSet
<1>10. \A q \in DOMAIN obj : ObjOK(q)'
  <2>1. \A q \in DOMAIN obj \ {e, n} : ObjOK(q)'
    BY <1>5, <1>7, <1>8 DEF ObjOK, ObjGrows
  <2>2. ObjOK(e)'
    BY <1>2, <1>5, <1>7, <1>8 DEF ObjOK, ObjGrows
  <2>3. ObjOK(n)'
    BY <1>3, <1>4, <1>5, <1>7, <1>8, <1>9 DEF ObjOK, ObjGrows
  <2>4. QED
    BY <2>1, <2>2, <2>3
<1>11. QED
  BY <1>1, <1>5, <1>6, <1>7, <1>10

\* ... or appended to it.
LEMMA Joined ==
    ASSUME Types, NEW e \in DOMAIN obj, NEW n \in DOMAIN obj,
           obj[e].kind = "ep", obj[n].kind = "node",
           obj' = [obj EXCEPT ![e].node = n, ![n].eps = Append(@, e)]
    PROVE  /\ obj' \in Seq(Objects) /\ ObjGrows /\ DOMAIN obj' = DOMAIN obj /\ e # n
           /\ \A q \in DOMAIN obj \ {e, n} : obj'[q] = obj[q]
           /\ obj'[e] = [obj[e] EXCEPT !.node = n]
           /\ obj'[n] = [obj[n] EXCEPT !.eps = Append(obj[n].eps, e)]
           /\ ToSet(Append(obj[n].eps, e)) = ToSet(obj[n].eps) \cup {e}
           /\ \A q \in DOMAIN obj : ObjOK(q)'
<1>1. e # n /\ e \in Nat /\ n \in Nat
  BY ObjFacts DEF Types
<1>2. /\ [obj[e] EXCEPT !.node = n] \in Objects
      /\ [obj[e] EXCEPT !.node = n].kind = obj[e].kind /\ [obj[e] EXCEPT !.node = n].id = obj[e].id
      /\ [obj[e] EXCEPT !.node = n].eps = obj[e].eps /\ [obj[e] EXCEPT !.node = n].node = n
  BY <1>1, ObjFacts DEF Types, Objects
<1>3. obj[n].eps \in Seq(Nat)
  BY ObjFacts DEF Types, Objects
<1>4. Append(obj[n].eps, e) \in Seq(Nat) /\ ToSet(Append(obj[n].eps, e)) = ToSet(obj[n].eps) \cup {e}
  BY <1>1, <1>3, Appended
<1>5. /\ [obj[n] EXCEPT !.eps = Append(obj[n].eps, e)] \in Objects
      /\ [obj[n] EXCEPT !.eps = Append(obj[n].eps, e)].kind = obj[n].kind
      /\ [obj[n] EXCEPT !.eps = Append(obj[n].eps, e)].id = obj[n].id
      /\ [obj[n] EXCEPT !.eps = Append(obj[n].eps, e)].eps = Append(obj[n].eps, e)
      /\ [obj[n] EXCEPT !.eps = Append(obj[n].eps, e)].node = obj[n].node
  BY <1>4, ObjFacts DEF Types, Objects
<1>6. /\ DOMAIN obj' = DOMAIN obj /\ \A q \in DOMAIN obj \ {e, n} : obj'[q] = obj[q]
      /\ obj'[e] = [obj[e] EXCEPT !.node = n]
      /\ obj'[n] = [obj[n] EXCEPT !.eps = Append(obj[n].eps, e)]
  BY <1>1
<1>7. obj' \in Seq(Objects)
  <2>1. obj \in Seq(Objects)
    BY DEF Types, TypeOK
  <2>2. [obj EXCEPT ![e] = [obj[e] EXCEPT !.node = n]] \in Seq(Objects)
    BY <1>2, <2>1, ExceptSeq
  <2>3. n \in 1..Len([obj EXCEPT ![e] = [obj[e] EXCEPT !.node = n]])
    BY <2>2, SeqFacts
  <2>4. [[obj EXCEPT ![e] = [obj[e] EXCEPT !.node = n]]
           EXCEPT ![n] = [obj[n] EXCEPT !.eps = Append(obj[n].eps, e)]] \in Seq(Objects)
    BY <1>5, <2>2, <2>3, ExceptSeq
  <2>5. obj' = [[obj EXCEPT ![e] = [obj[e] EXCEPT !.node = n]]
                  EXCEPT ![n] = [obj[n] EXCEPT !.eps = Append(obj[n].eps, e)]]
    BY <1>1
  <2>6. QED
    BY <2>4, <2>5
<1>8. ObjGrows
  BY <1>2, <1>5, <1>6 DEF ObjGrows
<1>9. \A q \in DOMAIN obj : ObjOK(q)
  BY DEF Types, ObjOK
<1>10. \A q \in DOMAIN obj : ObjOK(q)'
  <2>1. \A q \in DOMAIN obj \ {e, n} : ObjOK(q)'
    BY <1>6, <1>8, <1>9 DEF ObjOK, ObjGrows
  <2>2. ObjOK(e)'
    <3>1. /\ obj'[e].kind = obj[e].kind /\ obj'[e].id = obj[e].id
          /\ obj'[e].eps = obj[e].eps /\ obj'[e].node = n
      BY <1>2, <1>6
    <3>2. n \in DOMAIN obj' /\ obj'[n].kind = "node"
      BY <1>8 DEF ObjGrows
    <3>3. QED
      BY <3>1, <3>2, <1>8, <1>9 DEF ObjOK, ObjGrows
  <2>3. ObjOK(n)'
    <3>1. /\ obj'[n].kind = "node" /\ obj'[n].id = obj[n].id
          /\ ToSet(obj'[n].eps) = ToSet(obj[n].eps) \cup {e} /\ obj'[n].node = obj[n].node
      BY <1>4, <1>5, <1>6
    <3>2. e \in DOMAIN obj' /\ obj'[e].kind = "ep"
      BY <1>8 DEF ObjGrows
    <3>3. ObjOK(n)
      BY <1>9
    <3>4. (obj[n].id \in Ids(obj[n].kind))'
      BY <3>1, <3>3, <1>4 DEF ObjOK, Ids
    <3>5. \A a \in ToSet(obj'[n].eps) : a \in DOMAIN obj' /\ obj'[a].kind = "ep"
      BY <3>1, <3>2, <3>3, <1>8 DEF ObjOK, ObjGrows
    <3>6. (obj[n].node # 0 => obj[n].node \in DOMAIN obj /\ obj[obj[n].node].kind = "node")'
      BY <3>1, <3>3, <1>8 DEF ObjOK, ObjGrows
    <3>7. QED
      BY <3>1, <3>4, <3>5, <3>6 DEF ObjOK
  <2>4. QED
    BY <2>1, <2>2, <2>3
<1>11. QED
  BY <1>1, <1>4, <1>6, <1>7, <1>8, <1>10

LEMMA HistoryFacts ==
    ASSUME NEW h \in Histories
    PROVE  /\ \A S \in SUBSET Keys : /\ [h EXCEPT !.failed = h.failed \cup S] \in Histories
                                     /\ [h EXCEPT !.raced = h.raced \cup S] \in Histories
                                     /\ [h EXCEPT !.cut = h.cut \cup S] \in Histories
                                     /\ [h EXCEPT !.early = h.early \cup S] \in Histories
           /\ \A S \in SUBSET Identifiers : /\ [h EXCEPT !.orphaned = h.orphaned \cup S] \in Histories
                                            /\ [h EXCEPT !.moved = h.moved \cup S] \in Histories
                                            /\ [h EXCEPT !.stopped = h.stopped \cup S] \in Histories
           /\ [h EXCEPT !.rounds = h.rounds + 1] \in Histories
           /\ \A n \in Nat : [h EXCEPT !.removals = h.removals + n] \in Histories
  BY DEF Histories

\* What a thread has in hand.
LEMMA HandOf ==
    ASSUME Types, NEW t \in Threads, job[t].at # "idle"
    PROVE  /\ Hand(job[t]) /\ job[t] \in Jobs /\ job[t].kind \in Kinds
           /\ job[t].id \in Ids(job[t].kind) /\ Key(job[t]) \in Keys
<1>1. job[t] \in Jobs /\ job[t].kind \in Kinds
  BY DEF Types, TypeOK, Jobs
<1>2. job[t] # Idle
  BY DEF Idle
<1>3. Hand(job[t]) /\ job[t].id \in Ids(job[t].kind)
  BY <1>2 DEF Types, Hands, Hand
<1>4. Key(job[t]) \in Keys
  BY <1>1, <1>3, Sets DEF Key, Keys
<1>5. QED
  BY <1>1, <1>3, <1>4

\* A call changes one row, or notes a failure, or both.
LEMMA Called ==
    ASSUME Types, NEW k \in Kinds, NEW id \in Ids(k), NEW content \in Contents, NEW applies \in BOOLEAN,
           Call(k, id, content, applies)
    PROVE  /\ RowsOK' /\ history' \in Histories /\ events' \in 0..MaxEvents
           /\ row' = row \/ row' = [row EXCEPT ![k][id] = content]
           /\ \/ applies /\ history' = history /\ row' = [row EXCEPT ![k][id] = content]
              \/ history' = [history EXCEPT !.failed = @ \cup {<<k, id>>}]
<1>1. /\ row' = row \/ row' = [row EXCEPT ![k][id] = content]
      /\ \/ applies /\ history' = history /\ row' = [row EXCEPT ![k][id] = content]
         \/ history' = [history EXCEPT !.failed = @ \cup {<<k, id>>}]
  BY DEF Call
<1>2. RowsOK
  BY DEF Types, TypeOK, RowsOK
<1>3. RowsOK'
  <2>1. CASE row' = row
    BY <1>2, <2>1 DEF RowsOK
  <2>2. CASE row' = [row EXCEPT ![k][id] = content]
    BY <1>2, <2>2 DEF RowsOK
  <2>3. QED
    BY <1>1, <2>1, <2>2
<1>4. history' \in Histories
  <2>1. history \in Histories /\ {<<k, id>>} \in SUBSET Keys
    BY Sets DEF Types, TypeOK, Keys
  <2>2. QED
    BY <1>1, <2>1, HistoryFacts
<1>5. events' \in 0..MaxEvents
  BY GatewayBounds DEF Call, Event, Types, TypeOK
<1>6. QED
  BY <1>1, <1>3, <1>4, <1>5

\* The lists, with one entry more or less.
LEMMA Enlisted ==
    ASSUME Types, NEW k \in Kinds, NEW p, ObjGrows, p \in DOMAIN obj', obj'[p].kind = k, p \in Nat,
           list' = [list EXCEPT ![k] = Append(@, p)]
    PROVE  /\ ListsOK' /\ Listed(k)' = Listed(k) \cup {p}
           /\ \A l \in Kinds \ {k} : list'[l] = list[l]
<1>1. list \in [Kinds -> Seq(Nat)] /\ list[k] \in Seq(Nat)
  BY DEF Types, ListsOK
<1>2. list'[k] = Append(list[k], p) /\ \A l \in Kinds \ {k} : list'[l] = list[l]
  BY <1>1
<1>3. Append(list[k], p) \in Seq(Nat) /\ ToSet(Append(list[k], p)) = ToSet(list[k]) \cup {p}
  BY <1>1, Appended
<1>4. list' \in [Kinds -> Seq(Nat)]
  BY <1>1, <1>3
<1>5. Listed(k)' = Listed(k) \cup {p}
  BY <1>2, <1>3 DEF Listed
<1>6. \A l \in Kinds \ {k} : Listed(l)' = Listed(l)
  BY <1>2 DEF Listed
<1>7. ASSUME NEW l \in Kinds, NEW q \in Listed(l)' PROVE q \in DOMAIN obj' /\ obj'[q].kind = l
  <2>1. q \in Listed(l) \/ (l = k /\ q = p)
    BY <1>5, <1>6
  <2>2. q \in Listed(l) => q \in DOMAIN obj /\ obj[q].kind = l
    BY DEF Types, ListsOK
  <2>3. QED
    BY <2>1, <2>2 DEF ObjGrows
<1>8. QED
  BY <1>2, <1>4, <1>5, <1>7 DEF ListsOK

LEMMA Unlisted ==
    ASSUME Types, NEW k \in Kinds, NEW p, ObjGrows, list' = [list EXCEPT ![k] = Without(@, p)]
    PROVE  /\ ListsOK' /\ Listed(k)' \subseteq Listed(k) /\ Listed(k) \ {p} \subseteq Listed(k)'
           /\ \A l \in Kinds \ {k} : list'[l] = list[l]
<1>1. list \in [Kinds -> Seq(Nat)] /\ list[k] \in Seq(Nat)
  BY DEF Types, ListsOK
<1>2. list'[k] = Without(list[k], p) /\ \A l \in Kinds \ {k} : list'[l] = list[l]
  BY <1>1
<1>3. Without(list[k], p) \in Seq(Nat) /\ ToSet(Without(list[k], p)) \subseteq ToSet(list[k])
  BY <1>1, WithoutType
<1>4. ToSet(list[k]) \ {p} \subseteq ToSet(Without(list[k], p))
  BY <1>1, WithoutKeeps
<1>5. list' \in [Kinds -> Seq(Nat)]
  BY <1>1, <1>3
<1>6. Listed(k)' \subseteq Listed(k) /\ Listed(k) \ {p} \subseteq Listed(k)'
  BY <1>2, <1>3, <1>4 DEF Listed
<1>7. \A l \in Kinds \ {k} : Listed(l)' = Listed(l)
  BY <1>2 DEF Listed
<1>8. ASSUME NEW l \in Kinds, NEW q \in Listed(l)' PROVE q \in DOMAIN obj' /\ obj'[q].kind = l
  <2>1. q \in Listed(l)
    BY <1>6, <1>7
  <2>2. q \in Listed(l) => q \in DOMAIN obj /\ obj[q].kind = l
    BY DEF Types, ListsOK
  <2>3. QED
    BY <2>1, <2>2 DEF ObjGrows
<1>9. QED
  BY <1>2, <1>5, <1>6, <1>8 DEF ListsOK

LEMMA ListsStay == ASSUME Types, ObjGrows, UNCHANGED list PROVE ListsOK'
  BY DEF Types, ListsOK, ObjGrows, Listed

LEMMA Found ==
    ASSUME Types, NEW k \in Kinds, NEW id, NEW p \in Get(k, id)
    PROVE  p \in Listed(k) /\ Is(p, k, id) /\ p \in Nat /\ p \in Holders(k, id)
<1>1. list[k] \in Seq(Nat)
  BY DEF Types, ListsOK
<1>2. PICK i \in DOMAIN list[k] : p = list[k][i] /\ obj[p].id = id
  BY DEF Get
<1>3. p \in Listed(k) /\ p \in Nat
  BY <1>1, <1>2, SeqFacts DEF Listed
<1>4. QED
  BY <1>2, <1>3 DEF Types, ListsOK, Is, Holders

-------------------------------------------------------------------------------
(* The types, step by step.                                                   *)

LEMMA TypesKept ==
    ASSUME Types, NEW t, UNCHANGED <<subject, control>>,
           obj' \in Seq(Objects), ObjGrows, \A p \in DOMAIN obj' : ObjOK(p)', ListsOK', RowsOK',
           job' \in [Threads -> Jobs], OthersStay(t),
           t \in Threads => job'[t] = Idle \/ (job'[t].at # "idle" /\ Hand(job[t])'),
           events' \in 0..MaxEvents, lost' \in BOOLEAN, history' \in Histories
    PROVE  Types' /\ Moves(t)
<1>1. Hands'
  BY HandsStay DEF Types
<1>2. TypeOK'
  BY DEF Types, TypeOK, ListsOK, RowsOK, control
<1>3. TodoOK'
  BY DEF Types, TodoOK, control
<1>4. QED
  BY <1>1, <1>2, <1>3 DEF Types, Moves

\* What most steps leave alone.
LEMMA ObjStepKeeps ==
    ASSUME Types, ObjStep
    PROVE  RowsOK' /\ events' \in 0..MaxEvents /\ lost' \in BOOLEAN /\ UNCHANGED <<subject, control, row>>
  BY DEF Types, TypeOK, ObjStep, RowsOK, store

LEMMA DBStepKeeps ==
    ASSUME Types, DBStep
    PROVE  /\ obj' \in Seq(Objects) /\ ObjGrows /\ (\A p \in DOMAIN obj' : ObjOK(p)') /\ ListsOK'
           /\ lost' \in BOOLEAN /\ UNCHANGED <<subject, control, obj, list>>
<1>1. UNCHANGED <<subject, control, obj, list, lost>>
  BY DEF DBStep, memory
<1>2. ObjGrows /\ \A p \in DOMAIN obj : ObjOK(p)'
  BY <1>1 DEF ObjGrows, Types, ObjOK
<1>3. ListsOK'
  BY <1>1, <1>2, ListsStay
<1>4. QED
  BY <1>1, <1>2, <1>3 DEF Types, TypeOK

LEMMA MemoryStays ==
    ASSUME Types, UNCHANGED obj
    PROVE  obj' \in Seq(Objects) /\ ObjGrows /\ (\A p \in DOMAIN obj' : ObjOK(p)')
  BY DEF Types, TypeOK, ObjGrows, ObjOK

\* An object is made from a job.
LEMMA MadeFrom ==
    ASSUME Types, NEW t \in Threads, job[t].at # "idle", obj' = Append(obj, Fresh(job[t]))
    PROVE  /\ obj' \in Seq(Objects) /\ ObjGrows /\ (\A p \in DOMAIN obj' : ObjOK(p)')
           /\ DOMAIN obj' = DOMAIN obj \cup {Len(obj) + 1} /\ Len(obj) + 1 \notin DOMAIN obj
           /\ \A p \in DOMAIN obj : obj'[p] = obj[p]
           /\ obj'[Len(obj) + 1] = Fresh(job[t]) /\ Len(obj) + 1 \in Nat
           /\ Fresh(job[t]).kind = job[t].kind /\ Fresh(job[t]).id = job[t].id
           /\ Fresh(job[t]).info = job[t].info /\ Fresh(job[t]).alive
           /\ Fresh(job[t]).node = 0 /\ Fresh(job[t]).eps = <<>>
<1>1. job[t] \in Jobs /\ job[t].id \in Ids(job[t].kind)
  BY HandOf
<1>2. /\ Fresh(job[t]).kind = job[t].kind /\ Fresh(job[t]).id = job[t].id
      /\ Fresh(job[t]).info = job[t].info /\ Fresh(job[t]).alive
      /\ Fresh(job[t]).node = 0 /\ Fresh(job[t]).eps = <<>>
  BY DEF Fresh
<1>3. Fresh(job[t]) \in Objects
  BY <1>1, EmptySeq DEF Fresh, Objects, Jobs
<1>4. QED
  BY <1>1, <1>2, <1>3, Made

LEMMA MakeStep ==
    ASSUME Types, NEW t \in Threads, job[t].at # "idle", NEW place \in Places, Make(t, place)
    PROVE  /\ job' \in [Threads -> Jobs] /\ OthersStay(t) /\ SameJob(t)
           /\ job'[t].at = place /\ job'[t].ptr = Len(obj) + 1
           /\ job'[t].node = job[t].node /\ job'[t].ep = job[t].ep /\ job'[t].back = job[t].back
           /\ Is(job[t].ptr, job[t].kind, job[t].id)'
<1>1. obj' = Append(obj, Fresh(job[t]))
  BY DEF Make
<1>2. Len(obj) + 1 \in Nat
  BY <1>1, MadeFrom
<1>3. job' = [job EXCEPT ![t] = [job[t] EXCEPT !.ptr = Len(obj) + 1, !.at = place]]
  BY DEF Make, Types, TypeOK
<1>4. [job[t] EXCEPT !.ptr = Len(obj) + 1, !.at = place] \in Jobs
  <2>1. job[t] \in Jobs
    BY DEF Types, TypeOK
  <2>2. QED
    BY <1>2, <2>1 DEF Jobs
<1>5. /\ job' \in [Threads -> Jobs] /\ OthersStay(t)
      /\ job'[t] = [job[t] EXCEPT !.ptr = Len(obj) + 1, !.at = place]
  BY <1>3, <1>4, Took DEF Types
<1>6. /\ SameJob(t) /\ job'[t].at = place /\ job'[t].ptr = Len(obj) + 1
      /\ job'[t].node = job[t].node /\ job'[t].ep = job[t].ep /\ job'[t].back = job[t].back
  BY <1>5 DEF SameJob, Types, TypeOK, Jobs
<1>7. Is(job[t].ptr, job[t].kind, job[t].id)'
  BY <1>1, <1>6, MadeFrom DEF Is, SameJob
<1>8. QED
  BY <1>5, <1>6, <1>7

\* The things a step of a thread may keep.
LEMMA IsStays ==
    ASSUME ObjGrows, NEW p, NEW k, NEW id, Is(p, k, id)
    PROVE  Is(p, k, id)'
  BY DEF Is, ObjGrows

LEMMA LookNodeTypes == ASSUME Types, NEW t \in Threads, LookNode(t) PROVE Types' /\ Moves(t)
<1>1. /\ job[t].at = "look" /\ job[t].kind = "node" /\ job[t].id \in Ids("node")
      /\ job[t] \in Jobs /\ job[t].ep = 0
  BY HandOf DEF LookNode, At, Hand, NodeHand
<1>2. RowsOK' /\ events' \in 0..MaxEvents /\ lost' \in BOOLEAN /\ UNCHANGED <<subject, control, list, history>>
  BY ObjStepKeeps DEF LookNode
<1>3. history' \in Histories
  BY <1>2 DEF Types, TypeOK
<1>4. CASE End(t) /\ UNCHANGED obj
  BY <1>2, <1>3, <1>4, Ended, MemoryStays, ListsStay, TypesKept DEF Types
<1>5. CASE Make(t, IF job[t].new THEN "add" ELSE "append")
  <2>1. (IF job[t].new THEN "add" ELSE "append") \in {"add", "append"} /\ {"add", "append"} \subseteq Places
    BY DEF Places
  <2>2. PICK place \in {"add", "append"} : Make(t, place)
    BY <1>5, <2>1
  <2>3. /\ job' \in [Threads -> Jobs] /\ OthersStay(t) /\ SameJob(t) /\ job'[t].at = place
        /\ job'[t].ep = job[t].ep /\ Is(job[t].ptr, job[t].kind, job[t].id)'
    BY <1>1, <2>1, <2>2, MakeStep
  <2>4. obj' \in Seq(Objects) /\ ObjGrows /\ \A p \in DOMAIN obj' : ObjOK(p)'
    BY <1>1, <2>2, MadeFrom DEF Make
  <2>5. Hand(job[t])'
    BY <1>1, <2>2, <2>3 DEF Hand, NodeHand, SameJob, Plain, Is
  <2>6. ListsOK'
    BY <1>2, <2>4, ListsStay
  <2>7. QED
    BY <1>2, <1>3, <2>2, <2>3, <2>4, <2>5, <2>6, TypesKept
<1>6. QED
  BY <1>4, <1>5 DEF LookNode

LEMMA AddNodeTypes == ASSUME Types, NEW t \in Threads, AddNode(t) PROVE Types' /\ Moves(t)
<1>1. /\ job[t].at = "add" /\ job[t].kind = "node" /\ job[t].id \in Ids("node") /\ job[t] \in Jobs
      /\ job[t].ep = 0 /\ Is(job[t].ptr, "node", job[t].id)
  BY HandOf DEF AddNode, At, Hand, NodeHand
<1>2. RowsOK' /\ history' \in Histories /\ events' \in 0..MaxEvents
  BY <1>1, Called DEF AddNode, Kinds, Jobs
<1>3. /\ obj' \in Seq(Objects) /\ ObjGrows /\ (\A p \in DOMAIN obj' : ObjOK(p)') /\ ListsOK'
      /\ lost' \in BOOLEAN /\ UNCHANGED <<subject, control, obj, list>>
  BY DBStepKeeps DEF AddNode
<1>4. /\ job' \in [Threads -> Jobs] /\ OthersStay(t) /\ SameJob(t) /\ SameHands(t)
      /\ job'[t].at = "append"
  BY Went DEF AddNode, Types, Places
<1>5. Hand(job[t])'
  BY <1>1, <1>3, <1>4, IsStays DEF Hand, NodeHand, SameJob, SameHands, Plain, Is
<1>6. QED
  BY <1>2, <1>3, <1>4, <1>5, TypesKept

LEMMA AppendNodeTypes == ASSUME Types, NEW t \in Threads, AppendNode(t) PROVE Types' /\ Moves(t)
<1>1. /\ job[t].at = "append" /\ job[t].kind = "node" /\ job[t].id \in Ids("node") /\ job[t] \in Jobs
      /\ job[t].ep = 0 /\ Is(job[t].ptr, "node", job[t].id)
  BY HandOf DEF AppendNode, At, Hand, NodeHand
<1>2. RowsOK' /\ events' \in 0..MaxEvents /\ lost' \in BOOLEAN /\ UNCHANGED <<subject, control, obj, history>>
  BY ObjStepKeeps DEF AppendNode
<1>3. history' \in Histories
  BY <1>2 DEF Types, TypeOK
<1>4. obj' \in Seq(Objects) /\ ObjGrows /\ \A p \in DOMAIN obj' : ObjOK(p)'
  BY <1>2, MemoryStays
<1>5. ListsOK'
  BY <1>1, <1>2, <1>4, Enlisted DEF AppendNode, Enlist, Is, Jobs, Kinds
<1>6. CASE End(t)
  BY <1>2, <1>3, <1>4, <1>5, <1>6, Ended, TypesKept DEF Types
<1>7. CASE Goto(t, "start")
  <2>1. /\ job' \in [Threads -> Jobs] /\ OthersStay(t) /\ SameJob(t) /\ SameHands(t)
        /\ job'[t].at = "start"
    BY <1>7, Went DEF Types, Places
  <2>2. Hand(job[t])'
    BY <1>1, <1>2, <2>1 DEF Hand, NodeHand, SameJob, SameHands, Plain, Is
  <2>3. QED
    BY <1>2, <1>3, <1>4, <1>5, <2>1, <2>2, TypesKept
<1>8. QED
  BY <1>6, <1>7 DEF AppendNode

LEMMA StartNodeTypes == ASSUME Types, NEW t \in Threads, StartNode(t) PROVE Types' /\ Moves(t)
<1>1. /\ job[t].at = "start" /\ job[t].kind = "node" /\ job[t].id \in Ids("node") /\ job[t] \in Jobs
      /\ job[t].ep = 0 /\ Is(job[t].ptr, "node", job[t].id) /\ Key(job[t]) \in Keys
  BY HandOf DEF StartNode, At, Hand, NodeHand
<1>2. UNCHANGED <<subject, control, row, list, lost>>
  BY DEF StartNode, store
<1>3. RowsOK' /\ lost' \in BOOLEAN
  BY <1>2 DEF Types, TypeOK, RowsOK
<1>4. events' \in 0..MaxEvents
  BY GatewayBounds DEF StartNode, Event, Types, TypeOK
<1>5. history' \in Histories
  <2>1. history \in Histories /\ {Key(job[t])} \in SUBSET Keys
    BY <1>1 DEF Types, TypeOK
  <2>2. history' \in {history, [history EXCEPT !.failed = @ \cup {Key(job[t])}]}
    BY DEF StartNode
  <2>3. QED
    BY <2>1, <2>2, HistoryFacts
<1>6. obj' \in Seq(Objects) /\ ObjGrows /\ \A p \in DOMAIN obj' : ObjOK(p)'
  <2>1. CASE UNCHANGED obj
    BY <2>1, MemoryStays
  <2>2. CASE \E b \in BOOLEAN : obj' = [obj EXCEPT ![job[t].ptr].run = b]
    BY <1>1, <2>2, Switched DEF Is
  <2>3. job[t].new \in BOOLEAN
    BY <1>1 DEF Jobs
  <2>4. QED
    BY <2>1, <2>2, <2>3 DEF StartNode
<1>7. ListsOK'
  BY <1>2, <1>6, ListsStay
<1>8. CASE End(t)
  BY <1>2, <1>3, <1>4, <1>5, <1>6, <1>7, <1>8, Ended, TypesKept DEF Types
<1>9. CASE Goto(t, "drop")
  <2>1. /\ job' \in [Threads -> Jobs] /\ OthersStay(t) /\ SameJob(t) /\ SameHands(t)
        /\ job'[t].at = "drop"
    BY <1>9, Went DEF Types, Places
  <2>2. Hand(job[t])'
    BY <1>1, <1>6, <2>1, IsStays DEF Hand, NodeHand, SameJob, SameHands, Plain, Is
  <2>3. QED
    BY <1>2, <1>3, <1>4, <1>5, <1>6, <1>7, <2>1, <2>2, TypesKept
<1>10. QED
  BY <1>8, <1>9 DEF StartNode

\* A node's destruction picks the first of its endpoints.
LEMMA Picked ==
    ASSUME Types, NEW t \in Threads, job[t].at \in {"empty", "purge"}, job[t].kind = "node",
           obj[job[t].ptr].eps # <<>>
    PROVE  LET e == Head(obj[job[t].ptr].eps)
           IN  /\ e \in DOMAIN obj /\ obj[e].kind = "ep" /\ e \in ToSet(obj[job[t].ptr].eps)
               /\ \A back \in {"empty", "purge"} :
                    [job[t] EXCEPT !.ep = e, !.back = back, !.at = "dropEP"] \in Jobs
<1> DEFINE q == obj[job[t].ptr].eps
<1>1. Is(job[t].ptr, "node", job[t].id) /\ job[t] \in Jobs
  BY HandOf DEF Hand, NodeHand
<1>2. q \in Seq(Nat) /\ q # <<>>
  BY <1>1, ObjFacts DEF Is, Types, Objects
<1>3. Head(q) = q[1] /\ 1 \in DOMAIN q /\ Head(q) \in ToSet(q) /\ Head(q) \in Nat
  <2>1. Len(q) # 0 /\ Head(q) = q[1]
    BY <1>2, EmptySeq, HeadTailProperties
  <2>2. QED
    BY <1>2, <2>1, SeqFacts
<1>4. Head(q) \in DOMAIN obj /\ obj[Head(q)].kind = "ep"
  BY <1>1, <1>3 DEF Types, ObjOK, Is
<1> HIDE DEF q
<1>5. \A back \in {"empty", "purge"} :
        [job[t] EXCEPT !.ep = Head(q), !.back = back, !.at = "dropEP"] \in Jobs
  BY <1>1, <1>3 DEF Jobs, Places
<1>6. QED
  BY <1>3, <1>4, <1>5 DEF q

\* A race is noted.
LEMMA RaceNoted ==
    ASSUME Types, NEW t \in Threads, NEW j \in Jobs,
           NEW h \in Histories,
           j.ep # 0 => j.ep \in DOMAIN obj /\ obj[j.ep].kind = "ep"
    PROVE  Racing(t, j, h) \in Histories
<1>1. Key(j) \in Keys /\ Holds(j) \subseteq Keys
  <2>1. j.kind \in Kinds /\ Key(j) \in Keys
    BY Sets DEF Jobs, Key, Keys
  <2>2. CASE j.ep # 0
    <3>1. obj[j.ep].id \in Identifiers
      BY <2>2, ObjFacts DEF Objects, Types
    <3>2. QED
      BY <2>1, <3>1 DEF Holds, Keys, Kinds
  <2>3. CASE j.ep = 0
    BY <2>1, <2>3 DEF Holds
  <2>4. QED
    BY <2>1, <2>2, <2>3
<1>2. ASSUME NEW u \in Threads PROVE Key(job[u]) \in Keys
  <2>1. job[u] \in Jobs
    BY DEF Types, TypeOK
  <2>2. QED
    BY <2>1 DEF Jobs, Key, Keys
<1>3. ASSUME NEW S \in SUBSET Threads
      PROVE  UNION {{Key(j), Key(job[u])} \cup (Holds(j) \cap Holds(job[u])) : u \in S} \subseteq Keys
  BY <1>1, <1>2
<1>4. QED
  BY <1>3, HistoryFacts DEF Racing

PickTo(t, back) == [job[t] EXCEPT !.ep = Head(obj[job[t].ptr].eps), !.back = back, !.at = "dropEP"]

LEMMA PickedTypes ==
    ASSUME Types, NEW t \in Threads, job[t].at \in {"empty", "purge"}, job[t].kind = "node",
           NEW back \in {"empty", "purge"}, obj[job[t].ptr].eps # <<>>,
           obj' = Unlinked(Head(obj[job[t].ptr].eps), job[t].ptr),
           job' = [job EXCEPT ![t] = PickTo(t, back)],
           history' = Racing(t, PickTo(t, back), history),
           UNCHANGED <<store, list, control, events, lost>>
    PROVE  Types' /\ Moves(t)
<1> DEFINE e == Head(obj[job[t].ptr].eps)
<1>1. /\ Is(job[t].ptr, "node", job[t].id) /\ job[t] \in Jobs /\ job[t].id \in Ids("node")
  BY HandOf DEF Hand, NodeHand
<1>2. e \in DOMAIN obj /\ obj[e].kind = "ep" /\ PickTo(t, back) \in Jobs
  BY Picked DEF PickTo
<1> HIDE DEF e
<1>3. obj' \in Seq(Objects) /\ ObjGrows /\ (\A p \in DOMAIN obj' : ObjOK(p)') /\ DOMAIN obj' = DOMAIN obj
  BY <1>1, <1>2, Parted DEF Is, e
<1>4. /\ job' \in [Threads -> Jobs] /\ OthersStay(t) /\ job'[t] = PickTo(t, back)
  BY <1>2, Took DEF Types
<1>5. /\ PickTo(t, back).kind = "node" /\ PickTo(t, back).id = job[t].id
      /\ PickTo(t, back).ptr = job[t].ptr /\ PickTo(t, back).ep = e
      /\ PickTo(t, back).back = back /\ PickTo(t, back).at = "dropEP"
  BY <1>1 DEF PickTo, Jobs, e
<1>6. Hand(job[t])'
  <2>1. Is(job[t].ptr, "node", job[t].id)'
    BY <1>1, <1>3, <1>4, <1>5, IsStays DEF Is
  <2>2. e \in DOMAIN obj' /\ obj'[e].kind = "ep"
    BY <1>2, <1>3 DEF ObjGrows
  <2>3. QED
    BY <1>1, <1>4, <1>5, <2>1, <2>2 DEF Hand, NodeHand, Plain
<1>7. history' \in Histories
  BY <1>1, <1>2, <1>5, RaceNoted DEF Types, TypeOK
<1>8. RowsOK' /\ ListsOK' /\ events' \in 0..MaxEvents /\ lost' \in BOOLEAN
  BY <1>3, ListsStay DEF Types, TypeOK, RowsOK, store
<1>9. QED
  BY <1>3, <1>4, <1>5, <1>6, <1>7, <1>8, TypesKept DEF store

LEMMA EmptyNodeTypes == ASSUME Types, NEW t \in Threads, EmptyNode(t) PROVE Types' /\ Moves(t)
<1>1. /\ job[t].at = "empty" /\ job[t].kind = "node" /\ job[t].id \in Ids("node") /\ job[t] \in Jobs
      /\ job[t].ep = 0 /\ Is(job[t].ptr, "node", job[t].id)
  BY HandOf DEF EmptyNode, At, Hand, NodeHand
<1>2. RowsOK' /\ events' \in 0..MaxEvents /\ lost' \in BOOLEAN /\ UNCHANGED <<subject, control, list>>
  BY ObjStepKeeps DEF EmptyNode
<1>3. CASE Goto(t, "drop") /\ UNCHANGED <<obj, history>>
  <2>1. /\ job' \in [Threads -> Jobs] /\ OthersStay(t) /\ SameJob(t) /\ SameHands(t)
        /\ job'[t].at = "drop"
    BY <1>3, Went DEF Types, Places
  <2>2. Hand(job[t])'
    BY <1>1, <1>3, <2>1 DEF Hand, NodeHand, SameJob, SameHands, Plain, Is
  <2>3. history' \in Histories
    BY <1>3 DEF Types, TypeOK
  <2>4. QED
    BY <1>2, <1>3, <2>1, <2>2, <2>3, MemoryStays, ListsStay, TypesKept
<1>4. CASE /\ obj[job[t].ptr].eps # <<>> /\ obj' = Unlinked(Head(obj[job[t].ptr].eps), job[t].ptr)
           /\ job' = [job EXCEPT ![t] = PickTo(t, "empty")]
           /\ history' = Racing(t, PickTo(t, "empty"), history)
  BY <1>1, <1>4, PickedTypes DEF EmptyNode, ObjStep
<1>5. CASE End(t) /\ UNCHANGED <<obj, history>>
  <2>1. history' \in Histories
    BY <1>5 DEF Types, TypeOK
  <2>2. QED
    BY <1>2, <1>5, <2>1, Ended, MemoryStays, ListsStay, TypesKept DEF Types
<1>6. QED
  BY <1>3, <1>4, <1>5 DEF EmptyNode, PickTo

LEMMA DropNodeTypes == ASSUME Types, NEW t \in Threads, DropNode(t) PROVE Types' /\ Moves(t)
<1>1. /\ job[t].at = "drop" /\ job[t].kind = "node" /\ job[t].id \in Ids("node") /\ job[t] \in Jobs
      /\ job[t].ep = 0 /\ Is(job[t].ptr, "node", job[t].id)
  BY HandOf DEF DropNode, At, Hand, NodeHand
<1>2. RowsOK' /\ history' \in Histories /\ events' \in 0..MaxEvents
  BY <1>1, Called, Sets DEF DropNode, Kinds
<1>3. /\ obj' \in Seq(Objects) /\ ObjGrows /\ (\A p \in DOMAIN obj' : ObjOK(p)') /\ ListsOK'
      /\ lost' \in BOOLEAN /\ UNCHANGED <<subject, control, obj, list>>
  BY DBStepKeeps DEF DropNode
<1>4. /\ job' \in [Threads -> Jobs] /\ OthersStay(t) /\ SameJob(t) /\ SameHands(t)
      /\ job'[t].at = "purge"
  BY Went DEF DropNode, Types, Places
<1>5. Hand(job[t])'
  BY <1>1, <1>3, <1>4 DEF Hand, NodeHand, SameJob, SameHands, Plain, Is
<1>6. QED
  BY <1>2, <1>3, <1>4, <1>5, TypesKept

LEMMA PurgeNodeTypes == ASSUME Types, NEW t \in Threads, PurgeNode(t) PROVE Types' /\ Moves(t)
<1>1. /\ job[t].at = "purge" /\ job[t].kind = "node" /\ job[t].id \in Ids("node") /\ job[t] \in Jobs
      /\ job[t].ep = 0 /\ Is(job[t].ptr, "node", job[t].id)
  BY HandOf DEF PurgeNode, At, Hand, NodeHand
<1>2. RowsOK' /\ events' \in 0..MaxEvents /\ UNCHANGED <<subject, control, list>>
  BY DEF PurgeNode, store, Types, TypeOK, RowsOK
<1>3. CASE Goto(t, "delist") /\ UNCHANGED <<obj, lost, history>>
  <2>1. /\ job' \in [Threads -> Jobs] /\ OthersStay(t) /\ SameJob(t) /\ SameHands(t)
        /\ job'[t].at = "delist"
    BY <1>3, Went DEF Types, Places
  <2>2. Hand(job[t])'
    BY <1>1, <1>3, <2>1 DEF Hand, NodeHand, SameJob, SameHands, Plain, Is
  <2>3. history' \in Histories /\ lost' \in BOOLEAN
    BY <1>3 DEF Types, TypeOK
  <2>4. QED
    BY <1>2, <1>3, <2>1, <2>2, <2>3, MemoryStays, ListsStay, TypesKept
<1>4. CASE /\ obj[job[t].ptr].eps # <<>> /\ obj' = Unlinked(Head(obj[job[t].ptr].eps), job[t].ptr)
           /\ job' = [job EXCEPT ![t] = PickTo(t, "purge")]
           /\ history' = Racing(t, PickTo(t, "purge"), history) /\ UNCHANGED lost
  BY <1>1, <1>4, PickedTypes DEF PurgeNode
<1>5. CASE lost' = TRUE /\ UNCHANGED <<obj, job, history>>
  <2>1. history' \in Histories /\ job' \in [Threads -> Jobs] /\ OthersStay(0) /\ OthersStay(t)
    BY <1>5 DEF Types, TypeOK, OthersStay
  <2>2. ListsOK' /\ obj' \in Seq(Objects) /\ ObjGrows /\ \A p \in DOMAIN obj' : ObjOK(p)'
    BY <1>2, <1>5, MemoryStays, ListsStay
  <2>3. job'[t].at # "idle" /\ Hand(job[t])'
    BY <1>1, <1>5 DEF Hand, NodeHand, Plain, Is
  <2>4. QED
    BY <1>2, <1>5, <2>1, <2>2, <2>3, TypesKept
<1>6. QED
  BY <1>3, <1>4, <1>5 DEF PurgeNode, PickTo

LEMMA DelistNodeTypes == ASSUME Types, NEW t \in Threads, DelistNode(t) PROVE Types' /\ Moves(t)
<1>1. /\ job[t].at = "delist" /\ job[t].kind = "node" /\ job[t] \in Jobs
      /\ Is(job[t].ptr, "node", job[t].id)
  BY HandOf DEF DelistNode, At, Hand, NodeHand
<1>2. RowsOK' /\ events' \in 0..MaxEvents /\ lost' \in BOOLEAN /\ UNCHANGED <<subject, control>>
  BY ObjStepKeeps DEF DelistNode
<1>3. obj' \in Seq(Objects) /\ ObjGrows /\ \A p \in DOMAIN obj' : ObjOK(p)'
  BY <1>1, Freed DEF DelistNode, Unlist, Is
<1>4. ListsOK'
  BY <1>3, Unlisted DEF DelistNode, Unlist, Kinds
<1>5. history' \in Histories
  BY HistoryFacts DEF DelistNode, Types, TypeOK
<1>6. QED
  BY <1>2, <1>3, <1>4, <1>5, Ended, TypesKept DEF DelistNode, Types

LEMMA WriteNodeTypes == ASSUME Types, NEW t \in Threads, WriteNode(t) PROVE Types' /\ Moves(t)
<1>1. /\ job[t].at = "write" /\ job[t].kind = "node" /\ job[t].id \in Ids("node") /\ job[t] \in Jobs
      /\ job[t].ep = 0 /\ Is(job[t].ptr, "node", job[t].id)
  BY HandOf DEF WriteNode, At, Hand, NodeHand
<1>2. /\ RowsOK' /\ events' \in 0..MaxEvents /\ lost' \in BOOLEAN
      /\ UNCHANGED <<subject, control, list, history>>
  BY ObjStepKeeps DEF WriteNode
<1>3. obj' \in Seq(Objects) /\ ObjGrows /\ (\A p \in DOMAIN obj' : ObjOK(p)') /\ history' \in Histories
  BY <1>1, <1>2, Rewritten, MemoryStays DEF WriteNode, Is, Jobs, Types, TypeOK
<1>4. CASE Goto(t, "save")
  <2>1. /\ job' \in [Threads -> Jobs] /\ OthersStay(t) /\ SameJob(t) /\ SameHands(t)
        /\ job'[t].at = "save"
    BY <1>4, Went DEF Types, Places
  <2>2. Hand(job[t])'
    BY <1>1, <1>3, <2>1, IsStays DEF Hand, NodeHand, SameJob, SameHands, Plain, Is
  <2>3. QED
    BY <1>2, <1>3, <2>1, <2>2, ListsStay, TypesKept
<1>5. QED
  BY <1>2, <1>3, <1>4, Ended, ListsStay, TypesKept DEF WriteNode, Types

LEMMA SaveNodeTypes == ASSUME Types, NEW t \in Threads, SaveNode(t) PROVE Types' /\ Moves(t)
<1>1. job[t].kind = "node" /\ job[t].id \in Ids("node") /\ job[t].info \in Contents
  BY HandOf DEF SaveNode, At, Hand, Jobs
<1>2. RowsOK' /\ history' \in Histories /\ events' \in 0..MaxEvents
  BY <1>1, Called DEF SaveNode, Kinds
<1>3. /\ obj' \in Seq(Objects) /\ ObjGrows /\ (\A p \in DOMAIN obj' : ObjOK(p)') /\ ListsOK'
      /\ lost' \in BOOLEAN /\ UNCHANGED <<subject, control>>
  BY DBStepKeeps DEF SaveNode
<1>4. QED
  BY <1>2, <1>3, Ended, TypesKept DEF SaveNode, Types

LEMMA LookEPTypes == ASSUME Types, NEW t \in Threads, LookEP(t) PROVE Types' /\ Moves(t)
<1>1. /\ job[t].at = "look" /\ job[t].kind = "ep" /\ job[t].id \in Ids("ep") /\ job[t] \in Jobs
      /\ job[t].ep = 0 /\ job[t].back = "idle"
      /\ job[t].new => Is(job[t].node, "node", job[t].info)
  BY HandOf DEF LookEP, At, Hand, EPHand
<1>2. /\ RowsOK' /\ events' \in 0..MaxEvents /\ lost' \in BOOLEAN
      /\ UNCHANGED <<subject, control, list, history>>
  BY ObjStepKeeps DEF LookEP
<1>3. history' \in Histories
  BY <1>2 DEF Types, TypeOK
<1>4. CASE End(t) /\ UNCHANGED obj
  BY <1>2, <1>3, <1>4, Ended, MemoryStays, ListsStay, TypesKept DEF Types
<1>5. CASE Make(t, "append")
  <2>1. /\ job' \in [Threads -> Jobs] /\ OthersStay(t) /\ SameJob(t) /\ job'[t].at = "append"
        /\ job'[t].ep = job[t].ep /\ job'[t].node = job[t].node /\ job'[t].back = job[t].back
        /\ Is(job[t].ptr, job[t].kind, job[t].id)'
    BY <1>1, <1>5, MakeStep DEF Places
  <2>2. obj' \in Seq(Objects) /\ ObjGrows /\ \A p \in DOMAIN obj' : ObjOK(p)'
    BY <1>1, <1>5, MadeFrom DEF Make
  <2>3. job[t].new => Is(job[t].node, "node", job[t].info)'
    BY <1>1, <2>1, <2>2 DEF SameJob, Is, ObjGrows
  <2>4. Hand(job[t])'
    BY <1>1, <2>1, <2>3 DEF Hand, EPHand, SameJob, Plain
  <2>5. QED
    BY <1>2, <1>3, <2>1, <2>2, <2>4, ListsStay, TypesKept
<1>6. QED
  BY <1>4, <1>5 DEF LookEP

LEMMA AppendEPTypes == ASSUME Types, NEW t \in Threads, AppendEP(t) PROVE Types' /\ Moves(t)
<1>1. /\ job[t].at = "append" /\ job[t].kind = "ep" /\ job[t].id \in Ids("ep") /\ job[t] \in Jobs
      /\ job[t].ep = 0 /\ Is(job[t].ptr, "ep", job[t].id) /\ job[t].back = "idle"
      /\ job[t].new => Is(job[t].node, "node", job[t].info)
  BY HandOf DEF AppendEP, At, Hand, EPHand
<1>2. RowsOK' /\ events' \in 0..MaxEvents /\ lost' \in BOOLEAN /\ UNCHANGED <<subject, control, obj, history>>
  BY ObjStepKeeps DEF AppendEP
<1>3. history' \in Histories
  BY <1>2 DEF Types, TypeOK
<1>4. obj' \in Seq(Objects) /\ ObjGrows /\ \A p \in DOMAIN obj' : ObjOK(p)'
  BY <1>2, MemoryStays
<1>5. ListsOK'
  BY <1>1, <1>2, <1>4, Enlisted DEF AppendEP, Enlist, Is, Jobs, Kinds
<1>6. PICK place \in {"add", "seek"} : Goto(t, place) /\ (place = "add" => job[t].new)
  BY DEF AppendEP
<1>7. /\ job' \in [Threads -> Jobs] /\ OthersStay(t) /\ SameJob(t) /\ SameHands(t)
      /\ job'[t].at = place
  BY <1>6, Went DEF Types, Places
<1>8. Hand(job[t])'
  BY <1>1, <1>2, <1>6, <1>7 DEF Hand, EPHand, SameJob, SameHands, Plain, Is
<1>9. QED
  BY <1>2, <1>3, <1>4, <1>5, <1>6, <1>7, <1>8, TypesKept

LEMMA AddEPTypes == ASSUME Types, NEW t \in Threads, AddEP(t) PROVE Types' /\ Moves(t)
<1>1. /\ job[t].at = "add" /\ job[t].kind = "ep" /\ job[t].id \in Ids("ep") /\ job[t] \in Jobs
      /\ job[t].ep = 0 /\ Is(job[t].ptr, "ep", job[t].id) /\ job[t].back = "idle"
      /\ Is(job[t].node, "node", job[t].info) /\ job[t].info \in Contents
  BY HandOf DEF AddEP, At, Hand, EPHand, Jobs
<1>2. RowsOK' /\ history' \in Histories /\ events' \in 0..MaxEvents
  BY <1>1, Called DEF AddEP, Kinds
<1>3. /\ obj' \in Seq(Objects) /\ ObjGrows /\ (\A p \in DOMAIN obj' : ObjOK(p)') /\ ListsOK'
      /\ lost' \in BOOLEAN /\ UNCHANGED <<subject, control, obj, list>>
  BY DBStepKeeps DEF AddEP
<1>4. /\ job' \in [Threads -> Jobs] /\ OthersStay(t) /\ SameJob(t) /\ SameHands(t)
      /\ job'[t].at = "link"
  BY Went DEF AddEP, Types, Places
<1>5. Hand(job[t])'
  BY <1>1, <1>3, <1>4 DEF Hand, EPHand, SameJob, SameHands, Plain, Is
<1>6. QED
  BY <1>2, <1>3, <1>4, <1>5, TypesKept

LEMMA OrphanTypes ==
    ASSUME Types, NEW t \in Threads, job[t].at # "idle", Orphan(t)
    PROVE  history' \in Histories
<1>1. {job[t].id} \in SUBSET Identifiers
  BY HandOf, Sets
<1>2. QED
  BY <1>1, HistoryFacts DEF Orphan, Types, TypeOK

LEMMA SeekNodeTypes == ASSUME Types, NEW t \in Threads, SeekNode(t) PROVE Types' /\ Moves(t)
<1>1. /\ job[t].at = "seek" /\ job[t].kind = "ep" /\ job[t].id \in Ids("ep") /\ job[t] \in Jobs
      /\ job[t].ep = 0 /\ Is(job[t].ptr, "ep", job[t].id) /\ job[t].back = "idle"
  BY HandOf DEF SeekNode, At, Hand, EPHand
<1>2. /\ RowsOK' /\ events' \in 0..MaxEvents /\ lost' \in BOOLEAN
      /\ UNCHANGED <<subject, control, obj, list>>
  BY ObjStepKeeps DEF SeekNode, memory
<1>3. /\ obj' \in Seq(Objects) /\ ObjGrows /\ (\A p \in DOMAIN obj' : ObjOK(p)') /\ ListsOK'
  BY <1>2, MemoryStays, ListsStay
<1>4. CASE End(t) /\ Orphan(t)
  BY <1>1, <1>2, <1>3, <1>4, Ended, OrphanTypes, TypesKept DEF Types
<1>5. CASE \E n \in Get("node", job[t].info) :
             job' = [job EXCEPT ![t].node = n, ![t].at = "link"] /\ UNCHANGED history
  <2>1. PICK n \in Get("node", job[t].info) :
           job' = [job EXCEPT ![t].node = n, ![t].at = "link"] /\ UNCHANGED history
    BY <1>5
  <2>2. Is(n, "node", job[t].info) /\ n \in Nat
    BY Found DEF Kinds
  <2>3. [job[t] EXCEPT !.node = n, !.at = "link"] \in Jobs
    BY <1>1, <2>2 DEF Jobs, Places
  <2>4. job' = [job EXCEPT ![t] = [job[t] EXCEPT !.node = n, !.at = "link"]]
    BY <2>1 DEF Types, TypeOK
  <2>5. /\ job' \in [Threads -> Jobs] /\ OthersStay(t)
        /\ job'[t] = [job[t] EXCEPT !.node = n, !.at = "link"]
    BY <2>3, <2>4, Took DEF Types
  <2>6. /\ SameJob(t) /\ job'[t].at = "link" /\ job'[t].node = n /\ job'[t].ptr = job[t].ptr
        /\ job'[t].ep = job[t].ep /\ job'[t].back = job[t].back
    BY <1>1, <2>5 DEF SameJob, Jobs
  <2>7. Hand(job[t])'
    BY <1>1, <1>2, <2>2, <2>6 DEF Hand, EPHand, SameJob, Plain, Is
  <2>8. history' \in Histories
    BY <2>1 DEF Types, TypeOK
  <2>9. QED
    BY <1>2, <1>3, <2>5, <2>6, <2>7, <2>8, TypesKept
<1>6. QED
  BY <1>4, <1>5 DEF SeekNode

LEMMA Retried ==
    ASSUME Types, NEW t \in Threads, job[t].kind = "ep", job[t].at = "link",
           job' = [job EXCEPT ![t].at = "seek", ![t].new = FALSE]
    PROVE  /\ job' \in [Threads -> Jobs] /\ OthersStay(t) /\ SameJob(t) /\ SameHands(t)
           /\ job'[t].at = "seek"
<1>1. job \in [Threads -> Jobs] /\ [job[t] EXCEPT !.at = "seek", !.new = FALSE] \in Jobs
  BY DEF Types, TypeOK, Jobs, Places
<1>2. /\ job' \in [Threads -> Jobs] /\ OthersStay(t)
      /\ job'[t] = [job[t] EXCEPT !.at = "seek", !.new = FALSE]
  BY <1>1, Took DEF Types
<1>3. QED
  BY <1>1, <1>2 DEF SameJob, SameHands, Jobs

LEMMA LinkEPTypes == ASSUME Types, NEW t \in Threads, LinkEP(t) PROVE Types' /\ Moves(t)
<1>1. /\ job[t].at = "link" /\ job[t].kind = "ep" /\ job[t] \in Jobs
      /\ Is(job[t].ptr, "ep", job[t].id) /\ Is(job[t].node, "node", job[t].info)
  BY HandOf DEF LinkEP, At, Hand, EPHand
<1>2. RowsOK' /\ lost' \in BOOLEAN /\ UNCHANGED <<subject, control, list>> /\ events' \in 0..MaxEvents
  BY GatewayBounds DEF LinkEP, store, Types, TypeOK, RowsOK, Event
<1>3. history' \in Histories
  <2>1. history' = history \/ Orphan(t)
    BY DEF LinkEP
  <2>2. QED
    BY <1>1, <2>1, OrphanTypes DEF Types, TypeOK
<1>4. obj' \in Seq(Objects) /\ ObjGrows /\ (\A p \in DOMAIN obj' : ObjOK(p)')
  <2>1. CASE UNCHANGED obj
    BY <2>1, MemoryStays
  <2>2. CASE obj' = [obj EXCEPT ![job[t].ptr].node = job[t].node,
                                ![job[t].node].eps = Append(@, job[t].ptr)]
    BY <1>1, <2>2, Joined DEF Is
  <2>3. QED
    BY <2>1, <2>2 DEF LinkEP
<1>5. CASE End(t)
  BY <1>2, <1>3, <1>4, <1>5, Ended, ListsStay, TypesKept DEF Types
<1>6. CASE job' = [job EXCEPT ![t].at = "seek", ![t].new = FALSE]
  <2>1. /\ job' \in [Threads -> Jobs] /\ OthersStay(t) /\ SameJob(t) /\ SameHands(t)
        /\ job'[t].at = "seek"
    BY <1>1, <1>6, Retried
  <2>2. Hand(job[t])'
    BY <1>1, <1>4, <2>1, HandOf, IsStays DEF Hand, EPHand, SameJob, SameHands, Plain
  <2>3. QED
    BY <1>2, <1>3, <1>4, <2>1, <2>2, ListsStay, TypesKept
<1>7. QED
  BY <1>5, <1>6 DEF LinkEP

LEMMA UnlinkEPTypes == ASSUME Types, NEW t \in Threads, UnlinkEP(t) PROVE Types' /\ Moves(t)
<1>1. /\ job[t].at = "unlink" /\ job[t].kind = "ep" /\ job[t].id \in Ids("ep") /\ job[t] \in Jobs
      /\ Is(job[t].ep, "ep", job[t].id) /\ job[t].back = "idle" /\ Is(job[t].node, "node", job[t].info)
  BY HandOf DEF UnlinkEP, At, Hand, EPHand
<1>2. /\ RowsOK' /\ events' \in 0..MaxEvents /\ lost' \in BOOLEAN
      /\ UNCHANGED <<subject, control, list, history>>
  BY ObjStepKeeps DEF UnlinkEP
<1>3. history' \in Histories
  BY <1>2 DEF Types, TypeOK
<1>4. CASE UNCHANGED obj /\ End(t)
  BY <1>2, <1>3, <1>4, Ended, MemoryStays, ListsStay, TypesKept DEF Types
<1>5. CASE obj' = Unlinked(job[t].ep, job[t].node) /\ Goto(t, "dropEP")
  <2>1. obj' \in Seq(Objects) /\ ObjGrows /\ \A p \in DOMAIN obj' : ObjOK(p)'
    BY <1>1, <1>5, Parted DEF Is
  <2>2. /\ job' \in [Threads -> Jobs] /\ OthersStay(t) /\ SameJob(t) /\ SameHands(t)
        /\ job'[t].at = "dropEP"
    BY <1>5, Went DEF Types, Places
  <2>3. Hand(job[t])'
    BY <1>1, <2>1, <2>2, IsStays DEF Hand, EPHand, SameJob, SameHands, Plain
  <2>4. QED
    BY <1>2, <1>3, <2>1, <2>2, <2>3, ListsStay, TypesKept
<1>6. QED
  BY <1>4, <1>5 DEF UnlinkEP

LEMMA UnhookEPTypes == ASSUME Types, NEW t \in Threads, UnhookEP(t) PROVE Types' /\ Moves(t)
<1>1. /\ job[t].at = "unhook" /\ job[t].kind = "ep" /\ job[t].id \in Ids("ep") /\ job[t] \in Jobs
      /\ Is(job[t].ep, "ep", job[t].id) /\ job[t].back = "idle"
  BY HandOf DEF UnhookEP, At, Hand, EPHand
<1>2. /\ RowsOK' /\ events' \in 0..MaxEvents /\ lost' \in BOOLEAN
      /\ UNCHANGED <<subject, control, list, history>>
  BY ObjStepKeeps DEF UnhookEP
<1>3. history' \in Histories
  BY <1>2 DEF Types, TypeOK
<1>4. obj' \in Seq(Objects) /\ ObjGrows /\ \A p \in DOMAIN obj' : ObjOK(p)'
  <2>1. CASE obj' = obj
    BY <2>1, MemoryStays
  <2>2. CASE obj[job[t].ep].node # 0 /\ obj' = Unlinked(job[t].ep, obj[job[t].ep].node)
    <3>1. obj[job[t].ep].node \in DOMAIN obj /\ obj[obj[job[t].ep].node].kind = "node"
      BY <1>1, <2>2 DEF Types, ObjOK, Is
    <3>2. QED
      BY <1>1, <2>2, <3>1, Parted DEF Is
  <2>3. QED
    BY <2>1, <2>2 DEF UnhookEP
<1>5. /\ job' \in [Threads -> Jobs] /\ OthersStay(t) /\ SameJob(t) /\ SameHands(t)
      /\ job'[t].at = "dropEP"
  BY Went DEF UnhookEP, Types, Places
<1>6. Hand(job[t])'
  BY <1>1, <1>4, <1>5, IsStays DEF Hand, EPHand, SameJob, SameHands, Plain
<1>7. QED
  BY <1>2, <1>3, <1>4, <1>5, <1>6, ListsStay, TypesKept

\* Whoever destroys an endpoint has it in hand.
LEMMA Destroying ==
    ASSUME Types, NEW t \in Threads, job[t].at \in {"dropEP", "delistEP"}
    PROVE  /\ job[t].ep \in DOMAIN obj /\ obj[job[t].ep].kind = "ep" /\ obj[job[t].ep].id \in Ids("ep")
           /\ job[t].ep # 0
           /\ \/ /\ job[t].kind = "node" /\ Is(job[t].ptr, "node", job[t].id)
                 /\ job[t].back \in {"empty", "purge"}
              \/ job[t].kind = "ep" /\ Is(job[t].ep, "ep", job[t].id) /\ job[t].back = "idle"
<1>1. Hand(job[t]) /\ job[t].kind \in Kinds
  BY HandOf
<1>2. job[t].kind \in {"node", "ep"}
  BY <1>1 DEF Hand, PlainHand, Plain, Kinds
<1>3. job[t].ep \in DOMAIN obj /\ obj[job[t].ep].kind = "ep"
  BY <1>1, <1>2 DEF Hand, NodeHand, EPHand, Is
<1>4. obj[job[t].ep].id \in Ids("ep") /\ job[t].ep # 0
  BY <1>3, ObjFacts DEF Types, ObjOK
<1>5. QED
  BY <1>1, <1>2, <1>3, <1>4 DEF Hand, NodeHand, EPHand

LEMMA DropEPTypes == ASSUME Types, NEW t \in Threads, DropEP(t) PROVE Types' /\ Moves(t)
<1>1. /\ job[t].at = "dropEP" /\ job[t].ep \in DOMAIN obj /\ obj[job[t].ep].id \in Ids("ep")
      /\ job[t].id \in Ids(job[t].kind)
  BY Destroying, HandOf DEF DropEP, At
<1>2. RowsOK' /\ history' \in Histories /\ events' \in 0..MaxEvents
  BY <1>1, Called, Sets DEF DropEP, Kinds
<1>3. /\ obj' \in Seq(Objects) /\ ObjGrows /\ (\A p \in DOMAIN obj' : ObjOK(p)') /\ ListsOK'
      /\ lost' \in BOOLEAN /\ UNCHANGED <<subject, control, obj, list>>
  BY DBStepKeeps DEF DropEP
<1>4. /\ job' \in [Threads -> Jobs] /\ OthersStay(t) /\ SameJob(t) /\ SameHands(t)
      /\ job'[t].at = "delistEP"
  BY Went DEF DropEP, Types, Places
<1>5. Hand(job[t])'
  BY <1>1, <1>3, <1>4, Destroying DEF Hand, NodeHand, EPHand, SameJob, SameHands, Plain, Is
<1>6. QED
  BY <1>2, <1>3, <1>4, <1>5, TypesKept

LEMMA DelistEPTypes == ASSUME Types, NEW t \in Threads, DelistEP(t) PROVE Types' /\ Moves(t)
<1>1. /\ job[t].at = "delistEP" /\ job[t].ep \in DOMAIN obj /\ job[t].id \in Ids(job[t].kind)
      /\ job[t] \in Jobs
  BY Destroying, HandOf DEF DelistEP, At
<1>2. RowsOK' /\ events' \in 0..MaxEvents /\ lost' \in BOOLEAN /\ UNCHANGED <<subject, control, history>>
  BY ObjStepKeeps DEF DelistEP
<1>3. obj' \in Seq(Objects) /\ ObjGrows /\ \A p \in DOMAIN obj' : ObjOK(p)'
  BY <1>1, Freed DEF DelistEP, Unlist
<1>4. ListsOK' /\ history' \in Histories
  BY <1>2, <1>3, Unlisted DEF DelistEP, Unlist, Kinds, Types, TypeOK
<1>5. CASE End(t)
  BY <1>2, <1>3, <1>4, <1>5, Ended, TypesKept DEF Types
<1>6. CASE job[t].back # "idle" /\ job' = [job EXCEPT ![t].at = job[t].back, ![t].ep = 0]
  <2>1. job[t].kind = "node" /\ Is(job[t].ptr, "node", job[t].id) /\ job[t].back \in {"empty", "purge"}
    BY <1>1, <1>6, Destroying
  <2>2. [job[t] EXCEPT !.at = job[t].back, !.ep = 0] \in Jobs
    BY <1>1, <2>1 DEF Jobs, Places
  <2>3. job' = [job EXCEPT ![t] = [job[t] EXCEPT !.at = job[t].back, !.ep = 0]]
    BY <1>6 DEF Types, TypeOK
  <2>4. /\ job' \in [Threads -> Jobs] /\ OthersStay(t)
        /\ job'[t] = [job[t] EXCEPT !.at = job[t].back, !.ep = 0]
    BY <2>2, <2>3, Took DEF Types
  <2>5. SameJob(t) /\ job'[t].at = job[t].back /\ job'[t].ep = 0 /\ job'[t].ptr = job[t].ptr
    BY <1>1, <2>4 DEF SameJob, Jobs
  <2>6. Hand(job[t])'
    BY <1>1, <1>3, <2>1, <2>5, IsStays DEF Hand, NodeHand, SameJob, Plain
  <2>7. QED
    BY <1>2, <1>3, <1>4, <2>1, <2>4, <2>5, <2>6, TypesKept
<1>7. QED
  BY <1>5, <1>6 DEF DelistEP

LEMMA SaveEPTypes == ASSUME Types, NEW t \in Threads, SaveEP(t) PROVE Types' /\ Moves(t)
<1>1. /\ job[t].at = "save" /\ job[t].kind = "ep" /\ job[t].id \in Ids("ep") /\ job[t].info \in Contents
      /\ job[t].ep = 0 /\ Is(job[t].ptr, "ep", job[t].id) /\ job[t].back = "idle"
  BY HandOf DEF SaveEP, At, Hand, EPHand, Jobs
<1>2. RowsOK' /\ history' \in Histories /\ events' \in 0..MaxEvents
  BY <1>1, Called DEF SaveEP, Kinds
<1>3. /\ obj' \in Seq(Objects) /\ ObjGrows /\ (\A p \in DOMAIN obj' : ObjOK(p)') /\ ListsOK'
      /\ lost' \in BOOLEAN /\ UNCHANGED <<subject, control, obj, list>>
  BY DBStepKeeps DEF SaveEP
<1>4. /\ job' \in [Threads -> Jobs] /\ OthersStay(t) /\ SameJob(t) /\ SameHands(t)
      /\ job'[t].at = "write"
  BY Went DEF SaveEP, Types, Places
<1>5. Hand(job[t])'
  BY <1>1, <1>3, <1>4 DEF Hand, EPHand, SameJob, SameHands, Plain, Is
<1>6. QED
  BY <1>2, <1>3, <1>4, <1>5, TypesKept

LEMMA WriteEPTypes == ASSUME Types, NEW t \in Threads, WriteEP(t) PROVE Types' /\ Moves(t)
<1>1. /\ job[t].at = "write" /\ job[t].kind = "ep" /\ job[t].id \in Ids("ep") /\ job[t].info \in Contents
      /\ job[t].ep = 0 /\ Is(job[t].ptr, "ep", job[t].id) /\ job[t].back = "idle"
  BY HandOf DEF WriteEP, At, Hand, EPHand, Jobs
<1>2. RowsOK' /\ events' \in 0..MaxEvents /\ lost' \in BOOLEAN /\ UNCHANGED <<subject, control, list>>
  BY ObjStepKeeps DEF WriteEP
<1>3. obj' \in Seq(Objects) /\ ObjGrows /\ (\A p \in DOMAIN obj' : ObjOK(p)')
  BY <1>1, Rewritten DEF WriteEP, Is
<1>4. history' \in Histories
  <2>1. job[t].id \in Identifiers
    BY <1>1, Sets DEF Kinds
  <2>2. (IF obj[job[t].ptr].info = job[t].info THEN {} ELSE {job[t].id}) \in SUBSET Identifiers
    BY <2>1
  <2>3. QED
    BY <2>2, HistoryFacts DEF WriteEP, Types, TypeOK
<1>5. CASE End(t)
  BY <1>2, <1>3, <1>4, <1>5, Ended, ListsStay, TypesKept DEF Types
<1>6. CASE Goto(t, "seek")
  <2>1. /\ job' \in [Threads -> Jobs] /\ OthersStay(t) /\ SameJob(t) /\ SameHands(t)
        /\ job'[t].at = "seek"
    BY <1>6, Went DEF Types, Places
  <2>2. Hand(job[t])'
    BY <1>1, <1>3, <2>1, IsStays DEF Hand, EPHand, SameJob, SameHands, Plain
  <2>3. QED
    BY <1>2, <1>3, <1>4, <2>1, <2>2, ListsStay, TypesKept
<1>7. QED
  BY <1>5, <1>6 DEF WriteEP

LEMMA AppendPlainTypes == ASSUME Types, NEW t \in Threads, NEW k \in Plain, AppendPlain(t, k) PROVE Types' /\ Moves(t)
<1>1. /\ job[t].at = "append" /\ job[t].kind = k /\ job[t].id \in Ids(k) /\ job[t] \in Jobs
      /\ job[t].ep = 0 /\ k \in Kinds
  BY HandOf, Sets DEF AppendPlain, At, Hand, PlainHand
<1>2. RowsOK' /\ events' \in 0..MaxEvents /\ lost' \in BOOLEAN /\ UNCHANGED <<subject, control, history>>
  BY ObjStepKeeps DEF AppendPlain
<1>3. history' \in Histories
  BY <1>2 DEF Types, TypeOK
<1>4. /\ obj' \in Seq(Objects) /\ ObjGrows /\ (\A p \in DOMAIN obj' : ObjOK(p)')
      /\ Len(obj) + 1 \in DOMAIN obj' /\ obj'[Len(obj) + 1] = Fresh(job[t]) /\ Len(obj) + 1 \in Nat
      /\ Fresh(job[t]).kind = k /\ Fresh(job[t]).id = job[t].id
  BY <1>1, MadeFrom DEF AppendPlain
<1>5. ListsOK'
  BY <1>1, <1>4, Enlisted DEF AppendPlain
<1>6. CASE End(t)
  BY <1>2, <1>3, <1>4, <1>5, <1>6, Ended, TypesKept DEF Types
<1>7. CASE job' = [job EXCEPT ![t].ptr = Len(obj) + 1, ![t].at = "add"]
  <2>1. [job[t] EXCEPT !.ptr = Len(obj) + 1, !.at = "add"] \in Jobs
    BY <1>1, <1>4 DEF Jobs, Places
  <2>2. job' = [job EXCEPT ![t] = [job[t] EXCEPT !.ptr = Len(obj) + 1, !.at = "add"]]
    BY <1>7 DEF Types, TypeOK
  <2>3. /\ job' \in [Threads -> Jobs] /\ OthersStay(t)
        /\ job'[t] = [job[t] EXCEPT !.ptr = Len(obj) + 1, !.at = "add"]
    BY <2>1, <2>2, Took DEF Types
  <2>4. SameJob(t) /\ job'[t].at = "add" /\ job'[t].ptr = Len(obj) + 1 /\ job'[t].ep = 0
    BY <1>1, <2>3 DEF SameJob, Jobs
  <2>5. Hand(job[t])'
    BY <1>1, <1>4, <2>4 DEF Hand, PlainHand, SameJob, Plain, Is
  <2>6. QED
    BY <1>2, <1>3, <1>4, <1>5, <2>3, <2>4, <2>5, TypesKept
<1>8. QED
  BY <1>6, <1>7 DEF AppendPlain

LEMMA AddPlainTypes == ASSUME Types, NEW t \in Threads, NEW k \in Plain, AddPlain(t, k) PROVE Types' /\ Moves(t)
<1>1. job[t].kind = k /\ job[t].id \in Ids(k) /\ job[t].info \in Contents /\ k \in Kinds
  BY HandOf, Sets DEF AddPlain, At, Jobs
<1>2. RowsOK' /\ history' \in Histories /\ events' \in 0..MaxEvents
  BY <1>1, Called DEF AddPlain
<1>3. /\ obj' \in Seq(Objects) /\ ObjGrows /\ (\A p \in DOMAIN obj' : ObjOK(p)') /\ ListsOK'
      /\ lost' \in BOOLEAN /\ UNCHANGED <<subject, control>>
  BY DBStepKeeps DEF AddPlain
<1>4. QED
  BY <1>2, <1>3, Ended, TypesKept DEF AddPlain, Types

LEMMA DropPlainTypes == ASSUME Types, NEW t \in Threads, NEW k \in Plain, DropPlain(t, k) PROVE Types' /\ Moves(t)
<1>1. /\ job[t].at = "drop" /\ job[t].kind = k /\ job[t].id \in Ids(k)
      /\ k \in Kinds /\ job[t].ep = 0 /\ Is(job[t].ptr, k, job[t].id)
  BY HandOf, Sets DEF DropPlain, At, Hand, PlainHand
<1>2. RowsOK' /\ history' \in Histories /\ events' \in 0..MaxEvents
  BY <1>1, Called, Sets DEF DropPlain
<1>3. /\ obj' \in Seq(Objects) /\ ObjGrows /\ (\A p \in DOMAIN obj' : ObjOK(p)') /\ ListsOK'
      /\ lost' \in BOOLEAN /\ UNCHANGED <<subject, control, obj>>
  BY DBStepKeeps DEF DropPlain
<1>4. /\ job' \in [Threads -> Jobs] /\ OthersStay(t) /\ SameJob(t) /\ SameHands(t)
      /\ job'[t].at = "delist"
  BY Went DEF DropPlain, Types, Places
<1>5. Hand(job[t])'
  BY <1>1, <1>3, <1>4 DEF Hand, PlainHand, SameJob, SameHands, Plain, Is
<1>6. QED
  BY <1>2, <1>3, <1>4, <1>5, TypesKept

LEMMA DelistPlainTypes == ASSUME Types, NEW t \in Threads, NEW k \in Plain, DelistPlain(t, k) PROVE Types' /\ Moves(t)
<1>1. job[t].at = "delist" /\ job[t].kind = k /\ Is(job[t].ptr, k, job[t].id) /\ k \in Kinds
  BY HandOf, Sets DEF DelistPlain, At, Hand, PlainHand
<1>2. RowsOK' /\ events' \in 0..MaxEvents /\ lost' \in BOOLEAN /\ UNCHANGED <<subject, control, history>>
  BY ObjStepKeeps DEF DelistPlain
<1>3. obj' \in Seq(Objects) /\ ObjGrows /\ \A p \in DOMAIN obj' : ObjOK(p)'
  BY <1>1, Freed DEF DelistPlain, Unlist, Is
<1>4. ListsOK' /\ history' \in Histories
  BY <1>1, <1>2, <1>3, Unlisted DEF DelistPlain, Unlist, Types, TypeOK
<1>5. QED
  BY <1>2, <1>3, <1>4, Ended, TypesKept DEF DelistPlain, Types

LEMMA SavePlainTypes == ASSUME Types, NEW t \in Threads, NEW k \in Plain, SavePlain(t, k) PROVE Types' /\ Moves(t)
<1>1. /\ job[t].at = "save" /\ job[t].kind = k /\ job[t].id \in Ids(k) /\ job[t].info \in Contents
      /\ k \in Kinds /\ job[t].ep = 0 /\ Is(job[t].ptr, k, job[t].id)
  BY HandOf, Sets DEF SavePlain, At, Hand, PlainHand, Jobs
<1>2. RowsOK' /\ history' \in Histories /\ events' \in 0..MaxEvents
  BY <1>1, Called DEF SavePlain
<1>3. /\ obj' \in Seq(Objects) /\ ObjGrows /\ (\A p \in DOMAIN obj' : ObjOK(p)') /\ ListsOK'
      /\ lost' \in BOOLEAN /\ UNCHANGED <<subject, control, obj>>
  BY DBStepKeeps DEF SavePlain
<1>4. /\ job' \in [Threads -> Jobs] /\ OthersStay(t) /\ SameJob(t) /\ SameHands(t)
      /\ job'[t].at = "write"
  BY Went DEF SavePlain, Types, Places
<1>5. Hand(job[t])'
  BY <1>1, <1>3, <1>4 DEF Hand, PlainHand, SameJob, SameHands, Plain, Is
<1>6. QED
  BY <1>2, <1>3, <1>4, <1>5, TypesKept

LEMMA WritePlainTypes == ASSUME Types, NEW t \in Threads, NEW k \in Plain, WritePlain(t, k) PROVE Types' /\ Moves(t)
<1>1. job[t].at = "write" /\ job[t].kind = k /\ Is(job[t].ptr, k, job[t].id) /\ job[t].info \in Contents
  BY HandOf DEF WritePlain, At, Hand, PlainHand, Jobs
<1>2. /\ RowsOK' /\ events' \in 0..MaxEvents /\ lost' \in BOOLEAN
      /\ UNCHANGED <<subject, control, list, history>>
  BY ObjStepKeeps DEF WritePlain
<1>3. obj' \in Seq(Objects) /\ ObjGrows /\ (\A p \in DOMAIN obj' : ObjOK(p)') /\ history' \in Histories
  BY <1>1, <1>2, Rewritten DEF WritePlain, Is, Types, TypeOK
<1>4. QED
  BY <1>2, <1>3, Ended, ListsStay, TypesKept DEF WritePlain, Types

\* The steps of the three plain kinds are one.
PlainStep(t, k) ==
    \/ AppendPlain(t, k) \/ AddPlain(t, k) \/ DropPlain(t, k) \/ DelistPlain(t, k)
    \/ SavePlain(t, k) \/ WritePlain(t, k)

LEMMA PlainSteps ==
    ASSUME NEW t, TriggerStep(t) \/ ActionStep(t) \/ RuleStep(t)
    PROVE  \E k \in Plain : PlainStep(t, k)
  BY DEF TriggerStep, ActionStep, RuleStep, PlainStep, Plain,
         AppendTrigger, AddTrigger, DropTrigger, DelistTrigger, SaveTrigger, WriteTrigger,
         AppendAction, AddAction, DropAction, DelistAction, SaveAction, WriteAction,
         AppendRule, AddRule, DropRule, DelistRule, SaveRule, WriteRule

LEMMA UseFreedTypes == ASSUME Types, NEW t, UseFreed(t) PROVE Types' /\ Moves(t)
<1>1. UNCHANGED <<subject, row, obj, list, control, job, events, history>> /\ lost' \in BOOLEAN
  BY DEF UseFreed, store, memory
<1>2. RowsOK' /\ events' \in 0..MaxEvents /\ history' \in Histories /\ job' \in [Threads -> Jobs]
  BY <1>1 DEF Types, TypeOK, RowsOK
<1>3. obj' \in Seq(Objects) /\ ObjGrows /\ (\A p \in DOMAIN obj' : ObjOK(p)') /\ ListsOK'
  BY <1>1, MemoryStays, ListsStay
<1>4. /\ OthersStay(t)
      /\ t \in Threads => job'[t] = Idle \/ (job'[t].at # "idle" /\ Hand(job[t])')
  <2>1. OthersStay(t)
    BY <1>1 DEF OthersStay
  <2>2. ASSUME t \in Threads PROVE job[t] = Idle \/ (job[t].at # "idle" /\ Hand(job[t]))
    BY <2>2 DEF Types, Hands
  <2>3. Hand(job[t]) => Hand(job[t])'
    BY <1>1 DEF Hand, NodeHand, EPHand, PlainHand, Is
  <2>4. QED
    BY <1>1, <2>1, <2>2, <2>3
<1>5. QED
  BY <1>1, <1>2, <1>3, <1>4, TypesKept

LEMMA CreationFailsTypes == ASSUME Types, NEW t \in Threads, CreationFails(t) PROVE Types' /\ Moves(t)
<1>1. job[t].at # "idle" /\ job[t] \in Jobs /\ Hand(job[t]) /\ Key(job[t]) \in Keys
  BY HandOf, Sets DEF CreationFails, At, Key, Keys, Jobs
<1>2. RowsOK' /\ lost' \in BOOLEAN /\ UNCHANGED <<subject, control, obj, list>> /\ events' \in 0..MaxEvents
  BY GatewayBounds DEF CreationFails, store, memory, Types, TypeOK, RowsOK, Event
<1>3. obj' \in Seq(Objects) /\ ObjGrows /\ (\A p \in DOMAIN obj' : ObjOK(p)') /\ ListsOK'
  BY <1>2, MemoryStays, ListsStay
<1>4. history' \in Histories
  BY <1>1, HistoryFacts DEF CreationFails, Types, TypeOK
<1>5. CASE At(t, "node", "append") /\ Goto(t, "start")
  <2>1. /\ job' \in [Threads -> Jobs] /\ OthersStay(t) /\ SameJob(t) /\ SameHands(t)
        /\ job'[t].at = "start"
    BY <1>5, Went DEF Types, Places
  <2>2. Hand(job[t])'
    BY <1>1, <1>3, <1>5, <2>1, IsStays DEF At, Hand, NodeHand, SameJob, SameHands, Plain
  <2>3. QED
    BY <1>2, <1>3, <1>4, <2>1, <2>2, TypesKept
<1>6. QED
  BY <1>2, <1>3, <1>4, <1>5, Ended, TypesKept DEF CreationFails, Types

LEMMA StepTypes == ASSUME Types, NEW t \in Threads, Step(t) PROVE Types' /\ Moves(t)
<1>1. CASE NodeStep(t)
  BY <1>1, LookNodeTypes, AddNodeTypes, AppendNodeTypes, StartNodeTypes, EmptyNodeTypes, DropNodeTypes,
     PurgeNodeTypes, DelistNodeTypes, WriteNodeTypes, SaveNodeTypes DEF NodeStep
<1>2. CASE EPStep(t)
  BY <1>2, LookEPTypes, AppendEPTypes, AddEPTypes, SeekNodeTypes, LinkEPTypes, UnlinkEPTypes,
     UnhookEPTypes, DropEPTypes, DelistEPTypes, SaveEPTypes, WriteEPTypes DEF EPStep
<1>3. CASE \E k \in Plain : PlainStep(t, k)
  BY <1>3, AppendPlainTypes, AddPlainTypes, DropPlainTypes, DelistPlainTypes, SavePlainTypes,
     WritePlainTypes DEF PlainStep
<1>4. CASE CreationFails(t) \/ UseFreed(t)
  BY <1>4, CreationFailsTypes, UseFreedTypes
<1>5. QED
  BY <1>1, <1>2, <1>3, <1>4, PlainSteps DEF Step

-------------------------------------------------------------------------------
(* The types, request by request.                                             *)

\* A job is taken up.
LEMMA TakenTypes ==
    ASSUME Types, NEW t \in Threads, NEW j \in Jobs, NEW h \in Histories,
           j = Idle \/ (j.at # "idle" /\ Hand(j)), Take(t, j, h), ObjGrows
    PROVE  /\ job' \in [Threads -> Jobs] /\ OthersStay(t) /\ history' \in Histories
           /\ job'[t] = j /\ (job'[t] = Idle \/ (job'[t].at # "idle" /\ Hand(job[t])'))
<1>1. job' \in [Threads -> Jobs] /\ OthersStay(t) /\ job'[t] = j
  BY Took DEF Take, Types
<1>2. j.ep # 0 => j.ep \in DOMAIN obj /\ obj[j.ep].kind = "ep"
  <2>1. Idle.ep = 0
    BY DEF Idle
  <2>2. j.kind \in Kinds
    BY DEF Jobs
  <2>3. ASSUME Hand(j), j.ep # 0 PROVE j.ep \in DOMAIN obj /\ obj[j.ep].kind = "ep"
    BY <2>2, <2>3, Sets DEF Hand, NodeHand, EPHand, PlainHand, Is, Linked, Kinds
  <2>4. QED
    BY <2>1, <2>3
<1>3. history' \in Histories
  BY <1>2, RaceNoted DEF Take
<1>4. ASSUME j.at # "idle", Hand(j) PROVE Hand(job[t])'
  <2>1. \A p, k, id : Is(p, k, id) => Is(p, k, id)'
    BY DEF Is, ObjGrows
  <2>2. \A e \in DOMAIN obj : e \in DOMAIN obj' /\ obj'[e].kind = obj[e].kind
    BY DEF ObjGrows
  <2>3. QED
    BY <1>1, <1>4, <2>1, <2>2 DEF Hand, NodeHand, EPHand, PlainHand
<1>5. QED
  BY <1>1, <1>3, <1>4

LEMMA BegunTypes ==
    ASSUME Types, NEW c \in Consoles, NEW j \in Jobs, NEW h \in Histories,
           j = Idle \/ (j.at # "idle" /\ Hand(j)), Begin(c, j, h), ReqStep, UNCHANGED list,
           obj' \in Seq(Objects), ObjGrows, \A p \in DOMAIN obj' : ObjOK(p)'
    PROVE  Types' /\ Moves(c)
<1>1. c \in Threads
  BY DEF Threads
<1>2. /\ job' \in [Threads -> Jobs] /\ OthersStay(c) /\ history' \in Histories
      /\ job'[c] = Idle \/ (job'[c].at # "idle" /\ Hand(job[c])')
  BY <1>1, TakenTypes DEF Begin
<1>3. /\ UNCHANGED <<subject, control>> /\ RowsOK' /\ lost' \in BOOLEAN /\ events' \in 0..MaxEvents
  BY GatewayBounds DEF ReqStep, store, Begin, Event, Types, TypeOK, RowsOK
<1>4. QED
  BY <1>1, <1>2, <1>3, ListsStay, TypesKept

\* The jobs of the requests.
LEMMA IdleFields ==
    /\ Idle \in Jobs /\ Idle.at = "idle" /\ Idle.kind = "node" /\ Idle.ptr = 0 /\ Idle.node = 0
    /\ Idle.ep = 0 /\ Idle.back = "idle" /\ ~Idle.new /\ Idle.id = NoRow /\ Idle.info = NoRow
  BY Sets DEF Idle

LEMMA EarlyTypes ==
    ASSUME Types, NEW j \in Jobs
    PROVE  [history EXCEPT !.early = @ \cup IF state = "CONNECTED" THEN {Key(j)} ELSE {}] \in Histories
<1>1. Key(j) \in Keys
  BY DEF Jobs, Key, Keys
<1>2. (IF state = "CONNECTED" THEN {Key(j)} ELSE {}) \in SUBSET Keys
  BY <1>1
<1>3. QED
  BY <1>2, HistoryFacts DEF Types, TypeOK

LEMMA StoppedTypes == ASSUME Types, NEW id \in Nodes PROVE Stopped(id) \in Histories
<1>1. {id} \in SUBSET Identifiers
  BY DEF Identifiers
<1>2. QED
  BY <1>1, HistoryFacts DEF Stopped, Types, TypeOK

LEMMA HaltedTypes ==
    ASSUME Types, NEW p \in DOMAIN obj, obj' = Halted(p)
    PROVE  obj' \in Seq(Objects) /\ ObjGrows /\ \A q \in DOMAIN obj' : ObjOK(q)'
  BY Switched DEF Halted

LEMMA NodeCreateTypes == ASSUME Types, NEW c \in Consoles, NODE_create(c) PROVE Types' /\ Moves(c)
<1>1. PICK id \in Nodes :
        LET j == [Idle EXCEPT !.id = id, !.info = New]
        IN  \/ /\ Get("node", id) = {} /\ UNCHANGED obj
               /\ Create(c, [j EXCEPT !.at = "look", !.new = TRUE])
            \/ \E p \in Get("node", id) :
                 /\ Begin(c, [j EXCEPT !.at = "drop", !.ptr = p], Stopped(id))
                 /\ obj' = [obj EXCEPT ![p].run = FALSE]
  BY DEF NODE_create
<1> DEFINE j == [Idle EXCEPT !.id = id, !.info = New]
<1>2. UNCHANGED list /\ ReqStep
  BY DEF NODE_create
<1>3. CASE UNCHANGED obj /\ Create(c, [j EXCEPT !.at = "look", !.new = TRUE])
  <2> DEFINE J == [j EXCEPT !.at = "look", !.new = TRUE]
  <2>1. J \in Jobs /\ J.at # "idle" /\ Hand(J)
    BY IdleFields, Sets DEF Jobs, Hand, NodeHand, Plain, Places, Identifiers, Contents
  <2> HIDE DEF J
  <2>2. QED
    BY <1>2, <1>3, <2>1, EarlyTypes, BegunTypes, MemoryStays DEF Create, J
<1>4. ASSUME NEW p \in Get("node", id), Begin(c, [j EXCEPT !.at = "drop", !.ptr = p], Stopped(id)),
             obj' = [obj EXCEPT ![p].run = FALSE]
      PROVE  Types' /\ Moves(c)
  <2> DEFINE J == [j EXCEPT !.at = "drop", !.ptr = p]
  <2>1. Is(p, "node", id) /\ p \in Nat
    BY Found DEF Kinds
  <2>2. J \in Jobs /\ J.at # "idle" /\ Hand(J)
    BY <2>1, IdleFields, Sets DEF Jobs, Hand, NodeHand, Plain, Places, Identifiers, Contents
  <2> HIDE DEF J
  <2>3. obj' \in Seq(Objects) /\ ObjGrows /\ \A q \in DOMAIN obj' : ObjOK(q)'
    BY <1>4, <2>1, HaltedTypes DEF Is, Halted
  <2>4. QED
    BY <1>2, <1>4, <2>2, <2>3, StoppedTypes, BegunTypes DEF J
<1>5. QED
  BY <1>1, <1>3, <1>4

\* What a request about a node, an endpoint or a plain object goes on with.
NodeJob(place, id, p) == [Idle EXCEPT !.at = place, !.id = id, !.ptr = p, !.info = New]
PlainJob(place, k, id, p) ==
    [Idle EXCEPT !.at = place, !.kind = k, !.id = id, !.info = New, !.ptr = p]

LEMMA NodeJobTypes ==
    ASSUME Types, NEW id \in Nodes, NEW p \in Get("node", id), NEW place \in {"empty", "start", "write"}
    PROVE  NodeJob(place, id, p) \in Jobs /\ NodeJob(place, id, p).at # "idle" /\ Hand(NodeJob(place, id, p))
<1>1. Is(p, "node", id) /\ p \in Nat
  BY Found DEF Kinds
<1>2. QED
  BY <1>1, IdleFields, Sets DEF NodeJob, Jobs, Hand, NodeHand, Plain, Places, Identifiers, Contents

LEMMA OnNodeTypes ==
    ASSUME Types, NEW c \in Consoles, NODE_destroy(c) \/ NODE_run(c) \/ NODE_set(c)
    PROVE  Types' /\ Moves(c)
<1>1. CASE NODE_destroy(c)
  <2>1. PICK id, p : id \in Nodes /\ p \in Get("node", id) /\ Begin(c, NodeJob("empty", id, p), Stopped(id))
    BY <1>1 DEF NODE_destroy, OnNode, NodeJob
  <2>2. job'[c] = NodeJob("empty", id, p)
    BY <2>1, Took, NodeJobTypes DEF Begin, Take, Threads, Types
  <2>3. NodeJob("empty", id, p).ptr = p
    BY IdleFields DEF NodeJob, Jobs
  <2>4. obj' = Halted(p) /\ UNCHANGED list /\ ReqStep
    BY <1>1, <2>2, <2>3 DEF NODE_destroy, OnNode
  <2>5. p \in DOMAIN obj
    BY <2>1, Found DEF Kinds, Is
  <2>6. QED
    BY <2>1, <2>4, <2>5, NodeJobTypes, StoppedTypes, HaltedTypes, BegunTypes
<1>2. CASE NODE_run(c)
  <2>1. PICK id, p : id \in Nodes /\ p \in Get("node", id) /\ Begin(c, NodeJob("start", id, p), history)
    BY <1>2 DEF NODE_run, OnNode, NodeJob, Unmarked
  <2>2. UNCHANGED obj /\ UNCHANGED list /\ ReqStep /\ history \in Histories
    BY <1>2 DEF NODE_run, OnNode, Types, TypeOK
  <2>3. QED
    BY <2>1, <2>2, NodeJobTypes, MemoryStays, BegunTypes
<1>3. CASE NODE_set(c)
  <2>1. PICK id, p : id \in Nodes /\ p \in Get("node", id) /\ Begin(c, NodeJob("write", id, p), history)
    BY <1>3 DEF NODE_set, OnNode, NodeJob, Unmarked
  <2>2. UNCHANGED obj /\ UNCHANGED list /\ ReqStep /\ history \in Histories
    BY <1>3 DEF NODE_set, OnNode, Types, TypeOK
  <2>3. QED
    BY <2>1, <2>2, NodeJobTypes, MemoryStays, BegunTypes
<1>4. QED
  BY <1>1, <1>2, <1>3

LEMMA NodeStopTypes == ASSUME Types, NEW c \in Consoles, NODE_stop(c) PROVE Types' /\ Moves(c)
<1>1. PICK id, p : id \in Nodes /\ p \in Get("node", id) /\ Begin(c, Idle, Stopped(id)) /\ obj' = Halted(p)
  BY DEF NODE_stop
<1>2. UNCHANGED list /\ ReqStep /\ p \in DOMAIN obj
  BY <1>1, Found DEF NODE_stop, Kinds, Is
<1>3. QED
  BY <1>1, <1>2, IdleFields, StoppedTypes, HaltedTypes, BegunTypes

LEMMA EPCreateTypes == ASSUME Types, NEW c \in Consoles, EP_create(c) PROVE Types' /\ Moves(c)
<1>1. PICK id, did, n : /\ id \in Endpoints /\ did \in Nodes /\ n \in Get("node", did)
                       /\ Create(c, [Idle EXCEPT !.at = "look", !.kind = "ep", !.id = id,
                               !.info = did, !.node = n, !.new = TRUE])
  BY DEF EP_create
<1> DEFINE J == [Idle EXCEPT !.at = "look", !.kind = "ep", !.id = id,
                             !.info = did, !.node = n, !.new = TRUE]
<1>2. UNCHANGED <<obj, list>> /\ ReqStep
  BY DEF EP_create, memory
<1>3. Is(n, "node", did) /\ n \in Nat
  BY <1>1, Found DEF Kinds
<1>4. J \in Jobs /\ J.at # "idle" /\ Hand(J)
  BY <1>1, <1>3, IdleFields, Sets DEF Jobs, Hand, EPHand, Plain, Places, Kinds, Identifiers, Contents
<1> HIDE DEF J
<1>5. QED
  BY <1>1, <1>2, <1>4, EarlyTypes, BegunTypes, MemoryStays DEF Create, J

LEMMA EPDestroyTypes == ASSUME Types, NEW c \in Consoles, EP_destroy(c) PROVE Types' /\ Moves(c)
<1>1. PICK id, e : /\ id \in Endpoints /\ e \in Get("ep", id)
                  /\ LET j == [Idle EXCEPT !.kind = "ep", !.id = id, !.info = obj[e].info, !.ep = e]
                         found == Get("node", obj[e].info)
                     IN  \/ \E n \in found : Begin(c, [j EXCEPT !.at = "unlink", !.node = n], history)
                         \/ found = {} /\ Begin(c, [j EXCEPT !.at = "unhook"], history)
  BY DEF EP_destroy
<1> DEFINE j == [Idle EXCEPT !.kind = "ep", !.id = id, !.info = obj[e].info, !.ep = e]
<1>2. UNCHANGED <<obj, list>> /\ ReqStep /\ history \in Histories
  BY DEF EP_destroy, memory, Types, TypeOK
<1>3. Is(e, "ep", id) /\ e \in Nat /\ obj[e].info \in Contents
  <2>1. Is(e, "ep", id) /\ e \in Nat
    BY <1>1, Found DEF Kinds
  <2>2. obj[e] \in Objects
    BY <2>1, ObjFacts DEF Is, Types
  <2>3. QED
    BY <2>1, <2>2 DEF Objects
<1>4. ASSUME NEW n \in Get("node", obj[e].info), Begin(c, [j EXCEPT !.at = "unlink", !.node = n], history)
      PROVE  Types' /\ Moves(c)
  <2> DEFINE J == [j EXCEPT !.at = "unlink", !.node = n]
  <2>1. Is(n, "node", obj[e].info) /\ n \in Nat
    BY Found DEF Kinds
  <2>2. J \in Jobs /\ J.at # "idle" /\ Hand(J)
    BY <1>1, <1>3, <2>1, IdleFields, Sets DEF Jobs, Hand, EPHand, Plain, Places, Kinds, Identifiers
  <2> HIDE DEF J
  <2>3. QED
    BY <1>2, <1>4, <2>2, BegunTypes, MemoryStays DEF J
<1>5. CASE Begin(c, [j EXCEPT !.at = "unhook"], history)
  <2> DEFINE J == [j EXCEPT !.at = "unhook"]
  <2>1. J \in Jobs /\ J.at # "idle" /\ Hand(J)
    BY <1>1, <1>3, IdleFields, Sets DEF Jobs, Hand, EPHand, Plain, Places, Kinds, Identifiers
  <2> HIDE DEF J
  <2>2. QED
    BY <1>2, <1>5, <2>1, BegunTypes, MemoryStays DEF J
<1>6. QED
  BY <1>1, <1>4, <1>5

LEMMA EPSetTypes == ASSUME Types, NEW c \in Consoles, EP_set(c) PROVE Types' /\ Moves(c)
<1>1. PICK id, did, e : /\ id \in Endpoints /\ did \in Nodes /\ e \in Get("ep", id)
                       /\ Begin(c, [Idle EXCEPT !.at = "save", !.kind = "ep", !.id = id, !.info = did, !.ptr = e], history)
  BY DEF EP_set
<1> DEFINE J == [Idle EXCEPT !.at = "save", !.kind = "ep", !.id = id, !.info = did, !.ptr = e]
<1>2. UNCHANGED <<obj, list>> /\ ReqStep /\ history \in Histories
  BY DEF EP_set, memory, Types, TypeOK
<1>3. Is(e, "ep", id) /\ e \in Nat
  BY <1>1, Found DEF Kinds
<1>4. J \in Jobs /\ J.at # "idle" /\ Hand(J)
  BY <1>1, <1>3, IdleFields, Sets DEF Jobs, Hand, EPHand, Plain, Places, Kinds, Identifiers, Contents
<1> HIDE DEF J
<1>5. QED
  BY <1>1, <1>2, <1>4, BegunTypes, MemoryStays DEF J

LEMMA CreatePlainTypes ==
    ASSUME Types, NEW c \in Consoles, NEW k \in Plain, CreatePlain(c, k)
    PROVE  Types' /\ Moves(c)
<1>1. PICK id \in Others :
        Create(c, [Idle EXCEPT !.at = "append", !.kind = k, !.id = id, !.info = New, !.new = TRUE])
  BY DEF CreatePlain
<1> DEFINE J == [Idle EXCEPT !.at = "append", !.kind = k, !.id = id, !.info = New, !.new = TRUE]
<1>2. UNCHANGED <<obj, list>> /\ ReqStep
  BY DEF CreatePlain, memory
<1>3. J \in Jobs /\ J.at # "idle" /\ Hand(J)
  <2>1. /\ k \in Kinds /\ k # "node" /\ k # "ep" /\ Ids(k) = Others
        /\ id \in Identifiers /\ New \in Contents /\ "append" \in Places
    BY <1>1, Sets DEF Plain, Kinds, Identifiers, Contents, Places
  <2>2. /\ J \in Jobs /\ J.at = "append" /\ J.kind = k /\ J.id = id /\ J.ep = 0
    BY <2>1, IdleFields DEF Jobs
  <2>3. QED
    BY <1>1, <2>1, <2>2 DEF Hand, PlainHand
<1> HIDE DEF J
<1>4. QED
  BY <1>1, <1>2, <1>3, EarlyTypes, BegunTypes, MemoryStays DEF Create, J

LEMMA OnPlainTypes ==
    ASSUME Types, NEW c \in Consoles, NEW k \in Plain, NEW place \in {"drop", "save"}, OnPlain(c, k, place)
    PROVE  Types' /\ Moves(c)
<1>1. PICK id, p : id \in Others /\ p \in Get(k, id) /\ Begin(c, PlainJob(place, k, id, p), history)
  BY DEF OnPlain, PlainJob
<1>2. UNCHANGED <<obj, list>> /\ ReqStep /\ history \in Histories
  BY DEF OnPlain, memory, Types, TypeOK
<1>3. Is(p, k, id) /\ p \in Nat
  BY <1>1, Found, Sets
<1>4. PlainJob(place, k, id, p) \in Jobs /\ PlainJob(place, k, id, p).at # "idle" /\ Hand(PlainJob(place, k, id, p))
  <2>1. /\ k \in Kinds /\ k # "node" /\ k # "ep" /\ Ids(k) = Others
        /\ id \in Identifiers /\ New \in Contents /\ place \in Places
    BY <1>1, Sets DEF Plain, Kinds, Identifiers, Contents, Places
  <2>2. /\ PlainJob(place, k, id, p) \in Jobs /\ PlainJob(place, k, id, p).at = place
        /\ PlainJob(place, k, id, p).kind = k /\ PlainJob(place, k, id, p).id = id
        /\ PlainJob(place, k, id, p).ep = 0 /\ PlainJob(place, k, id, p).ptr = p
    BY <1>3, <2>1, IdleFields DEF PlainJob, Jobs
  <2>3. QED
    BY <1>1, <1>3, <2>1, <2>2 DEF Hand, PlainHand
<1>5. QED
  BY <1>1, <1>2, <1>4, BegunTypes, MemoryStays

LEMMA PlainRequests ==
    ASSUME NEW c, Request(c)
    PROVE  \/ NODE_create(c) \/ NODE_destroy(c) \/ NODE_run(c) \/ NODE_stop(c) \/ NODE_set(c)
           \/ EP_create(c) \/ EP_destroy(c) \/ EP_set(c)
           \/ \E k \in Plain : CreatePlain(c, k) \/ \E place \in {"drop", "save"} : OnPlain(c, k, place)
  BY DEF Request, Plain, TRIGGER_add, TRIGGER_del, TRIGGER_set, ACTION_add, ACTION_del, ACTION_set,
         RULE_add, RULE_del, RULE_set

LEMMA RequestTypes == ASSUME Types, NEW c \in Consoles, Request(c) PROVE Types' /\ Moves(c)
  BY PlainRequests, NodeCreateTypes, OnNodeTypes, NodeStopTypes, EPCreateTypes, EPDestroyTypes, EPSetTypes,
     CreatePlainTypes, OnPlainTypes

-------------------------------------------------------------------------------
(* The types, in the main thread.                                             *)

SyncOK == sync \in [phase : Nat \ {0}, count : Nat, todo : SUBSET Identifiers, next : {"count", "list", "load"}]
StateOK == state \in {"CONNECTED", "SYNCHRONIZED", "PROCESSING"}

LEMMA MainTypes ==
    ASSUME Types, MainStep, SyncOK', StateOK', TodoOK', events' \in 0..MaxEvents, history' \in Histories,
           job' \in [Threads -> Jobs], OthersStay(Main),
           job'[Main] = Idle \/ (job'[Main].at # "idle" /\ Hand(job[Main])')
    PROVE  Types' /\ Moves(Main)
<1>1. UNCHANGED <<subject, row, obj, list, lost>>
  BY DEF MainStep, store, memory
<1>2. obj' \in Seq(Objects) /\ ObjGrows /\ (\A p \in DOMAIN obj' : ObjOK(p)') /\ ListsOK'
  BY <1>1, MemoryStays, ListsStay
<1>3. Hands'
  BY <1>2, HandsStay DEF Types
<1>4. TypeOK'
  BY <1>1, <1>2 DEF Types, TypeOK, SyncOK, StateOK, ListsOK
<1>5. QED
  BY <1>2, <1>3, <1>4 DEF Types, Moves

\* The synchronisation does nothing to the jobs.
LEMMA IdleMainTypes ==
    ASSUME Types, MainStep, SyncOK', StateOK', TodoOK', events' \in 0..MaxEvents, history' \in Histories,
           UNCHANGED job
    PROVE  Types' /\ Moves(Main)
<1>1. /\ job' \in [Threads -> Jobs] /\ OthersStay(Main) /\ Main \in Threads
  BY Sets DEF Types, TypeOK, OthersStay
<1>2. job[Main] = Idle \/ (job[Main].at # "idle" /\ Hand(job[Main]))
  BY <1>1 DEF Types, Hands
<1>3. Hand(job[Main]) => Hand(job[Main])'
  BY DEF MainStep, memory, Hand, NodeHand, EPHand, PlainHand, Is
<1>4. QED
  BY <1>1, <1>2, <1>3, MainTypes

LEMMA RowFacts ==
    ASSUME Types, NEW k \in Kinds
    PROVE  /\ Rows(k) \subseteq Ids(k) /\ IsFiniteSet(Rows(k)) /\ Served(k) \subseteq Rows(k)
           /\ IsFiniteSet(Served(k)) /\ Named(k) \subseteq Rows(k) /\ Ids(k) \subseteq Identifiers
<1>1. Rows(k) \subseteq Ids(k) /\ IsFiniteSet(Ids(k)) /\ Ids(k) \subseteq Identifiers
  BY FiniteAssumption, Sets DEF Rows, Ids
<1>2. Served(k) \subseteq Rows(k) /\ Named(k) \subseteq Rows(k)
  BY DEF Served, Named
<1>3. QED
  BY <1>1, <1>2, FS_Subset

LEMMA LeaveOutTypes == ASSUME Types, NEW k, NEW S PROVE LeaveOut(k, S) \in Histories
<1>1. {<<k, id>> : id \in (IF k \in Kinds THEN Rows(k) ELSE {}) \ S} \in SUBSET Keys
  BY RowFacts DEF Keys
<1>2. QED
  BY <1>1, HistoryFacts DEF LeaveOut, Types, TypeOK

LEMMA NextKindTypes ==
    ASSUME Types
    PROVE  /\ {NextKind, Unsynced} \subseteq [phase : Nat \ {0}, count : Nat, todo : SUBSET Identifiers,
                                             next : {"count", "list", "load"}]
           /\ NextKind.phase = sync.phase + 1 /\ NextKind.next = "count"
           /\ Unsynced.next = "count" /\ Unsynced.phase = 1
  BY DEF NextKind, Unsynced, Types, TypeOK

LEMMA CountTypes == ASSUME Types, NEW k, Count(k) PROVE Types' /\ Moves(Main)
<1>1. UNCHANGED <<state, job>> /\ MainStep
  BY DEF Count
<1>2. StateOK'
  BY <1>1 DEF StateOK, Types, TypeOK
<1>3. history' \in Histories /\ events' \in 0..MaxEvents
  BY LeaveOutTypes, HistoryFacts, GatewayBounds DEF Count, Event, Types, TypeOK
<1>4. CASE sync' \in {NextKind, Unsynced}
  <2>1. SyncOK' /\ TodoOK'
    BY <1>4, NextKindTypes DEF SyncOK, TodoOK
  <2>2. QED
    BY <1>1, <1>2, <1>3, <2>1, IdleMainTypes
<1>5. CASE Served(k) # {} /\ sync' = [sync EXCEPT !.count = Cardinality(Served(k)), !.next = "list"]
  <2>1. k \in Kinds
    BY <1>5 DEF Served
  <2>2. Cardinality(Served(k)) \in Nat
    BY <2>1, RowFacts, FS_CardinalityType
  <2>3. SyncOK' /\ TodoOK'
    BY <1>5, <2>2 DEF SyncOK, TodoOK, Types, TypeOK
  <2>4. QED
    BY <1>1, <1>2, <1>3, <2>3, IdleMainTypes
<1>6. QED
  BY <1>4, <1>5 DEF Count

LEMMA ListTypes == ASSUME Types, NEW k \in Kinds, List(k) PROVE Types' /\ Moves(Main)
<1>1. UNCHANGED <<state, job>> /\ MainStep /\ Order[sync.phase] = k
  BY DEF List, Syncing
<1>2. StateOK'
  BY <1>1 DEF StateOK, Types, TypeOK
<1>3. history' \in Histories /\ events' \in 0..MaxEvents
  <2>1. \E S : history' = LeaveOut(k, S)
    BY DEF List
  <2>2. history' \in Histories
    BY <2>1, LeaveOutTypes
  <2>3. UNCHANGED events \/ Event
    BY DEF List
  <2>4. QED
    BY <2>2, <2>3, GatewayBounds DEF Event, Types, TypeOK
<1>4. CASE sync' = NextKind
  <2>1. SyncOK' /\ TodoOK'
    BY <1>4, NextKindTypes DEF SyncOK, TodoOK
  <2>2. QED
    BY <1>1, <1>2, <1>3, <2>1, IdleMainTypes
<1>5. ASSUME NEW S \in SUBSET Named(k), sync' = [sync EXCEPT !.todo = S, !.next = "load"] PROVE Types' /\ Moves(Main)
  <2>1. S \subseteq Ids(k) /\ S \subseteq Identifiers
    BY RowFacts
  <2>2. SyncOK' /\ sync'.phase = sync.phase /\ sync'.todo = S
    BY <1>5, <2>1 DEF SyncOK, Types, TypeOK
  <2>3. TodoOK'
    BY <1>1, <2>1, <2>2 DEF TodoOK
  <2>4. QED
    BY <1>1, <1>2, <1>3, <2>2, <2>3, IdleMainTypes
<1>6. QED
  BY <1>4, <1>5 DEF List

\* The job that an identifier gives.
LoadJob(k, place, id) == [Idle EXCEPT !.at = place, !.kind = k, !.id = id, !.info = row[k][id]]

LEMMA LoadJobTypes ==
    ASSUME Types, NEW k \in Kinds, NEW id \in Ids(k),
           NEW place, place = IF k \in Plain THEN "append" ELSE "look"
    PROVE  /\ LoadJob(k, place, id) \in Jobs /\ Hand(LoadJob(k, place, id))
           /\ LoadJob(k, place, id).at = place /\ place # "idle" /\ place \in {"look", "append"}
           /\ LoadJob(k, place, id).kind = k /\ LoadJob(k, place, id).id = id
           /\ LoadJob(k, place, id).info = row[k][id] /\ ~LoadJob(k, place, id).new
           /\ LoadJob(k, place, id).ep = 0 /\ LoadJob(k, place, id).back = "idle"
<1>1. /\ id \in Identifiers /\ row[k][id] \in Contents /\ place \in Places /\ place \in {"look", "append"}
  BY Sets DEF Types, TypeOK, Places
<1>2. /\ LoadJob(k, place, id) \in Jobs
      /\ LoadJob(k, place, id).at = place /\ place # "idle"
      /\ LoadJob(k, place, id).kind = k /\ LoadJob(k, place, id).id = id
      /\ LoadJob(k, place, id).info = row[k][id] /\ ~LoadJob(k, place, id).new
      /\ LoadJob(k, place, id).ep = 0 /\ LoadJob(k, place, id).back = "idle"
  BY <1>1, IdleFields DEF LoadJob, Jobs
<1>3. Hand(LoadJob(k, place, id))
  BY <1>2 DEF Hand, NodeHand, EPHand, PlainHand, Plain
<1>4. QED
  BY <1>1, <1>2, <1>3

LEMMA LoadTypes ==
    ASSUME Types, NEW k \in Kinds,
           NEW place, place = IF k \in Plain THEN "append" ELSE "look", Load(k, place)
    PROVE  Types' /\ Moves(Main)
<1>1. /\ UNCHANGED state /\ MainStep /\ Order[sync.phase] = k /\ sync.next = "load"
      /\ state = "CONNECTED"
  BY DEF Load, Syncing
<1>2. StateOK' /\ sync.todo \subseteq Ids(k) /\ sync.todo \subseteq Identifiers /\ history \in Histories
  BY <1>1 DEF StateOK, Types, TypeOK, TodoOK
<1>3. CASE sync' = NextKind /\ UNCHANGED <<job, events, history>>
  <2>1. SyncOK' /\ TodoOK'
    BY <1>3, NextKindTypes DEF SyncOK, TodoOK
  <2>2. QED
    BY <1>1, <1>2, <1>3, <2>1, IdleMainTypes DEF Types, TypeOK
<1>4. ASSUME NEW id \in sync.todo, sync' = [sync EXCEPT !.todo = @ \ {id}]
      PROVE  SyncOK' /\ TodoOK' /\ id \in Ids(k) /\ id \in Identifiers
  <2>1. SyncOK' /\ sync'.phase = sync.phase /\ sync'.todo = sync.todo \ {id}
    BY <1>2, <1>4 DEF SyncOK, Types, TypeOK
  <2>2. TodoOK'
    BY <1>1, <1>2, <2>1 DEF TodoOK, Types
  <2>3. QED
    BY <1>2, <2>1, <2>2
<1>5. ASSUME NEW id \in sync.todo, sync' = [sync EXCEPT !.todo = @ \ {id}], UNCHANGED events,
             Take(Main, LoadJob(k, place, id), history)
      PROVE  Types' /\ Moves(Main)
  <2>1. SyncOK' /\ TodoOK' /\ id \in Ids(k)
    BY <1>4, <1>5
  <2>2. ObjGrows /\ Main \in Threads
    BY <1>1, MemoryStays, Sets DEF MainStep, memory
  <2>3. /\ job' \in [Threads -> Jobs] /\ OthersStay(Main) /\ history' \in Histories
        /\ job'[Main].at # "idle" /\ Hand(job[Main])'
    BY <1>2, <1>5, <2>1, <2>2, LoadJobTypes, TakenTypes, IdleFields
  <2>4. QED
    BY <1>1, <1>2, <1>5, <2>1, <2>3, MainTypes DEF Types, TypeOK
<1>6. ASSUME NEW id \in sync.todo, sync' = [sync EXCEPT !.todo = @ \ {id}], UNCHANGED job,
             events' \in 0..MaxEvents, history' \in {history, [history EXCEPT !.failed = @ \cup {<<k, id>>}]}
      PROVE  Types' /\ Moves(Main)
  <2>1. SyncOK' /\ TodoOK' /\ <<k, id>> \in Keys
    BY <1>4, <1>6 DEF Keys
  <2>2. history' \in Histories
    BY <1>2, <1>6, <2>1, HistoryFacts
  <2>3. QED
    BY <1>1, <1>2, <1>6, <2>1, <2>2, IdleMainTypes
<1>7. UNCHANGED events \/ Event => events' \in 0..MaxEvents
  BY GatewayBounds DEF Event, Types, TypeOK
<1>8. QED
  BY <1>3, <1>5, <1>6, <1>7 DEF Load, LoadJob

\* The synchronisation takes one kind after the other.
SyncKind(k) == Count(k) \/ List(k) \/ Load(k, IF k \in Plain THEN "append" ELSE "look")

LEMMA SyncSteps ==
    ASSUME SyncNodes \/ SyncClasses \/ SyncEPs \/ SyncTriggers \/ SyncActions \/ SyncRules
    PROVE  Count("class") \/ \E k \in Kinds : SyncKind(k)
  BY DEF SyncNodes, SyncClasses, SyncEPs, SyncTriggers, SyncActions, SyncRules, SyncKind, Kinds, Plain

\* The job that the start of a node is.
StartJob(p) == [Idle EXCEPT !.at = "start", !.id = obj[p].id, !.ptr = p]

LEMMA StartJobTypes ==
    ASSUME Types, NEW i \in DOMAIN list["node"]
    PROVE  LET p == list["node"][i]
           IN  /\ p \in Listed("node") /\ Is(p, "node", obj[p].id) /\ obj[p].id \in Nodes
               /\ StartJob(p) \in Jobs /\ StartJob(p).at = "start" /\ Hand(StartJob(p))
               /\ StartJob(p).kind = "node" /\ StartJob(p).id = obj[p].id /\ StartJob(p).ptr = p
               /\ StartJob(p).ep = 0
<1> DEFINE p == list["node"][i]
<1>1. list["node"] \in Seq(Nat) /\ "node" \in Kinds
  BY DEF Types, ListsOK, Kinds
<1>2. p \in Listed("node") /\ p \in Nat
  BY <1>1, SeqFacts DEF Listed
<1>3. p \in DOMAIN obj /\ obj[p].kind = "node" /\ obj[p].id \in Nodes
  BY <1>1, <1>2, Sets DEF Types, ListsOK, ObjOK
<1>4. obj[p].id \in Identifiers
  BY <1>3 DEF Identifiers
<1> HIDE DEF p
<1>5. /\ StartJob(p) \in Jobs /\ StartJob(p).at = "start"
      /\ StartJob(p).kind = "node" /\ StartJob(p).id = obj[p].id /\ StartJob(p).ptr = p
      /\ StartJob(p).ep = 0
  BY <1>2, <1>4, IdleFields DEF StartJob, Jobs, Places
<1>6. Hand(StartJob(p))
  BY <1>3, <1>5, Sets DEF Hand, NodeHand, Plain, Is
<1>7. QED
  BY <1>2, <1>3, <1>5, <1>6 DEF Is, p

LEMMA StartTypes == ASSUME Types, StartNext PROVE Types' /\ Moves(Main)
<1>1. /\ state = "SYNCHRONIZED" /\ UNCHANGED events /\ MainStep
  BY DEF StartNext, StartFrom
<1>2. events' \in 0..MaxEvents /\ history \in Histories
  BY <1>1 DEF Types, TypeOK
<1>3. StateOK' /\ SyncOK' /\ TodoOK'
  BY <1>1, NextKindTypes DEF StartNext, StartFrom, StateOK, SyncOK, TodoOK, Types, TypeOK
<1>4. CASE UNCHANGED <<job, history>>
  BY <1>1, <1>2, <1>3, <1>4, IdleMainTypes
<1>5. CASE /\ 1 <= sync.phase /\ sync.phase <= Len(list["node"])
           /\ Take(Main, StartJob(list["node"][sync.phase]), history)
  <2>1. sync.phase \in DOMAIN list["node"]
    <3>1. list["node"] \in Seq(Nat) /\ sync.phase \in Nat
      BY DEF Types, TypeOK, Kinds
    <3>2. QED
      BY <1>5, <3>1, SeqFacts
  <2>2. ObjGrows /\ Main \in Threads
    BY <1>1, MemoryStays, Sets DEF MainStep, memory
  <2>3. /\ job' \in [Threads -> Jobs] /\ OthersStay(Main) /\ history' \in Histories
        /\ job'[Main].at # "idle" /\ Hand(job[Main])'
    BY <1>2, <1>5, <2>1, <2>2, StartJobTypes, TakenTypes, IdleFields
  <2>4. QED
    BY <1>1, <1>2, <1>3, <2>3, MainTypes
<1>6. QED
  BY <1>4, <1>5 DEF StartNext, StartFrom, StartJob

LEMMA SynchronizedTypes == ASSUME Types, Synchronized PROVE Types' /\ Moves(Main)
<1>1. /\ MainStep /\ UNCHANGED <<job, events, history>> /\ state' = "SYNCHRONIZED"
      /\ sync' = [Unsynced EXCEPT !.count = Len(list["node"])]
  BY DEF Synchronized
<1>2. Len(list["node"]) \in Nat
  BY LenProperties DEF Types, TypeOK, Kinds
<1>3. StateOK' /\ SyncOK' /\ TodoOK'
  BY <1>1, <1>2, NextKindTypes DEF StateOK, SyncOK, TodoOK
<1>4. QED
  BY <1>1, <1>3, IdleMainTypes DEF Types, TypeOK

LEMMA MainThreadTypes == ASSUME Types, MainThread PROVE Types' /\ Moves(Main)
<1>1. CASE Count("class") \/ \E k \in Kinds : SyncKind(k)
  BY <1>1, CountTypes, ListTypes, LoadTypes DEF SyncKind
<1>2. CASE Synchronized \/ StartNext \/ Step(Main)
  BY <1>2, SynchronizedTypes, StartTypes, StepTypes, Sets
<1>3. QED
  BY <1>1, <1>2, SyncSteps DEF MainThread

-------------------------------------------------------------------------------

\* The process has just been started.
JustStarted ==
    /\ subject \in {{"node", "ep"}, {"trigger"}, {"action"}, {"rule"}} /\ RowsOK
    /\ obj = <<>> /\ list = [k \in Kinds |-> <<>>] /\ state = "CONNECTED" /\ sync = Unsynced
    /\ job = [t \in Threads |-> Idle] /\ events \in 0..MaxEvents /\ lost = FALSE /\ history = Blank

LEMMA StartedTypes == JustStarted => Types
<1> SUFFICES ASSUME JustStarted PROVE Types
  OBVIOUS
<1> USE DEF JustStarted
<1>1. obj \in Seq(Objects) /\ list \in [Kinds -> Seq(Nat)] /\ DOMAIN obj = {} /\ ToSet(<<>>) = {}
  BY EmptySeq DEF ToSet
<1>2. TypeOK
  <2>1. SyncOK
    BY DEF SyncOK, Unsynced
  <2>2. QED
    BY <1>1, <2>1, Sets DEF TypeOK, RowsOK, SyncOK
<1>3. ListsOK
  BY <1>1 DEF ListsOK, Listed
<1>4. Hands /\ TodoOK
  BY DEF Hands, TodoOK, Unsynced
<1>5. QED
  BY <1>1, <1>2, <1>3, <1>4 DEF Types

LEMMA InitStarts == ASSUME Init PROVE JustStarted
<1>1. RowsOK
  <2>1. PICK nodes \in [Nodes -> {Old, NoRow}], eps \in [Endpoints -> Nodes \cup {NoRow}],
             others \in [Others -> {Old, NoRow}] :
          row = [k \in Kinds |-> IF k \notin subject THEN [id \in Ids(k) |-> NoRow]
                                 ELSE CASE k = "node" -> nodes [] k = "ep" -> eps
                                        [] OTHER -> others]
    BY DEF Init
  <2>2. ASSUME NEW k \in Kinds PROVE row[k] \in [Ids(k) -> Contents]
    <3>1. CASE k \notin subject
      BY <2>1, <3>1, Sets
    <3>2. CASE k \in subject /\ k = "node"
      BY <2>1, <3>2, Sets DEF Contents
    <3>3. CASE k \in subject /\ k = "ep"
      BY <2>1, <3>3, Sets DEF Contents
    <3>4. CASE k \in subject /\ k \in Plain
      <4>1. k # "node" /\ k # "ep" /\ Ids(k) = Others
        BY <3>4, Sets DEF Plain
      <4>2. QED
        BY <2>1, <3>4, <4>1 DEF Contents
    <3>5. QED
      BY <3>1, <3>2, <3>3, <3>4, Sets DEF Linked
  <2>3. QED
    BY <2>1, <2>2 DEF RowsOK
<1>2. events \in 0..MaxEvents
  BY GatewayBounds DEF Init
<1>3. QED
  BY <1>1, <1>2 DEF Init, JustStarted

LEMMA RestartStarts == ASSUME Types, Restart PROVE JustStarted'
  BY GatewayBounds DEF Restart, Event, store, Types, TypeOK, RowsOK, JustStarted

\* Whatever requests and the main thread do, every pointer a thread has in hand is to an
\* object of the kind and the identifier its job is about, every link is between an
\* endpoint and a node, and every list has objects of its kind.
THEOREM TypeCorrect == Spec => []Types
<1>1. Init => Types
  BY InitStarts, StartedTypes
<1>2. Types /\ [Next]_vars => Types'
  <2> SUFFICES ASSUME Types, [Next]_vars PROVE Types'
    OBVIOUS
  <2>1. CASE MainThread
    BY <2>1, MainThreadTypes
  <2>2. CASE \E c \in Consoles : Request(c) \/ Step(c)
    BY <2>2, RequestTypes, StepTypes, Sets
  <2>3. CASE Restart
    <3>1. JustStarted'
      BY <2>3, RestartStarts
    <3>2. JustStarted' => Types'
      BY StartedTypes, PTL
    <3>3. QED
      BY <3>1, <3>2
  <2>4. CASE UNCHANGED vars
    <3>1. UNCHANGED <<subject, row, obj, list, state, sync, job, events, lost, history>>
      BY <2>4 DEF vars, store, memory, control
    <3>2. QED
      BY <3>1 DEF Types, TypeOK, ObjOK, ListsOK, Listed, Hands, Hand, NodeHand, EPHand, PlainHand,
                  Is, TodoOK
  <2>5. QED
    BY <2>1, <2>2, <2>3, <2>4 DEF Next
<1>3. QED
  BY <1>1, <1>2, PTL DEF Spec

-------------------------------------------------------------------------------
(* Races.                                                                     *)

MoreRaced == history.raced \subseteq history'.raced

\* Thread t goes on with its job or ends it, ...
Onward(t) ==
    \/ job'[t].at = "idle"
    \/ job[t].at # "idle" /\ SameJob(t) /\ job'[t].ep \in {job[t].ep, 0}

\* ... or looks who else is there.
Ventures(t) ==
    /\ job'[t].ep = 0 \/ job'[t].ep \in DOMAIN obj
    /\ \E h \in Histories : h.raced = history.raced /\ history' = Racing(t, job'[t], h)

LEMMA RacingNotes ==
    ASSUME NEW t, NEW j, NEW h \in Histories
    PROVE  Racing(t, j, h).raced = h.raced \cup UNION {Together(j, job[u]) :
                                     u \in {u \in Threads \ {t} : Clash(job[u], j)}}
  BY DEF Racing, Histories, Together

LEMMA HoldsStay ==
    ASSUME Types, ObjGrows, NEW j, j.ep = 0 \/ j.ep \in DOMAIN obj
    PROVE  Holds(j)' = Holds(j)
  BY DEF Holds, ObjGrows, Key

LEMMA EPInHand == ASSUME Types, NEW t \in Threads PROVE job[t].ep = 0 \/ job[t].ep \in DOMAIN obj
<1>1. job[t] = Idle \/ Hand(job[t])
  BY DEF Types, Hands
<1>2. job[t].kind \in Kinds
  BY DEF Types, TypeOK, Jobs
<1>3. QED
  BY <1>1, <1>2, IdleFields, Sets DEF Hand, NodeHand, EPHand, PlainHand, Linked, Is

LEMMA AloneKept ==
    ASSUME Types, Alone, NEW t \in Threads, Moves(t), MoreRaced, Onward(t) \/ Ventures(t)
    PROVE  Alone'
<1>1. ASSUME NEW u \in Threads \ {t} PROVE job'[u] = job[u] /\ Holds(job[u])' = Holds(job[u])
  BY EPInHand, HoldsStay DEF Moves, OthersStay, Holds
<1>2. ASSUME NEW u \in Threads \ {t}, Clash(job[t], job[u])'
      PROVE  Together(job[t], job[u])' \subseteq history'.raced
  <2>1. job'[u] = job[u] /\ Holds(job[u])' = Holds(job[u])
    BY <1>1
  <2>2. CASE job'[t].at = "idle"
    BY <1>2, <2>2 DEF Clash
  <2>3. CASE job[t].at # "idle" /\ SameJob(t) /\ job'[t].ep \in {job[t].ep, 0}
    <3>1. Holds(job[t])' \subseteq Holds(job[t])
      <4>1. Key(job[t])' = Key(job[t])
        BY <2>3 DEF Key, SameJob
      <4>2. CASE job'[t].ep = 0
        BY <4>1, <4>2 DEF Holds
      <4>3. CASE job'[t].ep = job[t].ep /\ job[t].ep # 0
        BY <4>1, <4>3, EPInHand DEF Holds, Moves, ObjGrows
      <4>4. QED
        BY <2>3, <4>2, <4>3
    <3>2. Clash(job[t], job[u])
      BY <1>2, <2>1, <2>3, <3>1 DEF Clash, SameJob
    <3>3. Together(job[t], job[u]) \subseteq history.raced
      BY <3>2 DEF Alone
    <3>4. Together(job[t], job[u])' \subseteq Together(job[t], job[u])
      BY <2>1, <2>3, <3>1 DEF Together, Key, SameJob
    <3>5. QED
      BY <3>3, <3>4 DEF MoreRaced
  <2>4. CASE Ventures(t)
    <3>1. PICK h \in Histories : h.raced = history.raced /\ history' = Racing(t, job'[t], h)
      BY <2>4 DEF Ventures
    <3>2. Holds(job[t])' = Holds(job'[t])
      BY <2>4 DEF Ventures, Moves, ObjGrows, Holds, Key
    <3>3. Clash(job[u], job'[t])
      BY <1>2, <2>1, <3>2 DEF Clash
    <3>4. Together(job'[t], job[u]) \subseteq history'.raced
      BY <3>1, <3>3, RacingNotes
    <3>5. Together(job[t], job[u])' = Together(job'[t], job[u])
      BY <2>1, <3>2 DEF Together
    <3>6. QED
      BY <3>4, <3>5
  <2>5. QED
    BY <2>2, <2>3, <2>4 DEF Onward
<1>3. ASSUME NEW a \in Threads, NEW b \in Threads, a # b, Clash(job[a], job[b])'
      PROVE  Together(job[a], job[b])' \subseteq history'.raced
  <2>1. CASE a = t
    BY <1>2, <1>3, <2>1
  <2>2. CASE b = t
    <3>1. Clash(job[b], job[a])' /\ Together(job[a], job[b])' = Together(job[b], job[a])'
      BY <1>3 DEF Clash, Together
    <3>2. QED
      BY <1>2, <1>3, <2>2, <3>1
  <2>3. CASE a # t /\ b # t
    <3>1. Clash(job[a], job[b]) /\ Together(job[a], job[b])' = Together(job[a], job[b])
      BY <1>1, <1>3, <2>3 DEF Clash, Together
    <3>2. QED
      BY <1>3, <3>1 DEF Alone, MoreRaced
  <2>4. QED
    BY <2>1, <2>2, <2>3
<1>4. QED
  BY <1>3 DEF Alone

LEMMA NobodyElse ==
    ASSUME Alone, NEW t \in Threads, NEW k, NEW id, ~Raced(k, id), Works(t, k, id),
           NEW u \in Threads, Works(u, k, id)
    PROVE  u = t
  BY DEF Alone, Clash, Together, Works, Raced

\* Nobody else works on an endpoint of a node that was never raced for.
LEMMA NobodyLinks ==
    ASSUME Alone, NEW t \in Threads, job[t].at # "idle", job[t].kind = "node", ~Raced("node", job[t].id),
           NEW u \in Threads, job[u].at # "idle", job[u].kind = "ep"
    PROVE  job[u].info # job[t].id
  BY DEF Alone, Clash, Together, Raced, Key

LEMMA CallRaces ==
    ASSUME Types, NEW k, NEW id, NEW content, NEW applies, Call(k, id, content, applies)
    PROVE  history'.raced = history.raced
  BY DEF Call, Types, TypeOK, Histories

LEMMA GoesOn ==
    ASSUME Types, NEW t \in Threads, job[t].at # "idle",
           End(t) \/ (\E place \in Places : Goto(t, place)) \/ (\E place \in Places : Make(t, place))
    PROVE  Onward(t)
<1>1. CASE End(t)
  BY <1>1, Ended, IdleFields DEF Types, Onward
<1>2. CASE \E place \in Places : Goto(t, place)
  BY <1>2, Went DEF Types, Onward, SameHands
<1>3. CASE \E place \in Places : Make(t, place)
  BY <1>3, MakeStep DEF Onward
<1>4. QED
  BY <1>1, <1>2, <1>3

LEMMA NodeRaces ==
    ASSUME Types, NEW t \in Threads, NodeStep(t)
    PROVE  MoreRaced /\ (Onward(t) \/ Ventures(t))
<1>0. job[t].at # "idle" /\ history \in Histories
  BY DEF NodeStep, At, LookNode, AddNode, AppendNode, StartNode, EmptyNode, DropNode, PurgeNode, DelistNode,
         WriteNode, SaveNode, Types, TypeOK
<1>1. CASE LookNode(t) \/ AppendNode(t) \/ WriteNode(t)
  <2>1. MoreRaced
    BY <1>1 DEF LookNode, AppendNode, WriteNode, MoreRaced
  <2>2. Onward(t)
    BY <1>0, <1>1, GoesOn DEF LookNode, AppendNode, WriteNode, Places
  <2>3. QED
    BY <2>1, <2>2
<1>2. CASE AddNode(t) \/ DropNode(t) \/ SaveNode(t)
  <2>1. MoreRaced
    BY <1>2, CallRaces DEF AddNode, DropNode, SaveNode, MoreRaced
  <2>2. Onward(t)
    BY <1>0, <1>2, GoesOn DEF AddNode, DropNode, SaveNode, Places
  <2>3. QED
    BY <2>1, <2>2
<1>3. CASE StartNode(t)
  <2>1. MoreRaced
    BY <1>0, <1>3 DEF StartNode, MoreRaced, Histories
  <2>2. Onward(t)
    BY <1>0, <1>3, GoesOn DEF StartNode, Places
  <2>3. QED
    BY <2>1, <2>2
<1>4. CASE DelistNode(t)
  <2>1. MoreRaced
    BY <1>0, <1>4 DEF DelistNode, MoreRaced, Histories
  <2>2. Onward(t)
    BY <1>0, <1>4, GoesOn DEF DelistNode
  <2>3. QED
    BY <2>1, <2>2
<1>5. ASSUME NEW back \in {"empty", "purge"}, job[t].at = back, job[t].kind = "node",
             obj[job[t].ptr].eps # <<>>, job' = [job EXCEPT ![t] = PickTo(t, back)],
             history' = Racing(t, PickTo(t, back), history)
      PROVE  MoreRaced /\ Ventures(t)
  <2>1. /\ PickTo(t, back) \in Jobs /\ PickTo(t, back).ep = Head(obj[job[t].ptr].eps)
        /\ Head(obj[job[t].ptr].eps) \in DOMAIN obj
    <3>1. PickTo(t, back) \in Jobs /\ Head(obj[job[t].ptr].eps) \in DOMAIN obj
      BY <1>5, Picked DEF PickTo
    <3>2. job[t] \in Jobs
      BY DEF Types, TypeOK
    <3>3. QED
      BY <3>1, <3>2 DEF PickTo, Jobs
  <2>2. job'[t] = PickTo(t, back)
    BY <1>5, <2>1, Took DEF Types
  <2>3. Ventures(t)
    BY <1>0, <1>5, <2>1, <2>2 DEF Ventures
  <2>4. MoreRaced
    BY <1>0, <1>5, RacingNotes DEF MoreRaced
  <2>5. QED
    BY <2>3, <2>4
<1>6. CASE EmptyNode(t)
  <2>1. CASE UNCHANGED history /\ (End(t) \/ Goto(t, "drop"))
    BY <1>0, <2>1, GoesOn DEF Places, MoreRaced
  <2>2. CASE obj[job[t].ptr].eps # <<>> /\ job' = [job EXCEPT ![t] = PickTo(t, "empty")]
             /\ history' = Racing(t, PickTo(t, "empty"), history)
    BY <1>5, <1>6, <2>2 DEF EmptyNode, At
  <2>3. QED
    BY <1>6, <2>1, <2>2 DEF EmptyNode, PickTo
<1>7. CASE PurgeNode(t)
  <2>1. CASE UNCHANGED history /\ Goto(t, "delist")
    BY <1>0, <2>1, GoesOn DEF Places, MoreRaced
  <2>2. CASE obj[job[t].ptr].eps # <<>> /\ job' = [job EXCEPT ![t] = PickTo(t, "purge")]
             /\ history' = Racing(t, PickTo(t, "purge"), history)
    BY <1>5, <1>7, <2>2 DEF PurgeNode, At
  <2>3. CASE UNCHANGED <<job, history>>
    BY <1>0, <2>3 DEF Onward, SameJob, MoreRaced
  <2>4. QED
    BY <1>7, <2>1, <2>2, <2>3 DEF PurgeNode, PickTo
<1>8. QED
  BY <1>1, <1>2, <1>3, <1>4, <1>6, <1>7 DEF NodeStep

LEMMA EPRaces ==
    ASSUME Types, NEW t \in Threads, EPStep(t)
    PROVE  MoreRaced /\ Onward(t)
<1>0. job[t].at # "idle" /\ history \in Histories
  BY DEF EPStep, At, LookEP, AppendEP, AddEP, SeekNode, LinkEP, UnlinkEP, UnhookEP, DropEP, DelistEP,
         SaveEP, WriteEP, Types, TypeOK
<1>1. CASE LookEP(t) \/ AppendEP(t) \/ UnlinkEP(t) \/ UnhookEP(t)
  <2>1. MoreRaced
    BY <1>1 DEF LookEP, AppendEP, UnlinkEP, UnhookEP, MoreRaced
  <2>2. Onward(t)
    BY <1>0, <1>1, GoesOn DEF LookEP, AppendEP, UnlinkEP, UnhookEP, Places
  <2>3. QED
    BY <2>1, <2>2
<1>2. CASE AddEP(t) \/ DropEP(t) \/ SaveEP(t)
  <2>1. MoreRaced
    BY <1>2, CallRaces DEF AddEP, DropEP, SaveEP, MoreRaced
  <2>2. Onward(t)
    BY <1>0, <1>2, GoesOn DEF AddEP, DropEP, SaveEP, Places
  <2>3. QED
    BY <2>1, <2>2
<1>3. CASE LinkEP(t) \/ WriteEP(t)
  <2>1. MoreRaced
    BY <1>0, <1>3 DEF LinkEP, WriteEP, Orphan, MoreRaced, Histories
  <2>2. Onward(t)
    BY <1>0, <1>3, GoesOn, Retried DEF LinkEP, WriteEP, At, Places, Onward, SameHands
  <2>3. QED
    BY <2>1, <2>2
<1>4. CASE SeekNode(t)
  <2>1. MoreRaced
    BY <1>0, <1>4 DEF SeekNode, Orphan, MoreRaced, Histories
  <2>2. CASE End(t)
    BY <1>0, <2>1, <2>2, GoesOn
  <2>3. ASSUME NEW n, job' = [job EXCEPT ![t].node = n, ![t].at = "link"] PROVE Onward(t)
    <3>1. job \in [Threads -> Jobs]
      BY DEF Types, TypeOK
    <3>2. job'[t] = [job[t] EXCEPT !.node = n, !.at = "link"]
      BY <2>3, <3>1
    <3>3. QED
      BY <1>0, <3>1, <3>2 DEF Onward, SameJob, Jobs
  <2>4. QED
    BY <1>4, <2>1, <2>2, <2>3 DEF SeekNode
<1>5. CASE DelistEP(t)
  <2>1. MoreRaced
    BY <1>5 DEF DelistEP, MoreRaced
  <2>2. CASE End(t)
    BY <1>0, <2>1, <2>2, GoesOn
  <2>3. CASE job' = [job EXCEPT ![t].at = job[t].back, ![t].ep = 0]
    <3>1. job \in [Threads -> Jobs]
      BY DEF Types, TypeOK
    <3>2. job'[t] = [job[t] EXCEPT !.at = job[t].back, !.ep = 0]
      BY <2>3, <3>1
    <3>3. QED
      BY <1>0, <2>1, <3>1, <3>2 DEF Onward, SameJob, Jobs
  <2>4. QED
    BY <1>5, <2>2, <2>3 DEF DelistEP
<1>6. QED
  BY <1>1, <1>2, <1>3, <1>4, <1>5 DEF EPStep

LEMMA PlainRaces ==
    ASSUME Types, NEW t \in Threads, NEW k \in Plain, PlainStep(t, k)
    PROVE  MoreRaced /\ Onward(t)
<1>0. job[t].at # "idle" /\ history \in Histories
  BY DEF PlainStep, At, AppendPlain, AddPlain, DropPlain, DelistPlain, SavePlain, WritePlain, Types, TypeOK
<1>1. MoreRaced
  BY CallRaces DEF PlainStep, AppendPlain, AddPlain, DropPlain, DelistPlain, SavePlain, WritePlain, MoreRaced
<1>2. CASE job' = [job EXCEPT ![t].ptr = Len(obj) + 1, ![t].at = "add"]
  <2>1. job \in [Threads -> Jobs]
    BY DEF Types, TypeOK
  <2>2. job'[t] = [job[t] EXCEPT !.ptr = Len(obj) + 1, !.at = "add"]
    BY <1>2, <2>1
  <2>3. QED
    BY <1>0, <1>1, <2>1, <2>2 DEF Onward, SameJob, Jobs
<1>3. CASE End(t) \/ \E place \in Places : Goto(t, place)
  BY <1>0, <1>1, <1>3, GoesOn
<1>4. QED
  BY <1>2, <1>3 DEF PlainStep, AppendPlain, AddPlain, DropPlain, DelistPlain, SavePlain, WritePlain, Places

LEMMA StepRaces ==
    ASSUME Types, NEW t \in Threads, Step(t)
    PROVE  MoreRaced /\ (Onward(t) \/ Ventures(t))
<1>1. CASE UseFreed(t)
  BY <1>1 DEF UseFreed, Onward, SameJob, MoreRaced
<1>2. CASE CreationFails(t)
  <2>1. MoreRaced /\ job[t].at # "idle"
    BY <1>2 DEF CreationFails, MoreRaced, Histories, Types, TypeOK, At
  <2>2. QED
    BY <1>2, <2>1, GoesOn DEF CreationFails, Places
<1>3. QED
  BY <1>1, <1>2, NodeRaces, EPRaces, PlainRaces, PlainSteps DEF Step

-------------------------------------------------------------------------------
(* What the requests and the main thread begin.                               *)

\* Job j, as a request begins it.
Asked(j) ==
    \/ j = Idle
    \/ /\ j.kind = "node" /\ j.at = "look" /\ j.new /\ j.info = New
    \/ /\ j.kind = "node" /\ j.at \in {"drop", "empty", "start", "write"} /\ ~j.new /\ j.info = New
       /\ j.ptr \in Get("node", j.id)
    \/ /\ j.kind = "ep" /\ j.at = "look" /\ j.new /\ j.info \in Nodes /\ j.node \in Get("node", j.info)
    \/ /\ j.kind = "ep" /\ j.at \in {"unlink", "unhook"} /\ ~j.new
       /\ j.ep \in Get("ep", j.id) /\ j.info = obj[j.ep].info
       /\ j.at = "unlink" => j.node \in Get("node", j.info)
       /\ j.at = "unhook" => Get("node", j.info) = {}
    \/ /\ j.kind = "ep" /\ j.at = "save" /\ ~j.new /\ j.info \in Nodes /\ j.ptr \in Get("ep", j.id)
    \/ /\ j.kind \in Plain /\ j.at = "append" /\ j.new /\ j.info = New
    \/ /\ j.kind \in Plain /\ j.at \in {"drop", "save"} /\ ~j.new /\ j.info = New
       /\ j.ptr \in Get(j.kind, j.id)

\* h has the marks of the history, and says of a new object of job j that it is early.
SameMarks(h, j) ==
    /\ h.raced = history.raced /\ h.failed = history.failed /\ h.cut = history.cut
    /\ h.orphaned = history.orphaned /\ h.moved = history.moved /\ h.rounds = history.rounds
    /\ history.early \subseteq h.early
    /\ j.new /\ state = "CONNECTED" => Key(j) \in h.early

\* Session c begins job j.
Begins(c, j) ==
    /\ j \in Jobs /\ (j = Idle \/ (j.at # "idle" /\ Hand(j)))
    /\ Asked(j) /\ OnlyRun /\ ReqStep /\ UNCHANGED list
    /\ \E h \in Histories : SameMarks(h, j) /\ Begin(c, j, h)

LEMMA RunStays == ASSUME UNCHANGED obj PROVE OnlyRun
  BY DEF OnlyRun

LEMMA RunOnly == ASSUME Types, NEW p \in DOMAIN obj, obj' = Halted(p) PROVE OnlyRun
<1>1. /\ DOMAIN obj' = DOMAIN obj /\ \A q \in DOMAIN obj \ {p} : obj'[q] = obj[q]
      /\ obj'[p] = [obj[p] EXCEPT !.run = FALSE] /\ obj[p] \in Objects
  BY Switched, ObjFacts DEF Halted, Types
<1>2. /\ obj'[p].kind = obj[p].kind /\ obj'[p].id = obj[p].id /\ obj'[p].info = obj[p].info
      /\ obj'[p].alive = obj[p].alive /\ obj'[p].node = obj[p].node /\ obj'[p].eps = obj[p].eps
  BY <1>1 DEF Objects
<1>3. QED
  BY <1>1, <1>2 DEF OnlyRun

LEMMA EarlyMarks ==
    ASSUME Types, NEW j \in Jobs, NEW c, Create(c, j)
    PROVE  \E h \in Histories : SameMarks(h, j) /\ Begin(c, j, h)
<1> DEFINE h == [history EXCEPT !.early = @ \cup IF state = "CONNECTED" THEN {Key(j)} ELSE {}]
<1>1. h \in Histories
  BY EarlyTypes
<1>2. SameMarks(h, j)
  BY DEF SameMarks, Types, TypeOK, Histories
<1>3. QED
  BY <1>1, <1>2 DEF Create

LEMMA StoppedMarks ==
    ASSUME Types, NEW id \in Nodes, NEW j, ~j.new
    PROVE  Stopped(id) \in Histories /\ SameMarks(Stopped(id), j)
  BY StoppedTypes DEF Stopped, SameMarks, Types, TypeOK, Histories

LEMMA PlainMarks ==
    ASSUME Types, NEW j, ~j.new
    PROVE  history \in Histories /\ SameMarks(history, j)
  BY DEF SameMarks, Types, TypeOK, Histories

LEMMA NodeCreateBegins == ASSUME Types, NEW c \in Consoles, NODE_create(c) PROVE \E j : Begins(c, j)
<1>1. PICK id \in Nodes :
        LET j == [Idle EXCEPT !.id = id, !.info = New]
        IN  \/ /\ Get("node", id) = {} /\ UNCHANGED obj
               /\ Create(c, [j EXCEPT !.at = "look", !.new = TRUE])
            \/ \E p \in Get("node", id) :
                 /\ Begin(c, [j EXCEPT !.at = "drop", !.ptr = p], Stopped(id))
                 /\ obj' = [obj EXCEPT ![p].run = FALSE]
  BY DEF NODE_create
<1> DEFINE j == [Idle EXCEPT !.id = id, !.info = New]
<1>2. UNCHANGED list /\ ReqStep
  BY DEF NODE_create
<1>3. CASE UNCHANGED obj /\ Create(c, [j EXCEPT !.at = "look", !.new = TRUE])
  <2> DEFINE J == [j EXCEPT !.at = "look", !.new = TRUE]
  <2>1. J \in Jobs /\ J.at # "idle" /\ Hand(J) /\ Asked(J)
    BY IdleFields, Sets DEF Jobs, Hand, NodeHand, Plain, Places, Identifiers, Contents, Asked
  <2> HIDE DEF J
  <2>2. Create(c, J)
    BY <1>3 DEF J
  <2>3. QED
    BY <1>2, <1>3, <2>1, <2>2, EarlyMarks, RunStays DEF Begins
<1>4. ASSUME NEW p \in Get("node", id), Begin(c, [j EXCEPT !.at = "drop", !.ptr = p], Stopped(id)),
             obj' = [obj EXCEPT ![p].run = FALSE]
      PROVE  \E J : Begins(c, J)
  <2> DEFINE J == [j EXCEPT !.at = "drop", !.ptr = p]
  <2>1. Is(p, "node", id) /\ p \in Nat
    BY Found DEF Kinds
  <2>2. J \in Jobs /\ J.at # "idle" /\ Hand(J) /\ Asked(J) /\ ~J.new
    BY <2>1, IdleFields, Sets DEF Jobs, Hand, NodeHand, Plain, Places, Identifiers, Contents, Asked
  <2> HIDE DEF J
  <2>3. OnlyRun
    BY <1>4, <2>1, RunOnly DEF Is, Halted
  <2>4. Begin(c, J, Stopped(id))
    BY <1>4 DEF J
  <2>5. QED
    BY <1>2, <2>2, <2>3, <2>4, StoppedMarks DEF Begins
<1>5. QED
  BY <1>1, <1>3, <1>4

LEMMA NodeJobAsked ==
    ASSUME Types, NEW id \in Nodes, NEW p \in Get("node", id), NEW place \in {"empty", "start", "write"}
    PROVE  /\ NodeJob(place, id, p) \in Jobs /\ NodeJob(place, id, p).at # "idle" /\ Hand(NodeJob(place, id, p))
           /\ Asked(NodeJob(place, id, p)) /\ ~NodeJob(place, id, p).new
<1>1. p \in Nat /\ id \in Identifiers /\ New \in Contents /\ place \in Places
  BY Found DEF Kinds, Identifiers, Contents, Places
<1>2. /\ NodeJob(place, id, p).kind = "node" /\ NodeJob(place, id, p).at = place
      /\ NodeJob(place, id, p).ptr = p /\ NodeJob(place, id, p).id = id
      /\ NodeJob(place, id, p).info = New /\ ~NodeJob(place, id, p).new
  BY <1>1, IdleFields DEF NodeJob, Jobs
<1>3. QED
  BY <1>2, NodeJobTypes DEF Asked

LEMMA OnNodeBegins ==
    ASSUME Types, NEW c \in Consoles, NODE_destroy(c) \/ NODE_run(c) \/ NODE_set(c)
    PROVE  \E j : Begins(c, j)
<1>1. CASE NODE_destroy(c)
  <2>1. PICK id, p : id \in Nodes /\ p \in Get("node", id) /\ Begin(c, NodeJob("empty", id, p), Stopped(id))
    BY <1>1 DEF NODE_destroy, OnNode, NodeJob
  <2>2. job'[c] = NodeJob("empty", id, p)
    BY <2>1, Took, NodeJobTypes DEF Begin, Take, Threads, Types
  <2>3. NodeJob("empty", id, p).ptr = p
    BY IdleFields DEF NodeJob, Jobs
  <2>4. obj' = Halted(p) /\ UNCHANGED list /\ ReqStep
    BY <1>1, <2>2, <2>3 DEF NODE_destroy, OnNode
  <2>5. OnlyRun
    BY <2>1, <2>4, Found, RunOnly DEF Kinds, Is
  <2>6. QED
    BY <2>1, <2>4, <2>5, NodeJobAsked, StoppedMarks DEF Begins
<1>2. CASE NODE_run(c)
  <2>1. PICK id, p : id \in Nodes /\ p \in Get("node", id) /\ Begin(c, NodeJob("start", id, p), history)
    BY <1>2 DEF NODE_run, OnNode, NodeJob, Unmarked
  <2>2. UNCHANGED obj /\ UNCHANGED list /\ ReqStep
    BY <1>2 DEF NODE_run, OnNode
  <2>3. QED
    BY <2>1, <2>2, NodeJobAsked, RunStays, PlainMarks DEF Begins
<1>3. CASE NODE_set(c)
  <2>1. PICK id, p : id \in Nodes /\ p \in Get("node", id) /\ Begin(c, NodeJob("write", id, p), history)
    BY <1>3 DEF NODE_set, OnNode, NodeJob, Unmarked
  <2>2. UNCHANGED obj /\ UNCHANGED list /\ ReqStep
    BY <1>3 DEF NODE_set, OnNode
  <2>3. QED
    BY <2>1, <2>2, NodeJobAsked, RunStays, PlainMarks DEF Begins
<1>4. QED
  BY <1>1, <1>2, <1>3

LEMMA NodeStopBegins == ASSUME Types, NEW c \in Consoles, NODE_stop(c) PROVE \E j : Begins(c, j)
<1>1. PICK id, p : id \in Nodes /\ p \in Get("node", id) /\ Begin(c, Idle, Stopped(id)) /\ obj' = Halted(p)
  BY DEF NODE_stop
<1>2. UNCHANGED list /\ ReqStep /\ p \in DOMAIN obj
  BY <1>1, Found DEF NODE_stop, Kinds, Is
<1>3. QED
  BY <1>1, <1>2, IdleFields, StoppedMarks, RunOnly DEF Begins, Asked

LEMMA EPCreateBegins == ASSUME Types, NEW c \in Consoles, EP_create(c) PROVE \E j : Begins(c, j)
<1>1. PICK id, did, n : /\ id \in Endpoints /\ did \in Nodes /\ n \in Get("node", did)
                       /\ Create(c, [Idle EXCEPT !.at = "look", !.kind = "ep", !.id = id,
                               !.info = did, !.node = n, !.new = TRUE])
  BY DEF EP_create
<1> DEFINE J == [Idle EXCEPT !.at = "look", !.kind = "ep", !.id = id,
                             !.info = did, !.node = n, !.new = TRUE]
<1>2. UNCHANGED <<obj, list>> /\ ReqStep
  BY DEF EP_create, memory
<1>3. Is(n, "node", did) /\ n \in Nat
  BY <1>1, Found DEF Kinds
<1>4. J \in Jobs /\ J.at # "idle" /\ Hand(J) /\ Asked(J)
  BY <1>1, <1>3, IdleFields, Sets DEF Jobs, Hand, EPHand, Plain, Places, Kinds, Identifiers, Contents, Asked
<1>5. Create(c, J)
  BY <1>1
<1> HIDE DEF J
<1>6. QED
  BY <1>2, <1>4, <1>5, EarlyMarks, RunStays DEF Begins

LEMMA EPDestroyBegins == ASSUME Types, NEW c \in Consoles, EP_destroy(c) PROVE \E j : Begins(c, j)
<1>1. PICK id, e : /\ id \in Endpoints /\ e \in Get("ep", id)
                  /\ LET j == [Idle EXCEPT !.kind = "ep", !.id = id, !.info = obj[e].info, !.ep = e]
                         found == Get("node", obj[e].info)
                     IN  \/ \E n \in found : Begin(c, [j EXCEPT !.at = "unlink", !.node = n], history)
                         \/ found = {} /\ Begin(c, [j EXCEPT !.at = "unhook"], history)
  BY DEF EP_destroy
<1> DEFINE j == [Idle EXCEPT !.kind = "ep", !.id = id, !.info = obj[e].info, !.ep = e]
<1>2. UNCHANGED <<obj, list>> /\ ReqStep
  BY DEF EP_destroy, memory
<1>3. Is(e, "ep", id) /\ e \in Nat /\ obj[e].info \in Contents
  <2>1. Is(e, "ep", id) /\ e \in Nat
    BY <1>1, Found DEF Kinds
  <2>2. obj[e] \in Objects
    BY <2>1, ObjFacts DEF Is, Types
  <2>3. QED
    BY <2>1, <2>2 DEF Objects
<1>4. ASSUME NEW n \in Get("node", obj[e].info), Begin(c, [j EXCEPT !.at = "unlink", !.node = n], history)
      PROVE  \E J : Begins(c, J)
  <2> DEFINE J == [j EXCEPT !.at = "unlink", !.node = n]
  <2>1. Is(n, "node", obj[e].info) /\ n \in Nat
    BY Found DEF Kinds
  <2>2. J \in Jobs /\ J.at # "idle" /\ Hand(J) /\ ~J.new
    BY <1>1, <1>3, <2>1, IdleFields, Sets DEF Jobs, Hand, EPHand, Plain, Places, Kinds, Identifiers
  <2>3. J.kind = "ep" /\ J.at = "unlink" /\ J.ep = e /\ J.id = id /\ J.info = obj[e].info /\ J.node = n
    BY <1>1, <1>3, <2>1, IdleFields DEF Jobs
  <2>4. Begin(c, J, history)
    BY <1>4
  <2> HIDE DEF J
  <2>5. Asked(J)
    BY <1>1, <2>2, <2>3 DEF Asked
  <2>6. QED
    BY <1>2, <2>2, <2>4, <2>5, PlainMarks, RunStays DEF Begins
<1>5. CASE Get("node", obj[e].info) = {} /\ Begin(c, [j EXCEPT !.at = "unhook"], history)
  <2> DEFINE J == [j EXCEPT !.at = "unhook"]
  <2>1. J \in Jobs /\ J.at # "idle" /\ Hand(J) /\ ~J.new
    BY <1>1, <1>3, IdleFields, Sets DEF Jobs, Hand, EPHand, Plain, Places, Kinds, Identifiers
  <2>2. J.kind = "ep" /\ J.at = "unhook" /\ J.ep = e /\ J.id = id /\ J.info = obj[e].info
    BY <1>1, <1>3, IdleFields DEF Jobs
  <2>3. Begin(c, J, history)
    BY <1>5
  <2> HIDE DEF J
  <2>4. Asked(J)
    BY <1>1, <1>5, <2>1, <2>2 DEF Asked
  <2>5. QED
    BY <1>2, <2>1, <2>3, <2>4, PlainMarks, RunStays DEF Begins
<1>6. QED
  BY <1>1, <1>4, <1>5

LEMMA EPSetBegins == ASSUME Types, NEW c \in Consoles, EP_set(c) PROVE \E j : Begins(c, j)
<1>1. PICK id, did, e : /\ id \in Endpoints /\ did \in Nodes /\ e \in Get("ep", id)
                       /\ Begin(c, [Idle EXCEPT !.at = "save", !.kind = "ep", !.id = id, !.info = did, !.ptr = e], history)
  BY DEF EP_set
<1> DEFINE J == [Idle EXCEPT !.at = "save", !.kind = "ep", !.id = id, !.info = did, !.ptr = e]
<1>2. UNCHANGED <<obj, list>> /\ ReqStep
  BY DEF EP_set, memory
<1>3. Is(e, "ep", id) /\ e \in Nat
  BY <1>1, Found DEF Kinds
<1>4. J \in Jobs /\ J.at # "idle" /\ Hand(J) /\ ~J.new /\ Asked(J)
  BY <1>1, <1>3, IdleFields, Sets DEF Jobs, Hand, EPHand, Plain, Places, Kinds, Identifiers, Contents, Asked
<1>5. Begin(c, J, history)
  BY <1>1
<1> HIDE DEF J
<1>6. QED
  BY <1>2, <1>4, <1>5, PlainMarks, RunStays DEF Begins

LEMMA CreatePlainBegins ==
    ASSUME Types, NEW c \in Consoles, NEW k \in Plain, CreatePlain(c, k)
    PROVE  \E j : Begins(c, j)
<1>1. PICK id \in Others :
        Create(c, [Idle EXCEPT !.at = "append", !.kind = k, !.id = id, !.info = New, !.new = TRUE])
  BY DEF CreatePlain
<1> DEFINE J == [Idle EXCEPT !.at = "append", !.kind = k, !.id = id, !.info = New, !.new = TRUE]
<1>2. UNCHANGED <<obj, list>> /\ ReqStep
  BY DEF CreatePlain, memory
<1>3. J \in Jobs /\ J.at # "idle" /\ Hand(J) /\ Asked(J)
  <2>1. /\ k \in Kinds /\ k # "node" /\ k # "ep" /\ Ids(k) = Others
        /\ id \in Identifiers /\ New \in Contents /\ "append" \in Places
    BY <1>1, Sets DEF Plain, Kinds, Identifiers, Contents, Places
  <2>2. /\ J \in Jobs /\ J.at = "append" /\ J.kind = k /\ J.id = id /\ J.ep = 0 /\ J.new /\ J.info = New
    BY <2>1, IdleFields DEF Jobs
  <2>3. QED
    BY <1>1, <2>1, <2>2 DEF Hand, PlainHand, Asked
<1>4. Create(c, J)
  BY <1>1
<1> HIDE DEF J
<1>5. QED
  BY <1>2, <1>3, <1>4, EarlyMarks, RunStays DEF Begins

LEMMA OnPlainBegins ==
    ASSUME Types, NEW c \in Consoles, NEW k \in Plain, NEW place \in {"drop", "save"}, OnPlain(c, k, place)
    PROVE  \E j : Begins(c, j)
<1>1. PICK id, p : id \in Others /\ p \in Get(k, id) /\ Begin(c, PlainJob(place, k, id, p), history)
  BY DEF OnPlain, PlainJob
<1>2. UNCHANGED <<obj, list>> /\ ReqStep
  BY DEF OnPlain, memory
<1>3. Is(p, k, id) /\ p \in Nat
  BY <1>1, Found, Sets
<1> DEFINE J == PlainJob(place, k, id, p)
<1>4. J \in Jobs /\ J.at # "idle" /\ Hand(J) /\ Asked(J) /\ ~J.new
  <2>1. /\ k \in Kinds /\ k # "node" /\ k # "ep" /\ Ids(k) = Others
        /\ id \in Identifiers /\ New \in Contents /\ place \in Places
    BY <1>1, Sets DEF Plain, Kinds, Identifiers, Contents, Places
  <2>2. /\ J \in Jobs /\ J.at = place /\ J.kind = k /\ J.id = id /\ J.ep = 0 /\ J.ptr = p
        /\ ~J.new /\ J.info = New
    BY <1>3, <2>1, IdleFields DEF PlainJob, Jobs
  <2>3. QED
    BY <1>1, <1>3, <2>1, <2>2 DEF Hand, PlainHand, Asked
<1> HIDE DEF J
<1>5. QED
  BY <1>1, <1>2, <1>4, PlainMarks, RunStays DEF Begins, J

LEMMA RequestBegins == ASSUME Types, NEW c \in Consoles, Request(c) PROVE \E j : Begins(c, j)
  BY PlainRequests, NodeCreateBegins, OnNodeBegins, NodeStopBegins, EPCreateBegins, EPDestroyBegins,
     EPSetBegins, CreatePlainBegins, OnPlainBegins

\* The main thread takes up an object it has to load, or a node it has to start.
Loads(j) ==
    /\ j.kind \in Kinds /\ j.at = (IF j.kind \in Plain THEN "append" ELSE "look") /\ ~j.new
    /\ Syncing(j.kind, "load") /\ j.id \in sync.todo /\ j.info = row[j.kind][j.id] /\ j.info # NoRow
    /\ sync' = [sync EXCEPT !.todo = @ \ {j.id}] /\ UNCHANGED <<state, events>>
Starts(j) ==
    /\ j.kind = "node" /\ j.at = "start" /\ ~j.new /\ j.ptr \in Listed("node") /\ j.id = obj[j.ptr].id
    /\ state = "SYNCHRONIZED" /\ UNCHANGED state

MainBegins(j) ==
    /\ j \in Jobs /\ j.at # "idle" /\ Hand(j) /\ MainStep
    /\ Loads(j) \/ Starts(j)
    /\ Take(Main, j, history)

\* It comes past a row that is not there or is noted, and comes back where it was repeated.
PassesBy(k, id) ==
    /\ NotYet(k, id)' => NotYet(k, id) \/ history'.rounds > history.rounds
    /\ NotYet(k, id) => \/ NotYet(k, id)' \/ row[k][id] = NoRow
                        \/ <<k, id>> \in history'.cut \cup history'.failed
Passes ==
    /\ history.failed \subseteq history'.failed /\ history.cut \subseteq history'.cut
    /\ history.early \subseteq history'.early /\ history.rounds <= history'.rounds
    /\ \A k \in Kinds : \A id \in Ids(k) : PassesBy(k, id)

\* Or it has only the order of things to think of.
MainRests == MainStep /\ UNCHANGED job /\ history'.raced = history.raced /\ Passes

LEMMA SyncFacts ==
    ASSUME Types
    PROVE  /\ sync.phase \in Nat \ {0} /\ sync.phase - 1 \in Nat
           /\ sync = [phase |-> sync.phase, count |-> sync.count, todo |-> sync.todo, next |-> sync.next]
           /\ history \in Histories /\ history.rounds \in Nat \ {0}
           /\ NextKind.phase = sync.phase + 1 /\ NextKind.next = "count"
           /\ Unsynced.phase = 1 /\ Unsynced.next = "count"
  BY NextKindTypes DEF Types, TypeOK, Histories

LEMMA NextKindPasses ==
    ASSUME Types, NEW k, NEW next, Syncing(k, next), sync' = NextKind, UNCHANGED state,
           NEW l \in Kinds, NEW id \in Ids(l)
    PROVE  /\ NotYet(l, id)' => NotYet(l, id)
           /\ NotYet(l, id) => NotYet(l, id)' \/ (l = k /\ (next = "load" => id \in sync.todo))
<1>1. sync.phase \in Nat \ {0} /\ sync'.phase = sync.phase + 1 /\ sync'.next = "count"
  BY SyncFacts
<1>2. Order[sync.phase] = k /\ sync.next = next /\ state = "CONNECTED" /\ sync.phase <= Len(Order)
  BY DEF Syncing
<1>3. NotYet(l, id)' <=> \A i \in 1..sync.phase : Order[i] # l
  BY <1>1, <1>2 DEF NotYet
<1>4. ASSUME NotYet(l, id)' PROVE NotYet(l, id)
  <2>1. \A i \in 1..(sync.phase - 1) : Order[i] # l
    BY <1>1, <1>3, <1>4
  <2>2. sync.phase <= Len(Order) /\ Order[sync.phase] = l => FALSE
    <3>1. sync.phase \in 1..sync.phase
      BY <1>1
    <3>2. QED
      BY <1>3, <1>4, <3>1
  <2>3. QED
    BY <1>2, <2>1, <2>2 DEF NotYet
<1>5. ASSUME NotYet(l, id), l # k PROVE NotYet(l, id)'
  <2>1. \A i \in 1..sync.phase : i \in 1..(sync.phase - 1) \/ i = sync.phase
    BY <1>1
  <2>2. QED
    BY <1>2, <1>3, <1>5, <2>1 DEF NotYet
<1>6. ASSUME NotYet(l, id), l = k PROVE next = "load" => id \in sync.todo
  BY <1>2, <1>6 DEF NotYet
<1>7. QED
  BY <1>4, <1>5, <1>6

LEMMA CountRests == ASSUME Types, NEW k, Count(k) PROVE MainRests
<1>1. MainStep /\ UNCHANGED <<state, job>> /\ Syncing(k, "count")
  BY DEF Count
<1>2. state = "CONNECTED" /\ sync.next = "count"
  BY <1>1 DEF Syncing
<1>3. CASE sync' = Unsynced /\ history' = [history EXCEPT !.rounds = @ + 1]
  <2>1. /\ history'.raced = history.raced /\ history'.failed = history.failed /\ history'.cut = history.cut
        /\ history'.early = history.early /\ history'.rounds = history.rounds + 1
    BY <1>3 DEF Types, TypeOK, Histories
  <2>2. history'.rounds > history.rounds /\ history.rounds <= history'.rounds
    BY <2>1, SyncFacts
  <2>3. \A l \in Kinds : \A id \in Ids(l) : NotYet(l, id)'
    BY <1>1, <1>2, <1>3, SyncFacts DEF NotYet
  <2>4. QED
    BY <1>1, <2>1, <2>2, <2>3 DEF MainRests, Passes, PassesBy
<1>4. CASE /\ history' = LeaveOut(k, Served(k))
           /\ sync' = IF Served(k) = {} THEN NextKind
                      ELSE [sync EXCEPT !.count = Cardinality(Served(k)), !.next = "list"]
  <2>1. /\ history'.raced = history.raced /\ history'.failed = history.failed
        /\ history'.cut = history.cut \cup {<<k, id>> : id \in (IF k \in Kinds THEN Rows(k) ELSE {}) \ Served(k)}
        /\ history'.early = history.early /\ history'.rounds = history.rounds
    BY <1>4 DEF LeaveOut, Types, TypeOK, Histories
  <2>2. history.rounds <= history'.rounds
    BY <2>1, SyncFacts
  <2>3. CASE Served(k) = {} /\ sync' = NextKind
    <3>1. \A l \in Kinds : \A id \in Ids(l) : PassesBy(l, id)
      <4>1. SUFFICES ASSUME NEW l \in Kinds, NEW id \in Ids(l) PROVE PassesBy(l, id)
        OBVIOUS
      <4>2. /\ NotYet(l, id)' => NotYet(l, id)
            /\ NotYet(l, id) => NotYet(l, id)' \/ l = k
        BY <1>1, <2>3, NextKindPasses
      <4>3. ASSUME l = k, row[l][id] # NoRow PROVE <<l, id>> \in history'.cut
        BY <2>1, <2>3, <4>3 DEF Rows
      <4>4. QED
        BY <4>2, <4>3 DEF PassesBy
    <3>2. QED
      BY <1>1, <2>1, <2>2, <3>1 DEF MainRests, Passes
  <2>4. CASE sync' = [sync EXCEPT !.count = Cardinality(Served(k)), !.next = "list"]
    <3>1. sync'.phase = sync.phase /\ sync'.next = "list"
      BY <2>4, SyncFacts
    <3>2. \A l \in Kinds : \A id \in Ids(l) : NotYet(l, id)' <=> NotYet(l, id)
      BY <1>1, <1>2, <3>1 DEF NotYet
    <3>3. QED
      BY <1>1, <2>1, <2>2, <3>2 DEF MainRests, Passes, PassesBy
  <2>5. QED
    BY <1>4, <2>3, <2>4
<1>5. QED
  BY <1>3, <1>4 DEF Count

LEMMA ListRests == ASSUME Types, NEW k, List(k) PROVE MainRests
<1>1. MainStep /\ UNCHANGED <<state, job>> /\ Syncing(k, "list")
  BY DEF List
<1>2. state = "CONNECTED" /\ sync.next = "list" /\ Order[sync.phase] = k
  BY <1>1 DEF Syncing
<1>3. ASSUME NEW S, history' = LeaveOut(k, S)
      PROVE  /\ history'.raced = history.raced /\ history'.failed = history.failed
             /\ history'.cut = history.cut \cup {<<k, id>> : id \in (IF k \in Kinds THEN Rows(k) ELSE {}) \ S}
             /\ history'.early = history.early /\ history'.rounds = history.rounds
             /\ history.rounds <= history'.rounds
  <2>1. /\ history'.raced = history.raced /\ history'.failed = history.failed
        /\ history'.cut = history.cut \cup {<<k, id>> : id \in (IF k \in Kinds THEN Rows(k) ELSE {}) \ S}
        /\ history'.early = history.early /\ history'.rounds = history.rounds
    BY <1>3 DEF LeaveOut, Types, TypeOK, Histories
  <2>2. QED
    BY <2>1, SyncFacts
<1>4. ASSUME NEW S, S \subseteq Named(k), sync' = [sync EXCEPT !.todo = S, !.next = "load"], history' = LeaveOut(k, S)
      PROVE  MainRests
  <2>1. sync'.phase = sync.phase /\ sync'.next = "load" /\ sync'.todo = S
    BY <1>4, SyncFacts
  <2>2. \A l \in Kinds : \A id \in Ids(l) : PassesBy(l, id)
    <3>1. SUFFICES ASSUME NEW l \in Kinds, NEW id \in Ids(l) PROVE PassesBy(l, id)
      OBVIOUS
    <3>2. NotYet(l, id)' => NotYet(l, id)
      BY <1>1, <1>2, <2>1 DEF NotYet
    <3>3. ASSUME NotYet(l, id), ~NotYet(l, id)', row[l][id] # NoRow PROVE <<l, id>> \in history'.cut
      <4>1. l = k /\ id \notin S
        BY <1>1, <1>2, <2>1, <3>3 DEF NotYet
      <4>2. QED
        BY <1>3, <1>4, <3>3, <4>1 DEF Rows
    <3>4. QED
      BY <3>2, <3>3 DEF PassesBy
  <2>3. QED
    BY <1>1, <1>3, <1>4, <2>2 DEF MainRests, Passes
<1>5. CASE sync' = NextKind /\ history' = LeaveOut(k, {})
  <2>1. \A l \in Kinds : \A id \in Ids(l) : PassesBy(l, id)
    <3>1. SUFFICES ASSUME NEW l \in Kinds, NEW id \in Ids(l) PROVE PassesBy(l, id)
      OBVIOUS
    <3>2. /\ NotYet(l, id)' => NotYet(l, id)
          /\ NotYet(l, id) => NotYet(l, id)' \/ l = k
      BY <1>1, <1>5, NextKindPasses
    <3>3. ASSUME l = k, row[l][id] # NoRow PROVE <<l, id>> \in history'.cut
      BY <1>3, <1>5, <3>3 DEF Rows
    <3>4. QED
      BY <3>2, <3>3 DEF PassesBy
  <2>2. QED
    BY <1>1, <1>3, <1>5, <2>1 DEF MainRests, Passes
<1>6. QED
  BY <1>4, <1>5 DEF List

LEMMA LoadBegins ==
    ASSUME Types, NEW k \in Kinds,
           NEW place, place = IF k \in Plain THEN "append" ELSE "look", Load(k, place)
    PROVE  MainRests \/ \E j : MainBegins(j)
<1>1. MainStep /\ Syncing(k, "load") /\ UNCHANGED state
  BY DEF Load
<1>2. CASE UNCHANGED job
  <2>1. history \in Histories
    BY DEF Types, TypeOK
  <2>2. ASSUME NEW id \in sync.todo, Take(Main, LoadJob(k, place, id), history)
        PROVE  FALSE
    <3>1. id \in Ids(k)
      BY <1>1, <2>2 DEF Types, TodoOK, Syncing
    <3>2. LoadJob(k, place, id) \in Jobs /\ LoadJob(k, place, id).at # "idle"
      BY <3>1, LoadJobTypes
    <3>3. job'[Main] = LoadJob(k, place, id)
      BY <2>2, <3>2, Took, Sets DEF Take, Types
    <3>4. QED
      BY <1>2, <2>2, <3>2, <3>3 DEF Take
  <2>3. CASE sync.todo = {} /\ sync' = NextKind /\ UNCHANGED history
    <3>1. \A l \in Kinds : \A id \in Ids(l) : PassesBy(l, id)
      BY <1>1, <2>3, NextKindPasses DEF PassesBy
    <3>2. QED
      BY <1>1, <1>2, <2>3, <3>1, SyncFacts DEF MainRests, Passes
  <2>4. ASSUME NEW id \in sync.todo, sync' = [sync EXCEPT !.todo = @ \ {id}],
               \/ row[k][id] = NoRow /\ UNCHANGED history
               \/ history' = [history EXCEPT !.failed = @ \cup {<<k, id>>}]
        PROVE  MainRests
    <3>1. /\ history'.raced = history.raced /\ history.failed \subseteq history'.failed
          /\ history'.cut = history.cut /\ history'.early = history.early /\ history'.rounds = history.rounds
          /\ row[k][id] = NoRow \/ <<k, id>> \in history'.failed
      BY <2>1, <2>4 DEF Histories
    <3>2. sync'.phase = sync.phase /\ sync'.next = sync.next /\ sync'.todo = sync.todo \ {id}
      BY <2>4, SyncFacts
    <3>3. state = "CONNECTED" /\ sync.next = "load" /\ Order[sync.phase] = k
      BY <1>1 DEF Syncing
    <3>4. \A l \in Kinds : \A i \in Ids(l) : /\ NotYet(l, i)' => NotYet(l, i)
                                             /\ NotYet(l, i) => NotYet(l, i)' \/ (l = k /\ i = id)
      BY <1>1, <3>2, <3>3 DEF NotYet
    <3>5. \A l \in Kinds : \A i \in Ids(l) : PassesBy(l, i)
      BY <3>1, <3>4 DEF PassesBy
    <3>6. QED
      BY <1>1, <1>2, <3>1, <3>5, SyncFacts DEF MainRests, Passes
  <2>5. QED
    BY <2>2, <2>3, <2>4 DEF Load, LoadJob
<1>3. ASSUME NEW id \in sync.todo, sync' = [sync EXCEPT !.todo = @ \ {id}], UNCHANGED events,
             row[k][id] # NoRow, Take(Main, LoadJob(k, place, id), history)
      PROVE  \E j : MainBegins(j)
  <2> DEFINE j == LoadJob(k, place, id)
  <2>1. id \in Ids(k)
    BY <1>1, <1>3 DEF Types, TodoOK, Syncing
  <2>2. /\ j \in Jobs /\ j.at = place /\ j.at # "idle" /\ Hand(j) /\ j.kind = k /\ j.id = id
        /\ j.info = row[k][id] /\ ~j.new
    BY <2>1, LoadJobTypes
  <2>3. Take(Main, j, history)
    BY <1>3
  <2> HIDE DEF j
  <2>4. Loads(j)
    BY <1>1, <1>3, <2>2 DEF Loads
  <2>5. QED
    BY <1>1, <2>2, <2>3, <2>4 DEF MainBegins
<1>4. QED
  BY <1>2, <1>3 DEF Load, LoadJob

LEMMA StartBegins == ASSUME Types, StartNext PROVE MainRests \/ \E j : MainBegins(j)
<1>1. /\ state = "SYNCHRONIZED" /\ MainStep
  BY DEF StartNext, StartFrom
<1>2. CASE UNCHANGED <<job, history>> /\ state' # "CONNECTED"
  <2>1. \A l \in Kinds : \A id \in Ids(l) : PassesBy(l, id)
    BY <1>1, <1>2 DEF PassesBy, NotYet
  <2>2. QED
    BY <1>1, <1>2, <2>1, SyncFacts DEF MainRests, Passes
<1>3. CASE /\ 1 <= sync.phase /\ sync.phase <= Len(list["node"]) /\ UNCHANGED state
           /\ Take(Main, StartJob(list["node"][sync.phase]), history)
  <2>1. sync.phase \in DOMAIN list["node"]
    <3>1. list["node"] \in Seq(Nat) /\ sync.phase \in Nat
      BY DEF Types, TypeOK, Kinds
    <3>2. QED
      BY <1>3, <3>1, SeqFacts
  <2> DEFINE p == list["node"][sync.phase]
             j == StartJob(p)
  <2>2. /\ p \in Listed("node") /\ j \in Jobs /\ j.at = "start" /\ Hand(j) /\ j.kind = "node"
        /\ j.id = obj[p].id /\ j.ptr = p
    BY <2>1, StartJobTypes
  <2>3. ~j.new
    <3>1. p \in Nat /\ obj[p].id \in Identifiers
      BY <2>2 DEF Jobs
    <3>2. QED
      BY <3>1, IdleFields DEF StartJob, Jobs
  <2>4. Take(Main, j, history)
    BY <1>3
  <2> HIDE DEF j
  <2>5. Starts(j)
    BY <1>1, <1>3, <2>2, <2>3 DEF Starts
  <2>6. QED
    BY <1>1, <2>2, <2>4, <2>5 DEF MainBegins
<1>4. QED
  BY <1>1, <1>2, <1>3 DEF StartNext, StartFrom, StartJob

\* All kinds are loaded when the last has been.
LEMMA SynchronizedRests == ASSUME Types, Synchronized PROVE MainRests
<1>1. \A l \in Kinds : \A id : ~NotYet(l, id)
  <2>1. Len(Order) = 6
    BY DEF Order
  <2>2. {1, 3, 4, 5, 6} \subseteq 1..(sync.phase - 1)
    BY <2>1, SyncFacts DEF Synchronized
  <2>3. \A l \in Kinds : \E i \in {1, 3, 4, 5, 6} : Order[i] = l
    BY DEF Kinds, Order
  <2>4. QED
    BY <2>2, <2>3 DEF NotYet
<1>2. \A l \in Kinds : \A id \in Ids(l) : PassesBy(l, id)
  BY <1>1 DEF Synchronized, PassesBy, NotYet
<1>3. QED
  BY <1>2, SyncFacts DEF Synchronized, MainRests, Passes

LEMMA MainDoes ==
    ASSUME Types, MainThread
    PROVE  MainRests \/ (\E j : MainBegins(j)) \/ Step(Main)
<1>1. CASE Count("class") \/ \E k \in Kinds : SyncKind(k)
  BY <1>1, CountRests, ListRests, LoadBegins DEF SyncKind
<1>2. CASE Synchronized
  BY <1>2, SynchronizedRests
<1>3. QED
  BY <1>1, <1>2, SyncSteps, StartBegins DEF MainThread

-------------------------------------------------------------------------------

\* A job that is taken up ventures.
LEMMA TakingVentures ==
    ASSUME Types, NEW t \in Threads, NEW j \in Jobs, NEW h \in Histories, h.raced = history.raced,
           j = Idle \/ (j.at # "idle" /\ Hand(j)), Take(t, j, h)
    PROVE  job'[t] = j /\ OthersStay(t) /\ MoreRaced /\ Ventures(t)
<1>1. job'[t] = j /\ OthersStay(t)
  BY Took DEF Take, Types
<1>2. j.ep = 0 \/ j.ep \in DOMAIN obj
  <2>1. CASE j = Idle
    BY <2>1, IdleFields
  <2>2. CASE Hand(j)
    <3>1. j.kind \in Kinds
      BY DEF Jobs
    <3>2. QED
      BY <2>2, <3>1, Sets DEF Hand, NodeHand, EPHand, PlainHand, Linked, Is
  <2>3. QED
    BY <2>1, <2>2
<1>3. Ventures(t)
  BY <1>1, <1>2 DEF Ventures, Take
<1>4. MoreRaced
  BY RacingNotes DEF Take, MoreRaced
<1>5. QED
  BY <1>1, <1>3, <1>4

LEMMA BeginsMoves ==
    ASSUME Types, NEW c \in Consoles, NEW j, Begins(c, j)
    PROVE  job'[c] = j /\ Moves(c) /\ MoreRaced /\ Ventures(c)
<1>1. PICK h \in Histories : SameMarks(h, j) /\ Begin(c, j, h)
  BY DEF Begins
<1>2. job'[c] = j /\ OthersStay(c) /\ MoreRaced /\ Ventures(c)
  BY <1>1, TakingVentures, Sets DEF Begins, Begin, SameMarks
<1>3. ObjGrows
  BY DEF Begins, OnlyRun, ObjGrows
<1>4. QED
  BY <1>2, <1>3 DEF Moves

LEMMA MainBeginsMoves ==
    ASSUME Types, NEW j, MainBegins(j)
    PROVE  job'[Main] = j /\ Moves(Main) /\ MoreRaced /\ Ventures(Main) /\ OnlyRun /\ UNCHANGED list
<1>1. job'[Main] = j /\ OthersStay(Main) /\ MoreRaced /\ Ventures(Main)
  BY TakingVentures, Sets DEF MainBegins, Types, TypeOK
<1>2. UNCHANGED <<obj, list>>
  BY DEF MainBegins, MainStep, memory
<1>3. QED
  BY <1>1, <1>2 DEF Moves, ObjGrows, OnlyRun

LEMMA AloneMoves ==
    ASSUME Types, Alone, NEW t \in Threads,
           \/ \E j : t \in Consoles /\ Begins(t, j)
           \/ \E j : t = Main /\ MainBegins(j)
           \/ Step(t)
    PROVE  Alone'
  BY BeginsMoves, MainBeginsMoves, StepTypes, StepRaces, AloneKept

LEMMA AloneRests == ASSUME Types, Alone, MainRests PROVE Alone'
<1>1. UNCHANGED <<obj, job>> /\ history'.raced = history.raced
  BY DEF MainRests, MainStep, memory
<1>2. QED
  BY <1>1 DEF Alone, Clash, Together, Holds, Key

-------------------------------------------------------------------------------
(* Endpoints and the lists of the nodes they are attached to.                 *)

LEMMA InEps ==
    ASSUME Types, NEW n \in DOMAIN obj, NEW i \in DOMAIN obj[n].eps
    PROVE  obj[n].eps \in Seq(Nat) /\ obj[n].eps[i] \in DOMAIN obj /\ obj[obj[n].eps[i]].kind = "ep"
<1>1. obj[n].eps \in Seq(Nat)
  BY ObjFacts DEF Types, Objects
<1>2. obj[n].eps[i] \in ToSet(obj[n].eps)
  BY <1>1, SeqFacts
<1>3. QED
  BY <1>1, <1>2 DEF Types, ObjOK

\* An endpoint without a node is in no node's list.
LEMMA Nowhere ==
    ASSUME Types, Links, NEW e \in DOMAIN obj, obj[e].node = 0, ~Raced("ep", obj[e].id), NEW n \in DOMAIN obj
    PROVE  e \notin ToSet(obj[n].eps)
<1>1. SUFFICES ASSUME NEW i \in DOMAIN obj[n].eps, e = obj[n].eps[i] PROVE FALSE
  <2>1. obj[n].eps \in Seq(Nat)
    BY ObjFacts DEF Types, Objects
  <2>2. QED
    BY <2>1, SeqFacts
<1>2. obj[e].node = n
  BY <1>1 DEF Links, Attached
<1>3. QED
  BY <1>2, ObjFacts DEF Types

LEMMA BareWorks ==
    ASSUME Types, NEW u \in Threads, job[u].at # "idle"
    PROVE  /\ job[u].kind = "ep" /\ job[u].at \in {"append", "add", "seek", "link"} =>
                Is(job[u].ptr, "ep", job[u].id) /\ Works(u, "ep", job[u].id)
           /\ job[u].at \in {"dropEP", "delistEP"} =>
                /\ job[u].ep \in DOMAIN obj /\ obj[job[u].ep].kind = "ep"
                /\ Works(u, "ep", obj[job[u].ep].id)
<1>1. ASSUME job[u].kind = "ep", job[u].at \in {"append", "add", "seek", "link"}
      PROVE  Is(job[u].ptr, "ep", job[u].id) /\ Works(u, "ep", job[u].id)
  BY <1>1, HandOf DEF Hand, EPHand, Works, Holds, Key
<1>2. ASSUME job[u].at \in {"dropEP", "delistEP"}
      PROVE  /\ job[u].ep \in DOMAIN obj /\ obj[job[u].ep].kind = "ep"
             /\ Works(u, "ep", obj[job[u].ep].id)
  BY <1>2, Destroying DEF Works, Holds
<1>3. QED
  BY <1>1, <1>2

\* The endpoints of the others stay bare.
LEMMA OthersBare ==
    ASSUME Types, Alone, Links, NEW t \in Threads, Moves(t), MoreRaced,
           \A p \in DOMAIN obj : obj[p].kind = "ep" =>
              obj'[p].node \in {obj[p].node, 0} \/ Works(t, "ep", obj[p].id)
    PROVE  \A u \in Threads \ {t} : Bare(u)'
<1>1. SUFFICES ASSUME NEW u \in Threads \ {t} PROVE Bare(u)'
  OBVIOUS
<1>2. job'[u] = job[u] /\ Bare(u)
  BY DEF Moves, OthersStay, Links
<1>3. ASSUME NEW p \in DOMAIN obj, obj[p].kind = "ep", obj[p].node = 0, ~Raced("ep", obj[p].id),
             Works(u, "ep", obj[p].id)
      PROVE  obj'[p].node = 0
  BY <1>3, NobodyElse
<1>4. ASSUME job[u].kind = "ep", job[u].at \in {"append", "add", "seek", "link"}, ~Raced("ep", job[u].id)'
      PROVE  obj'[job[u].ptr].node = 0
  <2>1. Is(job[u].ptr, "ep", job[u].id) /\ Works(u, "ep", job[u].id) /\ ~Raced("ep", job[u].id)
    BY <1>2, <1>4, BareWorks DEF Raced, MoreRaced
  <2>2. QED
    BY <1>2, <1>3, <1>4, <2>1 DEF Bare, Is
<1>5. ASSUME job[u].at \in {"dropEP", "delistEP"}, ~Raced("ep", obj[job[u].ep].id)'
      PROVE  obj'[job[u].ep].node = 0
  <2>1. /\ job[u].ep \in DOMAIN obj /\ obj[job[u].ep].kind = "ep"
        /\ Works(u, "ep", obj[job[u].ep].id)
    BY <1>5, BareWorks
  <2>2. ~Raced("ep", obj[job[u].ep].id)
    BY <1>2, <1>5, <2>1 DEF Raced, MoreRaced, Moves, ObjGrows
  <2>3. QED
    BY <1>2, <1>3, <1>5, <2>1, <2>2 DEF Bare
<1>6. QED
  BY <1>2, <1>4, <1>5 DEF Bare

\* A step that links nothing: what it frees has no node.
SameLinks ==
    /\ \A p \in DOMAIN obj : obj[p].kind = "ep" =>
          \/ obj'[p].alive = obj[p].alive /\ obj'[p].node = obj[p].node
          \/ Raced("ep", obj[p].id) /\ obj'[p].node \in {obj[p].node, 0}
          \/ obj[p].node = 0 /\ obj'[p].node = 0
    /\ \A p \in DOMAIN obj' : obj'[p].eps = <<>> \/ (p \in DOMAIN obj /\ obj'[p].eps = obj[p].eps)

LEMMA LinksKept ==
    ASSUME Types, Alone, Links, NEW t \in Threads, Moves(t), MoreRaced, SameLinks, Bare(t)'
    PROVE  Links'
<1>1. \A u \in Threads : Bare(u)'
  BY OthersBare DEF SameLinks
<1>2. ASSUME NEW n \in DOMAIN obj' PROVE Attached(n)'
  <2>1. SUFFICES ASSUME NEW i \in DOMAIN obj'[n].eps, ~Raced("ep", obj[obj[n].eps[i]].id)'
                 PROVE  LET e == obj'[n].eps[i]
                        IN  /\ obj'[e].alive /\ obj'[e].node = n
                            /\ \A j \in DOMAIN obj'[n].eps : obj'[n].eps[j] = e => i = j
    BY DEF Attached
  <2>2. n \in DOMAIN obj /\ obj'[n].eps = obj[n].eps
    BY <2>1, EmptySeq DEF SameLinks
  <2> DEFINE e == obj[n].eps[i]
  <2>3. e \in DOMAIN obj /\ obj[e].kind = "ep" /\ obj[n].eps \in Seq(Nat)
    BY <2>1, <2>2, InEps
  <2>4. ~Raced("ep", obj[e].id)
    BY <2>1, <2>2, <2>3 DEF Raced, MoreRaced, Moves, ObjGrows
  <2>5. /\ obj[e].alive /\ obj[e].node = n
        /\ \A j \in DOMAIN obj[n].eps : obj[n].eps[j] = e => i = j
    BY <2>1, <2>2, <2>4 DEF Links, Attached
  <2>6. obj'[e].alive = obj[e].alive /\ obj'[e].node = obj[e].node
    <3>1. n # 0
      BY <2>2, ObjFacts DEF Types
    <3> HIDE DEF e
    <3>2. QED
      BY <2>3, <2>4, <2>5, <3>1 DEF SameLinks
  <2>7. QED
    BY <2>2, <2>5, <2>6
<1>3. QED
  BY <1>1, <1>2 DEF Links

LEMMA RunLinks == ASSUME OnlyRun PROVE SameLinks
  BY DEF OnlyRun, SameLinks

LEMMA UnchangedLinks == ASSUME UNCHANGED obj PROVE SameLinks
  BY DEF SameLinks

LEMMA MadeLinks ==
    ASSUME Types, NEW t \in Threads, job[t].at # "idle", obj' = Append(obj, Fresh(job[t]))
    PROVE  SameLinks
<1>1. /\ DOMAIN obj' = DOMAIN obj \cup {Len(obj) + 1} /\ \A q \in DOMAIN obj : obj'[q] = obj[q]
      /\ obj'[Len(obj) + 1] = Fresh(job[t])
  BY MadeFrom
<1>2. obj'[Len(obj) + 1].eps = <<>>
  BY MadeFrom
<1>3. QED
  BY <1>1, <1>2 DEF SameLinks

LEMMA RewrittenLinks ==
    ASSUME Types, NEW p \in DOMAIN obj, NEW c \in Contents, obj' = [obj EXCEPT ![p].info = c]
    PROVE  SameLinks
<1>1. /\ DOMAIN obj' = DOMAIN obj /\ \A q \in DOMAIN obj \ {p} : obj'[q] = obj[q]
      /\ obj'[p] = [obj[p] EXCEPT !.info = c] /\ obj[p] \in Objects
  BY Rewritten, ObjFacts DEF Types
<1>2. obj'[p].alive = obj[p].alive /\ obj'[p].node = obj[p].node /\ obj'[p].eps = obj[p].eps
  BY <1>1 DEF Objects
<1>3. QED
  BY <1>1, <1>2 DEF SameLinks

LEMMA SwitchedLinks ==
    ASSUME Types, NEW p \in DOMAIN obj, NEW b \in BOOLEAN, obj' = [obj EXCEPT ![p].run = b]
    PROVE  SameLinks
<1>1. /\ DOMAIN obj' = DOMAIN obj /\ \A q \in DOMAIN obj \ {p} : obj'[q] = obj[q]
      /\ obj'[p] = [obj[p] EXCEPT !.run = b] /\ obj[p] \in Objects
  BY Switched, ObjFacts DEF Types
<1>2. obj'[p].alive = obj[p].alive /\ obj'[p].node = obj[p].node /\ obj'[p].eps = obj[p].eps
  BY <1>1 DEF Objects
<1>3. QED
  BY <1>1, <1>2 DEF SameLinks

LEMMA FreedLinks ==
    ASSUME Types, NEW p \in DOMAIN obj, obj' = [obj EXCEPT ![p] = [Fresh(@) EXCEPT !.alive = FALSE]],
           obj[p].kind = "ep" => Raced("ep", obj[p].id) \/ obj[p].node = 0
    PROVE  SameLinks
  BY Freed DEF SameLinks

\* What thread t goes on with says nothing of an endpoint on its way.
Plainly(t) ==
    \/ job'[t].at \notin {"append", "add", "seek", "link", "dropEP", "delistEP"}
    \/ job'[t].kind # "ep" /\ job'[t].at \notin {"dropEP", "delistEP"}

LEMMA PlainlyBare == ASSUME NEW t, Plainly(t) PROVE Bare(t)'
  BY DEF Plainly, Bare

LEMMA PlainlyGoes ==
    ASSUME Types, NEW t \in Threads, job[t].at # "idle",
           \/ End(t)
           \/ \E place \in Places \ {"dropEP", "delistEP"} :
                /\ Goto(t, place) \/ Make(t, place)
                /\ job[t].kind # "ep" \/ place \notin {"append", "add", "seek", "link"}
    PROVE  Plainly(t)
<1>1. CASE End(t)
  BY <1>1, Ended, IdleFields DEF Types, Plainly
<1>2. ASSUME NEW place \in Places \ {"dropEP", "delistEP"}, Goto(t, place) \/ Make(t, place),
             job[t].kind # "ep" \/ place \notin {"append", "add", "seek", "link"}
      PROVE  Plainly(t)
  <2>1. job'[t].at = place /\ job'[t].kind = job[t].kind
    BY <1>2, Went, MakeStep DEF Types, SameJob
  <2>2. QED
    BY <1>2, <2>1 DEF Plainly
<1>3. QED
  BY <1>1, <1>2

LEMMA GivenLinks ==
    ASSUME Types, Alone, Links, NEW t \in Threads,
           \/ \E j : t \in Consoles /\ Begins(t, j)
           \/ \E j : t = Main /\ MainBegins(j)
    PROVE  Links'
<1>1. CASE \E j : t \in Consoles /\ Begins(t, j)
  <2>1. PICK j : t \in Consoles /\ Begins(t, j)
    BY <1>1
  <2>2. job'[t] = j /\ Moves(t) /\ MoreRaced /\ SameLinks
    BY <2>1, BeginsMoves, RunLinks DEF Begins
  <2>3. Plainly(t)
    BY <2>1, <2>2, IdleFields DEF Begins, Asked, Plainly, Plain
  <2>4. QED
    BY <2>2, <2>3, PlainlyBare, LinksKept
<1>2. CASE \E j : t = Main /\ MainBegins(j)
  <2>1. PICK j : t = Main /\ MainBegins(j)
    BY <1>2
  <2>2. job'[t] = j /\ Moves(t) /\ MoreRaced /\ SameLinks
    BY <2>1, MainBeginsMoves, RunLinks
  <2>3. Plainly(t)
    BY <2>1, <2>2 DEF MainBegins, Loads, Starts, Plainly, Plain
  <2>4. QED
    BY <2>2, <2>3, PlainlyBare, LinksKept
<1>3. QED
  BY <1>1, <1>2

LEMMA RestsLinks == ASSUME Types, Links, MainRests PROVE Links'
<1>1. UNCHANGED <<obj, job>> /\ history'.raced = history.raced
  BY DEF MainRests, MainStep, memory
<1>2. QED
  BY <1>1 DEF Links, Attached, Bare, Raced

\* The steps of a node that have no endpoint in hand.
LEMMA NodeLinks ==
    ASSUME Types, Alone, Links, NEW t \in Threads, NodeStep(t), ~EmptyNode(t), ~PurgeNode(t)
    PROVE  Links'
<1>0. /\ job[t].at # "idle" /\ job[t].kind = "node" /\ Moves(t) /\ MoreRaced
      /\ job[t].at # "look" => job[t].ptr \in DOMAIN obj /\ obj[job[t].ptr].kind = "node"
      /\ job[t].info \in Contents
  <2>1. job[t].at # "idle" /\ job[t].kind = "node"
    BY DEF NodeStep, At, LookNode, AddNode, AppendNode, StartNode, EmptyNode, DropNode, PurgeNode, DelistNode,
           WriteNode, SaveNode
  <2>2. Hand(job[t]) /\ job[t] \in Jobs
    BY <2>1, HandOf
  <2>3. Step(t)
    BY <2>1 DEF Step
  <2>4. QED
    BY <2>1, <2>2, <2>3, StepTypes, StepRaces DEF Hand, NodeHand, Is, Jobs
<1>1. CASE LookNode(t)
  <2>1. SameLinks
    BY <1>0, <1>1, MadeLinks, UnchangedLinks DEF LookNode, Make
  <2>2. Plainly(t)
    BY <1>0, <1>1, PlainlyGoes DEF LookNode, Places
  <2>3. QED
    BY <1>0, <2>1, <2>2, PlainlyBare, LinksKept
<1>2. CASE AddNode(t) \/ DropNode(t) \/ SaveNode(t)
  <2>1. SameLinks
    BY <1>2, UnchangedLinks DEF AddNode, DropNode, SaveNode, DBStep, memory
  <2>2. Plainly(t)
    BY <1>0, <1>2, PlainlyGoes DEF AddNode, DropNode, SaveNode, Places
  <2>3. QED
    BY <1>0, <2>1, <2>2, PlainlyBare, LinksKept
<1>3. CASE AppendNode(t)
  <2>1. SameLinks
    BY <1>3, UnchangedLinks DEF AppendNode
  <2>2. Plainly(t)
    BY <1>0, <1>3, PlainlyGoes DEF AppendNode, Places
  <2>3. QED
    BY <1>0, <2>1, <2>2, PlainlyBare, LinksKept
<1>4. CASE StartNode(t)
  <2>1. SameLinks
    <3>1. /\ job[t].new \in BOOLEAN /\ TRUE \in BOOLEAN /\ (~job[t].new) \in BOOLEAN
          /\ job[t].ptr \in DOMAIN obj
      BY <1>0, <1>4, HandOf DEF StartNode, At, Jobs
    <3>2. QED
      BY <1>4, <3>1, UnchangedLinks, SwitchedLinks DEF StartNode
  <2>2. Plainly(t)
    BY <1>0, <1>4, PlainlyGoes DEF StartNode, Places
  <2>3. QED
    BY <1>0, <2>1, <2>2, PlainlyBare, LinksKept
<1>5. CASE WriteNode(t)
  <2>1. SameLinks
    BY <1>0, <1>5, RewrittenLinks, UnchangedLinks DEF WriteNode, At
  <2>2. Plainly(t)
    BY <1>0, <1>5, PlainlyGoes DEF WriteNode, Places
  <2>3. QED
    BY <1>0, <2>1, <2>2, PlainlyBare, LinksKept
<1>6. CASE DelistNode(t)
  <2>1. SameLinks
    BY <1>0, <1>6, FreedLinks DEF DelistNode, Unlist, At
  <2>2. Plainly(t)
    BY <1>0, <1>6, PlainlyGoes DEF DelistNode
  <2>3. QED
    BY <1>0, <2>1, <2>2, PlainlyBare, LinksKept
<1>7. QED
  BY <1>1, <1>2, <1>3, <1>4, <1>5, <1>6 DEF NodeStep

LEMMA PlainLinks ==
    ASSUME Types, Alone, Links, NEW t \in Threads, NEW k \in Plain, PlainStep(t, k)
    PROVE  Links'
<1>0. /\ job[t].at # "idle" /\ job[t].kind = k /\ k # "ep" /\ Moves(t) /\ MoreRaced
      /\ job[t].at # "append" => job[t].ptr \in DOMAIN obj /\ obj[job[t].ptr].kind = k
      /\ job[t].info \in Contents
  <2>1. job[t].at # "idle" /\ job[t].kind = k /\ k # "ep"
    BY DEF PlainStep, At, AppendPlain, AddPlain, DropPlain, DelistPlain, SavePlain, WritePlain, Plain
  <2>2. Hand(job[t]) /\ job[t] \in Jobs
    BY <2>1, HandOf
  <2>3. Moves(t)
    BY AppendPlainTypes, AddPlainTypes, DropPlainTypes, DelistPlainTypes, SavePlainTypes,
     WritePlainTypes DEF PlainStep
  <2>4. QED
    BY <2>1, <2>2, <2>3, PlainRaces DEF Hand, PlainHand, Is, Jobs
<1>1. CASE AppendPlain(t, k)
  <2>1. SameLinks
    BY <1>0, <1>1, MadeLinks DEF AppendPlain
  <2>2. Plainly(t)
    <3>1. CASE End(t)
      BY <1>0, <3>1, PlainlyGoes
    <3>2. CASE job' = [job EXCEPT ![t].ptr = Len(obj) + 1, ![t].at = "add"]
      <4>1. job \in [Threads -> Jobs] /\ job[t] \in Jobs
        BY DEF Types, TypeOK
      <4>2. job'[t] = [job[t] EXCEPT !.ptr = Len(obj) + 1, !.at = "add"]
        BY <3>2, <4>1
      <4>3. QED
        BY <1>0, <4>1, <4>2 DEF Plainly, Jobs
    <3>3. QED
      BY <1>1, <3>1, <3>2 DEF AppendPlain
  <2>3. QED
    BY <1>0, <2>1, <2>2, PlainlyBare, LinksKept
<1>2. CASE AddPlain(t, k) \/ DropPlain(t, k) \/ SavePlain(t, k)
  <2>1. SameLinks
    BY <1>2, UnchangedLinks DEF AddPlain, DropPlain, SavePlain, DBStep, memory
  <2>2. Plainly(t)
    BY <1>0, <1>2, PlainlyGoes DEF AddPlain, DropPlain, SavePlain, Places
  <2>3. QED
    BY <1>0, <2>1, <2>2, PlainlyBare, LinksKept
<1>3. CASE DelistPlain(t, k)
  <2>1. SameLinks
    BY <1>0, <1>3, FreedLinks DEF DelistPlain, Unlist, At
  <2>2. Plainly(t)
    BY <1>0, <1>3, PlainlyGoes DEF DelistPlain
  <2>3. QED
    BY <1>0, <2>1, <2>2, PlainlyBare, LinksKept
<1>4. CASE WritePlain(t, k)
  <2>1. SameLinks
    BY <1>0, <1>4, RewrittenLinks DEF WritePlain, At
  <2>2. Plainly(t)
    BY <1>0, <1>4, PlainlyGoes DEF WritePlain
  <2>3. QED
    BY <1>0, <2>1, <2>2, PlainlyBare, LinksKept
<1>5. QED
  BY <1>1, <1>2, <1>3, <1>4 DEF PlainStep

\* An endpoint is parted from the node it has.
LEMMA PartedLinks ==
    ASSUME Types, Alone, Links, NEW t \in Threads, Moves(t), MoreRaced, Bare(t)',
           NEW e \in DOMAIN obj, NEW n \in DOMAIN obj, obj[e].kind = "ep", obj[n].kind = "node",
           obj[e].node = n, obj' = Unlinked(e, n)
    PROVE  Links'
<1>1. /\ DOMAIN obj' = DOMAIN obj /\ e # n
      /\ \A q \in DOMAIN obj \ {e, n} : obj'[q] = obj[q]
      /\ obj'[e] = [obj[e] EXCEPT !.node = 0]
      /\ obj'[n] = [obj[n] EXCEPT !.eps = Without(obj[n].eps, e)]
      /\ \A q \in DOMAIN obj : obj[q] \in Objects /\ q # 0
  BY Parted, ObjFacts DEF Types
<1>2. /\ obj'[e].node = 0 /\ obj'[e].alive = obj[e].alive /\ obj'[e].eps = obj[e].eps
      /\ obj'[n].node = obj[n].node /\ obj'[n].alive = obj[n].alive
      /\ obj'[n].eps = Without(obj[n].eps, e) /\ obj[n].eps \in Seq(Nat) /\ n \in Nat
  BY <1>1, ObjFacts DEF Objects, Types
<1>3. \A u \in Threads : Bare(u)'
  <2>1. \A p \in DOMAIN obj : obj'[p].node \in {obj[p].node, 0}
    BY <1>1, <1>2
  <2>2. QED
    BY <2>1, OthersBare
<1>4. ASSUME NEW x \in DOMAIN obj, obj[x].kind = "ep", x # e
      PROVE  obj'[x].alive = obj[x].alive /\ obj'[x].node = obj[x].node
  BY <1>1, <1>4
<1>5. ASSUME NEW m \in DOMAIN obj \ {n} PROVE Attached(m)'
  <2>1. obj'[m].eps = obj[m].eps
    BY <1>1, <1>2
  <2>2. SUFFICES ASSUME NEW i \in DOMAIN obj[m].eps, ~Raced("ep", obj[obj[m].eps[i]].id)'
                 PROVE  LET x == obj[m].eps[i]
                        IN  /\ obj'[x].alive /\ obj'[x].node = m
                            /\ \A j \in DOMAIN obj[m].eps : obj[m].eps[j] = x => i = j
    BY <2>1 DEF Attached
  <2> DEFINE x == obj[m].eps[i]
  <2>3. x \in DOMAIN obj /\ obj[x].kind = "ep"
    BY InEps
  <2>4. ~Raced("ep", obj[x].id)
    BY <2>1, <2>2, <2>3 DEF Raced, MoreRaced, Moves, ObjGrows
  <2>5. /\ obj[x].alive /\ obj[x].node = m
        /\ \A j \in DOMAIN obj[m].eps : obj[m].eps[j] = x => i = j
    BY <2>4 DEF Links, Attached
  <2> HIDE DEF x
  <2>6. QED
    BY <1>4, <2>3, <2>5 DEF x
<1>6. Attached(n)'
  <2> DEFINE q == obj[n].eps
             r == Without(obj[n].eps, e)
  <2>1. r \in Seq(Nat) /\ ToSet(r) \subseteq ToSet(q)
    BY <1>2, WithoutType
  <2>2. SUFFICES ASSUME NEW i \in DOMAIN r, ~Raced("ep", obj[obj[n].eps[i]].id)'
                 PROVE  /\ obj'[r[i]].alive /\ obj'[r[i]].node = n
                        /\ \A j \in DOMAIN r : r[j] = r[i] => i = j
    <3>1. obj'[n].eps = r
      BY <1>2
    <3> HIDE DEF r
    <3>2. QED
      BY <3>1 DEF Attached
  <2> DEFINE x == r[i]
  <2>3. PICK k \in DOMAIN q : q[k] = x
    <3>1. x \in ToSet(r)
      BY <2>1, SeqFacts
    <3>2. x \in ToSet(q)
      BY <2>1, <3>1
    <3> HIDE DEF x, r
    <3>3. QED
      BY <1>2, <3>2, SeqFacts
  <2>4. x \in DOMAIN obj /\ obj[x].kind = "ep"
    BY <2>3, InEps
  <2>5. ~Raced("ep", obj[x].id)
    <3>1. obj'[n].eps = r /\ obj'[x].id = obj[x].id
      BY <1>2, <2>4 DEF Moves, ObjGrows
    <3> HIDE DEF r
    <3>2. QED
      BY <2>2, <3>1 DEF Raced, MoreRaced
  <2>6. obj[x].alive /\ obj[x].node = n /\ \A a, b \in DOMAIN q : q[a] = x /\ q[b] = x => a = b
    BY <2>3, <2>5 DEF Links, Attached
  <2>7. x # e
    <3>1. e \notin ToSet(r) \/ \E a, b \in DOMAIN q : q[a] = e /\ q[b] = e /\ a # b
      BY <1>2, WithoutTakes
    <3>2. x \in ToSet(r)
      BY <2>1, SeqFacts
    <3>3. QED
      BY <2>6, <3>1, <3>2
  <2>8. ASSUME NEW j \in DOMAIN r, r[j] = x PROVE i = j
    <3>1. \A a, b \in DOMAIN r : a < b => \E k1, l1 \in DOMAIN q : k1 < l1 /\ r[a] = q[k1] /\ r[b] = q[l1]
      <4>1. q \in Seq(Nat)
        BY <1>2
      <4> HIDE DEF q
      <4>2. \A a, b \in DOMAIN Without(q, e) : a < b =>
               \E k1, l1 \in DOMAIN q :
                  k1 < l1 /\ Without(q, e)[a] = q[k1] /\ Without(q, e)[b] = q[l1]
        BY <4>1, WithoutOrder
      <4>3. r = Without(q, e)
        BY DEF q
      <4> HIDE DEF r
      <4>4. QED
        BY <4>2, <4>3
    <3>2. i \in Nat /\ j \in Nat /\ DOMAIN q \subseteq Nat
      <4>1. DOMAIN q = 1..Len(q) /\ DOMAIN r = 1..Len(r) /\ Len(q) \in Nat /\ Len(r) \in Nat
        BY <1>2, <2>1, SeqFacts
      <4> HIDE DEF q, r
      <4>2. QED
        BY <4>1
    <3>3. ~(i < j) /\ ~(j < i)
      <4> HIDE DEF r, q
      <4>1. QED
        BY <2>6, <2>8, <3>1, <3>2
    <3>4. QED
      BY <3>2, <3>3
  <2> HIDE DEF r
  <2>9. QED
    BY <1>4, <2>4, <2>6, <2>7, <2>8
<1>7. QED
  BY <1>1, <1>3, <1>5, <1>6 DEF Links

\* A job that stays with its object, and the object as it is.
LEMMA BareStays ==
    ASSUME Types, Links, NEW t \in Threads, Moves(t), MoreRaced, SameLinks, SameJob(t),
           job'[t].kind = "ep", job'[t].at \in {"append", "add", "seek", "link"},
           job'[t].ptr = job[t].ptr, job[t].ptr \in DOMAIN obj, obj[job[t].ptr].kind = "ep",
           obj[job[t].ptr].node = 0 \/ job[t].at \in {"append", "add", "seek", "link"}
    PROVE  Bare(t)'
<1>1. SUFFICES ASSUME ~Raced("ep", job[t].id)' PROVE obj'[job[t].ptr].node = 0
  BY DEF Bare
<1>2. ~Raced("ep", job[t].id)
  BY <1>1 DEF Raced, MoreRaced, SameJob
<1>3. obj[job[t].ptr].node = 0
  BY <1>2 DEF Links, Bare, SameJob
<1>4. QED
  BY <1>3 DEF SameLinks

LEMMA EPLinks ==
    ASSUME Types, Alone, Links, NEW t \in Threads,
           LookEP(t) \/ AppendEP(t) \/ AddEP(t) \/ SeekNode(t) \/ SaveEP(t) \/ WriteEP(t)
    PROVE  Links'
<1>0. /\ job[t].at # "idle" /\ job[t].kind = "ep" /\ Moves(t) /\ MoreRaced
      /\ job[t].at # "look" => job[t].ptr \in DOMAIN obj /\ obj[job[t].ptr].kind = "ep"
      /\ job[t] \in Jobs /\ job \in [Threads -> Jobs]
  <2>1. /\ job[t].at # "idle" /\ job[t].kind = "ep"
        /\ job[t].at \notin {"unlink", "unhook", "dropEP", "delistEP"}
    BY DEF At, LookEP, AppendEP, AddEP, SeekNode, SaveEP, WriteEP
  <2>2. Hand(job[t]) /\ job[t] \in Jobs
    BY <2>1, HandOf
  <2>3. EPStep(t) /\ Step(t)
    BY <2>1 DEF Step, EPStep
  <2>4. QED
    BY <2>1, <2>2, <2>3, StepTypes, StepRaces DEF Hand, EPHand, Is, Types, TypeOK
<1>1. CASE LookEP(t)
  <2>1. SameLinks
    BY <1>0, <1>1, MadeLinks, UnchangedLinks DEF LookEP, Make
  <2>2. CASE End(t)
    BY <1>0, <2>1, <2>2, PlainlyGoes, PlainlyBare, LinksKept
  <2>3. CASE Make(t, "append")
    <3>1. job'[t].ptr = Len(obj) + 1 /\ job'[t].at = "append"
      BY <1>0, <2>3, MakeStep DEF Places
    <3>2. obj'[Len(obj) + 1].node = 0
      BY <1>0, <2>3, MadeFrom DEF Make, Fresh
    <3>3. Bare(t)'
      BY <3>1, <3>2 DEF Bare
    <3>4. QED
      BY <1>0, <2>1, <3>3, LinksKept
  <2>4. QED
    BY <1>1, <2>2, <2>3 DEF LookEP
<1>2. CASE AppendEP(t) \/ AddEP(t) \/ SeekNode(t)
  <2>1. SameLinks /\ job[t].at \in {"append", "add", "seek"}
    BY <1>2, UnchangedLinks DEF AppendEP, AddEP, SeekNode, At, DBStep, memory
  <2>2. CASE End(t)
    BY <1>0, <2>1, <2>2, PlainlyGoes, PlainlyBare, LinksKept
  <2>3. ASSUME NEW place \in {"add", "seek", "link"}, Goto(t, place)
        PROVE  Links'
    <3>1. SameJob(t) /\ job'[t].at = place /\ job'[t].ptr = job[t].ptr
      BY <2>3, Went DEF Types, Places, SameHands
    <3>2. Bare(t)'
      BY <1>0, <2>1, <2>3, <3>1, BareStays DEF SameJob
    <3>3. QED
      BY <1>0, <2>1, <3>2, LinksKept
  <2>4. ASSUME NEW n, job' = [job EXCEPT ![t].node = n, ![t].at = "link"]
        PROVE  Links'
    <3>1. job'[t] = [job[t] EXCEPT !.node = n, !.at = "link"]
      BY <1>0, <2>4
    <3>2. SameJob(t) /\ job'[t].at = "link" /\ job'[t].ptr = job[t].ptr
      BY <1>0, <3>1 DEF SameJob, Jobs
    <3>3. Bare(t)'
      BY <1>0, <2>1, <2>4, <3>2, BareStays DEF SameJob
    <3>4. QED
      BY <1>0, <2>1, <3>3, LinksKept
  <2>5. QED
    BY <1>2, <2>2, <2>3, <2>4 DEF AppendEP, AddEP, SeekNode
<1>3. CASE SaveEP(t)
  <2>1. SameLinks
    BY <1>3, UnchangedLinks DEF SaveEP, DBStep, memory
  <2>2. Plainly(t)
    BY <1>0, <1>3, PlainlyGoes DEF SaveEP, Places
  <2>3. QED
    BY <1>0, <2>1, <2>2, PlainlyBare, LinksKept
<1>4. CASE WriteEP(t)
  <2>1. job[t].at = "write" /\ job[t].info \in Contents
    BY <1>0, <1>4 DEF WriteEP, At, Jobs
  <2>2. SameLinks
    BY <1>0, <1>4, <2>1, RewrittenLinks DEF WriteEP
  <2>3. CASE End(t)
    BY <1>0, <2>2, <2>3, PlainlyGoes, PlainlyBare, LinksKept
  <2>4. CASE obj[job[t].ptr].node = 0 /\ Goto(t, "seek")
    <3>1. SameJob(t) /\ job'[t].at = "seek" /\ job'[t].ptr = job[t].ptr
      BY <2>4, Went DEF Types, Places, SameHands
    <3>2. Bare(t)'
      BY <1>0, <2>1, <2>2, <2>4, <3>1, BareStays DEF SameJob
    <3>3. QED
      BY <1>0, <2>2, <3>2, LinksKept
  <2>5. QED
    BY <1>4, <2>3, <2>4 DEF WriteEP
<1>5. QED
  BY <1>1, <1>2, <1>3, <1>4

Hooked(e, n) == [obj EXCEPT ![e].node = n, ![n].eps = Append(@, e)]

LEMMA AttachedBy ==
    ASSUME NEW n, NEW q, obj'[n].eps = q,
           \A i \in DOMAIN q : ~Raced("ep", obj[obj[n].eps[i]].id)' =>
              /\ obj'[q[i]].alive /\ obj'[q[i]].node = n
              /\ \A j \in DOMAIN q : q[j] = q[i] => i = j
    PROVE  Attached(n)'
  BY DEF Attached

\* An endpoint that has no node, and so is in no list, is joined to one.
LEMMA JoinedLinks ==
    ASSUME Types, Alone, Links, NEW t \in Threads, Moves(t), MoreRaced, Bare(t)',
           NEW e \in DOMAIN obj, NEW n \in DOMAIN obj, obj[e].kind = "ep", obj[n].kind = "node",
           obj[e].alive, Works(t, "ep", obj[e].id), ~Raced("ep", obj[e].id) => obj[e].node = 0,
           obj' = Hooked(e, n)
    PROVE  Links'
<1>1. /\ DOMAIN obj' = DOMAIN obj /\ e # n
      /\ \A q \in DOMAIN obj \ {e, n} : obj'[q] = obj[q]
      /\ obj'[e] = [obj[e] EXCEPT !.node = n]
      /\ obj'[n] = [obj[n] EXCEPT !.eps = Append(obj[n].eps, e)]
      /\ \A q \in DOMAIN obj : obj[q] \in Objects /\ q \in Nat
  BY Joined, ObjFacts DEF Types, Hooked
<1>2. /\ obj'[e].node = n /\ obj'[e].alive = obj[e].alive /\ obj'[e].eps = obj[e].eps
      /\ obj'[n].node = obj[n].node /\ obj'[n].alive = obj[n].alive
      /\ obj'[n].eps = Append(obj[n].eps, e) /\ obj[n].eps \in Seq(Nat)
  <2>1. obj[e] \in Objects /\ obj[n] \in Objects
    BY <1>1
  <2>2. obj'[e].node = n /\ obj'[e].alive = obj[e].alive /\ obj'[e].eps = obj[e].eps
    BY <1>1, <2>1 DEF Objects
  <2>3. /\ obj'[n].node = obj[n].node /\ obj'[n].alive = obj[n].alive
        /\ obj'[n].eps = Append(obj[n].eps, e) /\ obj[n].eps \in Seq(Nat)
    BY <1>1, <2>1 DEF Objects
  <2>4. QED
    BY <2>2, <2>3
<1>3. \A u \in Threads : Bare(u)'
  <2>1. \A p \in DOMAIN obj : obj[p].kind = "ep" =>
            obj'[p].node \in {obj[p].node, 0} \/ Works(t, "ep", obj[p].id)
    BY <1>1, <1>2
  <2>2. QED
    BY <2>1, OthersBare
<1>4. ASSUME ~Raced("ep", obj[e].id) PROVE \A m \in DOMAIN obj : e \notin ToSet(obj[m].eps)
  BY <1>4, Nowhere
<1>5. ASSUME NEW m \in DOMAIN obj, NEW i \in DOMAIN obj[m].eps, ~Raced("ep", obj[obj[m].eps[i]].id)
      PROVE  /\ obj[m].eps[i] \in DOMAIN obj /\ obj[m].eps[i] # e
             /\ obj'[obj[m].eps[i]].alive /\ obj'[obj[m].eps[i]].node = m
             /\ \A j \in DOMAIN obj[m].eps : obj[m].eps[j] = obj[m].eps[i] => i = j
  <2> DEFINE x == obj[m].eps[i]
  <2>1. x \in DOMAIN obj /\ obj[x].kind = "ep" /\ x \in ToSet(obj[m].eps)
    BY InEps, SeqFacts
  <2>2. /\ obj[x].alive /\ obj[x].node = m
        /\ \A j \in DOMAIN obj[m].eps : obj[m].eps[j] = x => i = j
    BY <1>5 DEF Links, Attached
  <2>3. x # e /\ x # n
    BY <1>4, <1>5, <2>1
  <2> HIDE DEF x
  <2>4. QED
    BY <1>1, <2>1, <2>2, <2>3 DEF x
<1>6. ASSUME NEW x \in DOMAIN obj, ~Raced("ep", obj[x].id)' PROVE ~Raced("ep", obj[x].id)
  BY <1>6 DEF Raced, MoreRaced, Moves, ObjGrows
<1>7. ASSUME NEW m \in DOMAIN obj \ {n} PROVE Attached(m)'
  <2>1. obj'[m].eps = obj[m].eps
    BY <1>1, <1>2
  <2>2. \A i \in DOMAIN obj[m].eps : obj[m].eps[i] \in DOMAIN obj
    BY InEps
  <2>3. QED
    BY <1>5, <1>6, <2>1, <2>2 DEF Attached
<1>8. Attached(n)'
  <2> DEFINE q == obj[n].eps
             r == Append(q, e)
  <2>1. q \in Seq(Nat) /\ e \in Nat
    BY <1>1, <1>2
  <2>2. /\ DOMAIN r = DOMAIN q \cup {Len(q) + 1} /\ Len(q) + 1 \notin DOMAIN q
        /\ \A i \in DOMAIN q : r[i] = q[i] /\ q[i] \in ToSet(q)
        /\ r[Len(q) + 1] = e
    <3> HIDE DEF q
    <3>1. QED
      BY <2>1, Appended, SeqFacts
  <2>3. \A i \in DOMAIN q : q[i] \in DOMAIN obj
    BY InEps
  <2>4. obj'[n].eps = r
    BY <1>2
  <2>5. ASSUME NEW i \in DOMAIN r, ~Raced("ep", obj[obj[n].eps[i]].id)'
        PROVE  /\ obj'[r[i]].alive /\ obj'[r[i]].node = n
               /\ \A j \in DOMAIN r : r[j] = r[i] => i = j
    <3>1. ~Raced("ep", obj[r[i]].id)
      <4>1. r[i] \in DOMAIN obj
        BY <2>2, <2>3
      <4> HIDE DEF r
      <4>2. QED
        BY <1>6, <2>4, <2>5, <4>1
    <3>2. CASE i \in DOMAIN q
      <4>1. r[i] = q[i]
        BY <2>2, <3>2
      <4>2. ~Raced("ep", obj[q[i]].id)
        BY <3>1, <4>1
      <4>3. /\ q[i] # e /\ obj'[q[i]].alive /\ obj'[q[i]].node = n
            /\ \A j \in DOMAIN q : q[j] = q[i] => i = j
        BY <1>5, <3>2, <4>2
      <4> HIDE DEF r, q
      <4>4. QED
        BY <2>2, <4>1, <4>3
    <3>3. CASE i = Len(q) + 1
      <4>1. r[i] = e
        BY <2>2, <3>3
      <4>2. e \notin ToSet(q)
        BY <1>4, <3>1, <4>1
      <4> HIDE DEF r, q
      <4>3. QED
        BY <1>2, <2>2, <3>3, <4>1, <4>2
    <3>4. QED
      BY <2>2, <3>2, <3>3
  <2> HIDE DEF r
  <2>6. QED
    BY <2>4, <2>5, AttachedBy
<1>9. QED
  BY <1>1, <1>3, <1>7, <1>8 DEF Links

\* FTOM_NODE_linkEP.
LEMMA LinkLinks == ASSUME Types, Alone, Links, NEW t \in Threads, LinkEP(t) PROVE Links'
<1>0. /\ job[t].at = "link" /\ job[t].kind = "ep" /\ Moves(t) /\ MoreRaced
      /\ Is(job[t].ptr, "ep", job[t].id) /\ Is(job[t].node, "node", job[t].info) /\ obj[job[t].ptr].alive
      /\ Works(t, "ep", obj[job[t].ptr].id)
  <2>1. job[t].at = "link" /\ job[t].kind = "ep" /\ Uses(t) \subseteq Live
    BY DEF At, LinkEP
  <2>2. Hand(job[t]) /\ Uses(t) = {job[t].ptr, job[t].node}
    BY <2>1, HandOf DEF Uses
  <2>3. EPStep(t) /\ Step(t)
    BY <2>1 DEF Step, EPStep
  <2>4. Is(job[t].ptr, "ep", job[t].id) /\ Is(job[t].node, "node", job[t].info) /\ obj[job[t].ptr].alive
    BY <2>1, <2>2 DEF Hand, EPHand, Live
  <2>5. Works(t, "ep", obj[job[t].ptr].id)
    BY <2>1, <2>4 DEF Works, Holds, Key, Is
  <2>6. QED
    BY <2>1, <2>3, <2>4, <2>5, StepTypes, StepRaces
<1>1. CASE End(t)
  <2>1. Bare(t)'
    BY <1>0, <1>1, PlainlyGoes, PlainlyBare
  <2>2. CASE UNCHANGED obj
    BY <1>0, <2>1, <2>2, UnchangedLinks, LinksKept
  <2>3. CASE obj' = [obj EXCEPT ![job[t].ptr].node = job[t].node, ![job[t].node].eps = Append(@, job[t].ptr)]
    <3>1. ~Raced("ep", job[t].id) => obj[job[t].ptr].node = 0
      BY <1>0 DEF Links, Bare
    <3>2. QED
      BY <1>0, <2>1, <2>3, <3>1, JoinedLinks DEF Is, Hooked
  <2>4. QED
    BY <2>2, <2>3 DEF LinkEP
<1>2. CASE UNCHANGED obj /\ job' = [job EXCEPT ![t].at = "seek", ![t].new = FALSE]
  <2>1. SameLinks /\ SameHands(t) /\ job'[t].at = "seek" /\ SameJob(t)
    BY <1>0, <1>2, UnchangedLinks, Retried
  <2>2. Bare(t)'
    BY <1>0, <2>1, BareStays DEF Is, SameHands, SameJob
  <2>3. QED
    BY <1>0, <2>1, <2>2, LinksKept
<1>3. QED
  BY <1>1, <1>2 DEF LinkEP

\* FTOM_NODE_unlinkEP, with the endpoint to be destroyed.
LEMMA UnlinkLinks ==
    ASSUME Types, Alone, Links, NEW t \in Threads, UnlinkEP(t) \/ UnhookEP(t)
    PROVE  Links'
<1>0. /\ job[t].at \in {"unlink", "unhook"} /\ job[t].kind = "ep" /\ Moves(t) /\ MoreRaced
      /\ Is(job[t].ep, "ep", job[t].id)
      /\ job[t].at = "unlink" => Is(job[t].node, "node", job[t].info)
  <2>1. job[t].at \in {"unlink", "unhook"} /\ job[t].kind = "ep"
    BY DEF At, UnlinkEP, UnhookEP
  <2>2. EPStep(t) /\ Step(t)
    BY <2>1 DEF Step, EPStep
  <2>3. QED
    BY <2>1, <2>2, HandOf, StepTypes, StepRaces DEF Hand, EPHand
<1>1. ASSUME Goto(t, "dropEP"), obj'[job[t].ep].node = 0 PROVE Bare(t)'
  <2>1. job'[t].ep = job[t].ep /\ job'[t].at = "dropEP"
    BY <1>1, Went DEF Types, Places, SameHands
  <2>2. QED
    BY <1>1, <2>1 DEF Bare
<1>2. ASSUME NEW n \in DOMAIN obj, obj[n].kind = "node", obj[job[t].ep].node = n,
             obj' = Unlinked(job[t].ep, n), Goto(t, "dropEP")
      PROVE  Links'
  <2>1. obj'[job[t].ep].node = 0
    <3>1. obj'[job[t].ep] = [obj[job[t].ep] EXCEPT !.node = 0] /\ obj[job[t].ep] \in Objects
      BY <1>0, <1>2, Parted, ObjFacts DEF Is, Types
    <3>2. QED
      BY <3>1 DEF Objects
  <2>2. QED
    BY <1>0, <1>1, <1>2, <2>1, PartedLinks DEF Is
<1>3. CASE UNCHANGED obj /\ End(t)
  BY <1>0, <1>3, UnchangedLinks, PlainlyGoes, PlainlyBare, LinksKept
<1>4. CASE UNCHANGED obj /\ obj[job[t].ep].node = 0 /\ Goto(t, "dropEP")
  BY <1>0, <1>1, <1>4, UnchangedLinks, LinksKept
<1>5. CASE UnlinkEP(t)
  BY <1>0, <1>2, <1>3, <1>5 DEF UnlinkEP, Is, At
<1>6. CASE UnhookEP(t)
  <2>1. obj[job[t].ep].node # 0 =>
          obj[job[t].ep].node \in DOMAIN obj /\ obj[obj[job[t].ep].node].kind = "node"
    BY <1>0 DEF Types, ObjOK, Is
  <2>2. QED
    BY <1>2, <1>4, <1>6, <2>1 DEF UnhookEP
<1>7. QED
  BY <1>5, <1>6

\* A node that is destroyed takes its first endpoint.
LEMMA EmptyLinks ==
    ASSUME Types, Alone, Links, NEW t \in Threads, EmptyNode(t) \/ PurgeNode(t)
    PROVE  Links'
<1>0. /\ job[t].at \in {"empty", "purge"} /\ job[t].kind = "node" /\ Moves(t) /\ MoreRaced
      /\ Is(job[t].ptr, "node", job[t].id) /\ job[t] \in Jobs
  <2>1. job[t].at \in {"empty", "purge"} /\ job[t].kind = "node"
    BY DEF At, EmptyNode, PurgeNode
  <2>2. NodeStep(t) /\ Step(t)
    BY <2>1 DEF Step, NodeStep
  <2>3. QED
    BY <2>1, <2>2, HandOf, StepTypes, StepRaces DEF Hand, NodeHand
<1>1. ASSUME NEW back \in {"empty", "purge"}, NEW e, e = Head(obj[job[t].ptr].eps), obj[job[t].ptr].eps # <<>>,
             obj[e].node = job[t].ptr, obj' = Unlinked(e, job[t].ptr),
             job' = [job EXCEPT ![t] = PickTo(t, back)]
      PROVE  Links'
  <2>1. e \in DOMAIN obj /\ obj[e].kind = "ep" /\ PickTo(t, back) \in Jobs
    BY <1>0, <1>1, Picked DEF PickTo
  <2>2. job'[t].ep = e /\ job'[t].at = "dropEP"
    <3>1. job'[t] = PickTo(t, back)
      BY <1>1, <2>1, Took DEF Types
    <3>2. PickTo(t, back).ep = e /\ PickTo(t, back).at = "dropEP"
      BY <1>0, <1>1 DEF PickTo, Jobs
    <3>3. QED
      BY <3>1, <3>2
  <2>3. obj'[e].node = 0
    <3>1. obj'[e] = [obj[e] EXCEPT !.node = 0] /\ obj[e] \in Objects
      BY <1>0, <1>1, <2>1, Parted, ObjFacts DEF Is, Types
    <3>2. QED
      BY <3>1 DEF Objects
  <2>4. Bare(t)'
    BY <2>2, <2>3 DEF Bare
  <2>5. QED
    BY <1>0, <1>1, <2>1, <2>4, PartedLinks DEF Is
<1>2. CASE UNCHANGED obj /\ (End(t) \/ Goto(t, "drop") \/ Goto(t, "delist"))
  <2>1. Plainly(t)
    BY <1>0, <1>2, PlainlyGoes DEF Places
  <2>2. QED
    BY <1>0, <1>2, <2>1, UnchangedLinks, PlainlyBare, LinksKept
<1>3. CASE UNCHANGED <<obj, job>>
  <2>1. Plainly(t)
    BY <1>0, <1>3 DEF Plainly
  <2>2. QED
    BY <1>0, <1>3, <2>1, UnchangedLinks, PlainlyBare, LinksKept
<1>4. QED
  BY <1>1, <1>2, <1>3 DEF EmptyNode, PurgeNode, PickTo

\* An endpoint is destroyed.
LEMMA DestroyLinks ==
    ASSUME Types, Alone, Links, NEW t \in Threads, DropEP(t) \/ DelistEP(t)
    PROVE  Links'
<1>0. /\ job[t].at \in {"dropEP", "delistEP"} /\ Moves(t) /\ MoreRaced
      /\ job[t].ep \in DOMAIN obj /\ job[t] \in Jobs /\ job \in [Threads -> Jobs]
      /\ ~Raced("ep", obj[job[t].ep].id) => obj[job[t].ep].node = 0
  <2>1. job[t].at \in {"dropEP", "delistEP"}
    BY DEF At, DropEP, DelistEP
  <2>2. EPStep(t) /\ Step(t)
    BY <2>1 DEF Step, EPStep
  <2>3. QED
    BY <2>1, <2>2, Destroying, StepTypes, StepRaces DEF Types, TypeOK, Links, Bare
<1>1. CASE DropEP(t)
  <2>1. SameLinks /\ UNCHANGED obj
    BY <1>1, UnchangedLinks DEF DropEP, DBStep, memory
  <2>2. job'[t].ep = job[t].ep /\ job'[t].at = "delistEP" /\ job'[t].kind = job[t].kind
    BY <1>1, Went DEF Types, Places, SameHands, SameJob, DropEP
  <2>3. Bare(t)'
    BY <1>0, <2>1, <2>2 DEF Bare, Raced, MoreRaced
  <2>4. QED
    BY <1>0, <2>1, <2>3, LinksKept
<1>2. CASE DelistEP(t)
  <2>1. SameLinks
    BY <1>0, <1>2, FreedLinks DEF DelistEP, Unlist
  <2>2. job'[t].at \in {"idle", "empty", "purge"}
    <3>1. CASE End(t)
      BY <3>1, Ended, IdleFields DEF Types
    <3>2. CASE job' = [job EXCEPT ![t].at = job[t].back, ![t].ep = 0]
      <4>1. job'[t] = [job[t] EXCEPT !.at = job[t].back, !.ep = 0]
        BY <1>0, <3>2
      <4>2. QED
        BY <1>0, <4>1 DEF Jobs
    <3>3. QED
      BY <1>2, <3>1, <3>2 DEF DelistEP
  <2>3. Plainly(t)
    BY <2>2 DEF Plainly
  <2>4. QED
    BY <1>0, <2>1, <2>3, PlainlyBare, LinksKept
<1>3. QED
  BY <1>1, <1>2

LEMMA StepLinks == ASSUME Types, Alone, Links, NEW t \in Threads, Step(t) PROVE Links'
<1>1. CASE NodeStep(t)
  BY <1>1, NodeLinks, EmptyLinks
<1>2. CASE EPStep(t)
  BY <1>2, EPLinks, LinkLinks, UnlinkLinks, DestroyLinks DEF EPStep
<1>3. CASE \E k \in Plain : PlainStep(t, k)
  BY <1>3, PlainLinks
<1>4. CASE UseFreed(t)
  <2>1. UNCHANGED <<obj, job, history>>
    BY <1>4 DEF UseFreed, memory
  <2>2. QED
    BY <2>1 DEF Links, Attached, Bare, Raced
<1>5. CASE CreationFails(t)
  <2>1. SameLinks /\ Moves(t) /\ MoreRaced
    BY <1>5, UnchangedLinks, StepTypes, StepRaces DEF CreationFails, memory
  <2>2. Plainly(t)
    BY <1>5, PlainlyGoes DEF CreationFails, At, Places
  <2>3. QED
    BY <2>1, <2>2, PlainlyBare, LinksKept
<1>6. QED
  BY <1>1, <1>2, <1>3, <1>4, <1>5, PlainSteps DEF Step

\* Whatever is done is a request, the main thread's doing, a step, a start or nothing.
Does(t) ==
    \/ \E j : t \in Consoles /\ Begins(t, j)
    \/ \E j : t = Main /\ MainBegins(j)
    \/ Step(t)

LEMMA Doings ==
    ASSUME Types, Next
    PROVE  (\E t \in Threads : Does(t)) \/ MainRests \/ JustStarted'
<1>1. CASE MainThread
  BY <1>1, MainDoes, Sets DEF Does
<1>2. CASE \E c \in Consoles : Request(c) \/ Step(c)
  BY <1>2, RequestBegins, Sets DEF Does
<1>3. CASE Restart
  BY <1>3, RestartStarts
<1>4. QED
  BY <1>1, <1>2, <1>3 DEF Next

LEMMA StartedLinks == JustStarted => Alone /\ Links
  BY EmptySeq, IdleFields DEF JustStarted, Alone, Clash, Links, Attached, Bare

\* Whoever works on the same object is noted, and what is in a node's list of endpoints is
\* linked to this node and there once, but for endpoints two threads worked on.
THEOREM LinksCorrect == Spec => [](Alone /\ Links)
<1>1. Init => Alone /\ Links
  BY InitStarts, StartedLinks
<1>2. Types /\ Alone /\ Links /\ [Next]_vars => (Alone /\ Links)'
  <2> SUFFICES ASSUME Types, Alone, Links, [Next]_vars PROVE (Alone /\ Links)'
    OBVIOUS
  <2>1. CASE \E t \in Threads : Does(t)
    BY <2>1, AloneMoves, GivenLinks, StepLinks DEF Does
  <2>2. CASE MainRests
    BY <2>2, AloneRests, RestsLinks
  <2>3. CASE JustStarted'
    <3>1. JustStarted' => (Alone /\ Links)'
      BY StartedLinks, PTL
    <3>2. QED
      BY <2>3, <3>1
  <2>4. CASE UNCHANGED vars
    <3>1. UNCHANGED <<obj, job, history>>
      BY <2>4 DEF vars, memory
    <3>2. QED
      BY <3>1 DEF Alone, Clash, Together, Holds, Key, Links, Attached, Bare, Raced
  <2>5. QED
    BY <2>1, <2>2, <2>3, <2>4, Doings
<1>3. QED
  BY <1>1, <1>2, TypeCorrect, PTL DEF Spec

\* What a node has in its list of endpoints is an endpoint that exists and that has this node,
\* and it has it once (the list FTOM_NODE_linkEP and FTOM_NODE_unlinkEP keep).
THEOREM LinksHold == Spec => []LinksSound
<1>1. Types /\ Links => LinksSound
  <2> SUFFICES ASSUME Types, Links PROVE LinksSound
    OBVIOUS
  <2>1. Listed("node") \subseteq DOMAIN obj
    BY DEF Types, ListsOK, Kinds
  <2>2. QED
    BY <2>1 DEF Links, Attached, LinksSound, Raced
<1>2. QED
  BY <1>1, TypeCorrect, LinksCorrect, PTL

-------------------------------------------------------------------------------
(* What a step leaves alone: all that its thread does not work on.            *)

LEMMA MindsOwn ==
    ASSUME Types, NEW t \in Threads, UNCHANGED list, UNCHANGED row, OnlyRun
    PROVE  Minds(t)
  BY DEF Minds, Nodeless, OnlyRun

LEMMA OwnWork ==
    ASSUME Types, NEW t \in Threads, job[t].at # "idle"
    PROVE  /\ Works(t, job[t].kind, job[t].id)
           /\ job[t].ep # 0 => Works(t, "ep", obj[job[t].ep].id)
  BY DEF Works, Holds, Key

\* A call reaches one row.
LEMMA CallMinds ==
    ASSUME Types, NEW t \in Threads, NEW k \in Kinds, NEW id \in Ids(k), NEW content \in Contents,
           NEW applies \in BOOLEAN, Call(k, id, content, applies), DBStep, Works(t, k, id)
    PROVE  Minds(t)
<1>1. row' = row \/ row' = [row EXCEPT ![k][id] = content]
  BY Called
<1>2. DOMAIN row = Kinds /\ \A l \in Kinds : row[l] \in [Ids(l) -> Contents]
  BY DEF Types, TypeOK
<1>3. ASSUME NEW l \in Kinds, NEW i \in Ids(l), row'[l][i] # row[l][i] PROVE l = k /\ i = id
  BY <1>1, <1>2, <1>3
<1>4. UNCHANGED <<obj, list>>
  BY DEF DBStep, memory
<1>5. QED
  BY <1>3, <1>4 DEF Minds, Nodeless

LEMMA NodeMinds == ASSUME Types, NEW t \in Threads, NodeStep(t) PROVE Minds(t)
<1>0. /\ job[t].at # "idle" /\ job[t].kind = "node" /\ Works(t, "node", job[t].id)
      /\ job[t].at # "look" => Is(job[t].ptr, "node", job[t].id)
      /\ job[t].info \in Contents /\ job[t].new \in BOOLEAN /\ "node" \in Kinds /\ job[t].id \in Ids("node")
  <2>1. job[t].at # "idle" /\ job[t].kind = "node"
    BY DEF NodeStep, At, LookNode, AddNode, AppendNode, StartNode, EmptyNode, DropNode, PurgeNode, DelistNode,
           WriteNode, SaveNode
  <2>2. Hand(job[t]) /\ job[t] \in Jobs
    BY <2>1, HandOf
  <2>3. QED
    BY <2>1, <2>2, OwnWork, HandOf DEF Hand, NodeHand, Jobs, Kinds
<1>1. CASE LookNode(t)
  <2>1. UNCHANGED list /\ UNCHANGED row
    BY <1>1 DEF LookNode, ObjStep, store
  <2>2. (\A p \in DOMAIN obj : obj'[p].info = obj[p].info) /\ Nodeless(t)
    BY <1>0, <1>1, MadeFrom DEF LookNode, Make, Fresh, Nodeless
  <2>3. QED
    BY <2>1, <2>2 DEF Minds
<1>2. CASE AddNode(t) \/ DropNode(t) \/ SaveNode(t)
  <2>1. NoRow \in Contents /\ TRUE \in BOOLEAN
    BY DEF Contents
  <2>2. QED
    BY <1>0, <1>2, <2>1, CallMinds DEF AddNode, DropNode, SaveNode
<1>3. CASE AppendNode(t)
  <2>1. UNCHANGED obj /\ UNCHANGED row /\ job[t].at = "append"
    BY <1>3 DEF AppendNode, ObjStep, store, At
  <2>2. Enlists(t)
    BY <1>0, <1>3, <2>1 DEF Enlists, AppendNode, Enlist, Is
  <2>3. QED
    BY <2>1, <2>2 DEF Minds, Nodeless
<1>4. CASE StartNode(t)
  <2>1. UNCHANGED list /\ UNCHANGED row
    BY <1>4 DEF StartNode, store
  <2>2. job[t].ptr \in DOMAIN obj /\ TRUE \in BOOLEAN /\ (~job[t].new) \in BOOLEAN
    BY <1>0, <1>4 DEF StartNode, At, Is
  <2>3. (\A p \in DOMAIN obj : obj'[p].info = obj[p].info) /\ Nodeless(t)
    <3>1. ASSUME NEW b \in BOOLEAN, obj' = [obj EXCEPT ![job[t].ptr].run = b]
          PROVE  (\A p \in DOMAIN obj : obj'[p].info = obj[p].info) /\ Nodeless(t)
      <4>1. /\ DOMAIN obj' = DOMAIN obj /\ \A q \in DOMAIN obj \ {job[t].ptr} : obj'[q] = obj[q]
            /\ obj'[job[t].ptr] = [obj[job[t].ptr] EXCEPT !.run = b] /\ obj[job[t].ptr] \in Objects
        BY <2>2, <3>1, Switched, ObjFacts DEF Types
      <4>2. obj'[job[t].ptr].info = obj[job[t].ptr].info /\ obj'[job[t].ptr].node = obj[job[t].ptr].node
        BY <4>1 DEF Objects
      <4>3. QED
        BY <4>1, <4>2 DEF Nodeless
    <3>2. QED
      BY <1>4, <2>2, <3>1 DEF StartNode, Nodeless
  <2>4. QED
    BY <2>1, <2>3 DEF Minds
<1>5. ASSUME NEW e, e = Head(obj[job[t].ptr].eps), obj[job[t].ptr].eps # <<>>,
             job[t].at \in {"empty", "purge"}, obj' = Unlinked(e, job[t].ptr), UNCHANGED <<row, list>>
      PROVE  Minds(t)
  <2>1. e \in DOMAIN obj /\ obj[e].kind = "ep"
    BY <1>0, <1>5, Picked
  <2>2. /\ DOMAIN obj' = DOMAIN obj /\ \A q \in DOMAIN obj \ {e, job[t].ptr} : obj'[q] = obj[q]
        /\ obj'[e] = [obj[e] EXCEPT !.node = 0] /\ obj[e] \in Objects
        /\ obj'[job[t].ptr] = [obj[job[t].ptr] EXCEPT !.eps = Without(obj[job[t].ptr].eps, e)]
        /\ obj[job[t].ptr] \in Objects
    BY <1>0, <1>5, <2>1, Parted, ObjFacts DEF Is, Types
  <2>3. /\ obj'[e].info = obj[e].info /\ obj'[job[t].ptr].info = obj[job[t].ptr].info
        /\ obj'[e].node = 0 /\ obj'[job[t].ptr].node = obj[job[t].ptr].node
    BY <2>2 DEF Objects
  <2>4. /\ \A p \in DOMAIN obj' : obj'[p].node = 0 \/ (p \in DOMAIN obj /\ obj'[p].node = obj[p].node)
        /\ \A p \in DOMAIN obj : obj'[p].info = obj[p].info
    <3>1. ASSUME NEW p \in DOMAIN obj
          PROVE  /\ obj'[p].node = 0 \/ obj'[p].node = obj[p].node
                 /\ obj'[p].info = obj[p].info
      <4>1. CASE p = e
        BY <2>3, <4>1
      <4>2. CASE p = job[t].ptr
        BY <2>3, <4>2
      <4>3. CASE p \in DOMAIN obj \ {e, job[t].ptr}
        <5>1. obj'[p] = obj[p]
          BY <2>2, <4>3
        <5>2. QED
          BY <5>1
      <4>4. QED
        BY <4>1, <4>2, <4>3
    <3>2. DOMAIN obj' = DOMAIN obj
      BY <2>2
    <3>3. QED
      BY <3>1, <3>2
  <2>5. Nodeless(t)
    BY <2>4 DEF Nodeless
  <2>6. UNCHANGED list /\ UNCHANGED row
    BY <1>5
  <2>7. QED
    BY <2>4, <2>5, <2>6 DEF Minds
<1>6. CASE EmptyNode(t) \/ PurgeNode(t)
  <2>1. UNCHANGED list /\ UNCHANGED row
    BY <1>6 DEF EmptyNode, PurgeNode, ObjStep, store
  <2>2. CASE UNCHANGED obj
    BY <2>1, <2>2 DEF Minds, Nodeless
  <2>3. QED
    BY <1>5, <1>6, <2>1, <2>2 DEF EmptyNode, PurgeNode, At
<1>7. CASE DelistNode(t)
  <2>1. UNCHANGED row /\ job[t].at = "delist"
    BY <1>7 DEF DelistNode, ObjStep, store, At
  <2>2. /\ DOMAIN obj' = DOMAIN obj /\ \A q \in DOMAIN obj \ {job[t].ptr} : obj'[q] = obj[q]
        /\ obj'[job[t].ptr].info = obj[job[t].ptr].info /\ obj'[job[t].ptr].node = 0
    BY <1>0, <1>7, <2>1, Freed DEF DelistNode, Unlist, Is
  <2>3. Unlists(t)
    BY <1>0, <1>7, <2>1, <2>2 DEF Unlists, DelistNode, Unlist, Is
  <2>4. QED
    BY <2>1, <2>2, <2>3 DEF Minds, Nodeless
<1>8. CASE WriteNode(t)
  <2>1. UNCHANGED row /\ UNCHANGED list /\ Is(job[t].ptr, "node", job[t].id)
    BY <1>0, <1>8 DEF WriteNode, ObjStep, store, At
  <2>2. DOMAIN obj' = DOMAIN obj /\ \A q \in DOMAIN obj \ {job[t].ptr} : obj'[q] = obj[q]
    BY <1>0, <1>8, <2>1, Rewritten DEF WriteNode, Is
  <2>3. obj'[job[t].ptr].node = obj[job[t].ptr].node
    <3>1. \/ UNCHANGED obj
          \/ /\ obj'[job[t].ptr] = [obj[job[t].ptr] EXCEPT !.info = job[t].info]
             /\ obj[job[t].ptr] \in Objects
      BY <1>0, <1>8, <2>1, Rewritten, ObjFacts DEF WriteNode, Is, Types
    <3>2. QED
      BY <3>1 DEF Objects
  <2>4. QED
    BY <1>0, <2>1, <2>2, <2>3 DEF Minds, Nodeless, Is
<1>9. QED
  BY <1>1, <1>2, <1>3, <1>4, <1>6, <1>7, <1>8 DEF NodeStep

LEMMA PartMinds ==
    ASSUME Types, NEW t \in Threads, NEW e \in DOMAIN obj, NEW n \in DOMAIN obj,
           obj[e].kind = "ep", obj[n].kind = "node", obj' = Unlinked(e, n), UNCHANGED <<row, list>>
    PROVE  Minds(t)
<1>1. /\ DOMAIN obj' = DOMAIN obj /\ \A q \in DOMAIN obj \ {e, n} : obj'[q] = obj[q]
      /\ obj'[e] = [obj[e] EXCEPT !.node = 0] /\ obj[e] \in Objects
      /\ obj'[n] = [obj[n] EXCEPT !.eps = Without(obj[n].eps, e)]
      /\ obj[n] \in Objects
  BY Parted, ObjFacts DEF Types
<1>2. /\ obj'[e].info = obj[e].info /\ obj'[n].info = obj[n].info
      /\ obj'[e].node = 0 /\ obj'[n].node = obj[n].node
  BY <1>1 DEF Objects
<1>3. QED
  BY <1>1, <1>2 DEF Minds, Nodeless

LEMMA EPMinds == ASSUME Types, NEW t \in Threads, EPStep(t) PROVE Minds(t)
<1>0. /\ job[t].at # "idle" /\ Works(t, job[t].kind, job[t].id) /\ job[t].info \in Contents
      /\ "ep" \in Kinds /\ job[t].id \in Ids(job[t].kind)
      /\ job[t].kind = "ep" /\ job[t].at \notin {"look", "unlink", "unhook", "dropEP", "delistEP"} =>
           Is(job[t].ptr, "ep", job[t].id)
      /\ job[t].kind = "ep" /\ job[t].at \in {"unlink", "unhook"} => Is(job[t].ep, "ep", job[t].id)
      /\ job[t].kind = "ep" /\ job[t].at \in {"unlink", "link"} => Is(job[t].node, "node", job[t].info)
  <2>1. job[t].at # "idle"
    BY DEF EPStep, At, LookEP, AppendEP, AddEP, SeekNode, LinkEP, UnlinkEP, UnhookEP, DropEP, DelistEP,
           SaveEP, WriteEP
  <2>2. Hand(job[t]) /\ job[t] \in Jobs
    BY <2>1, HandOf
  <2>3. QED
    BY <2>1, <2>2, OwnWork, HandOf DEF Hand, EPHand, Jobs, Kinds
<1>1. CASE LookEP(t)
  <2>1. UNCHANGED list /\ UNCHANGED row
    BY <1>1 DEF LookEP, ObjStep, store
  <2>2. (\A p \in DOMAIN obj : obj'[p].info = obj[p].info) /\ Nodeless(t)
    BY <1>0, <1>1, MadeFrom DEF LookEP, Make, Fresh, Nodeless
  <2>3. QED
    BY <2>1, <2>2 DEF Minds
<1>2. CASE AddEP(t) \/ SaveEP(t)
  BY <1>0, <1>2, CallMinds DEF AddEP, SaveEP, At
<1>3. CASE AppendEP(t)
  <2>1. UNCHANGED obj /\ UNCHANGED row /\ job[t].at = "append" /\ job[t].kind = "ep"
    BY <1>3 DEF AppendEP, ObjStep, store, At
  <2>2. Enlists(t)
    BY <1>0, <1>3, <2>1 DEF Enlists, AppendEP, Enlist, Is
  <2>3. QED
    BY <2>1, <2>2 DEF Minds, Nodeless
<1>4. CASE SeekNode(t)
  BY <1>4 DEF SeekNode, ObjStep, store, memory, Minds, Nodeless
<1>5. CASE LinkEP(t)
  <2>1. UNCHANGED row /\ UNCHANGED list /\ job[t].at = "link" /\ job[t].kind = "ep"
    BY <1>5 DEF LinkEP, store, At
  <2>2. CASE UNCHANGED obj
    BY <2>1, <2>2 DEF Minds, Nodeless
  <2>3. CASE obj' = Hooked(job[t].ptr, job[t].node)
    <3>1. /\ DOMAIN obj' = DOMAIN obj /\ \A q \in DOMAIN obj \ {job[t].ptr, job[t].node} : obj'[q] = obj[q]
          /\ obj'[job[t].ptr] = [obj[job[t].ptr] EXCEPT !.node = job[t].node]
          /\ obj[job[t].ptr] \in Objects /\ obj[job[t].node] \in Objects
          /\ obj'[job[t].node] = [obj[job[t].node] EXCEPT !.eps = Append(obj[job[t].node].eps, job[t].ptr)]
      BY <1>0, <2>1, <2>3, Joined, ObjFacts DEF Is, Types, Hooked
    <3>2. obj'[job[t].ptr].info = obj[job[t].ptr].info
      BY <3>1 DEF Objects
    <3>3. obj'[job[t].node].info = obj[job[t].node].info /\ obj'[job[t].node].node = obj[job[t].node].node
      BY <3>1 DEF Objects
    <3>4. QED
      BY <2>1, <3>1, <3>2, <3>3 DEF Minds, Nodeless
  <2>4. QED
    BY <1>5, <2>2, <2>3 DEF LinkEP, Hooked
<1>6. CASE UnlinkEP(t) \/ UnhookEP(t)
  <2>1. UNCHANGED row /\ UNCHANGED list /\ job[t].at \in {"unlink", "unhook"} /\ job[t].kind = "ep"
    BY <1>6 DEF UnlinkEP, UnhookEP, ObjStep, store, At
  <2>2. CASE UNCHANGED obj
    BY <2>1, <2>2 DEF Minds, Nodeless
  <2>3. ASSUME NEW n \in DOMAIN obj, obj[n].kind = "node", obj' = Unlinked(job[t].ep, n)
        PROVE  Minds(t)
    BY <1>0, <2>1, <2>3, PartMinds DEF Is
  <2>4. obj[job[t].ep].node # 0 =>
          obj[job[t].ep].node \in DOMAIN obj /\ obj[obj[job[t].ep].node].kind = "node"
    BY <1>0, <2>1 DEF Types, ObjOK, Is
  <2>5. QED
    BY <1>0, <1>6, <2>1, <2>2, <2>3, <2>4 DEF UnlinkEP, UnhookEP, Is, At
<1>7. CASE DropEP(t)
  <2>1. /\ NoRow \in Contents /\ TRUE \in BOOLEAN /\ obj[job[t].ep].id \in Ids("ep")
        /\ Works(t, "ep", obj[job[t].ep].id)
    BY <1>0, <1>7, Destroying, OwnWork DEF Contents, DropEP, At
  <2>2. QED
    BY <1>0, <1>7, <2>1, CallMinds DEF DropEP
<1>8. CASE DelistEP(t)
  <2>1. /\ UNCHANGED row /\ job[t].at = "delistEP" /\ job[t].ep \in DOMAIN obj /\ obj[job[t].ep].kind = "ep"
        /\ Works(t, "ep", obj[job[t].ep].id)
    BY <1>0, <1>8, Destroying, OwnWork DEF DelistEP, ObjStep, store, At
  <2>2. /\ DOMAIN obj' = DOMAIN obj /\ \A q \in DOMAIN obj \ {job[t].ep} : obj'[q] = obj[q]
        /\ obj'[job[t].ep].info = obj[job[t].ep].info /\ obj'[job[t].ep].node = 0
    BY <1>8, <2>1, Freed DEF DelistEP, Unlist
  <2>3. Unlists(t)
    BY <1>0, <1>8, <2>1, <2>2 DEF Unlists, DelistEP, Unlist
  <2>4. QED
    BY <2>1, <2>2, <2>3 DEF Minds, Nodeless
<1>9. CASE WriteEP(t)
  <2>1. UNCHANGED row /\ UNCHANGED list /\ Is(job[t].ptr, "ep", job[t].id)
    BY <1>0, <1>9 DEF WriteEP, ObjStep, store, At
  <2>2. DOMAIN obj' = DOMAIN obj /\ \A q \in DOMAIN obj \ {job[t].ptr} : obj'[q] = obj[q]
    BY <1>0, <1>9, <2>1, Rewritten DEF WriteEP, Is
  <2>5. obj'[job[t].ptr].node = obj[job[t].ptr].node
    <3>1. obj'[job[t].ptr] = [obj[job[t].ptr] EXCEPT !.info = job[t].info] /\ obj[job[t].ptr] \in Objects
      BY <1>0, <1>9, <2>1, Rewritten, ObjFacts DEF WriteEP, Is, Types
    <3>2. QED
      BY <3>1 DEF Objects
  <2>3. Works(t, "ep", job[t].id)
    BY <1>0, <1>9 DEF WriteEP, At
  <2>4. QED
    BY <2>1, <2>2, <2>5, <2>3 DEF Minds, Nodeless, Is
<1>10. QED
  BY <1>1, <1>2, <1>3, <1>4, <1>5, <1>6, <1>7, <1>8, <1>9 DEF EPStep

LEMMA PlainMinds == ASSUME Types, NEW t \in Threads, NEW k \in Plain, PlainStep(t, k) PROVE Minds(t)
<1>0. /\ job[t].at # "idle" /\ job[t].kind = k /\ Works(t, k, job[t].id)
      /\ job[t].at # "append" => Is(job[t].ptr, k, job[t].id)
      /\ job[t].info \in Contents /\ k \in Kinds /\ job[t].id \in Ids(k)
  <2>1. job[t].at # "idle" /\ job[t].kind = k
    BY DEF PlainStep, At, AppendPlain, AddPlain, DropPlain, DelistPlain, SavePlain, WritePlain
  <2>2. Hand(job[t]) /\ job[t] \in Jobs
    BY <2>1, HandOf
  <2>3. QED
    BY <2>1, <2>2, OwnWork, HandOf DEF Hand, PlainHand, Jobs
<1>1. CASE AppendPlain(t, k)
  <2>1. UNCHANGED row /\ job[t].at = "append"
    BY <1>1 DEF AppendPlain, ObjStep, store, At
  <2>2. /\ DOMAIN obj' = DOMAIN obj \cup {Len(obj) + 1} /\ \A p \in DOMAIN obj : obj'[p] = obj[p]
        /\ Len(obj) + 1 \in DOMAIN obj' /\ obj'[Len(obj) + 1] = Fresh(job[t])
        /\ Fresh(job[t]).kind = job[t].kind /\ Fresh(job[t]).id = job[t].id
    BY <1>0, <1>1, MadeFrom DEF AppendPlain
  <2>5. Nodeless(t)
    BY <2>2 DEF Nodeless, Fresh
  <2>3. Enlists(t)
    BY <1>0, <1>1, <2>1, <2>2 DEF Enlists, AppendPlain
  <2>4. QED
    BY <2>1, <2>2, <2>5, <2>3 DEF Minds
<1>2. CASE AddPlain(t, k) \/ DropPlain(t, k) \/ SavePlain(t, k)
  <2>1. NoRow \in Contents /\ FALSE \in BOOLEAN /\ (k # "trigger") \in BOOLEAN
    BY DEF Contents
  <2>2. QED
    BY <1>0, <1>2, <2>1, CallMinds DEF AddPlain, DropPlain, SavePlain
<1>3. CASE DelistPlain(t, k)
  <2>1. UNCHANGED row /\ job[t].at = "delist"
    BY <1>3 DEF DelistPlain, ObjStep, store, At
  <2>2. /\ DOMAIN obj' = DOMAIN obj /\ \A q \in DOMAIN obj \ {job[t].ptr} : obj'[q] = obj[q]
        /\ obj'[job[t].ptr].info = obj[job[t].ptr].info /\ obj'[job[t].ptr].node = 0
    BY <1>0, <1>3, <2>1, Freed DEF DelistPlain, Unlist, Is
  <2>3. Unlists(t)
    BY <1>0, <1>3, <2>1, <2>2 DEF Unlists, DelistPlain, Unlist, Is
  <2>4. QED
    BY <2>1, <2>2, <2>3 DEF Minds, Nodeless
<1>4. CASE WritePlain(t, k)
  <2>1. UNCHANGED row /\ UNCHANGED list /\ Is(job[t].ptr, k, job[t].id)
    BY <1>0, <1>4 DEF WritePlain, ObjStep, store, At
  <2>2. DOMAIN obj' = DOMAIN obj /\ \A q \in DOMAIN obj \ {job[t].ptr} : obj'[q] = obj[q]
    BY <1>0, <1>4, <2>1, Rewritten DEF WritePlain, Is
  <2>5. obj'[job[t].ptr].node = obj[job[t].ptr].node
    <3>1. obj'[job[t].ptr] = [obj[job[t].ptr] EXCEPT !.info = job[t].info] /\ obj[job[t].ptr] \in Objects
      BY <1>0, <1>4, <2>1, Rewritten, ObjFacts DEF WritePlain, Is, Types
    <3>2. QED
      BY <3>1 DEF Objects
  <2>3. QED
    BY <1>0, <2>1, <2>2, <2>5 DEF Minds, Nodeless, Is
<1>5. QED
  BY <1>1, <1>2, <1>3, <1>4 DEF PlainStep

LEMMA StepMinds == ASSUME Types, NEW t \in Threads, Step(t) PROVE Minds(t)
<1>1. CASE UseFreed(t)
  BY <1>1 DEF UseFreed, store, memory, Minds, Nodeless
<1>2. CASE CreationFails(t)
  BY <1>2 DEF CreationFails, store, memory, Minds, Nodeless
<1>3. QED
  BY <1>1, <1>2, NodeMinds, EPMinds, PlainMinds, PlainSteps DEF Step

LEMMA DoesMinds ==
    ASSUME Types, NEW t \in Threads, Does(t)
    PROVE  Minds(t) /\ Moves(t) /\ MoreRaced
<1>1. CASE \E j : t \in Consoles /\ Begins(t, j)
  <2>1. PICK j : Begins(t, j) /\ t \in Consoles
    BY <1>1
  <2>2. UNCHANGED list /\ UNCHANGED row /\ OnlyRun
    BY <2>1 DEF Begins, ReqStep, store
  <2>3. QED
    BY <2>1, <2>2, MindsOwn, BeginsMoves
<1>2. CASE \E j : t = Main /\ MainBegins(j)
  <2>1. PICK j : t = Main /\ MainBegins(j)
    BY <1>2
  <2>2. UNCHANGED list /\ UNCHANGED row
    BY <2>1 DEF MainBegins, MainStep, memory, store
  <2>3. QED
    BY <2>1, <2>2, MindsOwn, MainBeginsMoves
<1>3. CASE Step(t)
  BY <1>3, StepMinds, StepTypes, StepRaces
<1>4. QED
  BY <1>1, <1>2, <1>3 DEF Does

-------------------------------------------------------------------------------
(* What the steps do, field by field.                                         *)

LEMMA GrownBy ==
    ASSUME Types, NEW t \in Threads, job[t].at # "idle", obj' = Append(obj, Fresh(job[t]))
    PROVE  Grown(t, Len(obj) + 1)
<1>1. Len(obj) \in Nat
  BY ObjFacts DEF Types
<1>2. QED
  BY <1>1, MadeFrom DEF Grown

LEMMA GoneBy ==
    ASSUME Types, NEW k, NEW p \in DOMAIN obj, Unlist(k, p)
    PROVE  Gone(k, p)
  BY Freed DEF Gone, Unlist

LEMMA ToldBy ==
    ASSUME Types, NEW p \in DOMAIN obj, NEW c \in Contents, obj' = [obj EXCEPT ![p].info = c]
    PROVE  Told(p, c)
<1>1. /\ DOMAIN obj' = DOMAIN obj /\ \A q \in DOMAIN obj \ {p} : obj'[q] = obj[q]
      /\ obj'[p] = [obj[p] EXCEPT !.info = c] /\ obj[p] \in Objects
  BY Rewritten, ObjFacts DEF Types
<1>2. obj'[p].info = c /\ obj'[p].node = obj[p].node /\ obj'[p].eps = obj[p].eps
  BY <1>1 DEF Objects
<1>3. QED
  BY <1>1, <1>2 DEF Told

LEMMA SplitBy ==
    ASSUME Types, NEW e \in DOMAIN obj, NEW n \in DOMAIN obj,
           obj[e].kind = "ep", obj[n].kind = "node", obj' = Unlinked(e, n)
    PROVE  Split(e, n)
<1>1. /\ DOMAIN obj' = DOMAIN obj /\ e # n /\ \A q \in DOMAIN obj \ {e, n} : obj'[q] = obj[q]
      /\ obj'[e] = [obj[e] EXCEPT !.node = 0] /\ obj[e] \in Objects
      /\ obj'[n] = [obj[n] EXCEPT !.eps = Without(obj[n].eps, e)] /\ obj[n] \in Objects
  BY Parted, ObjFacts DEF Types
<1>2. obj'[e].node = 0 /\ obj'[e].info = obj[e].info /\ obj'[e].eps = obj[e].eps
  BY <1>1 DEF Objects
<1>3. /\ obj'[n].node = obj[n].node /\ obj'[n].info = obj[n].info
      /\ obj'[n].eps = Without(obj[n].eps, e)
  BY <1>1 DEF Objects
<1>4. /\ DOMAIN obj' = DOMAIN obj /\ e # n /\ \A q \in DOMAIN obj \ {e, n} : obj'[q] = obj[q]
  BY <1>1
<1> QED
  BY <1>2, <1>3, <1>4 DEF Split, Rebound

LEMMA TiedBy ==
    ASSUME Types, NEW e \in DOMAIN obj, NEW n \in DOMAIN obj,
           obj[e].kind = "ep", obj[n].kind = "node", obj' = Hooked(e, n)
    PROVE  Tied(e, n)
<1>1. /\ DOMAIN obj' = DOMAIN obj /\ e # n /\ \A q \in DOMAIN obj \ {e, n} : obj'[q] = obj[q]
      /\ obj'[e] = [obj[e] EXCEPT !.node = n] /\ obj[e] \in Objects
      /\ obj'[n] = [obj[n] EXCEPT !.eps = Append(obj[n].eps, e)] /\ obj[n] \in Objects
  BY Joined, ObjFacts DEF Types, Hooked
<1>2. obj'[e].node = n /\ obj'[e].info = obj[e].info /\ obj'[e].eps = obj[e].eps
  BY <1>1 DEF Objects
<1>3. /\ obj'[n].node = obj[n].node /\ obj'[n].info = obj[n].info
      /\ obj'[n].eps = Append(obj[n].eps, e)
  BY <1>1 DEF Objects
<1>4. /\ DOMAIN obj' = DOMAIN obj /\ e # n /\ \A q \in DOMAIN obj \ {e, n} : obj'[q] = obj[q]
  BY <1>1
<1> QED
  BY <1>2, <1>3, <1>4 DEF Tied, Rebound

LEMMA AnsweredBy ==
    ASSUME Types, NEW k \in Kinds, NEW id \in Ids(k), NEW content \in Contents, NEW applies \in BOOLEAN,
           Call(k, id, content, applies), DBStep
    PROVE  Answered(k, id, content, applies)
<1>1. history \in Histories /\ DOMAIN row = Kinds /\ row[k] \in [Ids(k) -> Contents]
  BY DEF Types, TypeOK
<1>2. ASSUME row' = row \/ row' = [row EXCEPT ![k][id] = content]
      PROVE  \A l \in Kinds : \A i \in Ids(l) : <<l, i>> # <<k, id>> => row'[l][i] = row[l][i]
  <2>1. \A l \in Kinds : row[l] \in [Ids(l) -> Contents]
    BY DEF Types, TypeOK
  <2>2. SUFFICES ASSUME NEW l \in Kinds, NEW i \in Ids(l), l # k \/ i # id PROVE row'[l][i] = row[l][i]
    OBVIOUS
  <2>3. QED
    BY <1>1, <1>2, <2>1, <2>2
<1>3. row' = row \/ row' = [row EXCEPT ![k][id] = content]
  BY DEF Call
<1>4. CASE applies /\ row' = [row EXCEPT ![k][id] = content]
  <2>1. row'[k][id] = content
    BY <1>1, <1>4
  <2>2. QED
    BY <1>2, <1>3, <1>4, <2>1 DEF Answered, DBStep
<1>5. CASE history' = [history EXCEPT !.failed = @ \cup {<<k, id>>}]
  BY <1>1, <1>2, <1>3, <1>5 DEF Answered, DBStep, Histories
<1>6. QED
  BY <1>4, <1>5, Called

LEMMA MadeDeed ==
    ASSUME Types, NEW t \in Threads, job[t].at # "idle", NEW place \in Places, Make(t, place)
    PROVE  \E p : Grown(t, p) /\ GoesWith(t, p, place)
<1>1. Grown(t, Len(obj) + 1)
  BY GrownBy DEF Make
<1>2. GoesWith(t, Len(obj) + 1, place)
  BY MakeStep DEF GoesWith
<1>3. QED
  BY <1>1, <1>2

LEMMA WentDeed ==
    ASSUME Types, NEW t \in Threads, NEW place \in Places, Goto(t, place)
    PROVE  GoesTo(t, place)
  BY Went DEF GoesTo, Types

LEMMA EndDeed == ASSUME Types, NEW t \in Threads, End(t) PROVE Ends(t)
  BY Ended DEF Ends, Types

LEMMA TakeFields ==
    ASSUME NEW t, NEW e, job[t] \in Jobs,
           job'[t] = [job[t] EXCEPT !.ep = e, !.back = job[t].at, !.at = "dropEP"]
    PROVE  Takes(t, e)
  BY DEF Takes, SameJob, Jobs

LEMMA TakeDeed ==
    ASSUME Types, NEW t \in Threads, job[t].at \in {"empty", "purge"}, job[t].kind = "node",
           obj[job[t].ptr].eps # <<>>,
           job' = [job EXCEPT ![t] = PickTo(t, job[t].at)]
    PROVE  Takes(t, Head(obj[job[t].ptr].eps))
<1> DEFINE e == Head(obj[job[t].ptr].eps)
<1>1. PickTo(t, job[t].at) \in Jobs /\ job[t] \in Jobs
  BY Picked, HandOf DEF PickTo
<1>2. job'[t] = [job[t] EXCEPT !.ep = e, !.back = job[t].at, !.at = "dropEP"]
  BY <1>1, Took DEF Types, PickTo
<1> HIDE DEF e
<1>3. QED
  BY <1>1, <1>2, TakeFields DEF e

LEMMA NodeDeeds == ASSUME Types, NEW t \in Threads, NodeStep(t) PROVE Deed(t)
<1>0. /\ job[t].at # "idle" /\ job[t].kind = "node" /\ Hand(job[t]) /\ job[t] \in Jobs
      /\ job[t].at # "look" => Is(job[t].ptr, "node", job[t].id)
      /\ job[t].info \in Contents /\ job[t].new \in BOOLEAN /\ "node" \in Kinds /\ job[t].id \in Ids("node")
      /\ NoRow \in Contents /\ TRUE \in BOOLEAN
  <2>1. job[t].at # "idle" /\ job[t].kind = "node"
    BY DEF NodeStep, At, LookNode, AddNode, AppendNode, StartNode, EmptyNode, DropNode, PurgeNode, DelistNode,
           WriteNode, SaveNode
  <2>2. Hand(job[t]) /\ job[t] \in Jobs
    BY <2>1, HandOf
  <2>3. QED
    BY <2>1, <2>2, HandOf DEF Hand, NodeHand, Jobs, Kinds, Contents
<1> SUFFICES NodeDeed(t)
  BY <1>0 DEF Deed
<1>1. CASE LookNode(t)
  <2>1. UNCHANGED list /\ UNCHANGED row /\ job[t].at = "look"
    BY <1>1 DEF LookNode, ObjStep, store, At
  <2>2. CASE Holders("node", job[t].id) # {} /\ End(t) /\ UNCHANGED obj
    BY <2>1, <2>2, EndDeed DEF NodeDeed, memory
  <2>3. CASE Holders("node", job[t].id) = {} /\ Make(t, IF job[t].new THEN "add" ELSE "append")
    <3>1. (IF job[t].new THEN "add" ELSE "append") \in Places
      BY DEF Places
    <3>2. \E p : Grown(t, p) /\ GoesWith(t, p, IF job[t].new THEN "add" ELSE "append")
      BY <1>0, <2>3, <3>1, MadeDeed
    <3>3. QED
      BY <2>1, <2>3, <3>2 DEF NodeDeed
  <2>4. QED
    BY <1>1, <2>2, <2>3 DEF LookNode
<1>2. CASE AddNode(t)
  <2>1. Answered("node", job[t].id, job[t].info, row["node"][job[t].id] = NoRow)
    BY <1>0, <1>2, AnsweredBy DEF AddNode
  <2>2. GoesTo(t, "append") /\ job[t].at = "add"
    BY <1>2, WentDeed DEF AddNode, At, Places
  <2>3. QED
    BY <2>1, <2>2 DEF NodeDeed
<1>3. CASE AppendNode(t)
  <2>1. UNCHANGED <<obj, row>> /\ job[t].at = "append" /\ list' = [list EXCEPT !["node"] = Append(@, job[t].ptr)]
    BY <1>3 DEF AppendNode, ObjStep, store, At, Enlist
  <2>2. (job[t].new /\ GoesTo(t, "start")) \/ (~job[t].new /\ Ends(t))
    BY <1>3, WentDeed, EndDeed DEF AppendNode, Places
  <2>3. QED
    BY <2>1, <2>2 DEF NodeDeed
<1>4. CASE StartNode(t)
  <2>1. UNCHANGED <<list, row>> /\ job[t].at = "start" /\ job[t].ptr \in DOMAIN obj
    BY <1>0, <1>4 DEF StartNode, store, At, Is
  <2>2. Ends(t) \/ (job[t].new /\ GoesTo(t, "drop"))
    BY <1>4, WentDeed, EndDeed DEF StartNode, Places
  <2>3. OnlyRun
    <3>1. ASSUME NEW b \in BOOLEAN, obj' = [obj EXCEPT ![job[t].ptr].run = b] PROVE OnlyRun
      <4>1. /\ DOMAIN obj' = DOMAIN obj /\ \A q \in DOMAIN obj \ {job[t].ptr} : obj'[q] = obj[q]
            /\ obj'[job[t].ptr] = [obj[job[t].ptr] EXCEPT !.run = b] /\ obj[job[t].ptr] \in Objects
        BY <2>1, <3>1, Switched, ObjFacts DEF Types
      <4>2. LET p == job[t].ptr
            IN  /\ obj'[p].kind = obj[p].kind /\ obj'[p].id = obj[p].id /\ obj'[p].info = obj[p].info
                /\ obj'[p].alive = obj[p].alive /\ obj'[p].node = obj[p].node /\ obj'[p].eps = obj[p].eps
        BY <4>1 DEF Objects
      <4>3. QED
        BY <4>1, <4>2 DEF OnlyRun
    <3>2. TRUE \in BOOLEAN /\ (~job[t].new) \in BOOLEAN
      OBVIOUS
    <3>3. QED
      BY <1>4, <3>1, <3>2, RunStays DEF StartNode
  <2>4. QED
    BY <2>1, <2>2, <2>3 DEF NodeDeed
<1>5. ASSUME job[t].at \in {"empty", "purge"}, UNCHANGED <<list, row>>, obj[job[t].ptr].eps # <<>>,
             obj[Head(obj[job[t].ptr].eps)].node = job[t].ptr,
             obj' = Unlinked(Head(obj[job[t].ptr].eps), job[t].ptr),
             job' = [job EXCEPT ![t] = PickTo(t, job[t].at)]
      PROVE  NodeDeed(t)
  <2>1. LET e == Head(obj[job[t].ptr].eps)
        IN  e \in ToSet(obj[job[t].ptr].eps) /\ Split(e, job[t].ptr)
    BY <1>0, <1>5, Picked, SplitBy DEF Is
  <2>2. Takes(t, Head(obj[job[t].ptr].eps))
    BY <1>0, <1>5, TakeDeed
  <2>3. QED
    BY <1>5, <2>1, <2>2 DEF NodeDeed
<1>6. CASE EmptyNode(t)
  <2>1. UNCHANGED list /\ UNCHANGED row /\ job[t].at = "empty"
    BY <1>6 DEF EmptyNode, ObjStep, store, At
  <2>2. CASE obj[job[t].ptr].eps = <<>> /\ Goto(t, "drop") /\ UNCHANGED <<obj, history>>
    BY <2>1, <2>2, WentDeed DEF NodeDeed, memory, Places
  <2>3. CASE End(t) /\ UNCHANGED <<obj, history>>
    BY <2>1, <2>3, EndDeed DEF NodeDeed, memory
  <2>4. QED
    BY <1>5, <1>6, <2>1, <2>2, <2>3 DEF EmptyNode, PickTo
<1>7. CASE PurgeNode(t)
  <2>1. UNCHANGED list /\ UNCHANGED row /\ job[t].at = "purge"
    BY <1>7 DEF PurgeNode, store, At
  <2>2. CASE obj[job[t].ptr].eps = <<>> /\ Goto(t, "delist") /\ UNCHANGED <<obj, lost, history>>
    BY <2>1, <2>2, WentDeed DEF NodeDeed, memory, Places
  <2>3. CASE lost' = TRUE /\ UNCHANGED <<obj, job, history>>
    BY <2>1, <2>3 DEF NodeDeed, memory
  <2>4. QED
    BY <1>5, <1>7, <2>1, <2>2, <2>3 DEF PurgeNode, PickTo
<1>8. CASE DropNode(t)
  <2>1. Answered("node", job[t].id, NoRow, TRUE)
    BY <1>0, <1>8, AnsweredBy DEF DropNode
  <2>2. GoesTo(t, "purge") /\ job[t].at = "drop"
    BY <1>8, WentDeed DEF DropNode, At, Places
  <2>3. QED
    BY <2>1, <2>2 DEF NodeDeed
<1>9. CASE DelistNode(t)
  <2>1. UNCHANGED row /\ job[t].at = "delist" /\ job[t].ptr \in DOMAIN obj
    BY <1>0, <1>9 DEF DelistNode, ObjStep, store, At, Is
  <2>2. Gone("node", job[t].ptr) /\ Ends(t)
    BY <1>9, <2>1, GoneBy, EndDeed DEF DelistNode
  <2>3. QED
    BY <2>1, <2>2 DEF NodeDeed
<1>10. CASE WriteNode(t)
  <2>1. UNCHANGED <<list, row>> /\ job[t].at = "write" /\ job[t].ptr \in DOMAIN obj
    BY <1>0, <1>10 DEF WriteNode, ObjStep, store, At, Is
  <2>2. \/ Told(job[t].ptr, job[t].info) /\ GoesTo(t, "save")
        \/ UNCHANGED obj /\ Ends(t)
    BY <1>0, <1>10, <2>1, ToldBy, WentDeed, EndDeed DEF WriteNode, Places
  <2>3. QED
    BY <2>1, <2>2 DEF NodeDeed, memory
<1>11. CASE SaveNode(t)
  <2>1. Answered("node", job[t].id, job[t].info, row["node"][job[t].id] # NoRow)
    BY <1>0, <1>11, AnsweredBy DEF SaveNode
  <2>2. Ends(t) /\ job[t].at = "save"
    BY <1>11, EndDeed DEF SaveNode, At
  <2>3. QED
    BY <2>1, <2>2 DEF NodeDeed
<1>12. QED
  BY <1>1, <1>2, <1>3, <1>4, <1>6, <1>7, <1>8, <1>9, <1>10, <1>11 DEF NodeStep

LEMMA EPDeeds == ASSUME Types, NEW t \in Threads, EPStep(t) PROVE Deed(t)
<1>0. /\ job[t].at # "idle" /\ Hand(job[t]) /\ job[t] \in Jobs /\ job[t].info \in Contents
      /\ "ep" \in Kinds /\ NoRow \in Contents /\ TRUE \in BOOLEAN
  <2>1. job[t].at # "idle"
    BY DEF EPStep, At, LookEP, AppendEP, AddEP, SeekNode, LinkEP, UnlinkEP, UnhookEP, DropEP, DelistEP,
           SaveEP, WriteEP
  <2>2. QED
    BY <2>1, HandOf DEF Jobs, Kinds, Contents
<1>1. CASE DropEP(t)
  <2>1. /\ job[t].at = "dropEP" /\ job[t].kind \in Linked /\ obj[job[t].ep].id \in Ids("ep")
    BY <1>1, Destroying DEF DropEP, At, Linked
  <2>2. Answered("ep", obj[job[t].ep].id, NoRow, TRUE)
    BY <1>0, <1>1, <2>1, AnsweredBy DEF DropEP
  <2>3. GoesTo(t, "delistEP")
    BY <1>1, WentDeed DEF DropEP, Places
  <2>4. QED
    BY <1>0, <2>1, <2>2, <2>3 DEF Deed, KillDeed
<1>2. CASE DelistEP(t)
  <2>1. /\ job[t].at = "delistEP" /\ job[t].kind \in Linked /\ job[t].ep \in DOMAIN obj
        /\ UNCHANGED row
        /\ \/ job[t].kind = "node" /\ job[t].back \in {"empty", "purge"}
           \/ job[t].kind = "ep" /\ job[t].back = "idle"
    BY <1>2, Destroying DEF DelistEP, At, Linked, ObjStep, store
  <2>2. Gone("ep", job[t].ep)
    BY <1>2, <2>1, GoneBy DEF DelistEP
  <2>3. CASE job[t].kind = "ep"
    BY <1>0, <1>2, <2>1, <2>2, <2>3, EndDeed DEF Deed, KillDeed, DelistEP
  <2>4. CASE job[t].kind = "node"
    <3>1. job' = [job EXCEPT ![t].at = job[t].back, ![t].ep = 0]
      BY <1>2, <2>1, <2>4 DEF DelistEP
    <3>2. [job[t] EXCEPT !.at = job[t].back, !.ep = 0] \in Jobs
      BY <1>0, <2>1, <2>4 DEF Jobs, Places
    <3>3. job' = [job EXCEPT ![t] = [job[t] EXCEPT !.at = job[t].back, !.ep = 0]]
      BY <3>1 DEF Types, TypeOK
    <3>4. job'[t] = [job[t] EXCEPT !.at = job[t].back, !.ep = 0]
      BY <3>2, <3>3, Took DEF Types
    <3>5. SameJob(t) /\ job'[t].at = job[t].back /\ job'[t].ep = 0 /\ job'[t].ptr = job[t].ptr
      BY <1>0, <3>4 DEF SameJob, Jobs
    <3>6. QED
      BY <1>0, <2>1, <2>2, <2>4, <3>5 DEF Deed, KillDeed
  <2>5. QED
    BY <2>1, <2>3, <2>4
<1>3. CASE ~(DropEP(t) \/ DelistEP(t))
  <2>0. job[t].kind = "ep" /\ job[t].id \in Ids("ep") /\ EPHand(job[t])
    <3>1. job[t].kind = "ep"
      BY <1>3 DEF EPStep, At, LookEP, AppendEP, AddEP, SeekNode, LinkEP, UnlinkEP, UnhookEP, SaveEP, WriteEP
    <3>2. QED
      BY <1>0, <3>1 DEF Hand
  <2> SUFFICES EPDeed(t)
    BY <1>0, <2>0 DEF Deed
  <2>1. CASE LookEP(t)
    <3>1. UNCHANGED list /\ UNCHANGED row /\ job[t].at = "look"
      BY <2>1 DEF LookEP, ObjStep, store, At
    <3>2. CASE Holders("ep", job[t].id) # {} /\ End(t) /\ UNCHANGED obj
      BY <3>1, <3>2, EndDeed DEF EPDeed, memory
    <3>3. CASE Holders("ep", job[t].id) = {} /\ Make(t, "append")
      <4>1. \E p : Grown(t, p) /\ GoesWith(t, p, "append")
        BY <1>0, <3>3, MadeDeed DEF Places
      <4>2. QED
        BY <3>1, <3>3, <4>1 DEF EPDeed
    <3>4. QED
      BY <2>1, <3>2, <3>3 DEF LookEP
  <2>2. CASE AppendEP(t)
    <3>1. UNCHANGED <<obj, row>> /\ job[t].at = "append" /\ list' = [list EXCEPT !["ep"] = Append(@, job[t].ptr)]
      BY <2>2 DEF AppendEP, ObjStep, store, At, Enlist
    <3>2. GoesTo(t, IF job[t].new THEN "add" ELSE "seek")
      BY <2>2, WentDeed DEF AppendEP, Places
    <3>3. QED
      BY <3>1, <3>2 DEF EPDeed
  <2>3. CASE AddEP(t)
    <3>1. Answered("ep", job[t].id, job[t].info, row["ep"][job[t].id] = NoRow)
      BY <1>0, <2>0, <2>3, AnsweredBy DEF AddEP
    <3>2. GoesTo(t, "link") /\ job[t].at = "add"
      BY <2>3, WentDeed DEF AddEP, At, Places
    <3>3. QED
      BY <3>1, <3>2 DEF EPDeed
  <2>4. CASE SeekNode(t)
    <3>1. UNCHANGED <<memory, row>> /\ job[t].at = "seek"
      BY <2>4 DEF SeekNode, ObjStep, store, At
    <3>2. ASSUME NEW n \in Get("node", job[t].info), job' = [job EXCEPT ![t].node = n, ![t].at = "link"]
          PROVE  SameJob(t) /\ job'[t].at = "link" /\ job'[t].ptr = job[t].ptr /\ job'[t].ep = job[t].ep
                 /\ job'[t].node = n
      <4>1. n \in Nat
        BY <3>2, Found DEF Kinds
      <4>2. [job[t] EXCEPT !.node = n, !.at = "link"] \in Jobs
        BY <1>0, <4>1 DEF Jobs, Places
      <4>3. job' = [job EXCEPT ![t] = [job[t] EXCEPT !.node = n, !.at = "link"]]
        BY <3>2 DEF Types, TypeOK
      <4>4. job'[t] = [job[t] EXCEPT !.node = n, !.at = "link"]
        BY <4>2, <4>3, Took DEF Types
      <4>5. QED
        BY <1>0, <4>4 DEF SameJob, Jobs
    <3>3. CASE End(t) /\ Orphan(t)
      <4>1. job[t].id \in history'.orphaned
        BY <3>3 DEF Orphan, Types, TypeOK, Histories
      <4>2. QED
        BY <3>1, <3>3, <4>1, EndDeed DEF EPDeed
    <3>4. QED
      BY <2>4, <3>1, <3>2, <3>3 DEF SeekNode, EPDeed
  <2>5. CASE LinkEP(t)
    <3>1. UNCHANGED <<list, row>> /\ job[t].at = "link"
      BY <2>5 DEF LinkEP, store, At
    <3>2. Is(job[t].ptr, "ep", job[t].id) /\ Is(job[t].node, "node", job[t].info)
      BY <2>0, <3>1 DEF EPHand
    <3>3. CASE End(t) /\ obj' = Hooked(job[t].ptr, job[t].node)
      BY <3>1, <3>2, <3>3, TiedBy, EndDeed DEF EPDeed, Is
    <3>4. CASE UNCHANGED obj /\ End(t) /\ Orphan(t)
      <4>1. job[t].id \in history'.orphaned
        BY <3>4 DEF Orphan, Types, TypeOK, Histories
      <4>2. QED
        BY <3>1, <3>4, <4>1, EndDeed DEF EPDeed
    <3>5. CASE UNCHANGED obj /\ job' = [job EXCEPT ![t].at = "seek", ![t].new = FALSE]
      <4>1. GoesTo(t, "seek")
        BY <2>5, <3>5, Retried DEF LinkEP, At, GoesTo
      <4>2. QED
        BY <3>1, <3>5, <4>1 DEF EPDeed, memory
    <3>6. QED
      BY <2>5, <3>3, <3>4, <3>5 DEF LinkEP, Hooked
  <2>6. CASE UnlinkEP(t)
    <3>1. UNCHANGED <<list, row>> /\ job[t].at = "unlink"
      BY <2>6 DEF UnlinkEP, ObjStep, store, At
    <3>2. Is(job[t].ep, "ep", job[t].id) /\ Is(job[t].node, "node", job[t].info)
      BY <2>0, <3>1 DEF EPHand
    <3>3. CASE obj[job[t].ep].node = job[t].node /\ obj' = Unlinked(job[t].ep, job[t].node) /\ Goto(t, "dropEP")
      BY <3>1, <3>2, <3>3, SplitBy, WentDeed DEF EPDeed, Is, Places
    <3>4. CASE UNCHANGED obj /\ End(t)
      BY <3>1, <3>4, EndDeed DEF EPDeed, memory
    <3>5. QED
      BY <2>6, <3>3, <3>4 DEF UnlinkEP
  <2>7. CASE UnhookEP(t)
    <3>1. UNCHANGED <<list, row>> /\ job[t].at = "unhook" /\ GoesTo(t, "dropEP")
      BY <2>7, WentDeed DEF UnhookEP, ObjStep, store, At, Places
    <3>2. Is(job[t].ep, "ep", job[t].id)
      BY <2>0, <3>1 DEF EPHand
    <3>3. CASE obj[job[t].ep].node = 0 /\ UNCHANGED obj
      BY <3>1, <3>3 DEF EPDeed
    <3>4. CASE obj[job[t].ep].node # 0 /\ obj' = Unlinked(job[t].ep, obj[job[t].ep].node)
      <4>1. obj[job[t].ep].node \in DOMAIN obj /\ obj[obj[job[t].ep].node].kind = "node"
        BY <3>2, <3>4 DEF Types, ObjOK, Is
      <4>2. Split(job[t].ep, obj[job[t].ep].node)
        BY <3>2, <3>4, <4>1, SplitBy DEF Is
      <4>3. QED
        BY <3>1, <3>4, <4>2 DEF EPDeed
    <3>5. QED
      BY <2>7, <3>3, <3>4 DEF UnhookEP
  <2>8. CASE SaveEP(t)
    <3>1. Answered("ep", job[t].id, job[t].info, row["ep"][job[t].id] # NoRow)
      BY <1>0, <2>0, <2>8, AnsweredBy DEF SaveEP
    <3>2. GoesTo(t, "write") /\ job[t].at = "save"
      BY <2>8, WentDeed DEF SaveEP, At, Places
    <3>3. QED
      BY <3>1, <3>2 DEF EPDeed
  <2>9. CASE WriteEP(t)
    <3>1. UNCHANGED <<list, row>> /\ job[t].at = "write"
      BY <2>9 DEF WriteEP, ObjStep, store, At
    <3>2. job[t].ptr \in DOMAIN obj
      BY <2>0, <3>1 DEF EPHand, Is
    <3>3. Told(job[t].ptr, job[t].info)
      BY <1>0, <2>9, <3>2, ToldBy DEF WriteEP
    <3>4. obj[job[t].ptr].info = job[t].info \/ job[t].id \in history'.moved
      BY <2>9 DEF WriteEP, Types, TypeOK, Histories
    <3>5. Ends(t) \/ (obj[job[t].ptr].node = 0 /\ GoesTo(t, "seek"))
      BY <2>9, WentDeed, EndDeed DEF WriteEP, Places
    <3>6. QED
      BY <3>1, <3>3, <3>4, <3>5 DEF EPDeed
  <2>10. QED
    BY <1>3, <2>1, <2>2, <2>3, <2>4, <2>5, <2>6, <2>7, <2>8, <2>9 DEF EPStep
<1>4. QED
  BY <1>1, <1>2, <1>3

LEMMA PlainDeeds == ASSUME Types, NEW t \in Threads, NEW k \in Plain, PlainStep(t, k) PROVE Deed(t)
<1>0. /\ job[t].at # "idle" /\ job[t].kind = k /\ Hand(job[t]) /\ job[t] \in Jobs
      /\ job[t].at # "append" => Is(job[t].ptr, k, job[t].id)
      /\ job[t].info \in Contents /\ k \in Kinds /\ job[t].id \in Ids(k)
      /\ NoRow \in Contents /\ FALSE \in BOOLEAN /\ (k # "trigger") \in BOOLEAN
  <2>1. job[t].at # "idle" /\ job[t].kind = k
    BY DEF PlainStep, At, AppendPlain, AddPlain, DropPlain, DelistPlain, SavePlain, WritePlain
  <2>2. Hand(job[t]) /\ job[t] \in Jobs
    BY <2>1, HandOf
  <2>3. QED
    BY <2>1, <2>2, HandOf DEF Hand, PlainHand, Jobs, Contents
<1> SUFFICES PlainDeed(t)
  BY <1>0 DEF Deed
<1>1. CASE AppendPlain(t, k)
  <2>1. UNCHANGED row /\ job[t].at = "append"
    BY <1>1 DEF AppendPlain, ObjStep, store, At
  <2>2. Grown(t, Len(obj) + 1) /\ list' = [list EXCEPT ![job[t].kind] = Append(@, Len(obj) + 1)]
    BY <1>0, <1>1, GrownBy DEF AppendPlain
  <2>3. CASE job[t].new
    <3>1. job' = [job EXCEPT ![t].ptr = Len(obj) + 1, ![t].at = "add"]
      BY <1>1, <2>3 DEF AppendPlain
    <3>2. Len(obj) + 1 \in Nat
      BY ObjFacts DEF Types
    <3>3. [job[t] EXCEPT !.ptr = Len(obj) + 1, !.at = "add"] \in Jobs
      BY <1>0, <3>2 DEF Jobs, Places
    <3>4. job' = [job EXCEPT ![t] = [job[t] EXCEPT !.ptr = Len(obj) + 1, !.at = "add"]]
      BY <3>1 DEF Types, TypeOK
    <3>5. job'[t] = [job[t] EXCEPT !.ptr = Len(obj) + 1, !.at = "add"]
      BY <3>3, <3>4, Took DEF Types
    <3>6. GoesWith(t, Len(obj) + 1, "add")
      BY <1>0, <3>5 DEF GoesWith, SameJob, Jobs
    <3>7. QED
      BY <2>1, <2>2, <2>3, <3>6 DEF PlainDeed
  <2>4. CASE ~job[t].new
    BY <1>1, <2>1, <2>2, <2>4, EndDeed DEF PlainDeed, AppendPlain
  <2>5. QED
    BY <2>3, <2>4
<1>2. CASE AddPlain(t, k)
  <2>1. Answered(job[t].kind, job[t].id, job[t].info, row[k][job[t].id] = NoRow)
    BY <1>0, <1>2, AnsweredBy DEF AddPlain
  <2>2. QED
    BY <1>0, <1>2, <2>1, EndDeed DEF PlainDeed, AddPlain, At
<1>3. CASE DropPlain(t, k)
  <2>1. Answered(job[t].kind, job[t].id, NoRow, k # "trigger")
    BY <1>0, <1>3, AnsweredBy DEF DropPlain
  <2>2. GoesTo(t, "delist") /\ job[t].at = "drop"
    BY <1>3, WentDeed DEF DropPlain, At, Places
  <2>3. QED
    BY <1>0, <2>1, <2>2 DEF PlainDeed
<1>4. CASE DelistPlain(t, k)
  <2>1. UNCHANGED row /\ job[t].at = "delist" /\ job[t].ptr \in DOMAIN obj
    BY <1>0, <1>4 DEF DelistPlain, ObjStep, store, At, Is
  <2>2. Gone(job[t].kind, job[t].ptr) /\ Ends(t)
    BY <1>0, <1>4, <2>1, GoneBy, EndDeed DEF DelistPlain
  <2>3. QED
    BY <2>1, <2>2 DEF PlainDeed
<1>5. CASE SavePlain(t, k)
  <2>1. Answered(job[t].kind, job[t].id, job[t].info, FALSE)
    BY <1>0, <1>5, AnsweredBy DEF SavePlain
  <2>2. GoesTo(t, "write") /\ job[t].at = "save"
    BY <1>5, WentDeed DEF SavePlain, At, Places
  <2>3. QED
    BY <2>1, <2>2 DEF PlainDeed
<1>6. CASE WritePlain(t, k)
  <2>1. UNCHANGED <<list, row>> /\ job[t].at = "write" /\ job[t].ptr \in DOMAIN obj
    BY <1>0, <1>6 DEF WritePlain, ObjStep, store, At, Is
  <2>2. Told(job[t].ptr, job[t].info) /\ Ends(t)
    BY <1>0, <1>6, <2>1, ToldBy, EndDeed DEF WritePlain
  <2>3. QED
    BY <2>1, <2>2 DEF PlainDeed
<1>7. QED
  BY <1>1, <1>2, <1>3, <1>4, <1>5, <1>6 DEF PlainStep

LEMMA StepDeeds == ASSUME Types, NEW t \in Threads, Step(t) PROVE Deed(t) \/ UNCHANGED <<memory, row, job>>
<1>1. CASE UseFreed(t)
  BY <1>1 DEF UseFreed, store
<1>2. CASE CreationFails(t)
  <2>1. /\ job[t].at # "idle" /\ Hand(job[t]) /\ job[t] \in Jobs
        /\ job[t].at = "look" \/ (job[t].at = "append" /\ job[t].kind # "ep")
        /\ UNCHANGED <<memory, row>>
    BY <1>2, HandOf DEF CreationFails, At, store
  <2>2. Key(job[t]) \in history'.failed
    BY <1>2 DEF CreationFails, Types, TypeOK, Histories
  <2>3. job[t].ep = 0
    BY <2>1, Sets DEF Hand, NodeHand, EPHand, PlainHand, Jobs, Plain, Linked
  <2>4. Ends(t) \/ (job[t].kind = "node" /\ job[t].at = "append" /\ job[t].new /\ GoesTo(t, "start"))
    BY <1>2, EndDeed, WentDeed DEF CreationFails, At, Places
  <2>5. QED
    BY <2>1, <2>2, <2>3, <2>4 DEF Deed, FailDeed
<1>3. QED
  BY <1>1, <1>2, NodeDeeds, EPDeeds, PlainDeeds, PlainSteps DEF Step

\* A step changes only these marks, and nothing of how far the synchronisation has come.
Remembers ==
    /\ MoreRaced
    /\ history.failed \subseteq history'.failed
    /\ history.orphaned \subseteq history'.orphaned /\ history.moved \subseteq history'.moved
    /\ history'.cut = history.cut /\ history'.early = history.early /\ history'.rounds = history.rounds

LEMMA RacingRemembers ==
    ASSUME Types, NEW t, NEW j, history' = Racing(t, j, history)
    PROVE  Remembers
  BY DEF Remembers, MoreRaced, Racing, MoreRaced, Types, TypeOK, Histories

LEMMA CallRemembers ==
    ASSUME Types, NEW k, NEW id, NEW content, NEW applies, Call(k, id, content, applies)
    PROVE  Remembers
<1>1. history' = history \/ history' = [history EXCEPT !.failed = @ \cup {<<k, id>>}]
  BY DEF Call
<1>2. QED
  BY <1>1 DEF Remembers, MoreRaced, Types, TypeOK, Histories

LEMMA OrphanRemembers ==
    ASSUME Types, NEW t, Orphan(t) PROVE Remembers
  BY DEF Remembers, MoreRaced, Orphan, Types, TypeOK, Histories

LEMMA NodeRemembers == ASSUME Types, NEW t, NodeStep(t) PROVE Remembers /\ UNCHANGED control
<1>1. CASE AddNode(t) \/ DropNode(t) \/ SaveNode(t)
  BY <1>1, CallRemembers DEF AddNode, DropNode, SaveNode, DBStep
<1>2. CASE EmptyNode(t) \/ PurgeNode(t)
  <2>1. history' = history \/ \E j : history' = Racing(t, j, history)
    BY <1>2 DEF EmptyNode, PurgeNode
  <2>2. history' = history => Remembers
    BY DEF Remembers, MoreRaced
  <2>3. QED
    BY <1>2, <2>1, <2>2, RacingRemembers DEF EmptyNode, PurgeNode, ObjStep
<1>3. CASE DelistNode(t)
  <2>1. PICK n : history' = [history EXCEPT !.removals = @ + n]
    BY <1>3 DEF DelistNode
  <2>2. QED
    BY <1>3, <2>1 DEF Remembers, MoreRaced, Types, TypeOK, Histories, DelistNode, ObjStep
<1>4. CASE StartNode(t)
  <2>1. history' = history \/ history' = [history EXCEPT !.failed = @ \cup {Key(job[t])}]
    BY <1>4 DEF StartNode
  <2>2. Remembers
    <3>1. history \in Histories
      BY DEF Types, TypeOK
    <3>2. QED
      BY <2>1, <3>1 DEF Remembers, MoreRaced, Histories
  <2>3. QED
    BY <1>4, <2>2 DEF StartNode
<1>5. CASE LookNode(t) \/ AppendNode(t) \/ WriteNode(t)
  BY <1>5 DEF LookNode, AppendNode, WriteNode, ObjStep, Remembers, MoreRaced
<1>6. QED
  BY <1>1, <1>2, <1>3, <1>4, <1>5 DEF NodeStep

LEMMA EPRemembers == ASSUME Types, NEW t, EPStep(t) PROVE Remembers /\ UNCHANGED control
<1>1. CASE AddEP(t) \/ DropEP(t) \/ SaveEP(t)
  BY <1>1, CallRemembers DEF AddEP, DropEP, SaveEP, DBStep
<1>2. CASE SeekNode(t) \/ LinkEP(t)
  <2>1. history' = history \/ Orphan(t)
    BY <1>2 DEF SeekNode, LinkEP
  <2>2. history' = history => Remembers
    BY DEF Remembers, MoreRaced
  <2>3. QED
    BY <1>2, <2>1, <2>2, OrphanRemembers DEF SeekNode, LinkEP, ObjStep
<1>3. CASE WriteEP(t)
  <2>1. PICK S : history' = [history EXCEPT !.moved = @ \cup S]
    BY <1>3 DEF WriteEP
  <2>2. QED
    BY <1>3, <2>1 DEF Remembers, MoreRaced, Types, TypeOK, Histories, WriteEP, ObjStep
<1>4. CASE LookEP(t) \/ AppendEP(t) \/ UnlinkEP(t) \/ UnhookEP(t) \/ DelistEP(t)
  BY <1>4 DEF LookEP, AppendEP, UnlinkEP, UnhookEP, DelistEP, ObjStep, Remembers, MoreRaced
<1>5. QED
  BY <1>1, <1>2, <1>3, <1>4 DEF EPStep

LEMMA PlainRemembers == ASSUME Types, NEW t, NEW k, PlainStep(t, k) PROVE Remembers /\ UNCHANGED control
<1>1. CASE AddPlain(t, k) \/ DropPlain(t, k) \/ SavePlain(t, k)
  BY <1>1, CallRemembers DEF AddPlain, DropPlain, SavePlain, DBStep
<1>2. CASE AppendPlain(t, k) \/ DelistPlain(t, k) \/ WritePlain(t, k)
  BY <1>2 DEF AppendPlain, DelistPlain, WritePlain, ObjStep, Remembers, MoreRaced
<1>3. QED
  BY <1>1, <1>2 DEF PlainStep

LEMMA StepRemembers == ASSUME Types, NEW t, Step(t) PROVE Remembers /\ UNCHANGED control
<1>1. CASE UseFreed(t)
  BY <1>1 DEF UseFreed, Remembers, MoreRaced
<1>2. CASE CreationFails(t)
  BY <1>2 DEF CreationFails, Remembers, MoreRaced, Types, TypeOK, Histories
<1>3. QED
  BY <1>1, <1>2, NodeRemembers, EPRemembers, PlainRemembers, PlainSteps DEF Step

\* No mark is taken back.
MoreMarks ==
    /\ MoreRaced /\ history.failed \subseteq history'.failed /\ history.cut \subseteq history'.cut
    /\ history.early \subseteq history'.early /\ history.rounds <= history'.rounds

LEMMA RegularBefore ==
    ASSUME Types, Types', MoreMarks, NEW k, NEW id, Regular(k, id)'
    PROVE  Regular(k, id)
<1>1. history.rounds \in Nat /\ history'.rounds \in Nat
  BY DEF Types, TypeOK, Histories
<1>2. QED
  BY <1>1 DEF MoreMarks, MoreRaced, Regular, MayBeTwice

\* An order names a kind once.
LEMMA OrderOnce ==
    ASSUME Types, NEW k \in Kinds, Syncing(k, "load"), NEW id \in sync.todo
    PROVE  NotYet(k, id)
<1>1. sync.phase \in Nat \ {0} /\ sync.phase <= 6 /\ Order[sync.phase] = k /\ state = "CONNECTED"
  BY SyncFacts DEF Syncing, Order
<1>2. \A i \in 1..(sync.phase - 1) : i \in 1..6 /\ i # sync.phase
  BY <1>1
<1>3. \A a, b \in 1..6 : a # b => Order[a] # Order[b]
  BY DEF Order
<1>4. sync.phase \in 1..6
  BY <1>1
<1>5. \A i \in 1..(sync.phase - 1) : Order[i] # k
  BY <1>1, <1>2, <1>3, <1>4
<1>6. QED
  BY <1>1, <1>5 DEF NotYet

\* The synchronisation comes on by one row, which is loaded.
LEMMA DoesPasses ==
    ASSUME Types, NEW t \in Threads, Does(t)
    PROVE  /\ MoreMarks
           /\ \A k \in Kinds : \A id \in Ids(k) :
                /\ NotYet(k, id)' => NotYet(k, id)
                /\ NotYet(k, id) => NotYet(k, id)' \/ (job[t].at = "idle" /\ Works(t, k, id)')
<1>0. history.rounds \in Nat /\ history \in Histories
  BY SyncFacts
<1>1. CASE Step(t)
  <2>1. Remembers /\ UNCHANGED control
    BY <1>1, StepRemembers
  <2>2. MoreMarks
    BY <1>0, <2>1 DEF Remembers, MoreMarks
  <2>3. QED
    BY <2>1, <2>2 DEF control, NotYet
<1>2. ASSUME NEW h \in Histories, NEW j, history' = Racing(t, j, h), h.failed = history.failed, h.cut = history.cut,
             h.rounds = history.rounds, history.early \subseteq h.early, h.raced = history.raced
      PROVE  MoreMarks
  <2>1. /\ history'.failed = h.failed /\ history'.cut = h.cut /\ history'.rounds = h.rounds
        /\ history'.early = h.early
    BY <1>2 DEF Racing, Histories
  <2>2. h.raced \subseteq history'.raced
    BY <1>2, RacingNotes
  <2>3. QED
    BY <1>0, <1>2, <2>1, <2>2 DEF MoreMarks, MoreRaced
<1>3. ASSUME NEW j, t \in Consoles, Begins(t, j) PROVE MoreMarks /\ UNCHANGED control
  BY <1>2, <1>3 DEF Begins, Begin, Take, SameMarks, ReqStep
<1>4. ASSUME NEW j, t = Main, MainBegins(j)
      PROVE  /\ MoreMarks
             /\ \A k \in Kinds : \A id \in Ids(k) :
                  /\ NotYet(k, id)' => NotYet(k, id)
                  /\ NotYet(k, id) => NotYet(k, id)' \/ (job[t].at = "idle" /\ Works(t, k, id)')
  <2>1. MoreMarks
    BY <1>0, <1>2, <1>4 DEF MainBegins, Take
  <2>2. job'[t] = j /\ job[t].at = "idle"
    BY <1>4, MainBeginsMoves DEF MainBegins, Take
  <2>3. CASE Starts(j)
    BY <2>1, <2>3 DEF Starts, NotYet
  <2>4. CASE Loads(j)
    <3>1. sync' = [sync EXCEPT !.todo = @ \ {j.id}] /\ UNCHANGED state
      BY <2>4 DEF Loads
    <3>2. sync'.phase = sync.phase /\ sync'.next = sync.next /\ sync'.todo = sync.todo \ {j.id}
      BY <3>1, SyncFacts
    <3>3. sync.next = "load" /\ Order[sync.phase] = j.kind
      BY <2>4 DEF Loads, Syncing
    <3>4. Works(t, j.kind, j.id)'
      BY <1>4, <2>2 DEF MainBegins, Works, Holds, Key
    <3>5. QED
      BY <2>1, <2>2, <3>1, <3>2, <3>3, <3>4 DEF NotYet
  <2>5. QED
    BY <1>4, <2>3, <2>4 DEF MainBegins
<1>5. QED
  BY <1>1, <1>3, <1>4 DEF Does, control, NotYet

-------------------------------------------------------------------------------
(* What is listed, and how often.                                             *)

LEMMA ListFacts ==
    ASSUME Types, NEW k \in Kinds
    PROVE  /\ list[k] \in Seq(Nat) /\ DOMAIN list = Kinds
           /\ Listed(k) = {list[k][i] : i \in DOMAIN list[k]}
           /\ \A i \in DOMAIN list[k] : list[k][i] \in Listed(k) /\ list[k][i] \in DOMAIN obj
                                        /\ obj[list[k][i]].kind = k
<1>1. list[k] \in Seq(Nat) /\ DOMAIN list = Kinds
  BY DEF Types, TypeOK
<1>2. Listed(k) = {list[k][i] : i \in DOMAIN list[k]}
  BY <1>1, SeqFacts DEF Listed
<1>3. \A p \in Listed(k) : p \in DOMAIN obj /\ obj[p].kind = k
  BY DEF Types, ListsOK
<1>4. QED
  BY <1>1, <1>2, <1>3

\* How a list changes: not, by one entry more, or by one less.
LEMMA ListMinds ==
    ASSUME Types, Types', NEW t \in Threads, Minds(t), Moves(t), NEW k \in Kinds
    PROVE  \/ list'[k] = list[k]
           \/ \E p \in DOMAIN obj' :
                /\ job[t].at = "append" /\ job[t].kind = k /\ obj'[p].kind = k /\ obj'[p].id = job[t].id
                /\ list'[k] = Append(list[k], p) /\ Listed(k)' = Listed(k) \cup {p} /\ p \in Nat
           \/ \E p \in DOMAIN obj :
                /\ obj[p].kind = k /\ Works(t, k, obj[p].id) /\ obj'[p].node = 0
                /\ list'[k] = Without(list[k], p)
                /\ Listed(k)' \subseteq Listed(k) /\ Listed(k) \ {p} \subseteq Listed(k)'
<1>1. DOMAIN list = Kinds /\ list[k] \in Seq(Nat)
  BY ListFacts
<1>2. DOMAIN obj' \subseteq Nat
  <2>1. obj' \in Seq(Objects)
    BY DEF Types, TypeOK
  <2>2. QED
    BY <2>1, SeqFacts
<1>3. CASE Enlists(t)
  <2>1. PICK p \in DOMAIN obj' :
            /\ job[t].at = "append" /\ obj'[p].kind = job[t].kind /\ obj'[p].id = job[t].id
            /\ list' = [list EXCEPT ![job[t].kind] = Append(@, p)]
    BY <1>3 DEF Enlists
  <2>2. CASE job[t].kind = k
    <3>1. Listed(k)' = Listed(k) \cup {p}
      BY <1>2, <2>1, <2>2, Enlisted DEF Moves
    <3>2. list'[k] = Append(list[k], p)
      BY <1>1, <2>1, <2>2
    <3>3. QED
      BY <1>2, <2>1, <2>2, <3>1, <3>2
  <2>3. CASE job[t].kind # k
    BY <1>1, <2>1, <2>3
  <2>4. QED
    BY <2>2, <2>3
<1>4. CASE Unlists(t)
  <2>1. PICK l, p :
            /\ l \in Kinds /\ p \in DOMAIN obj
            /\ obj[p].kind = l /\ Works(t, l, obj[p].id) /\ obj'[p].node = 0
            /\ list' = [list EXCEPT ![l] = Without(@, p)]
    BY <1>4 DEF Unlists
  <2>2. CASE l = k
    <3>1. Listed(k)' \subseteq Listed(k) /\ Listed(k) \ {p} \subseteq Listed(k)'
      BY <2>1, <2>2, Unlisted DEF Moves
    <3>2. list'[k] = Without(list[k], p)
      BY <1>1, <2>1, <2>2
    <3>3. QED
      BY <2>1, <2>2, <3>1, <3>2
  <2>3. CASE l # k
    BY <1>1, <2>1, <2>3
  <2>4. QED
    BY <2>2, <2>3
<1>5. QED
  BY <1>3, <1>4 DEF Minds

LEMMA ListedStays ==
    ASSUME Types, Types', NEW t \in Threads, Minds(t), Moves(t), NEW k \in Kinds, NEW p \in Listed(k),
           ~Works(t, k, obj[p].id)
    PROVE  p \in Listed(k)'
<1>1. CASE list'[k] = list[k]
  BY <1>1 DEF Listed
<1>2. QED
  BY <1>1, ListMinds

\* An entry of one list more or less does not make others appear twice.
LEMMA TwiceMore ==
    ASSUME Types, ObjGrows, NEW k \in Kinds, NEW id, NEW p \in DOMAIN obj', p \in Nat,
           list'[k] = Append(list[k], p), Twice(k, id)',
           obj'[p].id # id \/ Holders(k, id) = {}
    PROVE  Twice(k, id)
<1>1. PICK i, j : /\ i \in DOMAIN list'[k] /\ j \in DOMAIN list'[k] /\ i # j
                  /\ obj'[list'[k][i]].id = id /\ obj'[list'[k][j]].id = id
  BY DEF Twice
<1>2. list[k] \in Seq(Nat) /\ \A m \in DOMAIN list[k] : list[k][m] \in DOMAIN obj /\ list[k][m] \in Listed(k)
  BY ListFacts
<1>3. /\ DOMAIN list'[k] = DOMAIN list[k] \cup {Len(list[k]) + 1} /\ list'[k][Len(list[k]) + 1] = p
      /\ \A m \in DOMAIN list[k] : list'[k][m] = list[k][m]
  BY <1>2, Appended
<1>4. \A m \in DOMAIN list[k] : obj'[list'[k][m]].id = obj[list[k][m]].id
  BY <1>2, <1>3 DEF ObjGrows
<1>5. CASE Holders(k, id) = {}
  <2>1. \A m \in DOMAIN list[k] : obj'[list'[k][m]].id # id
    BY <1>2, <1>4, <1>5 DEF Holders
  <2>2. QED
    BY <1>1, <1>3, <2>1
<1>6. CASE obj'[p].id # id
  <2>1. i \in DOMAIN list[k] /\ j \in DOMAIN list[k]
    BY <1>1, <1>3, <1>6
  <2>2. QED
    BY <1>1, <1>4, <2>1 DEF Twice
<1>7. QED
  BY <1>5, <1>6

LEMMA TwiceLess ==
    ASSUME Types, ObjGrows, NEW k \in Kinds, NEW id, NEW p,
           list'[k] = list[k] \/ list'[k] = Without(list[k], p), Twice(k, id)'
    PROVE  Twice(k, id)
<1>1. PICK i, j : /\ i \in DOMAIN list'[k] /\ j \in DOMAIN list'[k] /\ i # j
                  /\ obj'[list'[k][i]].id = id /\ obj'[list'[k][j]].id = id
  BY DEF Twice
<1>2. list[k] \in Seq(Nat) /\ \A m \in DOMAIN list[k] : obj'[list[k][m]].id = obj[list[k][m]].id
  BY ListFacts DEF ObjGrows
<1>3. CASE list'[k] = list[k]
  BY <1>1, <1>2, <1>3 DEF Twice
<1>4. ASSUME NEW a \in DOMAIN list'[k], NEW b \in DOMAIN list'[k], a < b, list'[k] = Without(list[k], p),
             obj'[list'[k][a]].id = id, obj'[list'[k][b]].id = id
      PROVE  Twice(k, id)
  <2>1. PICK m, n : /\ m \in DOMAIN list[k] /\ n \in DOMAIN list[k] /\ m < n
                    /\ list'[k][a] = list[k][m] /\ list'[k][b] = list[k][n]
    BY <1>2, <1>4, WithoutOrder
  <2>2. m # n
    BY <1>2, <2>1, SeqFacts
  <2>3. QED
    BY <1>2, <1>4, <2>1, <2>2 DEF Twice
<1>5. CASE list'[k] = Without(list[k], p)
  <2>1. list'[k] \in Seq(Nat)
    BY <1>2, <1>5, WithoutType
  <2>2. DOMAIN list'[k] \subseteq Int
    BY <2>1, SeqFacts
  <2>3. i < j \/ j < i
    BY <1>1, <2>2
  <2>4. QED
    BY <1>1, <1>4, <1>5, <2>3
<1>6. QED
  BY <1>3, <1>5

\* What t does not work on it leaves listed as often as it was, and as it was.
LEMMA HoldersStay ==
    ASSUME Types, Types', NEW t \in Threads, Minds(t), Moves(t), NEW k \in Kinds, NEW id \in Ids(k),
           ~Works(t, k, id)
    PROVE  /\ Holders(k, id)' = Holders(k, id) /\ (Twice(k, id)' => Twice(k, id))
           /\ row'[k][id] = row[k][id] /\ \A p \in Holders(k, id) : obj'[p].info = obj[p].info
<1>1. \A p \in Listed(k) : p \in DOMAIN obj /\ obj[p].kind = k /\ obj'[p].id = obj[p].id
  BY DEF Types, ListsOK, Moves, ObjGrows
<1>2. row'[k][id] = row[k][id] /\ \A p \in Holders(k, id) : obj'[p].info = obj[p].info
  BY <1>1 DEF Minds, Holders
<1>3. CASE list'[k] = list[k]
  <2>1. Listed(k)' = Listed(k)
    BY <1>3 DEF Listed
  <2>2. Holders(k, id)' = Holders(k, id)
    BY <1>1, <2>1 DEF Holders
  <2>3. QED
    BY <1>2, <1>3, <2>2, TwiceLess DEF Moves
<1>4. ASSUME NEW p \in DOMAIN obj', job[t].at = "append", job[t].kind = k, obj'[p].kind = k,
             obj'[p].id = job[t].id, list'[k] = Append(list[k], p), Listed(k)' = Listed(k) \cup {p}, p \in Nat
      PROVE  Holders(k, id)' = Holders(k, id) /\ (Twice(k, id)' => Twice(k, id))
  <2>1. job[t].id # id
    BY <1>4, OwnWork
  <2>2. Holders(k, id)' = Holders(k, id)
    BY <1>1, <1>4, <2>1 DEF Holders
  <2>3. QED
    BY <1>4, <2>1, <2>2, TwiceMore DEF Moves
<1>5. ASSUME NEW p \in DOMAIN obj, obj[p].kind = k, Works(t, k, obj[p].id), list'[k] = Without(list[k], p),
             Listed(k)' \subseteq Listed(k), Listed(k) \ {p} \subseteq Listed(k)'
      PROVE  Holders(k, id)' = Holders(k, id) /\ (Twice(k, id)' => Twice(k, id))
  <2>1. obj[p].id # id
    BY <1>5
  <2>2. Holders(k, id)' = Holders(k, id)
    BY <1>1, <1>5, <2>1 DEF Holders
  <2>3. QED
    BY <1>5, <2>2, TwiceLess DEF Moves
<1>6. QED
  BY <1>2, <1>3, <1>4, <1>5, ListMinds

\* The others keep in hand what they had.
LEMMA OthersInHand ==
    ASSUME Types, Types', Alone, Lists, NEW t \in Threads, Minds(t), Moves(t), MoreMarks,
           NEW u \in Threads, u # t
    PROVE  InHand(u)'
<1>1. job'[u] = job[u]
  BY DEF Moves, OthersStay
<1>2. InHand(u) /\ job[u] \in Jobs /\ job[u].kind \in Kinds
  BY DEF Lists, Types, TypeOK, Jobs
<1>3. ASSUME Grasp(job[u]), <<job[u].kind, job[u].id>> \notin history'.raced, NEW k, k = job[u].kind,
             ~Loose(k, job[u].id)'
      PROVE  job[u].ptr \in Listed(k)'
  <2>1. ~Raced(job[u].kind, job[u].id) /\ job[u].at # "idle"
    BY <1>3, Sets DEF MoreMarks, MoreRaced, Raced, Grasp, Linked
  <2>2. job[u].ptr \in Listed(job[u].kind)
    BY <1>1, <1>2, <1>3, <2>1 DEF InHand, Loose, MoreMarks
  <2>3. Is(job[u].ptr, job[u].kind, job[u].id)
    <3>1. Hand(job[u])
      BY <2>1, HandOf
    <3>2. QED
      BY <1>3, <3>1 DEF Hand, NodeHand, EPHand, PlainHand, Grasp
  <2>4. Works(u, job[u].kind, job[u].id)
    BY <2>1, OwnWork
  <2>5. ~Works(t, job[u].kind, obj[job[u].ptr].id)
    BY <2>1, <2>3, <2>4, NobodyElse DEF Is
  <2>6. QED
    BY <1>2, <1>3, <2>2, <2>5, ListedStays
<1>4. ASSUME job[u].ep # 0, ~(<<"ep", obj'[job[u].ep].id>> \in history'.raced)
      PROVE  job[u].ep \in ToSet(list'["ep"])
  <2>1. job[u].ep \in DOMAIN obj /\ job[u].at # "idle"
    BY <1>4, EPInHand, IdleFields DEF Types, Hands
  <2>2. ~Raced("ep", obj[job[u].ep].id)
    BY <1>4, <2>1 DEF MoreMarks, MoreRaced, Raced, Moves, ObjGrows
  <2>3. job[u].ep \in Listed("ep") /\ Works(u, "ep", obj[job[u].ep].id)
    BY <1>2, <1>4, <2>1, <2>2, OwnWork DEF InHand
  <2>4. ~Works(t, "ep", obj[job[u].ep].id)
    BY <2>2, <2>3, NobodyElse
  <2>5. QED
    BY <2>3, <2>4, ListedStays DEF Kinds, Listed
<1>5. QED
  BY <1>1, <1>3, <1>4 DEF InHand, Raced, Listed, Loose

\* A thread keeps in hand what it had, as long as it takes nothing from the list.
LEMMA KeepsInHand ==
    ASSUME Types, NEW t \in Threads, InHand(t), Moves(t), MoreMarks, SameJob(t),
           job'[t].ptr = job[t].ptr, job'[t].ep \in {0, job[t].ep},
           Grasp(job'[t]) => Grasp(job[t]) /\ ToSet(list[job[t].kind]) \subseteq ToSet(list'[job[t].kind]),
           job'[t].ep # 0 => Listed("ep") \subseteq Listed("ep")'
    PROVE  InHand(t)'
<1>1. ASSUME Grasp(job'[t]), <<job'[t].kind, job'[t].id>> \notin history'.raced,
             ~Loose(job[t].kind, job[t].id)'
      PROVE  job'[t].ptr \in ToSet(list'[job'[t].kind])
  BY <1>1 DEF InHand, SameJob, MoreMarks, MoreRaced, Raced, Listed, Loose
<1>2. ASSUME job'[t].ep # 0, ~(<<"ep", obj'[job'[t].ep].id>> \in history'.raced)
      PROVE  job'[t].ep \in ToSet(list'["ep"])
  <2>1. job'[t].ep = job[t].ep /\ job[t].ep \in DOMAIN obj
    BY <1>2, EPInHand
  <2>2. ~Raced("ep", obj[job[t].ep].id)
    BY <1>2, <2>1 DEF MoreMarks, MoreRaced, Raced, Moves, ObjGrows
  <2>3. QED
    BY <1>2, <2>1, <2>2 DEF InHand, Listed
<1>3. QED
  BY <1>1, <1>2 DEF InHand, Raced, Listed, Loose, SameJob

LEMMA IdleInHand == ASSUME NEW t, Ends(t) PROVE InHand(t)'
  BY IdleFields DEF Ends, InHand, Grasp, Plain

LEMMA FreshInHand ==
    ASSUME NEW t, ~Grasp(job'[t]), job'[t].ep = 0
    PROVE  InHand(t)'
  BY DEF InHand, Grasp

LEMMA PutInHand ==
    ASSUME NEW t, job'[t].ep = 0, job'[t].ptr \in ToSet(list'[job'[t].kind])
    PROVE  InHand(t)'
  BY DEF InHand, Listed

\* Nothing is taken from the list.
LEMMA StaysInHand ==
    ASSUME Types, NEW t \in Threads, InHand(t), Moves(t), MoreMarks, SameJob(t), UNCHANGED list,
           job'[t].ptr = job[t].ptr, job'[t].ep \in {0, job[t].ep},
           Grasp(job'[t]) => Grasp(job[t])
    PROVE  InHand(t)'
  BY KeepsInHand DEF Listed

LEMMA NodeInHand ==
    ASSUME Types, Types', Lists, NEW t \in Threads, Moves(t), MoreMarks,
           job[t].at # "idle", job[t].kind = "node", Hand(job[t]), job[t] \in Jobs, NodeDeed(t)
    PROVE  InHand(t)'
<1> DEFINE j == job[t]
<1>0. InHand(t) /\ NodeHand(j) /\ DOMAIN list = Kinds /\ "node" \in Kinds /\ j.ptr \in Nat /\ list["node"] \in Seq(Nat)
  BY DEF Lists, Hand, Types, TypeOK, Kinds, Jobs
<1>1. CASE Ends(t)
  BY <1>1, IdleInHand
<1>2. CASE /\ j.at = "look" /\ \E p : Grown(t, p) /\ GoesWith(t, p, IF j.new THEN "add" ELSE "append")
  BY <1>0, <1>2, FreshInHand DEF GoesWith, SameJob, Grasp, Plain, NodeHand
<1>3. CASE j.at = "add" /\ GoesTo(t, "append")
  BY <1>0, <1>3, FreshInHand DEF GoesTo, SameJob, SameHands, Grasp, Plain, NodeHand
<1>4. CASE j.at = "append" /\ list' = [list EXCEPT !["node"] = Append(@, j.ptr)] /\ GoesTo(t, "start")
  <2>1. list'["node"] = Append(list["node"], j.ptr)
    BY <1>0, <1>4
  <2>2. j.ptr \in ToSet(list'["node"])
    BY <1>0, <2>1, Appended
  <2>3. QED
    BY <1>0, <1>4, <2>2, PutInHand DEF GoesTo, SameJob, SameHands, NodeHand
<1>5. CASE UNCHANGED list /\ j.at \notin {"idle", "look", "add", "append"} /\ \E place \in Places : GoesTo(t, place)
  BY <1>0, <1>5, StaysInHand DEF GoesTo, SameHands, Grasp, SameJob
<1>6. ASSUME j.at \in {"empty", "purge"}, UNCHANGED list, NEW e \in ToSet(obj[j.ptr].eps), obj[e].node = j.ptr, Takes(t, e)
      PROVE  InHand(t)'
  <2>1. e \in DOMAIN obj /\ obj[e].kind = "ep" /\ j.ptr # 0
    BY <1>0, <1>6, ObjFacts DEF Types, ObjOK, NodeHand, Is
  <2>2. ASSUME ~(<<"ep", obj'[e].id>> \in history'.raced) PROVE e \in ToSet(list'["ep"])
    <3>1. ~Raced("ep", obj[e].id)
      BY <2>1, <2>2 DEF MoreMarks, MoreRaced, Raced, Moves, ObjGrows
    <3>2. QED
      BY <1>6, <2>1, <3>1 DEF Lists, Placed, Listed
  <2>3. ASSUME <<"node", j.id>> \notin history'.raced \cup history'.failed PROVE j.ptr \in ToSet(list'["node"])
    BY <1>0, <1>6, <2>3 DEF InHand, Grasp, MoreMarks, MoreRaced, Raced, Listed, Loose
  <2>4. job'[t].kind = "node" /\ job'[t].id = j.id /\ job'[t].ptr = j.ptr /\ job'[t].ep = e
    BY <1>6 DEF Takes, SameJob
  <2>5. QED
    BY <2>2, <2>3, <2>4 DEF InHand, Raced, Listed, Loose
<1>7. CASE UNCHANGED <<memory, job>>
  BY <1>0, <1>7, StaysInHand DEF memory, SameJob
<1>8. QED
  BY <1>1, <1>2, <1>3, <1>4, <1>5, <1>6, <1>7 DEF NodeDeed, Answered, memory, Places

LEMMA EPJobInHand ==
    ASSUME Types, Types', Lists, NEW t \in Threads, Moves(t), MoreMarks,
           job[t].at # "idle", job[t].kind = "ep", Hand(job[t]), job[t] \in Jobs, EPDeed(t)
    PROVE  InHand(t)'
<1> DEFINE j == job[t]
<1>0. InHand(t) /\ EPHand(j) /\ DOMAIN list = Kinds /\ "ep" \in Kinds /\ j.ptr \in Nat /\ list["ep"] \in Seq(Nat)
  BY DEF Lists, Hand, Types, TypeOK, Kinds, Jobs
<1>1. CASE Ends(t)
  BY <1>1, IdleInHand
<1>2. CASE /\ j.at = "look" /\ \E p : Grown(t, p) /\ GoesWith(t, p, "append")
  BY <1>0, <1>2, FreshInHand DEF GoesWith, SameJob, Grasp, Plain, EPHand
<1>3. ASSUME j.at = "append", list' = [list EXCEPT !["ep"] = Append(@, j.ptr)], NEW place, GoesTo(t, place)
      PROVE  InHand(t)'
  <2>1. list'["ep"] = Append(list["ep"], j.ptr)
    BY <1>0, <1>3
  <2>2. j.ptr \in ToSet(list'["ep"])
    BY <1>0, <2>1, Appended
  <2>3. QED
    BY <1>0, <1>3, <2>2, PutInHand DEF GoesTo, SameJob, SameHands, EPHand
<1>4. CASE UNCHANGED list /\ j.at \in {"add", "seek", "link", "save", "write"} /\ \E place \in Places : GoesTo(t, place)
  BY <1>0, <1>4, StaysInHand DEF GoesTo, SameHands, Grasp, SameJob
<1>5. CASE UNCHANGED list /\ GoesTo(t, "dropEP")
  BY <1>0, <1>5, StaysInHand DEF GoesTo, SameHands, Grasp, SameJob, Plain
<1>6. CASE UNCHANGED list /\ j.at = "seek" /\ SameJob(t) /\ job'[t].ptr = j.ptr /\ job'[t].ep = j.ep
  BY <1>0, <1>6, StaysInHand DEF Grasp
<1>8. QED
  BY <1>1, <1>2, <1>3, <1>4, <1>5, <1>6 DEF EPDeed, Answered, memory, Places

LEMMA KillInHand ==
    ASSUME Types, Types', Lists, NEW t \in Threads, Moves(t), MoreMarks,
           job[t].at # "idle", job[t].kind \in Linked, Hand(job[t]), KillDeed(t)
    PROVE  InHand(t)'
<1> DEFINE j == job[t]
<1>0. InHand(t) /\ DOMAIN list = Kinds
  BY DEF Lists, Types, TypeOK
<1>1. CASE Ends(t)
  BY <1>1, IdleInHand
<1>2. CASE j.at = "dropEP" /\ UNCHANGED list /\ GoesTo(t, "delistEP")
  BY <1>0, <1>2, StaysInHand DEF GoesTo, SameHands, Grasp, SameJob, Plain, Linked
<1>3. CASE /\ j.at = "delistEP" /\ Gone("ep", j.ep) /\ j.kind = "node" /\ SameJob(t) /\ job'[t].ptr = j.ptr
           /\ job'[t].ep = 0
  <2>1. ToSet(list'["node"]) = ToSet(list["node"])
    BY <1>0, <1>3 DEF Gone, Kinds
  <2>2. QED
    BY <1>0, <1>3, <2>1, KeepsInHand DEF Grasp
<1>4. QED
  BY <1>1, <1>2, <1>3 DEF KillDeed, Answered, memory

LEMMA PlainInHand ==
    ASSUME Types, Types', Lists, NEW t \in Threads, Moves(t), MoreMarks,
           job[t].at # "idle", job[t].kind \in Plain, Hand(job[t]), PlainDeed(t)
    PROVE  InHand(t)'
<1> DEFINE j == job[t]
<1>0. InHand(t) /\ PlainHand(j) /\ DOMAIN list = Kinds /\ j.kind \in Kinds /\ list[j.kind] \in Seq(Nat)
  BY Sets DEF Lists, Hand, Types, TypeOK
<1>1. CASE Ends(t)
  BY <1>1, IdleInHand
<1>2. ASSUME j.at = "append", NEW p, Grown(t, p), list' = [list EXCEPT ![j.kind] = Append(@, p)], GoesWith(t, p, "add")
      PROVE  InHand(t)'
  <2>1. list'[j.kind] = Append(list[j.kind], p)
    BY <1>0, <1>2
  <2>2. p \in Nat
    <3>1. obj' \in Seq(Objects)
      BY DEF Types, TypeOK
    <3>2. QED
      BY <1>2, <3>1, SeqFacts DEF Grown
  <2>3. p \in ToSet(list'[j.kind])
    BY <1>0, <2>1, <2>2, Appended
  <2>4. QED
    BY <1>0, <1>2, <2>3, PutInHand DEF GoesWith, SameJob, PlainHand
<1>3. CASE UNCHANGED list /\ j.at # "append" /\ \E place \in Places : GoesTo(t, place)
  BY <1>0, <1>3, StaysInHand DEF GoesTo, SameHands, Grasp, SameJob
<1>4. QED
  BY <1>1, <1>2, <1>3 DEF PlainDeed, Answered, memory, Places

LEMMA StepInHand ==
    ASSUME Types, Types', Lists, NEW t \in Threads, Moves(t), MoreMarks,
           Deed(t) \/ UNCHANGED <<memory, row, job>>
    PROVE  InHand(t)'
<1>1. CASE UNCHANGED <<memory, row, job>>
  BY <1>1, StaysInHand DEF memory, SameJob, Lists
<1>2. CASE job[t].at # "idle" /\ job[t] \in Jobs /\ FailDeed(t)
  <2>1. CASE Ends(t)
    BY <2>1, IdleInHand
  <2>2. CASE job[t].kind = "node" /\ GoesTo(t, "start")
    <3>1. Loose("node", job[t].id)' /\ job'[t].ep = 0 /\ job'[t].kind = "node" /\ job'[t].id = job[t].id
      BY <1>2, <2>2 DEF FailDeed, Loose, Key, GoesTo, SameJob, SameHands
    <3>2. QED
      BY <3>1 DEF InHand, Loose
  <2>3. QED
    BY <1>2, <2>1, <2>2 DEF FailDeed
<1>3. QED
  BY <1>1, <1>2, NodeInHand, EPJobInHand, KillInHand, PlainInHand DEF Deed

\* What is begun with has been found in the list.
LEMMA BegunInHand ==
    ASSUME Types, Types', NEW t \in Threads, NEW j, job'[t] = j, Asked(j) \/ Loads(j) \/ Starts(j),
           j = Idle \/ (j.at # "idle" /\ Hand(j)), UNCHANGED list
    PROVE  InHand(t)'
<1>1. CASE j = Idle
  BY <1>1, IdleInHand DEF Ends
<1>2. ASSUME j # Idle, Hand(j)
      PROVE  /\ Grasp(j) => j.ptr \in Listed(j.kind)
             /\ j.ep # 0 => j.ep \in Listed("ep")
  <2>1. CASE Asked(j)
    <3>1. \A k \in Kinds : \A id : \A p \in Get(k, id) : p \in Listed(k)
      BY Found
    <3>2. Plain \subseteq Kinds /\ {"node", "ep"} \subseteq Kinds
      BY IdleFields, Sets DEF Kinds, Plain
    <3>3. CASE j.kind = "node"
      BY <1>2, <2>1, <3>1, <3>2, <3>3 DEF Asked, Hand, NodeHand, Grasp, Plain
    <3>4. CASE j.kind = "ep"
      BY <1>2, <2>1, <3>1, <3>2, <3>4 DEF Asked, Hand, EPHand, Grasp, Plain
    <3>5. CASE j.kind \in Plain
      BY <1>2, <2>1, <3>1, <3>2, <3>5 DEF Asked, Hand, PlainHand, Grasp, Plain
    <3>6. QED
      BY <1>2, <2>1, <3>3, <3>4, <3>5 DEF Asked
  <2>2. CASE Loads(j)
    BY <1>2, <2>2, Sets DEF Loads, Hand, NodeHand, EPHand, PlainHand, Grasp, Plain, Linked
  <2>3. CASE Starts(j)
    BY <1>2, <2>3 DEF Starts, Hand, NodeHand
  <2>4. QED
    BY <2>1, <2>2, <2>3
<1>3. ASSUME j # Idle PROVE InHand(t)'
  <2>1. Hand(j)
    BY <1>3
  <2>2. /\ Grasp(j) => j.ptr \in Listed(j.kind)
        /\ j.ep # 0 => j.ep \in Listed("ep")
    BY <1>2, <1>3, <2>1
  <2>3. list' = list
    OBVIOUS
  <2>4. /\ Grasp(j) => j.ptr \in ToSet(list'[j.kind])
        /\ j.ep # 0 => j.ep \in ToSet(list'["ep"])
    BY <2>2, <2>3 DEF Listed
  <2>5. QED
    BY <2>4 DEF InHand, Listed
<1>4. QED
  BY <1>1, <1>3

\* Who is to list an object has found none, now or before.
LEMMA AddsFrom ==
    ASSUME Types, NEW t \in Threads, Does(t), NEW k \in Linked, NEW id, Adds(job'[t], k, id)
    PROVE  UNCHANGED list /\ Works(t, k, id) /\ (Adds(job[t], k, id) \/ Holders(k, id) = {})
<1> DEFINE j == job[t]
<1>0. k \in {"node", "ep"} /\ job'[t].at \in {"append", "add"} /\ job'[t].kind = k /\ job'[t].id = id
      /\ (k = "ep" => job'[t].at = "append")
  BY DEF Adds, Linked
<1>1. ASSUME NEW J, Begins(t, J) \/ MainBegins(J), job'[t] = J PROVE FALSE
  BY <1>0, <1>1, IdleFields DEF Begins, MainBegins, Asked, Loads, Starts, Plain
<1>2. ~Step(t) => FALSE
  BY <1>1, BeginsMoves, MainBeginsMoves DEF Does
<1>3. CASE UNCHANGED <<memory, row, job>>
  BY <1>0, <1>3, OwnWork DEF Adds, memory
<1>4. CASE Deed(t)
  <2>1. j.at # "idle" /\ Hand(j) /\ j \in Jobs
    BY <1>4 DEF Deed
  <2>2. ASSUME j.kind = k, j.id = id PROVE Works(t, k, id)
    BY <2>1, <2>2, OwnWork
  <2>3. ~Ends(t)
    BY <1>0, IdleFields DEF Ends
  <2>4. CASE j.kind = "node" /\ NodeDeed(t)
    <3>1. SameJob(t) => k = "node" /\ j.kind = k /\ j.id = id
      BY <1>0, <2>4 DEF SameJob
    <3>2. CASE j.at = "look"
      BY <2>2, <2>3, <2>4, <3>1, <3>2 DEF NodeDeed, GoesWith
    <3>3. CASE j.at \in {"add", "append"}
      BY <1>0, <2>2, <2>3, <2>4, <3>1, <3>3 DEF NodeDeed, GoesTo, Answered, memory, Adds
    <3>4. j.at \notin {"look", "add", "append"} => UNCHANGED <<memory, job>>
      BY <1>0, <2>3, <2>4 DEF NodeDeed, GoesTo, Takes
    <3>5. QED
      BY <1>0, <2>2, <2>4, <3>2, <3>3, <3>4 DEF memory, Adds
  <2>5. CASE j.kind = "ep" /\ EPDeed(t)
    <3>1. j.at = "look"
      BY <1>0, <2>3, <2>5 DEF EPDeed, GoesTo, SameJob
    <3>2. QED
      BY <1>0, <2>2, <2>3, <2>5, <3>1 DEF EPDeed, GoesWith, SameJob
  <2>6. CASE j.kind \in Linked /\ KillDeed(t)
    <3>1. j.at = "delistEP" /\ job'[t].at = j.back /\ j.kind = "node"
      BY <1>0, <2>3, <2>6 DEF KillDeed, GoesTo
    <3>2. QED
      BY <1>0, <2>1, <3>1 DEF Hand, NodeHand
  <2>7. CASE j.kind \in Plain /\ PlainDeed(t)
    BY <1>0, <2>3, <2>7 DEF PlainDeed, GoesTo, GoesWith, SameJob, Plain
  <2>8. CASE UNCHANGED <<memory, row, job>>
    BY <1>3, <2>8
  <2>9. ~FailDeed(t)
    BY <1>0, <2>3 DEF FailDeed, GoesTo
  <2>10. QED
    BY <1>4, <2>4, <2>5, <2>6, <2>7, <2>8, <2>9 DEF Deed
<1>5. QED
  BY <1>2, <1>3, <1>4, StepDeeds

LEMMA PlacedKept ==
    ASSUME Types, Types', Lists, NEW t \in Threads, Minds(t), Moves(t), MoreRaced, NEW e \in DOMAIN obj'
    PROVE  Placed(e)'
<1> SUFFICES ASSUME obj'[e].kind = "ep", obj'[e].node # 0, <<"ep", obj'[e].id>> \notin history'.raced
             PROVE  e \in Listed("ep")'
  BY DEF Placed, Raced
<1>1. ASSUME e \in DOMAIN obj PROVE obj[e].kind = "ep" /\ ~Raced("ep", obj[e].id)
  BY <1>1 DEF Moves, ObjGrows, MoreRaced, Raced
<1>2. CASE e \in DOMAIN obj /\ obj'[e].node = obj[e].node
  <2>1. e \in Listed("ep")
    BY <1>1, <1>2 DEF Lists, Placed
  <2>2. "ep" \in Kinds
    BY DEF Kinds
  <2>3. \A p \in DOMAIN obj : obj'[p].node = 0 => p # e
    OBVIOUS
  <2>4. \/ list'["ep"] = list["ep"]
        \/ \E p \in DOMAIN obj' : Listed("ep")' = Listed("ep") \cup {p}
        \/ \E p \in DOMAIN obj : obj'[p].node = 0 /\ Listed("ep") \ {p} \subseteq Listed("ep")'
    BY <2>2, ListMinds
  <2>5. QED
    BY <2>1, <2>3, <2>4 DEF Listed
<1>3. CASE e = job[t].ptr /\ job[t].kind = "ep" /\ job[t].at = "link" /\ UNCHANGED list
  <2>1. Is(e, "ep", job[t].id)
    BY <1>3, HandOf DEF Hand, EPHand
  <2>2. ~Raced("ep", job[t].id)
    BY <1>1, <2>1 DEF Is
  <2>3. e \in Listed("ep")
    BY <1>3, <2>2 DEF Lists, InHand, Grasp, Loose
  <2>4. QED
    BY <1>3, <2>3 DEF Listed
<1>4. QED
  BY <1>2, <1>3 DEF Minds, Nodeless

LEMMA OnceKept ==
    ASSUME Types, Types', Alone, Lists, NEW t \in Threads, Does(t), NEW k \in Linked, NEW id \in Ids(k)
    PROVE  Once(k, id)'
<1>0. Minds(t) /\ Moves(t) /\ MoreRaced /\ k \in Kinds
  BY DoesMinds, Sets
<1> SUFFICES ASSUME <<k, id>> \notin history'.raced
             PROVE  ~Twice(k, id)' /\ \A u \in Threads : Adds(job'[u], k, id) => Holders(k, id)' = {}
  BY DEF Once, Raced
<1>1. /\ ~Raced(k, id) /\ ~Twice(k, id)
      /\ \A u \in Threads : Adds(job[u], k, id) => Holders(k, id) = {}
  BY <1>0 DEF Lists, Once, MoreRaced, Raced
<1>2. ~Twice(k, id)'
  <2>1. CASE list'[k] = list[k]
    BY <1>0, <1>1, <2>1, TwiceLess DEF Moves
  <2>2. ASSUME NEW p \in DOMAIN obj', job[t].at = "append", job[t].kind = k, obj'[p].id = job[t].id,
               list'[k] = Append(list[k], p), p \in Nat
        PROVE  ~Twice(k, id)'
    <3>1. obj'[p].id = id => Holders(k, id) = {}
      BY <1>1, <2>2 DEF Adds
    <3>2. QED
      BY <1>0, <1>1, <2>2, <3>1, TwiceMore DEF Moves
  <2>3. ASSUME NEW p, list'[k] = Without(list[k], p) PROVE ~Twice(k, id)'
    BY <1>0, <1>1, <2>3, TwiceLess DEF Moves
  <2>4. QED
    BY <1>0, <2>1, <2>2, <2>3, ListMinds
<1>3. ASSUME NEW u \in Threads, Adds(job'[u], k, id) PROVE Holders(k, id)' = {}
  <2>1. CASE u = t
    <3>1. UNCHANGED list /\ Holders(k, id) = {}
      BY <1>1, <1>3, <2>1, AddsFrom
    <3>2. Listed(k)' = Listed(k) /\ Listed(k) \subseteq DOMAIN obj
      BY <1>0, <3>1 DEF Listed, Types, ListsOK
    <3>3. QED
      BY <1>0, <3>1, <3>2 DEF Holders, Moves, ObjGrows
  <2>2. CASE u # t
    <3>1. job'[u] = job[u] /\ job[u].at # "idle"
      BY <1>0, <1>3, <2>2 DEF Moves, OthersStay, Adds
    <3>2. Works(u, k, id) /\ Holders(k, id) = {}
      BY <1>1, <1>3, <3>1, OwnWork DEF Adds
    <3>3. ~Works(t, k, id)
      BY <1>1, <2>2, <3>2, NobodyElse
    <3>4. QED
      BY <1>0, <3>2, <3>3, HoldersStay
  <2>3. QED
    BY <2>1, <2>2
<1>4. QED
  BY <1>2, <1>3

LEMMA DoesLists ==
    ASSUME Types, Types', Alone, Lists, NEW t \in Threads, Does(t)
    PROVE  Lists'
<1>0. Minds(t) /\ Moves(t) /\ MoreRaced /\ MoreMarks
  BY DoesMinds, DoesPasses
<1>1. InHand(t)'
  <2>1. CASE Step(t)
    BY <1>0, <2>1, StepDeeds, StepInHand
  <2>2. ASSUME NEW j, t \in Consoles, Begins(t, j) PROVE InHand(t)'
    BY <2>2, BeginsMoves, BegunInHand DEF Begins
  <2>3. ASSUME NEW j, t = Main, MainBegins(j) PROVE InHand(t)'
    BY <2>3, MainBeginsMoves, BegunInHand DEF MainBegins
  <2>4. QED
    BY <2>1, <2>2, <2>3 DEF Does
<1>2. \A u \in Threads : InHand(u)'
  BY <1>0, <1>1, OthersInHand
<1>3. \A e \in DOMAIN obj' : Placed(e)'
  BY <1>0, PlacedKept
<1>4. \A k \in Linked : \A id \in Ids(k) : Once(k, id)'
  BY OnceKept
<1>5. QED
  BY <1>2, <1>3, <1>4 DEF Lists, Ids

LEMMA StartedLists == JustStarted => Lists
  BY EmptySeq, IdleFields DEF JustStarted, Lists, InHand, Grasp, Plain, Placed, Once, Twice, Adds, Linked, Kinds

\* What a thread has found stays listed as long as it works on it (a node whose creation was
\* never listed is not), an endpoint with a node is listed, and no node or endpoint is listed
\* twice, but for those two threads worked on.
THEOREM ListsCorrect == Spec => []Lists
<1>1. Init => Lists
  BY InitStarts, StartedLists
<1>2. Types /\ Types' /\ Alone /\ Lists /\ [Next]_vars => Lists'
  <2> SUFFICES ASSUME Types, Types', Alone, Lists, [Next]_vars PROVE Lists'
    OBVIOUS
  <2>1. CASE \E t \in Threads : Does(t)
    BY <2>1, DoesLists
  <2>2. ASSUME UNCHANGED <<obj, list, job>>, history'.raced = history.raced, history.failed \subseteq history'.failed
        PROVE  Lists'
    BY <2>2 DEF Lists, InHand, Placed, Once, Twice, Holders, Listed, Raced, Loose
  <2>3. CASE MainRests
    BY <2>2, <2>3 DEF MainRests, MainStep, memory, Passes
  <2>4. CASE JustStarted'
    <3>1. JustStarted' => Lists'
      BY StartedLists, PTL
    <3>2. QED
      BY <2>4, <3>1
  <2>5. CASE UNCHANGED vars
    BY <2>2, <2>5 DEF vars, memory
  <2>6. QED
    BY <2>1, <2>3, <2>4, <2>5, Doings
<1>3. QED
  BY <1>1, <1>2, TypeCorrect, LinksCorrect, PTL DEF Spec

-------------------------------------------------------------------------------
(* What the lists and the data manager say of the same object.                *)

LEMMA BusyWorks ==
    ASSUME NEW k, NEW id
    PROVE  /\ Busy(k, id) <=> \E t \in Threads : Works(t, k, id)
           /\ Busy(k, id)' <=> \E t \in Threads : Works(t, k, id)'
  BY DEF Busy, Works, Holds, Key

\* The others work on what they worked on.
LEMMA OthersWork ==
    ASSUME Types, NEW t \in Threads, Moves(t), NEW u \in Threads, u # t, NEW k, NEW id
    PROVE  Works(u, k, id)' <=> Works(u, k, id)
<1>1. job'[u] = job[u]
  BY DEF Moves, OthersStay
<1>2. job[u].ep = 0 \/ (job[u].ep \in DOMAIN obj /\ obj'[job[u].ep].id = obj[job[u].ep].id)
  BY EPInHand DEF Moves, ObjGrows
<1>3. QED
  BY <1>1, <1>2 DEF Works, Holds, Key

\* Who works on an unraced object is alone with it, also after a step.
LEMMA NobodyElseThen ==
    ASSUME Alone', NEW t \in Threads, NEW k, NEW id, ~Raced(k, id)', Works(t, k, id)',
           NEW u \in Threads, Works(u, k, id)'
    PROVE  u = t
<1>1. Alone' /\ ~Raced(k, id)' /\ Works(t, k, id)' /\ Works(u, k, id)' => u = t
  <2>1. SUFFICES ASSUME Alone', u # t, Works(t, k, id)', Works(u, k, id)' PROVE Raced(k, id)'
    OBVIOUS
  <2>2. job'[t].at # "idle" /\ job'[u].at # "idle"
    BY <2>1 DEF Works
  <2>3. <<k, id>> \in Holds(job[t])' /\ <<k, id>> \in Holds(job[u])'
    BY <2>1 DEF Works
  <2>4. Clash(job[t], job[u])'
    BY <2>2, <2>3 DEF Clash
  <2>5. <<k, id>> \in Together(job[t], job[u])'
    BY <2>3 DEF Together
  <2>6. QED
    BY <2>1, <2>4, <2>5 DEF Alone, Raced
<1>2. QED
  BY <1>1

\* The lists and the data manager say what they said.
Left(k, id) ==
    /\ Holders(k, id)' = Holders(k, id) /\ (Twice(k, id)' => Twice(k, id))
    /\ row'[k][id] = row[k][id] /\ \A p \in Holders(k, id) : obj'[p].info = obj[p].info

LEMMA LeftBacked == ASSUME NEW k, NEW id, Left(k, id), Backed(k, id) PROVE Backed(k, id)'
  BY DEF Left, Backed

LEMMA LeftSettled ==
    ASSUME NEW k, NEW id, Left(k, id), MoreMarks, Settled(k, id), NotYet(k, id) => NotYet(k, id)'
    PROVE  Settled(k, id)'
<1>1. Backed(k, id)'
  BY LeftBacked DEF Settled
<1>2. Shown(k, id)'
  BY DEF Left, Shown, Settled, MoreMarks
<1>3. QED
  BY <1>1, <1>2 DEF Settled

\* What t does not touch, another thread still knows.
LEMMA ClaimStays ==
    ASSUME Types, NEW t \in Threads, Minds(t), Moves(t), MoreMarks, NEW k \in Kinds, NEW id \in Ids(k),
           Left(k, id), NotYet(k, id) => NotYet(k, id)', ~Works(t, k, id),
           NEW u \in Threads, u # t, Works(u, k, id), Claim(u, k, id)
    PROVE  Claim(u, k, id)'
<1>1. job'[u] = job[u] /\ Hand(job[u]) /\ job[u].at # "idle"
  BY HandOf DEF Moves, OthersStay, Works
<1>2. Settled(k, id) => Settled(k, id)'
  BY LeftSettled
<1>3. Backed(k, id) => Backed(k, id)'
  BY LeftBacked
<1>4. \A info : Stored(k, id, info) => Stored(k, id, info)'
  BY DEF Left, Stored
<1>5. ASSUME Key(job[u]) = <<k, id>>, Is(job[u].ptr, k, id)
      PROVE  obj'[job[u].ptr].info = obj[job[u].ptr].info
  BY <1>5 DEF Minds, Is
<1>6. row'[k][id] = row[k][id] /\ Holders(k, id)' = Holders(k, id) /\ (Twice(k, id)' => Twice(k, id))
  BY DEF Left
<1>7. ASSUME Key(job[u]) = <<k, id>>, k = "node", NodeClaim(job[u], id) PROVE NodeClaim(job[u], id)'
  <2>1. job[u].at # "look" => Is(job[u].ptr, k, id)
    BY <1>1, <1>7 DEF Hand, NodeHand, Key
  <2>2. job[u].at # "look" => obj'[job[u].ptr].info = obj[job[u].ptr].info
    BY <1>5, <1>7, <2>1
  <2>3. QED
    BY <1>1, <1>2, <1>3, <1>4, <1>6, <1>7, <2>2 DEF NodeClaim, Carries
<1>8. ASSUME Key(job[u]) = <<k, id>>, k = "ep", EPClaim(job[u], id) PROVE EPClaim(job[u], id)'
  <2>1. job[u].at \in {"append", "add"} => Is(job[u].ptr, k, id)
    BY <1>1, <1>8 DEF Hand, EPHand, Key
  <2>2. job[u].at \in {"append", "add"} => obj'[job[u].ptr].info = obj[job[u].ptr].info
    BY <1>5, <1>8, <2>1
  <2>3. QED
    BY <1>1, <1>2, <1>3, <1>4, <1>6, <1>8, <2>2 DEF EPClaim, Carries
<1>9. ASSUME Key(job[u]) = <<k, id>>, k \in Plain, PlainClaim(job[u], k, id) PROVE PlainClaim(job[u], k, id)'
  <2>1. job[u].at # "append" => Is(job[u].ptr, k, id)
    BY <1>1, <1>9 DEF Hand, PlainHand, Key
  <2>2. job[u].at # "append" => obj'[job[u].ptr].info = obj[job[u].ptr].info
    BY <1>5, <1>9, <2>1
  <2>3. QED
    BY <1>1, <1>2, <1>3, <1>4, <1>6, <1>9, <2>2 DEF PlainClaim, Carries
<1>10. ASSUME k = "ep", KillClaim(job[u], id) PROVE KillClaim(job[u], id)'
  BY <1>1, <1>3, <1>6, <1>10 DEF KillClaim
<1>11. QED
  BY <1>1, <1>7, <1>8, <1>9, <1>10 DEF Claim, Key

\* Nothing changes about an object that t neither works on nor takes up.
LEMMA KeyLeft ==
    ASSUME Types, Types', NEW t \in Threads, Minds(t), Moves(t), MoreMarks, NEW k \in Kinds, NEW id \in Ids(k),
           ~Works(t, k, id), ~Works(t, k, id)', NotYet(k, id) <=> NotYet(k, id)', Known(k, id)
    PROVE  Known(k, id)'
<1> SUFFICES ASSUME Regular(k, id)'
             PROVE  /\ \A u \in Threads : Works(u, k, id)' => Claim(u, k, id)'
                    /\ Unborn(k, id)' /\ Rested(k, id)'
  BY DEF Known
<1>1. Regular(k, id)
  BY RegularBefore
<1>2. Left(k, id)
  BY HoldersStay DEF Left
<1>3. \A u \in Threads : Works(u, k, id)' <=> Works(u, k, id)
  BY OthersWork
<1>4. Busy(k, id)' <=> Busy(k, id)
  BY <1>3, BusyWorks
<1>5. \A u \in Threads : Works(u, k, id)' => Claim(u, k, id)'
  BY <1>1, <1>2, <1>3, ClaimStays DEF Known
<1>6. Unborn(k, id)'
  BY <1>1, <1>2, <1>4 DEF Known, Unborn, Left
<1>7. Rested(k, id)'
  BY <1>1, <1>2, <1>4, LeftSettled DEF Known, Rested, Left
<1>8. QED
  BY <1>5, <1>6, <1>7

\* A step takes nothing in hand but an endpoint that goes with its node.
LEMMA StepTakes ==
    ASSUME Types, NEW t \in Threads, Moves(t), Deed(t) \/ UNCHANGED <<memory, row, job>>,
           NEW k, NEW id, ~Works(t, k, id), Works(t, k, id)'
    PROVE  k = "ep" /\ job'[t].kind = "node" /\ job'[t].at = "dropEP"
<1>1. ~Ends(t)
  BY IdleFields DEF Ends, Works
<1>2. ASSUME SameJob(t), job'[t].ep \in {0, job[t].ep}, job[t].at # "idle" PROVE FALSE
  <2>1. job[t].ep = 0 \/ (job[t].ep \in DOMAIN obj /\ obj'[job[t].ep].id = obj[job[t].ep].id)
    BY EPInHand DEF Moves, ObjGrows
  <2>2. QED
    BY <1>2, <2>1 DEF Works, Holds, Key, SameJob
<1>3. ASSUME NEW e, Takes(t, e), job[t].kind = "node", job[t].at # "idle"
      PROVE  k = "ep" /\ job'[t].kind = "node" /\ job'[t].at = "dropEP"
  BY <1>3 DEF Takes, SameJob, Works, Holds, Key
<1>4. CASE UNCHANGED <<memory, row, job>>
  BY <1>4 DEF Works, Holds, Key, memory
<1>5. CASE Deed(t)
  <2>1. job[t].at # "idle"
    BY <1>5 DEF Deed
  <2>2. \A place : GoesTo(t, place) => FALSE
    BY <1>2, <2>1 DEF GoesTo, SameHands
  <2>3. \A p, place : GoesWith(t, p, place) => FALSE
    BY <1>2, <2>1 DEF GoesWith
  <2>4. CASE job[t].kind = "node" /\ NodeDeed(t)
    <3>1. (\E e : Takes(t, e)) \/ UNCHANGED <<memory, job>>
      BY <1>1, <2>2, <2>3, <2>4 DEF NodeDeed
    <3>2. UNCHANGED <<memory, job>> => FALSE
      BY DEF Works, Holds, Key, memory
    <3>3. QED
      BY <1>3, <2>1, <2>4, <3>1, <3>2
  <2>5. CASE EPDeed(t)
    BY <1>1, <1>2, <2>1, <2>2, <2>3, <2>5 DEF EPDeed
  <2>6. CASE KillDeed(t)
    BY <1>1, <1>2, <2>1, <2>2, <2>6 DEF KillDeed
  <2>7. CASE PlainDeed(t)
    BY <1>1, <2>2, <2>3, <2>7 DEF PlainDeed
  <2>8. ~FailDeed(t)
    BY <1>1, <2>2 DEF FailDeed
  <2>9. QED
    BY <1>4, <1>5, <2>4, <2>5, <2>6, <2>7, <2>8 DEF Deed
<1>6. QED
  BY <1>4, <1>5

\* What a request begins with.
LEMMA BegunClaim ==
    ASSUME Types, NEW t \in Threads, NEW j, job'[t] = j, j # Idle, Asked(j), Hand(j), j.kind \in Kinds,
           NEW k \in Kinds, NEW id \in Ids(k), Works(t, k, id)', ObjGrows,
           Settled(k, id)', ~Twice(k, id)'
    PROVE  Key(j) = <<k, id>> /\ Claim(t, k, id)'
<1>1. Key(j) = <<k, id>>
  <2>1. <<k, id>> \in Holds(j)'
    BY DEF Works
  <2>2. CASE j.ep = 0
    BY <2>1, <2>2 DEF Holds, Key
  <2>3. CASE j.ep # 0
    <3>1. j.kind = "ep" /\ Is(j.ep, "ep", j.id)
      BY <2>3 DEF Asked, Hand, NodeHand, EPHand, PlainHand, Plain
    <3>2. QED
      BY <2>1, <3>1 DEF Holds, Key, Is, ObjGrows
  <2>4. QED
    BY <2>2, <2>3
<1>2. New # NoRow /\ NoRow \notin Nodes
  BY RowAssumption
<1>3. Backed(k, id)'
  BY DEF Settled
<1>4. k = "node" => NodeClaim(job[t], id)'
  BY <1>1, <1>2, <1>3 DEF Asked, NodeClaim, Key, Plain
<1>5. k = "ep" => EPClaim(job[t], id)' /\ KillClaim(job[t], id)'
  BY <1>1, <1>2, <1>3 DEF Asked, EPClaim, KillClaim, Key, Plain
<1>6. k \in Plain => PlainClaim(job[t], k, id)'
  BY <1>1, <1>2, <1>3 DEF Asked, PlainClaim, Key, Plain
<1>7. QED
  BY <1>1, <1>4, <1>5, <1>6 DEF Claim, Plain, Key

\* What is begun with has been at rest.
LEMMA KeyTaken ==
    ASSUME Types, Types', Alone', NEW t \in Threads, Does(t), Minds(t), Moves(t), MoreMarks,
           NEW k \in Kinds, NEW id \in Ids(k), ~Works(t, k, id), Works(t, k, id)', Known(k, id)
    PROVE  Known(k, id)'
<1> SUFFICES ASSUME Regular(k, id)'
             PROVE  /\ \A u \in Threads : Works(u, k, id)' => Claim(u, k, id)'
                    /\ Unborn(k, id)' /\ Rested(k, id)'
  BY DEF Known
<1>1. Regular(k, id) /\ ~Raced(k, id)'
  BY RegularBefore DEF Regular, Raced
<1>2. \A u \in Threads : Works(u, k, id)' => u = t
  BY <1>1, NobodyElseThen
<1>3. ~Busy(k, id) /\ Busy(k, id)'
  BY <1>2, BusyWorks, OthersWork
<1>4. Settled(k, id) /\ ~Twice(k, id) /\ Unborn(k, id)
  BY <1>1, <1>3 DEF Known, Rested
<1>5. Left(k, id)
  BY HoldersStay DEF Left
<1>6. Backed(k, id)' /\ ~Twice(k, id)'
  BY <1>4, <1>5, LeftBacked DEF Settled, Left
<1>7. SUFFICES Claim(t, k, id)' /\ (k \in Plain => ~NotYet(k, id)')
  BY <1>2, <1>3 DEF Unborn, Rested
<1>8. ASSUME NEW j, t \in Consoles, Begins(t, j)
      PROVE  Claim(t, k, id)' /\ (k \in Plain => ~NotYet(k, id)')
  <2>1. job'[t] = j /\ j \in Jobs
    BY <1>8, BeginsMoves DEF Begins
  <2>2. j # Idle
    BY <2>1, IdleFields DEF Works
  <2>3. Asked(j) /\ Hand(j) /\ UNCHANGED control /\ j.kind \in Kinds
    BY <1>8, <2>1, <2>2 DEF Begins, ReqStep, Jobs
  <2>4. Settled(k, id)'
    BY <1>4, <1>5, <2>3, LeftSettled DEF NotYet, control
  <2>5. Key(j) = <<k, id>> /\ Claim(t, k, id)'
    BY <1>6, <2>1, <2>2, <2>3, <2>4, BegunClaim DEF Moves
  <2>6. ASSUME k \in Plain, NotYet(k, id)' PROVE FALSE
    <3>1. NotYet(k, id) /\ Holders(k, id) = {} /\ state = "CONNECTED"
      BY <1>4, <2>3, <2>6 DEF NotYet, control, Unborn
    <3>2. j.kind = k /\ j.id = id
      BY <2>5 DEF Key
    <3>3. CASE j.at = "append" /\ j.new
      <4>1. PICK h \in Histories : SameMarks(h, j) /\ Begin(t, j, h)
        BY <1>8 DEF Begins
      <4>2. <<k, id>> \in h.early
        BY <2>5, <3>1, <3>3, <4>1 DEF SameMarks
      <4>3. history'.early = h.early
        BY <4>1 DEF Begin, Take, Racing, Histories
      <4>4. QED
        BY <2>6, <4>2, <4>3 DEF Regular, MayBeTwice, Plain
    <3>4. CASE j.ptr \in Get(k, id)
      BY <3>1, <3>4, Found
    <3>5. QED
      BY <2>2, <2>3, <2>6, <3>2, <3>3, <3>4 DEF Asked, Plain
  <2>7. QED
    BY <2>5, <2>6
<1>9. ASSUME NEW j, t = Main, MainBegins(j)
      PROVE  Claim(t, k, id)' /\ (k \in Plain => ~NotYet(k, id)')
  <2>1. job'[t] = j /\ Hand(j) /\ UNCHANGED row
    BY <1>9, MainBeginsMoves DEF MainBegins, MainStep, store
  <2>2. CASE Starts(j)
    <3>1. k = "node" /\ Key(j) = <<k, id>>
      BY <2>1, <2>2 DEF Works, Holds, Key, Starts, Hand, NodeHand
    <3>2. NodeClaim(job[t], id)'
      BY <1>6, <2>1, <2>2, <3>1 DEF NodeClaim, Starts
    <3>3. QED
      BY <2>1, <3>1, <3>2 DEF Claim, Plain
  <2>3. CASE Loads(j)
    <3>1. Key(j) = <<k, id>> /\ k = j.kind /\ id = j.id /\ j.ep = 0
      <4>1. j.ep = 0
        BY <2>1, <2>3, Sets DEF Loads, Hand, NodeHand, EPHand, PlainHand, Linked
      <4>2. QED
        BY <2>1, <4>1 DEF Works, Holds, Key
    <3>2. NotYet(k, id) /\ id \in sync.todo
      BY <2>3, <3>1, OrderOnce DEF Loads
    <3>3. ~NotYet(k, id)'
      <4>1. sync'.phase = sync.phase /\ sync'.next = sync.next /\ sync'.todo = sync.todo \ {id}
        BY <2>3, <3>1, SyncFacts DEF Loads
      <4>2. sync.next = "load" /\ Order[sync.phase] = k /\ sync.phase <= Len(Order)
        BY <2>3, <3>1 DEF Loads, Syncing
      <4>3. QED
        BY <4>1, <4>2 DEF NotYet
    <3>4. Stored(k, id, j.info)'
      BY <2>1, <2>3, <3>1 DEF Loads, Stored
    <3>5. k = "node" => NodeClaim(job[t], id)'
      BY <1>6, <2>1, <2>3, <3>1, <3>4 DEF NodeClaim, Loads, Plain
    <3>6. k = "ep" => EPClaim(job[t], id)' /\ KillClaim(job[t], id)'
      BY <1>6, <2>1, <2>3, <3>1, <3>4 DEF EPClaim, KillClaim, Loads, Plain
    <3>7. k \in Plain => PlainClaim(job[t], k, id)'
      <4>1. k \in Plain => Holders(k, id)' = {}
        BY <1>4, <1>5, <3>2 DEF Unborn, Left
      <4>2. QED
        BY <1>6, <2>1, <2>3, <3>1, <3>4, <4>1 DEF PlainClaim, Loads
    <3>8. QED
      BY <2>1, <3>1, <3>3, <3>5, <3>6, <3>7 DEF Claim, Plain
  <2>4. QED
    BY <1>9, <2>2, <2>3 DEF MainBegins
<1>10. CASE Step(t)
  <2>1. k = "ep" /\ job'[t].kind = "node" /\ job'[t].at = "dropEP"
    BY <1>10, StepDeeds, StepTakes
  <2>2. KillClaim(job[t], id)'
    BY <1>6, <2>1 DEF KillClaim
  <2>3. QED
    BY <2>1, <2>2 DEF Claim, Key, Plain
<1>11. QED
  BY <1>8, <1>9, <1>10 DEF Does

\* The lists say what they said.
Same(k, id) ==
    /\ Holders(k, id)' = Holders(k, id) /\ (Twice(k, id)' => Twice(k, id))
    /\ \A p \in Holders(k, id) : obj'[p].info = obj[p].info

LEMMA SameHeld ==
    ASSUME Types, ObjGrows, NEW k \in Kinds, list'[k] = list[k], \A p \in DOMAIN obj : obj'[p].info = obj[p].info
    PROVE  \A id : Same(k, id)
<1>1. Listed(k)' = Listed(k) /\ Listed(k) \subseteq DOMAIN obj
  BY DEF Listed, Types, ListsOK
<1>2. \A id : Holders(k, id)' = Holders(k, id)
  BY <1>1 DEF Holders, ObjGrows
<1>3. \A id : Twice(k, id)' => Twice(k, id)
  BY TwiceLess
<1>4. QED
  BY <1>1, <1>2, <1>3 DEF Same, Holders

LEMMA SameMemory == ASSUME Types, UNCHANGED memory, NEW k \in Kinds PROVE \A id : Same(k, id)
  BY SameHeld DEF memory, ObjGrows

LEMMA OnlyHolder ==
    ASSUME Types, NEW k \in Kinds, NEW id, ~Twice(k, id), NEW p \in Holders(k, id)
    PROVE  /\ Holders(k, id) = {p}
           /\ \A a, b \in DOMAIN list[k] : list[k][a] = p /\ list[k][b] = p => a = b
<1>1. \A q \in Holders(k, id) : obj[q].id = id /\ \E i \in DOMAIN list[k] : list[k][i] = q
  BY ListFacts DEF Holders
<1>2. \A a, b \in DOMAIN list[k] : obj[list[k][a]].id = id /\ obj[list[k][b]].id = id => a = b
  BY DEF Twice
<1>3. QED
  BY <1>1, <1>2

LEMMA HeldGone ==
    ASSUME Types, ObjGrows, NEW k \in Kinds, NEW id, ~Twice(k, id), NEW p \in Holders(k, id),
           list'[k] = Without(list[k], p)
    PROVE  Holders(k, id)' = {} /\ ~Twice(k, id)'
<1>1. list[k] \in Seq(Nat) /\ Listed(k) \subseteq DOMAIN obj
  BY ListFacts DEF Types, ListsOK
<1>2. p \notin ToSet(list'[k])
  BY <1>1, OnlyHolder, WithoutTakes
<1>3. ToSet(list'[k]) \subseteq Listed(k)
  BY <1>1, WithoutType DEF Listed
<1>4. Holders(k, id) = {p}
  BY OnlyHolder
<1>5. Holders(k, id)' = {}
  <2>1. ASSUME NEW q \in Listed(k)', obj'[q].id = id PROVE FALSE
    <3>1. q \in Listed(k) /\ q # p
      BY <1>2, <1>3, <2>1 DEF Listed
    <3>2. q \in Holders(k, id)
      BY <1>1, <2>1, <3>1 DEF Holders, ObjGrows
    <3>3. QED
      BY <1>4, <3>1, <3>2
  <2>2. QED
    BY <2>1 DEF Holders
<1>6. QED
  BY <1>5, TwiceLess

LEMMA HeldNew ==
    ASSUME Types, Types', ObjGrows, NEW k \in Kinds, NEW id, NEW p \in DOMAIN obj', obj'[p].id = id,
           list'[k] = Append(list[k], p)
    PROVE  /\ Holders(k, id)' = Holders(k, id) \cup {p}
           /\ Holders(k, id) = {} => ~Twice(k, id)'
<1>1. p \in Nat
  <2>1. obj' \in Seq(Objects)
    BY DEF Types, TypeOK
  <2>2. QED
    BY <2>1, SeqFacts
<1>2. ToSet(list'[k]) = Listed(k) \cup {p}
  BY <1>1, ListFacts, Appended DEF Listed
<1>3. Listed(k) \subseteq DOMAIN obj
  BY DEF Types, ListsOK
<1>4. Holders(k, id)' = Holders(k, id) \cup {p}
  BY <1>2, <1>3 DEF Holders, Listed, ObjGrows
<1>5. ASSUME Holders(k, id) = {} PROVE ~Twice(k, id)'
  <2>1. ~Twice(k, id)
    BY <1>5, ListFacts DEF Twice, Holders
  <2>2. QED
    BY <1>1, <1>5, <2>1, TwiceMore
<1>6. QED
  BY <1>4, <1>5

\* What a thread has in hand is the one that is listed.
LEMMA TheHolder ==
    ASSUME Types, Lists, NEW t \in Threads, job[t].at # "idle", NEW k \in Kinds, NEW id, Key(job[t]) = <<k, id>>,
           Grasp(job[t]), ~Raced(k, id), ~Loose(k, id)
    PROVE  job[t].ptr \in Holders(k, id) /\ Is(job[t].ptr, k, id)
<1>1. job[t].kind = k /\ job[t].id = id /\ job[t].ptr \in Listed(k)
  BY DEF Lists, InHand, Key
<1>2. Is(job[t].ptr, k, id)
  BY <1>1, HandOf, Sets DEF Hand, NodeHand, EPHand, PlainHand, Grasp, Linked
<1>3. QED
  BY <1>1, <1>2 DEF Holders, Is

LEMMA SplitInfo ==
    ASSUME NEW e, NEW n, NEW to, NEW q, Rebound(e, n, to, q)
    PROVE  \A p \in DOMAIN obj : obj'[p].info = obj[p].info
  BY DEF Rebound

LEMMA GoneInfo == ASSUME NEW k, NEW p, Gone(k, p) PROVE \A q \in DOMAIN obj : obj'[q].info = obj[q].info
  BY DEF Gone

LEMMA GrownInfo == ASSUME NEW t, NEW p, Grown(t, p) PROVE \A q \in DOMAIN obj : obj'[q].info = obj[q].info
  BY DEF Grown

\* What is listed once and held is settled.
LEMMA HeldSettled ==
    ASSUME NEW k, NEW id, Backed(k, id)', Holders(k, id)' # {}
    PROVE  Settled(k, id)'
  BY DEF Settled, Shown

LEMMA SameBacked ==
    ASSUME NEW k, NEW id, Same(k, id), row'[k][id] = row[k][id]
    PROVE  /\ Backed(k, id) => Backed(k, id)'
           /\ MoreMarks /\ Settled(k, id) /\ (NotYet(k, id) => NotYet(k, id)') => Settled(k, id)'
<1>1. Left(k, id)
  BY DEF Left, Same
<1>2. QED
  BY <1>1, LeftBacked, LeftSettled

\* What becomes of a node that t works on.
LEMMA NodeKey ==
    ASSUME Types, Types', Lists, NEW t \in Threads, Moves(t), MoreMarks, UNCHANGED control,
           job[t].at # "idle", job[t].kind = "node", Hand(job[t]), job[t] \in Jobs, NodeDeed(t),
           NEW id \in Nodes, job[t].id = id, Regular("node", id), Regular("node", id)', NodeClaim(job[t], id)
    PROVE  (Ends(t) /\ Settled("node", id)') \/ (SameJob(t) /\ NodeClaim(job[t], id)')
<1> DEFINE j == job[t]
<1>0. /\ "node" \in Kinds /\ "node" \in Linked /\ NodeHand(j) /\ ~Raced("node", id) /\ ObjGrows
      /\ Key(j) = <<"node", id>> /\ <<"node", id>> \notin history'.failed /\ ~Twice("node", id)
      /\ NotYet("node", id)' <=> NotYet("node", id)
      /\ j.at # "look" => Is(j.ptr, "node", id)
  <2>1. "node" \in Kinds /\ "node" \in Linked /\ id \in Ids("node")
    BY Sets DEF Kinds, Linked
  <2>2. ~Raced("node", id) /\ <<"node", id>> \notin history'.failed
    BY DEF Regular, Raced
  <2>3. ~Twice("node", id)
    BY <2>1, <2>2 DEF Lists, Once
  <2>4. QED
    BY <2>1, <2>2, <2>3 DEF Hand, NodeHand, Moves, Key, NotYet, control
<1>1. Grasp(j) => j.ptr \in Holders("node", id) /\ Holders("node", id) = {j.ptr}
  BY <1>0, TheHolder, OnlyHolder DEF Loose, Regular
<1>2. j.at \notin {"look", "add", "append"} => Grasp(j)
  BY DEF Grasp
<1>3. CASE j.at = "look" /\ UNCHANGED <<memory, row>> /\ Ends(t) /\ Holders("node", id) # {}
  <2>1. Same("node", id)
    BY <1>0, <1>3, SameMemory
  <2>2. Settled("node", id) => Settled("node", id)'
    BY <1>0, <1>3, <2>1, SameBacked
  <2>3. Backed("node", id) => Settled("node", id)'
    BY <1>3, <2>1, SameBacked, HeldSettled DEF Same
  <2>4. QED
    BY <1>3, <2>2, <2>3 DEF NodeClaim
<1>4. ASSUME j.at = "look", UNCHANGED <<list, row>>, NEW p, Grown(t, p),
             GoesWith(t, p, IF j.new THEN "add" ELSE "append")
      PROVE  SameJob(t) /\ NodeClaim(job[t], id)'
  <2>1. obj'[p].info = j.info /\ j.info # NoRow
    BY <1>4 DEF Grown, Carries, NodeClaim, Stored
  <2>2. ~j.new => row'["node"][id] = j.info
    BY <1>4 DEF NodeClaim, Stored
  <2>3. QED
    BY <1>4, <2>1, <2>2 DEF GoesWith, SameJob, NodeClaim, Carries, Stored
<1>5. CASE /\ j.at = "add" /\ Answered("node", j.id, j.info, row["node"][j.id] = NoRow)
           /\ GoesTo(t, "append")
  <2>1. obj'[j.ptr].info = j.info /\ j.info # NoRow /\ row'["node"][id] = j.info
    BY <1>0, <1>5 DEF Answered, memory, NodeClaim, Carries, Stored
  <2>2. QED
    BY <1>5, <2>1 DEF GoesTo, SameJob, SameHands, NodeClaim, Carries, Stored
<1>6. CASE /\ j.at = "append" /\ list' = [list EXCEPT !["node"] = Append(@, j.ptr)] /\ UNCHANGED <<obj, row>>
           /\ (j.new /\ GoesTo(t, "start")) \/ (~j.new /\ Ends(t))
  <2>1. Holders("node", id) = {}
    BY <1>0, <1>6, Sets DEF Lists, Once, Adds, Key
  <2>2. list'["node"] = Append(list["node"], j.ptr)
    BY <1>0, <1>6, ListFacts
  <2>3. Holders("node", id)' = {j.ptr}
    <3>1. j.ptr \in DOMAIN obj' /\ obj'[j.ptr].id = id
      BY <1>0, <1>6 DEF Is
    <3>2. Holders("node", id)' = Holders("node", id) \cup {j.ptr}
      BY <1>0, <2>2, <3>1, HeldNew
    <3>3. QED
      BY <2>1, <3>2
  <2>4. Backed("node", id)'
    BY <1>6, <2>3 DEF Backed, NodeClaim, Carries, Stored
  <2>5. Settled("node", id)'
    BY <2>3, <2>4, HeldSettled
  <2>6. QED
    BY <1>6, <2>4, <2>5 DEF GoesTo, SameJob, NodeClaim
<1>7. ASSUME Backed("node", id), Grasp(j), UNCHANGED <<list, row>>, \A p \in DOMAIN obj : obj'[p].info = obj[p].info
      PROVE  Backed("node", id)' /\ Settled("node", id)'
  <2>1. Same("node", id)
    BY <1>0, <1>7, SameHeld
  <2>2. QED
    BY <1>1, <1>7, <2>1, SameBacked, HeldSettled DEF Same
<1>8. CASE j.at = "start" /\ OnlyRun /\ UNCHANGED <<list, row>> /\ (Ends(t) \/ (j.new /\ GoesTo(t, "drop")))
  BY <1>2, <1>7, <1>8 DEF OnlyRun, NodeClaim, GoesTo, SameJob
<1>9. CASE /\ j.at \in {"empty", "purge"} /\ UNCHANGED <<memory, row>>
           /\ GoesTo(t, IF j.at = "empty" THEN "drop" ELSE "delist")
  BY <1>2, <1>7, <1>9 DEF memory, NodeClaim, GoesTo, SameJob
<1>10. ASSUME j.at \in {"empty", "purge"}, UNCHANGED <<list, row>>, NEW e, Split(e, j.ptr), Takes(t, e)
       PROVE  SameJob(t) /\ NodeClaim(job[t], id)'
  <2>1. \A p \in DOMAIN obj : obj'[p].info = obj[p].info
    BY <1>10, SplitInfo DEF Split
  <2>2. j.at = "empty" => Backed("node", id)'
    BY <1>2, <1>7, <1>10, <2>1 DEF NodeClaim
  <2>3. QED
    BY <1>10, <2>2 DEF Takes, SameJob, NodeClaim
<1>11. CASE j.at \in {"empty", "write"} /\ UNCHANGED <<memory, row>> /\ Ends(t)
  BY <1>2, <1>7, <1>11 DEF memory, NodeClaim
<1>12. CASE j.at = "purge" /\ UNCHANGED <<memory, row, job>>
  BY <1>12 DEF NodeClaim, SameJob
<1>13. CASE j.at = "drop" /\ Answered("node", j.id, NoRow, TRUE) /\ GoesTo(t, "purge")
  BY <1>0, <1>13 DEF Answered, NodeClaim, GoesTo, SameJob
<1>14. CASE j.at = "delist" /\ Gone("node", j.ptr) /\ UNCHANGED row /\ Ends(t)
  <2>1. list'["node"] = Without(list["node"], j.ptr)
    BY <1>0, <1>14, ListFacts DEF Gone
  <2>2. Holders("node", id)' = {}
    BY <1>0, <1>1, <1>2, <1>14, <2>1, HeldGone
  <2>3. row'["node"][id] = NoRow
    BY <1>14 DEF NodeClaim
  <2>4. QED
    BY <1>14, <2>2, <2>3 DEF Settled, Backed, Shown
<1>15. CASE j.at = "write" /\ Told(j.ptr, j.info) /\ UNCHANGED <<list, row>> /\ GoesTo(t, "save")
  BY <1>15 DEF Told, NodeClaim, GoesTo, SameJob, SameHands, Carries
<1>16. CASE j.at = "save" /\ Answered("node", j.id, j.info, row["node"][j.id] # NoRow) /\ Ends(t)
  <2>1. row'["node"][id] = j.info /\ UNCHANGED memory
    BY <1>0, <1>16 DEF Answered
  <2>2. Holders("node", id)' = {j.ptr} /\ obj'[j.ptr].info = j.info /\ j.info # NoRow
    BY <1>1, <1>2, <1>16, <2>1 DEF memory, Holders, Listed, NodeClaim, Carries
  <2>3. QED
    BY <1>16, <2>1, <2>2, HeldSettled DEF Backed
<1>17. QED
  BY <1>3, <1>4, <1>5, <1>6, <1>8, <1>9, <1>10, <1>11, <1>12, <1>13, <1>14, <1>15, <1>16 DEF NodeDeed

\* ... and while an endpoint of it is destroyed.
LEMMA NodeKillKey ==
    ASSUME Types, Types', NEW t \in Threads, Moves(t), job[t].at # "idle", job[t].kind = "node", Hand(job[t]),
           KillDeed(t), NEW id \in Nodes, job[t].id = id, NodeClaim(job[t], id)
    PROVE  SameJob(t) /\ NodeClaim(job[t], id)'
<1> DEFINE j == job[t]
<1>0. "node" \in Kinds /\ NodeHand(j) /\ ObjGrows /\ id \in Ids("node")
  BY Sets DEF Kinds, Hand, Moves
<1>1. CASE j.at = "dropEP" /\ Answered("ep", obj[j.ep].id, NoRow, TRUE) /\ GoesTo(t, "delistEP")
  <2>1. row'["node"][id] = row["node"][id]
    BY <1>0, <1>1 DEF Answered
  <2>2. Backed("node", id) => Backed("node", id)'
    BY <1>0, <1>1, <2>1, SameMemory, SameBacked DEF Answered
  <2>3. QED
    BY <1>1, <2>1, <2>2 DEF GoesTo, SameJob, SameHands, NodeClaim
<1>2. CASE /\ j.at = "delistEP" /\ Gone("ep", j.ep) /\ UNCHANGED row
           /\ SameJob(t) /\ job'[t].at = j.back
  <2>1. list'["node"] = list["node"]
    BY <1>0, <1>2, ListFacts DEF Gone
  <2>2. Backed("node", id) => Backed("node", id)'
    BY <1>0, <1>2, <2>1, SameHeld, SameBacked, GoneInfo
  <2>3. j.back \in {"empty", "purge"}
    BY <1>0, <1>2 DEF NodeHand
  <2>4. QED
    BY <1>2, <2>2, <2>3 DEF SameJob, NodeClaim
<1>3. QED
  BY <1>1, <1>2 DEF KillDeed

\* The endpoint a thread destroys is the one that is listed.
LEMMA TheVictim ==
    ASSUME Types, Lists, NEW t \in Threads, job[t].ep # 0, NEW id, obj[job[t].ep].id = id, ~Raced("ep", id)
    PROVE  job[t].ep \in Holders("ep", id)
  BY DEF Lists, InHand, Holders

\* What becomes of an endpoint that t works on.
LEMMA EPKey ==
    ASSUME Types, Types', Lists, NEW t \in Threads, Moves(t), MoreMarks, UNCHANGED control,
           job[t].at # "idle", job[t].kind = "ep", Hand(job[t]), job[t] \in Jobs, EPDeed(t),
           NEW id \in Endpoints, job[t].id = id, Regular("ep", id), Regular("ep", id)', EPClaim(job[t], id)
    PROVE  (Ends(t) /\ Settled("ep", id)') \/ (SameJob(t) /\ EPClaim(job[t], id)' /\ KillClaim(job[t], id)')
<1> DEFINE j == job[t]
<1>0. /\ "ep" \in Kinds /\ "ep" \in Linked /\ EPHand(j) /\ ~Raced("ep", id) /\ ObjGrows
      /\ Key(j) = <<"ep", id>> /\ <<"ep", id>> \notin history'.failed /\ ~Twice("ep", id)
      /\ NotYet("ep", id)' <=> NotYet("ep", id)
      /\ j.at \in {"append", "add", "save", "write", "seek", "link"} => Is(j.ptr, "ep", id)
  <2>1. "ep" \in Kinds /\ "ep" \in Linked /\ id \in Ids("ep")
    BY Sets DEF Kinds, Linked
  <2>2. ~Raced("ep", id) /\ <<"ep", id>> \notin history'.failed
    BY DEF Regular, Raced
  <2>3. ~Twice("ep", id)
    BY <2>1, <2>2 DEF Lists, Once
  <2>4. QED
    BY <2>1, <2>2, <2>3 DEF Hand, EPHand, Moves, Key, NotYet, control
<1>1. Grasp(j) => j.ptr \in Holders("ep", id) /\ Holders("ep", id) = {j.ptr}
  BY <1>0, TheHolder, OnlyHolder DEF Loose
<1>2. /\ j.at \in {"add", "seek", "link", "save", "write"} => Grasp(j)
      /\ j.at \in {"unlink", "unhook"} => Holders("ep", id) # {}
  <2>1. ASSUME j.at \in {"unlink", "unhook"} PROVE j.ep # 0 /\ obj[j.ep].id = id
    BY <1>0, <2>1, ObjFacts DEF EPHand, Is, Types
  <2>2. QED
    BY <1>0, <2>1, TheVictim DEF Grasp
<1>3. CASE j.at = "look" /\ UNCHANGED <<memory, row>> /\ Ends(t) /\ Holders("ep", id) # {}
  <2>1. Same("ep", id)
    BY <1>0, <1>3, SameMemory
  <2>2. Settled("ep", id) => Settled("ep", id)'
    BY <1>0, <1>3, <2>1, SameBacked
  <2>3. Backed("ep", id) => Settled("ep", id)'
    BY <1>3, <2>1, SameBacked, HeldSettled DEF Same
  <2>4. QED
    BY <1>3, <2>2, <2>3 DEF EPClaim
<1>4. ASSUME j.at = "look", UNCHANGED <<list, row>>, NEW p, Grown(t, p), GoesWith(t, p, "append")
      PROVE  SameJob(t) /\ EPClaim(job[t], id)' /\ KillClaim(job[t], id)'
  <2>1. obj'[p].info = j.info /\ j.info # NoRow
    BY <1>4 DEF Grown, EPClaim, Stored
  <2>2. ~j.new => row'["ep"][id] = j.info
    BY <1>4 DEF EPClaim, Stored
  <2>3. QED
    BY <1>4, <2>1, <2>2 DEF GoesWith, SameJob, EPClaim, KillClaim, Carries, Stored
<1>5. CASE /\ j.at = "append" /\ list' = [list EXCEPT !["ep"] = Append(@, j.ptr)] /\ UNCHANGED <<obj, row>>
           /\ GoesTo(t, IF j.new THEN "add" ELSE "seek")
  <2>1. Holders("ep", id) = {}
    BY <1>0, <1>5, Sets DEF Lists, Once, Adds, Key
  <2>2. list'["ep"] = Append(list["ep"], j.ptr)
    BY <1>0, <1>5, ListFacts
  <2>3. Holders("ep", id)' = {j.ptr}
    <3>1. j.ptr \in DOMAIN obj' /\ obj'[j.ptr].id = id
      BY <1>0, <1>5 DEF Is
    <3>2. Holders("ep", id)' = Holders("ep", id) \cup {j.ptr}
      BY <1>0, <2>2, <3>1, HeldNew
    <3>3. QED
      BY <2>1, <3>2
  <2>4. ~j.new => Backed("ep", id)'
    BY <1>5, <2>3 DEF Backed, EPClaim, Carries, Stored
  <2>5. QED
    BY <1>5, <2>4 DEF GoesTo, SameJob, SameHands, EPClaim, KillClaim, Carries
<1>6. ASSUME j.ptr \in Holders("ep", id), Holders("ep", id) = {j.ptr}, UNCHANGED list,
             NEW info, row'["ep"][id] = info, obj'[j.ptr].info = info, info # NoRow
      PROVE  Backed("ep", id)' /\ Settled("ep", id)'
  <2>0. /\ Listed("ep")' = Listed("ep") /\ Listed("ep") \subseteq DOMAIN obj /\ DOMAIN obj \subseteq DOMAIN obj'
        /\ \A p \in DOMAIN obj : obj'[p].id = obj[p].id
    <3>1. Listed("ep")' = Listed("ep")
      BY <1>6 DEF Listed
    <3>2. Listed("ep") \subseteq DOMAIN obj
      BY <1>0 DEF Listed, Types, ListsOK
    <3>3. QED
      BY <1>0, <3>1, <3>2 DEF ObjGrows
  <2>1. Holders("ep", id)' = {j.ptr}
    <3>1. Holders("ep", id)' = {p \in Listed("ep")' : obj'[p].id = id}
      BY DEF Holders
    <3>2. Holders("ep", id) = {p \in Listed("ep") : obj[p].id = id}
      BY DEF Holders
    <3>3. QED
      BY <1>6, <2>0, <3>1, <3>2
  <2>2. QED
    BY <1>6, <2>1, HeldSettled DEF Backed
<1>7. CASE /\ j.at = "add" /\ Answered("ep", j.id, j.info, row["ep"][j.id] = NoRow)
           /\ GoesTo(t, "link")
  <2>1. row'["ep"][id] = j.info /\ UNCHANGED memory /\ obj'[j.ptr].info = j.info /\ j.info # NoRow
    BY <1>0, <1>7 DEF Answered, EPClaim, Carries, memory
  <2>2. Backed("ep", id)'
    BY <1>1, <1>2, <1>6, <1>7, <2>1 DEF memory
  <2>3. QED
    BY <1>7, <2>2 DEF GoesTo, SameJob, EPClaim, KillClaim
<1>8. ASSUME Backed("ep", id), Holders("ep", id) # {}, UNCHANGED <<list, row>>,
             \A p \in DOMAIN obj : obj'[p].info = obj[p].info
      PROVE  Backed("ep", id)' /\ Settled("ep", id)'
  <2>1. Same("ep", id)
    BY <1>0, <1>8, SameHeld
  <2>2. QED
    BY <1>8, <2>1, SameBacked, HeldSettled DEF Same
<1>9. CASE /\ j.at \in {"seek", "link"} /\ UNCHANGED <<memory, row>>
           /\ \/ SameJob(t) /\ job'[t].at \in {"seek", "link"}
              \/ Ends(t)
  BY <1>1, <1>2, <1>8, <1>9 DEF memory, EPClaim, KillClaim
<1>10. CASE /\ j.at = "link" /\ UNCHANGED <<list, row>> /\ Ends(t)
            /\ Tied(j.ptr, j.node) \/ UNCHANGED obj
  BY <1>1, <1>2, <1>8, <1>10, SplitInfo DEF Tied, EPClaim
<1>11. CASE /\ j.at = "unlink" /\ UNCHANGED <<list, row>> /\ Split(j.ep, j.node) /\ GoesTo(t, "dropEP")
  BY <1>2, <1>8, <1>11, SplitInfo DEF Split, EPClaim, KillClaim, GoesTo, SameJob
<1>12. CASE j.at = "unlink" /\ UNCHANGED <<memory, row>> /\ Ends(t)
  BY <1>2, <1>8, <1>12 DEF memory, EPClaim
<1>13. CASE /\ j.at = "unhook" /\ UNCHANGED <<list, row>> /\ GoesTo(t, "dropEP")
            /\ UNCHANGED obj \/ Split(j.ep, obj[j.ep].node)
  BY <1>2, <1>8, <1>13, SplitInfo DEF Split, EPClaim, KillClaim, GoesTo, SameJob
<1>14. CASE /\ j.at = "save" /\ Answered("ep", j.id, j.info, row["ep"][j.id] # NoRow)
            /\ GoesTo(t, "write")
  BY <1>0, <1>14 DEF Answered, EPClaim, KillClaim, GoesTo, SameJob, Stored
<1>15. CASE /\ j.at = "write" /\ Told(j.ptr, j.info) /\ UNCHANGED <<list, row>>
            /\ Ends(t) \/ GoesTo(t, "seek")
  <2>1. row'["ep"][id] = j.info /\ obj'[j.ptr].info = j.info /\ j.info # NoRow
    BY <1>15 DEF Told, EPClaim, Stored
  <2>2. Backed("ep", id)' /\ Settled("ep", id)'
    BY <1>1, <1>2, <1>6, <1>15, <2>1
  <2>3. QED
    BY <1>15, <2>2 DEF GoesTo, SameJob, EPClaim, KillClaim
<1>16. QED
  BY <1>3, <1>4, <1>5, <1>7, <1>9, <1>10, <1>11, <1>12, <1>13, <1>14, <1>15 DEF EPDeed, GoesTo

\* Whoever destroys an endpoint: its row goes, and then its place in the list.
LEMMA KillKey ==
    ASSUME Types, Types', Lists, NEW t \in Threads, Moves(t), MoreMarks, job[t].at # "idle",
           job[t].kind \in Linked, Hand(job[t]), KillDeed(t),
           NEW id \in Endpoints, obj[job[t].ep].id = id, Regular("ep", id), Regular("ep", id)',
           KillClaim(job[t], id)
    PROVE  \/ job'[t].at = "delistEP" /\ SameJob(t) /\ KillClaim(job[t], id)'
           \/ job[t].at = "delistEP" /\ Settled("ep", id)'
<1> DEFINE j == job[t]
<1>0. /\ "ep" \in Kinds /\ "ep" \in Linked /\ ~Raced("ep", id) /\ ObjGrows
      /\ <<"ep", id>> \notin history'.failed /\ ~Twice("ep", id)
  <2>1. "ep" \in Kinds /\ "ep" \in Linked /\ id \in Ids("ep")
    BY Sets DEF Kinds, Linked
  <2>2. ~Raced("ep", id) /\ <<"ep", id>> \notin history'.failed
    BY DEF Regular, Raced
  <2>3. ~Twice("ep", id)
    BY <2>1, <2>2 DEF Lists, Once
  <2>4. QED
    BY <2>1, <2>2, <2>3 DEF Moves
<1>1. CASE j.at = "dropEP" /\ Answered("ep", obj[j.ep].id, NoRow, TRUE) /\ GoesTo(t, "delistEP")
  BY <1>0, <1>1 DEF Answered, KillClaim, GoesTo
<1>2. CASE j.at = "delistEP" /\ Gone("ep", j.ep) /\ UNCHANGED row
  <2>1. j.ep # 0
    BY <1>2, ObjFacts DEF Hand, NodeHand, EPHand, Linked, Is, Types
  <2>2. list'["ep"] = Without(list["ep"], j.ep)
    BY <1>0, <1>2, ListFacts DEF Gone
  <2>3. j.ep \in Holders("ep", id)
    BY <1>0, <2>1, TheVictim
  <2>4. Holders("ep", id)' = {}
    BY <1>0, <2>2, <2>3, HeldGone
  <2>5. row'["ep"][id] = NoRow
    BY <1>2 DEF KillClaim
  <2>6. QED
    BY <1>2, <2>4, <2>5 DEF Settled, Backed, Shown
<1>3. QED
  BY <1>1, <1>2 DEF KillDeed

\* What becomes of any other object that t works on.
LEMMA PlainKey ==
    ASSUME Types, Types', Lists, NEW t \in Threads, Moves(t), MoreMarks, UNCHANGED control,
           job[t].at # "idle", NEW k \in Plain, job[t].kind = k, Hand(job[t]), job[t] \in Jobs, PlainDeed(t),
           NEW id \in Others, job[t].id = id, Regular(k, id), Regular(k, id)', PlainClaim(job[t], k, id)
    PROVE  \/ Ends(t) /\ Settled(k, id)' /\ ~Twice(k, id)'
           \/ SameJob(t) /\ PlainClaim(job[t], k, id)'
<1> DEFINE j == job[t]
<1>0. /\ k \in Kinds /\ id \in Ids(k) /\ ~Raced(k, id) /\ ObjGrows /\ Key(j) = <<k, id>>
      /\ <<k, id>> \notin history'.failed
      /\ NotYet(k, id)' <=> NotYet(k, id)
  BY Sets DEF Kinds, Plain, Ids, Regular, Raced, Moves, Key, NotYet, control
<1>1. j.at \in {"drop", "delist", "save"} => j.ptr \in Holders(k, id) /\ Holders(k, id) = {j.ptr} /\ ~Twice(k, id)
  <2>1. j.at \in {"drop", "delist", "save"} => Grasp(j) /\ ~Twice(k, id)
    BY DEF Grasp, PlainClaim
  <2>2. QED
    BY <1>0, <2>1, TheHolder, OnlyHolder DEF Loose, Plain
<1>2. ASSUME j.at = "append", UNCHANGED row, NEW p, Grown(t, p), list' = [list EXCEPT ![k] = Append(@, p)]
      PROVE  /\ Holders(k, id)' = Holders(k, id) \cup {p} /\ obj'[p].info = j.info
             /\ Holders(k, id) = {} => ~Twice(k, id)'
  <2>1. p \in DOMAIN obj' /\ obj'[p].id = id /\ obj'[p].info = j.info
    BY <1>2 DEF Grown
  <2>2. list'[k] = Append(list[k], p)
    BY <1>0, <1>2, ListFacts
  <2>3. QED
    BY <1>0, <2>1, <2>2, HeldNew
<1>3. ASSUME j.at = "append", UNCHANGED row, j.new,
             NEW p, Grown(t, p), list' = [list EXCEPT ![k] = Append(@, p)], GoesWith(t, p, "add")
      PROVE  SameJob(t) /\ PlainClaim(job[t], k, id)'
  <2>1. row[k][id] = NoRow => Holders(k, id) = {}
    BY <1>3 DEF PlainClaim, Settled, Backed
  <2>2. row'[k][id] = NoRow => Holders(k, id)' = {p} /\ ~Twice(k, id)'
    <3>1. row'[k][id] = row[k][id]
      BY <1>3
    <3>2. QED
      BY <1>2, <1>3, <2>1, <3>1
  <2>3. SameJob(t) /\ job'[t].at = "add" /\ job'[t].ptr = p /\ job'[t].info = j.info /\ j.info # NoRow
    BY <1>3 DEF GoesWith, SameJob, PlainClaim
  <2>4. obj'[p].info = j.info
    BY <1>2, <1>3
  <2>5. QED
    BY <2>2, <2>3, <2>4 DEF PlainClaim, Carries
<1>4. ASSUME j.at = "append", UNCHANGED row, ~j.new,
             NEW p, Grown(t, p), list' = [list EXCEPT ![k] = Append(@, p)], Ends(t)
      PROVE  Settled(k, id)' /\ ~Twice(k, id)'
  <2>1. Holders(k, id) = {} /\ row[k][id] = j.info /\ j.info # NoRow
    BY <1>4 DEF PlainClaim, Stored
  <2>2. Holders(k, id)' = {p} /\ obj'[p].info = j.info /\ ~Twice(k, id)'
    BY <1>2, <1>4, <2>1
  <2>3. row'[k][id] = j.info
    BY <1>4, <2>1
  <2>4. Backed(k, id)'
    BY <2>1, <2>2, <2>3 DEF Backed
  <2>5. QED
    BY <2>2, <2>4, HeldSettled
<1>5. CASE j.at = "add" /\ Answered(k, j.id, j.info, row[k][j.id] = NoRow) /\ Ends(t)
  <2>1. row[k][id] = NoRow /\ row'[k][id] = j.info /\ UNCHANGED memory
    BY <1>0, <1>5 DEF Answered
  <2>2. Holders(k, id) = {j.ptr} /\ ~Twice(k, id) /\ obj[j.ptr].info = j.info /\ j.info # NoRow
    BY <1>5, <2>1 DEF PlainClaim, Carries
  <2>3. Same(k, id)
    BY <1>0, <2>1, SameMemory
  <2>4. Holders(k, id)' = {j.ptr} /\ obj'[j.ptr].info = j.info /\ ~Twice(k, id)'
    BY <2>1, <2>2, <2>3 DEF Same, memory
  <2>5. Backed(k, id)'
    BY <2>1, <2>2, <2>4 DEF Backed
  <2>6. QED
    BY <1>5, <2>4, <2>5, HeldSettled
<1>6. CASE j.at = "drop" /\ Answered(k, j.id, NoRow, k # "trigger") /\ GoesTo(t, "delist")
  <2>1. row'[k][id] = NoRow /\ UNCHANGED memory
    BY <1>0, <1>6 DEF Answered
  <2>2. ~Twice(k, id)'
    BY <1>0, <1>1, <1>6, <2>1, SameMemory DEF Same
  <2>3. QED
    BY <1>6, <2>1, <2>2 DEF GoesTo, PlainClaim
<1>7. CASE j.at = "delist" /\ Gone(k, j.ptr) /\ UNCHANGED row /\ Ends(t)
  <2>1. list'[k] = Without(list[k], j.ptr)
    BY <1>0, <1>7, ListFacts DEF Gone
  <2>2. Holders(k, id)' = {} /\ ~Twice(k, id)'
    BY <1>0, <1>1, <1>7, <2>1, HeldGone
  <2>3. row'[k][id] = NoRow
    BY <1>7 DEF PlainClaim
  <2>4. QED
    BY <1>7, <2>2, <2>3 DEF Settled, Backed, Shown
<1>8. CASE j.at = "save" /\ Answered(k, j.id, j.info, FALSE) /\ GoesTo(t, "write")
  BY <1>0, <1>8 DEF Answered
<1>9. CASE j.at = "write"
  BY <1>9 DEF PlainClaim
<1>10. QED
  BY <1>3, <1>4, <1>5, <1>6, <1>7, <1>8, <1>9 DEF PlainDeed

\* What t works on: it goes on and knows it still, or it leaves it settled.
Outcome(t, k, id) ==
    \/ Works(t, k, id)' /\ Claim(t, k, id)'
    \/ ~Works(t, k, id)' /\ Settled(k, id)' /\ ~Twice(k, id)'

LEMMA StaysAtWork ==
    ASSUME Types, Types', NEW t \in Threads, job[t].at # "idle", SameJob(t), NEW k, NEW id, Key(job[t]) = <<k, id>>
    PROVE  Works(t, k, id)' /\ job'[t].at # "idle" /\ job'[t].kind = k /\ job'[t].id = id
<1>1. job'[t].kind = k /\ job'[t].id = id /\ job[t].kind = k /\ job[t].id = id
  BY DEF SameJob, Key
<1>2. job'[t] = Idle \/ job'[t].at # "idle"
  BY DEF Types, Hands
<1>3. job'[t] # Idle
  <2>1. SUFFICES ASSUME k = "node", id = NoRow PROVE FALSE
    BY <1>1, IdleFields
  <2>2. NoRow \in Nodes
    BY <1>1, <2>1, HandOf, Sets
  <2>3. QED
    BY <2>2, RowAssumption
<1>4. job'[t].at # "idle"
  BY <1>2, <1>3
<1>5. Works(t, k, id)'
  BY <1>1, <1>4 DEF Works, Holds, Key
<1>6. QED
  BY <1>1, <1>4, <1>5

LEMMA NoWorkLeft == ASSUME NEW t, Ends(t), NEW k, NEW id PROVE ~Works(t, k, id)'
  BY IdleFields DEF Ends, Works

LEMMA OnceThen ==
    ASSUME Lists', NEW k \in Linked, NEW id \in Ids(k), Regular(k, id)'
    PROVE  ~Twice(k, id)'
<1>1. \A i \in Ids(k)' : Once(k, i)'
  BY DEF Lists
<1>2. Ids(k)' = Ids(k)
  BY DEF Ids
<1>3. Once(k, id)'
  BY <1>1, <1>2
<1>4. QED
  BY <1>3 DEF Once, Regular, Raced

\* Where nothing is done, nothing is known otherwise.
LEMMA SettledSame ==
    ASSUME NEW k, NEW id, UNCHANGED <<memory, row>>, history.cut \subseteq history'.cut, Settled(k, id),
           NotYet(k, id) => NotYet(k, id)' \/ row[k][id] = NoRow \/ <<k, id>> \in history'.cut
    PROVE  Settled(k, id)'
<1>1. Backed(k, id)'
  BY DEF Settled, Backed, Holders, Listed, memory
<1>2. Holders(k, id)' = Holders(k, id) /\ row'[k][id] = row[k][id]
  BY DEF Holders, Listed, memory
<1>3. Shown(k, id)'
  BY <1>2 DEF Settled, Shown
<1>4. QED
  BY <1>1, <1>3 DEF Settled

LEMMA ClaimSame ==
    ASSUME NEW t, NEW k, NEW id, UNCHANGED <<memory, row>>, job'[t] = job[t],
           Settled(k, id) => Settled(k, id)', Claim(t, k, id)
    PROVE  Claim(t, k, id)'
<1>1. /\ Holders(k, id)' = Holders(k, id) /\ row'[k][id] = row[k][id] /\ Twice(k, id)' = Twice(k, id)
      /\ obj' = obj /\ row' = row
  BY DEF Holders, Listed, Twice, memory
<1>2. Backed(k, id) => Backed(k, id)'
  BY <1>1 DEF Backed
<1>3. k = "node" /\ NodeClaim(job[t], id) => NodeClaim(job[t], id)'
  BY <1>1, <1>2 DEF NodeClaim, Carries, Stored
<1>4. k = "ep" /\ EPClaim(job[t], id) => EPClaim(job[t], id)'
  BY <1>1, <1>2 DEF EPClaim, Carries, Stored
<1>5. k = "ep" /\ KillClaim(job[t], id) => KillClaim(job[t], id)'
  BY <1>1, <1>2 DEF KillClaim
<1>6. PlainClaim(job[t], k, id) => PlainClaim(job[t], k, id)'
  BY <1>1, <1>2 DEF PlainClaim, Carries, Stored
<1>7. QED
  BY <1>3, <1>4, <1>5, <1>6 DEF Claim, Key

LEMMA IdleOutcome ==
    ASSUME NEW t, NEW k, NEW id, UNCHANGED <<memory, row, job>>, MoreMarks, UNCHANGED control,
           Works(t, k, id), Claim(t, k, id)
    PROVE  Outcome(t, k, id)
<1>1. Settled(k, id) => Settled(k, id)'
  BY SettledSame DEF MoreMarks, NotYet, control
<1>2. Claim(t, k, id)'
  BY <1>1, ClaimSame
<1>3. Works(t, k, id)'
  BY DEF Works, Holds, Key, memory
<1>4. QED
  BY <1>2, <1>3 DEF Outcome

LEMMA OwnKey ==
    ASSUME Types, Types', Lists, Lists', NEW t \in Threads, Moves(t), MoreMarks, UNCHANGED control, Deed(t),
           NEW k \in Kinds, NEW id \in Ids(k), Key(job[t]) = <<k, id>>,
           Regular(k, id), Regular(k, id)', Claim(t, k, id)
    PROVE  Outcome(t, k, id)
<1>0. /\ job[t].at # "idle" /\ Hand(job[t]) /\ job[t] \in Jobs /\ job[t].kind = k /\ job[t].id = id
      /\ Works(t, k, id)
  BY DEF Deed, Key, Works, Holds
<1>1. SameJob(t) => Works(t, k, id)' /\ job'[t].at # "idle" /\ job'[t].kind = k /\ job'[t].id = id
  BY <1>0, StaysAtWork
<1>2. Ends(t) => ~Works(t, k, id)'
  BY NoWorkLeft
<1>3. k \in Linked => ~Twice(k, id)'
  BY OnceThen
<1>4. CASE UNCHANGED <<memory, row, job>>
  BY <1>0, <1>4, IdleOutcome
<1>5. CASE k = "node" /\ (NodeDeed(t) \/ KillDeed(t))
  <2>1. NodeClaim(job[t], id) /\ id \in Nodes
    BY <1>5, Sets DEF Claim
  <2>2. (Ends(t) /\ Settled("node", id)') \/ (SameJob(t) /\ NodeClaim(job[t], id)')
    BY <1>0, <1>5, <2>1, NodeKey, NodeKillKey
  <2>3. SameJob(t) /\ NodeClaim(job[t], id)' => Claim(t, k, id)'
    BY <1>5 DEF Claim, Plain
  <2>4. QED
    BY <1>1, <1>2, <1>3, <1>5, <2>2, <2>3 DEF Outcome, Linked
<1>6. CASE k = "ep" /\ EPDeed(t)
  <2>1. EPClaim(job[t], id) /\ id \in Endpoints
    BY <1>6, Sets DEF Claim
  <2>2. \/ Ends(t) /\ Settled("ep", id)'
        \/ SameJob(t) /\ EPClaim(job[t], id)' /\ KillClaim(job[t], id)'
    BY <1>0, <1>6, <2>1, EPKey
  <2>3. EPClaim(job[t], id)' /\ KillClaim(job[t], id)' => Claim(t, k, id)'
    BY <1>6 DEF Claim, Plain
  <2>4. QED
    BY <1>1, <1>2, <1>3, <1>6, <2>2, <2>3 DEF Outcome, Linked
<1>7. CASE k = "ep" /\ KillDeed(t)
  <2>1. KillClaim(job[t], id) /\ id \in Endpoints /\ obj[job[t].ep].id = id
    <3>1. job[t].at \in {"dropEP", "delistEP"}
      BY <1>7 DEF KillDeed
    <3>2. Is(job[t].ep, "ep", id)
      BY <1>0, <1>7, <3>1 DEF Hand, EPHand
    <3>3. QED
      BY <1>7, <3>2, Sets DEF Claim, Is
  <2>2. \/ job'[t].at = "delistEP" /\ SameJob(t) /\ KillClaim(job[t], id)'
        \/ job[t].at = "delistEP" /\ Settled("ep", id)'
    BY <1>0, <1>7, <2>1, KillKey DEF Linked
  <2>3. CASE job'[t].at = "delistEP" /\ SameJob(t) /\ KillClaim(job[t], id)'
    <3>1. EPClaim(job[t], id)'
      BY <2>3 DEF EPClaim
    <3>2. QED
      BY <1>1, <1>7, <2>3, <3>1 DEF Outcome, Claim, Plain
  <2>4. CASE job[t].at = "delistEP" /\ Settled("ep", id)'
    <3>1. Ends(t)
      BY <1>0, <1>7, <2>4 DEF KillDeed
    <3>2. QED
      BY <1>2, <1>3, <1>7, <2>4, <3>1 DEF Outcome, Linked
  <2>5. QED
    BY <2>2, <2>3, <2>4
<1>8. CASE k \in Plain /\ PlainDeed(t)
  <2>1. PlainClaim(job[t], k, id) /\ id \in Others
    BY <1>8, Sets DEF Claim
  <2>2. \/ Ends(t) /\ Settled(k, id)' /\ ~Twice(k, id)'
        \/ SameJob(t) /\ PlainClaim(job[t], k, id)'
    BY <1>0, <1>8, <2>1, PlainKey
  <2>3. PlainClaim(job[t], k, id)' => Claim(t, k, id)'
    BY <1>8 DEF Claim, Plain
  <2>4. QED
    BY <1>1, <1>2, <2>2, <2>3 DEF Outcome
<1>9. ~FailDeed(t)
  BY DEF FailDeed, Regular
<1>10. QED
  BY <1>0, <1>4, <1>5, <1>6, <1>7, <1>8, <1>9 DEF Deed, Linked

\* ... the endpoint that goes with its node, too.
LEMMA HandKey ==
    ASSUME Types, Types', Lists, Lists', NEW t \in Threads, Moves(t), MoreMarks, UNCHANGED control, Deed(t),
           job[t].kind = "node", job[t].ep # 0, NEW id \in Endpoints, obj[job[t].ep].id = id,
           Regular("ep", id), Regular("ep", id)', Claim(t, "ep", id)
    PROVE  Outcome(t, "ep", id)
<1>0. /\ job[t].at \in {"dropEP", "delistEP"} /\ NodeHand(job[t]) /\ Hand(job[t]) /\ Works(t, "ep", id)
      /\ job[t].ep \in DOMAIN obj /\ job[t].kind \in Linked /\ KillClaim(job[t], id)
  BY DEF Deed, Hand, NodeHand, Works, Holds, Linked, Claim
<1>1. CASE UNCHANGED <<memory, row, job>>
  BY <1>0, <1>1, IdleOutcome
<1>2. CASE KillDeed(t)
  <2>1. \/ job'[t].at = "delistEP" /\ SameJob(t) /\ KillClaim(job[t], id)'
        \/ job[t].at = "delistEP" /\ Settled("ep", id)'
    BY <1>0, <1>2, KillKey
  <2>2. CASE job[t].at = "dropEP"
    <3>1. SameJob(t) /\ job'[t].ep = job[t].ep /\ job'[t].at = "delistEP" /\ KillClaim(job[t], id)'
      BY <1>2, <2>1, <2>2 DEF KillDeed, GoesTo, SameHands
    <3>2. obj'[job[t].ep].id = id
      BY <1>0 DEF Moves, ObjGrows
    <3>3. Works(t, "ep", id)'
      BY <3>1, <3>2 DEF Works, Holds
    <3>4. Claim(t, "ep", id)'
      BY <3>1 DEF Claim, Key, SameJob
    <3>5. QED
      BY <3>3, <3>4 DEF Outcome
  <2>3. CASE job[t].at = "delistEP"
    <3>1. job'[t].kind = "node" /\ job'[t].ep = 0 /\ job'[t].at \in {"empty", "purge"}
      BY <1>0, <1>2, <2>3 DEF KillDeed, SameJob, NodeHand
    <3>2. ~Works(t, "ep", id)' /\ Settled("ep", id)'
      BY <2>1, <2>3, <3>1 DEF Works, Holds, Key
    <3>3. ~Twice("ep", id)'
      BY Sets, OnceThen DEF Linked
    <3>4. QED
      BY <3>2, <3>3 DEF Outcome
  <2>4. QED
    BY <1>0, <2>2, <2>3
<1>3. NodeDeed(t) => FALSE
  BY <1>0 DEF NodeDeed
<1>4. QED
  BY <1>1, <1>2, <1>3 DEF Deed, Plain, FailDeed

LEMMA KeyWorked ==
    ASSUME Types, Types', Alone, Lists, Lists', NEW t \in Threads, Does(t),
           NEW k \in Kinds, NEW id \in Ids(k), Works(t, k, id), Known(k, id)
    PROVE  Known(k, id)'
<1> SUFFICES ASSUME Regular(k, id)'
             PROVE  /\ \A u \in Threads : Works(u, k, id)' => Claim(u, k, id)'
                    /\ Unborn(k, id)' /\ Rested(k, id)'
  BY DEF Known
<1>0. Moves(t) /\ MoreMarks /\ Regular(k, id)
  BY DoesMinds, DoesPasses, RegularBefore
<1>1. job[t].at # "idle" /\ Step(t)
  BY DEF Works, Does, Begins, Begin, MainBegins, Take
<1>2. UNCHANGED control
  BY <1>1, StepRemembers
<1>3. Claim(t, k, id) /\ Unborn(k, id)
  BY <1>0 DEF Known
<1>4. Outcome(t, k, id)
  <2>1. CASE UNCHANGED <<memory, row, job>>
    BY <1>0, <1>2, <1>3, <2>1, IdleOutcome
  <2>2. CASE Deed(t) /\ Key(job[t]) = <<k, id>>
    BY <1>0, <1>2, <1>3, <2>2, OwnKey
  <2>3. CASE Deed(t) /\ Key(job[t]) # <<k, id>>
    <3>1. k = "ep" /\ job[t].ep # 0 /\ obj[job[t].ep].id = id
      BY <2>3 DEF Works, Holds
    <3>2. job[t].kind = "node"
      BY <1>1, <2>3, <3>1, HandOf, Sets DEF Hand, EPHand, PlainHand, Linked, Is, Key
    <3>3. id \in Endpoints
      BY <3>1, Sets
    <3>4. QED
      BY <1>0, <1>2, <1>3, <2>3, <3>1, <3>2, <3>3, HandKey
  <2>4. QED
    BY <1>1, <2>1, <2>2, <2>3, StepDeeds
<1>5. \A u \in Threads : Works(u, k, id)' => u = t
  <2>1. ~Raced(k, id)
    BY <1>0 DEF Regular, Raced
  <2>2. QED
    BY <1>0, <2>1, NobodyElse, OthersWork
<1>6. \A u \in Threads : Works(u, k, id)' => Claim(u, k, id)'
  BY <1>4, <1>5 DEF Outcome
<1>7. Unborn(k, id)'
  <2>1. Busy(k, id)
    BY BusyWorks
  <2>2. NotYet(k, id)' => NotYet(k, id)
    BY <1>2 DEF NotYet, control
  <2>3. k \in Plain => ~NotYet(k, id)'
    BY <1>3, <2>1, <2>2 DEF Unborn
  <2>4. QED
    BY <2>3 DEF Unborn
<1>8. Rested(k, id)'
  <2>1. ~Busy(k, id)' => ~Works(t, k, id)'
    BY BusyWorks
  <2>2. QED
    BY <1>4, <2>1 DEF Outcome, Rested
<1>9. QED
  BY <1>6, <1>7, <1>8

LEMMA DoesKnows ==
    ASSUME Types, Types', Alone, Alone', Lists, Lists', Knows, NEW t \in Threads, Does(t)
    PROVE  Knows'
<1>0. Minds(t) /\ Moves(t) /\ MoreMarks
  BY DoesMinds, DoesPasses
<1>1. ASSUME NEW k \in Kinds, NEW id \in Ids(k) PROVE Known(k, id)'
  <2>0. Known(k, id)
    BY DEF Knows
  <2>1. CASE Works(t, k, id)
    BY <2>0, <2>1, KeyWorked
  <2>2. CASE ~Works(t, k, id) /\ Works(t, k, id)'
    BY <1>0, <2>0, <2>2, KeyTaken
  <2>3. CASE ~Works(t, k, id) /\ ~Works(t, k, id)'
    <3>1. NotYet(k, id) <=> NotYet(k, id)'
      BY <2>3, DoesPasses
    <3>2. QED
      BY <1>0, <2>0, <2>3, <3>1, KeyLeft
  <2>4. QED
    BY <2>1, <2>2, <2>3
<1>2. QED
  BY <1>1 DEF Knows, Ids

LEMMA RestsKnown ==
    ASSUME Types, Types', UNCHANGED <<memory, row, job>>, history'.raced = history.raced, Passes,
           NEW k \in Kinds, NEW id \in Ids(k), Known(k, id)
    PROVE  Known(k, id)'
<1> SUFFICES ASSUME Regular(k, id)'
             PROVE  /\ \A u \in Threads : Works(u, k, id)' => Claim(u, k, id)'
                    /\ Unborn(k, id)' /\ Rested(k, id)'
  BY DEF Known
<1>1. MoreMarks /\ PassesBy(k, id)
  BY DEF MoreMarks, MoreRaced, Passes
<1>2. Regular(k, id) /\ <<k, id>> \notin history'.failed
  BY <1>1, RegularBefore DEF Regular
<1>3. Settled(k, id) => Settled(k, id)'
  BY <1>1, <1>2, SettledSame DEF MoreMarks, PassesBy
<1>4. \A u \in Threads : Works(u, k, id)' <=> Works(u, k, id)
  BY DEF Works, Holds, Key, memory
<1>5. \A u \in Threads : Works(u, k, id)' => Claim(u, k, id)'
  BY <1>2, <1>3, <1>4, ClaimSame DEF Known
<1>6. Busy(k, id)' <=> Busy(k, id)
  BY <1>4, BusyWorks
<1>7. Holders(k, id)' = Holders(k, id) /\ (Twice(k, id)' <=> Twice(k, id))
  BY DEF Holders, Listed, Twice, memory
<1>8. k \in Plain /\ NotYet(k, id)' => NotYet(k, id)
  <2>1. SUFFICES ASSUME k \in Plain, history'.rounds > history.rounds PROVE FALSE
    BY <1>1 DEF PassesBy
  <2>2. history.rounds \in Nat \ {0} /\ history'.rounds \in Nat
    BY SyncFacts DEF Types, TypeOK, Histories
  <2>3. history'.rounds > 1
    BY <2>1, <2>2
  <2>4. QED
    BY <2>1, <2>3 DEF Regular, MayBeTwice, Plain
<1>9. Unborn(k, id)' /\ Rested(k, id)'
  BY <1>2, <1>3, <1>6, <1>7, <1>8 DEF Known, Unborn, Rested
<1>10. QED
  BY <1>5, <1>9

LEMMA StartedKnows == JustStarted => Knows
<1> SUFFICES ASSUME JustStarted, NEW k \in Kinds, NEW id \in Ids(k) PROVE Known(k, id)
  BY DEF Knows
<1>1. \A t \in Threads : job[t] = Idle
  BY DEF JustStarted
<1>2. \A t \in Threads : ~Works(t, k, id)
  BY <1>1, IdleFields DEF Works
<1>3. Holders(k, id) = {} /\ ~Twice(k, id)
  <2>1. list[k] = <<>> /\ DOMAIN list[k] = {} /\ ToSet(list[k]) = {}
    <3>1. list[k] = <<>>
      BY DEF JustStarted
    <3>2. DOMAIN <<>> = {} /\ ToSet(<<>>) = {}
      BY EmptySeq DEF ToSet
    <3>3. QED
      BY <3>1, <3>2
  <2>2. QED
    BY <2>1 DEF Holders, Listed, Twice
<1>4. NotYet(k, id)
  <2>1. state = "CONNECTED" /\ sync.phase = 1 /\ sync.next = "count"
    BY DEF JustStarted, Unsynced
  <2>2. QED
    BY <2>1 DEF NotYet
<1>5. ~Busy(k, id)
  BY <1>2, BusyWorks
<1>6. QED
  BY <1>2, <1>3, <1>4, <1>5 DEF Known, Unborn, Rested, Settled, Backed, Shown

\* What the lists and the data manager say of an object agrees at each place of the code where
\* a thread works on it, but for objects that two threads or a failed call were about: of the
\* data manager, of FTOM_NODE_create and FTOM_EP_create, or of the append to the list.
THEOREM KnowsCorrect == Spec => []Knows
<1>1. Init => Knows
  BY InitStarts, StartedKnows
<1>2. Types /\ Types' /\ Alone /\ Alone' /\ Lists /\ Lists' /\ Knows /\ [Next]_vars => Knows'
  <2> SUFFICES ASSUME Types, Types', Alone, Alone', Lists, Lists', Knows, [Next]_vars PROVE Knows'
    OBVIOUS
  <2>1. CASE \E t \in Threads : Does(t)
    BY <2>1, DoesKnows
  <2>2. ASSUME UNCHANGED <<memory, row, job>>, history'.raced = history.raced, Passes PROVE Knows'
    BY <2>2, RestsKnown DEF Knows, Ids
  <2>3. CASE MainRests
    BY <2>2, <2>3 DEF MainRests, MainStep, store
  <2>4. CASE JustStarted'
    <3>1. JustStarted' => Knows'
      BY StartedKnows, PTL
    <3>2. QED
      BY <2>4, <3>1
  <2>5. CASE UNCHANGED vars
    <3>1. Passes
      BY <2>5, SyncFacts DEF Passes, PassesBy, NotYet, vars, control, store
    <3>2. QED
      BY <2>2, <2>5, <3>1 DEF vars, store
  <2>6. QED
    BY <2>1, <2>3, <2>4, <2>5, Doings
<1>3. QED
  BY <1>1, <1>2, TypeCorrect, LinksCorrect, ListsCorrect, PTL DEF Spec

\* Once the nodes are started, the gateway lists what the data manager holds and nothing
\* else, and says the same of it, but for what was left out, raced for or failed to be made.
THEOREM InStepHolds == Spec => []InStep
<1>1. Types /\ Knows => InStep
  <2> SUFFICES ASSUME Types, Knows, state = "PROCESSING", NEW k \in subject, NEW id \in Ids(k),
                      ~Busy(k, id), ~Excused(k, id), ~MayBeTwice(k, id)
               PROVE  /\ (id \in Rows(k)) <=> (Holders(k, id) # {})
                      /\ \A p \in Holders(k, id) : obj[p].info = row[k][id]
    BY DEF InStep
  <2>1. k \in Kinds
    BY Sets DEF Types, TypeOK
  <2>2. Settled(k, id)
    BY <2>1 DEF Knows, Known, Regular, Excused, Rested
  <2>3. ~NotYet(k, id) /\ <<k, id>> \notin history.cut
    BY DEF NotYet, Excused
  <2>4. Backed(k, id) /\ (row[k][id] # NoRow => Holders(k, id) # {})
    BY <2>2, <2>3 DEF Settled, Shown
  <2>5. id \in Rows(k) <=> row[k][id] # NoRow
    BY <2>1 DEF Rows
  <2>6. QED
    BY <2>4, <2>5 DEF Backed
<1>2. QED
  BY <1>1, TypeCorrect, KnowsCorrect, PTL

\* No object is listed twice but by threads that race, or where nothing looks for it.
THEOREM OnceEachHolds == Spec => []OnceEach
<1>1. Types /\ Lists /\ Knows => OnceEach
  <2> SUFFICES ASSUME Types, Lists, Knows, NEW k \in subject, NEW id \in Ids(k), Twice(k, id),
                      ~Busy(k, id), <<k, id>> \notin history.raced \cup history.failed, ~MayBeTwice(k, id)
               PROVE  FALSE
    BY DEF OnceEach
  <2>1. k \in Kinds
    BY Sets DEF Types, TypeOK
  <2>2. QED
    BY <2>1 DEF Knows, Known, Regular, Rested
<1>2. QED
  BY <1>1, TypeCorrect, ListsCorrect, KnowsCorrect, PTL

-------------------------------------------------------------------------------
(* The node that an endpoint is linked to.                                    *)

\* These marks are not taken back either.
MoreExcuses == history.orphaned \subseteq history'.orphaned /\ history.moved \subseteq history'.moved

LEMMA NextExcuses == ASSUME Types, Next PROVE MoreExcuses \/ JustStarted'
<1>0. history \in Histories
  BY DEF Types, TypeOK
<1>1. ASSUME NEW t, Step(t) PROVE MoreExcuses
  BY <1>1, StepRemembers DEF Remembers, MoreExcuses
<1>2. ASSUME NEW t, NEW j, NEW h \in Histories, h.orphaned = history.orphaned, h.moved = history.moved,
             history' = Racing(t, j, h)
      PROVE  MoreExcuses
  BY <1>2 DEF Racing, Histories, MoreExcuses
<1>3. ASSUME NEW c \in Consoles, Request(c) PROVE MoreExcuses
  BY <1>2, <1>3, RequestBegins DEF Begins, Begin, Take, SameMarks
<1>4. ASSUME history' = history PROVE MoreExcuses
  BY <1>4 DEF MoreExcuses
<1>5. ASSUME NEW k, NEW S, history' = LeaveOut(k, S) PROVE MoreExcuses
  BY <1>0, <1>5 DEF LeaveOut, Histories, MoreExcuses
<1>6. ASSUME NEW k, Count(k) PROVE MoreExcuses
  <2>1. CASE history' = [history EXCEPT !.rounds = @ + 1]
    BY <1>0, <2>1 DEF Histories, MoreExcuses
  <2>2. QED
    BY <1>5, <1>6, <2>1 DEF Count
<1>7. ASSUME NEW k, List(k) PROVE MoreExcuses
  BY <1>5, <1>7 DEF List
<1>8. ASSUME NEW k, NEW place, Load(k, place) PROVE MoreExcuses
  <2>1. CASE \E id : history' = [history EXCEPT !.failed = @ \cup {<<k, id>>}]
    BY <1>0, <2>1 DEF Histories, MoreExcuses
  <2>2. QED
    BY <1>0, <1>2, <1>4, <1>8, <2>1 DEF Load, Take
<1>9. ASSUME MainThread PROVE MoreExcuses
  <2>1. CASE Synchronized \/ StartNext
    BY <1>0, <1>2, <1>4, <2>1 DEF Synchronized, StartNext, StartFrom, Take
  <2>2. QED
    BY <1>1, <1>6, <1>7, <1>8, <1>9, <2>1
       DEF MainThread, SyncNodes, SyncClasses, SyncEPs, SyncTriggers, SyncActions, SyncRules
<1>10. QED
  BY <1>1, <1>3, <1>9, RestartStarts DEF Next

-------------------------------------------------------------------------------
LEMMA MemoryCalm == ASSUME UNCHANGED memory PROVE Calm
  BY DEF Calm, memory, Listed

LEMMA RunCalm == ASSUME UNCHANGED list, OnlyRun PROVE Calm
  BY DEF Calm, OnlyRun, Listed

LEMMA GrownCalm == ASSUME NEW t, NEW p, Grown(t, p), Listed("node") \subseteq Listed("node")' PROVE Calm
  BY DEF Calm, Grown

LEMMA ToldCalm == ASSUME NEW p, NEW c, Told(p, c), UNCHANGED list PROVE Calm
  BY DEF Calm, Told, Listed

LEMMA AppendCalm ==
    ASSUME Types, NEW k \in Kinds, NEW p \in Nat, list' = [list EXCEPT ![k] = Append(@, p)]
    PROVE  Listed("node") \subseteq Listed("node")'
<1>1. DOMAIN list = Kinds /\ list["node"] \in Seq(Nat)
  BY Sets, ListFacts
<1>2. CASE k = "node"
  BY <1>1, <1>2, Appended DEF Listed
<1>3. CASE k # "node"
  BY <1>1, <1>3 DEF Listed
<1>4. QED
  BY <1>2, <1>3

LEMMA DeedEffects ==
    ASSUME Types, Types', NEW t \in Threads, Moves(t), Deed(t)
    PROVE  Calm \/ Frees(t) \/ Splits(t) \/ Ties(t)
<1> DEFINE j == job[t]
<1>0. /\ j.at # "idle" /\ Hand(j) /\ j \in Jobs /\ Works(t, j.kind, j.id) /\ j.kind \in Kinds
      /\ "node" \in Kinds /\ "ep" \in Kinds
  BY OwnWork, Sets DEF Deed, Jobs
<1>1. \A k, id, content, applies : Answered(k, id, content, applies) => Calm
  BY MemoryCalm DEF Answered
<1>2. ASSUME NEW k \in Kinds, NEW p \in DOMAIN obj', list' = [list EXCEPT ![k] = Append(@, p)]
      PROVE  Listed("node") \subseteq Listed("node")'
  <2>1. p \in Nat
    <3>1. obj' \in Seq(Objects)
      BY DEF Types, TypeOK
    <3>2. QED
      BY <3>1, SeqFacts
  <2>2. QED
    BY <1>2, <2>1, AppendCalm
<1>3. CASE j.kind = "node" /\ NodeDeed(t)
  <2>1. NodeHand(j)
    BY <1>0, <1>3 DEF Hand
  <2>2. CASE j.at = "look"
    BY <1>3, <2>2, MemoryCalm, GrownCalm DEF NodeDeed, Listed
  <2>3. CASE j.at = "append"
    <3>1. j.ptr \in DOMAIN obj' /\ UNCHANGED obj /\ list' = [list EXCEPT !["node"] = Append(@, j.ptr)]
      BY <1>3, <2>1, <2>3 DEF NodeDeed, NodeHand, Is, Moves, ObjGrows
    <3>2. QED
      BY <1>0, <1>2, <3>1 DEF Calm
  <2>4. CASE j.at \in {"empty", "purge"}
    <3>1. ASSUME NEW e \in ToSet(obj[j.ptr].eps), obj[e].node = j.ptr, Split(e, j.ptr), Takes(t, e), UNCHANGED list
          PROVE  Splits(t)
      <4>1. Is(j.ptr, "node", j.id) /\ e \in DOMAIN obj /\ obj[e].kind = "ep"
        BY <2>1, <2>4, <3>1 DEF NodeHand, Is, Types, ObjOK
      <4>2. Works(t, "ep", obj[e].id)'
        <5>1. job'[t].at # "idle" /\ job'[t].ep = e /\ e # 0 /\ obj'[e].id = obj[e].id
          BY <3>1, <4>1, ObjFacts DEF Takes, Moves, ObjGrows, Types
        <5>2. QED
          BY <5>1 DEF Works, Holds
      <4>3. QED
        BY <3>1, <4>1, <4>2 DEF Splits, Is
    <3>2. QED
      BY <1>3, <2>4, <3>1, MemoryCalm DEF NodeDeed
  <2>5. CASE j.at = "delist"
    <3>1. Is(j.ptr, "node", j.id)
      BY <2>1, <2>5 DEF NodeHand
    <3>2. QED
      BY <1>0, <1>3, <2>5, <3>1 DEF NodeDeed, Frees, Is
  <2>6. CASE j.at \in {"add", "drop", "save"}
    BY <1>1, <1>3, <2>6 DEF NodeDeed
  <2>7. CASE j.at = "start"
    BY <1>3, <2>7, RunCalm DEF NodeDeed
  <2>8. CASE j.at = "write"
    BY <1>3, <2>8, ToldCalm, MemoryCalm DEF NodeDeed
  <2>9. QED
    BY <1>3, <2>2, <2>3, <2>4, <2>5, <2>6, <2>7, <2>8 DEF NodeDeed
<1>4. CASE j.kind = "ep" /\ EPDeed(t)
  <2>1. EPHand(j)
    BY <1>0, <1>4 DEF Hand
  <2>2. CASE j.at = "look"
    BY <1>4, <2>2, MemoryCalm, GrownCalm DEF EPDeed, Listed
  <2>3. CASE j.at = "append"
    <3>1. j.ptr \in DOMAIN obj' /\ UNCHANGED obj /\ list' = [list EXCEPT !["ep"] = Append(@, j.ptr)]
      BY <1>4, <2>1, <2>3 DEF EPDeed, EPHand, Is, Moves, ObjGrows
    <3>2. QED
      BY <1>0, <1>2, <3>1 DEF Calm
  <2>4. ASSUME j.at \in {"unlink", "unhook"}, Split(j.ep, obj[j.ep].node), obj[j.ep].node # 0, UNCHANGED list
        PROVE  Splits(t)
    <3>1. Is(j.ep, "ep", j.id)
      BY <2>1, <2>4 DEF EPHand
    <3>2. obj[j.ep].node \in DOMAIN obj /\ obj[obj[j.ep].node].kind = "node"
      BY <2>4, <3>1 DEF Types, ObjOK, Is
    <3>3. QED
      BY <1>0, <1>4, <2>4, <3>1, <3>2 DEF Splits, Is
  <2>5. CASE j.at = "unlink"
    <3>1. j.node # 0
      BY <2>1, <2>5, ObjFacts DEF EPHand, Is, Types
    <3>2. QED
      BY <1>4, <2>4, <2>5, <3>1, MemoryCalm DEF EPDeed
  <2>6. CASE j.at = "unhook"
    <3>1. UNCHANGED <<obj, list>> => Calm
      BY MemoryCalm DEF memory
    <3>2. QED
      BY <1>4, <2>4, <2>6, <3>1 DEF EPDeed
  <2>7. CASE j.at = "link"
    <3>1. UNCHANGED <<obj, list>> => Calm
      BY MemoryCalm DEF memory
    <3>2. Is(j.ptr, "ep", j.id) /\ Is(j.node, "node", j.info)
      BY <2>1, <2>7 DEF EPHand
    <3>3. QED
      BY <1>4, <2>7, <3>1, <3>2, MemoryCalm DEF EPDeed, Ties
  <2>8. CASE j.at \in {"add", "save"}
    BY <1>1, <1>4, <2>8 DEF EPDeed
  <2>9. CASE j.at = "seek"
    BY <1>4, <2>9, MemoryCalm DEF EPDeed
  <2>10. CASE j.at = "write"
    BY <1>4, <2>10, ToldCalm DEF EPDeed
  <2>11. QED
    BY <1>4, <2>2, <2>3, <2>5, <2>6, <2>7, <2>8, <2>9, <2>10 DEF EPDeed
<1>5. CASE j.kind \in Linked /\ KillDeed(t)
  <2>1. j.at \in {"dropEP", "delistEP"}
    BY <1>5 DEF KillDeed
  <2>2. j.ep \in DOMAIN obj /\ obj[j.ep].kind = "ep" /\ j.ep # 0
    BY <1>0, <1>5, <2>1, ObjFacts DEF Hand, NodeHand, EPHand, Is, Linked, Types
  <2>3. Works(t, "ep", obj[j.ep].id)
    BY <1>0, <2>2, OwnWork
  <2>4. QED
    BY <1>0, <1>1, <1>5, <2>1, <2>2, <2>3 DEF KillDeed, Frees
<1>6. CASE j.kind \in Plain /\ PlainDeed(t)
  <2>1. PlainHand(j) /\ j.kind # "node"
    BY <1>0, <1>6 DEF Hand, Plain
  <2>2. CASE j.at = "append"
    <3>1. PICK p : Grown(t, p) /\ list' = [list EXCEPT ![j.kind] = Append(@, p)]
      BY <1>6, <2>2 DEF PlainDeed
    <3>2. p \in DOMAIN obj'
      BY <3>1 DEF Grown
    <3>3. QED
      BY <1>0, <1>2, <3>1, <3>2, GrownCalm
  <2>3. CASE j.at = "delist"
    BY <1>0, <1>6, <2>1, <2>3 DEF PlainDeed, PlainHand, Frees, Is
  <2>4. CASE j.at \in {"add", "drop", "save"}
    BY <1>1, <1>6, <2>4 DEF PlainDeed
  <2>5. CASE j.at = "write"
    BY <1>6, <2>5, ToldCalm DEF PlainDeed
  <2>6. QED
    BY <2>1, <2>2, <2>3, <2>4, <2>5 DEF PlainHand
<1>7. CASE UNCHANGED <<memory, row, job>>
  BY <1>7, MemoryCalm
<1>8. QED
  BY <1>3, <1>4, <1>5, <1>6, <1>7, MemoryCalm DEF Deed, FailDeed

LEMMA DoesEffects ==
    ASSUME Types, Types', NEW t \in Threads, Does(t)
    PROVE  Calm \/ Frees(t) \/ Splits(t) \/ Ties(t)
<1>1. CASE Step(t)
  BY <1>1, StepDeeds, DeedEffects, DoesMinds, MemoryCalm
<1>2. CASE \E j : t \in Consoles /\ Begins(t, j)
  BY <1>2, RunCalm DEF Begins
<1>3. CASE \E j : t = Main /\ MainBegins(j)
  BY <1>3, MemoryCalm DEF MainBegins, MainStep
<1>4. QED
  BY <1>1, <1>2, <1>3 DEF Does

\* A node goes with its endpoints, or without any.
LEMMA FreedNode ==
    ASSUME Types, NEW t \in Threads, Ready(t), NEW p \in DOMAIN obj, NEW k \in Kinds, obj[p].kind = k,
           k = "node" => job[t].kind = "node" /\ job[t].at = "delist" /\ p = job[t].ptr,
           NEW e \in DOMAIN obj, Counted(e), obj[e].node = p, p # 0
    PROVE  Raced("node", obj[p].id)
<1>1. k = "node"
  BY DEF Types, ObjOK
<1>2. Is(p, "node", job[t].id)
  <2>1. job[t].at # "idle"
    BY <1>1
  <2>2. QED
    BY <1>1, <2>1, HandOf DEF Hand, NodeHand
<1>3. SUFFICES ASSUME ~Raced("node", obj[p].id) PROVE FALSE
  OBVIOUS
<1>4. obj[p].eps = <<>>
  BY <1>1, <1>2, <1>3 DEF Ready, Is
<1>5. e \in ToSet(obj[p].eps)
  BY <1>3 DEF Counted
<1>6. QED
  BY <1>4, <1>5 DEF ToSet

LEMMA CountedRebound ==
    ASSUME Types, ObjGrows, MoreRaced, NEW f \in DOMAIN obj, NEW n \in DOMAIN obj, NEW to, NEW q,
           obj[f].kind = "ep", obj[n].kind = "node", Rebound(f, n, to, q), ToSet(obj[n].eps) \ {f} \subseteq ToSet(q),
           to = 0 \/ (to = n /\ f \in ToSet(q)), NEW e \in DOMAIN obj, Counted(e)
    PROVE  Counted(e)'
<1>1. CASE e = f
  BY <1>1 DEF Rebound, Counted
<1>2. CASE e # f
  <2>1. obj'[e].node = obj[e].node
    BY <1>2 DEF Rebound
  <2>2. SUFFICES ASSUME obj[e].node # 0, ~Raced("node", obj[obj[e].node].id)'
        PROVE  e \in ToSet(obj'[obj[e].node].eps)
    BY <2>1 DEF Counted
  <2>3. obj[e].node \in DOMAIN obj /\ obj[obj[e].node].kind = "node"
    BY <2>2 DEF Types, ObjOK
  <2>4. ~Raced("node", obj[obj[e].node].id)
    BY <2>1, <2>2, <2>3 DEF ObjGrows, MoreRaced, Raced
  <2>5. e \in ToSet(obj[obj[e].node].eps)
    BY <2>2, <2>4 DEF Counted
  <2>6. QED
    BY <1>2, <2>3, <2>5 DEF Rebound
<1>3. QED
  BY <1>1, <1>2

LEMMA CountedKept ==
    ASSUME Types, NEW t \in Threads, Moves(t), MoreRaced, Ready(t), \A e \in DOMAIN obj : Counted(e),
           Calm \/ Frees(t) \/ Splits(t) \/ Ties(t), NEW e \in DOMAIN obj'
    PROVE  Counted(e)'
<1>0. ObjGrows
  BY DEF Moves
<1>1. CASE Calm
  <2>1. CASE e \notin DOMAIN obj
    BY <1>1, <2>1 DEF Calm, Counted
  <2>2. CASE e \in DOMAIN obj
    <3>1. obj'[e].node = obj[e].node
      BY <1>1, <2>2 DEF Calm
    <3>2. SUFFICES ASSUME obj[e].node # 0, ~Raced("node", obj[obj[e].node].id)'
          PROVE  e \in ToSet(obj'[obj[e].node].eps)
      BY <3>1 DEF Counted
    <3>3. obj[e].node \in DOMAIN obj
      BY <2>2, <3>2 DEF Types, ObjOK
    <3>4. ~Raced("node", obj[obj[e].node].id)
      BY <1>0, <3>1, <3>2, <3>3 DEF ObjGrows, MoreRaced, Raced
    <3>5. e \in ToSet(obj[obj[e].node].eps)
      BY <2>2, <3>2, <3>4 DEF Counted
    <3>6. QED
      BY <1>1, <3>3, <3>5 DEF Calm
  <2>3. QED
    BY <2>1, <2>2
<1>2. CASE Frees(t)
  <2>1. PICK k \in Kinds, p \in DOMAIN obj :
            /\ obj[p].kind = k /\ Gone(k, p) /\ Works(t, k, obj[p].id)
            /\ k = "node" => job[t].kind = "node" /\ job[t].at = "delist" /\ p = job[t].ptr
    BY <1>2 DEF Frees
  <2>2. CASE e = p
    BY <2>1, <2>2 DEF Gone, Counted
  <2>3. CASE e # p
    <3>1. e \in DOMAIN obj /\ obj'[e] = obj[e]
      BY <2>1, <2>3 DEF Gone
    <3>2. SUFFICES ASSUME obj[e].node # 0, ~Raced("node", obj[obj[e].node].id)'
          PROVE  e \in ToSet(obj'[obj[e].node].eps)
      BY <3>1 DEF Counted
    <3>3. obj[e].node \in DOMAIN obj
      BY <3>1, <3>2 DEF Types, ObjOK
    <3>4. ~Raced("node", obj[obj[e].node].id)
      BY <1>0, <3>1, <3>2, <3>3 DEF ObjGrows, MoreRaced, Raced
    <3>5. e \in ToSet(obj[obj[e].node].eps)
      BY <3>1, <3>2, <3>4 DEF Counted
    <3>6. obj[e].node # p
      BY <2>1, <3>1, <3>2, <3>4, FreedNode
    <3>7. obj'[obj[e].node] = obj[obj[e].node]
      BY <2>1, <3>3, <3>6 DEF Gone
    <3>8. QED
      BY <3>5, <3>7
  <2>4. QED
    BY <2>2, <2>3
<1>3. CASE Splits(t)
  <2>1. PICK f, n \in DOMAIN obj : obj[f].kind = "ep" /\ obj[n].kind = "node" /\ Split(f, n)
    BY <1>3 DEF Splits
  <2>2. obj[n].eps \in Seq(Nat)
    BY <2>1, ObjFacts DEF Types, Objects
  <2>3. ToSet(obj[n].eps) \ {f} \subseteq ToSet(Without(obj[n].eps, f))
    BY <2>2, WithoutKeeps
  <2>4. e \in DOMAIN obj
    BY <2>1 DEF Split, Rebound
  <2>5. QED
    BY <1>0, <2>1, <2>3, <2>4, CountedRebound DEF Split
<1>4. CASE Ties(t)
  <2>1. PICK f, n \in DOMAIN obj : obj[f].kind = "ep" /\ obj[n].kind = "node" /\ Tied(f, n)
    BY <1>4 DEF Ties, Is
  <2>2. obj[n].eps \in Seq(Nat) /\ f \in Nat
    BY <2>1, ObjFacts DEF Types, Objects
  <2>3. ToSet(Append(obj[n].eps, f)) = ToSet(obj[n].eps) \cup {f}
    BY <2>2, Appended
  <2>4. e \in DOMAIN obj
    BY <2>1 DEF Tied, Rebound
  <2>5. QED
    BY <1>0, <2>1, <2>3, <2>4, CountedRebound DEF Tied
<1>5. QED
  BY <1>1, <1>2, <1>3, <1>4

\* What another thread has found or emptied stays as it is.
LEMMA OthersReady ==
    ASSUME Types, Types', Alone, NEW t \in Threads, Moves(t), MoreRaced, Minds(t),
           Calm \/ Frees(t) \/ Splits(t) \/ Ties(t), NEW u \in Threads, u # t, Ready(u)
    PROVE  Ready(u)'
<1> DEFINE j == job[u]
<1>0. job'[u] = j /\ ObjGrows
  BY DEF Moves, OthersStay
<1>1. ASSUME Expects(j), ~Raced("node", j.info)' PROVE j.node \in Listed("node")'
  <2>1. j.at # "idle" /\ j.kind = "ep"
    BY <1>1 DEF Expects
  <2>2. Hand(j)
    BY <2>1, HandOf
  <2>3. Is(j.node, "node", j.info)
    BY <1>1, <2>1, <2>2 DEF Hand, EPHand, Expects
  <2>4. ~Raced("node", j.info)
    BY <1>0, <1>1 DEF Raced, MoreRaced
  <2>5. j.node \in Listed("node")
    BY <1>1, <2>4 DEF Ready
  <2>6. ~Works(t, "node", j.info)
    <3>1. SUFFICES ASSUME Works(t, "node", j.info) PROVE FALSE
      OBVIOUS
    <3>2. job[t].at # "idle" /\ job[t].kind = "node" /\ job[t].id = j.info
      BY <3>1 DEF Works, Holds, Key
    <3>3. QED
      BY <2>1, <2>4, <3>2, NobodyLinks
  <2>7. QED
    BY <2>3, <2>5, <2>6, ListedStays, Sets DEF Is
<1>2. ASSUME j.kind = "ep", j.at \in {"append", "add", "seek", "link"}, ~Raced("ep", j.id)'
      PROVE  obj'[j.ptr].info = j.info
  <2>1. j.at # "idle"
    BY <1>2
  <2>2. Is(j.ptr, "ep", j.id) /\ Works(u, "ep", j.id)
    BY <1>2, <2>1, BareWorks
  <2>3. ~Raced("ep", j.id)
    BY <1>0, <1>2 DEF Raced, MoreRaced
  <2>4. ~Works(t, "ep", j.id)
    BY <2>2, <2>3, NobodyElse
  <2>5. obj'[j.ptr].info = obj[j.ptr].info
    BY <2>2, <2>4 DEF Minds, Is
  <2>6. QED
    BY <1>2, <2>3, <2>5 DEF Ready
<1>3. ASSUME j.kind = "node", j.at = "delist", ~Raced("node", j.id)' PROVE obj'[j.ptr].eps = <<>>
  <2>1. j.at # "idle" /\ Is(j.ptr, "node", j.id)
    BY <1>3, HandOf DEF Hand, NodeHand
  <2>2. ~Raced("node", j.id)
    BY <1>0, <1>3 DEF Raced, MoreRaced
  <2>3. obj[j.ptr].eps = <<>>
    BY <1>3, <2>2 DEF Ready
  <2>4. CASE Calm
    BY <2>1, <2>3, <2>4 DEF Calm, Is
  <2>5. CASE Frees(t)
    BY <2>1, <2>3, <2>5 DEF Frees, Gone, Is
  <2>6. CASE Splits(t)
    <3>1. \A e : Without(<<>>, e) = <<>>
      BY DEF Without, ToSet
    <3>2. QED
      BY <2>1, <2>3, <2>6, <3>1 DEF Splits, Split, Rebound, Is
  <2>7. CASE Ties(t)
    <3>1. job[t].at # "idle" /\ job[t].kind = "ep" /\ obj[job[t].node].id = job[t].info
          /\ Tied(job[t].ptr, job[t].node)
      BY <2>7 DEF Ties, Is
    <3>2. job[t].info # j.id
      BY <1>3, <2>1, <2>2, <3>1, NobodyLinks
    <3>3. j.ptr # job[t].node
      BY <2>1, <3>1, <3>2 DEF Is
    <3>4. QED
      BY <2>1, <2>3, <3>1, <3>3 DEF Tied, Rebound, Is
  <2>8. QED
    BY <2>4, <2>5, <2>6, <2>7
<1>4. QED
  BY <1>0, <1>1, <1>2, <1>3 DEF Ready, Expects

-------------------------------------------------------------------------------
\* Other places say nothing.
LEMMA ReadyElsewhere ==
    ASSUME NEW t,
           IF job'[t].kind = "ep" THEN job'[t].at \notin {"look", "append", "add", "seek", "link"}
           ELSE job'[t].kind = "node" => job'[t].at # "delist"
    PROVE  Ready(t)'
  BY DEF Ready, Expects

\* An endpoint on its way.
LEMMA ReadyEP ==
    ASSUME NEW t, job'[t].kind = "ep",
           Expects(job[t])' /\ ~Raced("node", job[t].info)' => job'[t].node \in Listed("node")',
           job'[t].at = "look" \/ Raced("ep", job[t].id)' \/ obj'[job'[t].ptr].info = job'[t].info
    PROVE  Ready(t)'
  BY DEF Ready

LEMMA NodeReady ==
    ASSUME NEW t, job[t].kind = "node", job[t].at # "idle", Hand(job[t]), NodeDeed(t), Ready(t)
    PROVE  Ready(t)'
<1>1. job[t].at \notin {"dropEP", "delistEP"}
  BY DEF NodeDeed
<1>2. CASE job'[t].kind = "node" /\ job'[t].at = "delist"
  <2>1. /\ job[t].at = "purge" /\ UNCHANGED memory /\ obj[job[t].ptr].eps = <<>> /\ job'[t].ptr = job[t].ptr
    BY <1>2, IdleFields DEF NodeDeed, GoesTo, GoesWith, Takes, Ends, SameHands
  <2>2. QED
    BY <1>2, <2>1 DEF Ready, Expects, memory
<1>3. CASE ~(job'[t].kind = "node" /\ job'[t].at = "delist")
  <2>1. job'[t].kind = "node"
    BY IdleFields DEF NodeDeed, GoesTo, GoesWith, Takes, Ends, SameJob
  <2>2. QED
    BY <1>3, <2>1, ReadyElsewhere
<1>4. QED
  BY <1>2, <1>3

LEMMA EPReady ==
    ASSUME Types, NEW t \in Threads, job[t].kind = "ep", job[t].at # "idle", Hand(job[t]), job[t] \in Jobs,
           Moves(t), MoreRaced, EPDeed(t), Ready(t)
    PROVE  Ready(t)'
<1> DEFINE j == job[t]
<1>0. EPHand(j)
  BY DEF Hand
<1>1. ASSUME SameJob(t) PROVE /\ Raced("node", j.info) => Raced("node", job[t].info)'
                              /\ Raced("ep", j.id) => Raced("ep", job[t].id)'
  BY <1>1 DEF SameJob, Raced, MoreRaced
<1>2. ASSUME Ends(t) PROVE Ready(t)'
  BY <1>2, IdleFields, ReadyElsewhere DEF Ends
<1>3. ASSUME SameJob(t), job'[t].at \notin {"look", "append", "add", "seek", "link"} PROVE Ready(t)'
  BY <1>3, ReadyElsewhere DEF SameJob
<1>4. CASE j.at = "look"
  <2>1. ASSUME UNCHANGED list, NEW p, Grown(t, p), GoesWith(t, p, "append") PROVE Ready(t)'
    <3>1. /\ SameJob(t) /\ job'[t].kind = "ep" /\ job'[t].node = j.node /\ job'[t].new = j.new
          /\ job'[t].at = "append" /\ job'[t].ptr = p /\ job'[t].info = j.info
      BY <1>4, <2>1 DEF GoesWith, SameJob
    <3>2. Expects(job[t])' => Expects(j)
      BY <1>4, <3>1 DEF Expects
    <3>3. obj'[job'[t].ptr].info = job'[t].info
      BY <2>1, <3>1 DEF Grown
    <3>4. QED
      BY <1>1, <2>1, <3>1, <3>2, <3>3, ReadyEP DEF Ready, Listed
  <2>2. QED
    BY <1>2, <1>4, <2>1 DEF EPDeed
<1>5. CASE j.at = "append"
  <2>1. /\ UNCHANGED obj /\ list' = [list EXCEPT !["ep"] = Append(@, j.ptr)]
        /\ GoesTo(t, IF j.new THEN "add" ELSE "seek")
    BY <1>5 DEF EPDeed
  <2>2. /\ SameJob(t) /\ job'[t].kind = "ep" /\ job'[t].node = j.node /\ job'[t].ptr = j.ptr
        /\ job'[t].at = (IF j.new THEN "add" ELSE "seek") /\ job'[t].info = j.info /\ job'[t].new = j.new
    BY <1>5, <2>1 DEF GoesTo, SameHands, SameJob
  <2>3. Expects(job[t])' => Expects(j)
    BY <1>5, <2>2 DEF Expects
  <2>4. Listed("node")' = Listed("node")
    BY <2>1, Sets, ListFacts DEF Listed
  <2>5. Raced("ep", j.id) \/ obj[j.ptr].info = j.info
    BY <1>5 DEF Ready
  <2>6. QED
    BY <1>1, <2>1, <2>2, <2>3, <2>4, <2>5, ReadyEP DEF Ready
<1>6. CASE j.at = "add"
  <2>1. UNCHANGED <<obj, list>> /\ GoesTo(t, "link")
    BY <1>6 DEF EPDeed, Answered, memory
  <2>2. /\ SameJob(t) /\ job'[t].kind = "ep" /\ job'[t].node = j.node /\ job'[t].ptr = j.ptr
        /\ job'[t].info = j.info
    BY <2>1 DEF GoesTo, SameHands, SameJob
  <2>3. Expects(j)
    BY <1>6 DEF Expects
  <2>4. Raced("ep", j.id) \/ obj[j.ptr].info = j.info
    BY <1>6 DEF Ready
  <2>5. QED
    BY <1>1, <2>1, <2>2, <2>3, <2>4, ReadyEP DEF Ready, Listed
<1>7. CASE j.at = "seek"
  <2>1. ASSUME UNCHANGED <<obj, list>>, SameJob(t), job'[t].ptr = j.ptr, job'[t].node \in Get("node", j.info)
        PROVE  Ready(t)'
    <3>1. job'[t].node \in Listed("node")'
      BY <2>1, Found, Sets DEF Listed
    <3>2. Raced("ep", j.id) \/ obj[j.ptr].info = j.info
      BY <1>7 DEF Ready
    <3>3. QED
      BY <1>1, <2>1, <3>1, <3>2, ReadyEP DEF SameJob
  <2>2. QED
    BY <1>2, <1>7, <2>1 DEF EPDeed, memory
<1>8. CASE j.at \in {"link", "unlink", "unhook", "save"}
  <2>1. CASE Ends(t)
    BY <1>2, <2>1
  <2>2. CASE j.at = "link" /\ UNCHANGED memory /\ GoesTo(t, "seek")
    <3>1. SameJob(t) /\ job'[t].at = "seek" /\ job'[t].ptr = j.ptr /\ job'[t].kind = "ep" /\ job'[t].info = j.info
      BY <2>2 DEF GoesTo, SameHands, SameJob
    <3>2. Raced("ep", j.id) \/ obj[j.ptr].info = j.info
      BY <2>2 DEF Ready
    <3>3. QED
      BY <1>1, <2>2, <3>1, <3>2, ReadyEP DEF Expects, memory
  <2>3. CASE j.at # "link" /\ ~Ends(t)
    <3>1. SameJob(t) /\ job'[t].at \in {"dropEP", "write"}
      BY <1>8, <2>3 DEF EPDeed, GoesTo
    <3>2. QED
      BY <1>3, <3>1
  <2>4. QED
    BY <2>1, <2>2, <2>3 DEF EPDeed
<1>9. CASE j.at = "write"
  <2>1. ASSUME Told(j.ptr, j.info), GoesTo(t, "seek") PROVE Ready(t)'
    <3>1. SameJob(t) /\ job'[t].at = "seek" /\ job'[t].ptr = j.ptr /\ obj'[j.ptr].info = j.info
          /\ job'[t].kind = "ep" /\ job'[t].info = j.info
      BY <2>1 DEF GoesTo, SameHands, Told, SameJob
    <3>2. ~Expects(job[t])'
      BY <3>1 DEF Expects
    <3>3. QED
      BY <3>1, <3>2, ReadyEP
  <2>2. QED
    BY <1>2, <1>9, <2>1 DEF EPDeed
<1>10. QED
  BY <1>4, <1>5, <1>6, <1>7, <1>8, <1>9 DEF EPDeed

LEMMA DeedReady ==
    ASSUME Types, NEW t \in Threads, Moves(t), MoreRaced, Ready(t),
           Deed(t) \/ UNCHANGED <<memory, row, job>>
    PROVE  Ready(t)'
<1>1. CASE UNCHANGED <<memory, row, job>>
  <2>1. UNCHANGED <<obj, list>> /\ job'[t] = job[t]
    BY <1>1 DEF memory
  <2>2. \A k, id : Raced(k, id) => Raced(k, id)'
    BY DEF Raced, MoreRaced
  <2>3. QED
    BY <2>1, <2>2 DEF Ready, Expects, Listed
<1>2. CASE job[t].kind = "node" /\ Deed(t) /\ NodeDeed(t)
  BY <1>2, NodeReady DEF Deed
<1>3. CASE job[t].kind = "ep" /\ Deed(t) /\ EPDeed(t)
  BY <1>3, EPReady DEF Deed
<1>4. CASE job[t].kind \in Linked /\ Deed(t) /\ KillDeed(t)
  <2>1. Ends(t) \/ (SameJob(t) /\ (job'[t].at = "delistEP" \/ job'[t].at = job[t].back))
    BY <1>4 DEF KillDeed, GoesTo
  <2>2. job[t].at \in {"dropEP", "delistEP"} /\ Hand(job[t])
    BY <1>4 DEF KillDeed, Deed
  <2>3. job[t].back \in {"empty", "purge", "idle"}
    BY <1>4, <2>2 DEF Hand, NodeHand, EPHand, Linked
  <2>4. CASE Ends(t)
    BY <2>4, IdleFields, ReadyElsewhere DEF Ends
  <2>5. CASE SameJob(t) /\ job'[t].at \in {"delistEP", "empty", "purge", "idle"}
    BY <2>5, ReadyElsewhere
  <2>6. QED
    BY <2>1, <2>3, <2>4, <2>5
<1>5. CASE job[t].kind \in Plain /\ Deed(t) /\ PlainDeed(t)
  <2>1. Ends(t) \/ SameJob(t)
    BY <1>5 DEF PlainDeed, GoesTo, GoesWith
  <2>2. CASE Ends(t)
    BY <2>2, IdleFields, ReadyElsewhere DEF Ends
  <2>3. CASE SameJob(t)
    BY <1>5, <2>3, ReadyElsewhere DEF SameJob, Plain
  <2>4. QED
    BY <2>1, <2>2, <2>3
<1>6. CASE FailDeed(t)
  BY <1>6, IdleFields, ReadyElsewhere DEF FailDeed, Ends, GoesTo
<1>7. QED
  BY <1>1, <1>2, <1>3, <1>4, <1>5, <1>6 DEF Deed

\* What is begun with has been found.
LEMMA BegunReady ==
    ASSUME Types, NEW t \in Threads, NEW j, job'[t] = j, Asked(j) \/ Loads(j) \/ Starts(j), UNCHANGED list
    PROVE  Ready(t)'
<1>1. CASE j.kind = "ep" /\ j.at = "look" /\ j.new
  <2>1. CASE Asked(j)
    <3>1. j.node \in Get("node", j.info)
      BY <1>1, <2>1, IdleFields DEF Asked, Plain
    <3>2. j.node \in Listed("node")'
      BY <3>1, Found, Sets DEF Listed
    <3>3. QED
      BY <1>1, <3>2, ReadyEP
  <2>2. QED
    BY <1>1, <2>1 DEF Loads, Starts
<1>2. CASE j.kind = "ep" /\ j.at = "look" /\ ~j.new
  BY <1>2, ReadyEP DEF Expects
<1>3. CASE j.kind = "ep" /\ j.at # "look"
  <2>1. j.at \notin {"append", "add", "seek", "link"}
    BY <1>3, IdleFields DEF Asked, Loads, Starts, Plain
  <2>2. QED
    BY <1>3, <2>1, ReadyElsewhere
<1>4. CASE j.kind # "ep"
  <2>1. j.kind = "node" => j.at # "delist"
    BY <1>4, IdleFields DEF Asked, Loads, Starts, Plain
  <2>2. QED
    BY <1>4, <2>1, ReadyElsewhere
<1>5. QED
  BY <1>1, <1>2, <1>3, <1>4

LEMMA OwnReady ==
    ASSUME Types, NEW t \in Threads, Does(t), Moves(t), MoreRaced, Ready(t)
    PROVE  Ready(t)'
<1>1. CASE Step(t)
  BY <1>1, StepDeeds, DeedReady
<1>2. ASSUME NEW j, t \in Consoles, Begins(t, j) PROVE Ready(t)'
  <2>1. job'[t] = j /\ Asked(j) /\ UNCHANGED list
    BY <1>2, BeginsMoves DEF Begins
  <2>2. QED
    BY <2>1, BegunReady
<1>3. ASSUME NEW j, t = Main, MainBegins(j) PROVE Ready(t)'
  <2>1. job'[t] = j /\ (Loads(j) \/ Starts(j)) /\ UNCHANGED list
    BY <1>3, MainBeginsMoves DEF MainBegins
  <2>2. QED
    BY <2>1, BegunReady
<1>4. QED
  BY <1>1, <1>2, <1>3 DEF Does

LEMMA ReadyKept ==
    ASSUME Types, Types', Alone, \A u \in Threads : Ready(u), NEW t \in Threads, Does(t), NEW u \in Threads
    PROVE  Ready(u)'
<1>1. Minds(t) /\ Moves(t) /\ MoreRaced
  BY DoesMinds
<1>2. Calm \/ Frees(t) \/ Splits(t) \/ Ties(t)
  BY DoesEffects
<1>3. QED
  BY <1>1, <1>2, OthersReady, OwnReady

\* The node of an endpoint stays listed.
LEMMA NodeStays ==
    ASSUME Types, NEW t \in Threads, Moves(t), MoreRaced, Ready(t),
           Calm \/ Frees(t) \/ Splits(t) \/ Ties(t),
           NEW e \in DOMAIN obj, Counted(e), HasNode(e),
           obj'[e].node = obj[e].node, obj'[e].info = obj[e].info
    PROVE  HasNode(e)'
<1> DEFINE n == obj[e].node
           i == obj[e].info
<1>1. SUFFICES ASSUME ~Raced("node", i)' PROVE n \in Listed("node")' /\ obj'[n].id = i
  BY DEF HasNode
<1>2. ~Raced("node", i)
  BY <1>1 DEF Raced, MoreRaced
<1>3. n \in Listed("node") /\ obj[n].id = i
  BY <1>2 DEF HasNode
<1>4. n \in DOMAIN obj /\ n # 0
  BY <1>3, Sets, ListFacts, ObjFacts DEF Types
<1>5. obj'[n].id = i
  BY <1>3, <1>4 DEF Moves, ObjGrows
<1>6. CASE Calm
  BY <1>3, <1>5, <1>6 DEF Calm
<1>7. CASE Splits(t) \/ Ties(t)
  BY <1>3, <1>5, <1>7 DEF Splits, Ties, Listed
<1>8. CASE Frees(t)
  <2>1. PICK k \in Kinds, p \in DOMAIN obj :
            /\ obj[p].kind = k /\ Gone(k, p)
            /\ k = "node" => job[t].kind = "node" /\ job[t].at = "delist" /\ p = job[t].ptr
    BY <1>8 DEF Frees
  <2>2. p # n
    BY <1>2, <1>3, <1>4, <2>1, FreedNode
  <2>3. ObjGrows
    BY DEF Moves
  <2>4. n \in Listed("node")'
    <3>1. Listed(k) \ {p} \subseteq Listed(k)' /\ \A l \in Kinds \ {k} : list'[l] = list[l]
      BY <2>1, <2>3, Unlisted DEF Gone
    <3>2. CASE k = "node"
      BY <1>3, <2>2, <3>1, <3>2
    <3>3. CASE k # "node"
      BY <1>3, <3>1, <3>3, Sets DEF Listed
    <3>4. QED
      BY <3>2, <3>3
  <2>5. QED
    BY <1>5, <2>4
<1>9. QED
  BY <1>6, <1>7, <1>8

\* An endpoint that is at home now was at home, unless t was on the way with it.
LEMMA HomeBefore ==
    ASSUME Types, NEW t \in Threads, Moves(t), MoreRaced, MoreExcuses, NEW id, AtHome(id)', ~OnItsWay(t, id)
    PROVE  AtHome(id)
<1>1. ASSUME NEW u \in Threads, OnItsWay(u, id) PROVE FALSE
  <2>1. u # t
    BY <1>1
  <2>2. job'[u] = job[u]
    BY <2>1 DEF Moves, OthersStay
  <2>3. Works(u, "ep", id)'
    BY <1>1, <2>1, OthersWork DEF OnItsWay
  <2>4. OnItsWay(u, id)'
    BY <1>1, <2>2, <2>3 DEF OnItsWay
  <2>5. QED
    BY <2>4 DEF AtHome
<1>2. QED
  BY <1>1 DEF AtHome, Raced, MoreRaced, MoreExcuses

\* Nothing happens to an endpoint that t does not work on.
LEMMA HomedAway ==
    ASSUME Types, Types', Homes, NEW t \in Threads, Moves(t), Minds(t), MoreRaced, MoreExcuses,
           Calm \/ Frees(t) \/ Splits(t) \/ Ties(t),
           NEW e \in Listed("ep")', NEW id, obj'[e].id = id,
           ~Works(t, "ep", id), Calm \/ ~Works(t, "ep", id)', AtHome(id)'
    PROVE  HasNode(e)'
<1>0. "ep" \in Kinds /\ e \in DOMAIN obj' /\ obj'[e].kind = "ep" /\ id \in Ids("ep")
  BY Sets DEF Types, ListsOK, ObjOK
<1>1. e \in Holders("ep", id)'
  BY <1>0 DEF Holders
<1>2. e \in Holders("ep", id) /\ obj'[e].info = obj[e].info
  BY <1>0, <1>1, HoldersStay
<1>3. e \in Listed("ep") /\ obj[e].id = id /\ e \in DOMAIN obj /\ obj[e].kind = "ep"
  BY <1>0, <1>2, ListFacts DEF Holders
<1>4. ~OnItsWay(t, id)
  BY DEF OnItsWay
<1>5. AtHome(id)
  BY <1>4, HomeBefore
<1>6. HasNode(e) /\ Counted(e) /\ Ready(t)
  BY <1>3, <1>5 DEF Homes, Homed
<1>7. obj'[e].node = obj[e].node
  <2>1. CASE Calm
    BY <1>3, <2>1 DEF Calm
  <2>2. CASE Frees(t)
    BY <1>3, <2>2 DEF Frees, Gone
  <2>3. CASE Splits(t) /\ ~Calm
    <3>1. PICK f, n \in DOMAIN obj :
              /\ obj[n].kind = "node" /\ Split(f, n)
              /\ Works(t, "ep", obj[f].id) \/ Works(t, "ep", obj[f].id)'
      BY <2>3 DEF Splits
    <3>2. f # e /\ n # e
      <4>1. obj'[f].id = obj[f].id
        BY <3>1 DEF Moves, ObjGrows
      <4>2. QED
        BY <1>3, <2>3, <3>1, <4>1
    <3>3. QED
      BY <1>3, <3>1, <3>2 DEF Split, Rebound
  <2>4. CASE Ties(t)
    <3>1. job[t].at # "idle" /\ Works(t, "ep", job[t].id)
      BY <2>4, OwnWork DEF Ties
    <3>2. job[t].ptr # e /\ job[t].node # e
      BY <1>3, <2>4, <3>1 DEF Ties, Is
    <3>3. QED
      BY <1>3, <2>4, <3>2 DEF Ties, Tied, Rebound
  <2>5. QED
    BY <2>1, <2>2, <2>3, <2>4
<1>8. QED
  BY <1>2, <1>3, <1>6, <1>7, NodeStays

\* Where the memory stays as it is an endpoint stays at home.
LEMMA HomedStill ==
    ASSUME Types, Homes, NEW t \in Threads, Moves(t), MoreRaced, MoreExcuses, UNCHANGED memory,
           NEW e \in Listed("ep")', NEW id, obj'[e].id = id, AtHome(id)', ~OnItsWay(t, id)
    PROVE  HasNode(e)'
<1>1. e \in Listed("ep") /\ obj[e].id = id
  BY DEF memory, Listed
<1>2. AtHome(id)
  BY HomeBefore
<1>3. HasNode(e)
  BY <1>1, <1>2 DEF Homes, Homed
<1>4. QED
  BY <1>3 DEF HasNode, memory, Listed, Raced, MoreRaced

\* On its way it stays with t.
LEMMA StillOnItsWay ==
    ASSUME Types, Types', NEW t \in Threads, Moves(t), job[t].at # "idle", SameJob(t), NEW id,
           Key(job[t]) = <<"ep", id>> \/ (job[t].ep # 0 /\ job'[t].ep = job[t].ep /\ obj[job[t].ep].id = id),
           job'[t].at \in {"append", "add", "seek", "link", "dropEP", "delistEP"}
    PROVE  OnItsWay(t, id)'
<1>1. CASE Key(job[t]) = <<"ep", id>>
  BY <1>1, StaysAtWork DEF OnItsWay
<1>2. CASE job[t].ep # 0 /\ job'[t].ep = job[t].ep /\ obj[job[t].ep].id = id
  <2>1. job[t].ep \in DOMAIN obj
    BY <1>2, EPInHand
  <2>2. obj'[job'[t].ep].id = id
    BY <1>2, <2>1 DEF Moves, ObjGrows
  <2>3. QED
    BY <1>2, <2>2 DEF OnItsWay, Works, Holds
<1>3. QED
  BY <1>1, <1>2

\* The endpoint that is destroyed is not listed any more.
LEMMA KilledHome ==
    ASSUME Types, Types', Lists, NEW t \in Threads, Moves(t), MoreRaced,
           job[t].at # "idle", job[t].kind \in Linked, Hand(job[t]), KillDeed(t),
           NEW id \in Endpoints, obj[job[t].ep].id = id, AtHome(id)', NEW e \in Listed("ep")', obj'[e].id = id
    PROVE  FALSE
<1>0. ~Raced("ep", id) /\ "ep" \in Kinds /\ ObjGrows
  BY Sets DEF AtHome, Raced, MoreRaced, Moves
<1>1. job[t].at \in {"dropEP", "delistEP"}
  BY DEF KillDeed
<1>2. job[t].ep # 0 /\ job[t].ep \in DOMAIN obj
  BY <1>1, Destroying
<1>3. CASE job[t].at = "dropEP"
  <2>1. SameJob(t) /\ job'[t].ep = job[t].ep /\ job'[t].at = "delistEP"
    BY <1>3 DEF KillDeed, GoesTo, SameHands
  <2>2. OnItsWay(t, id)'
    BY <1>2, <2>1, StillOnItsWay
  <2>3. QED
    BY <2>2 DEF AtHome
<1>4. CASE job[t].at = "delistEP"
  <2>1. list' = [list EXCEPT !["ep"] = Without(@, job[t].ep)]
    BY <1>4 DEF KillDeed, Gone
  <2>2. list'["ep"] = Without(list["ep"], job[t].ep)
    BY <1>0, <2>1, ListFacts
  <2>3. job[t].ep \in Holders("ep", id)
    BY <1>0, <1>2, TheVictim
  <2>4. ~Twice("ep", id)
    BY <1>0, Sets DEF Lists, Once, Linked
  <2>5. Holders("ep", id)' = {}
    BY <1>0, <2>2, <2>3, <2>4, HeldGone
  <2>6. e \in Holders("ep", id)'
    BY DEF Holders
  <2>7. QED
    BY <2>5, <2>6
<1>5. QED
  BY <1>1, <1>3, <1>4

\* The endpoint that t is linking or setting is the one that is listed.
LEMMA TheOne ==
    ASSUME Types, Lists, NEW t \in Threads, job[t].at # "idle", job[t].kind = "ep", Hand(job[t]),
           NEW id \in Endpoints, job[t].id = id, Grasp(job[t]), ~Raced("ep", id),
           NEW e \in Listed("ep"), obj[e].id = id
    PROVE  e = job[t].ptr /\ Is(e, "ep", id)
<1>1. job[t].ptr \in Holders("ep", id) /\ Is(job[t].ptr, "ep", id)
  BY TheHolder, Sets DEF Key, Loose
<1>2. ~Twice("ep", id)
  BY Sets DEF Lists, Once, Linked
<1>3. Holders("ep", id) = {job[t].ptr}
  BY <1>1, <1>2, OnlyHolder, Sets
<1>4. e \in Holders("ep", id)
  BY DEF Holders
<1>5. QED
  BY <1>1, <1>3, <1>4

LEMMA EPHome ==
    ASSUME Types, Types', Lists, Homes, NEW t \in Threads, Moves(t), MoreRaced, MoreExcuses,
           Calm \/ Frees(t) \/ Splits(t) \/ Ties(t),
           job[t].at # "idle", job[t].kind = "ep", Hand(job[t]), job[t] \in Jobs, EPDeed(t),
           NEW id \in Endpoints, job[t].id = id, AtHome(id)', NEW e \in Listed("ep")', obj'[e].id = id
    PROVE  HasNode(e)'
<1> DEFINE j == job[t]
<1>0. ~Raced("ep", id) /\ "ep" \in Kinds /\ ObjGrows /\ EPHand(j) /\ Key(j) = <<"ep", id>>
      /\ ~Raced("ep", id)' /\ id \notin history'.orphaned \cup history'.moved
  BY Sets DEF AtHome, Raced, MoreRaced, Moves, Hand, Key
<1>1. ASSUME SameJob(t), job'[t].at \in {"append", "add", "seek", "link", "dropEP", "delistEP"} PROVE FALSE
  <2>1. OnItsWay(t, id)'
    BY <1>0, <1>1, StillOnItsWay
  <2>2. QED
    BY <2>1 DEF AtHome
<1>2. ASSUME j.at \in {"look", "unlink", "save"}, UNCHANGED memory PROVE HasNode(e)'
  <2>1. ~OnItsWay(t, id)
    BY <1>2 DEF OnItsWay
  <2>2. QED
    BY <1>2, <2>1, HomedStill
<1>3. CASE j.at = "look"
  <2>1. ASSUME NEW p, GoesWith(t, p, "append") PROVE FALSE
    BY <1>1, <2>1 DEF GoesWith
  <2>2. QED
    BY <1>2, <1>3, <2>1 DEF EPDeed, memory
<1>4. CASE j.at \in {"append", "add"}
  BY <1>1, <1>4 DEF EPDeed, GoesTo
<1>5. CASE j.at = "seek"
  BY <1>0, <1>1, <1>5 DEF EPDeed
<1>6. CASE j.at = "unlink"
  BY <1>1, <1>2, <1>6 DEF EPDeed, GoesTo, memory
<1>7. CASE j.at = "unhook"
  BY <1>1, <1>7 DEF EPDeed, GoesTo
<1>8. CASE j.at = "save"
  BY <1>2, <1>8 DEF EPDeed, Answered
<1>9. CASE j.at = "link"
  <2>1. Tied(j.ptr, j.node) /\ UNCHANGED list
    BY <1>0, <1>1, <1>9 DEF EPDeed, GoesTo
  <2>2. Is(j.ptr, "ep", id) /\ Is(j.node, "node", j.info)
    BY <1>0, <1>9 DEF EPHand
  <2>3. e \in Listed("ep") /\ e \in DOMAIN obj /\ obj[e].id = id
    <3>1. e \in Listed("ep")
      BY <2>1 DEF Listed
    <3>2. e \in DOMAIN obj
      BY <1>0, <3>1, ListFacts
    <3>3. QED
      BY <1>0, <3>1, <3>2 DEF ObjGrows
  <2>4. e = j.ptr
    BY <1>0, <1>9, <2>3, TheOne DEF Grasp
  <2>5. obj[e].info = j.info
    BY <1>0, <1>9, <2>4 DEF Homes, Ready
  <2>6. obj'[e].node = j.node /\ obj'[e].info = j.info
    BY <2>1, <2>4, <2>5 DEF Tied, Rebound
  <2>7. ~Raced("node", j.info) => j.node \in Listed("node")
    BY <1>9 DEF Homes, Ready, Expects
  <2>8. obj'[j.node].id = j.info
    BY <1>0, <2>2 DEF Is, ObjGrows
  <2>9. QED
    BY <2>1, <2>6, <2>7, <2>8 DEF HasNode, Listed, Raced, MoreRaced
<1>10. CASE j.at = "write"
  <2>1. Told(j.ptr, j.info) /\ UNCHANGED list /\ obj[j.ptr].info = j.info
    BY <1>0, <1>10 DEF EPDeed
  <2>2. e \in Listed("ep") /\ e \in DOMAIN obj /\ obj[e].id = id
    <3>1. e \in Listed("ep")
      BY <2>1 DEF Listed
    <3>2. e \in DOMAIN obj
      BY <1>0, <3>1, ListFacts
    <3>3. QED
      BY <1>0, <3>1, <3>2 DEF ObjGrows
  <2>3. e = j.ptr
    BY <1>0, <1>10, <2>2, TheOne DEF Grasp
  <2>4. obj'[e].node = obj[e].node /\ obj'[e].info = obj[e].info
    BY <2>1, <2>3 DEF Told
  <2>5. ~OnItsWay(t, id)
    BY <1>10 DEF OnItsWay
  <2>6. HasNode(e) /\ Counted(e) /\ Ready(t)
    BY <2>2, <2>5, HomeBefore DEF Homes, Homed
  <2>7. QED
    BY <2>2, <2>4, <2>6, NodeStays
<1>11. j.at \notin {"dropEP", "delistEP"}
  BY DEF EPDeed
<1>12. QED
  BY <1>0, <1>3, <1>4, <1>5, <1>6, <1>7, <1>8, <1>9, <1>10, <1>11 DEF EPHand

\* An endpoint that t works on.
LEMMA HomedWorked ==
    ASSUME Types, Types', Lists, Homes, NEW t \in Threads, Moves(t), MoreRaced, MoreExcuses,
           Calm \/ Frees(t) \/ Splits(t) \/ Ties(t), Deed(t) \/ UNCHANGED <<memory, row, job>>,
           NEW e \in Listed("ep")', NEW id \in Endpoints, obj'[e].id = id, AtHome(id)', Works(t, "ep", id)
    PROVE  HasNode(e)'
<1> DEFINE j == job[t]
<1>0. j.at # "idle" /\ (Key(j) = <<"ep", id>> \/ (j.ep # 0 /\ obj[j.ep].id = id))
  BY DEF Works, Holds
<1>1. CASE UNCHANGED <<memory, row, job>>
  <2>1. SUFFICES ASSUME OnItsWay(t, id) PROVE FALSE
    BY <1>1, HomedStill
  <2>2. OnItsWay(t, id)'
    <3>1. SameJob(t) /\ job'[t] = job[t]
      BY <1>1 DEF SameJob
    <3>2. QED
      BY <1>0, <2>1, <3>1, StillOnItsWay DEF OnItsWay
  <2>3. QED
    BY <2>2 DEF AtHome
<1>2. ASSUME Hand(j), j.kind \in Linked, KillDeed(t) PROVE HasNode(e)'
  <2>1. j.at \in {"dropEP", "delistEP"}
    BY <1>2 DEF KillDeed
  <2>2. obj[j.ep].id = id
    BY <1>0, <2>1, Destroying DEF Is, Key
  <2>3. QED
    BY <1>0, <1>2, <2>2, KilledHome
<1>3. ASSUME Hand(j), j \in Jobs, j.kind = "ep", EPDeed(t) PROVE HasNode(e)'
  <2>1. j.id = id
    <3>1. CASE Key(j) = <<"ep", id>>
      BY <3>1 DEF Key
    <3>2. CASE j.ep # 0 /\ obj[j.ep].id = id
      BY <1>3, <3>2 DEF Hand, EPHand, Is
    <3>3. QED
      BY <1>0, <3>1, <3>2
  <2>2. QED
    BY <1>0, <1>3, <2>1, EPHome
<1>4. ASSUME Hand(j), j.kind = "node", NodeDeed(t) PROVE FALSE
  <2>1. j.at \notin {"dropEP", "delistEP"}
    BY <1>4 DEF NodeDeed
  <2>2. j.ep = 0
    BY <1>4, <2>1 DEF Hand, NodeHand
  <2>3. QED
    BY <1>0, <1>4, <2>2 DEF Key
<1>5. ASSUME Hand(j), j.kind \in Plain PROVE FALSE
  BY <1>0, <1>5 DEF Hand, PlainHand, Plain, Key
<1>6. ASSUME FailDeed(t) PROVE HasNode(e)'
  <2>1. ~OnItsWay(t, id) /\ UNCHANGED memory
    BY <1>0, <1>6 DEF FailDeed, OnItsWay, Key
  <2>2. QED
    BY <2>1, HomedStill
<1>7. QED
  BY <1>1, <1>2, <1>3, <1>4, <1>5, <1>6 DEF Deed

LEMMA HomedKept ==
    ASSUME Types, Types', Lists, Homes, NEW t \in Threads, Does(t), MoreExcuses,
           NEW e \in Listed("ep")'
    PROVE  Homed(e)'
<1> DEFINE id == obj'[e].id
<1>0. Minds(t) /\ Moves(t) /\ MoreRaced
  BY DoesMinds
<1>1. Calm \/ Frees(t) \/ Splits(t) \/ Ties(t)
  BY DoesEffects
<1>2. id \in Endpoints
  BY Sets DEF Types, ListsOK, ObjOK
<1>3. SUFFICES ASSUME NEW i, i = id, AtHome(i)' PROVE HasNode(e)'
  BY DEF Homed
<1>4. CASE Step(t)
  <2>1. Deed(t) \/ UNCHANGED <<memory, row, job>>
    BY <1>4, StepDeeds
  <2>2. CASE Works(t, "ep", i)
    BY <1>0, <1>1, <1>2, <1>3, <2>1, <2>2, HomedWorked
  <2>3. CASE ~Works(t, "ep", i) /\ ~Works(t, "ep", i)'
    BY <1>0, <1>1, <1>3, <2>3, HomedAway
  <2>4. CASE ~Works(t, "ep", i) /\ Works(t, "ep", i)'
    <3>1. job'[t].at = "dropEP"
      BY <1>0, <2>1, <2>4, StepTakes
    <3>2. OnItsWay(t, i)'
      BY <2>4, <3>1 DEF OnItsWay
    <3>3. QED
      BY <1>3, <3>2 DEF AtHome
  <2>5. QED
    BY <2>2, <2>3, <2>4
<1>5. CASE (\E j : t \in Consoles /\ Begins(t, j)) \/ (\E j : t = Main /\ MainBegins(j))
  <2>1. job[t].at = "idle"
    BY <1>5 DEF Begins, Begin, MainBegins, Take
  <2>2. ~Works(t, "ep", i)
    BY <2>1 DEF Works
  <2>3. Calm
    <3>1. ASSUME NEW j, Begins(t, j) PROVE Calm
      BY <3>1, RunCalm DEF Begins
    <3>2. ASSUME NEW j, MainBegins(j) PROVE Calm
      BY <3>2, MemoryCalm DEF MainBegins, MainStep
    <3>3. QED
      BY <1>5, <3>1, <3>2
  <2>4. QED
    BY <1>0, <1>3, <2>2, <2>3, HomedAway
<1>6. QED
  BY <1>4, <1>5 DEF Does

LEMMA DoesHomes ==
    ASSUME Types, Types', Alone, Lists, Homes, NEW t \in Threads, Does(t), MoreExcuses
    PROVE  Homes'
<1>1. Moves(t) /\ MoreRaced
  BY DoesMinds
<1>2. Calm \/ Frees(t) \/ Splits(t) \/ Ties(t)
  BY DoesEffects
<1>3. ASSUME NEW u \in Threads PROVE Ready(u)'
  BY <1>3, ReadyKept DEF Homes
<1>4. ASSUME NEW e \in DOMAIN obj' PROVE Counted(e)'
  BY <1>1, <1>2, <1>4, CountedKept DEF Homes
<1>5. ASSUME NEW e \in Listed("ep")' PROVE Homed(e)'
  BY <1>5, HomedKept
<1>6. QED
  BY <1>3, <1>4, <1>5 DEF Homes

LEMMA SameHomes ==
    ASSUME Homes, UNCHANGED <<memory, job>>, history.raced \subseteq history'.raced, MoreExcuses
    PROVE  Homes'
<1>1. UNCHANGED <<obj, list, job>>
  BY DEF memory
<1>2. \A k, id : Raced(k, id) => Raced(k, id)'
  BY DEF Raced
<1>3. \A t \in Threads : Ready(t)'
  BY <1>1, <1>2 DEF Homes, Ready, Expects, Listed
<1>4. \A e \in DOMAIN obj' : Counted(e)'
  BY <1>1, <1>2 DEF Homes, Counted
<1>5. \A e : HasNode(e) => HasNode(e)'
  BY <1>1, <1>2 DEF HasNode, Listed
<1>6. \A t, id : OnItsWay(t, id) => OnItsWay(t, id)'
  BY <1>1 DEF OnItsWay, Works, Holds, Key
<1>7. \A id : AtHome(id)' => AtHome(id)
  BY <1>2, <1>6 DEF AtHome, MoreExcuses
<1>8. \A e \in Listed("ep")' : Homed(e)'
  BY <1>1, <1>5, <1>7 DEF Homes, Homed, Listed
<1>9. QED
  BY <1>3, <1>4, <1>8 DEF Homes

LEMMA StartedHomes == JustStarted => Homes
<1>1. SUFFICES ASSUME JustStarted PROVE Homes
  OBVIOUS
<1>2. DOMAIN obj = {}
  BY <1>1 DEF JustStarted
<1>3. Listed("ep") = {}
  BY <1>1, Sets DEF JustStarted, Listed, ToSet
<1>4. \A t \in Threads : job[t] = Idle
  BY <1>1 DEF JustStarted
<1>5. \A t \in Threads : Ready(t)
  BY <1>4, IdleFields DEF Ready, Expects
<1>6. QED
  BY <1>2, <1>3, <1>5 DEF Homes

\* Every listed endpoint is where its node is: the node that it was linked to is the one
\* its information names, is listed, and has it in its list.
THEOREM HomesCorrect == Spec => []Homes
<1>1. Init => Homes
  BY InitStarts, StartedHomes
<1>2. Types /\ Types' /\ Alone /\ Lists /\ Homes /\ [Next]_vars => Homes'
  <2>1. SUFFICES ASSUME Types, Types', Alone, Lists, Homes, [Next]_vars PROVE Homes'
    OBVIOUS
  <2>2. CASE UNCHANGED vars
    <3>1. MoreExcuses /\ UNCHANGED <<memory, job, history>>
      BY <2>2 DEF vars, MoreExcuses
    <3>2. QED
      BY <2>1, <3>1, SameHomes
  <2>3. CASE Next
    <3>1. JustStarted' => Homes'
      BY StartedHomes, PTL
    <3>2. ASSUME MoreExcuses, NEW t \in Threads, Does(t) PROVE Homes'
      BY <2>1, <3>2, DoesHomes
    <3>3. ASSUME MoreExcuses, MainRests PROVE Homes'
      BY <2>1, <3>3, SameHomes DEF MainRests, MainStep
    <3>4. QED
      BY <2>1, <2>3, <3>1, <3>2, <3>3, NextExcuses, Doings
  <2>4. QED
    BY <2>1, <2>2, <2>3
<1>3. QED
  BY <1>1, <1>2, TypeCorrect, LinksCorrect, ListsCorrect, PTL DEF Spec

\* A listed endpoint can be destroyed: where its node is listed it is linked to it.
THEOREM HasItsNodeHolds == Spec => []HasItsNode
<1>1. Types /\ Lists /\ Homes => HasItsNode
  <2>1. SUFFICES ASSUME Types, Lists, Homes, NEW e \in Listed("ep"),
                        ~Busy("ep", obj[e].id), ~Excused("ep", obj[e].id),
                        ~Raced("node", obj[e].info), obj[e].id \notin history.orphaned \cup history.moved,
                        NEW n \in Holders("node", obj[e].info)
                 PROVE  obj[e].node = n
    BY DEF HasItsNode, Raced
  <2>2. AtHome(obj[e].id)
    <3>1. \A t \in Threads : ~Works(t, "ep", obj[e].id)
      BY <2>1, BusyWorks
    <3>2. QED
      BY <2>1, <3>1 DEF AtHome, OnItsWay, Excused, Raced
  <2>3. obj[e].node \in Listed("node") /\ obj[obj[e].node].id = obj[e].info
    BY <2>1, <2>2 DEF Homes, Homed, HasNode
  <2>4. obj[e].info \in Ids("node") /\ "node" \in Kinds
    <3>1. "node" \in Kinds
      BY Sets
    <3>2. obj[e].node \in DOMAIN obj /\ obj[obj[e].node].kind = "node"
      BY <2>1, <2>3, <3>1 DEF Types, ListsOK
    <3>3. ObjOK(obj[e].node)
      BY <2>1, <3>2 DEF Types
    <3>4. QED
      BY <2>3, <3>1, <3>2, <3>3 DEF ObjOK
  <2>5. ~Twice("node", obj[e].info)
    BY <2>1, <2>4, Sets DEF Lists, Once, Linked
  <2>6. obj[e].node \in Holders("node", obj[e].info)
    BY <2>3 DEF Holders
  <2>7. QED
    BY <2>1, <2>4, <2>5, <2>6, OnlyHolder
<1>2. QED
  BY <1>1, TypeCorrect, ListsCorrect, HomesCorrect, PTL

-------------------------------------------------------------------------------
(* Which nodes the main thread has not started.                               *)

LEMMA RunTold ==
    ASSUME Types, NEW e, NEW x, obj' = [obj EXCEPT ![e].info = x]
    PROVE  SameRun
<1>1. SUFFICES ASSUME NEW p \in DOMAIN obj PROVE obj'[p].run = obj[p].run
  BY DEF SameRun
<1>2. obj[p] \in Objects
  BY ObjFacts DEF Types
<1>3. obj'[p] = obj[p] \/ obj'[p] = [obj[p] EXCEPT !.info = x]
  OBVIOUS
<1>4. QED
  BY <1>2, <1>3 DEF Objects

LEMMA RunLinked ==
    ASSUME Types, NEW e, NEW n, \E x, y : obj' = [obj EXCEPT ![e].node = x, ![n].eps = y]
    PROVE  SameRun
<1> PICK x, y : obj' = [obj EXCEPT ![e].node = x, ![n].eps = y]
  OBVIOUS
<1>1. SUFFICES ASSUME NEW p \in DOMAIN obj PROVE obj'[p].run = obj[p].run
  BY DEF SameRun
<1>2. obj[p] \in Objects
  BY ObjFacts DEF Types
<1> DEFINE o == [obj EXCEPT ![e].node = x]
<1>3. DOMAIN o = DOMAIN obj /\ (o[p] = obj[p] \/ o[p] = [obj[p] EXCEPT !.node = x])
  OBVIOUS
<1>4. o[p].run = obj[p].run /\ [o[p] EXCEPT !.eps = y].run = obj[p].run
  BY <1>2, <1>3 DEF Objects
<1>5. obj' = [o EXCEPT ![n].eps = y]
  OBVIOUS
<1>6. obj'[p] = o[p] \/ obj'[p] = [o[p] EXCEPT !.eps = y]
  BY <1>3, <1>5
<1>7. QED
  BY <1>4, <1>6

LEMMA RunUnlinked == ASSUME Types, NEW e, NEW n, obj' = Unlinked(e, n) PROVE SameRun
<1>1. \E x, y : obj' = [obj EXCEPT ![e].node = x, ![n].eps = y]
  BY DEF Unlinked
<1>2. QED
  BY <1>1, RunLinked

LEMMA RunMade ==
    ASSUME Types, NEW t \in Threads, job[t].at # "idle", obj' = Append(obj, Fresh(job[t]))
    PROVE  SameRun
  BY MadeFrom DEF SameRun

LEMMA CallCounts ==
    ASSUME Types, NEW k, NEW id, NEW content, NEW applies, Call(k, id, content, applies), DBStep
    PROVE  SameRun /\ SameCount
<1>1. history \in Histories /\ UNCHANGED obj
  BY DEF Types, TypeOK, DBStep, memory
<1>2. history' = history \/ history' = [history EXCEPT !.failed = @ \cup {<<k, id>>}]
  BY DEF Call
<1>3. QED
  BY <1>1, <1>2 DEF SameRun, SameCount, Histories

LEMMA RacingCounts ==
    ASSUME Types, NEW t, NEW j, history' = Racing(t, j, history)
    PROVE  SameCount
  BY DEF SameCount, Racing, Types, TypeOK, Histories

LEMMA NodeRuns ==
    ASSUME Types, NEW t \in Threads, NodeStep(t)
    PROVE  Otherwise(t) \/ StartsNode(t) \/ Removing(t)
<1>0. history \in Histories
  BY DEF Types, TypeOK
<1>1. CASE AddNode(t) \/ DropNode(t) \/ SaveNode(t)
  BY <1>1, CallCounts DEF AddNode, DropNode, SaveNode, At, Otherwise
<1>2. CASE EmptyNode(t) \/ PurgeNode(t)
  <2>1. job[t].at \in {"empty", "purge"}
    BY <1>2 DEF EmptyNode, PurgeNode, At
  <2>2. SameCount
    <3>1. history' = history \/ \E j : history' = Racing(t, j, history)
      BY <1>2 DEF EmptyNode, PurgeNode
    <3>2. QED
      BY <3>1, RacingCounts DEF SameCount
  <2>3. UNCHANGED obj \/ \E e, n : obj' = Unlinked(e, n)
    BY <1>2 DEF EmptyNode, PurgeNode
  <2>4. SameRun
    BY <2>3, RunUnlinked DEF SameRun
  <2>5. QED
    BY <2>1, <2>2, <2>4 DEF Otherwise
<1>3. CASE LookNode(t)
  BY <1>3, RunMade DEF LookNode, At, Make, Otherwise, SameRun, SameCount
<1>4. CASE AppendNode(t)
  BY <1>4 DEF AppendNode, At, Otherwise, SameRun, SameCount
<1>5. CASE WriteNode(t)
  BY <1>5, RunTold DEF WriteNode, At, Otherwise, SameCount, SameRun
<1>6. CASE DelistNode(t)
  <2>1. /\ job[t].kind = "node" /\ job[t].at = "delist" /\ Unlist("node", job[t].ptr) /\ End(t)
        /\ history' = [history EXCEPT !.removals = @ + (IF state = "SYNCHRONIZED" THEN 1 ELSE 0)]
    BY <1>6 DEF DelistNode, At
  <2>2. job[t].ptr \in DOMAIN obj
    BY <2>1, HandOf DEF Hand, NodeHand, Is
  <2>3. QED
    BY <1>0, <2>1, <2>2, GoneBy, EndDeed DEF Removing, Histories
<1>7. CASE StartNode(t)
  <2> DEFINE j == job[t]
  <2>1. j.kind = "node" /\ j.at = "start" /\ UNCHANGED list
    BY <1>7 DEF StartNode, At
  <2>2. j.ptr \in DOMAIN obj /\ j \in Jobs
    BY <2>1, HandOf DEF Hand, NodeHand, Is
  <2>3. SameCount
    BY <1>0, <1>7 DEF StartNode, SameCount, Histories
  <2>4. CASE UNCHANGED obj /\ history' = [history EXCEPT !.failed = @ \cup {Key(j)}]
    BY <1>0, <2>1, <2>3, <2>4 DEF StartsNode, Histories
  <2>5. CASE \E b \in BOOLEAN : /\ obj' = [obj EXCEPT ![j.ptr].run = b]
                                /\ b \/ (j.new /\ Goto(t, "drop"))
    <3>1. PICK b \in BOOLEAN : obj' = [obj EXCEPT ![j.ptr].run = b] /\ (b \/ (j.new /\ Goto(t, "drop")))
      BY <2>5
    <3>2. /\ \A q \in DOMAIN obj \ {j.ptr} : obj'[q] = obj[q]
          /\ obj'[j.ptr] = [obj[j.ptr] EXCEPT !.run = b] /\ obj[j.ptr] \in Objects
      BY <2>2, <3>1, Switched, ObjFacts DEF Types
    <3>3. obj'[j.ptr].run = b
      BY <3>2 DEF Objects
    <3>4. Goto(t, "drop") => GoesTo(t, "drop")
      BY WentDeed DEF Places
    <3>5. QED
      BY <2>1, <2>3, <3>1, <3>2, <3>3, <3>4 DEF StartsNode
  <2>6. j.new \in BOOLEAN
    BY <2>2 DEF Jobs
  <2>7. QED
    BY <1>7, <2>4, <2>5, <2>6 DEF StartNode
<1>8. QED
  BY <1>1, <1>2, <1>3, <1>4, <1>5, <1>6, <1>7 DEF NodeStep

LEMMA EPRuns == ASSUME Types, NEW t \in Threads, EPStep(t) PROVE Otherwise(t)
<1>0. history \in Histories
  BY DEF Types, TypeOK
<1>1. CASE AddEP(t) \/ DropEP(t) \/ SaveEP(t)
  BY <1>1, CallCounts DEF AddEP, DropEP, SaveEP, At, Otherwise
<1>2. CASE LookEP(t)
  BY <1>2, RunMade DEF LookEP, At, Make, Otherwise, SameRun, SameCount
<1>3. CASE AppendEP(t) \/ SeekNode(t)
  BY <1>0, <1>3 DEF AppendEP, SeekNode, Orphan, At, Otherwise, SameRun, SameCount, memory, Histories
<1>4. CASE LinkEP(t)
  <2>1. SameCount
    BY <1>0, <1>4 DEF LinkEP, Orphan, SameCount, Histories
  <2>2. UNCHANGED obj \/ \E e, n : obj' = [obj EXCEPT ![e].node = n, ![n].eps = Append(obj[n].eps, e)]
    BY <1>4 DEF LinkEP
  <2>3. SameRun
    <3>1. ASSUME NEW e, NEW n, obj' = [obj EXCEPT ![e].node = n, ![n].eps = Append(obj[n].eps, e)] PROVE SameRun
      BY <3>1, RunLinked
    <3>2. QED
      BY <2>2, <3>1 DEF SameRun
  <2>4. QED
    BY <1>4, <2>1, <2>3 DEF LinkEP, At, Otherwise
<1>5. CASE UnlinkEP(t) \/ UnhookEP(t)
  <2>1. SameCount
    BY <1>5 DEF UnlinkEP, UnhookEP, SameCount
  <2>2. UNCHANGED obj \/ \E e, n : obj' = Unlinked(e, n)
    BY <1>5 DEF UnlinkEP, UnhookEP
  <2>3. SameRun
    BY <2>2, RunUnlinked DEF SameRun
  <2>4. QED
    BY <1>5, <2>1, <2>3 DEF UnlinkEP, UnhookEP, At, Otherwise
<1>6. CASE DelistEP(t)
  <2>1. job[t].at = "delistEP" /\ job[t].kind \in {"node", "ep"} /\ Unlist("ep", job[t].ep) /\ SameCount
    BY <1>6 DEF DelistEP, At, SameCount
  <2>2. job[t].ep \in DOMAIN obj /\ obj[job[t].ep].kind = "ep"
    BY <2>1, HandOf DEF Hand, NodeHand, EPHand, Is
  <2>3. \A q \in DOMAIN obj \ {job[t].ep} : obj'[q] = obj[q]
    BY <2>1, <2>2, Freed DEF Unlist
  <2>4. QED
    BY <2>1, <2>2, <2>3 DEF Otherwise, SameRun
<1>7. CASE WriteEP(t)
  <2>1. SameCount
    BY <1>0, <1>7 DEF WriteEP, SameCount, Histories
  <2>2. SameRun
    BY <1>7, RunTold DEF WriteEP
  <2>3. QED
    BY <1>7, <2>1, <2>2 DEF WriteEP, At, Otherwise
<1>8. QED
  BY <1>1, <1>2, <1>3, <1>4, <1>5, <1>6, <1>7 DEF EPStep

LEMMA PlainRuns == ASSUME Types, NEW t \in Threads, NEW k \in Plain, PlainStep(t, k) PROVE Otherwise(t)
<1>0. job[t].kind = k /\ k # "node" /\ job[t].at # "idle"
  BY DEF PlainStep, AppendPlain, AddPlain, DropPlain, DelistPlain, SavePlain, WritePlain, At, Plain
<1>1. CASE AddPlain(t, k) \/ DropPlain(t, k) \/ SavePlain(t, k)
  BY <1>0, <1>1, CallCounts DEF AddPlain, DropPlain, SavePlain, Otherwise
<1>2. CASE AppendPlain(t, k)
  BY <1>0, <1>2, RunMade DEF AppendPlain, Otherwise, SameCount
<1>3. CASE WritePlain(t, k)
  BY <1>0, <1>3, RunTold DEF WritePlain, Otherwise, SameCount
<1>4. CASE DelistPlain(t, k)
  <2>1. job[t].at = "delist" /\ Unlist(k, job[t].ptr) /\ SameCount
    BY <1>4 DEF DelistPlain, At, SameCount
  <2>2. Is(job[t].ptr, k, job[t].id)
    BY <1>0, <2>1, HandOf DEF Hand, PlainHand
  <2>3. \A q \in DOMAIN obj \ {job[t].ptr} : obj'[q] = obj[q]
    BY <2>1, <2>2, Freed DEF Unlist, Is
  <2>4. QED
    BY <1>0, <2>1, <2>2, <2>3 DEF Otherwise, SameRun, Is
<1>5. QED
  BY <1>1, <1>2, <1>3, <1>4 DEF PlainStep

LEMMA StepRuns ==
    ASSUME Types, NEW t \in Threads, Step(t)
    PROVE  Otherwise(t) \/ StartsNode(t) \/ Removing(t) \/ UNCHANGED <<memory, job, history>>
<1>1. CASE CreationFails(t)
  BY <1>1 DEF CreationFails, At, Otherwise, SameRun, SameCount, memory, Types, TypeOK, Histories
<1>2. QED
  BY <1>1, NodeRuns, EPRuns, PlainRuns, PlainSteps DEF Step, UseFreed

\* A request stops a node and notes it, and removes none.
RequestStops ==
    /\ \A p \in DOMAIN obj : obj'[p].run = obj[p].run \/ obj[p].id \in history'.stopped
    /\ history.stopped \subseteq history'.stopped /\ history'.removals = history.removals

LEMMA TakenStops ==
    ASSUME Types, NEW c, NEW j, NEW h, h.stopped = history.stopped, h.removals = history.removals,
           Begin(c, j, h), UNCHANGED obj
    PROVE  RequestStops
  BY DEF Begin, Take, Racing, RequestStops

LEMMA CreateStops ==
    ASSUME Types, NEW c, NEW j, Create(c, j), UNCHANGED obj
    PROVE  RequestStops
<1> DEFINE h == [history EXCEPT !.early = @ \cup IF state = "CONNECTED" THEN {Key(j)} ELSE {}]
<1>1. h.stopped = history.stopped /\ h.removals = history.removals
  BY DEF Types, TypeOK, Histories
<1>2. Begin(c, j, h)
  BY DEF Create
<1> HIDE DEF h
<1>3. QED
  BY <1>1, <1>2, TakenStops

LEMMA HaltStops ==
    ASSUME Types, NEW c, NEW j, NEW id, NEW p \in Get("node", id), Begin(c, j, Stopped(id)), obj' = Halted(p)
    PROVE  RequestStops
<1>1. p \in DOMAIN obj /\ obj[p].id = id
  BY Found DEF Is, Kinds
<1>2. \A q \in DOMAIN obj \ {p} : obj'[q] = obj[q]
  BY <1>1, Switched DEF Halted
<1>3. history'.stopped = history.stopped \cup {id} /\ history'.removals = history.removals
  BY DEF Begin, Take, Racing, Stopped, Types, TypeOK, Histories
<1>4. QED
  BY <1>1, <1>2, <1>3 DEF RequestStops

LEMMA RequestsStop == ASSUME Types, NEW c \in Consoles, Request(c) PROVE RequestStops
<1>0. /\ history.stopped = history.stopped /\ history.removals = history.removals
      /\ "node" \in Kinds
  BY Sets
<1>1. CASE NODE_create(c)
  <2>1. PICK id \in Nodes :
          LET j == [Idle EXCEPT !.id = id, !.info = New]
          IN  \/ UNCHANGED obj /\ Create(c, [j EXCEPT !.at = "look", !.new = TRUE])
              \/ \E p \in Get("node", id) :
                   Begin(c, [j EXCEPT !.at = "drop", !.ptr = p], Stopped(id)) /\ obj' = Halted(p)
    BY <1>1 DEF NODE_create, Halted
  <2>2. QED
    BY <2>1, CreateStops, HaltStops
<1>2. CASE NODE_destroy(c)
  <2>1. PICK id, p : id \in Nodes /\ p \in Get("node", id) /\ Begin(c, NodeJob("empty", id, p), Stopped(id))
    BY <1>2 DEF NODE_destroy, OnNode, NodeJob
  <2>2. job'[c] = NodeJob("empty", id, p)
    BY <2>1, Took, NodeJobTypes DEF Begin, Take, Threads, Types
  <2>3. NodeJob("empty", id, p).ptr = p
    BY IdleFields DEF NodeJob, Jobs
  <2>4. obj' = Halted(p)
    BY <1>2, <2>2, <2>3 DEF NODE_destroy
  <2>5. QED
    BY <2>1, <2>4, HaltStops
<1>3. CASE NODE_run(c) \/ NODE_set(c)
  <2>1. UNCHANGED obj /\ \E j : Begin(c, j, history)
    BY <1>3 DEF NODE_run, NODE_set, OnNode, Unmarked
  <2>2. QED
    BY <1>0, <2>1, TakenStops
<1>4. CASE NODE_stop(c)
  BY <1>4, HaltStops DEF NODE_stop
<1>5. CASE EP_create(c)
  <2>1. UNCHANGED obj /\ \E j : Create(c, j)
    BY <1>5 DEF EP_create, memory
  <2>2. QED
    BY <2>1, CreateStops
<1>6. CASE EP_destroy(c)
  <2>1. UNCHANGED obj /\ \E j : Begin(c, j, history)
    BY <1>6 DEF EP_destroy, memory
  <2>2. QED
    BY <1>0, <2>1, TakenStops
<1>7. CASE EP_set(c)
  <2>1. UNCHANGED obj /\ \E j : Begin(c, j, history)
    BY <1>7 DEF EP_set, memory
  <2>2. QED
    BY <1>0, <2>1, TakenStops
<1>8. ASSUME NEW k, CreatePlain(c, k) PROVE RequestStops
  <2>1. UNCHANGED obj /\ \E j : Create(c, j)
    BY <1>8 DEF CreatePlain, memory
  <2>2. QED
    BY <2>1, CreateStops
<1>9. ASSUME NEW k, NEW place, OnPlain(c, k, place) PROVE RequestStops
  <2>1. UNCHANGED obj /\ \E j : Begin(c, j, history)
    BY <1>9 DEF OnPlain, memory
  <2>2. QED
    BY <1>0, <2>1, TakenStops
<1>10. CASE TRIGGER_add(c) \/ ACTION_add(c) \/ RULE_add(c)
  BY <1>8, <1>10 DEF TRIGGER_add, ACTION_add, RULE_add
<1>11. CASE \/ TRIGGER_del(c) \/ TRIGGER_set(c) \/ ACTION_del(c) \/ ACTION_set(c)
            \/ RULE_del(c) \/ RULE_set(c)
  BY <1>9, <1>11 DEF TRIGGER_del, TRIGGER_set, ACTION_del, ACTION_set, RULE_del, RULE_set
<1>12. QED
  BY <1>1, <1>2, <1>3, <1>4, <1>5, <1>6, <1>7, <1>10, <1>11 DEF Request

-------------------------------------------------------------------------------
\* A node is listed.
Enrols(t) ==
    LET j == job[t]
    IN  /\ j.kind = "node" /\ j.at = "append" /\ UNCHANGED obj
        /\ list' = [list EXCEPT !["node"] = Append(@, j.ptr)]
        /\ (j.new /\ GoesTo(t, "start")) \/ (~j.new /\ Ends(t))

SameNodes == list'["node"] = list["node"]

LEMMA DeedNodes ==
    ASSUME Types, NEW t \in Threads, Deed(t), job[t].kind = "node" => job[t].at # "delist"
    PROVE  SameNodes \/ Enrols(t)
<1>1. CASE job[t].kind = "node" /\ NodeDeed(t)
  <2>1. \A k, id, content, applies : Answered(k, id, content, applies) => SameNodes
    BY DEF Answered, SameNodes, memory
  <2>2. CASE job[t].at = "append"
    BY <1>1, <2>2 DEF NodeDeed, Enrols
  <2>3. CASE job[t].at # "append"
    BY <1>1, <2>1, <2>3 DEF NodeDeed, SameNodes, memory
  <2>4. QED
    BY <2>2, <2>3
<1>2. DOMAIN list = Kinds
  BY Sets, ListFacts
<1>3. \A k : \A x : k # "node" /\ list' = [list EXCEPT ![k] = x] => SameNodes
  BY <1>2 DEF SameNodes
<1>4. \A k, id, content, applies : Answered(k, id, content, applies) => SameNodes
  BY DEF Answered, SameNodes, memory
<1>5. \A k, p : k # "node" /\ Gone(k, p) => SameNodes
  BY <1>3 DEF Gone
<1>6. CASE job[t].kind = "ep" /\ EPDeed(t)
  <2>1. CASE job[t].at = "append"
    BY <1>3, <1>6, <2>1 DEF EPDeed
  <2>2. CASE job[t].at # "append"
    BY <1>4, <1>6, <2>2 DEF EPDeed, SameNodes, memory
  <2>3. QED
    BY <2>1, <2>2
<1>7. CASE KillDeed(t)
  BY <1>4, <1>5, <1>7 DEF KillDeed
<1>8. CASE job[t].kind \in Plain /\ PlainDeed(t)
  <2>1. job[t].kind # "node"
    BY <1>8 DEF Plain
  <2>2. CASE job[t].at = "append"
    BY <1>3, <1>8, <2>1, <2>2 DEF PlainDeed
  <2>3. CASE job[t].at # "append"
    BY <1>4, <1>5, <1>8, <2>1, <2>3 DEF PlainDeed, SameNodes
  <2>4. QED
    BY <2>2, <2>3
<1>9. CASE UNCHANGED <<memory, row, job>>
  BY <1>9 DEF memory, SameNodes
<1>10. CASE FailDeed(t)
  BY <1>10 DEF FailDeed, memory, SameNodes
<1>11. QED
  BY <1>1, <1>6, <1>7, <1>8, <1>9, <1>10 DEF Deed

LEMMA StepNodes ==
    ASSUME Types, NEW t \in Threads, Step(t)
    PROVE  SameNodes \/ Enrols(t) \/ Removing(t)
<1>1. CASE Otherwise(t)
  BY <1>1, StepDeeds, DeedNodes DEF Otherwise, SameNodes, memory
<1>2. CASE StartsNode(t)
  BY <1>2 DEF StartsNode, SameNodes
<1>3. QED
  BY <1>1, <1>2, StepRuns DEF SameNodes, memory

\* What becomes of the job of a thread.
LEMMA DeedJobs ==
    ASSUME Types, NEW t \in Threads, Deed(t)
    PROVE  /\ Ends(t) \/ SameJob(t)
           /\ ToList(job'[t]) =>
                /\ UNCHANGED list
                /\ (ToList(job[t]) /\ job'[t].ptr = job[t].ptr) \/ job'[t].ptr \notin DOMAIN obj
           /\ job'[t].kind = "node" /\ job'[t].at \in {"look", "add", "append"} =>
                SameJob(t) /\ job[t].kind = "node" /\ job[t].at \in {"look", "add", "append"}
<1>0. Idle.at = "idle" /\ (job[t].kind = "node" => (job[t].at \in {"dropEP", "delistEP"} => job[t].back \in {"empty", "purge"}))
  BY HandOf DEF Idle, Deed, Hand, NodeHand
<1>1. CASE UNCHANGED <<memory, row, job>>
  BY <1>1 DEF memory, SameJob
<1>2. CASE job[t].kind = "node" /\ NodeDeed(t)
  <2>1. CASE job[t].at \in {"look", "add"}
    <3>1. \A k, id, content, applies : Answered(k, id, content, applies) => UNCHANGED list
      BY DEF Answered, memory
    <3>2. QED
      BY <1>0, <1>2, <2>1, <3>1 DEF NodeDeed, Ends, GoesTo, GoesWith, SameJob, SameHands, ToList, Grown
  <2>2. CASE job[t].at \notin {"look", "add"}
    BY <1>0, <1>2, <2>2 DEF NodeDeed, Ends, GoesTo, Takes, SameJob, ToList
  <2>3. QED
    BY <2>1, <2>2
<1>3. CASE job[t].kind = "ep" /\ EPDeed(t)
  <2>1. Ends(t) \/ SameJob(t)
    BY <1>3 DEF EPDeed, GoesTo, GoesWith, SameJob
  <2>2. job'[t].kind = "node" => job'[t].at = "idle"
    BY <1>0, <1>3, <2>1 DEF Ends, SameJob
  <2>3. QED
    BY <2>1, <2>2 DEF ToList
<1>4. CASE job[t].kind \in Linked /\ KillDeed(t)
  <2>1. Ends(t) \/ SameJob(t)
    BY <1>4 DEF KillDeed, GoesTo
  <2>2. job'[t].kind = "node" => job'[t].at \in {"idle", "delistEP", "empty", "purge"}
    BY <1>0, <1>4 DEF KillDeed, GoesTo, Ends, SameJob
  <2>3. QED
    BY <2>1, <2>2 DEF ToList
<1>5. CASE job[t].kind \in Plain /\ PlainDeed(t)
  <2>1. Ends(t) \/ SameJob(t)
    BY <1>5 DEF PlainDeed, GoesTo, GoesWith
  <2>2. job'[t].kind = "node" => job'[t].at = "idle"
    BY <1>0, <1>5, <2>1 DEF Ends, SameJob, Plain
  <2>3. QED
    BY <2>1, <2>2 DEF ToList
<1>6. CASE FailDeed(t)
  BY <1>0, <1>6 DEF FailDeed, Ends, GoesTo, SameJob, ToList
<1>7. QED
  BY <1>1, <1>2, <1>3, <1>4, <1>5, <1>6 DEF Deed

LEMMA StepJobs ==
    ASSUME Types, NEW t \in Threads, Step(t)
    PROVE  /\ Ends(t) \/ SameJob(t)
           /\ ToList(job'[t]) =>
                /\ UNCHANGED list
                /\ (ToList(job[t]) /\ job'[t].ptr = job[t].ptr) \/ job'[t].ptr \notin DOMAIN obj
           /\ job'[t].kind = "node" /\ job'[t].at \in {"look", "add", "append"} =>
                SameJob(t) /\ job[t].kind = "node" /\ job[t].at \in {"look", "add", "append"}
<1>1. CASE UNCHANGED <<memory, row, job>>
  BY <1>1 DEF memory, SameJob
<1>2. QED
  BY <1>1, StepDeeds, DeedJobs

LEMMA RolesStep == ASSUME Types, Roles, NEW t \in Threads, Step(t) PROVE Roles'
<1>0. OthersStay(t) /\ UNCHANGED control /\ ~Idle.new /\ Idle.at = "idle"
  BY StepTypes, StepRemembers DEF Moves, Idle
<1>1. UNCHANGED state
  BY <1>0 DEF control
<1>2. ASSUME NEW c \in Consoles, job'[c].kind = "node", job'[c].at \in {"look", "add", "append"}
      PROVE  job'[c].new
  <2>1. CASE c = t
    BY <1>2, <2>1, StepJobs DEF Roles, SameJob
  <2>2. CASE c # t
    BY <1>0, <1>2, <2>2, Sets DEF Roles, OthersStay
  <2>3. QED
    BY <2>1, <2>2
<1>3. ~job'[Main].new
  BY <1>0, StepJobs, Sets DEF Roles, OthersStay, Ends, SameJob
<1>4. ASSUME state # "CONNECTED" PROVE job'[Main].at \in {"idle", "start"}
  <2>1. CASE t = Main
    <3>1. CASE UNCHANGED job
      BY <1>4, <3>1 DEF Roles
    <3>2. CASE Deed(t) /\ job' # job
      <4>1. job[t].at = "start" /\ Hand(job[t])
        BY <1>4, <2>1, <3>2 DEF Roles, Deed
      <4>2. job[t].kind = "node"
        BY <4>1, <3>2, HandOf, Sets DEF Hand, EPHand, PlainHand, Linked, Deed
      <4>3. Ends(t)
        BY <2>1, <3>2, <4>1, <4>2 DEF Deed, NodeDeed, KillDeed, FailDeed, Roles, Plain
      <4>4. QED
        BY <1>0, <2>1, <4>3 DEF Ends
    <3>3. QED
      BY <3>1, <3>2, StepDeeds
  <2>2. CASE t # Main
    BY <1>0, <1>4, <2>2, Sets DEF Roles, OthersStay
  <2>3. QED
    BY <2>1, <2>2
<1>5. QED
  BY <1>1, <1>2, <1>3, <1>4 DEF Roles

\* What a request or the main thread begins lists nothing at once.
LEMMA BegunRoles ==
    ASSUME Types, Roles, NEW t \in Threads, NEW j,
           (t \in Consoles /\ Begins(t, j)) \/ (t = Main /\ MainBegins(j))
    PROVE  Roles' /\ job'[t] = j /\ ~ToList(j) /\ OthersStay(t) /\ ObjGrows /\ SameNodes
<1>0. ~Idle.new /\ Idle.at = "idle"
  BY DEF Idle
<1>1. CASE t \in Consoles /\ Begins(t, j)
  <2>1. job'[t] = j /\ OthersStay(t) /\ ObjGrows /\ UNCHANGED <<list, control>> /\ t # Main
    BY <1>1, BeginsMoves, ThreadAssumption DEF Begins, Moves, ReqStep
  <2>2. ~ToList(j) /\ (j.kind = "node" /\ j.at \in {"look", "add", "append"} => j.new)
    BY <1>0, <1>1 DEF Begins, Asked, ToList, Plain
  <2>3. UNCHANGED state /\ job'[Main] = job[Main] /\ \A c \in Consoles \ {t} : job'[c] = job[c]
    BY <2>1, Sets DEF control, OthersStay
  <2>4. Roles'
    BY <2>1, <2>2, <2>3 DEF Roles
  <2>5. QED
    BY <2>1, <2>2, <2>4 DEF SameNodes
<1>2. CASE t = Main /\ MainBegins(j)
  <2>1. job'[t] = j /\ OthersStay(t) /\ ObjGrows /\ UNCHANGED list
    BY <1>2, MainBeginsMoves DEF Moves
  <2>2. ~ToList(j) /\ ~j.new /\ UNCHANGED state /\ (state # "CONNECTED" => j.at = "start")
    BY <1>2 DEF MainBegins, Loads, Starts, ToList, Syncing, Plain
  <2>3. \A c \in Consoles : job'[c] = job[c]
    BY <1>2, <2>1, Sets, ThreadAssumption DEF OthersStay
  <2>4. Roles'
    BY <1>2, <2>1, <2>2, <2>3 DEF Roles
  <2>5. QED
    BY <2>1, <2>2, <2>4 DEF SameNodes
<1>3. QED
  BY <1>1, <1>2

-------------------------------------------------------------------------------
LEMMA NodePointers ==
    ASSUME Types
    PROVE  /\ list["node"] \in Seq(Nat) /\ DOMAIN list = Kinds /\ "node" \in Kinds
           /\ Listed("node") \subseteq DOMAIN obj
           /\ \A i \in DOMAIN list["node"] : list["node"][i] \in Listed("node")
           /\ \A p \in Listed("node") : obj[p].kind = "node" /\ \E i \in DOMAIN list["node"] : list["node"][i] = p
           /\ \A t \in Threads : ToList(job[t]) => job[t].ptr \in DOMAIN obj /\ job[t].ptr \in Nat
<1>1. "node" \in Kinds
  BY Sets
<1>2. ASSUME NEW t \in Threads, ToList(job[t]) PROVE job[t].ptr \in DOMAIN obj /\ job[t].ptr \in Nat
  BY <1>2, HandOf, ObjFacts DEF ToList, Hand, NodeHand, Is, Types
<1>3. QED
  BY <1>1, <1>2, ListFacts

LEMMA DistinctSame ==
    ASSUME Types, Distinct, NEW t \in Threads, OthersStay(t), SameNodes,
           ToList(job'[t]) => (ToList(job[t]) /\ job'[t].ptr = job[t].ptr) \/ job'[t].ptr \notin DOMAIN obj
    PROVE  Distinct'
<1>1. Listed("node")' = Listed("node")
  BY DEF SameNodes, Listed
<1>2. \A i, k \in DOMAIN list'["node"] : list'["node"][i] = list'["node"][k] => i = k
  BY DEF SameNodes, Distinct
<1>3. ASSUME NEW u \in Threads, ToList(job'[u])
      PROVE  /\ job'[u].ptr \notin DOMAIN obj \/ (ToList(job[u]) /\ job'[u].ptr = job[u].ptr)
             /\ u # t => ToList(job[u]) /\ job'[u].ptr = job[u].ptr
  BY <1>3 DEF OthersStay
<1>4. ASSUME NEW u \in Threads, ToList(job'[u]) PROVE job'[u].ptr \notin Listed("node")'
  BY <1>1, <1>3, <1>4, NodePointers DEF Distinct
<1>5. ASSUME NEW u \in Threads, NEW v \in Threads \ {u}, ToList(job'[u]), ToList(job'[v])
      PROVE  job'[u].ptr # job'[v].ptr
  <2>1. (ToList(job[u]) => job[u].ptr \in DOMAIN obj) /\ (ToList(job[v]) => job[v].ptr \in DOMAIN obj)
    BY NodePointers
  <2>2. u # t \/ v # t
    OBVIOUS
  <2>3. QED
    BY <1>3, <1>5, <2>1, <2>2 DEF Distinct
<1>6. QED
  BY <1>2, <1>4, <1>5 DEF Distinct

LEMMA DistinctEnrols ==
    ASSUME Types, Distinct, NEW t \in Threads, OthersStay(t), Enrols(t)
    PROVE  Distinct'
<1> DEFINE p == job[t].ptr
<1>1. ToList(job[t]) /\ p \in Nat /\ p \notin Listed("node")
  BY NodePointers DEF Enrols, ToList, Distinct
<1>2. list'["node"] = Append(list["node"], p) /\ list["node"] \in Seq(Nat)
  BY NodePointers DEF Enrols
<1>3. ~ToList(job'[t])
  BY DEF Enrols, GoesTo, Ends, ToList, Idle
<1>4. /\ DOMAIN list'["node"] = DOMAIN list["node"] \cup {Len(list["node"]) + 1}
      /\ \A i \in DOMAIN list["node"] : list'["node"][i] = list["node"][i]
      /\ list'["node"][Len(list["node"]) + 1] = p
      /\ Listed("node")' = Listed("node") \cup {p}
  BY <1>1, <1>2, Appended DEF Listed
<1>5. \A i \in DOMAIN list["node"] : list["node"][i] # p
  BY <1>1, NodePointers
<1>6. \A i, k \in DOMAIN list'["node"] : list'["node"][i] = list'["node"][k] => i = k
  BY <1>4, <1>5 DEF Distinct
<1>7. \A u \in Threads : ToList(job'[u]) => u # t /\ job'[u] = job[u]
  BY <1>3 DEF OthersStay
<1>8. QED
  BY <1>1, <1>4, <1>6, <1>7 DEF Distinct

LEMMA DistinctRemoving ==
    ASSUME Types, Distinct, NEW t \in Threads, OthersStay(t), Removing(t)
    PROVE  Distinct' /\ job[t].ptr \notin Listed("node")'
<1> DEFINE p == job[t].ptr
<1>1. list'["node"] = Without(list["node"], p) /\ list["node"] \in Seq(Nat)
  BY NodePointers DEF Removing, Gone
<1>2. Listed("node")' \subseteq Listed("node")
  BY <1>1, WithoutType DEF Listed
<1>3. Without(list["node"], p) \in Seq(Nat)
  BY <1>1, WithoutType
<1>4. ASSUME NEW i \in DOMAIN list'["node"], NEW k \in DOMAIN list'["node"], i < k
      PROVE  list'["node"][i] # list'["node"][k]
  <2>1. PICK x, y : /\ x \in DOMAIN list["node"] /\ y \in DOMAIN list["node"] /\ x < y
                    /\ list'["node"][i] = list["node"][x] /\ list'["node"][k] = list["node"][y]
    BY <1>1, <1>4, WithoutOrder
  <2>2. x \in Nat /\ y \in Nat
    BY <1>1, <2>1, SeqFacts
  <2>3. QED
    BY <2>1, <2>2 DEF Distinct
<1>5. \A i, k \in DOMAIN list'["node"] : i \in Nat /\ k \in Nat
  BY <1>1, <1>3, SeqFacts
<1>6. \A i, k \in DOMAIN list'["node"] : list'["node"][i] = list'["node"][k] => i = k
  BY <1>4, <1>5
<1>7. ~ToList(job'[t])
  BY DEF Removing, Ends, ToList, Idle
<1>8. \A u \in Threads : ToList(job'[u]) => u # t /\ job'[u] = job[u]
  BY <1>7 DEF OthersStay
<1>9. Distinct'
  BY <1>2, <1>6, <1>8 DEF Distinct
<1>10. p \notin Listed("node")'
  BY <1>1, WithoutTakes DEF Distinct, Listed
<1>11. QED
  BY <1>9, <1>10

LEMMA DistinctStep == ASSUME Types, Distinct, NEW t \in Threads, Step(t) PROVE Distinct'
<1>1. OthersStay(t)
  BY StepTypes DEF Moves
<1>2. CASE SameNodes
  BY <1>1, <1>2, StepJobs, DistinctSame
<1>3. QED
  BY <1>1, <1>2, StepNodes, DistinctEnrols, DistinctRemoving

-------------------------------------------------------------------------------
(* Whom the nodes are left to.                                                *)

LEMMA StillTends ==
    ASSUME Types, NEW t \in Threads, NEW p, Step(t), Tends(job[t], p), job[t].at \notin {"start", "delist"}
    PROVE  Tends(job'[t], p)
<1>1. CASE UNCHANGED job
  BY <1>1
<1>2. CASE Deed(t) /\ job' # job
  <2>1. job[t].kind = "node" /\ job[t].new /\ job[t].ptr = p
    BY DEF Tends
  <2>2. CASE NodeDeed(t)
    <3>1. \/ job[t].at = "drop" /\ GoesTo(t, "purge")
          \/ job[t].at = "purge" /\ GoesTo(t, "delist")
          \/ job[t].at = "purge" /\ \E e : Takes(t, e)
      BY <1>2, <2>2 DEF NodeDeed, Tends
    <3>2. QED
      BY <2>1, <3>1 DEF Tends, GoesTo, Takes, SameJob, SameHands
  <2>3. CASE KillDeed(t)
    <3>1. job[t].back = "purge"
      BY <2>3 DEF KillDeed, Tends
    <3>2. QED
      BY <2>1, <2>3, <3>1 DEF KillDeed, Tends, GoesTo, SameJob, SameHands
  <2>4. QED
    BY <1>2, <2>1, <2>2, <2>3 DEF Deed, FailDeed, Tends, Plain, memory
<1>3. QED
  BY <1>1, <1>2, StepDeeds

LEMMA ForgottenStep ==
    ASSUME Types, NEW t \in Threads, Step(t), NEW p \in DOMAIN obj, obj[p].kind = "node",
           Forgotten(p)', ~(Removing(t) /\ p = job[t].ptr)
    PROVE  Forgotten(p)
<1>1. OthersStay(t) /\ obj'[p].id = obj[p].id /\ history.failed \subseteq history'.failed
  BY StepTypes, StepRemembers DEF Moves, ObjGrows, Remembers
<1>2. CASE UNCHANGED <<memory, job, history>>
  BY <1>2 DEF Forgotten, Standing, memory
<1>3. CASE Otherwise(t)
  <2>1. Standing(p)
    BY <1>1, <1>3 DEF Forgotten, Standing, Otherwise, SameRun, SameCount
  <2>2. ~Tends(job[t], p)
    <3>1. Tends(job[t], p) => job[t].kind = "node"
      BY DEF Tends
    <3>2. QED
      BY <1>3, <3>1, StillTends DEF Forgotten, Otherwise
  <2>3. QED
    BY <1>1, <2>1, <2>2 DEF Forgotten, OthersStay
<1>4. CASE StartsNode(t)
  <2>1. p # job[t].ptr
    <3>1. SUFFICES ASSUME p = job[t].ptr PROVE FALSE
      OBVIOUS
    <3>2. CASE obj'[p].run
      BY <3>2 DEF Forgotten, Standing
    <3>3. CASE Key(job[t]) \in history'.failed
      <4>1. obj[p].id = job[t].id /\ job[t].kind = "node"
        BY <1>4, <3>1, HandOf DEF StartsNode, Hand, NodeHand, Is
      <4>2. QED
        BY <1>1, <3>3, <4>1 DEF Forgotten, Standing, Key
    <3>4. CASE job[t].new /\ GoesTo(t, "drop")
      <4>1. Tends(job'[t], p)
        BY <1>4, <3>1, <3>4 DEF StartsNode, GoesTo, SameJob, SameHands, Tends
      <4>2. QED
        BY <4>1 DEF Forgotten
    <3>5. QED
      BY <1>4, <3>1, <3>2, <3>3, <3>4 DEF StartsNode
  <2>2. Standing(p)
    BY <1>1, <1>4, <2>1 DEF Forgotten, Standing, StartsNode, SameCount
  <2>3. ~Tends(job[t], p)
    BY <2>1 DEF Tends
  <2>4. QED
    BY <1>1, <2>2, <2>3 DEF Forgotten, OthersStay
<1>5. CASE Removing(t)
  <2>1. p # job[t].ptr
    BY <1>5
  <2>2. Standing(p)
    BY <1>1, <1>5, <2>1 DEF Forgotten, Standing, Removing, Gone
  <2>3. ~Tends(job[t], p)
    BY <2>1 DEF Tends
  <2>4. QED
    BY <1>1, <2>2, <2>3 DEF Forgotten, OthersStay
<1>6. QED
  BY <1>2, <1>3, <1>4, <1>5, StepRuns

\* What is begun is begun by a thread that tended nothing.
LEMMA ForgottenBegun ==
    ASSUME NEW t \in Threads, NEW p \in DOMAIN obj, OthersStay(t), job[t].at = "idle",
           obj'[p].id = obj[p].id, obj'[p].run = obj[p].run \/ obj[p].id \in history'.stopped,
           history.stopped \subseteq history'.stopped, history.failed \subseteq history'.failed,
           Forgotten(p)'
    PROVE  Forgotten(p)
<1>1. Standing(p)
  BY DEF Forgotten, Standing
<1>2. ~Tends(job[t], p)
  BY DEF Tends
<1>3. QED
  BY <1>1, <1>2 DEF Forgotten, OthersStay

LEMMA ForgottenRequest ==
    ASSUME Types, NEW c \in Consoles, Request(c), NEW p \in DOMAIN obj, Forgotten(p)'
    PROVE  Forgotten(p)
<1>1. PICK j : Begins(c, j)
  BY RequestBegins
<1>2. /\ OthersStay(c) /\ c \in Threads /\ obj'[p].id = obj[p].id
  BY <1>1, BeginsMoves, Sets DEF Begins, Moves, OnlyRun
<1>3. job[c].at = "idle" /\ history'.failed = history.failed
  <2>1. PICK h \in Histories : SameMarks(h, j) /\ Begin(c, j, h)
    BY <1>1 DEF Begins
  <2>2. QED
    BY <2>1 DEF Begin, Take, Racing, SameMarks, Histories
<1>4. RequestStops
  BY RequestsStop
<1>5. QED
  BY <1>2, <1>3, <1>4, ForgottenBegun DEF RequestStops

LEMMA ForgottenMain ==
    ASSUME Types, NEW j, MainBegins(j), NEW p \in DOMAIN obj, Forgotten(p)'
    PROVE  Forgotten(p) /\ ~Tends(j, p) /\ SameCount
<1>1. /\ OthersStay(Main) /\ Main \in Threads /\ job'[Main] = j /\ UNCHANGED obj
  BY MainBeginsMoves, Sets DEF Moves, MainBegins, MainStep, memory
<1>2. job[Main].at = "idle" /\ history'.failed = history.failed /\ SameCount
  BY DEF MainBegins, Take, Racing, SameCount, Types, TypeOK, Histories
<1>3. QED
  BY <1>1, <1>2, ForgottenBegun DEF Forgotten, SameCount

-------------------------------------------------------------------------------
(* How many are left.                                                         *)

LEMMA MissedFacts ==
    ASSUME Types
    PROVE  /\ Missed \subseteq DOMAIN list["node"] /\ DOMAIN list["node"] = 1..Len(list["node"])
           /\ Len(list["node"]) \in Nat /\ IsFiniteSet(Missed) /\ IsFiniteSet(Passed)
           /\ Passed \subseteq Missed /\ Cardinality(Missed) \in Nat /\ Cardinality(Passed) \in Nat
           /\ history.removals \in Nat /\ sync.phase \in Nat /\ sync.count \in Nat
<1>1. Len(list["node"]) \in Nat /\ DOMAIN list["node"] = 1..Len(list["node"])
  BY NodePointers, SeqFacts
<1>2. IsFiniteSet(DOMAIN list["node"])
  BY <1>1, FS_Interval
<1>3. Missed \subseteq DOMAIN list["node"] /\ Passed \subseteq Missed
  BY DEF Missed, Passed
<1>4. IsFiniteSet(Missed) /\ IsFiniteSet(Passed)
  BY <1>2, <1>3, FS_Subset
<1>5. Cardinality(Missed) \in Nat /\ Cardinality(Passed) \in Nat
  BY <1>4, FS_CardinalityType
<1>6. history.removals \in Nat /\ sync.phase \in Nat /\ sync.count \in Nat
  BY DEF Types, TypeOK, Histories
<1>7. QED
  BY <1>1, <1>3, <1>4, <1>5, <1>6

\* A step that forgets no listed node takes no place out of the count.
LEMMA MissedSame ==
    ASSUME Types, SameNodes, \A p \in Listed("node") : Forgotten(p)' => Forgotten(p)
    PROVE  Missed' \subseteq Missed
<1>1. SUFFICES ASSUME NEW q \in Missed' PROVE q \in Missed
  OBVIOUS
<1>2. PICK p : q \in DOMAIN list["node"] /\ p = list["node"][q] /\ Forgotten(p)'
  BY <1>1 DEF Missed, Neglected, SameNodes
<1>3. p \in Listed("node") /\ p \in DOMAIN obj
  BY <1>2, NodePointers
<1>4. QED
  BY <1>2, <1>3 DEF Missed, Neglected

LEMMA MissedEnrols ==
    ASSUME Types, NEW t \in Threads, Enrols(t), job[t].new,
           \A p \in Listed("node") : Forgotten(p)' => Forgotten(p)
    PROVE  Missed' \subseteq Missed
<1>0. PICK p : p = job[t].ptr
  OBVIOUS
<1>1. list'["node"] = Append(list["node"], p) /\ list["node"] \in Seq(Nat) /\ p \in Nat
  BY <1>0, NodePointers DEF Enrols, ToList
<1>2. /\ DOMAIN list'["node"] = DOMAIN list["node"] \cup {Len(list["node"]) + 1}
      /\ \A i \in DOMAIN list["node"] : list'["node"][i] = list["node"][i]
      /\ list'["node"][Len(list["node"]) + 1] = p
  BY <1>1, Appended
<1>3. ~Forgotten(p)'
  BY <1>0 DEF Enrols, GoesTo, SameJob, SameHands, Tends, Forgotten
<1>4. ASSUME NEW q \in Missed' PROVE q \in Missed
  <2>1. PICK n : q \in DOMAIN list'["node"] /\ n = list'["node"][q] /\ Forgotten(n)'
    BY <1>4 DEF Missed, Neglected
  <2>2. q \in DOMAIN list["node"] /\ n = list["node"][q]
    BY <1>2, <1>3, <2>1
  <2>3. n \in Listed("node") /\ n \in DOMAIN obj
    BY <2>2, NodePointers
  <2>4. QED
    BY <2>1, <2>2, <2>3 DEF Missed, Neglected
<1>5. QED
  BY <1>4

LEMMA StartingSame ==
    ASSUME Types, Starting, Missed' \subseteq Missed, UNCHANGED control, history'.removals = history.removals
    PROVE  Starting'
<1>1. UNCHANGED <<state, sync>>
  BY DEF control
<1>2. Passed' \subseteq Passed
  BY <1>1 DEF Passed
<1>3. Cardinality(Passed') <= Cardinality(Passed) /\ Cardinality(Passed') \in Nat
  BY <1>2, MissedFacts, FS_Subset, FS_CardinalityType
<1>4. QED
  BY <1>1, <1>3, MissedFacts DEF Starting

\* What comes behind an entry that is taken out moves up by one.
LEMMA WithoutPlaces ==
    ASSUME NEW S, NEW q \in Seq(S), NEW r \in DOMAIN q, \A i \in DOMAIN q : q[i] = q[r] => i = r
    PROVE  \A k \in DOMAIN Without(q, q[r]) :
              LET to == IF k < r THEN k ELSE k + 1
              IN  k \in Nat /\ to \in DOMAIN q /\ Without(q, q[r])[k] = q[to]
<1> DEFINE e == q[r]
<1>1. e \in ToSet(q)
  BY SeqFacts
<1>2. /\ DOMAIN Without(q, e) = 1..(Len(q) - 1) /\ Len(q) \in Nat /\ DOMAIN q = 1..Len(q)
      /\ \A k \in 1..(Len(q) - 1) :
           Without(q, e)[k] = IF \E i \in 1..k : q[i] = e THEN q[k + 1] ELSE q[k]
  BY <1>1, WithoutOne
<1>3. \A i \in DOMAIN q : q[i] = e => i = r
  OBVIOUS
<1>4. q[r] = e
  OBVIOUS
<1> HIDE DEF e
<1>5. ASSUME NEW k \in 1..(Len(q) - 1)
      PROVE  LET to == IF k < r THEN k ELSE k + 1
             IN  k \in Nat /\ to \in DOMAIN q /\ Without(q, e)[k] = q[to]
  <2>1. CASE k < r
    <3>1. ~\E i \in 1..k : q[i] = e
      BY <1>2, <1>3, <2>1
    <3>2. QED
      BY <1>2, <2>1, <3>1
  <2>2. CASE ~(k < r)
    <3>1. r \in 1..k
      BY <1>2, <2>2
    <3>2. QED
      BY <1>2, <1>4, <2>2, <3>1
  <2>3. QED
    BY <2>1, <2>2
<1>6. QED
  BY <1>2, <1>4, <1>5

LEMMA MovedUp ==
    ASSUME Types, Distinct, NEW t \in Threads, Removing(t), job[t].ptr \in Listed("node")
    PROVE  \E r \in DOMAIN list["node"] :
              \A q \in DOMAIN list'["node"] :
                 LET to == IF q < r THEN q ELSE q + 1
                 IN  q \in Nat /\ to \in DOMAIN list["node"] /\ list'["node"][q] = list["node"][to]
<1>1. PICK r \in DOMAIN list["node"] : list["node"][r] = job[t].ptr
  BY NodePointers
<1>2. list'["node"] = Without(list["node"], list["node"][r]) /\ list["node"] \in Seq(Nat)
  BY <1>1, NodePointers DEF Removing, Gone
<1>3. \A i \in DOMAIN list["node"] : list["node"][i] = list["node"][r] => i = r
  BY DEF Distinct
<1>4. \A k \in DOMAIN Without(list["node"], list["node"][r]) :
        LET to == IF k < r THEN k ELSE k + 1
        IN  /\ k \in Nat /\ to \in DOMAIN list["node"]
            /\ Without(list["node"], list["node"][r])[k] = list["node"][to]
  BY <1>2, <1>3, WithoutPlaces
<1>5. QED
  BY <1>2, <1>4

LEMMA StartingRemoving ==
    ASSUME Types, Types', Distinct, Starting, NEW t \in Threads, Removing(t), OthersStay(t), UNCHANGED control,
           \A p \in DOMAIN obj : obj[p].kind = "node" /\ p # job[t].ptr /\ Forgotten(p)' => Forgotten(p)
    PROVE  Starting'
<1>1. UNCHANGED <<state, sync>>
  BY DEF control
<1>2. job[t].ptr \notin Listed("node")' /\ Listed("node")' \subseteq Listed("node")
  <2>1. list'["node"] = Without(list["node"], job[t].ptr)
    BY NodePointers DEF Removing, Gone
  <2>2. QED
    BY <2>1, DistinctRemoving, NodePointers, WithoutType DEF Listed
<1>3. ASSUME NEW q \in Missed'
      PROVE  q \in DOMAIN list'["node"] /\ list'["node"][q] \in Neglected
  <2>1. PICK p : q \in DOMAIN list'["node"] /\ p = list'["node"][q] /\ Forgotten(p)'
    BY <1>3 DEF Missed, Neglected
  <2>2. p \in Listed("node")'
    <3>1. list'["node"] \in Seq(Nat)
      BY Sets DEF Types, TypeOK
    <3>2. QED
      BY <2>1, <3>1, SeqFacts DEF Listed
  <2>3. p \in DOMAIN obj /\ obj[p].kind = "node" /\ p # job[t].ptr
    BY <1>2, <2>2, NodePointers
  <2>4. Forgotten(p)
    BY <2>1, <2>3
  <2>5. QED
    BY <2>1, <2>3, <2>4 DEF Neglected
<1>4. /\ IsFiniteSet(Missed) /\ IsFiniteSet(Passed) /\ Cardinality(Passed) \in Nat
      /\ history.removals \in Nat /\ sync.phase \in Nat /\ sync.count \in Nat
      /\ history'.removals = history.removals + (IF state = "SYNCHRONIZED" THEN 1 ELSE 0)
  BY MissedFacts DEF Removing
<1>5. CASE job[t].ptr \notin Listed("node")
  <2>1. list'["node"] = list["node"]
    BY <1>5, NodePointers DEF Removing, Gone, Without, Listed
  <2>2. Missed' \subseteq Missed
    BY <1>3, <2>1 DEF Missed
  <2>3. Passed' \subseteq Passed
    BY <1>1, <2>2 DEF Passed
  <2>4. Cardinality(Passed') <= Cardinality(Passed) /\ Cardinality(Passed') \in Nat
    BY <1>4, <2>3, FS_Subset, FS_CardinalityType
  <2>5. QED
    BY <1>1, <1>4, <2>2, <2>4 DEF Starting
<1>6. CASE job[t].ptr \in Listed("node")
  <2>1. PICK r \in DOMAIN list["node"] :
          \A q \in DOMAIN list'["node"] :
             LET to == IF q < r THEN q ELSE q + 1
             IN  q \in Nat /\ to \in DOMAIN list["node"] /\ list'["node"][q] = list["node"][to]
    BY <1>6, MovedUp
  <2> DEFINE up == [q \in Passed' |-> IF q < r THEN q ELSE q + 1]
             Reached == IF state = "SYNCHRONIZED" THEN Passed \cup {sync.phase} ELSE Passed
  <2>2. r \in Nat
    BY NodePointers, SeqFacts
  <2>3. \A q \in Missed' : q \in Nat /\ (IF q < r THEN q ELSE q + 1) \in Missed
    BY <1>3, <2>1 DEF Missed
  <2>4. \A q \in Passed' : q \in Missed' /\ (state = "SYNCHRONIZED" => q < sync.phase)
    BY <1>1 DEF Passed
  <2>5. ASSUME NEW q \in Passed' PROVE up[q] \in Reached
    <3>1. q \in Nat /\ (IF q < r THEN q ELSE q + 1) \in Missed /\ (state = "SYNCHRONIZED" => q < sync.phase)
      BY <2>3, <2>4
    <3>2. QED
      BY <1>4, <2>2, <3>1 DEF Passed
  <2>6. \A q, s \in Passed' : up[q] = up[s] => q = s
    BY <2>2, <2>3, <2>4
  <2>7. up \in Injection(Passed', Reached)
    BY <2>5, <2>6 DEF Injection, IsInjective
  <2>8. IsFiniteSet(Reached) /\ Cardinality(Reached) <= Cardinality(Passed) + (IF state = "SYNCHRONIZED" THEN 1 ELSE 0)
    <3>1. CASE state = "SYNCHRONIZED"
      <4>1. Reached = Passed \cup {sync.phase}
        BY <3>1
      <4>2. /\ IsFiniteSet(Passed \cup {sync.phase})
            /\ Cardinality(Passed \cup {sync.phase}) = IF sync.phase \in Passed THEN Cardinality(Passed)
                                                       ELSE Cardinality(Passed) + 1
        BY <1>4, FS_AddElement
      <4>3. Cardinality(Passed \cup {sync.phase}) <= Cardinality(Passed) + 1
        BY <1>4, <4>2
      <4>4. QED
        BY <3>1, <4>1, <4>2, <4>3
    <3>2. CASE state # "SYNCHRONIZED"
      BY <1>4, <3>2
    <3>3. QED
      BY <3>1, <3>2
  <2> HIDE DEF up, Reached
  <2>9. Cardinality(Passed') <= Cardinality(Reached) /\ IsFiniteSet(Passed')
    BY <2>7, <2>8, FS_Injection
  <2>10. Cardinality(Passed') \in Nat /\ Cardinality(Reached) \in Nat
    BY <2>8, <2>9, FS_CardinalityType
  <2>11. ASSUME state = "SYNCHRONIZED", NEW q \in Missed' PROVE q \in 1..sync.count
    <3>1. (IF q < r THEN q ELSE q + 1) \in 1..sync.count
      BY <2>3, <2>11 DEF Starting
    <3>2. q >= 1
      <4>1. list'["node"] \in Seq(Nat)
        BY Sets DEF Types, TypeOK
      <4>2. q \in DOMAIN list'["node"]
        BY <2>11 DEF Missed
      <4>3. QED
        BY <4>1, <4>2, SeqFacts
    <3>3. QED
      BY <1>4, <2>2, <2>3, <3>1, <3>2
  <2>12. state # "CONNECTED" => Cardinality(Passed') <= history'.removals
    BY <1>4, <2>8, <2>9, <2>10 DEF Starting
  <2>13. QED
    BY <1>1, <2>11, <2>12 DEF Starting
<1>7. QED
  BY <1>5, <1>6

LEMMA StartingStep ==
    ASSUME Types, Types', Roles, Distinct, Starting, NEW t \in Threads, Step(t)
    PROVE  Starting'
<1>1. OthersStay(t) /\ UNCHANGED control
  BY StepTypes, StepRemembers DEF Moves
<1>2. ASSUME NEW p \in DOMAIN obj, obj[p].kind = "node", ~(Removing(t) /\ p = job[t].ptr), Forgotten(p)'
      PROVE  Forgotten(p)
  BY <1>2, ForgottenStep
<1>3. CASE Removing(t)
  BY <1>1, <1>2, <1>3, StartingRemoving
<1>4. CASE ~Removing(t)
  <2>1. \A p \in Listed("node") : Forgotten(p)' => Forgotten(p)
    BY <1>2, <1>4, NodePointers
  <2>2. history'.removals = history.removals
    BY <1>4, StepRuns DEF Otherwise, StartsNode, SameCount
  <2>3. CASE SameNodes
    BY <1>1, <2>1, <2>2, <2>3, MissedSame, StartingSame
  <2>4. CASE Enrols(t) /\ job[t].new
    BY <1>1, <2>1, <2>2, <2>4, MissedEnrols, StartingSame
  <2>5. CASE Enrols(t) /\ ~job[t].new
    <3>1. state = "CONNECTED"
      <4>1. t = Main
        BY <2>5, Sets DEF Enrols, Roles
      <4>2. QED
        BY <2>5, <4>1 DEF Enrols, Roles
    <3>2. QED
      BY <1>1, <3>1 DEF control, Starting
  <2>6. QED
    BY <1>4, <2>3, <2>4, <2>5, StepNodes
<1>5. QED
  BY <1>3, <1>4

LEMMA StartingRequest ==
    ASSUME Types, Starting, NEW c \in Consoles, Request(c)
    PROVE  Starting'
<1>1. UNCHANGED <<list, control>>
  BY RequestBegins DEF Begins, ReqStep
<1>2. \A p \in Listed("node") : Forgotten(p)' => Forgotten(p)
  BY ForgottenRequest, NodePointers
<1>3. history'.removals = history.removals
  BY RequestsStop DEF RequestStops
<1>4. QED
  BY <1>1, <1>2, <1>3, MissedSame, StartingSame DEF SameNodes

\* The main thread comes to the next place, or to the end.
LEMMA StartingNext ==
    ASSUME Types, Starting, StartNext
    PROVE  Starting'
<1> DEFINE i == sync.phase
<1>1. state = "SYNCHRONIZED" /\ Free /\ UNCHANGED <<obj, list>>
  BY DEF StartNext, StartFrom, MainStep, memory
<1>2. i \in Nat /\ sync.count \in Nat /\ history.removals \in Nat /\ IsFiniteSet(Passed)
      /\ Missed \subseteq 1..sync.count /\ Missed \subseteq 1..Len(list["node"]) /\ Len(list["node"]) \in Nat
      /\ Cardinality(Passed) \in Nat /\ Cardinality(Passed) <= history.removals
  BY <1>1, MissedFacts DEF Starting
<1>3. ASSUME Passed' \subseteq Passed, history'.removals = history.removals,
             state' = "SYNCHRONIZED" => Missed' \subseteq 1..sync'.count
      PROVE  Starting'
  <2>1. Cardinality(Passed') <= Cardinality(Passed) /\ Cardinality(Passed') \in Nat
    BY <1>2, <1>3, FS_Subset, FS_CardinalityType
  <2>2. QED
    BY <1>2, <1>3, <2>1 DEF Starting
<1>4. CASE UNCHANGED <<job, history>>
  <2>1. Missed' = Missed
    BY <1>1, <1>4 DEF Missed, Neglected, Forgotten, Standing
  <2>2. CASE /\ i <= sync.count /\ sync' = [sync EXCEPT !.phase = i + 1] /\ UNCHANGED state
             /\ ~(1 <= i /\ i <= Len(list["node"]))
    <3>1. sync'.phase = i + 1 /\ sync'.count = sync.count /\ i > Len(list["node"])
      BY <1>2, <2>2 DEF Types, TypeOK
    <3>2. Passed' \subseteq Passed
      BY <1>1, <1>2, <2>1, <2>2, <3>1 DEF Passed
    <3>3. QED
      BY <1>1, <1>2, <1>3, <1>4, <2>1, <3>1, <3>2
  <2>3. CASE i > sync.count /\ state' = "PROCESSING"
    <3>1. Passed' \subseteq Passed
      BY <1>1, <1>2, <2>1, <2>3 DEF Passed
    <3>2. QED
      BY <1>3, <1>4, <2>3, <3>1
  <2>4. CASE /\ i <= sync.count /\ sync' = [sync EXCEPT !.phase = i + 1] /\ UNCHANGED state
             /\ 1 <= i /\ i <= Len(list["node"]) /\ Take(Main, StartJob(list["node"][i]), history)
    <3>1. StartJob(list["node"][i]).at = "start" /\ job'[Main] = StartJob(list["node"][i])
      <4>1. i \in DOMAIN list["node"]
        BY <1>2, <2>4, MissedFacts
      <4>2. QED
        BY <2>4, <4>1, StartJobTypes, Took, Sets DEF Take, Types
    <3>2. QED
      BY <1>1, <1>4, <3>1 DEF Free
  <2>5. QED
    BY <2>2, <2>3, <2>4 DEF StartNext, StartFrom, StartJob
<1>5. CASE /\ i <= sync.count /\ sync' = [sync EXCEPT !.phase = i + 1] /\ UNCHANGED state
           /\ 1 <= i /\ i <= Len(list["node"]) /\ Take(Main, StartJob(list["node"][i]), history)
  <2>1. i \in DOMAIN list["node"]
    BY <1>2, <1>5, MissedFacts
  <2> PICK p : p = list["node"][i]
    OBVIOUS
  <2>2. /\ StartJob(p) \in Jobs /\ StartJob(p).at = "start" /\ StartJob(p).kind = "node" /\ StartJob(p).ptr = p
    BY <2>1, StartJobTypes
  <2>3. job'[Main] = StartJob(p) /\ OthersStay(Main) /\ Main \in Threads
    BY <1>5, <2>2, Took, Sets DEF Take, Types
  <2>4. ~Forgotten(p)'
    BY <2>2, <2>3 DEF Forgotten, Tends
  <2>5. history'.stopped = history.stopped /\ history'.failed = history.failed /\ history'.removals = history.removals
    BY <1>5 DEF Take, Racing, Types, TypeOK, Histories
  <2>6. ASSUME NEW q \in Listed("node"), Forgotten(q)' PROVE Forgotten(q)
    <3>1. q \in DOMAIN obj
      BY <2>6, NodePointers
    <3>2. QED
      BY <1>1, <2>3, <2>5, <2>6, <3>1, ForgottenBegun DEF Free
  <2>7. Missed' \subseteq Missed /\ i \notin Missed'
    <3>1. Missed' \subseteq Missed
      BY <1>1, <2>6, MissedSame DEF SameNodes
    <3>2. i \notin Missed'
      BY <1>1, <2>4 DEF Missed, Neglected
    <3>3. QED
      BY <3>1, <3>2
  <2>8. sync'.phase = i + 1 /\ sync'.count = sync.count
    BY <1>5 DEF Types, TypeOK
  <2>9. Passed' \subseteq Passed
    BY <1>1, <1>2, <1>5, <2>7, <2>8 DEF Passed
  <2>10. QED
    BY <1>2, <1>3, <2>5, <2>7, <2>8, <2>9
<1>6. QED
  BY <1>4, <1>5 DEF StartNext, StartFrom, StartJob

LEMMA StartingSynchronized ==
    ASSUME Types, Types', Synchronized
    PROVE  Starting'
<1>1. /\ state' = "SYNCHRONIZED" /\ sync'.phase = 1 /\ sync'.count = Len(list["node"])
      /\ UNCHANGED list
  BY DEF Synchronized, Unsynced, MainStep, memory
<1>2. Missed' \subseteq 1..Len(list["node"])
  <2>1. Missed' \subseteq DOMAIN list["node"]
    BY <1>1 DEF Missed
  <2>2. QED
    BY <2>1, MissedFacts
<1>3. Passed' = {}
  <2>1. \A q \in Missed' : q \in Nat /\ ~(q < 1)
    BY <1>2, MissedFacts
  <2>2. QED
    BY <1>1, <2>1 DEF Passed
<1>4. history'.removals \in Nat
  BY DEF Types, TypeOK, Histories
<1>5. QED
  BY <1>1, <1>2, <1>3, <1>4, FS_EmptySet DEF Starting

-------------------------------------------------------------------------------
LEMMA StartedRoles == JustStarted => Roles /\ Distinct /\ Starting
<1>1. SUFFICES ASSUME JustStarted PROVE Roles /\ Distinct /\ Starting
  OBVIOUS
<1>2. \A t \in Threads : job[t].at = "idle" /\ ~job[t].new
  BY <1>1 DEF JustStarted, Idle
<1>3. list["node"] = <<>> /\ state = "CONNECTED"
  BY <1>1, Sets DEF JustStarted
<1>4. QED
  BY <1>2, <1>3, Sets DEF Roles, Distinct, Starting, ToList

\* What the main thread does apart from the steps of an object.
LEMMA MainRoles ==
    ASSUME Types, Types', Roles, Distinct, Starting, MainThread, ~Step(Main)
    PROVE  (Roles /\ Distinct /\ Starting)'
<1>1. CASE \E j : MainBegins(j)
  <2>1. PICK j : MainBegins(j)
    BY <1>1
  <2>2. Roles' /\ Distinct'
    BY <2>1, BegunRoles, DistinctSame, Sets
  <2>3. QED
    <3>1. CASE StartNext
      BY <2>2, <3>1, StartingNext
    <3>2. CASE ~StartNext
      <4>1. state' = "CONNECTED" \/ Synchronized
        BY <3>2, SyncSteps DEF MainThread, SyncKind, Count, List, Load, Syncing
      <4>2. QED
        BY <2>2, <4>1, StartingSynchronized DEF Starting
    <3>3. QED
      BY <3>1, <3>2
<1>2. CASE MainRests
  <2>1. UNCHANGED <<obj, list, job>>
    BY <1>2 DEF MainRests, MainStep, memory
  <2>2. Distinct'
    BY <2>1 DEF Distinct, Listed
  <2>3. CASE StartNext
    <3>1. state = "SYNCHRONIZED"
      BY <2>3 DEF StartNext, StartFrom
    <3>2. QED
      BY <2>1, <2>2, <2>3, <3>1, StartingNext DEF Roles
  <2>4. CASE Synchronized
    <3>1. job[Main].at = "idle"
      BY <2>4 DEF Synchronized, Free
    <3>2. QED
      BY <2>1, <2>2, <2>4, <3>1, StartingSynchronized DEF Roles
  <2>5. CASE ~StartNext /\ ~Synchronized
    <3>1. state' = "CONNECTED"
      BY <2>5, SyncSteps DEF MainThread, SyncKind, Count, List, Load, Syncing
    <3>2. QED
      BY <2>1, <2>2, <3>1 DEF Roles, Starting
  <2>6. QED
    BY <2>3, <2>4, <2>5
<1>3. QED
  BY <1>1, <1>2, MainDoes

LEMMA StepRoles ==
    ASSUME Types, Types', Roles, Distinct, Starting, NEW t \in Threads, Step(t)
    PROVE  (Roles /\ Distinct /\ Starting)'
  BY RolesStep, DistinctStep, StartingStep

LEMMA RequestRoles ==
    ASSUME Types, Types', Roles, Distinct, Starting, NEW c \in Consoles, Request(c)
    PROVE  (Roles /\ Distinct /\ Starting)'
<1>1. PICK j : Begins(c, j)
  BY RequestBegins
<1>2. Roles' /\ Distinct'
  BY <1>1, BegunRoles, DistinctSame, Sets
<1>3. QED
  BY <1>2, StartingRequest

\* Only the main thread makes nodes it does not start at once, no node is listed twice by the
\* same pointer, and the main thread still comes to every node that is not started, but for as
\* many as were removed since it began (FTOM_TASK_start and the list it goes through).
THEOREM StartingCorrect == Spec => [](Roles /\ Distinct /\ Starting)
<1>1. Init => Roles /\ Distinct /\ Starting
  BY InitStarts, StartedRoles
<1>2. Types /\ Types' /\ Roles /\ Distinct /\ Starting /\ [Next]_vars => (Roles /\ Distinct /\ Starting)'
  <2>1. SUFFICES ASSUME Types, Types', Roles, Distinct, Starting, [Next]_vars
                 PROVE  (Roles /\ Distinct /\ Starting)'
    OBVIOUS
  <2>2. CASE UNCHANGED vars
    <3>1. UNCHANGED <<obj, list, state, sync, job, history>>
      BY <2>2 DEF vars, memory, control
    <3>2. Missed' = Missed
      BY <3>1 DEF Missed, Neglected, Forgotten, Standing
    <3>3. QED
      BY <2>1, <3>1, <3>2 DEF Roles, Distinct, Listed, Starting, Passed
  <2>3. CASE Restart
    <3>1. JustStarted' => (Roles /\ Distinct /\ Starting)'
      BY StartedRoles, PTL
    <3>2. QED
      BY <2>1, <2>3, <3>1, RestartStarts
  <2>4. CASE MainThread
    BY <2>1, <2>4, MainRoles, StepRoles, Sets
  <2>5. CASE \E c \in Consoles : Request(c) \/ Step(c)
    BY <2>1, <2>5, RequestRoles, StepRoles, Sets
  <2>6. QED
    BY <2>1, <2>2, <2>3, <2>4, <2>5 DEF Next
<1>3. QED
  BY <1>1, <1>2, TypeCorrect, PTL DEF Spec

\* When the main thread has started the nodes, no more of them stand still, with nobody having
\* stopped them, than were removed meanwhile (FTOM_TASK_start goes by the place in the list).
THEOREM NoneSkippedHolds == Spec => []NoneSkipped
<1>1. Types /\ Starting => NoneSkipped
  <2> DEFINE N == {n \in Listed("node") :
                     /\ ~obj[n].run /\ ~Busy("node", obj[n].id)
                     /\ obj[n].id \notin history.stopped
                     /\ <<"node", obj[n].id>> \notin history.failed}
             place == [n \in N |-> CHOOSE q \in DOMAIN list["node"] : list["node"][q] = n]
  <2>1. SUFFICES ASSUME Types, Starting, state = "PROCESSING" PROVE Cardinality(N) <= history.removals
    BY DEF NoneSkipped
  <2>2. \A n \in N : place[n] \in DOMAIN list["node"] /\ list["node"][place[n]] = n
    BY <2>1, NodePointers
  <2>3. ASSUME NEW n \in N PROVE Forgotten(n)
    <3>1. Standing(n)
      BY <2>3 DEF Standing
    <3>2. ASSUME NEW t \in Threads, Tends(job[t], n) PROVE FALSE
      <4>1. job[t].kind = "node" /\ job[t].ptr = n /\ job[t].at \notin {"idle", "look"}
        BY <3>2 DEF Tends
      <4>2. job[t].id = obj[n].id
        BY <2>1, <4>1, HandOf DEF Hand, NodeHand, Is
      <4>3. Busy("node", obj[n].id)
        BY <4>1, <4>2 DEF Busy, Key
      <4>4. QED
        BY <2>3, <4>3
    <3>3. QED
      BY <3>1, <3>2 DEF Forgotten
  <2>4. \A n \in N : place[n] \in Missed
    <3>1. N \subseteq Neglected
      BY <2>1, <2>3, NodePointers DEF Neglected
    <3>2. \A q \in DOMAIN list["node"] : list["node"][q] \in Neglected => q \in Missed
      BY DEF Missed
    <3> HIDE DEF N, place
    <3>3. QED
      BY <2>2, <3>1, <3>2
  <2>5. place \in Injection(N, Missed)
    <3>1. place \in [N -> Missed]
      BY <2>4
    <3>2. \A m, n \in N : place[m] = place[n] => m = n
      <4> HIDE DEF N, place
      <4>1. QED
        BY <2>2
    <3>3. QED
      BY <3>1, <3>2 DEF Injection, IsInjective
  <2> HIDE DEF N, place
  <2>6. Cardinality(N) <= Cardinality(Missed) /\ IsFiniteSet(N)
    BY <2>1, <2>5, MissedFacts, FS_Injection
  <2>7. Cardinality(Missed) <= history.removals
    BY <2>1 DEF Starting, Passed
  <2>8. QED
    BY <2>1, <2>6, <2>7, MissedFacts, FS_CardinalityType
<1>2. QED
  BY <1>1, TypeCorrect, StartingCorrect, PTL
=============================================================================
