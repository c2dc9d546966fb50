---------------------------- MODULE MsgQueueProofs ----------------------------
(* Proofs about MsgQueue for any sets of producers, consumers and blocks.     *)
EXTENDS MsgQueue, FiniteSetTheorems, SequenceTheorems, TLAPS

\* Pointers that are used to reach a block name one.
PtrOK == \A t \in Threads : pc[t] \in {"append", "remove", "use"} => ptr[t] \in Blocks

\* Once the queue is finalised no thread is inside a call.
ClosedOK == ~open => /\ \A c \in Consumers : pc[c] = "gone"
                     /\ \A p \in Producers : pc[p] = "idle"

Types == TypeOK /\ PtrOK /\ ClosedOK

\* Taking the i-th entry out of a queue leaves a queue with one entry less,
\* whose entries are the others in their order.
LEMMA WithoutProperties ==
    ASSUME NEW S, NEW q \in Seq(S), NEW i \in 1..Len(q)
    PROVE  /\ Without(q, i) \in Seq(S)
           /\ Len(Without(q, i)) = Len(q) - 1
           /\ \A k \in 1..(Len(q) - 1) :
                 Without(q, i)[k] = IF k < i THEN q[k] ELSE q[k + 1]
<1>1. Len(q) \in Nat /\ Len(q) >= 1 /\ \A k \in 1..Len(q) : q[k] \in S
  BY LenProperties, ElementOfSeq
<1>2. Len(q) - 1 \in Nat
  BY <1>1
<1>3. \A k \in 1..(Len(q) - 1) : (IF k < i THEN q[k] ELSE q[k + 1]) \in S
  BY <1>1
<1>4. QED
  BY <1>2, <1>3, IsASeq DEF Without

-------------------------------------------------------------------------------
\* Types is inductive: every step keeps the variables in their types, keeps a
\* block behind every pointer that will be followed, and starts nothing on a
\* queue that was finalised.
LEMMA TypesInit == Init => Types
  BY DEF Init, Types, TypeOK, PtrOK, ClosedOK, Threads, ProducerPC, ConsumerPC

LEMMA TypesProducer ==
    ASSUME Types, NEW p \in Producers,
           (\E b \in Blocks, m \in Msgs : Create(p, b, m))
              \/ Push(p) \/ PushFails(p) \/ Post(p)
    PROVE  Types'
<1> USE ThreadsAssumption DEF Types, TypeOK, PtrOK, ClosedOK, Threads, ProducerPC, ConsumerPC
<1>1. CASE \E b \in Blocks, m \in Msgs : Create(p, b, m)
  BY <1>1 DEF Create
<1>2. CASE Push(p)
  <2>1. ptr[p] \in Blocks
    BY <1>2 DEF Push
  <2>2. xList' \in Seq(Blocks)
    BY <1>2, <2>1, AppendProperties DEF Push
  <2>3. QED
    BY <1>2, <2>1, <2>2 DEF Push
<1>3. CASE PushFails(p)
  BY <1>3 DEF PushFails
<1>4. CASE Post(p)
  BY <1>4 DEF Post
<1>5. QED
  BY <1>1, <1>2, <1>3, <1>4

LEMMA TypesConsumer ==
    ASSUME Types, NEW c \in Consumers, ConsumerStep(c) \/ Leave(c)
    PROVE  Types'
<1> USE ThreadsAssumption DEF Types, TypeOK, PtrOK, ClosedOK, Threads, ProducerPC, ConsumerPC
<1>1. CASE Wait(c)
  BY <1>1 DEF Wait
<1>2. CASE GetAt(c)
  <2>1. xList # <<>> => Head(xList) \in Blocks
    BY HeadTailProperties
  <2>2. QED
    BY <1>2, <2>1 DEF GetAt
<1>3. CASE Remove(c)
  <2>1. PICK i \in 1..Len(xList) : xList' = Without(xList, i)
    BY <1>3 DEF Remove
  <2>2. xList' \in Seq(Blocks)
    BY <2>1, WithoutProperties
  <2>3. ptr[c] \in Blocks
    BY <1>3 DEF Remove
  <2>4. QED
    BY <1>3, <2>2, <2>3 DEF Remove
<1>4. CASE RemoveFails(c)
  BY <1>4 DEF RemoveFails
<1>5. CASE Repost(c)
  BY <1>5 DEF Repost
<1>6. CASE Destroy(c)
  BY <1>6 DEF Destroy
<1>7. CASE Leave(c)
  BY <1>7 DEF Leave
<1>8. QED
  BY <1>1, <1>2, <1>3, <1>4, <1>5, <1>6, <1>7 DEF ConsumerStep

LEMMA TypesStep == Types /\ [Next]_vars => Types'
<1> SUFFICES ASSUME Types, [Next]_vars PROVE Types'
  OBVIOUS
<1>1. CASE \E p \in Producers :
              (\E b \in Blocks, m \in Msgs : Create(p, b, m))
                 \/ Push(p) \/ PushFails(p) \/ Post(p)
  BY <1>1, TypesProducer
<1>2. CASE \E c \in Consumers : ConsumerStep(c) \/ Leave(c)
  BY <1>2, TypesConsumer
<1>3. CASE Final
  BY <1>3, EmptySeq DEF Final, Types, TypeOK, PtrOK, ClosedOK, Threads
<1>4. CASE UNCHANGED vars
  BY <1>4 DEF vars, Types, TypeOK, PtrOK, ClosedOK
<1>5. QED
  BY <1>1, <1>2, <1>3, <1>4 DEF Next, ConsumerStep

\* Every reachable state of the queue is well typed, whatever the numbers of
\* threads, blocks and messages.
THEOREM TypeCorrect == Spec => []TypeOK
<1>1. Spec => []Types
  BY TypesInit, TypesStep, PTL DEF Spec
<1>2. Types => TypeOK
  BY DEF Types
<1>3. QED
  BY <1>1, <1>2, PTL

-------------------------------------------------------------------------------
\* A thread that enters a set of threads raises its size by one, one that
\* leaves it lowers the size by one.
LEMMA Enters ==
    ASSUME NEW S, NEW x, IsFiniteSet(S), x \notin S
    PROVE  Cardinality(S \cup {x}) = Cardinality(S) + 1
  BY FS_AddElement

LEMMA Leaves ==
    ASSUME NEW S, NEW x, IsFiniteSet(S), x \in S
    PROVE  Cardinality(S \ {x}) = Cardinality(S) - 1
  BY FS_RemoveElement

LEMMA InTransitFinite ==
    /\ IsFiniteSet(Posting) /\ Cardinality(Posting) \in Nat
    /\ IsFiniteSet(Popping) /\ Cardinality(Popping) \in Nat
<1>1. Posting \subseteq Producers /\ Popping \subseteq Consumers
  BY DEF Posting, Popping
<1>2. IsFiniteSet(Posting) /\ IsFiniteSet(Popping)
  BY <1>1, ThreadsAssumption, FS_Subset
<1>3. QED
  BY <1>2, FS_CardinalityType

\* The accounting holds at the start: no message, no permit, nobody inside.
LEMMA AccountingInit == Init => PermitAccounting
<1> SUFFICES ASSUME Init PROVE PermitAccounting
  OBVIOUS
<1>1. Posting = {} /\ Popping = {}
  BY ThreadsAssumption DEF Init, Posting, Popping, Threads
<1>2. QED
  BY <1>1, FS_EmptySet DEF Init, PermitAccounting

\* A producer moves one unit at a time: the appended entry is counted by the
\* producer itself until its post moves it to the semaphore.
LEMMA AccountingProducer ==
    ASSUME Types, PermitAccounting, NEW p \in Producers,
           (\E b \in Blocks, m \in Msgs : Create(p, b, m))
              \/ Push(p) \/ PushFails(p) \/ Post(p)
    PROVE  PermitAccounting'
<1> USE ThreadsAssumption DEF Types, TypeOK, Threads
<1>0. /\ IsFiniteSet(Posting) /\ Cardinality(Posting) \in Nat
      /\ Cardinality(Popping) \in Nat /\ Len(xList) \in Nat
  BY InTransitFinite, LenProperties
<1>1. CASE \E b \in Blocks, m \in Msgs : Create(p, b, m)
  <2>1. Posting' = Posting /\ Popping' = Popping
    BY <1>1 DEF Create, Posting, Popping
  <2>2. QED
    BY <1>1, <2>1 DEF Create, PermitAccounting
<1>2. CASE Push(p)
  <2>1. p \notin Posting /\ Posting' = Posting \cup {p} /\ Popping' = Popping
    BY <1>2 DEF Push, Posting, Popping
  <2>2. ptr[p] \in Blocks
    BY <1>2 DEF Push, PtrOK
  <2>3. Len(xList') = Len(xList) + 1
    BY <1>2, <2>2, AppendProperties DEF Push
  <2>4. Cardinality(Posting') = Cardinality(Posting) + 1
    BY <1>0, <2>1, Enters
  <2>5. QED
    BY <1>0, <1>2, <2>1, <2>3, <2>4 DEF Push, PermitAccounting
<1>3. CASE PushFails(p)
  <2>1. Posting' = Posting /\ Popping' = Popping
    BY <1>3 DEF PushFails, Posting, Popping
  <2>2. QED
    BY <1>3, <2>1 DEF PushFails, PermitAccounting
<1>4. CASE Post(p)
  <2>1. p \in Posting /\ Posting' = Posting \ {p} /\ Popping' = Popping
    BY <1>4 DEF Post, Posting, Popping
  <2>2. Cardinality(Posting') = Cardinality(Posting) - 1
    BY <1>0, <2>1, Leaves
  <2>3. QED
    BY <1>0, <1>4, <2>1, <2>2 DEF Post, PermitAccounting
<1>5. QED
  BY <1>1, <1>2, <1>3, <1>4

\* A consumer takes a unit from the semaphore and either takes the entry out
\* of the list with it or gives it back.
LEMMA AccountingConsumer ==
    ASSUME Types, PermitAccounting, NEW c \in Consumers, ConsumerStep(c) \/ Leave(c)
    PROVE  PermitAccounting'
<1> USE ThreadsAssumption DEF Types, TypeOK, Threads
<1>0. /\ IsFiniteSet(Popping) /\ Cardinality(Popping) \in Nat
      /\ Cardinality(Posting) \in Nat /\ Len(xList) \in Nat
  BY InTransitFinite, LenProperties
<1>1. CASE Wait(c)
  <2>1. c \notin Popping /\ Popping' = Popping \cup {c} /\ Posting' = Posting
    BY <1>1 DEF Wait, Posting, Popping
  <2>2. Cardinality(Popping') = Cardinality(Popping) + 1
    BY <1>0, <2>1, Enters
  <2>3. QED
    BY <1>0, <1>1, <2>1, <2>2 DEF Wait, PermitAccounting
<1>2. CASE GetAt(c)
  <2>1. Popping' = Popping /\ Posting' = Posting
    BY <1>2 DEF GetAt, Posting, Popping
  <2>2. QED
    BY <1>2, <2>1 DEF GetAt, PermitAccounting
<1>3. CASE Remove(c)
  <2>1. c \in Popping /\ Popping' = Popping \ {c} /\ Posting' = Posting
    BY <1>3 DEF Remove, Posting, Popping
  <2>2. PICK i \in 1..Len(xList) : xList' = Without(xList, i)
    BY <1>3 DEF Remove
  <2>3. Len(xList') = Len(xList) - 1
    BY <2>2, WithoutProperties
  <2>4. Cardinality(Popping') = Cardinality(Popping) - 1
    BY <1>0, <2>1, Leaves
  <2>5. open' = open /\ xLock' = xLock
    BY <1>3 DEF Remove
  <2> HIDE DEF Types, TypeOK
  <2>6. xLock \in Nat
    BY DEF Types, TypeOK
  <2>7. QED
    BY <1>0, <2>1, <2>3, <2>4, <2>5, <2>6 DEF PermitAccounting
<1>4. CASE RemoveFails(c)
  <2>1. Popping' = Popping /\ Posting' = Posting
    BY <1>4 DEF RemoveFails, Posting, Popping
  <2>2. QED
    BY <1>4, <2>1 DEF RemoveFails, PermitAccounting
<1>5. CASE Repost(c)
  <2>1. c \in Popping /\ Popping' = Popping \ {c} /\ Posting' = Posting
    BY <1>5 DEF Repost, Posting, Popping
  <2>2. Cardinality(Popping') = Cardinality(Popping) - 1
    BY <1>0, <2>1, Leaves
  <2>3. QED
    BY <1>0, <1>5, <2>1, <2>2 DEF Repost, PermitAccounting
<1>6. CASE Destroy(c)
  <2>1. Popping' = Popping /\ Posting' = Posting
    BY <1>6 DEF Destroy, Posting, Popping
  <2>2. QED
    BY <1>6, <2>1 DEF Destroy, PermitAccounting
<1>7. CASE Leave(c)
  <2>1. Popping' = Popping /\ Posting' = Posting
    BY <1>7 DEF Leave, Posting, Popping
  <2>2. QED
    BY <1>7, <2>1 DEF Leave, PermitAccounting
<1>8. QED
  BY <1>1, <1>2, <1>3, <1>4, <1>5, <1>6, <1>7 DEF ConsumerStep

LEMMA AccountingStep == Types /\ PermitAccounting /\ [Next]_vars => PermitAccounting'
<1> SUFFICES ASSUME Types, PermitAccounting, [Next]_vars PROVE PermitAccounting'
  OBVIOUS
<1>1. CASE \E p \in Producers :
              (\E b \in Blocks, m \in Msgs : Create(p, b, m))
                 \/ Push(p) \/ PushFails(p) \/ Post(p)
  BY <1>1, AccountingProducer
<1>2. CASE \E c \in Consumers : ConsumerStep(c) \/ Leave(c)
  BY <1>2, AccountingConsumer
<1>3. CASE Final
  BY <1>3 DEF Final, PermitAccounting
<1>4. CASE UNCHANGED vars
  BY <1>4 DEF vars, PermitAccounting, Posting, Popping
<1>5. QED
  BY <1>1, <1>2, <1>3, <1>4 DEF Next, ConsumerStep

\* FTM_MSGQ keeps its semaphore and its list in step for any number of
\* producers and consumers.
THEOREM PermitsMatchMessages == Spec => []PermitAccounting
<1>1. Init => Types /\ PermitAccounting
  BY TypesInit, AccountingInit
<1>2. Types /\ PermitAccounting /\ [Next]_vars => (Types /\ PermitAccounting)'
  BY TypesStep, AccountingStep
<1>3. QED
  BY <1>1, <1>2, PTL DEF Spec

\* Behind every permit there is a message: no pop that got past its wait
\* finds the list empty.
THEOREM PermitFindsMessage == Spec => []PermitMeansMessage
<1>1. Spec => [](Types /\ PermitAccounting)
  <2>1. Init => Types /\ PermitAccounting
    BY TypesInit, AccountingInit
  <2>2. Types /\ PermitAccounting /\ [Next]_vars => (Types /\ PermitAccounting)'
    BY TypesStep, AccountingStep
  <2>3. QED
    BY <2>1, <2>2, PTL DEF Spec
<1>2. Types /\ PermitAccounting => PermitMeansMessage
  <2> SUFFICES ASSUME Types, PermitAccounting, NEW c \in Consumers, pc[c] = "getAt", open
               PROVE  xList # <<>>
    BY DEF PermitMeansMessage
  <2>1. c \in Popping
    BY DEF Popping
  <2>2. Cardinality(Popping) # 0
    BY <2>1, InTransitFinite, FS_EmptySet
  <2>3. Len(xList) > 0
    BY <2>2, InTransitFinite DEF PermitAccounting, Types, TypeOK
  <2>4. QED
    BY <2>3, EmptySeq
<1>3. QED
  BY <1>1, <1>2, PTL

-------------------------------------------------------------------------------
\* What push and a successful remove do to the set of queued blocks.
LEMMA QueuedAppend ==
    ASSUME Types, NEW b \in Blocks, xList' = Append(xList, b)
    PROVE  Queued' = Queued \cup {b}
<1>1. /\ Len(xList') = Len(xList) + 1 /\ Len(xList) \in Nat
      /\ \A k \in 1..Len(xList) : xList'[k] = xList[k]
      /\ xList'[Len(xList) + 1] = b
  BY AppendProperties, LenProperties DEF Types, TypeOK
<1>2. QED
  BY <1>1 DEF Queued

LEMMA QueuedWithout ==
    ASSUME Types, SingleOwner, NEW i \in 1..Len(xList), xList' = Without(xList, i)
    PROVE  Queued' = Queued \ {xList[i]}
<1>1. /\ Len(xList') = Len(xList) - 1 /\ Len(xList) \in Nat
      /\ \A k \in 1..(Len(xList) - 1) :
            xList'[k] = IF k < i THEN xList[k] ELSE xList[k + 1]
  BY WithoutProperties, LenProperties DEF Types, TypeOK
<1>2. ASSUME NEW k \in 1..Len(xList'), xList'[k] = xList[i]
      PROVE  FALSE
  <2>1. CASE k < i
    BY <1>1, <1>2, <2>1 DEF SingleOwner
  <2>2. CASE ~(k < i)
    BY <1>1, <1>2, <2>2 DEF SingleOwner
  <2>3. QED
    BY <2>1, <2>2
<1>3. ASSUME NEW k \in 1..Len(xList')
      PROVE  xList'[k] \in Queued
  BY <1>1 DEF Queued
<1>4. ASSUME NEW k \in 1..Len(xList), k # i
      PROVE  xList[k] \in Queued'
  <2>1. CASE k < i
    BY <1>1, <1>4, <2>1 DEF Queued
  <2>2. CASE k > i
    <3>1. k - 1 \in 1..Len(xList') /\ xList'[k - 1] = xList[k]
      BY <1>1, <2>2
    <3>2. QED
      BY <3>1 DEF Queued
  <2>3. QED
    BY <1>4, <2>1, <2>2
<1>5. QED
  BY <1>2, <1>3, <1>4 DEF Queued

LEMMA DistinctWithout ==
    ASSUME Types, SingleOwner, NEW i \in 1..Len(xList), xList' = Without(xList, i)
    PROVE  \A k, l \in 1..Len(xList') : xList'[k] = xList'[l] => k = l
<1>1. /\ Len(xList') = Len(xList) - 1 /\ Len(xList) \in Nat
      /\ \A k \in 1..(Len(xList) - 1) :
            xList'[k] = IF k < i THEN xList[k] ELSE xList[k + 1]
  BY WithoutProperties, LenProperties DEF Types, TypeOK
<1> DEFINE at(k) == IF k < i THEN k ELSE k + 1
<1>2. \A k \in 1..Len(xList') : at(k) \in 1..Len(xList) /\ xList'[k] = xList[at(k)]
  BY <1>1
<1>3. \A k, l \in 1..Len(xList') : at(k) = at(l) => k = l
  BY <1>1
<1> HIDE DEF at
<1>4. QED
  BY <1>2, <1>3 DEF SingleOwner

LEMMA SingleOwnerProducer ==
    ASSUME Types, SingleOwner, NEW p \in Producers,
           (\E b \in Blocks, m \in Msgs : Create(p, b, m))
              \/ Push(p) \/ PushFails(p) \/ Post(p)
    PROVE  SingleOwner'
<1> USE ThreadsAssumption DEF Types, TypeOK, Threads
<1>1. CASE \E b \in Blocks, m \in Msgs : Create(p, b, m)
  <2>1. PICK b \in Blocks, m \in Msgs : Create(p, b, m)
    BY <1>1
  <2>2. b \notin Queued /\ \A t \in Threads : pc[t] \in {"append", "use"} => ptr[t] # b
    BY <2>1 DEF Create, Allocated, HoldsFor
  <2>3. Queued' = Queued
    BY <2>1 DEF Create, Queued
  <2>4. QED
    BY <2>1, <2>2, <2>3 DEF Create, SingleOwner
<1>2. CASE Push(p)
  <2>1. ptr[p] \in Blocks /\ ptr[p] \notin Queued
    BY <1>2 DEF Push, PtrOK, SingleOwner
  <2>2. Queued' = Queued \cup {ptr[p]}
    BY <1>2, <2>1, QueuedAppend DEF Push
  <2>3. /\ Len(xList') = Len(xList) + 1 /\ Len(xList) \in Nat
        /\ \A k \in 1..Len(xList) : xList'[k] = xList[k]
        /\ xList'[Len(xList) + 1] = ptr[p]
    BY <1>2, <2>1, AppendProperties, LenProperties DEF Push
  <2>4. \A i, j \in 1..Len(xList') : xList'[i] = xList'[j] => i = j
    BY <2>1, <2>3 DEF SingleOwner, Queued
  <2>5. \A t \in Threads : pc'[t] \in {"append", "use"} =>
            t # p /\ pc[t] = pc'[t] /\ ptr'[t] = ptr[t]
    BY <1>2 DEF Push
  <2>6. \A t \in Threads : pc'[t] \in {"append", "use"} => ptr'[t] \notin Queued'
    BY <1>2, <2>2, <2>5 DEF Push, SingleOwner
  <2>7. QED
    BY <2>4, <2>5, <2>6 DEF SingleOwner
<1>3. CASE PushFails(p)
  BY <1>3 DEF PushFails, SingleOwner, Queued
<1>4. CASE Post(p)
  BY <1>4 DEF Post, SingleOwner, Queued
<1>5. QED
  BY <1>1, <1>2, <1>3, <1>4

LEMMA SingleOwnerConsumer ==
    ASSUME Types, SingleOwner, NEW c \in Consumers, ConsumerStep(c) \/ Leave(c)
    PROVE  SingleOwner'
<1> USE ThreadsAssumption DEF Types, TypeOK, Threads
<1>1. CASE Wait(c)
  BY <1>1 DEF Wait, SingleOwner, Queued
<1>2. CASE GetAt(c)
  BY <1>2 DEF GetAt, SingleOwner, Queued
<1>3. CASE Remove(c)
  <2>1. PICK i \in 1..Len(xList) : xList[i] = ptr[c] /\ xList' = Without(xList, i)
    BY <1>3 DEF Remove
  <2>2. Queued' = Queued \ {ptr[c]} /\ ptr[c] \in Queued
    BY <2>1, QueuedWithout DEF Queued
  <2>3. \A k, l \in 1..Len(xList') : xList'[k] = xList'[l] => k = l
    BY <2>1, DistinctWithout
  <2>4. ptr' = ptr /\ \A t \in Threads : t # c => pc'[t] = pc[t]
    BY <1>3 DEF Remove
  <2>5. QED
    BY <2>2, <2>3, <2>4 DEF SingleOwner
<1>4. CASE RemoveFails(c)
  BY <1>4 DEF RemoveFails, SingleOwner, Queued
<1>5. CASE Repost(c)
  BY <1>5 DEF Repost, SingleOwner, Queued
<1>6. CASE Destroy(c)
  BY <1>6 DEF Destroy, SingleOwner, Queued
<1>7. CASE Leave(c)
  BY <1>7 DEF Leave, SingleOwner, Queued
<1>8. QED
  BY <1>1, <1>2, <1>3, <1>4, <1>5, <1>6, <1>7 DEF ConsumerStep

LEMMA SingleOwnerStep == Types /\ SingleOwner /\ [Next]_vars => SingleOwner'
<1> SUFFICES ASSUME Types, SingleOwner, [Next]_vars PROVE SingleOwner'
  OBVIOUS
<1>1. CASE \E p \in Producers :
              (\E b \in Blocks, m \in Msgs : Create(p, b, m))
                 \/ Push(p) \/ PushFails(p) \/ Post(p)
  BY <1>1, SingleOwnerProducer
<1>2. CASE \E c \in Consumers : ConsumerStep(c) \/ Leave(c)
  BY <1>2, SingleOwnerConsumer
<1>3. CASE Final
  <2>1. Queued' = {} /\ Len(xList') = 0
    BY <1>3, EmptySeq DEF Final, Queued
  <2>2. QED
    BY <1>3, <2>1 DEF Final, SingleOwner
<1>4. CASE UNCHANGED vars
  BY <1>4 DEF vars, SingleOwner, Queued
<1>5. QED
  BY <1>1, <1>2, <1>3, <1>4 DEF Next, ConsumerStep

\* No message block is ever freed twice or used after its free, with any
\* number of threads and whatever blocks malloc hands out again.
THEOREM BlocksHaveOneOwner == Spec => []SingleOwner
<1>1. Init => Types /\ SingleOwner
  <2>1. Init => SingleOwner
    BY EmptySeq DEF Init, SingleOwner, Queued, Threads
  <2>2. QED
    BY <2>1, TypesInit
<1>2. Types /\ SingleOwner /\ [Next]_vars => (Types /\ SingleOwner)'
  BY TypesStep, SingleOwnerStep
<1>3. QED
  BY <1>1, <1>2, PTL DEF Spec

-------------------------------------------------------------------------------
\* Blocks that hold a message nobody has been handed yet.
Filling == HoldsFor({"append"})
Pending == Queued \cup Filling

\* Messages and blocks correspond: a message that is pending is in one block, one
\* that is about to be pushed was not pushed before, and what is handed out was pushed.
MessagesApart ==
    /\ got \subseteq put
    /\ \A b, d \in Pending : body[b] = body[d] => b = d
    /\ \A b \in Filling : body[b] \notin put

Kept == SingleOwner /\ MessagesApart /\ NothingLost

LEMMA KeptInit == Init => Kept
<1> SUFFICES ASSUME Init PROVE Kept
  OBVIOUS
<1>1. Queued = {} /\ Filling = {}
  BY EmptySeq DEF Init, Queued, Filling, HoldsFor, Threads
<1>2. SingleOwner
  BY <1>1, EmptySeq DEF Init, SingleOwner, Threads
<1>3. QED
  BY <1>1, <1>2 DEF Init, Kept, MessagesApart, Pending, NothingLost

\* The blocks in the list are blocks.
LEMMA QueuedAreBlocks == ASSUME Types PROVE Queued \subseteq Blocks
  BY ElementOfSeq DEF Types, TypeOK, Queued

LEMMA FillingAreBlocks == ASSUME Types PROVE Filling \subseteq Blocks
  BY DEF Types, PtrOK, Filling, HoldsFor

\* Only a producer that begins or ends a push changes what is being filled.
LEMMA FillingStays ==
    ASSUME \A t \in Threads : pc'[t] = "append" <=> pc[t] = "append",
           \A t \in Threads : pc[t] = "append" => ptr'[t] = ptr[t]
    PROVE  Filling' = Filling
  BY DEF Filling, HoldsFor

LEMMA KeptProducer ==
    ASSUME Types, Kept, NEW p \in Producers,
           (\E b \in Blocks, m \in Msgs : Create(p, b, m))
              \/ Push(p) \/ PushFails(p) \/ Post(p)
    PROVE  MessagesApart' /\ NothingLost'
<1>0. /\ Queued \subseteq Blocks /\ Filling \subseteq Blocks
      /\ pc \in [Threads -> ProducerPC \cup ConsumerPC]
      /\ ptr \in [Threads -> Blocks \cup {NoBlock}]
      /\ body \in [Blocks -> Msgs] /\ p \in Threads
  BY QueuedAreBlocks, FillingAreBlocks DEF Types, TypeOK, Threads
<1>1. CASE \E b \in Blocks, m \in Msgs : Create(p, b, m)
  <2>1. PICK b \in Blocks, m \in Msgs : Create(p, b, m)
    BY <1>1
  <2>2. b \notin Queued /\ b \notin Filling /\ open
    BY <2>1 DEF Create, Allocated, HoldsFor, Filling
  <2>3. Queued' = Queued
    BY <2>1 DEF Create, Queued
  <2>4. Filling' = Filling \cup {b}
    BY <1>0, <2>1 DEF Create, Filling, HoldsFor
  <2>5. body'[b] = m /\ \A d \in Blocks : d # b => body'[d] = body[d]
    BY <1>0, <2>1 DEF Create
  <2>6. m \notin put /\ \A d \in Filling : body[d] # m
    BY <2>1 DEF Create, Filling
  <2>7. put' = put /\ got' = got /\ open' = open
    BY <2>1 DEF Create
  <2>8. {body'[d] : d \in Queued} = {body[d] : d \in Queued}
    BY <1>0, <2>2, <2>5
  <2>9. \A d \in Queued : body[d] \in put
    BY <2>2 DEF Kept, NothingLost
  <2>10. MessagesApart'
    BY <1>0, <2>2, <2>3, <2>4, <2>5, <2>6, <2>7, <2>9 DEF Kept, MessagesApart, Pending
  <2>11. NothingLost'
    BY <2>3, <2>7, <2>8 DEF Kept, NothingLost
  <2>12. QED
    BY <2>10, <2>11
<1>2. CASE Push(p)
  <2> DEFINE b == ptr[p]
  <2>1. b \in Filling /\ b \in Blocks /\ b \notin Queued
    BY <1>0, <1>2 DEF Push, Filling, HoldsFor, Kept, SingleOwner
  <2>2. Queued' = Queued \cup {b}
    BY <1>2, <2>1, QueuedAppend DEF Push
  <2>3. Filling' = Filling \ {b}
    BY <1>0, <1>2 DEF Push, Filling, HoldsFor, Kept, SingleOwner
  <2>4. body' = body /\ put' = put \cup {body[b]} /\ got' = got /\ open' = open
    BY <1>2 DEF Push
  <2> HIDE DEF b
  <2>5. body[b] \notin put /\ got \subseteq put
    BY <2>1 DEF Kept, MessagesApart
  <2>6. Pending' = Pending
    BY <2>1, <2>2, <2>3 DEF Pending
  <2>7. \A d \in Filling : d # b => body[d] # body[b]
    BY <2>1 DEF Kept, MessagesApart, Pending
  <2>8. MessagesApart'
    BY <2>3, <2>4, <2>6, <2>7 DEF Kept, MessagesApart
  <2>9. NothingLost'
    BY <2>2, <2>4, <2>5 DEF Kept, NothingLost
  <2>10. QED
    BY <2>8, <2>9
<1>3. CASE PushFails(p)
  <2>1. Filling' \subseteq Filling /\ Queued' = Queued
    BY <1>0, <1>3 DEF PushFails, Filling, HoldsFor, Queued
  <2>2. QED
    BY <1>3, <2>1 DEF PushFails, Kept, MessagesApart, NothingLost, Pending
<1>4. CASE Post(p)
  <2>1. Filling' = Filling /\ Queued' = Queued
    BY <1>0, <1>4 DEF Post, Filling, HoldsFor, Queued
  <2>2. QED
    BY <1>4, <2>1 DEF Post, Kept, MessagesApart, NothingLost, Pending
<1>5. QED
  BY <1>1, <1>2, <1>3, <1>4

LEMMA KeptConsumer ==
    ASSUME Types, Kept, NEW c \in Consumers, ConsumerStep(c) \/ Leave(c)
    PROVE  MessagesApart' /\ NothingLost'
<1>0. /\ pc \in [Threads -> ProducerPC \cup ConsumerPC]
      /\ ptr \in [Threads -> Blocks \cup {NoBlock}]
      /\ c \in Threads /\ pc[c] # "append"
  BY DEF Types, TypeOK, Threads, ConsumerPC
<1>1. Filling' = Filling
  <2>1. /\ pc'[c] # "append" /\ body' = body
        /\ \A t \in Threads \ {c} : pc'[t] = pc[t] /\ ptr'[t] = ptr[t]
    BY <1>0 DEF ConsumerStep, Wait, GetAt, Remove, RemoveFails, Repost, Destroy, Leave
  <2>2. QED
    BY <1>0, <2>1, FillingStays
<1>2. CASE Remove(c)
  <2>1. PICK i \in 1..Len(xList) : xList[i] = ptr[c] /\ xList' = Without(xList, i)
    BY <1>2 DEF Remove
  <2>2. Queued' = Queued \ {ptr[c]} /\ ptr[c] \in Queued
    BY <2>1, QueuedWithout DEF Queued, Kept
  <2>3. body' = body /\ put' = put /\ got' = got \cup {body[ptr[c]]} /\ open' = open
    BY <1>2 DEF Remove
  <2>4. open
    BY <1>2 DEF Remove, Types, ClosedOK
  <2>5. body[ptr[c]] \in put
    BY <2>2, <2>4 DEF Kept, NothingLost
  <2>6. {body[b] : b \in Queued \ {ptr[c]}} = {body[b] : b \in Queued} \ {body[ptr[c]]}
    BY <2>2 DEF Kept, MessagesApart, Pending
  <2>7. MessagesApart'
    BY <1>1, <2>2, <2>3, <2>5 DEF Kept, MessagesApart, Pending
  <2>8. NothingLost'
    BY <2>2, <2>3, <2>4, <2>6 DEF Kept, NothingLost
  <2>9. QED
    BY <2>7, <2>8
<1>3. CASE ~Remove(c)
  <2>1. xList' = xList /\ body' = body /\ put' = put /\ got' = got /\ open' = open
    BY <1>3 DEF ConsumerStep, Wait, GetAt, RemoveFails, Repost, Destroy, Leave
  <2>2. Queued' = Queued
    BY <2>1 DEF Queued
  <2>3. QED
    BY <1>1, <2>1, <2>2 DEF Kept, MessagesApart, NothingLost, Pending
<1>4. QED
  BY <1>2, <1>3

LEMMA KeptStep == Types /\ Kept /\ [Next]_vars => Kept'
<1> SUFFICES ASSUME Types, Kept, [Next]_vars PROVE Kept'
  OBVIOUS
<1>0. SingleOwner'
  BY SingleOwnerStep DEF Kept
<1>1. CASE \E p \in Producers :
              (\E b \in Blocks, m \in Msgs : Create(p, b, m))
                 \/ Push(p) \/ PushFails(p) \/ Post(p)
  BY <1>0, <1>1, KeptProducer DEF Kept
<1>2. CASE \E c \in Consumers : ConsumerStep(c) \/ Leave(c)
  BY <1>0, <1>2, KeptConsumer DEF Kept
<1>3. CASE Final
  <2>1. Queued' = {}
    BY <1>3, EmptySeq DEF Final, Queued
  <2>2. Filling' = Filling
    BY <1>3 DEF Final, Filling, HoldsFor
  <2>3. QED
    BY <1>0, <1>3, <2>1, <2>2 DEF Final, Kept, MessagesApart, NothingLost, Pending
<1>4. CASE UNCHANGED vars
  BY <1>0, <1>4 DEF vars, Kept, MessagesApart, NothingLost, Pending, Filling, HoldsFor, Queued
<1>5. QED
  BY <1>1, <1>2, <1>3, <1>4 DEF Next, ConsumerStep

\* What was pushed and not handed out is in the list and nothing else is, with any
\* number of producers and consumers and whatever blocks malloc hands out again.
THEOREM NoMessageLost == Spec => []NothingLost
<1>1. Init => Types /\ Kept
  BY TypesInit, KeptInit
<1>2. Types /\ Kept /\ [Next]_vars => (Types /\ Kept)'
  BY TypesStep, KeptStep
<1>3. Types /\ Kept => NothingLost
  BY DEF Kept
<1>4. QED
  BY <1>1, <1>2, <1>3, PTL DEF Spec

-------------------------------------------------------------------------------
(* One consumer: the queue is a channel.                                       *)

\* What the list says to a thread that knows nothing of blocks.
Chan == [i \in 1..Len(xList) |-> body[xList[i]]]

\* The pointer the only consumer has looked at is still the first one.
HoldsHead ==
    \A c \in Consumers : pc[c] = "remove" => xList # <<>> /\ ptr[c] = Head(xList)

OneConsumer == \A c, d \in Consumers : c = d

LEMMA HoldsHeadStep ==
    ASSUME OneConsumer, Types, HoldsHead, [Next]_vars
    PROVE  HoldsHead'
<1>0. /\ xList \in Seq(Blocks) /\ pc \in [Threads -> ProducerPC \cup ConsumerPC]
      /\ ptr \in [Threads -> Blocks \cup {NoBlock}]
      /\ Consumers \subseteq Threads /\ Producers \subseteq Threads
  BY DEF Types, TypeOK, Threads
<1>1. ASSUME NEW p \in Producers,
             (\E b \in Blocks, m \in Msgs : Create(p, b, m)) \/ PushFails(p) \/ Post(p)
      PROVE  HoldsHead'
  BY <1>0, <1>1, ThreadsAssumption DEF Create, PushFails, Post, HoldsHead
<1>2. ASSUME NEW p \in Producers, Push(p)
      PROVE  HoldsHead'
  <2>1. ptr[p] \in Blocks
    BY <1>0, <1>2 DEF Push, Types, PtrOK
  <2>2. xList # <<>> => xList' # <<>> /\ Head(xList') = Head(xList)
    BY <1>0, <1>2, <2>1, AppendProperties, HeadTailProperties, LenProperties DEF Push
  <2>3. \A c \in Consumers : pc'[c] = pc[c] /\ ptr'[c] = ptr[c]
    BY <1>0, <1>2, ThreadsAssumption DEF Push
  <2>4. QED
    BY <2>2, <2>3 DEF HoldsHead
<1>3. ASSUME NEW c \in Consumers, ConsumerStep(c) \/ Leave(c)
      PROVE  HoldsHead'
  <2> SUFFICES ASSUME pc'[c] = "remove" PROVE xList' # <<>> /\ ptr'[c] = Head(xList')
    BY DEF OneConsumer, HoldsHead
  <2>1. GetAt(c) /\ xList # <<>>
    BY <1>0, <1>3 DEF ConsumerStep, Wait, GetAt, Remove, RemoveFails, Repost, Destroy, Leave
  <2>2. QED
    BY <1>0, <2>1 DEF GetAt
<1>4. CASE Final
  BY <1>4 DEF Final, HoldsHead
<1>5. CASE UNCHANGED vars
  BY <1>5 DEF vars, HoldsHead
<1>6. QED
  BY <1>1, <1>2, <1>3, <1>4, <1>5 DEF Next, ConsumerStep

LEMMA ChanAppend ==
    ASSUME Types, NEW b \in Blocks, xList' = Append(xList, b), body' = body
    PROVE  Chan' = Append(Chan, body[b])
<1>1. /\ Len(xList') = Len(xList) + 1 /\ Len(xList) \in Nat
      /\ \A k \in 1..Len(xList) : xList'[k] = xList[k] /\ xList[k] \in Blocks
      /\ xList'[Len(xList) + 1] = b
  BY AppendProperties, LenProperties, ElementOfSeq DEF Types, TypeOK
<1>2. body \in [Blocks -> Msgs]
  BY DEF Types, TypeOK
<1>3. Chan \in Seq(Msgs) /\ Len(Chan) = Len(xList)
  BY <1>1, <1>2, IsASeq DEF Chan
<1>4. Append(Chan, body[b]) = [i \in 1..(Len(xList) + 1) |->
                                IF i = Len(xList) + 1 THEN body[b] ELSE Chan[i]]
  BY <1>1, <1>3
<1>5. QED
  BY <1>1, <1>4 DEF Chan

LEMMA ChanTail ==
    ASSUME Types, xList # <<>>, xList' = Without(xList, 1), body' = body
    PROVE  Chan # <<>> /\ Head(Chan) = body[Head(xList)] /\ Chan' = Tail(Chan)
<1>1. xList \in Seq(Blocks) /\ body \in [Blocks -> Msgs]
  BY DEF Types, TypeOK
<1>2. Len(xList) \in Nat /\ Len(xList) >= 1 /\ Head(xList) = xList[1]
      /\ \A k \in 1..Len(xList) : xList[k] \in Blocks
  BY <1>1, EmptySeq, LenProperties, ElementOfSeq
<1>3. /\ Len(xList') = Len(xList) - 1
      /\ \A k \in 1..(Len(xList) - 1) : xList'[k] = xList[k + 1]
  BY <1>1, <1>2, WithoutProperties
<1>4. Chan \in Seq(Msgs) /\ Len(Chan) = Len(xList)
  BY <1>1, <1>2, IsASeq DEF Chan
<1>5. Chan # <<>> /\ Head(Chan) = body[Head(xList)]
  BY <1>2, <1>4 DEF Chan
<1>6. /\ Tail(Chan) \in Seq(Msgs) /\ Len(Tail(Chan)) = Len(xList) - 1
      /\ \A i \in 1..(Len(xList) - 1) : Tail(Chan)[i] = Chan[i + 1]
  BY <1>4, <1>5, HeadTailProperties
<1>7. /\ Chan' \in Seq(Msgs) /\ Len(Chan') = Len(xList) - 1
      /\ \A i \in 1..(Len(xList) - 1) : Chan'[i] = body[xList[i + 1]]
  <2>1. Chan' = [i \in 1..(Len(xList) - 1) |-> body[xList[i + 1]]]
    BY <1>3 DEF Chan
  <2>2. \A i \in 1..(Len(xList) - 1) : body[xList[i + 1]] \in Msgs
    BY <1>1, <1>2
  <2>3. QED
    BY <1>2, <2>1, <2>2, IsASeq
<1>8. \A i \in 1..(Len(xList) - 1) : Chan[i + 1] = body[xList[i + 1]]
  BY <1>2 DEF Chan
<1>9. QED
  BY <1>2, <1>5, <1>6, <1>7, <1>8, SeqEqual

\* Making or dropping a message, a permit and a look at the head change nothing of
\* the channel.
Silent(p) == (\E b \in Blocks, m \in Msgs : Create(p, b, m)) \/ PushFails(p) \/ Post(p)

LEMMA SilentStutters ==
    ASSUME Types, NEW p \in Producers, Silent(p)
    PROVE  Chan' = Chan /\ put' = put /\ got' = got /\ open' = open
<1>1. CASE \E b \in Blocks, m \in Msgs : Create(p, b, m)
  <2>1. PICK b \in Blocks, m \in Msgs : Create(p, b, m)
    BY <1>1
  <2>2. \A i \in 1..Len(xList) : xList[i] # b /\ xList[i] \in Blocks
    BY <2>1, ElementOfSeq DEF Create, Allocated, Queued, Types, TypeOK
  <2>3. xList' = xList /\ \A i \in 1..Len(xList) : body'[xList[i]] = body[xList[i]]
    BY <2>1, <2>2 DEF Create, Types, TypeOK
  <2>4. QED
    BY <2>1, <2>3 DEF Create, Chan
<1>2. CASE PushFails(p) \/ Post(p)
  BY <1>2 DEF PushFails, Post, Chan
<1>3. QED
  BY <1>1, <1>2 DEF Silent

LEMMA StepIsChannelStep ==
    ASSUME OneConsumer, Types, Kept, HoldsHead, [Next]_vars
    PROVE  [Channel!ChNext]_<<put, Chan, got, open>>
<1> USE DEF Channel!ChNext
<1>1. ASSUME NEW p \in Producers, Silent(p)
      PROVE  UNCHANGED <<put, Chan, got, open>>
  BY <1>1, SilentStutters
<1>2. ASSUME NEW p \in Producers, Push(p)
      PROVE  Channel!ChNext
  <2>1. ptr[p] \in Blocks /\ ptr[p] \in Filling /\ open
    BY <1>2 DEF Push, Types, PtrOK, ClosedOK, Filling, HoldsFor, Threads
  <2>2. body[ptr[p]] \in Msgs /\ body[ptr[p]] \notin put
    BY <2>1 DEF Types, TypeOK, Kept, MessagesApart
  <2>3. Chan' = Append(Chan, body[ptr[p]])
    BY <1>2, <2>1, ChanAppend DEF Push
  <2>4. Channel!Put(body[ptr[p]])
    BY <1>2, <2>1, <2>2, <2>3 DEF Push, Channel!Put, Chan
  <2>5. QED
    BY <2>2, <2>4 DEF Channel!Put
<1>3. ASSUME NEW c \in Consumers, Remove(c)
      PROVE  Channel!ChNext
  <2>1. xList # <<>> /\ ptr[c] = Head(xList) /\ open
    BY <1>3 DEF Remove, HoldsHead, Types, ClosedOK
  <2>2. PICK i \in 1..Len(xList) : /\ \A j \in 1..(i - 1) : xList[j] # ptr[c]
                                  /\ xList' = Without(xList, i)
    BY <1>3 DEF Remove
  <2>3. i = 1
    <3>1. xList[1] = ptr[c] /\ Len(xList) \in Nat
      BY <2>1, LenProperties DEF Types, TypeOK
    <3>2. QED
      BY <2>2, <3>1
  <2>4. Chan # <<>> /\ Head(Chan) = body[ptr[c]] /\ Chan' = Tail(Chan)
    BY <1>3, <2>1, <2>2, <2>3, ChanTail DEF Remove
  <2>5. ptr[c] \in Queued
    BY <1>3 DEF Remove, Queued
  <2>6. body[ptr[c]] \notin got
    BY <2>1, <2>5 DEF Kept, NothingLost
  <2>7. Channel!Take
    BY <1>3, <2>1, <2>4, <2>6 DEF Remove, Channel!Take, Chan
  <2>8. QED
    BY <2>7
<1>4. ASSUME NEW c \in Consumers, ConsumerStep(c) \/ Leave(c), ~Remove(c)
      PROVE  UNCHANGED <<put, Chan, got, open>>
  BY <1>4 DEF ConsumerStep, Wait, GetAt, RemoveFails, Repost, Destroy, Leave, Chan
<1>5. CASE Final
  <2>1. Chan' = <<>>
    BY <1>5, EmptySeq DEF Final, Chan
  <2>2. Channel!Close
    BY <1>5, <2>1 DEF Final, Channel!Close, Chan
  <2>3. QED
    BY <2>2
<1>6. CASE UNCHANGED vars
  BY <1>6 DEF vars, Chan
<1>7. QED
  BY <1>1, <1>2, <1>3, <1>4, <1>5, <1>6 DEF Next, Silent, ConsumerStep

\* With at most one consumer FTM_MSGQ is the channel its callers take it for, for any
\* number of producers, blocks and messages: every push is a Put, every successful
\* removal the Take of the oldest message, the end a Close, and nothing else shows.
THEOREM QueueIsChannel == OneConsumer => (Spec => ImplementsChannel)
<1> SUFFICES ASSUME OneConsumer PROVE Spec => ImplementsChannel
  OBVIOUS
<1>1. Init => Types /\ Kept /\ HoldsHead
  BY TypesInit, KeptInit DEF Init, HoldsHead, Threads
<1>2. Types /\ Kept /\ HoldsHead /\ [Next]_vars => (Types /\ Kept /\ HoldsHead)'
  BY TypesStep, KeptStep, HoldsHeadStep
<1>3. Init => Channel!ChInit
  BY EmptySeq DEF Init, Channel!ChInit
<1>4. Types /\ Kept /\ HoldsHead /\ [Next]_vars => [Channel!ChNext]_(Channel!chVars)
  BY StepIsChannelStep DEF Channel!chVars, Chan
<1>5. QED
  BY <1>1, <1>2, <1>3, <1>4, PTL DEF Spec, ImplementsChannel, Channel!ChSpec
-------------------------------------------------------------------------------
(* Any number of consumers: the queue is a pool.                               *)

\* The messages in the list, for a thread that knows nothing of blocks.
Waiting == {body[b] : b \in Queued}

\* Nothing shows of a step that makes or drops a message, or moves a permit.
LEMMA SilentKeepsPool ==
    ASSUME Types, NEW p \in Producers, Silent(p)
    PROVE  UNCHANGED <<put, Waiting, got, open>>
<1>1. CASE \E b \in Blocks, m \in Msgs : Create(p, b, m)
  <2>1. PICK b \in Blocks, m \in Msgs : Create(p, b, m)
    BY <1>1
  <2>2. b \notin Queued /\ Queued' = Queued /\ Queued \subseteq Blocks
    BY <2>1, QueuedAreBlocks DEF Create, Allocated, Queued
  <2>3. \A d \in Queued : body'[d] = body[d]
    BY <2>1, <2>2 DEF Create, Types, TypeOK
  <2>4. QED
    BY <2>1, <2>2, <2>3 DEF Create, Waiting
<1>2. CASE PushFails(p) \/ Post(p)
  BY <1>2 DEF PushFails, Post, Waiting, Queued
<1>3. QED
  BY <1>1, <1>2 DEF Silent

LEMMA PushAccepts ==
    ASSUME Types, Kept, NEW p \in Producers, Push(p)
    PROVE  body[ptr[p]] \in Msgs /\ Pool!Accept(body[ptr[p]])
<1>1. ptr[p] \in Blocks /\ ptr[p] \in Filling /\ open
  BY DEF Push, Types, PtrOK, ClosedOK, Filling, HoldsFor, Threads
<1>2. body[ptr[p]] \in Msgs /\ body[ptr[p]] \notin put
  BY <1>1 DEF Types, TypeOK, Kept, MessagesApart
<1>3. Queued' = Queued \cup {ptr[p]}
  BY <1>1, QueuedAppend DEF Push
<1>4. QED
  BY <1>1, <1>2, <1>3 DEF Push, Pool!Accept

\* The pointer that is removed may name a newer message than the one looked at; it
\* is the message in the block now that is handed out, and that is taken from the list.
LEMMA RemoveHandsOut ==
    ASSUME Types, Kept, NEW c \in Consumers, Remove(c)
    PROVE  body[ptr[c]] \in Msgs /\ Pool!HandOut(body[ptr[c]])
<1>1. PICK i \in 1..Len(xList) : xList[i] = ptr[c] /\ xList' = Without(xList, i)
  BY DEF Remove
<1>2. ptr[c] \in Queued /\ Queued' = Queued \ {ptr[c]} /\ Queued \subseteq Blocks
  BY <1>1, QueuedWithout, QueuedAreBlocks DEF Queued, Kept
<1>3. open /\ body[ptr[c]] \in Msgs
  BY <1>2 DEF Remove, Types, TypeOK, ClosedOK
<1>4. body[ptr[c]] \in Waiting /\ body[ptr[c]] \notin got
  BY <1>2, <1>3 DEF Kept, NothingLost, Waiting
<1>5. {body[b] : b \in Queued \ {ptr[c]}} = Waiting \ {body[ptr[c]]}
  BY <1>2 DEF Kept, MessagesApart, Pending, Waiting
<1>6. QED
  BY <1>2, <1>3, <1>4, <1>5 DEF Remove, Pool!HandOut, Waiting

LEMMA StepIsPoolStep ==
    ASSUME Types, Kept, [Next]_vars
    PROVE  [Pool!PoolNext]_<<put, Waiting, got, open>>
<1>1. ASSUME NEW p \in Producers, Silent(p)
      PROVE  UNCHANGED <<put, Waiting, got, open>>
  BY <1>1, SilentKeepsPool
<1>2. ASSUME NEW p \in Producers, Push(p)
      PROVE  Pool!PoolNext
  BY <1>2, PushAccepts DEF Pool!PoolNext, Pool!Accept
<1>3. ASSUME NEW c \in Consumers, Remove(c)
      PROVE  Pool!PoolNext
  BY <1>3, RemoveHandsOut DEF Pool!PoolNext, Pool!HandOut
<1>4. ASSUME NEW c \in Consumers, ConsumerStep(c) \/ Leave(c), ~Remove(c)
      PROVE  UNCHANGED <<put, Waiting, got, open>>
  BY <1>4 DEF ConsumerStep, Wait, GetAt, RemoveFails, Repost, Destroy, Leave, Waiting, Queued
<1>5. CASE Final
  <2>1. Queued' = {}
    BY <1>5, EmptySeq DEF Final, Queued
  <2>2. Pool!Discard
    BY <1>5, <2>1 DEF Final, Pool!Discard
  <2>3. QED
    BY <2>2 DEF Pool!PoolNext
<1>6. CASE UNCHANGED vars
  BY <1>6 DEF vars, Waiting, Queued
<1>7. QED
  BY <1>1, <1>2, <1>3, <1>4, <1>5, <1>6 DEF Next, Silent, ConsumerStep

\* However many threads push and pop, FTM_MSGQ is a pool: what was accepted is handed
\* out at most once, by the removal of its block, and is there until then or until the
\* queue is closed.
THEOREM QueueIsPool == Spec => ImplementsPool
<1>1. Init => Types /\ Kept
  BY TypesInit, KeptInit
<1>2. Types /\ Kept /\ [Next]_vars => (Types /\ Kept)'
  BY TypesStep, KeptStep
<1>3. Init => Pool!PoolInit
  BY EmptySeq DEF Init, Pool!PoolInit, Queued
<1>4. Types /\ Kept /\ [Next]_vars => [Pool!PoolNext]_(Pool!poolVars)
  BY StepIsPoolStep DEF Pool!poolVars, Waiting
<1>5. QED
  BY <1>1, <1>2, <1>3, <1>4, PTL DEF Spec, ImplementsPool, Pool!PoolSpec
===============================================================================
