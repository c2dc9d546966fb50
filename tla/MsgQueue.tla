------------------------------- MODULE MsgQueue -------------------------------
(***************************************************************************)
(* FTM_MSGQ (src/common/ftm_msg_queue.c), the queue every thread of the    *)
(* gateway receives its messages from, with the FTM_QUEUE and FTM_LIST     *)
(* calls it is made of and the FTOM_MSG life cycle around it.              *)
(*                                                                         *)
(* The queue is a list of pointers (xList, guarded by the list's own lock, *)
(* so each list call is one step) and a semaphore (xLock) that counts the  *)
(* messages a pop may take.  Neither push nor pop is atomic: push appends  *)
(* and then posts; pop waits, looks at the first pointer, and removes that *)
(* pointer in a second critical section.  Between the steps of one thread  *)
(* the other threads run.                                                  *)
(*                                                                         *)
(* Messages live in heap blocks.  A block that was freed can be handed out *)
(* again by malloc, so a pointer compared by FTM_LIST_remove may name a    *)
(* newer message than the one FTM_LIST_getAt returned.                     *)
(***************************************************************************)
EXTENDS Naturals, Sequences, FiniteSets

CONSTANTS Producers,   \* threads that push
          Consumers,   \* threads that pop
          Blocks,      \* heap blocks a message may be allocated in
          Msgs,        \* messages of a run (bounds the number of pushes)
          NoBlock      \* a pointer that names no block

ASSUME ThreadsAssumption ==
    /\ IsFiniteSet(Producers) /\ IsFiniteSet(Consumers)
    /\ Producers \cap Consumers = {}

ASSUME BlocksAssumption == NoBlock \notin Blocks

VARIABLES xList,       \* the pointers in the queue, oldest first
          xLock,       \* value of the semaphore
          pc,          \* where each thread is in its call
          ptr,         \* the pMsg of each thread
          body,        \* the message last written into each block
          put, got,    \* history: messages pushed, messages handed to a consumer
          open         \* FALSE once FTM_MSGQ_final ran

vars == <<xList, xLock, pc, ptr, body, put, got, open>>

Threads == Producers \cup Consumers

ProducerPC == {"idle", "append", "post"}
ConsumerPC == {"idle", "getAt", "remove", "repost", "use", "gone"}

TypeOK ==
    /\ xList \in Seq(Blocks)
    /\ xLock \in Nat
    /\ pc \in [Threads -> ProducerPC \cup ConsumerPC]
    /\ \A p \in Producers : pc[p] \in ProducerPC
    /\ \A c \in Consumers : pc[c] \in ConsumerPC
    /\ ptr \in [Threads -> Blocks \cup {NoBlock}]
    /\ body \in [Blocks -> Msgs]
    /\ put \subseteq Msgs /\ got \subseteq Msgs
    /\ open \in BOOLEAN

\* The blocks malloc has handed out and nobody has freed yet: those in the
\* queue, those a producer is about to append, those a consumer is using.
Queued    == {xList[i] : i \in 1..Len(xList)}
HoldsFor(states) == {ptr[t] : t \in {u \in Threads : pc[u] \in states}}
Allocated == Queued \cup HoldsFor({"append", "use"})

Init ==
    /\ xList = <<>>
    /\ xLock = 0
    /\ pc = [t \in Threads |-> "idle"]
    /\ ptr = [t \in Threads |-> NoBlock]
    /\ body \in [Blocks -> Msgs]
    /\ put = {} /\ got = {}
    /\ open = TRUE

-------------------------------------------------------------------------------
\* FTOM_MSG_create*: a free block receives a message that was never pushed.
Create(p, b, m) ==
    /\ open /\ pc[p] = "idle"
    /\ b \notin Allocated
    /\ m \notin put /\ m \notin {body[d] : d \in HoldsFor({"append"})}
    /\ body' = [body EXCEPT ![b] = m]
    /\ ptr' = [ptr EXCEPT ![p] = b]
    /\ pc' = [pc EXCEPT ![p] = "append"]
    /\ UNCHANGED <<xList, xLock, put, got, open>>

\* Fault: the message goes in at the wrong end of the list.
PushAtFront(p) ==
    /\ pc[p] = "append"
    /\ xList' = <<ptr[p]>> \o xList
    /\ put' = put \cup {body[ptr[p]]}
    /\ pc' = [pc EXCEPT ![p] = "post"]
    /\ ptr' = [ptr EXCEPT ![p] = NoBlock]
    /\ UNCHANGED <<xLock, body, got, open>>

\* Fault: push returns without the post.
PushWithoutPost(p) ==
    /\ pc[p] = "append"
    /\ xList' = Append(xList, ptr[p])
    /\ put' = put \cup {body[ptr[p]]}
    /\ pc' = [pc EXCEPT ![p] = "idle"]
    /\ ptr' = [ptr EXCEPT ![p] = NoBlock]
    /\ UNCHANGED <<xLock, body, got, open>>

\* FTM_QUEUE_push: FTM_LIST_append under the list's lock.
Push(p) ==
    /\ pc[p] = "append"
    /\ xList' = Append(xList, ptr[p])
    /\ put' = put \cup {body[ptr[p]]}
    /\ pc' = [pc EXCEPT ![p] = "post"]
    /\ ptr' = [ptr EXCEPT ![p] = NoBlock]
    /\ UNCHANGED <<xLock, body, got, open>>

\* FTM_LIST_append found no memory for the entry: no post, and the caller
\* destroys the message.
PushFails(p) ==
    /\ pc[p] = "append"
    /\ pc' = [pc EXCEPT ![p] = "idle"]
    /\ ptr' = [ptr EXCEPT ![p] = NoBlock]
    /\ UNCHANGED <<xList, xLock, body, put, got, open>>

\* The sem_post at the end of a successful FTM_MSGQ_push.
Post(p) ==
    /\ pc[p] = "post"
    /\ xLock' = xLock + 1
    /\ pc' = [pc EXCEPT ![p] = "idle"]
    /\ UNCHANGED <<xList, ptr, body, put, got, open>>

-------------------------------------------------------------------------------
\* sem_wait or sem_timedwait got a permit.  A timeout changes nothing and
\* leaves the consumer where it is.
Wait(c) ==
    /\ open /\ pc[c] = "idle"
    /\ xLock > 0
    /\ xLock' = xLock - 1
    /\ pc' = [pc EXCEPT ![c] = "getAt"]
    /\ UNCHANGED <<xList, ptr, body, put, got, open>>

\* FTM_LIST_getAt(0), the first half of FTM_QUEUE_pop.
GetAt(c) ==
    /\ pc[c] = "getAt"
    /\ IF xList # <<>>
       THEN /\ ptr' = [ptr EXCEPT ![c] = Head(xList)]
            /\ pc' = [pc EXCEPT ![c] = "remove"]
       ELSE /\ pc' = [pc EXCEPT ![c] = "repost"]
            /\ UNCHANGED ptr
    /\ UNCHANGED <<xList, xLock, body, put, got, open>>

\* The queue without its i-th entry.
Without(q, i) == [k \in 1..(Len(q) - 1) |-> IF k < i THEN q[k] ELSE q[k + 1]]

\* Fault: the head is removed, whatever pointer was looked at.
RemoveHead(c) ==
    /\ pc[c] = "remove"
    /\ xList # <<>>
    /\ xList' = Tail(xList)
    /\ got' = got \cup {body[ptr[c]]}
    /\ pc' = [pc EXCEPT ![c] = "use"]
    /\ UNCHANGED <<xLock, ptr, body, put, open>>

\* FTM_LIST_remove: the first entry that holds the pointer is unlinked and
\* the message belongs to the consumer.
Remove(c) ==
    /\ pc[c] = "remove"
    /\ \E i \in 1..Len(xList) :
          /\ xList[i] = ptr[c]
          /\ \A j \in 1..(i - 1) : xList[j] # ptr[c]
          /\ xList' = Without(xList, i)
    /\ got' = got \cup {body[ptr[c]]}
    /\ pc' = [pc EXCEPT ![c] = "use"]
    /\ UNCHANGED <<xLock, ptr, body, put, open>>

\* Fault: the result of FTM_LIST_remove is ignored.
RemoveFailsIgnored(c) ==
    /\ pc[c] = "remove"
    /\ ptr[c] \notin Queued
    /\ pc' = [pc EXCEPT ![c] = "use"]
    /\ UNCHANGED <<xList, xLock, ptr, body, put, got, open>>

\* FTM_LIST_remove no longer finds the pointer: another consumer was faster.
RemoveFails(c) ==
    /\ pc[c] = "remove"
    /\ ptr[c] \notin Queued
    /\ pc' = [pc EXCEPT ![c] = "repost"]
    /\ UNCHANGED <<xList, xLock, ptr, body, put, got, open>>

\* Fault: the permit of a failed pop is not given back.
RepostForgotten(c) ==
    /\ pc[c] = "repost"
    /\ pc' = [pc EXCEPT ![c] = "idle"]
    /\ ptr' = [ptr EXCEPT ![c] = NoBlock]
    /\ UNCHANGED <<xList, xLock, body, put, got, open>>

\* FTM_MSGQ_pop gives the permit back when FTM_QUEUE_pop failed.
Repost(c) ==
    /\ pc[c] = "repost"
    /\ xLock' = xLock + 1
    /\ pc' = [pc EXCEPT ![c] = "idle"]
    /\ ptr' = [ptr EXCEPT ![c] = NoBlock]
    /\ UNCHANGED <<xList, body, put, got, open>>

\* The consumer has handled the message and FTOM_MSG_destroy frees it.
Destroy(c) ==
    /\ pc[c] = "use"
    /\ pc' = [pc EXCEPT ![c] = "idle"]
    /\ ptr' = [ptr EXCEPT ![c] = NoBlock]
    /\ UNCHANGED <<xList, xLock, body, put, got, open>>

\* The consumer's thread leaves its loop (bStop), between two pops.
Leave(c) ==
    /\ pc[c] = "idle"
    /\ pc' = [pc EXCEPT ![c] = "gone"]
    /\ UNCHANGED <<xList, xLock, ptr, body, put, got, open>>

\* FTM_MSGQ_final: the owner, which has joined the consumers and stopped the
\* producers, pops and frees what is left and destroys the semaphore.
Final ==
    /\ open
    /\ \A c \in Consumers : pc[c] = "gone"
    /\ \A p \in Producers : pc[p] = "idle"
    /\ xList' = <<>>
    /\ open' = FALSE
    /\ UNCHANGED <<xLock, pc, ptr, body, put, got>>

ProducerStep(p) == Push(p) \/ PushFails(p) \/ Post(p)

ConsumerStep(c) ==
    Wait(c) \/ GetAt(c) \/ Remove(c) \/ RemoveFails(c) \/ Repost(c) \/ Destroy(c)

Next ==
    \/ \E p \in Producers : \/ \E b \in Blocks, m \in Msgs : Create(p, b, m)
                            \/ Push(p) \/ PushFails(p) \/ Post(p)
    \/ \E c \in Consumers : \/ Wait(c) \/ GetAt(c) \/ Remove(c) \/ RemoveFails(c)
                            \/ Repost(c) \/ Destroy(c) \/ Leave(c)
    \/ Final

Spec == Init /\ [][Next]_vars

\* Every thread that is inside a call continues with it, and a consumer that
\* has not left its loop keeps calling pop.  Creating messages and leaving
\* the loop are not forced.
Fairness == /\ \A p \in Producers : WF_vars(ProducerStep(p))
            /\ \A c \in Consumers : WF_vars(ConsumerStep(c))

FairSpec == Spec /\ Fairness

-------------------------------------------------------------------------------
\* Threads whose position stands for one entry of the queue that no permit
\* of the semaphore stands for.
Posting == {p \in Producers : pc[p] = "post"}
Popping == {c \in Consumers : pc[c] \in {"getAt", "remove", "repost"}}

\* The semaphore and the list, which the code updates in separate steps, never
\* drift apart: each queued message is covered by exactly one permit, by a
\* producer that has yet to post it, or by a consumer that already took its
\* permit.  A permit too few strands a message in the queue for good, one too
\* many makes a pop fail on an empty queue.
PermitAccounting ==
    open => Len(xList) = xLock + Cardinality(Posting) + Cardinality(Popping)

\* A message block has one owner: it is queued at most once, and a block that a
\* producer fills or a consumer uses is in nobody else's hands and not in the
\* queue, whatever blocks malloc reuses while other consumers hold stale
\* pointers.  Violated, a message would be freed twice or used after its free.
SingleOwner ==
    /\ \A i, j \in 1..Len(xList) : xList[i] = xList[j] => i = j
    /\ \A t \in Threads : pc[t] \in {"append", "use"} => ptr[t] \notin Queued
    /\ \A t, u \in Threads :
          (/\ pc[t] \in {"append", "use"} /\ pc[u] \in {"append", "use"}
           /\ ptr[t] = ptr[u]) => t = u

\* No message is lost between the ends of the queue: what was pushed and not
\* handed out is in the list until the queue is closed, and nothing else is.
NothingLost ==
    open => {body[b] : b \in Queued} = put \ got

\* A pop that got its permit finds a message at the head of the list: the
\* "queue empty" branch behind sem_wait is never taken, not even when several
\* consumers run.
PermitMeansMessage ==
    \A c \in Consumers : pc[c] = "getAt" /\ open => xList # <<>>

\* A message that was pushed is handed to a consumer, unless all of them have
\* left their loops: a producer's post is never swallowed.
EventuallyDelivered ==
    \A m \in Msgs :
        m \in put ~> (m \in got \/ \A c \in Consumers : pc[c] = "gone")

Channel == INSTANCE MessageChannel WITH
    chan <- [i \in 1..Len(xList) |-> body[xList[i]]]

\* With one consumer the queue is the first-in first-out channel that the
\* threads using FTM_MSGQ take it for.
ImplementsChannel == Channel!ChSpec

Pool == INSTANCE MessagePool WITH pool <- {body[b] : b \in Queued}

\* With several consumers order is lost and nothing else: a message that one
\* consumer looked at while another took it is still handed out to one of them,
\* once, and a consumer that finds its pointer gone has taken nothing.
ImplementsPool == Pool!PoolSpec
===============================================================================
