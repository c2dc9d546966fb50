# Verification of the FTM gateway

This directory holds TLA+ models of the FTM sensor gateway, the TLC
configurations that check them on small instances, and proofs, checked by TLAPS,
of the safety properties for all instances. Paths below are relative to the
repository (`src/` in `PROJECT.json`, which maps every definition to its lines).

    tlc -config SmpCall.cfg MCSmpCall      # a run
    tlapm GatewayCallProofs.tla            # the proofs of a module

## 1. The system

Two daemons make up the product, with clients around them.

- The **gateway** (`ftom/`) reads sensors: a node is a device, an endpoint (EP)
  one of its values. Each node and each endpoint has a thread and a message
  queue; the main thread (`ftom/ftom.c`) receives their data and passes it on to
  the services (SNMP, MQTT and REST clients of cloud services, servers).
- The **data manager** (`ftdm/`) stores nodes, endpoints, samples and logs in an
  SQLite database and serves requests over TCP.

The components, their state, operations and hard behaviours:

| component | state | operations | interacts by | what is hard |
|---|---|---|---|---|
| Message queue (`common/ftm_msg_queue.c`, `ftm_queue.c`) | list of pointers, semaphore | push, pop, timedPop, final | shared memory between threads | push and pop are several critical sections; freed blocks come back |
| Endpoint (`ftom/lib/ftom_ep.c`) | two timers, cache of samples, report interval | sample, report, start, stop, change of the interval, data from SNMP | messages to the main thread, requests to the data manager | report windows in seconds from timers in microseconds; a thread that is late |
| Endpoint data (`ftdm/lib/ftdm_ep.c`, SQL in `ftdm_sqlite.c`) | table; cached count, first and last time, limit | add, delete by position or time, set limit, recreate, boot | called by server sessions | cache and table updated separately; crash between; ties in time |
| Data manager session (`ftdm/lib/ftdm_client.c`, `ftom/lib/ftom_dmc.c`) | socket, lock, time limit | connect, request | TCP | many threads share one socket; late responses; SIGPIPE |
| Data manager server (`ftdm/lib/ftdm_server.c`) | session list, permits | accept, serve, refuse, stop | TCP, a thread per session | sessions end while the stop walks their list |
| Node and endpoint lifecycle (`ftom/node/ftom_node.c`, `ftom/lib/ftom_ep.c`) | `bStop`, `xThread`, queue of each object | start, stop, enable, disable, connect, disconnect | messages and joins between threads | unordered commands; a flag set by the new thread |
| Shared-memory requests (`common/ftm_shared_memory.c`, `ftom/ftom_server.c`) | one buffer, four semaphores | call, receive, respond | shared memory between processes | every wait can run out; late responses |
| Gateway states, synchronisation, services (`ftom/ftom.c`, `ftom_service.c`) | state, service list | start services, sync, start objects, process, quit | all of the above | sync is tried again after a failure half way |
| Gateway objects (`ftom/node/ftom_node.c`, `ftom/lib/ftom_ep.c`, handlers of `ftom/ftom_server.c`) | lists of nodes and endpoints, links | create, destroy, link, unlink | sessions, sync | look-up and append are not one step |
| Gateway server (`ftom/ftom_server.c`) | TCP sessions, permits, pipe, UDP | accept, serve | TCP, UDP, pipe | permit taken before accept; session listed after its thread started |
| Triggers, rules, actions (`ftom/lib/ftom_trigger.c`, ...) | lists, states | update, evaluate, act | messages | never started, see below |
| Object registry (`ftdm/lib/ftdm.c`) | lists beside the tables | create, delete, boot | sessions | endpoints listed twice after a boot |
| Log (`ftdm/lib/ftdm_logger.c`) | table, cached count | add, delete | sessions | never initialised |
| Lists and timers (`common/ftm_list.c`, `ftm_timer.c`) | list, its one iterator; timer events | | shared memory | iterator shared by all threads |
| Network client (`ftom/client/ftom/net/`) | transactions | request, receive | UDP | a late response meets a freed transaction |
| Blocker (`blocker/`), cloud client (`ftom/client/cloud/thingplus/`) | queues, last time the cloud has | notifications, catch-up, publish, acknowledge | UDP to the gateway, MQTT and HTTP to the cloud | four threads move one time; refused and overtaken samples |
| Discovery (`ftom/ftom_discovery.c`) | progress, what was found | start, receive | UDP, timer | a request during a discovery |
| SNMP and Azure clients, node drivers, database text, consoles, CGI, configuration, values | | | | I/O and conversion |

What makes each correct is stated in section 3 for those modelled; for the others:
a session's permit is given back on every path (gateway server), a block shared by
processes survives the death of one of them (shared memory), a discovery asked
for during another is not lost.

Triggers and actions cannot run in the program as it is: `bStop` starts as TRUE,
and `FTOM_TRIGGER_start` (`ftom/lib/ftom_trigger.c:227`) and `FTOM_ACTION_start`
refuse to start while it is. Their lists and rows are modelled, their engines are
not. The log of the data manager is never initialised (`ftdm/main.c:164`).

## 2. How the models are built

One module per component, its actions named after the functions. A step of a
model is what one thread does between two points where another thread or process
can see a difference: a critical section, one system call, one request to the
database. Time limits are steps that are always possible while the waited-for
thing has not come. Operators marked `Fault` are never part of a specification;
each is a definition as a plausible mistake would have made it, and the mutants
of `PROJECT.json` put it in place of the right one to see the property fail.

`MC*.tla` give the constants that a `.cfg` cannot. `*Proofs.tla` hold theorems.
`GatewayInvariants` holds definitions for `GatewayProofs` alone.

| module | models | state | actions |
|---|---|---|---|
| `MessageChannel` | what a queue promises: first in, first out, once | `put`, `chan`, `got`, `open` | `Put`, `Take`, `Close` |
| `MessagePool` | what is left of it for several consumers: every message once, in any order | `put`, `pool`, `got`, `open` | `Accept`, `HandOut`, `Discard` |
| `MsgQueue` | `FTM_MSGQ` with its list and semaphore, and the heap blocks of the messages | `xList`, `xLock`, per thread `pc` and `ptr`, `body` of each block | `Create`, `Push`, `Post`; `Wait`, `GetAt`, `Remove`, `Repost`, `Destroy`; `Final` |
| `EPReport` | `FTOM_EP_threadMain`: sampling, cache, reports | `xUpdateTimer`, `xReportTimer`, `xDataList`, `xMsgQ` | `Update`, `Get`, `Report` (`Publish` or `PublishFails`), `TimedOut`, `Message`, `Send`, `Start`, `Stop`, `StopCancels`, `SetReportInterval` |
| `EPData` | the samples of one endpoint in the data manager | `rows` (survives), `ulCount`, `ulFirstTime`, `ulLastTime`, `xLimit` | `AddData` and `Insert` (a crash or failure may come between), `DeleteData`, `DeleteDataWithTime`, `SetDataLimit`, `SetFields`, `Restart`, `RestartUnread`, `Recreate` |
| `DmcSession` | `FTDMC_request` from several threads, the serving thread at the other end | `xLock`, `hSock`, `nTimeout`, streams in both directions | `Connect`, `SetTimeout`, `LockSet`, `Send`, `Recv`, `TimeOut`, `LockReset`; `Receive`, `Execute`, `Respond`, `End` |
| `SisServer` | `FTDM_SIS_process` and its sessions | `pSessionList`, `xSemaphore`, place of each thread | `Accept`, `Stop`, `EndSession`, `Joined`, `Finish`; `Admit`, `Refuse`, `ReceiveRequest`, `ExecuteRequest`, `SendResponse`, `Destroy`, `Post`; `PeerConnects`, `PeerRequests`, `PeerHangsUp` |
| `NodeLifecycle` | threads of a node and of its endpoints under start, stop, enable, disable, connect | `bStop`, `quits`, `xThread`, `bEnable`, `bConnected`, place of each thread | `StartEP`, `StopEP` (`TellEP`: `PushQuit` or `Cancel`), `JoinEP`, `NodeTry`, `NodeConnect`, `NodeQuit`, `StopNode`, `QuitNode`, `JoinNode`, `EPDies`, `NodeDies`, ... |
| `SmpCall` | `FTM_SMP_call`, `FTM_SMP_receiveReq`, `FTM_SMP_sendResp`, the serving loop | `xNotUse`, `xReq`, `xResp`, `pLocker`, `pBuff`, place of each process | `Call`, `Enter`, `Lock`, `Put`, `Unlock`, `Answer`, `Get`, `Leave` and their time-outs; `ReceiveReq`, `Read`, `Serve`, `Write`, `Drop` |
| `RemoteCall` | what a client takes `FTM_SMP_call` for: a request is executed once and brings its own answer | per caller `stage` and `answer`, `kept` | `Begin`, `Ask`, `Execute`, `Return`, `Fail`, `LeaveBehind` |
| `Registry` | the data manager's nodes, endpoints, triggers, actions and rules, in table and list | `table`, `row` (survive), `list`, `heap`, `live`, place of each session | `Open`, `LoadRow`, `LoadFails`, `RowsLoaded`, `LoadFile`, `FileFails`, `Serve`, `Crash`; the requests (`AddNode`, `DeleteEP`, `SetEP`, ...) and their steps (`Insert`, `ListNode`, `Unlist`, `Destroy`, `Update`, ...) |
| `Gateway` | `FTOM_TASK_sync` and `FTOM_TASK_start`, and the sessions' handlers that change objects | `row` (the data manager), `obj`, `list`, `state`, `sync`, `job` of each thread | `SyncNodes` ..., `StartNext`; `NODE_create`, `EP_destroy`, `RULE_set`, ...; the steps `LookNode`, `AddNode`, `LinkEP`, `DropEP`, `CreationFails`, ...; `Restart` |
| `NetClient` | `FTOM_NET_CLIENT_request`, its receiver, the gateway's UDP thread and notifications | `ulReqID`, `trans`, `xTransList`, `receiver`, the packets under way | `ReadNumber`, `TakeNumber`, `Perform`, `Completed`, `TimeOver`, `Destroy`; `Receive`, `Deliver`; `ServeRequest`, `AnswerFails`, `SendNotice` |
| `Uplink` | samples from the gateway through the blocker and the Thing+ client to the cloud | `mailbox`, `task`, `tpQueue`, `pGateway`, `mqttQueue`, `flight`, `cloud` | `Sample`, `Notify`, `PublishStatus`, `Forward`, `Begin`, `GetLastTime`, `Count`, `FetchPage`; `Poll`, `SendData`, `ReadGateway`, `ReplaceGateway`; `Publish`, `Refuse`, `Acknowledge`; `LinkDown`, `Dies` |

`MsgQueue` is composed by refinement with `MessageChannel` and `MessagePool`, and
`SmpCall` with `RemoteCall`; the state of two of the others together would be too large
for TLC. They touch at these places: `xMsgQ`
in `EPReport`, `quits` in `NodeLifecycle` and the three queues of `Uplink` are
queues that `MsgQueue` shows to be channels (each is read by one thread, which is
what `ImplementsChannel` needs); the request that `DmcSession` executes is a step of
`EPData` or one of `Registry`'s requests, whose end is a `Call` of `Gateway`; a session of
`SisServer` is the serving thread of `DmcSession`; a node that `Gateway` starts is
one of `NodeLifecycle`; the blocker's requests in `Uplink` are calls of `NetClient`.

What is particular to each:

- **MsgQueue.** A pointer can be reused for another message between the step in
  which a consumer looks at it and the one in which it removes it. With one
  consumer that cannot matter; with two, nothing is lost or owned twice, but
  order is not kept.
- **EPReport.** An instant is a number of ticks, `TicksPerSecond` to the second;
  samples hold whole seconds. Changing the interval or restarting begins a new
  series of reports (`era`), across which a sample may be published again. A report
  may find no memory, for its samples or its message, or no room in the queue of the
  main thread; nobody looks at that, the timer moves on, and `lost` has the samples.
- **EPData.** SQL deletes by time although rows are selected by position, and an
  uninitialised `FTM_ULONG` may hold anything (`Garbage`, 0 or a time). `ulCount`
  has `Width` values and wraps. One session at a time. A boot that cannot read the
  range or the count of a table leaves 0 and serves the endpoint (`RestartUnread`); when
  the table has rows, `forgot` says so, as it does of an object created over an old table.
- **DmcSession.** Requests and responses carry no number that the client checks.
  A caller that times out leaves its response behind, and every later caller
  gets an older one: `AnswerInSequence` says exactly how old. A send to a peer
  that has gone may kill the process (SIGPIPE is handled nowhere). Messages are
  received whole.
- **SisServer.** A refused session stays in the list until the stop. The freed
  memory that the stop reads of a session that is gone is not modelled:
  `FTM_MEM_free` finds no such block and does nothing.
- **NodeLifecycle.** `Patient` says whether commands wait until everything has
  settled. Impatient commands do produce two threads for one object and QUITs
  that nobody reads, and the properties say so; what holds even then is proved.
  Creating a thread and writing `xThread` is one step. When two join a thread at once,
  one of them may return with an error. A stop whose QUIT could not be made cancels the
  thread. `FTOM_MSG_destroy` clears the pointer it is given, so `FTOM_EP_stop` does the
  same when the push failed (`ftom_ep.c:583`, `586`); `FTOM_NODE_stop` does not look at the
  pointer again and joins a thread that knows of nothing (`unsent`). A cancelled thread
  ends somewhere, with `bStop` FALSE and the node connected; the next stop of that object
  joins it a second time. POSIX leaves that undefined: here the call returns, or never
  does (place `"stuck"`).
- **SmpCall.** The locker is created with one permit and posted once more, so it
  lets two in (or one, after a client died with it: `Lockers`). Overlapping
  copies are noticed by `clash`, and a copy that overlaps may be `Torn`. When a
  caller gives up on a posted request, one request or response stays behind for
  good and answers a later call: `RequestsAccounted` counts them. `timeLimits`
  says of a behaviour whether waits run out at all.
- **Registry.** A behaviour is about one kind of object, as the kinds share nothing.
  They differ: the boot loads nodes and endpoints only, lists each endpoint twice
  and leaves the second entry behind when it is deleted; a trigger is never
  listed; a rule is listed under whatever an uninitialised pointer holds. `Flagged` is a
  content with `FTM_EP_FLAG_STATIC`, which an addition sets in the information it stores:
  a node is copied after that, an endpoint before, so its row has the flag and its object
  has not until the next boot or change. In the boot a table may not be read, a row
  passed over, or an object of the configuration file (`File`) not stored or not listed;
  that the second append of an endpoint fails (`ftdm.c:727`) is left out. `astray`
  says whether freed memory was used, `overlap` has what two sessions worked on at
  once, `promised` what an addition was answered with OK about. Started with `-e`
  (`Open(TRUE)`) the process drops its tables and has none until the next start.
- **Gateway.** A thread has a `job` with a place; every call of the data manager and
  every change of a list is a step. `Call` may fail, unsent or with its answer lost,
  and the job goes on, as the code does. A creation may fail before its object is listed
  (`CreationFails`: no class of that model, no memory, no place in the list) and ends the
  job, but for `FTOM_NODE_create`, which does not look whether the list took its node; a
  node may refuse its new attributes; an endpoint that could not be linked is tried once
  more when it is started. Attaching an endpoint and appending it to the
  node's list is one step; stop and look-up are part of a request's first step.
  Identifiers are given (`FTM_makeID` is left out), actions are of the one type that
  can be set, and the threads of the objects are a flag (`run`). A thread that uses
  a freed object ends the behaviour (`lost`) until `Restart`.
- **NetClient.** The client binds to 127.0.0.1: packets are lost, when a buffer is full,
  and neither duplicated nor reordered. A packet too long for its caller posts
  without copying; responses here fit. Registering with the gateway, the list of
  subscribers and its iterator are left out.
- **Uplink.** One endpoint, known to the cloud, and both switches of the
  configuration on (`xServerSync`, `xAutoStatusPublish`; off by default). Of
  `FTOM_BLOCKER_SERVER_sync` the registration is a step that may fail. The last time
  is 0 where the endpoint's state cannot be read, and the range is then turned around.
  A batch that cannot be handed to the cloud client (`ftom_blocker.c:828`) is lost as one
  whose publication is refused; the model loses both in `Refuse`.
  An acknowledgement that comes before the publication is listed is ignored, in the
  model only when it is the last one in flight; mosquitto refuses publications only
  while the link is down. `pGateway` is replaced in one step: that `publishCB` may
  walk the sensors while they are freed (`ftom_tp_restapi.c:617` uses them after a
  failure, too) is left out. The limit of the table is `EPData`'s.

## 3. What the runs show

All runs pass. Sizes are on two workers.

| run | instance | properties |
|---|---|---|
| `queue_one_consumer` | 2 producers, 1 consumer, 3 blocks, 3 messages | `ImplementsChannel` (refinement of `MessageChannel`), `EventuallyDelivered` |
| `queue_two_consumers` | 2 producers, 2 consumers, 3 blocks, 3 messages | `PermitAccounting`, `SingleOwner`, `ImplementsPool` (refinement of `MessagePool`) |
| `report` | intervals of 1, 1.5 and 2 s, 8 half-second ticks, cache of 2, 3 samples, 2 series, any report may fail; 3.1 million states | `AtMostOnce`, `NothingMissed` |
| `ep_data` | times 1..3, limits 0..2, 4 samples, 1 disturbance, restarts anywhere; 145 thousand states | `RangeCovers`, `CountExact`, `NewestKept` |
| `dmc_session` | 3 threads, 3 requests; 46 thousand states | `AnswerInSequence`, `EveryCallReturns` |
| `sis_server` | 2 connections, 1 permit, 2 pending requests; 11 thousand states | `PermitsAccounted`, `NoServiceAfterStop`, `StopReturns`, `HangUpIsNoticed` |
| `node_patient` | 2 endpoints, 2 threads each, 1 patient commander, 1 cancelled thread; 433 thousand states | `OneThread`, `QuitHasReader`, `StopLeavesNothing`, `StopReturns`, `DisabledStops`, `ConnectedHasThread` |
| `smp_call` | 2 callers, 3 calls, with every time limit and with none, 1 or 2 locker permits; 136 thousand states | `NoOverlap`, `RequestsAccounted`, `CallsReturn`, `CallsAnswered`, `ImplementsCall` (refinement of `RemoteCall`) |
| `registry` | 2 sessions, 2 identifiers, 2 contents, 1 object in the file, 3 blocks, 3 requests, 1 failure, deaths anywhere; 617 thousand states | `NeverDangling`, `RowsListed`, `AddsSurvive`, `RowsCurrent` |
| `gateway` | 1 session, 2 nodes (endpoints attach to one), 1 endpoint or 1 other object, 2 events of requests, failed calls, failed creations and deaths; 1.1 million states | `InStep`, `OnceEach`, `LinksSound`, `HasItsNode`, `NoneSkipped` |
| `net_client` | 2 callers, 3 calls, 2 notifications; 408 thousand states | `OwnResponse`, `NoLateTouch` |
| `uplink` | 3 samples, 2 stored at the start, seconds 2 and 3, pages of 1, batches of 2, publications of 1, 1 fault; 341 thousand states | `NothingPassedOver`, `EverythingArrives` |

The modules with a `*Proofs` module have a `TypeOK`, which is proved and therefore not
among the properties of a run.

**The bounds and why they are enough.** Every bound is a constant named in the
module. Two producers and two consumers already race for every pair of steps of
push and pop, and three blocks for as many messages let a block be reused while
a stale pointer is held. Eight half-second ticks hold several reports, with the
thread late by more than an interval. Limits of 0 to 2 with four samples reach
the limit, wrap the count and delete ties; one disturbance is enough to reach
every state in which a cached value is wrong, and restarts that read the table, which
correct them, are not bounded. Three requests let a caller time out, a second get its
response and a third get the second's. Two threads of each object are enough
for a second start to overlap a first; one cancelled thread (`MaxCancels`) is one that the
same stop, a later one or the node's own thread joins again, and two of them passed as
well. Reports that fail are not bounded, nor are QUITs for the node that are thrown away.
In `smp_call`, two callers and three calls
let a caller give up, another take its response, and the first call again.
Waiting for a permit without ever getting it, while others keep calling, needs
unboundedly many calls and is not examined. In `registry` three requests and three
blocks let two sessions work on one identifier while a block is freed and reused.
In `gateway` a session and the main thread already meet at every step; two events are
a request and a failure, two requests, or a failure and the repeated
synchronisation, and with two nodes one can be removed before the other is started.
Two calls at once and a third after one of them gave up, with two notifications,
reach every way of confusing numbers. In `uplink` three samples over pages and
batches smaller than they are make the catch-up ask, divide and go on; one fault
hits every step, and a live sample can overtake the two stored ones.

**Deadlock** is not checked where the system really rests: when all messages,
requests or calls of a run are used up and everything is stopped, nothing is
left to do. That nobody waits for ever before that is what the liveness
properties say. `ep_data`, `registry` and `uplink` never rest, and are checked for
deadlock.

**Fairness.** Weak fairness for a thread that is inside a call or a loop and can
go on: the scheduler of the kernel does not starve it. In `DmcSession` taking
the lock is strongly fair (`FTM_LOCK` is a POSIX semaphore; a waiter that finds it
free again and again is let in); with the unfair choice EveryCallReturns would
only say that other callers can be faster. Nothing is assumed of peers
(`SisServer`), of commanders who have not yet given a command, of callers who need
not call, or, in `CallsReturn`, of the server: it may be stuck with the locker; the
server is fair only in behaviours in which nobody is late (`CallsAnswered`).
`Uplink` has weak fairness of its three threads, of the timer, which fires for
ever, and of the link: a packet that was sent arrives and is acknowledged while the
link is up, and mosquitto connects again (`LinkUp`). Not fair are samples, notifications
(UDP loses them), the clock and faults.

**Exceptions the code forces on the properties.** They are part of the result:
reports of a fraction of a second leave seconds out (`WholeInterval`), and a report that
failed is never made up for (`lost`); an object re-created over an old table, or started
when that could not be read, does not know its rows (`forgot`); limits hold only
while they are not changed and nothing fails (`changes = 0`); an answer after a
time-out is not one's own (`before`, `late = 0`); a refused session is never
cleaned up; a node that connects in the middle of a command (`raced`) leaves
threads behind; a cancelled thread leaves its object running in name and a node connected
(`cancelled`), a stop whose QUIT was thrown away (`unsent`) never returns, and one that joins
a cancelled thread again may not (`"stuck"`); a process killed by SIGPIPE does nothing more; endpoints of the
data manager dangle after a deletion, and identifiers that two sessions work on at
once, or a failed call was about, differ in table and list (`overlap`, `failed`), and an
endpoint just added in its flag; the gateway is out of step in what a call or a creation
failed about, in what two threads made at
once and in what did not fit into the list of identifiers, and lists triggers,
actions and rules twice after a repeated synchronisation; two callers may draw one
number, and notifications are numbered in the same space (`Distinguished`); samples
a live report overtakes, fetched samples whose publication was refused and that the next
batch overtook (both `skipped`), and samples that share a second with another do
not reach the cloud.

## 4. What is proved

The theorems hold for every value of the constants that satisfies the named
assumptions (`ASSUME` in the modules, which TLC evaluates in the runs). Each is
of the form `Spec => []P` by an inductive invariant: `Init => Inv`, every action
preserves it, and it implies `P`; the last step is temporal.

| module | theorems | why the property alone is not inductive |
|---|---|---|
| `MsgQueueProofs` | `TypeCorrect`, `PermitsMatchMessages`, `PermitFindsMessage`, `BlocksHaveOneOwner`; `NoMessageLost`, `QueueIsPool`; `QueueIsChannel` | a pointer to be followed must name a block, and after `Final` no thread is inside a call; for `NoMessageLost`, blocks and pending messages correspond one to one (`MessagesApart`), which is what the pool needs, too; for the channel, the consumer's pointer is still the head (`HoldsHead`) |
| `EPReportProofs` | `PublishedAtMostOnce`, `WholeIntervalsMissNothing` | the cache holds samples once and in order, and all that was published lies before the next window; the rest is arithmetic of seconds and ticks |
| `SamplesProofs` | of `EPData`: `TypeCorrect`, `RangeAlwaysCovers`, `NewestSurvive`, `CountIsRight`; of `Uplink`: `UplinkIsTyped`, `NothingPassedOverHolds` | the table is finite and smaller than `Width`; 0 is no end of the range when there are rows; the count is right only while it never exceeds the limit (`CountInv`); for `Uplink` see below |
| `DataManagerProofs` | of `DmcSession`: `TypeCorrect`, `AnswersInSequence`, `ExecutionInOrder`, `OwnAnswersAreDone`, `LockNeverLost`; of `SisServer`: `SisTypeCorrect`, `PermitsAreAccounted`, `StopEndsService`, `StopComesNearer` | responses, the request in hand and the requests under way must be numbered without a gap, and what was sent is answered, given up or waited for; a session is in the list as long as its thread may execute something; the session that is joined was told to stop |
| `NodeLifecycleProofs` | `TypeCorrect`, `StopsAreHeard`, `NeverLeftConnected`; `NeverTwoThreads`, `NoQuitLeftOver`, `StopIsComplete` | the thread that makes `bStop` FALSE true of a node has not left its loop, or was cancelled; under patient commands, what each half of a stop has done and has still to do (`Disciplined`) |
| `RegistryProofs` | `TypeCorrect`, `NothingDangles`, `CreatedStays`, `RowsAreReachable`, `ListAgrees` | a session that is about to free a block has taken it out of the list and is alone with it; what each place of a session says of its block and of its row (`Held`); each row has an author (`Authored`) |
| `GatewayCallProofs` | of `SmpCall`: `TypeCorrect`, `OneCallerAlways`, `RequestsAlwaysAccounted`, `NoOverlapAlways`, `OwnAnswerAlways`, `CallIsRemoteCall`; of `NetClient`: `NetOwnResponse`, `NetNoLateTouch` | until somebody gives up there is at most one request on its way, and what the buffer and the server hold at each place is the caller's; for the refinement, whose request the server read last (`ServiceInv`); of a call over UDP, where its one packet is |
| `GatewayProofs` | `TypeCorrect`, `LinksCorrect`, `LinksHold`, `ListsCorrect`, `KnowsCorrect`, `InStepHolds`, `OnceEachHolds`, `HomesCorrect`, `HasItsNodeHolds`, `StartingCorrect`, `NoneSkippedHolds` | see below: who works on an object alone, what is linked, what is listed, what a thread at each place knows of its object |

The chain in `GatewayCallProofs` is typical. `OneCaller` is inductive with the types.
With it `RequestsAccounted` is, because whether somebody expects an answer depends
on the one caller inside alone. As long as `late = 0` the sum is at most one, so a
caller and the server never copy at once (`Apart`), and `HandshakeInv` can say what
`pBuff` and `pReq` hold. `OwnAnswer` follows, and with it the refinement
`CallIsRemoteCall`: `Put` is `Ask`, `Serve` is `Execute`, `Get` is `Return`, and
every other step is a stutter or a `Fail`. A request counts as executed when `pReq` is the
caller's and the server has left the service; that `pReq` is *not* the caller's before
`Read`, although it keeps its value from call to call, is what `ServiceInv` adds. The
first caller that gives up on a posted request ends the promise (`LeaveBehind`), as from
then on the code keeps none. `NetClient` is the other way into the
gateway, by UDP instead of shared memory; its definitions carry `Net` where both modules
have one of a name. A call has at most one packet, at the gateway, on its way back or in the receiver's hand
(`OnePacket`), and until its response was delivered the call is under way and nothing
was posted to it (`CallSound`).

`QueueIsPool` and `QueueIsChannel` are the refinements of the queue. For any number of
consumers `Push` is the pool's `Accept`, a successful `Remove` its `HandOut` and `Final` its
`Discard`. `Remove` may take out a newer message than the one `GetAt` looked at, when the
block was freed and filled again meanwhile; it is a `HandOut` all the same, of the message
that is in the block now, because queued blocks hold different messages. With at most one consumer the queue is a
channel: `Push` is `Put`, a successful `Remove` is `Take`, `Final` is `Close`, and every
other step is a stutter. What makes `Remove` take the
message that `GetAt` looked at is `HoldsHead`, which two consumers violate.

`ListAgrees` is about two sessions that set one endpoint at once: each writes the
block, then the table from the block. Neither knows of the other, so the invariant
does not look at sessions in turn; it says that for each row there is a block that
holds what the row says, or that some session has written and has yet to bring to the
table. A session that inserts, updates or frees keeps one such author.

`NothingPassedOver` speaks of one time, the last the cloud is known to have; that
time has come a long way. `Behind(T, R)` says that each second up to `T` that has a sample
has one in `R`, and that the present second is not behind `T` unless it has one too:
this is what makes a second that is behind stay behind while samples are stored. The
invariant says it at each place on the way, of a set that shrinks on the way: of a request
that asks from `T + 1`, with all samples that were fetched before; of each sample of an
unfinished page and of a batch, with those in front of it; of each publication, with those
in flight before it; and of what the cloud has, what was read from it, and what is known
of it, with the samples that have arrived or that a publication passed over. A page goes on where the
last one ended because the database sorts by time (`AnswerIs`, from `PlacesInOrder` and
`PlacesAreTaken`: each place in the order is taken by one row). A range that was turned
around is answered from its end, so a page says nothing about what is before it; there
the invariant rests on its end alone, which is the last time the blocker came to.

`GatewayProofs` is the largest; its invariants stand in `GatewayInvariants`. The code has no lock over a request, so an invariant
cannot say what holds between requests; it says what a thread may rely on at the place
it is at. Six invariants build on each other. `Types` says to what kind of object each
pointer in hand leads. `Alone` says that two threads that work on one object, or on an
endpoint and its node, are noted in `history.raced` from the moment they do (also the
endpoint that the destruction of a node has in hand): whoever works on an object that is
not noted is the only one whose steps touch it, which is what the code tacitly assumes.
`Links` says that an endpoint on its way to a node or being destroyed has no node, and
that what is in a node's list has that node; `Lists` that what a thread has found stays
listed, that an endpoint with a node is listed, and that a thread about to list an object
found none. `Knows` says for each object that was not raced for and about which no call
or creation failed what its list and its row say at each place of the thread that works on it, that
they agree when nobody does, and that the synchronisation has still to come to those that
are not listed yet: `InStep` and `OnceEach` are what is left of it at the end. `Homes`
says that an endpoint's node is in its information and has the endpoint in its list, so
that the destruction of a node, which empties that list first, leaves no endpoint behind:
`HasItsNode`. A node that the list did not take is `Loose`: its creator goes on with it, and
nobody else can find it. For `NoneSkipped`, `Roles` says that only the main thread makes nodes that
are not started at once, and only before the synchronisation ends, and `Distinct` that no
pointer is listed twice. `Starting` counts: `Missed` are the places of the list where a node
stands still that nobody stopped and no call failed about. The main thread goes through
the places one to `sync.count`; a node that is removed moves the rest of the list up, so
that one of them may slip behind it unseen. So the missed places that it has passed are at
most as many as nodes were removed, and when it has passed them all that is
`NoneSkipped`. A step is described once, by what it does to the memory (`Deed`), and once
by what it leaves alone (`Minds`), and the invariants are proved from the descriptions
and not from the thirty actions; a failed creation is one of them (`FailDeed`).

**Only model-checked:** the liveness properties (`EventuallyDelivered`,
`EveryCallReturns`, `StopReturns`, `HangUpIsNoticed`, `DisabledStops`, `CallsReturn`,
`CallsAnswered`, `EverythingArrives`): they need fairness and ENABLED, which are
outside the prover. What they rest on besides fairness is proved where it is not obvious: no
permit of a queue is lost (`PermitsMatchMessages`), nor the lock of the data manager
session (`LockNeverLost`), nor the block in shared memory (`OneCallerAlways`), and a server
that stops comes nearer to its end with each step of the thread it waits for
(`StopComesNearer`). Every invariant and every action property that a run checks is
a theorem.

## 5. What is not modelled, and what comes next

`PROJECT.json` lists under "components" every part with its status and reason,
and under "hazards" the places where no property looks. Most of the repository's
lines are not in the models and cannot be: some sixty handlers and as many client
functions that pack and unpack one structure each, consoles and CGI that print
them, drivers that talk to devices, configuration, SQL text, conversion of values and
vendored code. They hold no state and no order of events; where they change an
object the change is a step of `Registry`, `EPData` or `Gateway`.

Left out of the modules above: start-up failures of the servers (bind, listen,
semaphores), the lengths of messages, reads of freed memory beyond noting them, processes that die
while they hold the shared block, `FTDM_removeInvalidData`, the class HHTW, which has a
process of its own, the engines of triggers, actions and rules, the sessions and
permits of the gateway's server, the stop of the gateway (the QUIT of the main thread
sets the state so that services and objects are not stopped, `ftom/ftom.c:1109`,
`659`), discovery, SNMP, and the log.

Further places worth a look that no module reaches: the gateway's session is
appended to its list after its thread started (`ftom/ftom_server.c:1144`); a discovery
requested during another is dropped (`ftom_discovery.c:230`); the blocker's
thread clears `bStop` itself (`ftom_blocker.c:503`); its synchronisation asks for the
endpoints of a node by their places in the list of all endpoints
(`ftom_blocker.c:723`), so that those of later nodes may never be registered; a packet
too large for the reader costs the shared-memory queue a permit
(`ftm_shared_memory.c:320`).

The modules in the order they were written, most important first: `MsgQueue` and
`MessageChannel`, `EPReport`, `EPData`, `DmcSession` and `SisServer`, `NodeLifecycle`,
`SmpCall`, `Registry`, `Gateway`, `NetClient`, `Uplink`. What would come next:

1. The sessions of the gateway's server, to be compared with `SisServer`.
2. Discovery, with the objects it adds to the lists of `Gateway`.
3. Death and restart of processes around the shared block.
