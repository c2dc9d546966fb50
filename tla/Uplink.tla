------------------------------- MODULE Uplink -------------------------------
(***************************************************************************)
(* The way of an endpoint's samples to the cloud (src/blocker and          *)
(* src/ftom/client).  Live samples come to the blocker as notifications    *)
(* and go on through the queues of the cloud client and of its MQTT        *)
(* client.  Whatever was missed while the link or the blocker was down is  *)
(* fetched from the gateway by a catch-up, whenever the cloud is connected *)
(* and every time the status timer fires: it asks for the samples after    *)
(* the last time the cloud is known to have (ulServerDataTime), up to now. *)
(*                                                                         *)
(* The blocker's thread, the cloud client's, the MQTT client's and the one *)
(* of the MQTT library run independently; the process may die at any time. *)
(* The library and the cloud are external.  One endpoint, registered in    *)
(* the cloud; both switches of the configuration are on.                   *)
(***************************************************************************)
EXTENDS Naturals, Sequences, FiniteSets, SequencesExt, FiniteSetsExt

CONSTANTS Page,         \* samples in one response of the gateway
          Batch,        \* samples in one message to the MQTT client: 100
          Chunk,        \* samples in one publication
          MaxTime,      \* bound: seconds of the clock
          Old,          \* bound: samples stored when the blocker starts
          MaxRows,      \* bound: samples
          PerSecond,    \* bound: samples of one second
          MaxFlight,    \* bound: publications that are not acknowledged
          MaxFaults     \* bound: lost links, failed requests and hand-overs, deaths, together

ASSUME SizesAssumption == {Page, Batch, Chunk} \subseteq Nat \ {0}
ASSUME UplinkBounds == {MaxTime, Old, MaxRows, PerSecond, MaxFlight, MaxFaults} \subseteq Nat

VARIABLES clock,       \* the second, of both processes
          time,        \* the gateway: the time of each sample stored
          reported,    \* samples it has notified of, or tried to
          mailbox,     \* the blocker's pMsgQ
          task,        \* what the blocker's thread is doing
          bConnected,  \* the cloud client's
          tpQueue,     \* its pMsgQ
          reading,     \* what FTOM_TP_CLIENT_GATEWAY_sync has read
          pGateway,    \* known or not, with ulServerDataTime
          mqttQueue,   \* the MQTT client's pMsgQ, from the batch in work
          linked,      \* MQTT is connected
          flight,      \* publications that are not acknowledged, in order
          arrived,     \* how many of them have arrived
          cloud,       \* samples the cloud has
          faults,      \* counted against the bound
          refused,     \* history: fetched samples whose publication failed
          skipped      \* history: samples that stay behind, see Skips

gatewaySide == <<clock, time, reported>>
cloudClient == <<bConnected, tpQueue, reading, pGateway>>
link        == <<linked, flight, arrived, cloud>>
history     == <<refused, skipped>>
uplinkVars == <<gatewaySide, mailbox, task, cloudClient, mqttQueue, link, faults, history>>

FirstSecond == 2      \* the epoch is long ago: a time of 0 means no limit

Rows == 1..Len(time)
Connected    == [kind |-> "connected",    rows |-> <<>>]
Disconnected == [kind |-> "disconnected", rows |-> <<>>]
Report       == [kind |-> "report",       rows |-> <<>>]
Data(rows)   == [kind |-> "data",         rows |-> rows]

Idle == [at |-> "idle", now |-> 0, total |-> 0, sent |-> 0,
         begin |-> 0, end |-> 0, ascending |-> TRUE, rows |-> <<>>]
Unknown  == [known |-> FALSE, last |-> 0]
NoReading == [going |-> FALSE, last |-> 0]

TimesOf(R) == {time[r] : r \in R}
Latest(R)  == IF R = {} THEN 0 ELSE Max(TimesOf(R))

\* Rows that are out on the link.
OnTheLink == UNION {Range(flight[i].rows) : i \in DOMAIN flight}

Fault == faults < MaxFaults /\ faults' = faults + 1
NoFault == UNCHANGED faults

UplinkInit ==
    /\ clock \in {FirstSecond, FirstSecond + 1}
    /\ time \in {t \in [1..Old -> {FirstSecond, clock}] : \A r \in 2..Old : t[r - 1] <= t[r]}
    /\ reported = Old
    /\ mailbox = <<>> /\ task = Idle
    /\ bConnected = FALSE /\ tpQueue = <<>> /\ reading = NoReading /\ pGateway = Unknown
    /\ mqttQueue = <<>>
    /\ linked = FALSE /\ flight = <<>> /\ arrived = 0 /\ cloud = {}
    /\ faults = 0 /\ refused = {} /\ skipped = {}

-----------------------------------------------------------------------------
(* The gateway and its data manager.                                       *)

Tick ==
    /\ clock < MaxTime
    /\ clock' = clock + 1
    /\ UNCHANGED <<time, reported, mailbox, task, cloudClient, mqttQueue, link, faults, history>>

\* A sample is stored before it can be in a report.
Sample ==
    /\ Len(time) < MaxRows /\ Cardinality({r \in Rows : time[r] = clock}) < PerSecond
    /\ time' = Append(time, clock)
    /\ UNCHANGED <<clock, reported, mailbox, task, cloudClient, mqttQueue, link, faults, history>>

\* The report of the endpoint, as a notification over UDP: it arrives or not.
Notify ==
    /\ reported < Len(time)
    /\ reported' = Len(time)
    /\ \/ mailbox' = Append(mailbox, Data([i \in 1..Len(time) - reported |-> reported + i]))
       \/ UNCHANGED mailbox
    /\ UNCHANGED <<clock, time, task, cloudClient, mqttQueue, link, faults, history>>

-----------------------------------------------------------------------------
(* The blocker's thread.                                                   *)

\* The status timer.  It is slow (a bound): all that was sent before has arrived.
Quiet ==
    /\ task = Idle /\ ~ reading.going /\ mqttQueue = <<>> /\ flight = <<>>
    /\ Range(mailbox \o tpQueue) \subseteq {Disconnected}

PublishStatus ==
    /\ Quiet
    /\ mailbox' = Append(mailbox, Report)
    /\ UNCHANGED <<gatewaySide, task, cloudClient, mqttQueue, link, faults, history>>

\* Everything that is not for the blocker goes to the cloud client, even the
\* DISCONNECTED that came from there.
Forward ==
    /\ task = Idle /\ mailbox # <<>> /\ Head(mailbox).kind \in {"data", "disconnected"}
    /\ mailbox' = Tail(mailbox)
    /\ tpQueue' = Append(tpQueue, Head(mailbox))
    /\ UNCHANGED <<gatewaySide, task, bConnected, reading, pGateway, mqttQueue, link,
                   faults, history>>

\* FTOM_BLOCKER_SERVER_sync may fail before it comes to the catch-up.
BeginsCatchUp == {"connected", "report"}

Begin ==
    /\ task = Idle /\ mailbox # <<>> /\ Head(mailbox).kind \in BeginsCatchUp
    /\ mailbox' = Tail(mailbox)
    /\ \/ task' = [Idle EXCEPT !.at = "last", !.now = clock] /\ NoFault
       \/ Head(mailbox) = Connected /\ task' = Idle /\ Fault
    /\ UNCHANGED <<gatewaySide, cloudClient, mqttQueue, link, history>>

\* The last time the cloud has.  A request for the endpoint's state that fails
\* leaves the end of the range at 0.
GetLastTime ==
    /\ task.at = "last"
    /\ IF pGateway.known
         THEN \E now \in {task.now, 0} :
                /\ task' = [task EXCEPT !.at = "count", !.now = now, !.begin = pGateway.last + 1]
                /\ IF now = 0 THEN Fault ELSE NoFault
         ELSE task' = Idle /\ NoFault
    /\ UNCHANGED <<gatewaySide, mailbox, cloudClient, mqttQueue, link, history>>

\* Fault: the begin of the range is left out.
SelectedAfter(begin, end) == {r \in Rows : begin < time[r] /\ (end = 0 \/ time[r] <= end)}

\* What the statements of the database select: an end of 0 is no end.
Selected(begin, end) == {r \in Rows : begin <= time[r] /\ (end = 0 \/ time[r] <= end)}

\* The client turns a range around that ends before it begins.
AskFor(t, begin) ==
    [t EXCEPT !.begin = IF begin > t.now THEN t.now ELSE begin,
              !.end = IF begin > t.now THEN begin ELSE t.now,
              !.ascending = begin <= t.now, !.rows = <<>>]

Count ==
    /\ task.at = "count"
    /\ LET total == Cardinality(Selected(task.begin, task.now))
       IN \/ /\ task' = IF total = 0 THEN Idle
                        ELSE AskFor([task EXCEPT !.at = "fetch", !.total = total], task.begin)
             /\ NoFault
          \/ task' = Idle /\ Fault
    /\ UNCHANGED <<gatewaySide, mailbox, cloudClient, mqttQueue, link, history>>

\* The order of an answer: by time, one way or the other, and those of one second
\* as they were stored, which is how the database sorts them.
Sooner(r, s) ==
    \/ IF task.ascending THEN time[r] < time[s] ELSE time[r] > time[s]
    \/ time[r] = time[s] /\ r < s

Place(r, R) == Cardinality({s \in R : Sooner(s, r)}) + 1

\* The answer to a request for n rows: the first of the range, or the last.
Answer(n) ==
    LET all == Selected(task.begin, task.end)
    IN [i \in 1..Min({n, Cardinality(all)}) |-> CHOOSE r \in all : Place(r, all) = i]

\* One request; the next one begins after the last row of this one.  A batch is
\* complete when it is full or nothing remains, and is handed to the MQTT client;
\* that this failed is not noticed (see Refuse).
FetchPage ==
    /\ task.at = "fetch"
    /\ LET wanted == Min({Page, Batch - Len(task.rows)})
           page   == Answer(wanted)
           rows   == task.rows \o page
           more   == /\ page # <<>> /\ Len(rows) < Batch
                     /\ Cardinality(Selected(task.begin, task.end)) > wanted
           next   == time[Last(page)]
       IN IF more
            THEN /\ task' = [task EXCEPT !.rows = rows,
                               !.begin = IF task.ascending THEN next + 1 ELSE @,
                               !.end = IF task.ascending THEN @ ELSE next - 1]
                 /\ UNCHANGED mqttQueue
            ELSE /\ task' = IF rows = <<>> \/ task.sent + Len(rows) >= task.total
                            THEN Idle
                            ELSE AskFor([task EXCEPT !.sent = @ + Len(rows)], time[Last(rows)] + 1)
                 /\ mqttQueue' = IF rows = <<>> THEN mqttQueue
                                 ELSE Append(mqttQueue, [rows |-> rows, live |-> FALSE])
    /\ UNCHANGED <<gatewaySide, mailbox, cloudClient, link, faults, history>>

\* A failed request ends the catch-up; what was fetched for this batch is lost.
FetchFails ==
    /\ task.at = "fetch"
    /\ task' = Idle
    /\ Fault
    /\ UNCHANGED <<gatewaySide, mailbox, cloudClient, mqttQueue, link, history>>

BlockerStep == Forward \/ Begin \/ GetLastTime \/ Count \/ FetchPage \/ FetchFails

-----------------------------------------------------------------------------
(* The cloud client's thread.                                              *)

\* It looks at the link only after it found its queue empty.
Poll ==
    /\ tpQueue = <<>> /\ ~reading.going
    /\ bConnected # linked
    /\ bConnected' = linked
    /\ tpQueue' = <<IF linked THEN Connected ELSE Disconnected>>
    /\ UNCHANGED <<gatewaySide, mailbox, task, reading, pGateway, mqttQueue, link, faults, history>>

SendData ==
    /\ tpQueue # <<>> /\ ~reading.going /\ Head(tpQueue).kind = "data"
    /\ tpQueue' = Tail(tpQueue)
    /\ mqttQueue' = Append(mqttQueue, [rows |-> Head(tpQueue).rows, live |-> TRUE])
    /\ UNCHANGED <<gatewaySide, mailbox, task, bConnected, reading, pGateway, link, faults, history>>

OnDisconnected ==
    /\ tpQueue # <<>> /\ ~reading.going /\ Head(tpQueue) = Disconnected
    /\ tpQueue' = Tail(tpQueue)
    /\ mailbox' = Append(mailbox, Disconnected)
    /\ UNCHANGED <<gatewaySide, task, bConnected, reading, pGateway, mqttQueue, link, faults, history>>

\* FTOM_TP_CLIENT_GATEWAY_sync reads over HTTP, and later replaces what it knew.
ReadGateway ==
    /\ tpQueue # <<>> /\ ~reading.going /\ Head(tpQueue) = Connected
    /\ tpQueue' = Tail(tpQueue)
    /\ \/ reading' = [going |-> TRUE, last |-> Latest(cloud)] /\ NoFault
       \/ UNCHANGED reading /\ Fault
    /\ UNCHANGED <<gatewaySide, mailbox, task, bConnected, pGateway, mqttQueue, link, history>>

ReplaceGateway ==
    /\ reading.going
    /\ pGateway' = [known |-> TRUE, last |-> reading.last]
    /\ reading' = NoReading
    /\ mailbox' = Append(mailbox, Connected)
    /\ UNCHANGED <<gatewaySide, task, bConnected, tpQueue, mqttQueue, link, faults, history>>

CloudClientStep == Poll \/ SendData \/ OnDisconnected \/ ReadGateway \/ ReplaceGateway

-----------------------------------------------------------------------------
(* The MQTT client's thread, the library's and the cloud.                  *)

\* What a publication of these rows passes over: older rows that were neither
\* sent before nor are sent with it.  A live report that comes before a
\* catch-up does so, and a fetched batch after one whose publication failed.
Skips(rows, live) ==
    {r \in (IF live THEN Rows ELSE refused) \ (cloud \cup OnTheLink \cup Range(rows)) :
       time[r] < Latest(Range(rows))}

\* Fault: the time of the whole batch.
EndTimeOfBatch(chunk, batch) == Latest(Range(batch))

\* The time that an acknowledgement stands for.
EndTime(chunk, batch) == Latest(Range(chunk))

Published(chunk, batch) == [rows |-> chunk, ulTime |-> EndTime(chunk, batch)]

\* The library takes the publication, connected or not.
Publish ==
    /\ mqttQueue # <<>> /\ Len(flight) < MaxFlight
    /\ LET batch == Head(mqttQueue)
           chunk == SubSeq(batch.rows, 1, Min({Chunk, Len(batch.rows)}))
           rest  == SubSeq(batch.rows, Len(chunk) + 1, Len(batch.rows))
       IN /\ flight' = Append(flight, Published(chunk, batch.rows))
          /\ mqttQueue' = IF rest = <<>> THEN Tail(mqttQueue)
                          ELSE [mqttQueue EXCEPT ![1].rows = rest]
          /\ skipped' = skipped \cup Skips(chunk, batch.live)
          /\ refused' = refused \ Range(chunk)
    /\ UNCHANGED <<gatewaySide, mailbox, task, cloudClient, linked, arrived, cloud, faults>>

\* The library does not take it, and the rest of the batch goes with it.  So does
\* a batch that could not be handed over at all: FetchPage and SendData ignore
\* that and go on, as does the queue from here, so it is lost when its turn comes.
Refuse ==
    /\ mqttQueue # <<>>
    /\ IF linked THEN Fault ELSE NoFault
    /\ mqttQueue' = Tail(mqttQueue)
    /\ refused' = IF Head(mqttQueue).live THEN refused
                  ELSE refused \cup Range(Head(mqttQueue).rows)
    /\ UNCHANGED <<gatewaySide, mailbox, task, cloudClient, link, skipped>>

MQTTStep == Publish \/ Refuse

Arrive ==
    /\ linked /\ arrived < Len(flight)
    /\ arrived' = arrived + 1
    /\ cloud' = cloud \cup Range(flight[arrived'].rows)
    /\ UNCHANGED <<gatewaySide, mailbox, task, cloudClient, mqttQueue, linked, flight,
                   faults, history>>

\* The memory of the process, as after its start.
Fresh ==
    /\ mailbox' = <<>> /\ task' = Idle /\ bConnected' = FALSE /\ tpQueue' = <<>>
    /\ reading' = NoReading /\ pGateway' = Unknown /\ mqttQueue' = <<>>
    /\ linked' = FALSE /\ flight' = <<>> /\ arrived' = 0
    /\ UNCHANGED <<gatewaySide, cloud, history>>

\* FTOM_MQTT_CLIENT_TPGW_publishCB.  Without pGateway the process dies of it.  The
\* code lists a publication after the library took it: until the next one is
\* made an acknowledgement may come too early and is ignored.
Acknowledge ==
    /\ linked /\ arrived > 0
    /\ NoFault
    /\ \E listed \in (IF Len(flight) = 1 THEN BOOLEAN ELSE {TRUE}) :
         IF listed /\ ~ pGateway.known
           THEN Fresh
           ELSE /\ flight' = Tail(flight) /\ arrived' = arrived - 1
                /\ pGateway' = [pGateway EXCEPT !.last =
                                  IF listed THEN Max({@, Head(flight).ulTime}) ELSE @]
                /\ UNCHANGED <<gatewaySide, mailbox, task, bConnected, tpQueue, reading,
                               mqttQueue, linked, cloud, history>>

LinkUp ==
    /\ ~ linked
    /\ linked' = TRUE
    /\ UNCHANGED <<gatewaySide, mailbox, task, cloudClient, mqttQueue, flight, arrived, cloud, faults, history>>

LinkDown ==
    /\ linked /\ Fault
    /\ linked' = FALSE
    /\ UNCHANGED <<gatewaySide, mailbox, task, cloudClient, mqttQueue, flight, arrived, cloud, history>>

Dies == Fault /\ Fresh

UplinkNext ==
    \/ Tick \/ Sample \/ Notify \/ PublishStatus
    \/ BlockerStep \/ CloudClientStep \/ MQTTStep
    \/ Arrive \/ Acknowledge \/ LinkUp \/ LinkDown \/ Dies

UplinkSpec == UplinkInit /\ [][UplinkNext]_uplinkVars

UplinkFairSpec ==
    /\ UplinkSpec
    /\ WF_uplinkVars(PublishStatus)
    /\ WF_uplinkVars(BlockerStep) /\ WF_uplinkVars(CloudClientStep) /\ WF_uplinkVars(MQTTStep)
    /\ WF_uplinkVars(Arrive) /\ WF_uplinkVars(Acknowledge) /\ WF_uplinkVars(LinkUp)

-----------------------------------------------------------------------------
(* Properties.                                                             *)

SharesSecond(r, R) == time[r] \in TimesOf(R)

\* A second that the cloud is known to have is behind us: each sample of it or
\* before it is in the cloud, or a publication passed over it in one of the two
\* ways of Skips, or the same is true of another one of its second, as the
\* requests go by whole seconds.  This is about the catch-ups, whose range
\* begins after that time and so never looks at such a sample again.
NothingPassedOver ==
    pGateway.known =>
      \A r \in Rows : time[r] <= pGateway.last =>
        SharesSecond(r, cloud \cup skipped)

\* Store and forward: once the cloud's gateway is known for good, every sample
\* gets to the cloud in the end, whatever was lost or refused at first, unless a
\* publication passed over it or another sample of its second is there.
EverythingArrives ==
    <>[](pGateway.known) =>
      <>[](\A r \in Rows : SharesSecond(r, cloud \cup skipped))
=============================================================================
