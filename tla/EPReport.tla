------------------------------- MODULE EPReport -------------------------------
(***************************************************************************)
(* The thread of an endpoint (FTOM_EP_threadMain, src/ftom/lib/ftom_ep.c): *)
(* it samples the sensor, keeps the newest samples in a cache, and once    *)
(* per report interval publishes those of the last interval to the main    *)
(* thread, which passes them on to the servers.  Samples also arrive as    *)
(* messages from the SNMP threads, stamped by the device.                  *)
(*                                                                         *)
(* Timers hold an instant, samples hold whole seconds (time(NULL)), and a  *)
(* report covers the seconds after the previous report's and up to its     *)
(* own.  An instant is a number of ticks, TicksPerSecond to the second.    *)
(***************************************************************************)
EXTENDS Integers, Sequences

CONSTANTS TicksPerSecond,   \* resolution of the timers
          UpdateInterval,   \* ulUpdateInterval, in ticks
          Intervals,        \* values ulReportInterval may take, in ticks
          CacheSize,        \* FTOM_EP_CACHED_DATA_COUNT
          MaxSamples,       \* bound: samples of a run
          MaxResets,        \* bound: restarts and interval changes of a run
          MaxQueue,         \* bound: messages waiting for the thread
          MaxTime           \* bound: ticks of a run

ASSUME ResolutionAssumption == TicksPerSecond \in Nat \ {0}
ASSUME IntervalsAssumption == UpdateInterval \in Nat /\ Intervals \subseteq Nat
ASSUME CacheAssumption == CacheSize \in Nat \ {0}
ASSUME BoundsAssumption == MaxSamples \in Nat /\ MaxTime \in Nat

VARIABLES now,              \* the clock
          pc,               \* where the thread is; "off" when bStop is set, "dead"
                            \* when it was cancelled and bStop is not set
          xUpdateTimer, xReportTimer,
          ulReportInterval,
          xDataList,        \* the cached samples, newest first
          xMsgQ,            \* time stamps of the samples waiting as messages
          samples,          \* number of samples stored so far
          era,              \* number of restarts and interval changes so far
          times,            \* how often each sample was published in this era
          lost              \* samples of a report of this era that failed

vars == <<now, pc, xUpdateTimer, xReportTimer, ulReportInterval, xDataList,
          xMsgQ, samples, era, times, lost>>

SampleIds == 1..MaxSamples
Quit      == 0                   \* FTOM_MSG_TYPE_QUIT among the stamps
Seconds(t) == t \div TicksPerSecond
Stamps    == 1..Seconds(MaxTime)

Init ==
    /\ now = 2 * TicksPerSecond
    /\ pc = "off"
    /\ xUpdateTimer = now /\ xReportTimer = now
    /\ ulReportInterval \in Intervals
    /\ xDataList = <<>> /\ xMsgQ = <<>>
    /\ samples = 0 /\ era = 0
    /\ times = [s \in SampleIds |-> 0] /\ lost = {}

-------------------------------------------------------------------------------
\* The next report covers the seconds after WindowStart, up to WindowEnd.
WindowEnd   == Seconds(xReportTimer)
WindowStart == WindowEnd - Seconds(ulReportInterval)

\* FTM_TIMER_isExpired, at the resolution of the model.
Expired(timer) == timer <= now

\* FTOM_EP_setData: the oldest samples make room, the new one goes in front.
\* A sample is late when the report that covers its second is already out.
Store(t) ==
    /\ samples < MaxSamples
    /\ samples' = samples + 1
    /\ xDataList' =
          <<[id |-> samples + 1, ulTime |-> t, era |-> era, late |-> t <= WindowStart]>>
             \o SubSeq(xDataList, 1, IF Len(xDataList) >= CacheSize
                                     THEN CacheSize - 1 ELSE Len(xDataList))

\* What counts as a new series of reports: the windows start over.
NewEra ==
    /\ era < MaxResets
    /\ era' = era + 1
    /\ times' = [s \in SampleIds |-> 0] /\ lost' = {}

-------------------------------------------------------------------------------
Tick ==
    /\ now < MaxTime
    /\ now' = now + 1
    /\ UNCHANGED <<pc, xUpdateTimer, xReportTimer, ulReportInterval, xDataList,
                   xMsgQ, samples, era, times, lost>>

\* FTOM_EP_start and the first statements of the thread: both timers are due
\* at once.
Start ==
    /\ pc = "off"
    /\ NewEra
    /\ xUpdateTimer' = now /\ xReportTimer' = now
    /\ pc' = "update"
    /\ UNCHANGED <<now, ulReportInterval, xDataList, xMsgQ, samples>>

\* The head of the loop: is a sample due?
Update ==
    /\ pc = "update"
    /\ pc' = IF Expired(xUpdateTimer) THEN "get" ELSE "report"
    /\ UNCHANGED <<now, xUpdateTimer, xReportTimer, ulReportInterval, xDataList,
                   xMsgQ, samples, era, times, lost>>

\* FTOM_EP_remoteGetData came back, after any time, with a sample or an error.
Get ==
    /\ pc = "get"
    /\ \/ Store(Seconds(now))
       \/ UNCHANGED <<samples, xDataList>>
    /\ xUpdateTimer' = xUpdateTimer + UpdateInterval
    /\ pc' = "report"
    /\ UNCHANGED <<now, xReportTimer, ulReportInterval, xMsgQ, era, times, lost>>

\* Fault: both ends of the interval belong to it.
BothEndsInWindow(t) == WindowStart <= t /\ t <= WindowEnd
\* Fault: the last second of the interval is left to the next report.
EndNotInWindow(t) == WindowStart < t /\ t < WindowEnd

\* The test of FTOM_EP_reportDataInTime.
InWindow(t) == WindowStart < t /\ t <= WindowEnd

\* What the report that is due holds.
Batch == {xDataList[i].id : i \in {j \in 1..Len(xDataList) : InWindow(xDataList[j].ulTime)}}

\* FTOM_EP_reportDataInTime queues the samples for the main thread, ...
Publish ==
    /\ times' = [s \in SampleIds |-> IF s \in Batch THEN times[s] + 1 ELSE times[s]]
    /\ UNCHANGED lost

\* ... or has no memory for them or for the message, or no room in the queue.
PublishFails == Batch # {} /\ lost' = lost \cup Batch /\ UNCHANGED times

\* The report, when it is due: nobody looks at whether it went out.
Report ==
    /\ pc = "report"
    /\ \/ /\ Expired(xReportTimer)
          /\ Publish \/ PublishFails
          /\ xReportTimer' = xReportTimer + ulReportInterval
       \/ ~Expired(xReportTimer) /\ UNCHANGED <<times, lost, xReportTimer>>
    /\ pc' = "wait"
    /\ UNCHANGED <<now, xUpdateTimer, ulReportInterval, xDataList, xMsgQ, samples, era>>

\* The wait for messages ends when a timer is due and no message waits.
TimedOut ==
    /\ pc = "wait"
    /\ xMsgQ = <<>>
    /\ Expired(xUpdateTimer) \/ Expired(xReportTimer)
    /\ pc' = "update"
    /\ UNCHANGED <<now, xUpdateTimer, xReportTimer, ulReportInterval, xDataList,
                   xMsgQ, samples, era, times, lost>>

\* FTOM_EP_message in the thread.  There may be no memory to store a sample.
Message ==
    /\ pc = "wait"
    /\ xMsgQ # <<>>
    /\ xMsgQ' = Tail(xMsgQ)
    /\ IF Head(xMsgQ) = Quit
       THEN pc' = "off" /\ UNCHANGED <<samples, xDataList>>
       ELSE /\ Store(Head(xMsgQ)) \/ UNCHANGED <<samples, xDataList>>
            /\ UNCHANGED pc
    /\ UNCHANGED <<now, xUpdateTimer, xReportTimer, ulReportInterval, era, times, lost>>

\* FTOM_EP_sendMessage with a sample: queued for the thread, or handled by the
\* caller when the thread is off.
Send(t) ==
    /\ IF pc = "off"
       THEN Store(t) /\ UNCHANGED xMsgQ
       ELSE /\ samples + Len(xMsgQ) < MaxSamples /\ Len(xMsgQ) < MaxQueue
            /\ xMsgQ' = Append(xMsgQ, t)
            /\ UNCHANGED <<samples, xDataList>>
    /\ UNCHANGED <<now, pc, xUpdateTimer, xReportTimer, ulReportInterval, era, times, lost>>

\* FTOM_EP_stop.  A QUIT that cannot be made or queued is replaced by the end of
\* the thread, which then leaves bStop as it is.
StopCancels ==
    /\ pc \notin {"off", "dead"}
    /\ pc' = "dead"
    /\ UNCHANGED <<now, xUpdateTimer, xReportTimer, ulReportInterval, xDataList,
                   xMsgQ, samples, era, times, lost>>

Stop ==
    /\ pc # "off"
    /\ Len(xMsgQ) < MaxQueue
    /\ xMsgQ' = Append(xMsgQ, Quit)
    /\ UNCHANGED <<now, pc, xUpdateTimer, xReportTimer, ulReportInterval,
                   xDataList, samples, era, times, lost>>

\* FTOM_EP_setReportInterval, called by a server or a cloud client: a report
\* that is not yet due becomes due now.
SetReportInterval(i) ==
    /\ NewEra
    /\ ulReportInterval' = i
    /\ xReportTimer' = IF pc # "off" /\ ~Expired(xReportTimer) THEN now ELSE xReportTimer
    /\ UNCHANGED <<now, pc, xUpdateTimer, xDataList, xMsgQ, samples>>

Thread == Update \/ Get \/ Report \/ TimedOut \/ Message

Next ==
    \/ Tick \/ Start \/ Stop \/ StopCancels
    \/ Update \/ Get \/ Report \/ TimedOut \/ Message
    \/ \E t \in Stamps : Send(t)
    \/ \E i \in Intervals : SetReportInterval(i)

Spec == Init /\ [][Next]_vars

-------------------------------------------------------------------------------
\* A sample is published at most once, however late the thread runs, as long
\* as the thread is not restarted and its interval is not changed: the windows
\* of consecutive reports do not overlap, not even by the second they share.
AtMostOnce == \A s \in SampleIds : times[s] <= 1

WholeInterval == ulReportInterval % TicksPerSecond = 0

\* When the interval is a whole number of seconds, the windows leave no second
\* out: a sample that was cached before the report for its second went out,
\* and is still cached, has been published once, or else was in the one report that
\* failed; a report that failed is not made good, and none of it goes out later.
NothingMissed ==
    WholeInterval => \A i \in 1..Len(xDataList) :
        LET s == xDataList[i]
        IN s.era = era /\ ~s.late /\ s.ulTime <= WindowStart =>
               times[s.id] = IF s.id \in lost THEN 0 ELSE 1
===============================================================================
