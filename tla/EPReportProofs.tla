---------------------------- MODULE EPReportProofs ----------------------------
(* Proofs about EPReport for any resolution, intervals and cache size.        *)
EXTENDS EPReport, SequenceTheorems, TLAPS

Sample == [id : Nat, ulTime : Int, era : Nat, late : BOOLEAN]

\* The types the arguments below need.
Types ==
    /\ now \in Nat /\ xReportTimer \in Nat
    /\ ulReportInterval \in Intervals
    /\ samples \in 0..MaxSamples /\ era \in Nat
    /\ times \in [SampleIds -> Nat]
    /\ xDataList \in Seq(Sample)
    /\ xMsgQ \in Seq(Int)

\* The cache holds samples of this run, each once, the newest first.
Ordered ==
    /\ \A i \in 1..Len(xDataList) : /\ xDataList[i].id \in 1..samples
                                    /\ xDataList[i].era <= era
    /\ \A i, j \in 1..Len(xDataList) : i < j => xDataList[i].id > xDataList[j].id

\* What was published, or lost with a report that failed, lies before the next window,
\* so that the next report cannot hold it again; a sample not stored yet was in none.
PublishedBefore ==
    /\ \A s \in SampleIds : s > samples => times[s] = 0 /\ s \notin lost
    /\ \A i \in 1..Len(xDataList) :
          times[xDataList[i].id] = 1 \/ xDataList[i].id \in lost
              => xDataList[i].ulTime <= WindowStart

-------------------------------------------------------------------------------
\* Whole seconds: adding two instants never loses a second.
LEMMA DivMod ==
    ASSUME NEW a \in Nat, NEW k \in Nat \ {0}
    PROVE  /\ a \div k \in Nat
           /\ a = (k * (a \div k)) + (a % k)
           /\ a % k \in 0..(k - 1)
  OBVIOUS

LEMMA DivLower ==
    ASSUME NEW a \in Nat, NEW q \in Int, NEW k \in Nat \ {0}, q * k <= a
    PROVE  q <= a \div k
  BY DivMod

LEMMA SecondsSum ==
    ASSUME NEW a \in Nat, NEW b \in Nat
    PROVE  /\ Seconds(a) \in Nat /\ Seconds(b) \in Nat /\ Seconds(a + b) \in Nat
           /\ Seconds(a + b) >= Seconds(a) + Seconds(b)
<1> DEFINE k == TicksPerSecond
<1> DEFINE q == (a \div k) + (b \div k)
<1> DEFINE c == a + b
<1>0. k \in Nat \ {0}
  BY ResolutionAssumption
<1>1. a >= (a \div k) * k /\ b >= (b \div k) * k /\ (a \div k) \in Nat /\ (b \div k) \in Nat
  BY <1>0, DivMod
<1>2. q * k <= c /\ q \in Int /\ c \in Nat
  BY <1>0, <1>1
<1> HIDE DEF q, c
<1>3. q <= c \div k /\ c \div k \in Nat
  BY <1>0, <1>2, DivLower, DivMod
<1>4. QED
  BY <1>1, <1>3 DEF q, c, Seconds

\* The window of the next report starts where this one's ends, or later.
LEMMA WindowsAdvance ==
    ASSUME Types, xReportTimer' = xReportTimer + ulReportInterval,
           ulReportInterval' = ulReportInterval
    PROVE  /\ WindowStart \in Int /\ WindowEnd \in Int /\ WindowStart' \in Int
           /\ WindowStart <= WindowEnd
           /\ WindowEnd <= WindowStart'
<1>1. ulReportInterval \in Nat /\ xReportTimer \in Nat
  BY IntervalsAssumption DEF Types
<1> DEFINE r == xReportTimer
<1> DEFINE u == ulReportInterval
<1>2. /\ Seconds(r) \in Nat /\ Seconds(u) \in Nat /\ Seconds(r + u) \in Nat
      /\ Seconds(r + u) >= Seconds(r) + Seconds(u)
  BY <1>1, SecondsSum
<1>3. WindowEnd = Seconds(r) /\ WindowStart = Seconds(r) - Seconds(u)
  BY DEF WindowEnd, WindowStart
<1>4. WindowStart' = Seconds(r + u) - Seconds(u)
  BY DEF WindowEnd, WindowStart
<1> HIDE DEF r, u
<1>5. QED
  BY <1>2, <1>3, <1>4

LEMMA WindowType == Types => WindowStart \in Int /\ WindowEnd \in Int
<1> SUFFICES ASSUME Types PROVE WindowStart \in Int /\ WindowEnd \in Int
  OBVIOUS
<1>1. ulReportInterval \in Nat /\ xReportTimer \in Nat
  BY IntervalsAssumption DEF Types
<1>2. Seconds(xReportTimer) \in Nat /\ Seconds(ulReportInterval) \in Nat
  BY <1>1, SecondsSum
<1>3. QED
  BY <1>2 DEF WindowStart, WindowEnd

\* Storing a sample puts it in front of the newest of the others.
LEMMA StoreShape ==
    ASSUME Types, NEW t \in Int, Store(t)
    PROVE  /\ xDataList' \in Seq(Sample) /\ samples' = samples + 1
           /\ Len(xDataList') >= 1
           /\ xDataList'[1] = [id |-> samples + 1, ulTime |-> t, era |-> era,
                               late |-> t <= WindowStart]
           /\ \A i \in 2..Len(xDataList') : /\ i - 1 \in 1..Len(xDataList)
                                            /\ xDataList'[i] = xDataList[i - 1]
<1> DEFINE new == [id |-> samples + 1, ulTime |-> t, era |-> era, late |-> t <= WindowStart]
<1> DEFINE n == IF Len(xDataList) >= CacheSize THEN CacheSize - 1 ELSE Len(xDataList)
<1> DEFINE kept == SubSeq(xDataList, 1, n)
<1>1. Len(xDataList) \in Nat /\ \A i \in 1..Len(xDataList) : xDataList[i] \in Sample
  BY LenProperties, ElementOfSeq DEF Types
<1>2. n \in Nat /\ n <= Len(xDataList)
  BY <1>1, CacheAssumption
<1>3. new \in Sample
  BY WindowType DEF Sample, Types
<1>4. xDataList' = <<new>> \o kept /\ samples' = samples + 1
  BY DEF Store
<1> HIDE DEF n, new
<1>5. kept \in Seq(Sample) /\ Len(kept) = n /\ \A i \in 1..n : kept[i] = xDataList[i]
  BY <1>1, <1>2, SubSeqProperties
<1>6. <<new>> \in Seq(Sample) /\ Len(<<new>>) = 1 /\ <<new>>[1] = new
  BY <1>3
<1> HIDE DEF kept
<1>7. /\ xDataList' \in Seq(Sample) /\ Len(xDataList') = 1 + n
      /\ \A i \in 1..(1 + n) : xDataList'[i] = IF i <= 1 THEN <<new>>[i] ELSE kept[i - 1]
  BY <1>4, <1>5, <1>6, ConcatProperties
<1>8. \A i \in 2..Len(xDataList') : i - 1 \in 1..n /\ xDataList'[i] = kept[i - 1]
  BY <1>2, <1>7
<1>9. QED
  BY <1>1, <1>2, <1>4, <1>5, <1>6, <1>7, <1>8 DEF new

-------------------------------------------------------------------------------
Inv == Types /\ Ordered /\ PublishedBefore /\ AtMostOnce

\* A cached sample is in the report exactly when its time is in the window, and then it
\* was in no report before.
LEMMA BatchIsNew ==
    ASSUME Inv, NEW i \in 1..Len(xDataList)
    PROVE  /\ xDataList[i] \in Sample /\ xDataList[i].id \in SampleIds
           /\ xDataList[i].id \in Batch <=> InWindow(xDataList[i].ulTime)
           /\ InWindow(xDataList[i].ulTime)
                => times[xDataList[i].id] = 0 /\ xDataList[i].id \notin lost
<1> DEFINE hits == {j \in 1..Len(xDataList) : InWindow(xDataList[j].ulTime)}
<1>1. /\ Len(xDataList) \in Nat /\ samples \in 0..MaxSamples
      /\ \A j \in 1..Len(xDataList) : xDataList[j] \in Sample
  BY LenProperties, ElementOfSeq DEF Inv, Types
<1>2. xDataList[i].id \in SampleIds
  BY <1>1, BoundsAssumption DEF Inv, Ordered, SampleIds
<1>3. xDataList[i].id \in Batch <=> InWindow(xDataList[i].ulTime)
  <2>1. InWindow(xDataList[i].ulTime) => xDataList[i].id \in Batch
    BY DEF Batch
  <2>2. ASSUME NEW j \in hits, xDataList[j].id = xDataList[i].id PROVE j = i
    <3>1. j < i => xDataList[j].id > xDataList[i].id
      BY DEF Inv, Ordered
    <3>2. i < j => xDataList[i].id > xDataList[j].id
      BY DEF Inv, Ordered
    <3>3. xDataList[i].id \in Nat
      BY <1>1 DEF Sample
    <3>4. QED
      BY <1>1, <2>2, <3>1, <3>2, <3>3
  <2>3. QED
    BY <2>1, <2>2 DEF Batch
<1>4. ASSUME InWindow(xDataList[i].ulTime)
      PROVE  times[xDataList[i].id] = 0 /\ xDataList[i].id \notin lost
  <2>1. ~(xDataList[i].ulTime <= WindowStart)
    BY <1>1, <1>4, WindowType DEF InWindow, Inv, Sample
  <2>2. times[xDataList[i].id] # 1 /\ xDataList[i].id \notin lost
    BY <2>1 DEF Inv, PublishedBefore
  <2>3. times[xDataList[i].id] \in Nat /\ times[xDataList[i].id] <= 1
    BY <1>2 DEF Inv, Types, AtMostOnce
  <2>4. QED
    BY <2>2, <2>3
<1>5. QED
  BY <1>1, <1>2, <1>3, <1>4

\* What a report that is due does to the sample it holds: published, or lost.
LEMMA ReportCounts ==
    ASSUME Inv, Report, Expired(xReportTimer)
    PROVE  /\ times' \in [SampleIds -> Nat]
           /\ \A s \in SampleIds \ Batch : times'[s] = times[s] /\ (s \in lost' <=> s \in lost)
           /\ \A s \in Batch : /\ s \in 1..samples /\ times[s] = 0 /\ s \notin lost
                              /\ times'[s] = IF s \in lost' THEN 0 ELSE 1
<1>1. Batch = {xDataList[i].id : i \in {j \in 1..Len(xDataList) : InWindow(xDataList[j].ulTime)}}
  BY DEF Batch
<1>2. \A s \in Batch : s \in SampleIds /\ s \in 1..samples /\ times[s] = 0 /\ s \notin lost
  <2>1. TAKE s \in Batch
  <2>2. PICK i \in 1..Len(xDataList) : s = xDataList[i].id
    BY <1>1
  <2>3. QED
    BY <2>2, BatchIsNew DEF Inv, Ordered
<1>3. times \in [SampleIds -> Nat]
  BY DEF Inv, Types
<1>4. CASE Publish
  <2>1. /\ times' = [s \in SampleIds |-> IF s \in Batch THEN times[s] + 1 ELSE times[s]]
        /\ lost' = lost
    BY <1>4 DEF Publish
  <2>2. QED
    BY <1>2, <1>3, <2>1
<1>5. CASE PublishFails
  BY <1>2, <1>3, <1>5 DEF PublishFails
<1>6. QED
  BY <1>4, <1>5 DEF Report

\* Storing a sample: it is new, so it was not published.
LEMMA StoreKeeps ==
    ASSUME Inv, NEW t \in Int, Store(t),
           UNCHANGED <<times, lost, era, xReportTimer, ulReportInterval>>
    PROVE  /\ xDataList' \in Seq(Sample) /\ samples' \in 0..MaxSamples
           /\ Ordered' /\ PublishedBefore'
<1>1. /\ xDataList' \in Seq(Sample) /\ samples' = samples + 1
      /\ Len(xDataList') >= 1
      /\ xDataList'[1] = [id |-> samples + 1, ulTime |-> t, era |-> era,
                          late |-> t <= WindowStart]
      /\ \A i \in 2..Len(xDataList') : /\ i - 1 \in 1..Len(xDataList)
                                       /\ xDataList'[i] = xDataList[i - 1]
  BY StoreShape DEF Inv
<1>2. samples \in Nat /\ samples < MaxSamples /\ MaxSamples \in Nat /\ era \in Nat
  BY BoundsAssumption DEF Store, Inv, Types
<1>3. /\ Len(xDataList) \in Nat /\ Len(xDataList') \in Nat
      /\ \A i \in 1..Len(xDataList) : xDataList[i].id \in Nat
  <2>1. xDataList \in Seq(Sample) /\ xDataList' \in Seq(Sample)
    BY <1>1 DEF Inv, Types
  <2>2. \A i \in 1..Len(xDataList) : xDataList[i] \in Sample
    BY <2>1, ElementOfSeq
  <2>3. QED
    BY <2>1, <2>2, LenProperties DEF Sample
<1>4. WindowStart' = WindowStart
  BY DEF WindowStart, WindowEnd
<1>5. Ordered'
  <2>1. ASSUME NEW i \in 1..Len(xDataList')
        PROVE  xDataList'[i].id \in 1..(samples + 1) /\ xDataList'[i].era <= era
    <3>1. CASE i = 1
      BY <1>1, <1>2, <3>1
    <3>2. CASE i # 1
      <4>1. xDataList'[i] = xDataList[i - 1] /\ i - 1 \in 1..Len(xDataList)
        BY <1>1, <1>3, <3>2
      <4>2. xDataList[i - 1].id \in 1..samples /\ xDataList[i - 1].era <= era
        BY <4>1 DEF Inv, Ordered
      <4>3. QED
        BY <1>2, <4>1, <4>2
    <3>3. QED
      BY <3>1, <3>2
  <2>2. ASSUME NEW i \in 1..Len(xDataList'), NEW j \in 1..Len(xDataList'), i < j
        PROVE  xDataList'[i].id > xDataList'[j].id
    <3>1. j \in 2..Len(xDataList') /\ xDataList'[j] = xDataList[j - 1] /\ j - 1 \in 1..Len(xDataList)
      BY <1>1, <1>3, <2>2
    <3>2. CASE i = 1
      BY <1>1, <1>2, <3>1, <3>2 DEF Inv, Ordered
    <3>3. CASE i # 1
      <4>1. xDataList'[i] = xDataList[i - 1] /\ i - 1 \in 1..Len(xDataList) /\ i - 1 < j - 1
        BY <1>1, <1>3, <2>2, <3>3
      <4>2. QED
        BY <3>1, <4>1 DEF Inv, Ordered
    <3>4. QED
      BY <3>2, <3>3
  <2>3. QED
    BY <1>1, <2>1, <2>2 DEF Ordered
<1>6. PublishedBefore'
  <2>1. ASSUME NEW s \in SampleIds, s > samples' PROVE times'[s] = 0 /\ s \notin lost'
    BY <1>1, <1>2, <2>1 DEF Inv, PublishedBefore, SampleIds
  <2>2. ASSUME NEW i \in 1..Len(xDataList'),
               times'[xDataList'[i].id] = 1 \/ xDataList'[i].id \in lost'
        PROVE  xDataList'[i].ulTime <= WindowStart'
    <3>1. CASE i = 1
      <4>1. xDataList'[i].id = samples + 1 /\ samples + 1 \in SampleIds
        BY <1>1, <1>2, <3>1 DEF SampleIds
      <4>2. times[samples + 1] = 0 /\ samples + 1 \notin lost
        BY <1>2, <4>1 DEF Inv, PublishedBefore
      <4>3. QED
        BY <2>2, <4>1, <4>2
    <3>2. CASE i # 1
      BY <1>1, <1>3, <1>4, <2>2, <3>2 DEF Inv, PublishedBefore
    <3>3. QED
      BY <3>1, <3>2
  <2>3. QED
    BY <2>1, <2>2 DEF PublishedBefore
<1>7. QED
  BY <1>1, <1>2, <1>5, <1>6

\* A restart or a change of the interval begins a new series of reports.
LEMMA NewEraKeeps ==
    ASSUME Inv, NewEra, UNCHANGED <<samples, xDataList>>
    PROVE  /\ era' \in Nat /\ times' \in [SampleIds -> Nat]
           /\ Ordered' /\ PublishedBefore' /\ AtMostOnce'
<1>1. era' = era + 1 /\ era \in Nat /\ times' = [s \in SampleIds |-> 0] /\ lost' = {}
  BY DEF NewEra, Inv, Types
<1>2. \A i \in 1..Len(xDataList) : xDataList[i] \in Sample /\ xDataList[i].id \in SampleIds
  BY ElementOfSeq, BoundsAssumption DEF Inv, Types, Ordered, SampleIds
<1>3. Ordered'
  BY <1>1, <1>2 DEF Inv, Ordered, Sample
<1>4. PublishedBefore'
  BY <1>1, <1>2 DEF PublishedBefore
<1>5. AtMostOnce'
  BY <1>1 DEF AtMostOnce
<1>6. QED
  BY <1>1, <1>3, <1>4, <1>5

\* The report: it publishes what lies in its window, and the window of the
\* next one starts at the end of this one or later.
LEMMA ReportKeeps ==
    ASSUME Inv, Report PROVE Inv'
<1>1. CASE ~Expired(xReportTimer)
  <2>1. UNCHANGED <<now, xReportTimer, ulReportInterval, samples, era, times, lost,
                    xDataList, xMsgQ>>
    BY <1>1 DEF Report
  <2>2. QED
    BY <2>1 DEF Inv, Types, Ordered, PublishedBefore, AtMostOnce, WindowStart, WindowEnd
<1>2. CASE Expired(xReportTimer)
  <2>1. /\ xReportTimer' = xReportTimer + ulReportInterval
        /\ UNCHANGED <<now, ulReportInterval, xDataList, xMsgQ, samples, era>>
    BY <1>2 DEF Report
  <2>2. /\ WindowStart \in Int /\ WindowEnd \in Int /\ WindowStart' \in Int
        /\ WindowStart <= WindowEnd /\ WindowEnd <= WindowStart'
    BY <2>1, WindowsAdvance DEF Inv
  <2>3. /\ times' \in [SampleIds -> Nat]
        /\ \A s \in SampleIds \ Batch : times'[s] = times[s] /\ (s \in lost' <=> s \in lost)
        /\ \A s \in Batch : /\ s \in 1..samples /\ times[s] = 0 /\ s \notin lost
                           /\ times'[s] = IF s \in lost' THEN 0 ELSE 1
    BY <1>2, ReportCounts
  <2>4. Types'
    <3>1. xReportTimer' \in Nat
      BY <2>1, IntervalsAssumption DEF Inv, Types
    <3>2. QED
      BY <2>1, <2>3, <3>1 DEF Inv, Types
  <2>5. Ordered'
    BY <2>1 DEF Inv, Ordered
  <2>6. AtMostOnce'
    BY <2>3 DEF Inv, AtMostOnce
  <2>7. PublishedBefore'
    <3>1. ASSUME NEW s \in SampleIds, s > samples PROVE times'[s] = 0 /\ s \notin lost'
      <4>1. s \notin Batch
        BY <2>3, <3>1 DEF Inv, Types, SampleIds
      <4>2. QED
        BY <2>3, <3>1, <4>1 DEF Inv, PublishedBefore
    <3>2. ASSUME NEW i \in 1..Len(xDataList),
                 times'[xDataList[i].id] = 1 \/ xDataList[i].id \in lost'
          PROVE  xDataList[i].ulTime <= WindowStart'
      <4>1. /\ xDataList[i] \in Sample /\ xDataList[i].id \in SampleIds
            /\ xDataList[i].id \in Batch <=> InWindow(xDataList[i].ulTime)
        BY BatchIsNew
      <4>2. CASE InWindow(xDataList[i].ulTime)
        BY <2>2, <4>1, <4>2 DEF InWindow, Sample
      <4>3. CASE ~InWindow(xDataList[i].ulTime)
        <5>1. xDataList[i].ulTime <= WindowStart
          BY <2>3, <3>2, <4>1, <4>3 DEF Inv, PublishedBefore
        <5>2. QED
          BY <2>2, <4>1, <5>1 DEF Sample
      <4>4. QED
        BY <4>2, <4>3
    <3>3. QED
      BY <2>1, <3>1, <3>2 DEF PublishedBefore
  <2>8. QED
    BY <2>4, <2>5, <2>6, <2>7 DEF Inv
<1>3. QED
  BY <1>1, <1>2

\* Steps that touch neither the samples nor the reports.
LEMMA OthersKeep ==
    ASSUME Inv, now' \in Nat, xMsgQ' \in Seq(Int),
           UNCHANGED <<xReportTimer, ulReportInterval, samples, era, times, lost, xDataList>>
    PROVE  Inv'
  BY DEF Inv, Types, Ordered, PublishedBefore, AtMostOnce, WindowStart, WindowEnd

\* Steps that store a sample and leave the reports alone.
LEMMA StoringKeeps ==
    ASSUME Inv, NEW t \in Int, Store(t), now' \in Nat, xMsgQ' \in Seq(Int),
           UNCHANGED <<times, lost, era, xReportTimer, ulReportInterval>>
    PROVE  Inv'
<1>1. /\ xDataList' \in Seq(Sample) /\ samples' \in 0..MaxSamples
      /\ Ordered' /\ PublishedBefore'
  BY StoreKeeps
<1>2. Types'
  BY <1>1 DEF Inv, Types
<1>3. AtMostOnce'
  BY DEF Inv, AtMostOnce
<1>4. QED
  BY <1>1, <1>2, <1>3 DEF Inv

\* A restart or a change of the interval, which may also move the timers.
LEMMA RestartKeeps ==
    ASSUME Inv, NewEra, xReportTimer' \in Nat, ulReportInterval' \in Intervals,
           UNCHANGED <<now, samples, xDataList, xMsgQ>>
    PROVE  Inv'
  BY NewEraKeeps DEF Inv, Types

LEMMA InvInit == Init => Inv
<1> SUFFICES ASSUME Init PROVE Inv
  OBVIOUS
<1>1. now \in Nat /\ now = xReportTimer
  BY ResolutionAssumption DEF Init
<1>2. xDataList = <<>> /\ xMsgQ = <<>> /\ Len(xDataList) = 0
  BY DEF Init
<1>3. Types
  BY <1>1, <1>2, BoundsAssumption DEF Init, Types
<1>4. QED
  BY <1>2, <1>3 DEF Init, Inv, Ordered, PublishedBefore, AtMostOnce

LEMMA StampsAreInts == Stamps \subseteq Int
  BY DEF Stamps

LEMMA InvNext == Inv /\ [Next]_vars => Inv'
<1> SUFFICES ASSUME Inv, [Next]_vars PROVE Inv'
  OBVIOUS
<1>0. /\ now \in Nat /\ xReportTimer \in Nat /\ xMsgQ \in Seq(Int)
      /\ ulReportInterval \in Intervals
  BY DEF Inv, Types
<1>1. CASE UNCHANGED vars
  BY <1>0, <1>1, OthersKeep DEF vars
<1>2. CASE Tick
  BY <1>0, <1>2, OthersKeep DEF Tick
<1>3. CASE Start
  BY <1>0, <1>3, RestartKeeps DEF Start
<1>4. CASE Stop \/ StopCancels
  <2>1. xMsgQ' \in Seq(Int)
    BY <1>0, <1>4 DEF Stop, StopCancels, Quit
  <2>2. QED
    BY <1>0, <1>4, <2>1, OthersKeep DEF Stop, StopCancels
<1>5. CASE Update
  BY <1>0, <1>5, OthersKeep DEF Update
<1>6. CASE Get
  <2>1. CASE Store(Seconds(now))
    <3>1. Seconds(now) \in Int
      BY <1>0, SecondsSum
    <3>2. QED
      BY <1>0, <1>6, <2>1, <3>1, StoringKeeps DEF Get
  <2>2. CASE UNCHANGED <<samples, xDataList>>
    BY <1>0, <1>6, <2>2, OthersKeep DEF Get
  <2>3. QED
    BY <1>6, <2>1, <2>2 DEF Get
<1>7. CASE Report
  BY <1>7, ReportKeeps
<1>8. CASE TimedOut
  BY <1>0, <1>8, OthersKeep DEF TimedOut
<1>9. CASE Message
  <2>1. Head(xMsgQ) \in Int /\ Tail(xMsgQ) \in Seq(Int)
    BY <1>0, <1>9, HeadTailProperties DEF Message
  <2>2. CASE Head(xMsgQ) = Quit
    BY <1>0, <1>9, <2>1, <2>2, OthersKeep DEF Message
  <2>3. CASE Head(xMsgQ) # Quit
    BY <1>0, <1>9, <2>1, <2>3, StoringKeeps, OthersKeep DEF Message
  <2>4. QED
    BY <2>2, <2>3
<1>10. ASSUME NEW t \in Stamps, Send(t) PROVE Inv'
  <2>1. t \in Int
    BY StampsAreInts
  <2>2. CASE pc = "off"
    BY <1>0, <1>10, <2>1, <2>2, StoringKeeps DEF Send
  <2>3. CASE pc # "off"
    <3>1. xMsgQ' \in Seq(Int)
      BY <1>0, <1>10, <2>1, <2>3 DEF Send
    <3>2. QED
      BY <1>0, <1>10, <2>3, <3>1, OthersKeep DEF Send
  <2>4. QED
    BY <2>2, <2>3
<1>11. ASSUME NEW i \in Intervals, SetReportInterval(i) PROVE Inv'
  BY <1>0, <1>11, RestartKeeps DEF SetReportInterval
<1>12. QED
  BY <1>1, <1>2, <1>3, <1>4, <1>5, <1>6, <1>7, <1>8, <1>9, <1>10, <1>11 DEF Next

LEMMA InvAlways == Spec => []Inv
<1>1. QED
  BY InvInit, InvNext, PTL DEF Spec

\* Between two restarts or interval changes no sample is published twice by
\* FTOM_EP_threadMain, at any clock resolution, for any intervals, whole
\* seconds or not, any cache size and any delay of the thread.
THEOREM PublishedAtMostOnce == Spec => []AtMostOnce
<1>1. Inv => AtMostOnce
  BY DEF Inv
<1>2. QED
  BY <1>1, InvAlways, PTL

-------------------------------------------------------------------------------
\* The windows leave no second out when intervals are whole seconds.
LEMMA DivUpper ==
    ASSUME NEW a \in Nat, NEW q \in Int, NEW k \in Nat \ {0}, a < (q + 1) * k
    PROVE  a \div k <= q
<1> DEFINE d == a \div k
<1>1. d \in Nat /\ d * k <= a
  BY DivMod
<1> HIDE DEF d
<1>2. ASSUME d >= q + 1 PROVE FALSE
  <2>1. (d - (q + 1)) * k >= 0 /\ (d - (q + 1)) * k = (d * k) - ((q + 1) * k)
    BY <1>1, <1>2
  <2> DEFINE x == d * k
  <2> DEFINE y == (q + 1) * k
  <2>2. x \in Int /\ y \in Int /\ x - y >= 0 /\ x <= a /\ a < y
    BY <1>1, <2>1
  <2> HIDE DEF x, y
  <2>3. QED
    BY <2>2
<1>3. QED
  BY <1>1, <1>2 DEF d

LEMMA SecondsSumWhole ==
    ASSUME NEW a \in Nat, NEW b \in Nat, b % TicksPerSecond = 0
    PROVE  Seconds(a + b) = Seconds(a) + Seconds(b)
<1> DEFINE k == TicksPerSecond
<1> DEFINE qa == a \div k
<1> DEFINE qb == b \div k
<1> DEFINE c == a + b
<1>0. k \in Nat \ {0}
  BY ResolutionAssumption
<1>1. /\ qa \in Nat /\ qb \in Nat
      /\ a = (k * qa) + (a % k) /\ a % k \in 0..(k - 1)
      /\ b = (k * qb) + (b % k) /\ b % k = 0
  BY <1>0, DivMod
<1> HIDE DEF qa, qb, k
<1>2. (qa + qb + 1) * k = (k * qa) + (k * qb) + k
  BY <1>0, <1>1
<1>3. c \in Nat /\ c < (qa + qb + 1) * k
  <2> DEFINE x == k * qa
  <2> DEFINE y == k * qb
  <2> DEFINE r == a % k
  <2>1. x \in Int /\ y \in Int /\ r \in 0..(k - 1)
    BY <1>0, <1>1
  <2>2. a = x + r /\ b = y + (b % k) /\ b % k = 0
    BY <1>1, Zenon
  <2>3. (qa + qb + 1) * k = x + y + k
    BY <1>2
  <2> HIDE DEF x, y, r
  <2>4. b = y
    BY <2>1, <2>2
  <2>5. QED
    BY <1>0, <2>1, <2>2, <2>3, <2>4 DEF c
<1> HIDE DEF c
<1>4. c \div k <= qa + qb
  BY <1>0, <1>1, <1>3, DivUpper
<1>5. Seconds(a + b) <= Seconds(a) + Seconds(b)
  BY <1>4 DEF Seconds, c, qa, qb, k
<1>6. /\ Seconds(a) \in Nat /\ Seconds(b) \in Nat /\ Seconds(a + b) \in Nat
      /\ Seconds(a + b) >= Seconds(a) + Seconds(b)
  BY SecondsSum
<1>7. QED
  BY <1>5, <1>6

\* The window of the next report starts exactly where this one's ends.
LEMMA WindowsMeet ==
    ASSUME WholeInterval, Types, xReportTimer' = xReportTimer + ulReportInterval,
           ulReportInterval' = ulReportInterval
    PROVE  WindowStart' = WindowEnd
<1>1. ulReportInterval \in Nat /\ xReportTimer \in Nat /\ ulReportInterval % TicksPerSecond = 0
  BY IntervalsAssumption DEF Types, WholeInterval
<1>2. Seconds(xReportTimer + ulReportInterval) = Seconds(xReportTimer) + Seconds(ulReportInterval)
  BY <1>1, SecondsSumWhole
<1>3. Seconds(xReportTimer) \in Nat /\ Seconds(ulReportInterval) \in Nat
  BY <1>1, SecondsSum
<1>4. QED
  BY <1>2, <1>3 DEF WindowStart, WindowEnd

LEMMA MissedNoneByReport ==
    ASSUME Inv, NothingMissed, Report PROVE NothingMissed'
<1>. SUFFICES ASSUME WholeInterval PROVE NothingMissed'
  BY DEF Report, NothingMissed, WholeInterval
<1>1. CASE ~Expired(xReportTimer)
  BY <1>1 DEF Report, NothingMissed, WindowStart, WindowEnd, WholeInterval
<1>2. CASE Expired(xReportTimer)
  <2>1. /\ xReportTimer' = xReportTimer + ulReportInterval
        /\ UNCHANGED <<ulReportInterval, xDataList, samples, era>>
    BY <1>2 DEF Report
  <2>2. WindowStart' = WindowEnd
    BY <2>1, WindowsMeet DEF Inv
  <2>3. WindowStart \in Int /\ WindowEnd \in Int
    BY WindowType DEF Inv
  <2>4. ASSUME NEW i \in 1..Len(xDataList), xDataList[i].era = era,
               ~xDataList[i].late, xDataList[i].ulTime <= WindowEnd
        PROVE  times'[xDataList[i].id] = IF xDataList[i].id \in lost' THEN 0 ELSE 1
    <3>1. /\ xDataList[i] \in Sample /\ xDataList[i].id \in SampleIds
          /\ xDataList[i].id \in Batch <=> InWindow(xDataList[i].ulTime)
      BY BatchIsNew
    <3>2. CASE InWindow(xDataList[i].ulTime)
      BY <1>2, <3>1, <3>2, ReportCounts
    <3>3. CASE ~InWindow(xDataList[i].ulTime)
      <4>1. xDataList[i].ulTime <= WindowStart
        BY <2>3, <2>4, <3>1, <3>3 DEF InWindow, Sample
      <4>2. times[xDataList[i].id] = IF xDataList[i].id \in lost THEN 0 ELSE 1
        BY <2>4, <4>1 DEF NothingMissed
      <4>3. QED
        BY <1>2, <3>1, <3>3, <4>2, ReportCounts
    <3>4. QED
      BY <3>2, <3>3
  <2>5. QED
    BY <2>1, <2>2, <2>4 DEF NothingMissed
<1>3. QED
  BY <1>1, <1>2

LEMMA MissedNoneByStore ==
    ASSUME Inv, NothingMissed, NEW t \in Int, Store(t),
           UNCHANGED <<times, lost, era, xReportTimer, ulReportInterval>>
    PROVE  NothingMissed'
<1>. SUFFICES ASSUME WholeInterval PROVE NothingMissed'
  BY DEF NothingMissed, WholeInterval
<1>1. /\ xDataList' \in Seq(Sample)
      /\ xDataList'[1] = [id |-> samples + 1, ulTime |-> t, era |-> era,
                          late |-> t <= WindowStart]
      /\ \A i \in 2..Len(xDataList') : /\ i - 1 \in 1..Len(xDataList)
                                       /\ xDataList'[i] = xDataList[i - 1]
  BY StoreShape DEF Inv
<1>2. WindowStart' = WindowStart
  BY DEF WindowStart, WindowEnd
<1>3. ASSUME NEW i \in 1..Len(xDataList'), xDataList'[i].era = era,
             ~xDataList'[i].late, xDataList'[i].ulTime <= WindowStart
      PROVE  times[xDataList'[i].id] = IF xDataList'[i].id \in lost THEN 0 ELSE 1
  <2>1. CASE i = 1
    <3> DEFINE p == t <= WindowStart
    <3>1. xDataList'[1] = [id |-> samples + 1, ulTime |-> t, era |-> era, late |-> p]
      BY <1>1, Zenon
    <3> HIDE DEF p
    <3>2. xDataList'[1].ulTime = t /\ xDataList'[1].late = p
      BY <3>1
    <3>3. ~p
      BY <1>3, <2>1, <3>2, Zenon
    <3>4. p
      BY <1>3, <2>1, <3>2, Zenon DEF p
    <3>5. QED
      BY <3>3, <3>4, Zenon
  <2>2. CASE i # 1
    <3>1. i - 1 \in 1..Len(xDataList) /\ xDataList'[i] = xDataList[i - 1]
      BY <1>1, <2>2, LenProperties
    <3>2. QED
      BY <1>3, <3>1 DEF NothingMissed
  <2>3. QED
    BY <2>1, <2>2
<1>4. QED
  BY <1>2, <1>3 DEF NothingMissed

LEMMA MissedNoneByRestart ==
    ASSUME Inv, NewEra, UNCHANGED xDataList PROVE NothingMissed'
<1>1. era' = era + 1 /\ era \in Nat
  BY DEF NewEra, Inv, Types
<1>2. \A i \in 1..Len(xDataList) : xDataList[i] \in Sample /\ xDataList[i].era <= era
  BY ElementOfSeq DEF Inv, Types, Ordered
<1>3. \A i \in 1..Len(xDataList) : xDataList[i].era # era'
  BY <1>1, <1>2 DEF Sample
<1>4. QED
  BY <1>3 DEF NothingMissed

LEMMA MissedNoneNext == Inv /\ NothingMissed /\ [Next]_vars => NothingMissed'
<1> SUFFICES ASSUME Inv, NothingMissed, [Next]_vars PROVE NothingMissed'
  OBVIOUS
<1>0. now \in Nat /\ xMsgQ \in Seq(Int)
  BY DEF Inv, Types
<1>1. ASSUME UNCHANGED <<xReportTimer, ulReportInterval, era, times, lost, xDataList>>
      PROVE  NothingMissed'
  BY <1>1 DEF NothingMissed, WindowStart, WindowEnd, WholeInterval
<1>2. CASE UNCHANGED vars \/ Tick \/ Stop \/ StopCancels \/ Update \/ TimedOut
  BY <1>1, <1>2 DEF vars, Tick, Stop, StopCancels, Update, TimedOut
<1>3. CASE Start
  BY <1>3, MissedNoneByRestart DEF Start
<1>4. CASE Get
  <2>1. Seconds(now) \in Int
    BY <1>0, SecondsSum
  <2>2. QED
    BY <1>1, <1>4, <2>1, MissedNoneByStore DEF Get
<1>5. CASE Report
  BY <1>5, MissedNoneByReport
<1>6. CASE Message
  <2>1. Head(xMsgQ) \in Int
    BY <1>0, <1>6, HeadTailProperties DEF Message
  <2>2. QED
    BY <1>1, <1>6, <2>1, MissedNoneByStore DEF Message
<1>7. ASSUME NEW t \in Stamps, Send(t) PROVE NothingMissed'
  <2>1. t \in Int
    BY StampsAreInts
  <2>2. QED
    BY <1>1, <1>7, <2>1, MissedNoneByStore DEF Send
<1>8. ASSUME NEW i \in Intervals, SetReportInterval(i) PROVE NothingMissed'
  BY <1>8, MissedNoneByRestart DEF SetReportInterval
<1>9. QED
  BY <1>2, <1>3, <1>4, <1>5, <1>6, <1>7, <1>8 DEF Next

\* While the endpoint's interval is a whole number of seconds, each cached sample is in
\* one report of FTOM_EP_threadMain, except those that came in after the report of their
\* second had gone; it is published, unless that report failed, and never otherwise.
THEOREM WholeIntervalsMissNothing == Spec => []NothingMissed
<1>1. Init => NothingMissed
  <2> SUFFICES ASSUME Init PROVE NothingMissed
    OBVIOUS
  <2>1. Len(xDataList) = 0
    BY DEF Init
  <2>2. QED
    BY <2>1 DEF NothingMissed
<1>2. Inv /\ NothingMissed /\ [Next]_vars => NothingMissed'
  BY MissedNoneNext
<1>3. QED
  BY <1>1, <1>2, InvAlways, PTL DEF Spec
===============================================================================
