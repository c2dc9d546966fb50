----------------------------- MODULE SamplesProofs -----------------------------
(***************************************************************************)
(* Proofs about the samples of an endpoint.  The first part is about the   *)
(* table they are kept in, EPData, for any limits, times and numbers of    *)
(* samples.  The second is about their way to the cloud, Uplink, for any   *)
(* size of a page, a batch and a publication and any number of samples,    *)
(* publications and faults.                                                *)
(***************************************************************************)
EXTENDS EPData, Uplink, SequenceTheorems, FiniteSetTheorems, WellFoundedInduction, TLAPS

\* A sample on its way has a time, and its turn has not been used up.
Inv ==
    /\ TypeOK
    /\ IsFiniteSet(log) /\ Cardinality(log) <= MaxSamples
    /\ pc = "insert" => pData \in Stamps /\ Cardinality(log) < MaxSamples

\* The range covers the table; 0, which stands for "no sample yet", is no end
\* of it once there are rows, or the next insert would lose the older ones.
Covers == \A t \in Times(rows) : ulFirstTime # 0 /\ ulFirstTime <= t /\ t <= ulLastTime

-------------------------------------------------------------------------------
\* The facts about the table that every step needs.
LEMMA TableFacts ==
    ASSUME Inv
    PROVE  /\ IsFiniteSet(rows) /\ Cardinality(rows) \in Nat /\ Cardinality(log) \in Nat
           /\ Cardinality(rows) <= MaxSamples /\ Cardinality(rows) \in 0..(Width - 1)
           /\ Times(rows) \subseteq Stamps /\ Stamps \subseteq Nat \ {0}
           /\ \A r \in rows : r.ulTime \in Stamps
<1>1. rows \subseteq log /\ IsFiniteSet(log) /\ log \subseteq Samples
  BY DEF Inv, TypeOK
<1>2. IsFiniteSet(rows) /\ Cardinality(rows) <= Cardinality(log)
  BY <1>1, FS_Subset
<1>3. Cardinality(rows) \in Nat /\ Cardinality(log) \in Nat
  BY <1>1, <1>2, FS_CardinalityType
<1>4. \A r \in rows : r.ulTime \in Stamps
  BY <1>1 DEF Samples
<1>5. QED
  BY <1>2, <1>3, <1>4, BoundsAssumption, LimitsAssumption, StampsAssumption DEF Inv, Times

\* Deletes only take rows away.
LEMMA DeletesShrink ==
    /\ \A b, e : DeleteBetween(b, e) => rows' \subseteq rows
    /\ \A b, e : DeleteWithTime(b, e) => rows' \subseteq rows
    /\ \A i, n : DeleteEPData(i, n) => rows' \subseteq rows
  BY DEF DeleteBetween, DeleteWithTime, DeleteEPData

LEMMA SubsetCount ==
    ASSUME Inv, NEW R, R \subseteq rows
    PROVE  IsFiniteSet(R) /\ Cardinality(R) \in Nat /\ Cardinality(R) <= Cardinality(rows)
           /\ Cardinality(R) \in 0..(Width - 1)
<1>1. IsFiniteSet(rows) /\ Cardinality(rows) \in 0..(Width - 1)
  BY TableFacts
<1>2. IsFiniteSet(R) /\ Cardinality(R) <= Cardinality(rows)
  BY <1>1, FS_Subset
<1>3. Cardinality(R) \in Nat
  BY <1>2, FS_CardinalityType
<1>4. QED
  BY <1>1, <1>2, <1>3, LimitsAssumption

LEMMA ReadInfoTypes ==
    ASSUME Inv, NEW R, NEW U, Times(R) \subseteq Stamps, U \subseteq Garbage, ReadInfo(R, U)
    PROVE  ulFirstTime' \in Garbage /\ ulLastTime' \in Garbage
  BY DEF ReadInfo, Garbage

\* Times read from the table cover the table.
LEMMA ReadInfoCovers ==
    ASSUME NEW R, NEW U, ReadInfo(R, U)
    PROVE  \A t \in Times(R) : /\ ulFirstTime' \in Times(R)
                               /\ ulFirstTime' <= t /\ t <= ulLastTime'
<1>1. CASE R = {}
  BY <1>1 DEF Times
<1>2. CASE R # {}
  BY <1>2 DEF ReadInfo, Oldest, Newest
<1>3. QED
  BY <1>1, <1>2

LEMMA WrapType == \A c \in Int : c % Width \in 0..(Width - 1)
  BY LimitsAssumption

-------------------------------------------------------------------------------
(* The invariant, one lemma for each kind of step.                            *)

\* A step that only deletes rows and sets the count and the times.
LEMMA ShrinkKeepsInv ==
    ASSUME Inv, rows' \subseteq rows, log' = log,
           xStored' \in Limits \cup {NoLimit}, xLimit' \in Limits \cup {NoLimit},
           ulCount' \in 0..(Width - 1),
           ulFirstTime' \in Garbage, ulLastTime' \in Garbage,
           changes' \in 0..MaxChanges, forgot' \in BOOLEAN,
           (pc' = "idle" /\ pData' = 0) \/ UNCHANGED <<pc, pData>>
    PROVE  Inv'
<1>1. rows' \subseteq log'
  BY DEF Inv, TypeOK
<1>2. pc' \in {"idle", "insert"} /\ pData' \in Garbage
  BY DEF Inv, TypeOK, Garbage
<1>3. TypeOK'
  BY <1>1, <1>2 DEF Inv, TypeOK
<1>4. QED
  BY <1>3 DEF Inv

LEMMA DisturbType == Inv /\ Disturb => changes' \in 0..MaxChanges
  BY BoundsAssumption DEF Inv, TypeOK, Disturb

LEMMA TimesShrink == ASSUME NEW R, NEW S, R \subseteq S PROVE Times(R) \subseteq Times(S)
  BY DEF Times

\* The two ways a sample gets past the first half of FTDM_EP_addData.
LEMMA AddDataType ==
    ASSUME Inv, NEW t \in Stamps, AddData(t) \/ AddDataNoRoom(t)
    PROVE  Inv' /\ rows' \subseteq rows
<1>1. rows' \subseteq rows
  BY DeletesShrink DEF AddData, AddDataNoRoom, MakeRoom, Evict
<1>2. ulCount' \in 0..(Width - 1)
  <2>1. ulCount \in 0..(Width - 1)
    BY DEF Inv, TypeOK
  <2>2. CASE ulCount' = ulCount
    BY <2>1, <2>2
  <2>3. CASE xLimit # NoLimit /\ ulCount' = (ulCount - Excess) % Width
    <3>1. xLimit \in Nat
      BY <2>3, LimitsAssumption DEF Inv, TypeOK
    <3>2. ulCount - Excess \in Int
      BY <2>1, <3>1, LimitsAssumption DEF Excess
    <3>3. QED
      BY <2>3, <3>2, WrapType
  <2>4. QED
    BY <2>2, <2>3 DEF AddData, AddDataNoRoom, MakeRoom
<1>3. ulFirstTime' \in Garbage /\ ulLastTime' \in Garbage
  <2>1. ulFirstTime \in Garbage /\ ulLastTime \in Garbage
    BY DEF Inv, TypeOK
  <2>2. CASE ReadInfo(rows', Garbage)
    <3>1. Times(rows') \subseteq Stamps
      BY <1>1, TimesShrink, TableFacts
    <3>2. QED
      BY <2>2, <3>1, ReadInfoTypes
  <2>3. CASE UNCHANGED <<ulFirstTime, ulLastTime>>
    BY <2>1, <2>3
  <2>4. QED
    BY <2>2, <2>3 DEF AddData, AddDataNoRoom, MakeRoom, Evict
<1>4. changes' \in 0..MaxChanges
  BY DisturbType DEF AddData, AddDataNoRoom, Inv, TypeOK
<1>5. TypeOK'
  BY <1>1, <1>2, <1>3, <1>4 DEF AddData, AddDataNoRoom, Inv, TypeOK, Garbage
<1>6. log' = log /\ pc' = "insert" /\ pData' = t /\ Cardinality(log) < MaxSamples
  BY DEF AddData, AddDataNoRoom
<1>7. QED
  BY <1>1, <1>5, <1>6 DEF Inv

LEMMA InsertType ==
    ASSUME Inv, Insert
    PROVE  /\ Inv' /\ pData \in Stamps
           /\ Times(rows') \subseteq Times(rows) \cup {pData}
<1> DEFINE new == [id |-> Cardinality(log) + 1, ulTime |-> pData]
<1>1. /\ rows' = rows \cup {new} /\ log' = log \cup {new}
      /\ pData \in Stamps /\ Cardinality(log) < MaxSamples
      /\ pc' = "idle" /\ pData' = 0
  BY DEF Insert, Inv
<1>2. Cardinality(log) \in Nat /\ MaxSamples \in Nat
  BY TableFacts, BoundsAssumption
<1>3. new \in Samples
  BY <1>1, <1>2 DEF Samples
<1>4. Times(rows') \subseteq Times(rows) \cup {pData}
  BY <1>1 DEF Times
<1> HIDE DEF new
<1>5. IsFiniteSet(log') /\ Cardinality(log') <= MaxSamples
  <2>1. IsFiniteSet(log)
    BY DEF Inv
  <2>2. IsFiniteSet(log') /\ (Cardinality(log') = Cardinality(log) \/
                               Cardinality(log') = Cardinality(log) + 1)
    BY <1>1, <2>1, FS_AddElement
  <2>3. QED
    BY <1>1, <1>2, <2>2
<1>6. ulCount' \in 0..(Width - 1)
  BY WrapType, LimitsAssumption DEF Insert, Inv, TypeOK
<1>7. ulFirstTime' \in Garbage /\ ulLastTime' \in Garbage
  BY <1>1 DEF Insert, Inv, TypeOK, Garbage
<1>8. TypeOK'
  BY <1>1, <1>3, <1>6, <1>7 DEF Insert, Inv, TypeOK, Garbage
<1>9. QED
  BY <1>1, <1>4, <1>5, <1>8 DEF Inv

LEMMA DeleteType ==
    ASSUME Inv, rows' \subseteq rows, Recount,
           UNCHANGED <<xStored, xLimit, pc, pData, log, changes, forgot>>
    PROVE  Inv'
<1>1. Times(rows') \subseteq Stamps /\ Times(rows) \subseteq Stamps
  BY TimesShrink, TableFacts
<1>2. ulCount' \in 0..(Width - 1)
  BY SubsetCount DEF Recount
<1> DEFINE U == IF rows = {} THEN Garbage
                ELSE {t \in Times(rows) : Oldest(t, rows) \/ Newest(t, rows)}
<1>3. U \subseteq Garbage /\ ReadInfo(rows', U)
  BY <1>1 DEF Recount, Garbage
<1> HIDE DEF U
<1>4. ulFirstTime' \in Garbage /\ ulLastTime' \in Garbage
  BY <1>1, <1>3, ReadInfoTypes
<1>5. QED
  BY <1>2, <1>4, ShrinkKeepsInv DEF Inv, TypeOK

LEMMA InvNext == Inv /\ [Next]_vars => Inv'
<1> SUFFICES ASSUME Inv, [Next]_vars PROVE Inv'
  OBVIOUS
<1>0. /\ xStored \in Limits \cup {NoLimit} /\ xLimit \in Limits \cup {NoLimit}
      /\ ulCount \in 0..(Width - 1) /\ ulFirstTime \in Garbage /\ ulLastTime \in Garbage
      /\ changes \in 0..MaxChanges /\ forgot \in BOOLEAN /\ 0 \in Garbage /\ 0 \in 0..(Width - 1)
  BY LimitsAssumption DEF Inv, TypeOK, Garbage
<1>1. CASE UNCHANGED vars
  BY <1>0, <1>1, ShrinkKeepsInv DEF vars, memory
<1>2. ASSUME NEW t \in Stamps, AddData(t) \/ AddDataNoRoom(t) PROVE Inv'
  BY <1>2, AddDataType
<1>3. CASE Insert
  BY <1>3, InsertType
<1>4. CASE InsertFails
  BY <1>0, <1>4, DisturbType, ShrinkKeepsInv DEF InsertFails, memory
<1>5. CASE Restart
  <2>1. Times(rows) \subseteq Stamps /\ Cardinality(rows) \in 0..(Width - 1)
    BY TableFacts
  <2>2. ulFirstTime' \in Garbage /\ ulLastTime' \in Garbage
    BY <1>5, <2>1, ReadInfoTypes DEF Restart
  <2>3. QED
    BY <1>0, <1>5, <2>1, <2>2, ShrinkKeepsInv DEF Restart
<1>6. ASSUME NEW i \in -1..(MaxSamples - 1), NEW n \in 1..(MaxSamples - 1), DeleteData(i, n) PROVE Inv'
  <2>1. rows' \subseteq rows
    BY <1>6, DeletesShrink DEF DeleteData
  <2>2. QED
    BY <1>6, <2>1, DeleteType DEF DeleteData
<1>7. ASSUME NEW b \in Garbage, NEW e \in Garbage, DeleteDataWithTime(b, e) PROVE Inv'
  <2>1. rows' \subseteq rows
    BY <1>7, DeletesShrink DEF DeleteDataWithTime
  <2>2. QED
    BY <1>7, <2>1, DeleteType DEF DeleteDataWithTime
<1>8. ASSUME NEW l \in Limits \cup {NoLimit}, SetDataLimit(l) PROVE Inv'
  <2>1. rows' \subseteq rows
    BY <1>8, DeletesShrink DEF SetDataLimit
  <2>2. QED
    BY <1>0, <1>8, <2>1, DisturbType, ShrinkKeepsInv DEF SetDataLimit
<1>9. ASSUME NEW l \in Limits \cup {NoLimit}, SetFields(l) PROVE Inv'
  BY <1>0, <1>9, DisturbType, ShrinkKeepsInv DEF SetFields
<1>10. ASSUME NEW l \in Limits \cup {NoLimit}, Recreate(l) PROVE Inv'
  BY <1>0, <1>10, DisturbType, ShrinkKeepsInv DEF Recreate
<1>11. CASE RestartUnread
  <2>1. Times(rows) \subseteq Stamps /\ Cardinality(rows) \in 0..(Width - 1)
    BY TableFacts
  <2>2. ulFirstTime' \in Garbage /\ ulLastTime' \in Garbage
    BY <1>0, <1>11, <2>1, ReadInfoTypes DEF RestartUnread
  <2>3. /\ changes' \in 0..MaxChanges /\ forgot' \in BOOLEAN
        /\ ulCount' \in 0..(Width - 1)
    BY <1>0, <1>11, <2>1, DisturbType DEF RestartUnread
  <2>4. QED
    BY <1>0, <1>11, <2>2, <2>3, ShrinkKeepsInv DEF RestartUnread
<1>12. QED
  BY <1>1, <1>2, <1>3, <1>4, <1>5, <1>6, <1>7, <1>8, <1>9, <1>10, <1>11 DEF Next

LEMMA InvInit == Init => Inv
<1> SUFFICES ASSUME Init PROVE Inv
  OBVIOUS
<1>1. IsFiniteSet(log) /\ Cardinality(log) = 0
  BY FS_EmptySet DEF Init
<1>2. TypeOK
  <2>1. 0 \in 0..(Width - 1) /\ 0 \in 0..MaxChanges
    BY BoundsAssumption, LimitsAssumption
  <2>2. ulCount \in 0..(Width - 1) /\ changes \in 0..MaxChanges
    BY <2>1 DEF Init
  <2>3. ulFirstTime \in Garbage /\ ulLastTime \in Garbage /\ pData \in Garbage
    BY DEF Init, Garbage
  <2>4. rows \subseteq log /\ log \subseteq Samples
    BY DEF Init
  <2>5. QED
    BY <2>2, <2>3, <2>4 DEF Init, TypeOK
<1>3. QED
  BY <1>1, <1>2, BoundsAssumption DEF Init, Inv

\* The data manager's view of an endpoint stays well typed: the count of an
\* FTM_ULONG wraps, and every row is a sample that was inserted.
THEOREM TypeCorrect == Spec => []TypeOK
<1>1. Spec => []Inv
  BY InvInit, InvNext, PTL DEF Spec
<1>2. Inv => TypeOK
  BY DEF Inv
<1>3. QED
  BY <1>1, <1>2, PTL

-------------------------------------------------------------------------------
(* The reported range.                                                        *)

LEMMA CoversShrink ==
    ASSUME Covers, rows' \subseteq rows, UNCHANGED <<ulFirstTime, ulLastTime>>
    PROVE  Covers'
  BY TimesShrink DEF Covers

LEMMA InsertCovers ==
    ASSUME Inv, Covers, Insert PROVE Covers'
<1>1. pData \in Stamps /\ Times(rows') \subseteq Times(rows) \cup {pData}
  BY InsertType
<1>2. /\ Times(rows) \subseteq Stamps /\ Stamps \subseteq Nat \ {0}
      /\ ulFirstTime \in Nat /\ ulLastTime \in Nat
  BY TableFacts DEF Inv, TypeOK, Garbage
<1>3. /\ ulLastTime' = IF ulLastTime = 0 \/ ulLastTime < pData THEN pData ELSE ulLastTime
      /\ ulFirstTime' = IF ulFirstTime = 0 \/ ulFirstTime > pData THEN pData ELSE ulFirstTime
  BY DEF Insert
<1>4. ASSUME NEW t \in Times(rows)
      PROVE  ulFirstTime' # 0 /\ ulFirstTime' <= t /\ t <= ulLastTime'
  <2>1. t \in Nat \ {0} /\ ulFirstTime # 0 /\ ulFirstTime <= t /\ t <= ulLastTime
    BY <1>2 DEF Covers
  <2>2. QED
    BY <1>1, <1>2, <1>3, <2>1
<1>5. ulFirstTime' # 0 /\ ulFirstTime' <= pData /\ pData <= ulLastTime'
  BY <1>1, <1>2, <1>3
<1>6. QED
  BY <1>1, <1>4, <1>5 DEF Covers

\* The times read from a table cover it and are no zeroes.
LEMMA ReadKeepsCovers ==
    ASSUME NEW U, ReadInfo(rows', U), Times(rows') \subseteq Stamps PROVE Covers'
  BY ReadInfoCovers, StampsAssumption DEF Covers

LEMMA CoversNext ==
    ASSUME Inv, ~forgot => Covers, [Next]_vars PROVE ~forgot' => Covers'
<1>0. /\ Times(rows) \subseteq Stamps
      /\ rows' \subseteq rows => Times(rows') \subseteq Stamps
  BY TimesShrink, TableFacts
<1>1. CASE UNCHANGED vars
  BY <1>1, CoversShrink DEF vars, memory
<1>2. ASSUME NEW t \in Stamps, AddData(t) \/ AddDataNoRoom(t) PROVE ~forgot' => Covers'
  <2>1. rows' \subseteq rows /\ forgot' = forgot
    BY <1>2, AddDataType DEF AddData, AddDataNoRoom
  <2>2. CASE UNCHANGED <<ulFirstTime, ulLastTime>>
    BY <2>1, <2>2, CoversShrink
  <2>3. CASE ReadInfo(rows', Garbage)
    BY <1>0, <2>1, <2>3, ReadKeepsCovers
  <2>4. QED
    BY <1>2, <2>2, <2>3 DEF AddData, AddDataNoRoom, MakeRoom, Evict
<1>3. CASE Insert
  BY <1>3, InsertCovers DEF Insert
<1>4. CASE InsertFails
  BY <1>4, CoversShrink DEF InsertFails, memory
<1>5. CASE Restart
  <2>1. ReadInfo(rows', Garbage) /\ rows' = rows
    BY <1>5 DEF Restart, ReadInfo, Oldest, Newest
  <2>2. QED
    BY <1>0, <2>1, ReadKeepsCovers
<1>6. ASSUME rows' \subseteq rows, Recount, forgot' = forgot PROVE ~forgot' => Covers'
  <2>1. PICK U : ReadInfo(rows', U)
    BY <1>6 DEF Recount
  <2>2. QED
    BY <1>0, <1>6, <2>1, ReadKeepsCovers
<1>7. ASSUME NEW i \in -1..(MaxSamples - 1), NEW n \in 1..(MaxSamples - 1), DeleteData(i, n)
      PROVE  ~forgot' => Covers'
  BY <1>6, <1>7, DeletesShrink DEF DeleteData
<1>8. ASSUME NEW b \in Garbage, NEW e \in Garbage, DeleteDataWithTime(b, e)
      PROVE  ~forgot' => Covers'
  BY <1>6, <1>8, DeletesShrink DEF DeleteDataWithTime
<1>9. ASSUME NEW l \in Limits \cup {NoLimit}, SetDataLimit(l) PROVE ~forgot' => Covers'
  BY <1>9, DeletesShrink, CoversShrink DEF SetDataLimit
<1>10. ASSUME NEW l \in Limits \cup {NoLimit}, SetFields(l) PROVE ~forgot' => Covers'
  BY <1>10, CoversShrink DEF SetFields
<1>11. ASSUME NEW l \in Limits \cup {NoLimit}, Recreate(l) PROVE ~forgot' => Covers'
  BY <1>11 DEF Recreate
<1>12. CASE RestartUnread
  <2>1. rows' = rows /\ Times(rows) \subseteq Stamps
    BY <1>12, TableFacts DEF RestartUnread
  <2>2. CASE ReadInfo(rows, Garbage)
    <3>1. ReadInfo(rows', Garbage)
      BY <2>1, <2>2 DEF ReadInfo, Oldest, Newest
    <3>2. QED
      BY <2>1, <3>1, ReadKeepsCovers
  <2>3. CASE forgot' = (rows # {})
    BY <2>1, <2>3 DEF Covers, Times
  <2>4. QED
    BY <1>12, <2>2, <2>3 DEF RestartUnread
<1>13. QED
  BY <1>1, <1>2, <1>3, <1>4, <1>5, <1>7, <1>8, <1>9, <1>10, <1>11, <1>12 DEF Next

\* The first and last time the data manager reports for an endpoint enclose
\* every sample in its table, whatever was deleted, failed or restarted, unless
\* the object was made without a look at a table that had rows: created over the
\* one an earlier endpoint left behind, or started when the read failed.
THEOREM RangeAlwaysCovers == Spec => []RangeCovers
<1>1. Init => (~forgot => Covers)
  BY DEF Init, Covers, Times
<1>2. Inv /\ (~forgot => Covers) /\ [Next]_vars => (~forgot' => Covers')
  BY CoversNext
<1>3. (~forgot => Covers) => RangeCovers
  BY DEF Covers, RangeCovers
<1>4. QED
  BY <1>1, <1>2, <1>3, InvInit, InvNext, PTL DEF Spec

-------------------------------------------------------------------------------
(* Which rows make room.                                                      *)

\* A delete that starts at the index-th newest row takes no row that fewer than
\* index + 1 rows are as new as.
LEMMA DeleteFromIndex ==
    ASSUME Inv, NEW index \in Nat, NEW count \in Nat \ {0}, DeleteEPData(index, count),
           NEW r \in rows, r \notin rows'
    PROVE  Cardinality({q \in rows : q.ulTime >= r.ulTime}) >= index + 1
<1> DEFINE total == Cardinality(rows)
<1> DEFINE n == IF index + count > total THEN total - index ELSE count
<1> DEFINE newer(t) == {q \in rows : q.ulTime >= t}
<1>1. total \in Nat /\ IsFiniteSet(rows) /\ \A q \in rows : q.ulTime \in Nat
  BY TableFacts
<1>2. ~(total = 0 \/ index >= total)
  BY DEF DeleteEPData
<1>3. PICK first \in Times(rows), last \in Times(rows) :
        RowAt(last, index + n - 1) /\ DeleteBetween(first, last)
  BY <1>2 DEF DeleteEPData
<1>4. r.ulTime <= last
  BY <1>3 DEF DeleteBetween
<1>5. n \in Nat \ {0} /\ index + n - 1 >= index /\ index + n - 1 \in Nat
  BY <1>1, <1>2
<1>6. index + n - 1 < Cardinality(newer(last))
  BY <1>3 DEF RowAt
<1>7. newer(last) \subseteq newer(r.ulTime) /\ newer(r.ulTime) \subseteq rows
  <2>1. last \in Nat /\ r.ulTime \in Nat
    BY <1>1, <1>3 DEF Times
  <2>2. QED
    BY <1>1, <1>4, <2>1
<1>8. /\ Cardinality(newer(last)) \in Nat /\ Cardinality(newer(r.ulTime)) \in Nat
      /\ Cardinality(newer(last)) <= Cardinality(newer(r.ulTime))
  <2>1. IsFiniteSet(newer(r.ulTime)) /\ IsFiniteSet(newer(last))
    BY <1>1, <1>7, FS_Subset
  <2>2. QED
    BY <1>7, <2>1, FS_Subset, FS_CardinalityType
<1> HIDE DEF n, newer
<1>9. Cardinality(newer(r.ulTime)) >= index + 1
  BY <1>5, <1>6, <1>8
<1>10. QED
  BY <1>9 DEF newer

LEMMA RoomIsOld ==
    ASSUME Inv, pc = "idle", pc' = "insert", [Next]_vars, NEW r \in rows \ rows'
    PROVE  Cardinality({q \in rows : q.ulTime >= r.ulTime}) >= xLimit
<1>1. PICK t \in Stamps : AddData(t) \/ AddDataNoRoom(t)
  BY DEF Next, vars, Insert, InsertFails, Restart, RestartUnread, DeleteData, DeleteDataWithTime,
         SetDataLimit, SetFields, Recreate
<1>2. /\ xLimit # NoLimit /\ ulCount >= xLimit
      /\ DeleteEPData(ulCount - Excess, Excess)
  BY <1>1 DEF AddData, AddDataNoRoom, MakeRoom, Evict
<1>3. xLimit \in Nat /\ ulCount \in Nat
  BY <1>2, LimitsAssumption DEF Inv, TypeOK
<1>4. ulCount - Excess = xLimit - 1 /\ Excess \in Nat \ {0}
  BY <1>2, <1>3 DEF Excess
<1>5. CASE xLimit = 0
  <2>1. IsFiniteSet({q \in rows : q.ulTime >= r.ulTime})
    BY TableFacts, FS_Subset
  <2>2. QED
    BY <1>5, <2>1, FS_CardinalityType
<1>6. CASE xLimit # 0
  <2>1. xLimit - 1 \in Nat /\ DeleteEPData(xLimit - 1, Excess)
    BY <1>2, <1>3, <1>4, <1>6
  <2>2. Cardinality({q \in rows : q.ulTime >= r.ulTime}) >= (xLimit - 1) + 1
    BY <1>4, <2>1, DeleteFromIndex
  <2>3. QED
    BY <1>3, <2>2
<1>7. QED
  BY <1>5, <1>6

\* FTDM_EP_addData never deletes one of the newest samples to make room, even
\* when its count of the rows is wrong: a row goes only if at least as many as
\* the limit allows are as new as it.
THEOREM NewestSurvive == Spec => NewestKept
<1>1. Inv /\ [Next]_vars =>
        [pc = "idle" /\ pc' = "insert" =>
           \A r \in rows \ rows' :
              Cardinality({q \in rows : q.ulTime >= r.ulTime}) >= xLimit]_vars
  BY RoomIsOld
<1>2. QED
  BY <1>1, InvInit, InvNext, PTL DEF Spec, NewestKept

-------------------------------------------------------------------------------
(* The count.                                                                 *)

\* No two of the samples share a second.
Apart(R) == \A a, b \in R : a.ulTime = b.ulTime => a = b

\* Ids are used once, the limit stays until it is changed, and the count is right
\* and within the limit, with room for a sample on its way.  That the rows never
\* exceed the limit is what leaves one row to go for each new one: a delete of more
\* would run from the newest of them to the oldest and take none.
CountInv ==
    /\ \A r \in log : r.id <= Cardinality(log)
    /\ changes = 0 => xStored \in Limits /\ xLimit = xStored
    /\ changes = 0 /\ xLimit > 0 /\ Apart(log) =>
         /\ ulCount = Cardinality(rows) /\ ulCount <= xLimit
         /\ pc = "insert" => ulCount < xLimit

\* A set of rows with as many rows as the table is the table.
LEMMA WholeTable ==
    ASSUME Inv, NEW R, R \subseteq rows, Cardinality(R) >= Cardinality(rows)
    PROVE  R = rows
<1>1. IsFiniteSet(rows) /\ Cardinality(rows) \in Nat
  BY TableFacts
<1>2. IsFiniteSet(R) /\ Cardinality(R) \in Nat /\ Cardinality(R) <= Cardinality(rows)
  BY SubsetCount
<1>3. QED
  BY <1>1, <1>2, FS_Subset

\* With as many rows as the limit allows, making room takes the oldest row and no
\* other.
LEMMA OneRowGoes ==
    ASSUME Inv, Apart(rows), NEW k \in Nat, Cardinality(rows) = k + 1, DeleteEPData(k, 1)
    PROVE  Cardinality(rows') = k
<1> DEFINE since(t) == {q \in rows : q.ulTime >= t}
<1>1. /\ IsFiniteSet(rows) /\ \A q \in rows : q.ulTime \in Nat
      /\ Times(rows) \subseteq Nat
  BY TableFacts
<1>2. PICK first \in Times(rows), last \in Times(rows) :
        RowAt(first, k) /\ RowAt(last, k) /\ DeleteBetween(first, last)
  <2>1. Cardinality(rows) # 0 /\ ~(k >= Cardinality(rows)) /\ k >= 0
        /\ ~(k + 1 > Cardinality(rows)) /\ k + 1 - 1 = k
    OBVIOUS
  <2>2. QED
    BY <2>1 DEF DeleteEPData
<1>3. ASSUME NEW t \in Times(rows), RowAt(t, k) PROVE \A q \in rows : t <= q.ulTime
  <2>1. since(t) \subseteq rows /\ k < Cardinality(since(t))
    BY <1>3 DEF RowAt
  <2>2. Cardinality(since(t)) \in Nat
    BY <2>1, SubsetCount
  <2> HIDE DEF since
  <2>3. since(t) = rows
    BY <2>1, <2>2, WholeTable
  <2>4. QED
    BY <1>1, <2>3 DEF since
<1>4. PICK r \in rows : r.ulTime = first
  BY DEF Times
<1>5. first = last
  <2>1. PICK q \in rows : q.ulTime = last
    BY DEF Times
  <2>2. first <= last /\ last <= first
    BY <1>2, <1>3, <1>4, <2>1
  <2>3. QED
    BY <1>1, <2>2
<1>6. rows' = rows \ {r}
  <2>1. \A q \in rows : first <= q.ulTime /\ q.ulTime <= last <=> q = r
    BY <1>1, <1>4, <1>5 DEF Apart
  <2>2. QED
    BY <1>2, <2>1 DEF DeleteBetween
<1>7. Cardinality(rows') = Cardinality(rows) - 1
  BY <1>1, <1>4, <1>6, FS_RemoveElement
<1>8. QED
  BY <1>7

LEMMA CountKept ==
    ASSUME Inv, CountInv, rows' \subseteq rows, log' = log,
           changes' = changes, xStored' = xStored,
           xLimit' \in {xLimit, xStored}, ulCount' = Cardinality(rows'),
           pc' = "idle"
    PROVE  CountInv'
<1>1. /\ Cardinality(rows') \in Nat /\ Cardinality(rows) \in Nat
      /\ Cardinality(rows') <= Cardinality(rows)
  BY TableFacts, SubsetCount
<1>2. changes = 0 => xLimit' = xLimit /\ xLimit \in Nat
  BY LimitsAssumption DEF CountInv
<1>3. QED
  BY <1>1, <1>2 DEF CountInv, Apart

\* After a disturbance nothing more is said than that ids are used once.
LEMMA DisturbedCount ==
    ASSUME Inv, CountInv, Disturb, log' = log
    PROVE  CountInv'
  BY DEF Inv, TypeOK, CountInv, Disturb

LEMMA AddDataCount ==
    ASSUME Inv, CountInv, NEW t \in Stamps, AddData(t)
    PROVE  CountInv'
<1>1. log' = log /\ changes' = changes /\ xStored' = xStored /\ xLimit' = xLimit /\ MakeRoom
  BY DEF AddData
<1>2. ASSUME changes = 0, xLimit > 0, Apart(log)
      PROVE  ulCount' = Cardinality(rows') /\ ulCount' <= xLimit /\ ulCount' < xLimit
  <2>1. /\ xLimit \in Nat /\ xLimit # NoLimit
        /\ ulCount = Cardinality(rows) /\ ulCount \in Nat /\ ulCount <= xLimit
        /\ Apart(rows)
    BY <1>2, LimitsAssumption, TableFacts DEF CountInv, Inv, TypeOK, Apart
  <2>2. CASE ulCount < xLimit
    BY <1>1, <2>1, <2>2 DEF MakeRoom
  <2>3. CASE ulCount >= xLimit
    <3>1. ulCount = xLimit /\ Excess = 1 /\ ulCount - Excess = xLimit - 1
      BY <2>1, <2>3 DEF Excess
    <3>2. DeleteEPData(xLimit - 1, 1) /\ ulCount' = (xLimit - 1) % Width
      BY <1>1, <2>1, <2>3, <3>1 DEF MakeRoom, Evict
    <3>3. xLimit - 1 \in Nat /\ Cardinality(rows) = (xLimit - 1) + 1
      BY <1>2, <2>1, <3>1
    <3>4. Cardinality(rows') = xLimit - 1
      BY <2>1, <3>2, <3>3, OneRowGoes
    <3>5. xLimit - 1 < Width
      BY <2>1, <3>1, TableFacts, LimitsAssumption
    <3>6. ulCount' = xLimit - 1
      BY <3>2, <3>3, <3>5, LimitsAssumption
    <3>7. QED
      BY <2>1, <3>4, <3>6
  <2>4. QED
    BY <2>1, <2>2, <2>3
<1>3. QED
  BY <1>1, <1>2 DEF CountInv, Apart

LEMMA InsertCount ==
    ASSUME Inv, CountInv, Insert PROVE CountInv'
<1> DEFINE new == [id |-> Cardinality(log) + 1, ulTime |-> pData]
<1>1. /\ rows' = rows \cup {new} /\ log' = log \cup {new}
      /\ xStored' = xStored /\ xLimit' = xLimit /\ changes' = changes /\ pc' = "idle"
      /\ pc = "insert" /\ ulCount' = (ulCount + 1) % Width
      /\ Cardinality(log) < MaxSamples /\ rows \subseteq log
  BY DEF Insert, Inv, TypeOK, memory
<1>2. /\ Cardinality(log) \in Nat /\ Cardinality(rows) \in Nat
      /\ IsFiniteSet(log) /\ IsFiniteSet(rows)
  BY TableFacts DEF Inv
<1>3. new.id = Cardinality(log) + 1
  OBVIOUS
<1>4. new \notin log
  BY <1>2, <1>3 DEF CountInv
<1> HIDE DEF new
<1>5. Cardinality(log') = Cardinality(log) + 1
  BY <1>1, <1>2, <1>4, FS_AddElement
<1>6. Cardinality(rows') = Cardinality(rows) + 1
  BY <1>1, <1>2, <1>4, FS_AddElement
<1>7. \A r \in log' : r.id <= Cardinality(log')
  <2>1. \A r \in log : r.id \in Nat /\ r.id <= Cardinality(log)
    BY DEF CountInv, Inv, TypeOK, Samples
  <2>2. QED
    BY <1>1, <1>2, <1>3, <1>5, <2>1
<1>8. ASSUME changes = 0, xLimit > 0, Apart(log')
      PROVE  ulCount' = Cardinality(rows') /\ ulCount' <= xLimit
  <2>1. /\ ulCount = Cardinality(rows) /\ ulCount < xLimit /\ xLimit \in Nat
    BY <1>1, <1>8, LimitsAssumption DEF CountInv, Apart
  <2>2. Cardinality(rows) <= Cardinality(log)
    BY <1>1, <1>2, FS_Subset
  <2>3. ulCount + 1 \in 0..(Width - 1)
    BY <1>1, <1>2, <2>1, <2>2, BoundsAssumption, LimitsAssumption
  <2>4. ulCount' = ulCount + 1
    BY <1>1, <2>3, LimitsAssumption
  <2>5. QED
    BY <1>2, <1>6, <2>1, <2>4
<1>9. QED
  BY <1>1, <1>7, <1>8 DEF CountInv

LEMMA CountStep == Inv /\ CountInv /\ [Next]_vars => CountInv'
<1> SUFFICES ASSUME Inv, CountInv, [Next]_vars PROVE CountInv'
  OBVIOUS
<1>1. CASE UNCHANGED vars
  BY <1>1 DEF vars, memory, CountInv, Apart
<1>2. ASSUME NEW t \in Stamps, AddData(t) PROVE CountInv'
  BY <1>2, AddDataCount
<1>3. CASE Insert
  BY <1>3, InsertCount
<1>4. CASE Restart
  BY <1>4, CountKept DEF Restart
<1>5. ASSUME NEW i \in -1..(MaxSamples - 1), NEW n \in 1..(MaxSamples - 1), DeleteData(i, n)
      PROVE  CountInv'
  BY <1>5, DeletesShrink, CountKept DEF DeleteData, Recount
<1>6. ASSUME NEW b \in Garbage, NEW e \in Garbage, DeleteDataWithTime(b, e) PROVE CountInv'
  BY <1>6, DeletesShrink, CountKept DEF DeleteDataWithTime, Recount
<1>7. ASSUME \/ InsertFails \/ RestartUnread
             \/ \E t \in Stamps : AddDataNoRoom(t)
             \/ \E l \in Limits \cup {NoLimit} : SetDataLimit(l) \/ SetFields(l) \/ Recreate(l)
      PROVE  CountInv'
  BY <1>7, DisturbedCount DEF InsertFails, RestartUnread, AddDataNoRoom, SetDataLimit, SetFields, Recreate
<1>8. QED
  BY <1>1, <1>2, <1>3, <1>4, <1>5, <1>6, <1>7 DEF Next

\* The count the data manager keeps of an endpoint's samples is their number between
\* requests, for any limit above 0 and across deletes and restarts, as long as the
\* limit stays, no call fails and no two samples share a second.
THEOREM CountIsRight == Spec => []CountExact
<1>1. Init => CountInv
  <2>1. Cardinality({}) = 0
    BY FS_EmptySet
  <2>2. QED
    BY <2>1, LimitsAssumption DEF Init, CountInv
<1>2. CountInv => CountExact
  BY DEF CountInv, CountExact, Apart
<1>3. QED
  BY <1>1, <1>2, CountStep, InvInit, InvNext, PTL DEF Spec

-------------------------------------------------------------------------------
(* The way to the cloud: what the state is made of.                        *)

Messages == [kind : {"connected", "disconnected", "report", "data"}, rows : Seq(Rows)]
Batches == [rows : Seq(Rows), live : BOOLEAN]
Publications == [rows : Seq(Rows), ulTime : Nat]
Partial == {s \in Seq(Rows) : Len(s) < Batch}
Tasks == [at : {"idle", "last", "count", "fetch"}, now : Nat, total : Nat, sent : Nat,
          begin : Nat, end : Nat, ascending : BOOLEAN, rows : Partial]

GatewayTypes ==
    /\ clock \in Nat /\ FirstSecond <= clock
    /\ time \in Seq(Nat) /\ \A r \in Rows : FirstSecond <= time[r] /\ time[r] <= clock
    /\ reported \in 0..Len(time)

ClientTypes ==
    /\ mailbox \in Seq(Messages) /\ tpQueue \in Seq(Messages)
    /\ task \in Tasks
    /\ bConnected \in BOOLEAN /\ linked \in BOOLEAN
    /\ reading \in [going : BOOLEAN, last : Nat]
    /\ pGateway \in [known : BOOLEAN, last : Nat]
    /\ mqttQueue \in Seq(Batches) /\ flight \in Seq(Publications)
    /\ arrived \in 0..Len(flight)
    /\ cloud \subseteq Rows /\ refused \subseteq Rows /\ skipped \subseteq Rows

UplinkTypes == GatewayTypes /\ ClientTypes

-----------------------------------------------------------------------------

LEMMA TimesAre ==
  ASSUME UplinkTypes
  PROVE  /\ Len(time) \in Nat /\ Rows = 1..Len(time) /\ clock \in Nat /\ 2 <= clock
         /\ \A r \in Rows : r \in Nat /\ time[r] \in Nat /\ 2 <= time[r] /\ time[r] <= clock
<1>1. time \in Seq(Nat) /\ clock \in Nat /\ 2 <= clock
  BY DEF UplinkTypes, GatewayTypes, ClientTypes, FirstSecond
<1>2. \A r \in Rows : 2 <= time[r] /\ time[r] <= clock
  BY DEF UplinkTypes, GatewayTypes, ClientTypes, FirstSecond
<1>3. Len(time) \in Nat /\ \A r \in 1..Len(time) : time[r] \in Nat
  BY <1>1
<1> QED
  BY <1>1, <1>2, <1>3 DEF Rows

LEMMA GreatestOfSome ==
  ASSUME NEW S, NEW n \in Nat, S \subseteq 0..n, S # {}
  PROVE  Max(S) \in S /\ \A y \in S : y <= Max(S)
<1> DEFINE Above(y) == {z \in S : y < z}
           D == {Above(y) : y \in S}
<1>1. IsFiniteSet(S)
  <2>1. IsFiniteSet(0..n)
    BY FS_Interval
  <2> QED
    BY <2>1, FS_Subset
<1>2. \A y \in S : Above(y) \in SUBSET S /\ IsFiniteSet(Above(y))
  BY <1>1, FS_Subset
<1>3. D \subseteq FiniteSubsetsOf(S) /\ D # {}
  BY <1>2 DEF FiniteSubsetsOf
<1>4. PICK x \in D : \A y \in D : ~ (<<y, x>> \in StrictSubsetOrdering(S))
  <2> HIDE DEF D
  <2> QED BY <1>3, FS_StrictSubsetOrderingWellFounded, WFMin
<1>5. PICK s \in S : x = Above(s)
  OBVIOUS
<1>6. ASSUME NEW z \in S, s < z
      PROVE  FALSE
  <2>1. Above(z) \in SUBSET S /\ Above(s) \in SUBSET S
    OBVIOUS
  <2>2. Above(z) \subseteq Above(s) /\ z \in Above(s) /\ z \notin Above(z)
    <3>1. S \subseteq Nat /\ s \in Nat /\ z \in Nat
      OBVIOUS
    <3>2. \A w \in S : z < w => s < w
      BY <1>6, <3>1
    <3>3. ~ (z < z)
      BY <3>1
    <3> QED
      BY <1>6, <3>2, <3>3
  <2>3. <<Above(z), x>> \in StrictSubsetOrdering(S)
    BY <1>5, <2>1, <2>2 DEF StrictSubsetOrdering
  <2> QED
    BY <1>4, <2>3
<1>7. \A y \in S : s >= y
  BY <1>6
<1> QED
  BY <1>7 DEF Max

LEMMA LeastOfTwo ==
  ASSUME NEW a \in Nat, NEW b \in Nat
  PROVE  Min({a, b}) \in {a, b} /\ Min({a, b}) <= a /\ Min({a, b}) <= b
  BY DEF Min

LEMMA GreatestOfTwo ==
  ASSUME NEW a \in Nat, NEW b \in Nat
  PROVE  Max({a, b}) \in {a, b} /\ a <= Max({a, b}) /\ b <= Max({a, b})
  BY DEF Max

LEMMA LatestIs ==
  ASSUME UplinkTypes, NEW R, R \subseteq Rows
  PROVE  /\ Latest(R) \in Nat /\ Latest(R) <= clock
         /\ R # {} => \E r \in R : time[r] = Latest(R)
         /\ \A r \in R : time[r] <= Latest(R)
<1>1. CASE R = {}
  BY <1>1, TimesAre DEF Latest
<1>2. CASE R # {}
  <2>1. TimesOf(R) \subseteq 0..clock /\ TimesOf(R) # {} /\ clock \in Nat
    BY <1>2, TimesAre DEF TimesOf
  <2>2. Max(TimesOf(R)) \in TimesOf(R) /\ \A y \in TimesOf(R) : y <= Max(TimesOf(R))
    BY <2>1, GreatestOfSome
  <2> QED
    BY <1>2, <2>1, <2>2, TimesAre DEF Latest, TimesOf
<1> QED
  BY <1>1, <1>2

-----------------------------------------------------------------------------

LEMMA SelectedRows ==
  ASSUME UplinkTypes, NEW b, NEW e
  PROVE  /\ Selected(b, e) \subseteq Rows /\ IsFiniteSet(Selected(b, e))
         /\ Cardinality(Selected(b, e)) \in Nat
<1>1. Selected(b, e) \subseteq Rows
  BY DEF Selected
<1>2. IsFiniteSet(Rows)
  BY FS_Interval DEF Rows, UplinkTypes, GatewayTypes, ClientTypes
<1> QED
  BY <1>1, <1>2, FS_Subset, FS_CardinalityType

LEMMA SoonerIsOrder ==
  ASSUME UplinkTypes, NEW r \in Rows, NEW s \in Rows
  PROVE  /\ ~ Sooner(r, r)
         /\ r # s => Sooner(r, s) \/ Sooner(s, r)
         /\ \A q \in Rows : Sooner(q, r) /\ Sooner(r, s) => Sooner(q, s)
<1>1. Rows \subseteq Nat /\ \A q \in Rows : time[q] \in Nat
  BY TimesAre
<1> QED
  BY <1>1 DEF Sooner

LEMMA PlacesInOrder ==
  ASSUME UplinkTypes, NEW R, R \subseteq Rows, IsFiniteSet(R)
  PROVE  /\ \A r \in R : Place(r, R) \in 1..Cardinality(R)
         /\ \A r, s \in R : Sooner(r, s) => Place(r, R) < Place(s, R)
<1> DEFINE Below(r) == {q \in R : Sooner(q, r)}
<1>1. ASSUME NEW r \in R
      PROVE  /\ IsFiniteSet(Below(r)) /\ Cardinality(Below(r)) \in Nat
             /\ Cardinality(Below(r)) <= Cardinality(R \ {r})
  <2>1. Below(r) \subseteq R \ {r}
    BY SoonerIsOrder
  <2>2. IsFiniteSet(R \ {r})
    BY FS_Subset
  <2> QED
    BY <2>1, <2>2, FS_Subset, FS_CardinalityType
<1>2. ASSUME NEW r \in R
      PROVE  Place(r, R) \in 1..Cardinality(R)
  <2>1. Cardinality(R \ {r}) = Cardinality(R) - 1 /\ Cardinality(R) \in Nat
    BY FS_RemoveElement, FS_CardinalityType
  <2> QED
    BY <1>1, <2>1 DEF Place
<1>3. ASSUME NEW r \in R, NEW s \in R, Sooner(r, s)
      PROVE  Place(r, R) < Place(s, R)
  <2>1. Below(r) \cup {r} \subseteq Below(s) /\ r \notin Below(r)
    BY <1>3, SoonerIsOrder
  <2>2. Cardinality(Below(r) \cup {r}) = Cardinality(Below(r)) + 1
    BY <1>1, <2>1, FS_AddElement
  <2>3. Cardinality(Below(r) \cup {r}) <= Cardinality(Below(s))
    BY <1>1, <2>1, FS_Subset
  <2>4. /\ Cardinality(Below(r)) \in Nat /\ Cardinality(Below(s)) \in Nat
        /\ Place(r, R) = Cardinality(Below(r)) + 1
        /\ Place(s, R) = Cardinality(Below(s)) + 1
    BY <1>1 DEF Place
  <2> HIDE DEF Below
  <2> QED
    BY <2>2, <2>3, <2>4
<1> QED
  BY <1>2, <1>3

LEMMA PlacesAreTaken ==
  ASSUME UplinkTypes, NEW R, R \subseteq Rows, IsFiniteSet(R), NEW i \in 1..Cardinality(R)
  PROVE  \E r \in R : Place(r, R) = i
<1> DEFINE n == Cardinality(R)
           f == [r \in R |-> Place(r, R)]
<1>1. n \in Nat
  BY FS_CardinalityType
<1>2. f \in Injection(R, 1..n)
  <2>1. f \in [R -> 1..n]
    BY PlacesInOrder
  <2>2. ASSUME NEW r \in R, NEW s \in R, f[r] = f[s]
        PROVE  r = s
    <3>1. Place(r, R) = Place(s, R) /\ Place(r, R) \in Nat
      BY <1>1, <2>2, PlacesInOrder
    <3>2. ~ Sooner(r, s) /\ ~ Sooner(s, r)
      BY <3>1, PlacesInOrder
    <3> QED
      BY <3>2, SoonerIsOrder
  <2> QED
    BY <2>1, <2>2 DEF Injection, IsInjective
<1>3. IsFiniteSet(1..n) /\ Cardinality(1..n) = n
  BY <1>1, FS_Interval
<1>4. f \in Surjection(R, 1..n)
  <2> HIDE DEF f
  <2> QED BY <1>2, <1>3, FS_Injection
<1> QED
  BY <1>4 DEF Surjection

LEMMA AnswerIs ==
  ASSUME UplinkTypes, NEW n \in Nat
  PROVE  LET all == Selected(task.begin, task.end)
         IN /\ Answer(n) \in Seq(all)
            /\ task.ascending =>
                 \A q \in 1..Len(Answer(n)) : \A r \in all :
                   time[r] < time[Answer(n)[q]] =>
                     \E p \in 1..(q - 1) : Answer(n)[p] = r
<1> DEFINE all == Selected(task.begin, task.end)
           m == Min({n, Cardinality(all)})
           page == Answer(n)
<1>1. all \subseteq Rows /\ IsFiniteSet(all) /\ Cardinality(all) \in Nat
  BY SelectedRows
<1> HIDE DEF all
<1>2. m \in Nat /\ m <= Cardinality(all)
  BY <1>1, LeastOfTwo
<1>3. page = [i \in 1..m |-> CHOOSE r \in all : Place(r, all) = i]
  BY DEF Answer, all
<1> HIDE DEF m, page
<1>4. \A i \in 1..m : page[i] \in all /\ Place(page[i], all) = i
  <2> TAKE i \in 1..m
  <2>1. \E r \in all : Place(r, all) = i
    BY <1>1, <1>2, PlacesAreTaken
  <2> QED
    BY <1>3, <2>1
<1>5. page \in Seq(all) /\ Len(page) = m
  BY <1>2, <1>3, <1>4
<1>6. ASSUME task.ascending, NEW q \in 1..m, NEW r \in all, time[r] < time[page[q]]
      PROVE  \E p \in 1..(q - 1) : page[p] = r
  <2>1. Place(r, all) \in 1..Cardinality(all) /\ Place(r, all) < q
    <3>1. Sooner(r, page[q])
      BY <1>6 DEF Sooner
    <3> QED
      BY <1>1, <1>4, <3>1, PlacesInOrder
  <2>2. Place(r, all) \in 1..m /\ Place(r, all) \in 1..(q - 1)
    BY <1>1, <1>2, <2>1
  <2> DEFINE p == Place(r, all)
  <2>3. page[p] \in all /\ Place(page[p], all) = Place(r, all)
    BY <1>4, <2>2
  <2>4. ~ Sooner(page[p], r) /\ ~ Sooner(r, page[p])
    BY <1>1, <2>1, <2>3, PlacesInOrder
  <2>5. page[p] = r
    BY <1>1, <2>3, <2>4, SoonerIsOrder
  <2> QED
    BY <2>2, <2>5
<1> QED
  BY <1>5, <1>6 DEF page, all

-------------------------------------------------------------------------------
(* Sequences of rows, and the answers of the database.                     *)

LEMMA SeqOfMore ==
  ASSUME NEW S, NEW T, S \subseteq T
  PROVE  Seq(S) \subseteq Seq(T)
<1> SUFFICES ASSUME NEW s \in Seq(S) PROVE s \in Seq(T)
  OBVIOUS
<1>1. s = [i \in 1..Len(s) |-> s[i]] /\ Len(s) \in Nat /\ \A i \in 1..Len(s) : s[i] \in T
  OBVIOUS
<1> QED
  BY <1>1

LEMMA NothingYet == <<>> \in Partial
<1>1. Batch \in Nat /\ 0 < Batch
  BY SizesAssumption
<1> QED
  BY <1>1 DEF Partial

LEMMA SameRows ==
  ASSUME UNCHANGED time
  PROVE  /\ Rows' = Rows /\ Messages' = Messages /\ Batches' = Batches
         /\ Publications' = Publications /\ Tasks' = Tasks
<1>1. Rows' = Rows
  BY DEF Rows
<1> QED
  BY <1>1 DEF Messages, Batches, Publications, Partial, Tasks

LEMMA ElementsAre ==
  ASSUME UplinkTypes
  PROVE  /\ \A i \in 1..Len(mqttQueue) :
              /\ mqttQueue[i].rows \in Seq(Rows) /\ mqttQueue[i].live \in BOOLEAN
              /\ mqttQueue[i] \in Batches /\ Len(mqttQueue[i].rows) \in Nat
         /\ \A i \in 1..Len(flight) :
              /\ flight[i].rows \in Seq(Rows) /\ flight[i].ulTime \in Nat
              /\ Len(flight[i].rows) \in Nat
         /\ Len(mqttQueue) \in Nat /\ Len(flight) \in Nat
         /\ task.rows \in Seq(Rows) /\ Len(task.rows) \in Nat /\ Len(task.rows) < Batch
<1>1. mqttQueue \in Seq(Batches) /\ flight \in Seq(Publications) /\ task \in Tasks
  BY DEF UplinkTypes, ClientTypes
<1>2. \A i \in 1..Len(mqttQueue) : mqttQueue[i] \in Batches
  BY <1>1
<1>3. \A i \in 1..Len(flight) : flight[i] \in Publications
  BY <1>1
<1>4. Len(mqttQueue) \in Nat /\ Len(flight) \in Nat
  BY <1>1
<1>5. task.rows \in Partial
  BY <1>1 DEF Tasks
<1>6. task.rows \in Seq(Rows) /\ Len(task.rows) \in Nat /\ Len(task.rows) < Batch
  BY <1>5 DEF Partial
<1> QED
  BY <1>1, <1>2, <1>3, <1>4, <1>6 DEF Batches, Publications

\* What one publication takes from the batch in work.
LEMMA ChunkIs ==
  ASSUME UplinkTypes, mqttQueue # <<>>
  PROVE  LET batch == Head(mqttQueue)
             chunk == SubSeq(batch.rows, 1, Min({Chunk, Len(batch.rows)}))
             rest  == SubSeq(batch.rows, Len(chunk) + 1, Len(batch.rows))
         IN /\ batch = mqttQueue[1] /\ batch \in Batches /\ 1 \in 1..Len(mqttQueue)
            /\ chunk \in Seq(Rows) /\ rest \in Seq(Rows)
            /\ Len(chunk) \in 0..Len(batch.rows)
            /\ Len(rest) = Len(batch.rows) - Len(chunk)
            /\ \A p \in 1..Len(chunk) : chunk[p] = batch.rows[p]
            /\ \A p \in 1..Len(rest) : rest[p] = batch.rows[Len(chunk) + p]
<1> DEFINE b == Head(mqttQueue).rows
           m == Min({Chunk, Len(b)})
           chunk == SubSeq(b, 1, m)
           rest  == SubSeq(b, Len(chunk) + 1, Len(b))
<1>1. /\ Head(mqttQueue) = mqttQueue[1] /\ 1 \in 1..Len(mqttQueue)
      /\ Head(mqttQueue) \in Batches
  BY DEF UplinkTypes, ClientTypes
<1>2. b \in Seq(Rows) /\ Len(b) \in Nat
  BY <1>1, ElementsAre
<1>3. m \in 0..Len(b)
  <2>1. Chunk \in Nat
    BY SizesAssumption
  <2> QED
    BY <1>2, <2>1, LeastOfTwo
<1> HIDE DEF b, m
<1>4. chunk \in Seq(Rows) /\ Len(chunk) = m /\ \A p \in 1..m : chunk[p] = b[p]
  BY <1>2, <1>3
<1>5. rest = SubSeq(b, m + 1, Len(b))
  BY <1>4
<1>6. /\ rest \in Seq(Rows) /\ Len(rest) = Len(b) - m
      /\ \A p \in 1..Len(rest) : rest[p] = b[m + p]
  <2> HIDE DEF rest
  <2> QED
    BY <1>2, <1>3, <1>5
<1> QED
  BY <1>1, <1>2, <1>3, <1>4, <1>6 DEF b, m

\* What the blocker has after one more answer.
LEMMA PageIs ==
  ASSUME UplinkTypes, NEW n \in Nat
  PROVE  LET page == Answer(n)
             all  == task.rows \o page
         IN /\ page \in Seq(Rows) /\ Len(page) \in Nat
            /\ all \in Seq(Rows) /\ Len(all) = Len(task.rows) + Len(page)
            /\ \A p \in 1..Len(task.rows) : all[p] = task.rows[p]
            /\ \A p \in 1..Len(page) :
                  /\ all[Len(task.rows) + p] = page[p]
                  /\ page[p] \in Selected(task.begin, task.end)
            /\ page # <<>> => /\ Len(page) # 0 /\ Last(page) = page[Len(page)]
            /\ all # <<>> => Len(all) # 0 /\ Last(all) = all[Len(all)] /\ Last(all) \in Rows
<1> DEFINE page == Answer(n)
           sel == Selected(task.begin, task.end)
<1>1. page \in Seq(sel) /\ sel \subseteq Rows
  BY AnswerIs, SelectedRows
<1> HIDE DEF page, sel
<1>2. page \in Seq(Rows) /\ Len(page) \in Nat /\ \A p \in 1..Len(page) : page[p] \in sel
  BY <1>1, SeqOfMore
<1>3. task.rows \in Seq(Rows) /\ Len(task.rows) \in Nat
  BY ElementsAre
<1> DEFINE s == task.rows
           all == s \o page
<1>4. s \in Seq(Rows)
  BY <1>3
<1> HIDE DEF s
<1>5. /\ all \in Seq(Rows) /\ Len(all) = Len(s) + Len(page)
      /\ \A p \in 1..Len(s) : all[p] = s[p]
      /\ \A p \in 1..Len(page) : all[Len(s) + p] = page[p]
  BY <1>2, <1>4
<1> HIDE DEF all
<1>6. /\ page # <<>> => Len(page) # 0 /\ Last(page) = page[Len(page)]
      /\ all # <<>> => Len(all) # 0 /\ Last(all) = all[Len(all)] /\ Last(all) \in Rows
  BY <1>2, <1>5 DEF Last
<1> QED
  BY <1>2, <1>3, <1>5, <1>6 DEF page, sel, s, all

LEMMA AskForType ==
  ASSUME NEW t \in Tasks, NEW b \in Nat, t.at = "fetch"
  PROVE  /\ AskFor(t, b) \in Tasks /\ AskFor(t, b).at = "fetch"
         /\ AskFor(t, b).rows = <<>>
         /\ IF b > t.now THEN ~ AskFor(t, b).ascending /\ AskFor(t, b).end = b
            ELSE AskFor(t, b).ascending /\ AskFor(t, b).begin = b
<1>1. t.now \in Nat /\ t \in Tasks /\ (b <= t.now) \in BOOLEAN /\ (b <= t.now <=> ~ (b > t.now))
  BY DEF Tasks
<1>4. <<>> \in Partial
  BY NothingYet
<1>2. CASE b > t.now
  <2>1. AskFor(t, b) = [t EXCEPT !.begin = t.now, !.end = b, !.ascending = FALSE, !.rows = <<>>]
    BY <1>1, <1>2, Zenon DEF AskFor
  <2>2. AskFor(t, b) \in Tasks
    BY <1>1, <1>4, <2>1 DEF Tasks
  <2>3. /\ AskFor(t, b).at = t.at /\ AskFor(t, b).rows = <<>>
        /\ AskFor(t, b).ascending = FALSE /\ AskFor(t, b).end = b
    BY <1>1, <2>1 DEF Tasks
  <2> QED
    BY <1>2, <2>2, <2>3
<1>3. CASE ~ (b > t.now)
  <2>1. AskFor(t, b) = [t EXCEPT !.begin = b, !.end = t.now, !.ascending = TRUE, !.rows = <<>>]
    BY <1>1, <1>3, Zenon DEF AskFor
  <2>2. AskFor(t, b) \in Tasks
    BY <1>1, <1>4, <2>1 DEF Tasks
  <2>3. /\ AskFor(t, b).at = t.at /\ AskFor(t, b).rows = <<>>
        /\ AskFor(t, b).ascending = TRUE /\ AskFor(t, b).begin = b
    BY <1>1, <2>1 DEF Tasks
  <2> QED
    BY <1>3, <2>2, <2>3
<1> QED
  BY <1>2, <1>3

LEMMA IdleType == Idle \in Tasks
  BY NothingYet DEF Idle, Tasks

\* The step of the blocker that asks for one more page.
LEMMA FetchPageIs ==
  ASSUME UplinkTypes, FetchPage
  PROVE  LET n    == Min({Page, Batch - Len(task.rows)})
             page == Answer(n)
             all  == task.rows \o page
             next == time[Last(page)]
             end  == time[Last(all)] + 1
         IN /\ n \in Nat /\ task.at = "fetch" /\ task' \in Tasks
            /\ \/ /\ page # <<>>
                  /\ task'.at = "fetch" /\ task'.rows = all
                  /\ task'.ascending = task.ascending
                  /\ IF task.ascending THEN task'.begin = next + 1 ELSE task'.end = next - 1
                  /\ UNCHANGED mqttQueue
               \/ all = <<>> /\ task' = Idle /\ UNCHANGED mqttQueue
               \/ /\ all # <<>> /\ task'.rows = <<>>
                  /\ task'.at \in {"idle", "fetch"}
                  /\ task'.at = "fetch" =>
                       IF task'.ascending THEN task'.begin = end ELSE task'.end = end
                  /\ mqttQueue' = Append(mqttQueue, [rows |-> all, live |-> FALSE])
<1> DEFINE n    == Min({Page, Batch - Len(task.rows)})
           page == Answer(n)
           all  == task.rows \o page
           more == /\ page # <<>> /\ Len(all) < Batch
                   /\ Cardinality(Selected(task.begin, task.end)) > n
           next == time[Last(page)]
           end  == time[Last(all)] + 1
<1>1. n \in Nat /\ task.at = "fetch" /\ task \in Tasks
  <2>1. Page \in Nat /\ Batch \in Nat
    BY SizesAssumption
  <2>2. Batch - Len(task.rows) \in Nat
    BY <2>1, ElementsAre
  <2>3. task.at = "fetch" /\ task \in Tasks
    BY DEF FetchPage, UplinkTypes, ClientTypes
  <2> QED
    BY <2>1, <2>2, <2>3, LeastOfTwo
<1> HIDE DEF n
<1>2. /\ page \in Seq(Rows) /\ Len(page) \in Nat /\ all \in Seq(Rows)
      /\ page # <<>> => Len(page) # 0 /\ Last(page) = page[Len(page)]
      /\ all # <<>> => Last(all) \in Rows
  BY <1>1, PageIs
<1> HIDE DEF page
<1>3. page # <<>> => next \in Nat /\ next - 1 \in Nat
  <2>1. page # <<>> => Last(page) \in Rows
    BY <1>2
  <2> QED
    BY <2>1, TimesAre
<1>4. all # <<>> => end \in Nat
  BY <1>2, TimesAre
<1> HIDE DEF all, next, end
<1>5. CASE more
  <2>1. task' = [task EXCEPT !.rows = all, !.begin = IF task.ascending THEN next + 1 ELSE @,
                             !.end = IF task.ascending THEN @ ELSE next - 1]
        /\ UNCHANGED mqttQueue
    BY <1>5 DEF FetchPage, more, next, all, page, n
  <2>2. all \in Partial /\ next \in Nat /\ next + 1 \in Nat /\ next - 1 \in Nat /\ page # <<>>
    BY <1>2, <1>3, <1>5 DEF Partial
  <2>3. CASE task.ascending
    <3>1. task' = [task EXCEPT !.rows = all, !.begin = next + 1]
      BY <1>1, <2>1, <2>3 DEF Tasks
    <3>2. task' \in Tasks
      BY <1>1, <2>2, <3>1 DEF Tasks
    <3>3. /\ task'.at = "fetch" /\ task'.rows = all /\ task'.ascending = task.ascending
          /\ task'.begin = next + 1
      BY <1>1, <3>1 DEF Tasks
    <3> QED
      BY <1>1, <2>1, <2>2, <2>3, <3>2, <3>3 DEF n, page, all, next
  <2>4. CASE ~ task.ascending
    <3>1. task' = [task EXCEPT !.rows = all, !.end = next - 1]
      BY <1>1, <2>1, <2>4 DEF Tasks
    <3>2. task' \in Tasks
      BY <1>1, <2>2, <3>1 DEF Tasks
    <3>3. /\ task'.at = "fetch" /\ task'.rows = all /\ task'.ascending = task.ascending
          /\ task'.end = next - 1
      BY <1>1, <3>1 DEF Tasks
    <3> QED
      BY <1>1, <2>1, <2>2, <2>4, <3>2, <3>3 DEF n, page, all, next
  <2> QED
    BY <2>3, <2>4
<1>6. CASE ~ more
  <2> DEFINE t == [task EXCEPT !.sent = @ + Len(all)]
  <2>1. /\ task' = IF all = <<>> \/ task.sent + Len(all) >= task.total THEN Idle
                   ELSE AskFor(t, end)
        /\ mqttQueue' = IF all = <<>> THEN mqttQueue
                        ELSE Append(mqttQueue, [rows |-> all, live |-> FALSE])
    BY <1>6 DEF FetchPage, more, next, end, all, page, n
  <2>2. t \in Tasks /\ t.at = "fetch"
    BY <1>1, <1>2 DEF Tasks
  <2> HIDE DEF t
  <2>3. Idle \in Tasks /\ Idle.at = "idle" /\ Idle.rows = <<>>
    BY IdleType DEF Idle
  <2>4. CASE all = <<>>
    BY <1>1, <2>1, <2>3, <2>4 DEF n, page, all
  <2>5. CASE all # <<>> /\ task' = Idle
    BY <1>1, <2>1, <2>3, <2>5 DEF n, page, all
  <2>6. CASE all # <<>> /\ task' = AskFor(t, end)
    <3>1. /\ task' \in Tasks /\ task'.at = "fetch" /\ task'.rows = <<>>
          /\ IF task'.ascending THEN task'.begin = end ELSE task'.end = end
      BY <1>4, <2>2, <2>6, AskForType
    <3> QED
      BY <1>1, <2>1, <2>6, <3>1 DEF n, page, all, end
  <2> QED
    BY <2>1, <2>4, <2>5, <2>6
<1> QED
  BY <1>5, <1>6

-------------------------------------------------------------------------------
(* Every step keeps the types.                                             *)

LEMMA TypesInit == UplinkInit => UplinkTypes
<1> SUFFICES ASSUME UplinkInit PROVE UplinkTypes
  OBVIOUS
<1>1. clock \in Nat /\ 2 <= clock /\ Old \in Nat
  BY UplinkBounds DEF UplinkInit, FirstSecond
<1>2. time \in [1..Old -> {2, clock}]
  BY DEF UplinkInit, FirstSecond
<1>3. time \in Seq(Nat) /\ Len(time) = Old /\ \A r \in 1..Old : 2 <= time[r] /\ time[r] <= clock
  BY <1>1, <1>2
<1>4. Idle \in Tasks
  BY IdleType
<1>5. reported = Old
  BY DEF UplinkInit
<1>6. GatewayTypes
  BY <1>1, <1>3, <1>5 DEF GatewayTypes, Rows, FirstSecond
<1>7. <<>> \in Seq(Messages) /\ <<>> \in Seq(Batches) /\ <<>> \in Seq(Publications)
  OBVIOUS
<1>8. NoReading \in [going : BOOLEAN, last : Nat] /\ Unknown \in [known : BOOLEAN, last : Nat]
  BY DEF NoReading, Unknown
<1>9. /\ mailbox = <<>> /\ task = Idle /\ bConnected = FALSE /\ tpQueue = <<>>
      /\ reading = NoReading /\ pGateway = Unknown /\ mqttQueue = <<>> /\ linked = FALSE
      /\ flight = <<>> /\ arrived = 0 /\ cloud = {} /\ refused = {} /\ skipped = {}
  BY DEF UplinkInit
<1>10. ClientTypes
  <2>1. arrived \in 0..Len(flight)
    BY <1>9
  <2> QED
    BY <1>4, <1>7, <1>8, <1>9, <2>1 DEF ClientTypes
<1> QED
  BY <1>6, <1>10 DEF UplinkTypes

LEMMA TypesSample == UplinkTypes /\ Sample => UplinkTypes'
<1> SUFFICES ASSUME UplinkTypes, Sample PROVE UplinkTypes'
  OBVIOUS
<1>1. time' = Append(time, clock) /\ time \in Seq(Nat) /\ clock \in Nat /\ clock' = clock
  BY TimesAre DEF Sample, UplinkTypes, GatewayTypes, ClientTypes
<1>2. /\ time' \in Seq(Nat) /\ Len(time') = Len(time) + 1 /\ Len(time) \in Nat
      /\ \A r \in 1..Len(time) : time'[r] = time[r]
      /\ time'[Len(time) + 1] = clock
  BY <1>1
<1>3. \A r \in Rows' : 2 <= time'[r] /\ time'[r] <= clock'
  BY <1>1, <1>2, TimesAre DEF Rows
<1>4. Rows \subseteq Rows'
  BY <1>2 DEF Rows
<1>5. Seq(Rows) \subseteq Seq(Rows')
  BY <1>4, SeqOfMore
<1>5a. Partial \subseteq Partial'
  BY <1>5 DEF Partial
<1>6. Messages \subseteq Messages' /\ Batches \subseteq Batches' /\ Publications \subseteq Publications'
      /\ Tasks \subseteq Tasks'
  BY <1>5, <1>5a DEF Messages, Batches, Publications, Tasks
<1>7. /\ Seq(Messages) \subseteq Seq(Messages') /\ Seq(Batches) \subseteq Seq(Batches')
      /\ Seq(Publications) \subseteq Seq(Publications')
  BY <1>6, SeqOfMore
<1> HIDE DEF Sample
<1>8. UNCHANGED <<reported, mailbox, task, cloudClient, mqttQueue, link, faults, history>>
  BY DEF Sample
<1> USE DEF cloudClient, link, history
<1>9. reported' \in 0..Len(time)'
  BY <1>2, <1>8 DEF UplinkTypes, GatewayTypes, ClientTypes
<1>10. mailbox' \in Seq(Messages') /\ tpQueue' \in Seq(Messages') /\ task' \in Tasks'
  BY <1>6, <1>7, <1>8 DEF UplinkTypes, GatewayTypes, ClientTypes
<1>11. mqttQueue' \in Seq(Batches') /\ flight' \in Seq(Publications')
  BY <1>7, <1>8 DEF UplinkTypes, GatewayTypes, ClientTypes
<1>12. cloud' \subseteq Rows' /\ refused' \subseteq Rows' /\ skipped' \subseteq Rows'
  BY <1>4, <1>8 DEF UplinkTypes, GatewayTypes, ClientTypes
<1>13. /\ bConnected' \in BOOLEAN /\ linked' \in BOOLEAN
       /\ reading' \in [going : BOOLEAN, last : Nat] /\ pGateway' \in [known : BOOLEAN, last : Nat]
       /\ arrived' \in 0..Len(flight)'
  BY <1>8 DEF UplinkTypes, GatewayTypes, ClientTypes
<1> QED
  BY <1>1, <1>2, <1>3, <1>9, <1>10, <1>11, <1>12, <1>13 DEF UplinkTypes, GatewayTypes, ClientTypes, FirstSecond

LEMMA TypesTick == UplinkTypes /\ Tick => UplinkTypes'
<1> SUFFICES ASSUME UplinkTypes, Tick PROVE UplinkTypes'
  OBVIOUS
<1>1. UNCHANGED time /\ clock' = clock + 1 /\ UNCHANGED reported
  BY DEF Tick
<1>2. \A r \in Rows : 2 <= time[r] /\ time[r] <= clock'
  BY <1>1, TimesAre
<1>3. GatewayTypes'
  BY <1>1, <1>2, SameRows, TimesAre DEF UplinkTypes, GatewayTypes, FirstSecond
<1>4. ClientTypes'
  BY <1>1, SameRows DEF UplinkTypes, ClientTypes, Tick, cloudClient, link, history
<1> QED
  BY <1>3, <1>4 DEF UplinkTypes

LEMMA GatewayTypesStay == GatewayTypes /\ UNCHANGED <<clock, time, reported>> => GatewayTypes'
  BY SameRows DEF GatewayTypes

LEMMA TypesNotify == UplinkTypes /\ Notify => UplinkTypes'
<1> SUFFICES ASSUME UplinkTypes, Notify PROVE UplinkTypes'
  OBVIOUS
<1> DEFINE n == Len(time) - reported
           news == [i \in 1..n |-> reported + i]
<1>1. reported \in Nat /\ Len(time) \in Nat /\ reported < Len(time)
  BY TimesAre DEF UplinkTypes, GatewayTypes, Notify
<1>2. n \in Nat /\ \A i \in 1..n : reported + i \in Rows
  BY <1>1 DEF Rows
<1>3. news \in Seq(Rows)
  BY <1>2
<1>4. Data(news) \in Messages
  <2> HIDE DEF news
  <2> QED BY <1>3 DEF Data, Messages
<1>5. mailbox' \in Seq(Messages)
  <2>1. mailbox \in Seq(Messages)
    BY DEF UplinkTypes, ClientTypes
  <2>2. mailbox' = Append(mailbox, Data(news)) \/ mailbox' = mailbox
    BY DEF Notify
  <2> HIDE DEF news
  <2> QED
    BY <1>4, <2>1, <2>2
<1>6. UNCHANGED <<clock, time, task, cloudClient, mqttQueue, link, faults, history>> /\ reported' = Len(time)
  BY DEF Notify
<1>7. GatewayTypes'
  BY <1>1, <1>6, SameRows DEF UplinkTypes, GatewayTypes
<1>8. ClientTypes'
  BY <1>5, <1>6, SameRows DEF UplinkTypes, ClientTypes, cloudClient, link, history
<1> QED
  BY <1>7, <1>8 DEF UplinkTypes

LEMMA MessagesAre ==
  /\ Connected \in Messages /\ Disconnected \in Messages /\ Report \in Messages
  /\ \A r \in Seq(Rows) : Data(r) \in Messages
<1>1. <<>> \in Seq(Rows)
  OBVIOUS
<1> QED
  BY <1>1 DEF Connected, Disconnected, Report, Data, Messages

LEMMA TypesForward == UplinkTypes /\ (PublishStatus \/ Forward) => UplinkTypes'
<1> SUFFICES ASSUME UplinkTypes, PublishStatus \/ Forward PROVE UplinkTypes'
  OBVIOUS
<1> USE DEF gatewaySide, cloudClient, link, history
<1>1. UNCHANGED <<gatewaySide, task, bConnected, reading, pGateway, mqttQueue, link, history>>
  BY DEF PublishStatus, Forward
<1>2. GatewayTypes'
  BY <1>1, GatewayTypesStay DEF UplinkTypes
<1>3. mailbox \in Seq(Messages) /\ tpQueue \in Seq(Messages)
  BY DEF UplinkTypes, ClientTypes
<1>4. mailbox' \in Seq(Messages) /\ tpQueue' \in Seq(Messages)
  <2>1. CASE PublishStatus
    BY <2>1, <1>3, MessagesAre DEF PublishStatus
  <2>2. CASE Forward
    BY <2>2, <1>3 DEF Forward
  <2> QED
    BY <2>1, <2>2
<1>5. ClientTypes'
  BY <1>1, <1>4, SameRows DEF UplinkTypes, ClientTypes
<1> QED
  BY <1>2, <1>5 DEF UplinkTypes

LEMMA TypesCatchUp ==
  UplinkTypes /\ (Begin \/ GetLastTime \/ Count \/ FetchFails) => UplinkTypes'
<1> SUFFICES ASSUME UplinkTypes, Begin \/ GetLastTime \/ Count \/ FetchFails PROVE UplinkTypes'
  OBVIOUS
<1> USE DEF gatewaySide, cloudClient, link, history
<1>1. UNCHANGED <<gatewaySide, cloudClient, mqttQueue, link, history>>
  BY DEF Begin, GetLastTime, Count, FetchFails
<1>2. GatewayTypes'
  BY <1>1, GatewayTypesStay DEF UplinkTypes
<1>3. mailbox \in Seq(Messages) /\ task \in Tasks /\ Idle \in Tasks /\ clock \in Nat
  BY IdleType, TimesAre DEF UplinkTypes, ClientTypes
<1>4. mailbox' \in Seq(Messages) /\ task' \in Tasks
  <2>1. CASE Begin
    <3>1. [Idle EXCEPT !.at = "last", !.now = clock] \in Tasks
      BY <1>3 DEF Tasks
    <3> QED
      BY <2>1, <3>1, <1>3 DEF Begin
  <2>2. CASE GetLastTime
    <3>1. pGateway.last \in Nat /\ task.now \in Nat
      BY <1>3 DEF UplinkTypes, ClientTypes, Tasks
    <3>2. \A now, b \in Nat :
             [task EXCEPT !.at = "count", !.now = now, !.begin = b] \in Tasks
      BY <1>3 DEF Tasks
    <3>3. CASE pGateway.known
      <4>1. PICK now \in {task.now, 0} :
               task' = [task EXCEPT !.at = "count", !.now = now, !.begin = pGateway.last + 1]
        BY <2>2, <3>3 DEF GetLastTime
      <4>2. now \in Nat /\ pGateway.last + 1 \in Nat /\ UNCHANGED mailbox
        BY <2>2, <3>1 DEF GetLastTime
      <4> QED
        BY <1>3, <3>2, <4>1, <4>2
    <3>4. CASE ~ pGateway.known
      BY <2>2, <3>4, <1>3 DEF GetLastTime
    <3> QED
      BY <3>3, <3>4
  <2>3. CASE Count
    <3> DEFINE total == Cardinality(Selected(task.begin, task.now))
               t == [task EXCEPT !.at = "fetch", !.total = total]
    <3>1. t \in Tasks /\ t.at = "fetch" /\ task.begin \in Nat
      BY <1>3, SelectedRows DEF Tasks
    <3>2. AskFor(t, task.begin) \in Tasks
      <4> HIDE DEF t
      <4> QED BY <3>1, AskForType
    <3>3. task' = Idle \/ task' = AskFor(t, task.begin)
      BY <2>3, Zenon DEF Count
    <3>4. UNCHANGED mailbox
      BY <2>3 DEF Count
    <3> QED
      BY <3>2, <3>3, <3>4, <1>3
  <2>4. CASE FetchFails
    BY <2>4, <1>3 DEF FetchFails
  <2> QED
    BY <2>1, <2>2, <2>3, <2>4
<1>5. ClientTypes'
  BY <1>1, <1>4, SameRows DEF UplinkTypes, ClientTypes
<1> QED
  BY <1>2, <1>5 DEF UplinkTypes

LEMMA TypesFetchPage == UplinkTypes /\ FetchPage => UplinkTypes'
<1> SUFFICES ASSUME UplinkTypes, FetchPage PROVE UplinkTypes'
  OBVIOUS
<1> USE DEF gatewaySide, cloudClient, link, history
<1>1. UNCHANGED <<gatewaySide, mailbox, cloudClient, link, history>>
  BY DEF FetchPage
<1>2. GatewayTypes'
  BY <1>1, GatewayTypesStay DEF UplinkTypes
<1>3. task' \in Tasks /\ mqttQueue \in Seq(Batches)
  BY FetchPageIs DEF UplinkTypes, ClientTypes
<1> DEFINE n == Min({Page, Batch - Len(task.rows)})
           all == task.rows \o Answer(n)
<1>3a. all \in Seq(Rows)
  BY FetchPageIs, PageIs
<1> HIDE DEF n, all
<1>3b. [rows |-> all, live |-> FALSE] \in Batches
  BY <1>3a DEF Batches
<1>4. mqttQueue' \in Seq(Batches)
  <2>1. mqttQueue' = mqttQueue \/ mqttQueue' = Append(mqttQueue, [rows |-> all, live |-> FALSE])
    BY FetchPageIs DEF n, all
  <2> QED
    BY <1>3, <1>3b, <2>1
<1>5. ClientTypes'
  BY <1>1, <1>3, <1>4, SameRows DEF UplinkTypes, ClientTypes
<1> QED
  BY <1>2, <1>5 DEF UplinkTypes

LEMMA TypesCloudClient == UplinkTypes /\ CloudClientStep => UplinkTypes'
<1> SUFFICES ASSUME UplinkTypes, CloudClientStep PROVE UplinkTypes'
  OBVIOUS
<1> USE DEF gatewaySide, cloudClient, link, history
<1>1. UNCHANGED <<gatewaySide, task, link, history>>
  BY DEF CloudClientStep, Poll, SendData, OnDisconnected, ReadGateway, ReplaceGateway
<1>2. GatewayTypes'
  BY <1>1, GatewayTypesStay DEF UplinkTypes
<1>3. /\ mailbox \in Seq(Messages) /\ tpQueue \in Seq(Messages) /\ mqttQueue \in Seq(Batches)
      /\ bConnected \in BOOLEAN /\ linked \in BOOLEAN
      /\ reading \in [going : BOOLEAN, last : Nat] /\ pGateway \in [known : BOOLEAN, last : Nat]
  BY DEF UplinkTypes, ClientTypes
<1>4. /\ mailbox' \in Seq(Messages) /\ tpQueue' \in Seq(Messages) /\ mqttQueue' \in Seq(Batches)
      /\ bConnected' \in BOOLEAN
      /\ reading' \in [going : BOOLEAN, last : Nat] /\ pGateway' \in [known : BOOLEAN, last : Nat]
  <2>1. CASE Poll
    <3>1. <<IF linked THEN Connected ELSE Disconnected>> \in Seq(Messages)
      BY MessagesAre
    <3> QED
      BY <1>3, <2>1, <3>1 DEF Poll
  <2>2. CASE SendData
    <3>1. Head(tpQueue) \in Messages /\ Tail(tpQueue) \in Seq(Messages)
      BY <1>3, <2>2 DEF SendData
    <3>2. [rows |-> Head(tpQueue).rows, live |-> TRUE] \in Batches
      BY <3>1 DEF Messages, Batches
    <3>3. tpQueue' = Tail(tpQueue)
          /\ mqttQueue' = Append(mqttQueue, [rows |-> Head(tpQueue).rows, live |-> TRUE])
          /\ UNCHANGED <<mailbox, bConnected, reading, pGateway>>
      BY <2>2 DEF SendData
    <3>4. mqttQueue' \in Seq(Batches)
      BY <1>3, <3>2, <3>3
    <3> QED
      BY <1>3, <3>1, <3>3, <3>4
  <2>3. CASE OnDisconnected
    BY <1>3, <2>3, MessagesAre DEF OnDisconnected
  <2>4. CASE ReadGateway
    <3>1. [going |-> TRUE, last |-> Latest(cloud)] \in [going : BOOLEAN, last : Nat]
      <4>1. Latest(cloud) \in Nat
        BY LatestIs DEF UplinkTypes, ClientTypes
      <4> QED
        BY <4>1
    <3>2. Tail(tpQueue) \in Seq(Messages)
      BY <1>3, <2>4 DEF ReadGateway
    <3>3. reading' \in {reading, [going |-> TRUE, last |-> Latest(cloud)]}
          /\ tpQueue' = Tail(tpQueue) /\ UNCHANGED <<mailbox, bConnected, pGateway, mqttQueue>>
      BY <2>4 DEF ReadGateway
    <3> QED
      BY <1>3, <3>1, <3>2, <3>3
  <2>5. CASE ReplaceGateway
    <3>1. /\ [known |-> TRUE, last |-> reading.last] \in [known : BOOLEAN, last : Nat]
          /\ NoReading \in [going : BOOLEAN, last : Nat]
      BY <1>3 DEF NoReading
    <3>2. /\ pGateway' = [known |-> TRUE, last |-> reading.last] /\ reading' = NoReading
          /\ mailbox' = Append(mailbox, Connected) /\ UNCHANGED <<bConnected, tpQueue, mqttQueue>>
      BY <2>5 DEF ReplaceGateway
    <3>3. mailbox' \in Seq(Messages)
      BY <1>3, <3>2, MessagesAre
    <3> QED
      BY <1>3, <3>1, <3>2, <3>3
  <2> QED
    BY <2>1, <2>2, <2>3, <2>4, <2>5 DEF CloudClientStep
<1>5. ClientTypes'
  BY <1>1, <1>4, SameRows DEF UplinkTypes, ClientTypes
<1> QED
  BY <1>2, <1>5 DEF UplinkTypes

LEMMA PublishTypes ==
  ASSUME UplinkTypes, Publish
  PROVE  mqttQueue' \in Seq(Batches) /\ flight' \in Seq(Publications)
<1> DEFINE batch == Head(mqttQueue)
           chunk == SubSeq(batch.rows, 1, Min({Chunk, Len(batch.rows)}))
           rest  == SubSeq(batch.rows, Len(chunk) + 1, Len(batch.rows))
           pub   == Published(chunk, batch.rows)
<1>1. /\ chunk \in Seq(Rows) /\ rest \in Seq(Rows) /\ 1 \in 1..Len(mqttQueue)
      /\ mqttQueue[1] \in Batches /\ mqttQueue # <<>>
  BY ChunkIs DEF Publish
<1>2. /\ flight' = Append(flight, pub)
      /\ mqttQueue' = IF rest = <<>> THEN Tail(mqttQueue) ELSE [mqttQueue EXCEPT ![1].rows = rest]
  BY DEF Publish
<1> HIDE DEF chunk, rest, batch
<1>3. pub \in Publications
  <2>1. Range(chunk) \subseteq Rows
    BY <1>1 DEF Range
  <2>2. Latest(Range(chunk)) \in Nat
    BY <2>1, LatestIs
  <2> QED
    BY <1>1, <2>2 DEF Published, EndTime, Publications
<1> HIDE DEF pub
<1>4. mqttQueue \in Seq(Batches) /\ flight \in Seq(Publications)
  BY DEF UplinkTypes, ClientTypes
<1>5. [mqttQueue EXCEPT ![1].rows = rest] \in Seq(Batches)
  <2>1. [mqttQueue[1] EXCEPT !.rows = rest] \in Batches
    BY <1>1 DEF Batches
  <2> QED
    BY <1>1, <1>4, <2>1
<1> QED
  BY <1>1, <1>2, <1>3, <1>4, <1>5

LEMMA TypesMQTT == UplinkTypes /\ MQTTStep => UplinkTypes'
<1> SUFFICES ASSUME UplinkTypes, MQTTStep PROVE UplinkTypes'
  OBVIOUS
<1> USE DEF gatewaySide, cloudClient, link, history
<1>1. UNCHANGED <<gatewaySide, mailbox, task, cloudClient, linked, arrived, cloud>>
  BY DEF MQTTStep, Publish, Refuse
<1>2. GatewayTypes'
  BY <1>1, GatewayTypesStay DEF UplinkTypes
<1>3. /\ mqttQueue \in Seq(Batches) /\ flight \in Seq(Publications)
      /\ refused \subseteq Rows /\ skipped \subseteq Rows /\ arrived \in 0..Len(flight)
  BY DEF UplinkTypes, ClientTypes
<1>4. /\ mqttQueue' \in Seq(Batches) /\ flight' \in Seq(Publications)
      /\ refused' \subseteq Rows /\ skipped' \subseteq Rows /\ arrived' \in 0..Len(flight')
  <2>1. CASE Publish
    <3>1. mqttQueue' \in Seq(Batches) /\ flight' \in Seq(Publications)
      BY <2>1, PublishTypes
    <3>2. \E p, r, l : flight' = Append(flight, p) /\ skipped' = skipped \cup Skips(r, l)
      BY <2>1 DEF Publish
    <3>3. refused' \subseteq refused
      BY <2>1 DEF Publish
    <3>4. skipped' \subseteq Rows
      BY <1>3, <3>2 DEF Skips
    <3>5. Len(flight') = Len(flight) + 1 /\ Len(flight) \in Nat
      BY <1>3, <3>2
    <3> QED
      BY <1>1, <1>3, <3>1, <3>3, <3>4, <3>5
  <2>2. CASE Refuse
    <3>1. Range(Head(mqttQueue).rows) \subseteq Rows /\ Tail(mqttQueue) \in Seq(Batches)
      <4>1. mqttQueue # <<>>
        BY <2>2 DEF Refuse
      <4>2. Head(mqttQueue) \in Batches /\ Tail(mqttQueue) \in Seq(Batches)
        BY <1>3, <4>1
      <4> QED
        BY <4>2 DEF Range, Batches
    <3> QED
      BY <1>1, <1>3, <2>2, <3>1 DEF Refuse
  <2> QED
    BY <2>1, <2>2 DEF MQTTStep
<1>5. ClientTypes'
  BY <1>1, <1>4, SameRows DEF UplinkTypes, ClientTypes
<1> QED
  BY <1>2, <1>5 DEF UplinkTypes

LEMMA TypesFresh == UplinkTypes /\ Fresh => UplinkTypes'
<1> SUFFICES ASSUME UplinkTypes, Fresh PROVE UplinkTypes'
  OBVIOUS
<1>1. GatewayTypes'
  BY GatewayTypesStay DEF UplinkTypes, Fresh, gatewaySide
<1>2. /\ mailbox' = <<>> /\ task' = Idle /\ bConnected' = FALSE /\ tpQueue' = <<>>
      /\ reading' = NoReading /\ pGateway' = Unknown /\ mqttQueue' = <<>> /\ linked' = FALSE
      /\ flight' = <<>> /\ arrived' = 0 /\ UNCHANGED <<time, cloud, refused, skipped>>
  BY DEF Fresh, history, gatewaySide
<1>3. NoReading \in [going : BOOLEAN, last : Nat] /\ Unknown \in [known : BOOLEAN, last : Nat]
  BY DEF NoReading, Unknown
<1>4. <<>> \in Seq(Messages) /\ <<>> \in Seq(Batches) /\ <<>> \in Seq(Publications)
  OBVIOUS
<1>5. arrived' \in 0..Len(flight')
  BY <1>2
<1>6. ClientTypes'
  BY <1>2, <1>3, <1>4, <1>5, IdleType, SameRows DEF UplinkTypes, ClientTypes
<1> QED
  BY <1>1, <1>6 DEF UplinkTypes

LEMMA TypesLink == UplinkTypes /\ (Arrive \/ LinkUp \/ LinkDown) => UplinkTypes'
<1> SUFFICES ASSUME UplinkTypes, Arrive \/ LinkUp \/ LinkDown PROVE UplinkTypes'
  OBVIOUS
<1> USE DEF gatewaySide, cloudClient, link, history
<1>1. UNCHANGED <<gatewaySide, mailbox, task, cloudClient, mqttQueue, flight, history>>
  BY DEF Arrive, LinkUp, LinkDown
<1>2. GatewayTypes'
  BY <1>1, GatewayTypesStay DEF UplinkTypes
<1>3. arrived \in 0..Len(flight) /\ cloud \subseteq Rows /\ linked \in BOOLEAN
  BY DEF UplinkTypes, ClientTypes
<1>4. arrived' \in 0..Len(flight') /\ cloud' \subseteq Rows /\ linked' \in BOOLEAN
  <2>1. CASE Arrive
    <3>1. arrived' \in 1..Len(flight) /\ UNCHANGED <<flight, linked>>
          /\ cloud' = cloud \cup Range(flight[arrived'].rows)
      BY <1>3, <2>1, ElementsAre DEF Arrive
    <3>2. flight[arrived'].rows \in Seq(Rows)
      BY <3>1, ElementsAre
    <3> QED
      BY <1>3, <3>1, <3>2 DEF Range
  <2>2. CASE LinkUp \/ LinkDown
    BY <1>3, <2>2 DEF LinkUp, LinkDown
  <2> QED
    BY <2>1, <2>2
<1>5. ClientTypes'
  BY <1>1, <1>4, SameRows DEF UplinkTypes, ClientTypes
<1> QED
  BY <1>2, <1>5 DEF UplinkTypes

\* An acknowledgement, unless the process dies of it.
Acknowledged ==
    /\ arrived > 0
    /\ flight' = Tail(flight) /\ arrived' = arrived - 1
    /\ pGateway' = pGateway \/ /\ pGateway.known
                               /\ pGateway' = [pGateway EXCEPT !.last = Max({@, Head(flight).ulTime})]
    /\ UNCHANGED <<gatewaySide, mailbox, task, bConnected, tpQueue, reading,
                   mqttQueue, linked, cloud, history>>

LEMMA AcknowledgeIs == UplinkTypes /\ Acknowledge => Fresh \/ Acknowledged
<1> SUFFICES ASSUME UplinkTypes, Acknowledge, ~ Fresh PROVE Acknowledged
  OBVIOUS
<1>1. PICK listed \in BOOLEAN :
         /\ ~ (listed /\ ~ pGateway.known)
         /\ flight' = Tail(flight) /\ arrived' = arrived - 1
         /\ pGateway' = [pGateway EXCEPT !.last =
                           IF listed THEN Max({@, Head(flight).ulTime}) ELSE @]
         /\ UNCHANGED <<gatewaySide, mailbox, task, bConnected, tpQueue, reading,
                        mqttQueue, linked, cloud, history>>
  BY DEF Acknowledge
<1>2. pGateway = [pGateway EXCEPT !.last = pGateway.last]
  BY DEF UplinkTypes, ClientTypes
<1>3. CASE listed
  BY <1>1, <1>3 DEF Acknowledge, Acknowledged
<1>4. CASE ~ listed
  BY <1>1, <1>2, <1>4 DEF Acknowledge, Acknowledged
<1> QED
  BY <1>3, <1>4

LEMMA TypesAcknowledged == UplinkTypes /\ Acknowledged => UplinkTypes'
<1> SUFFICES ASSUME UplinkTypes, Acknowledged PROVE UplinkTypes'
  OBVIOUS
<1>1. GatewayTypes'
  BY GatewayTypesStay DEF UplinkTypes, Acknowledged, gatewaySide
<1>2. /\ flight \in Seq(Publications) /\ arrived \in 0..Len(flight) /\ arrived > 0
      /\ pGateway \in [known : BOOLEAN, last : Nat]
  BY DEF UplinkTypes, ClientTypes, Acknowledged
<1>3. /\ flight' \in Seq(Publications) /\ Len(flight') = Len(flight) - 1
      /\ arrived' \in 0..Len(flight') /\ Head(flight).ulTime \in Nat
  <2>1. flight' = Tail(flight) /\ arrived' = arrived - 1 /\ flight # <<>>
    BY <1>2 DEF Acknowledged
  <2>2. Head(flight) \in Publications /\ Tail(flight) \in Seq(Publications)
        /\ Len(Tail(flight)) = Len(flight) - 1 /\ Len(flight) \in Nat
    BY <1>2, <2>1
  <2> QED
    BY <1>2, <2>1, <2>2 DEF Publications
<1>4. pGateway' \in [known : BOOLEAN, last : Nat]
  <2>1. Max({pGateway.last, Head(flight).ulTime}) \in Nat
    BY <1>2, <1>3, GreatestOfTwo
  <2> QED
    BY <1>2, <2>1 DEF Acknowledged
<1>5. ClientTypes'
  BY <1>3, <1>4, SameRows DEF UplinkTypes, ClientTypes, Acknowledged, gatewaySide, history
<1> QED
  BY <1>1, <1>5 DEF UplinkTypes

LEMMA TypesStep == UplinkTypes /\ [UplinkNext]_uplinkVars => UplinkTypes'
<1> SUFFICES ASSUME UplinkTypes, [UplinkNext]_uplinkVars PROVE UplinkTypes'
  OBVIOUS
<1>1. CASE UNCHANGED uplinkVars
  BY <1>1, SameRows
     DEF uplinkVars, UplinkTypes, GatewayTypes, ClientTypes, gatewaySide, cloudClient, link, history
<1>2. CASE UplinkNext
  <2>1. CASE BlockerStep
    BY <2>1, TypesForward, TypesCatchUp, TypesFetchPage DEF BlockerStep
  <2>2. CASE Acknowledge
    BY <2>2, AcknowledgeIs, TypesFresh, TypesAcknowledged
  <2>3. CASE Dies
    BY <2>3, TypesFresh DEF Dies
  <2> QED
    BY <1>2, <2>1, <2>2, <2>3, TypesTick, TypesSample, TypesNotify, TypesForward,
       TypesCloudClient, TypesMQTT, TypesLink DEF UplinkNext
<1> QED
  BY <1>1, <1>2

-------------------------------------------------------------------------------
(* What is behind a time.  The invariant says it of each place a range or an
   acknowledgement can begin from.                                      *)

\* Each second up to T that has a sample, or is the present one, has one in R.
Reached(T, R, tm, now) ==
    /\ T <= now
    /\ \A s \in 1..Len(tm) : tm[s] <= T => \E r \in R : tm[r] = tm[s]
    /\ now <= T => \E r \in R : tm[r] = now

Behind(T, R) == Reached(T, R, time, clock)

\* What a step may do to the gateway's samples: new ones are of the present.
Elapsed(tm, now, tn, then) ==
    /\ Len(tm) \in Nat /\ Len(tn) \in Nat /\ now \in Nat /\ then \in Nat /\ now <= then
    /\ \A r \in 1..Len(tm) : r \in 1..Len(tn) /\ tn[r] = tm[r] /\ tm[r] \in Nat
    /\ \A r \in 1..Len(tn) : r \in 1..Len(tm) \/ tn[r] = now

LEMMA TimePasses ==
  UplinkTypes /\ [UplinkNext]_uplinkVars => Elapsed(time, clock, time', clock')
<1> SUFFICES ASSUME UplinkTypes, [UplinkNext]_uplinkVars
             PROVE  Elapsed(time, clock, time', clock')
  OBVIOUS
<1>1. /\ Len(time) \in Nat /\ clock \in Nat /\ time \in Seq(Nat)
      /\ \A r \in 1..Len(time) : time[r] \in Nat
  BY TimesAre DEF UplinkTypes, GatewayTypes, Rows
<1>2. CASE UNCHANGED time /\ clock' \in {clock, clock + 1}
  BY <1>1, <1>2 DEF Elapsed
<1>3. CASE Sample
  <2>1. time' = Append(time, clock) /\ clock' = clock
    BY <1>3 DEF Sample
  <2>2. /\ Len(time') = Len(time) + 1 /\ time'[Len(time) + 1] = clock
        /\ \A r \in 1..Len(time) : time'[r] = time[r]
    BY <1>1, <2>1
  <2>3. \A r \in 1..Len(time') : r \in 1..Len(time) \/ time'[r] = clock
    BY <1>1, <2>2
  <2> QED
    BY <1>1, <2>1, <2>2, <2>3 DEF Elapsed
<1>4. UplinkNext => Sample \/ (UNCHANGED time /\ clock' \in {clock, clock + 1})
  BY AcknowledgeIs
     DEF UplinkNext, Tick, Notify, PublishStatus, BlockerStep, Forward, Begin, GetLastTime, Count,
         FetchPage, FetchFails, CloudClientStep, Poll, SendData, OnDisconnected, ReadGateway,
         ReplaceGateway, MQTTStep, Publish, Refuse, Arrive, LinkUp, LinkDown, Dies, Fresh,
         Acknowledged, gatewaySide
<1> QED
  BY <1>2, <1>3, <1>4 DEF uplinkVars, gatewaySide

LEMMA ReachedKept ==
  ASSUME NEW tm, NEW now, NEW tn, NEW then, Elapsed(tm, now, tn, then),
         NEW T \in Nat,
         NEW R, NEW S, R \subseteq 1..Len(tm), R \subseteq S,
         Reached(T, R, tm, now)
  PROVE  Reached(T, S, tn, then)
<1>1. /\ now \in Nat /\ then \in Nat /\ now <= then /\ T <= now
  BY DEF Elapsed, Reached
<1>2. \A r \in R : r \in S /\ tn[r] = tm[r]
  BY DEF Elapsed
<1>3. T <= then
  BY <1>1
<1>4. now <= T => \E r \in S : tn[r] = now
  BY <1>2 DEF Reached
<1>5. ASSUME NEW s \in 1..Len(tn), tn[s] <= T
      PROVE  \E r \in S : tn[r] = tn[s]
  <2>1. CASE s \in 1..Len(tm)
    <3>1. tn[s] = tm[s] /\ tm[s] \in Nat
      BY <2>1 DEF Elapsed
    <3>2. PICK r \in R : tm[r] = tm[s]
      BY <1>5, <2>1, <3>1 DEF Reached
    <3> QED
      BY <1>2, <3>1, <3>2
  <2>2. CASE tn[s] = now
    BY <1>1, <1>4, <1>5, <2>2
  <2> QED
    BY <2>1, <2>2 DEF Elapsed
<1>6. then <= T => \E r \in S : tn[r] = then
  <2>1. then <= T => then = now /\ now <= T
    BY <1>1
  <2> QED
    BY <1>4, <2>1
<1> QED
  BY <1>3, <1>5, <1>6 DEF Reached

\* The same at one moment.
LEMMA ReachedMore ==
  ASSUME UplinkTypes, NEW T \in Nat, NEW U \in Nat, U <= T,
         NEW R, NEW S, R \subseteq Rows, R \subseteq S, Behind(T, R)
  PROVE  Behind(U, S)
<1>1. /\ clock \in Nat /\ T <= clock /\ Rows = 1..Len(time)
      /\ \A r \in 1..Len(time) : time[r] \in Nat
  BY TimesAre DEF Behind, Reached
<1>2. U <= clock /\ (clock <= U => clock <= T)
  BY <1>1
<1>3. \A s \in 1..Len(time) : time[s] <= U => time[s] <= T
  BY <1>1
<1> QED
  BY <1>2, <1>3 DEF Behind, Reached

\* The same after a step.
LEMMA BehindKept ==
  ASSUME UplinkTypes, [UplinkNext]_uplinkVars,
         NEW T \in Nat, NEW R, NEW S, R \subseteq Rows, R \subseteq S, Behind(T, R)
  PROVE  Reached(T, S, time', clock')
<1>1. Elapsed(time, clock, time', clock') /\ R \subseteq 1..Len(time)
  BY TimePasses, TimesAre
<1>2. Reached(T, R, time, clock)
  BY DEF Behind
<1> DEFINE tn == time'
           then == clock'
<1> HIDE DEF tn, then
<1>3. Reached(T, S, tn, then)
  BY <1>1, <1>2, ReachedKept DEF tn, then
<1> QED
  BY <1>3 DEF tn, then

-----------------------------------------------------------------------------

\* What the first n publications carry, and the first n batches that were fetched.
Flown(n) == {r \in Rows : \E i \in 1..n, p \in Nat :
               p \in 1..Len(flight[i].rows) /\ flight[i].rows[p] = r}
Fetched(n) == {r \in Rows : \E i \in 1..n, p \in Nat :
                 ~ mqttQueue[i].live /\ p \in 1..Len(mqttQueue[i].rows) /\ mqttQueue[i].rows[p] = r}
Upto(s, n) == {s[p] : p \in 1..n}

Settled == cloud \cup skipped
Given == cloud \cup skipped \cup refused \cup Flown(Len(flight))
Known == Given \cup Fetched(Len(mqttQueue))

FlightInOrder ==
    /\ Flown(arrived) \subseteq cloud
    /\ \A i \in 1..Len(flight) :
          /\ Behind(flight[i].ulTime, Settled \cup Flown(i))
          /\ \A p \in 1..Len(flight[i].rows) : time[flight[i].rows[p]] <= flight[i].ulTime

CloudInOrder ==
    /\ Behind(Latest(cloud), Settled)
    /\ pGateway.known => Behind(pGateway.last, Settled)
    /\ reading.going => Behind(reading.last, Settled)

QueueInOrder ==
    \A k \in 1..Len(mqttQueue) : \A p \in 1..Len(mqttQueue[k].rows) :
      ~ mqttQueue[k].live =>
        Behind(time[mqttQueue[k].rows[p]], Given \cup Fetched(k - 1) \cup Upto(mqttQueue[k].rows, p))

TaskInOrder ==
    \A p \in 1..Len(task.rows) : Behind(time[task.rows[p]], Known \cup Upto(task.rows, p))

RangeInOrder ==
    /\ task.at = "count" => task.begin # 0 /\ Behind(task.begin - 1, Known)
    /\ task.at = "fetch" =>
         IF task.ascending
           THEN task.begin # 0 /\ Behind(task.begin - 1, Known \cup Upto(task.rows, Len(task.rows)))
           ELSE task.end # 0 /\ Behind(task.end - 1, Known \cup Upto(task.rows, Len(task.rows)))
    /\ task.at # "fetch" => task.rows = <<>>

UplinkInv ==
    UplinkTypes /\ FlightInOrder /\ CloudInOrder /\ QueueInOrder /\ TaskInOrder /\ RangeInOrder

LEMMA SetsAreRows ==
  ASSUME UplinkTypes
  PROVE  /\ cloud \subseteq Rows /\ Settled \subseteq Rows /\ Given \subseteq Rows /\ Known \subseteq Rows
         /\ \A n : Flown(n) \subseteq Rows /\ Fetched(n) \subseteq Rows
         /\ Upto(task.rows, Len(task.rows)) \subseteq Rows
         /\ \A p \in 1..Len(task.rows) : Upto(task.rows, p) \subseteq Rows /\ task.rows[p] \in Rows
         /\ \A k \in 1..Len(mqttQueue) : \A p \in 1..Len(mqttQueue[k].rows) :
              Upto(mqttQueue[k].rows, p) \subseteq Rows /\ mqttQueue[k].rows[p] \in Rows
<1>1. cloud \subseteq Rows /\ refused \subseteq Rows /\ skipped \subseteq Rows
  BY DEF UplinkTypes, ClientTypes
<1>2. \A n : Flown(n) \subseteq Rows /\ Fetched(n) \subseteq Rows
  BY DEF Flown, Fetched
<1>3. \A s \in Seq(Rows) : \A p \in 1..Len(s) :
         s[p] \in Rows /\ Upto(s, p) \subseteq Rows /\ Upto(s, Len(s)) \subseteq Rows
  BY DEF Upto
<1>4. \A s \in Seq(Rows) : Upto(s, Len(s)) \subseteq Rows
  BY DEF Upto
<1> QED
  BY <1>1, <1>2, <1>3, <1>4, ElementsAre DEF Settled, Given, Known

-------------------------------------------------------------------------------
(* What the steps do to the link.                                          *)

LEMMA RowsGrow ==
  UplinkTypes /\ [UplinkNext]_uplinkVars =>
    Rows \subseteq Rows' /\ \A r \in Rows : time'[r] = time[r] /\ time[r] \in Nat
<1> SUFFICES ASSUME UplinkTypes, [UplinkNext]_uplinkVars
             PROVE  Rows \subseteq Rows' /\ \A r \in Rows : time'[r] = time[r] /\ time[r] \in Nat
  OBVIOUS
<1>1. Elapsed(time, clock, time', clock')
  BY TimePasses
<1> QED
  BY <1>1 DEF Elapsed, Rows

\* Which steps touch the link, the queue to it and the catch-up.
LEMMA LinkSteps ==
  ASSUME UplinkTypes, [UplinkNext]_uplinkVars
  PROVE  \/ Publish \/ Refuse \/ Arrive \/ Fresh \/ Acknowledged
         \/ UNCHANGED <<flight, arrived, cloud, refused, skipped>>
<1>1. Acknowledge => Fresh \/ Acknowledged
  BY AcknowledgeIs
<1>2. Dies => Fresh
  BY DEF Dies
<1>3. UNCHANGED uplinkVars => UNCHANGED <<flight, arrived, cloud, refused, skipped>>
  BY DEF uplinkVars, link, history
<1>4. BlockerStep => UNCHANGED <<flight, arrived, cloud, refused, skipped>>
  BY DEF BlockerStep, Forward, Begin, GetLastTime, Count, FetchPage, FetchFails, link, history
<1>5. CloudClientStep => UNCHANGED <<flight, arrived, cloud, refused, skipped>>
  BY DEF CloudClientStep, Poll, SendData, OnDisconnected, ReadGateway, ReplaceGateway, link, history
<1>6. Tick \/ Sample \/ Notify \/ PublishStatus \/ LinkUp \/ LinkDown =>
        UNCHANGED <<flight, arrived, cloud, refused, skipped>>
  BY DEF Tick, Sample, Notify, PublishStatus, LinkUp, LinkDown, link, history
<1> QED
  BY <1>1, <1>2, <1>3, <1>4, <1>5, <1>6 DEF UplinkNext, MQTTStep

LEMMA QueueSteps ==
  ASSUME UplinkTypes, [UplinkNext]_uplinkVars
  PROVE  Publish \/ Refuse \/ FetchPage \/ SendData \/ Fresh \/ UNCHANGED mqttQueue
<1>1. Acknowledge => Fresh \/ UNCHANGED mqttQueue
  BY AcknowledgeIs DEF Acknowledged
<1>2. Dies => Fresh
  BY DEF Dies
<1>3. UNCHANGED uplinkVars => UNCHANGED mqttQueue
  BY DEF uplinkVars
<1>4. BlockerStep => FetchPage \/ UNCHANGED mqttQueue
  BY DEF BlockerStep, Forward, Begin, GetLastTime, Count, FetchFails
<1>5. CloudClientStep => SendData \/ UNCHANGED mqttQueue
  BY DEF CloudClientStep, Poll, OnDisconnected, ReadGateway, ReplaceGateway
<1>6. Tick \/ Sample \/ Notify \/ PublishStatus \/ Arrive \/ LinkUp \/ LinkDown => UNCHANGED mqttQueue
  BY DEF Tick, Sample, Notify, PublishStatus, Arrive, LinkUp, LinkDown
<1> QED
  BY <1>1, <1>2, <1>3, <1>4, <1>5, <1>6 DEF UplinkNext, MQTTStep

LEMMA TaskSteps ==
  ASSUME UplinkTypes, [UplinkNext]_uplinkVars
  PROVE  Begin \/ GetLastTime \/ Count \/ FetchPage \/ FetchFails \/ Fresh \/ UNCHANGED task
<1>1. Acknowledge => Fresh \/ UNCHANGED task
  BY AcknowledgeIs DEF Acknowledged
<1>2. Dies => Fresh
  BY DEF Dies
<1>3. UNCHANGED uplinkVars => UNCHANGED task
  BY DEF uplinkVars
<1>4. BlockerStep => Begin \/ GetLastTime \/ Count \/ FetchPage \/ FetchFails \/ UNCHANGED task
  BY DEF BlockerStep, Forward
<1>5. CloudClientStep \/ MQTTStep => UNCHANGED task
  BY DEF CloudClientStep, Poll, SendData, OnDisconnected, ReadGateway, ReplaceGateway,
         MQTTStep, Publish, Refuse
<1>6. Tick \/ Sample \/ Notify \/ PublishStatus \/ Arrive \/ LinkUp \/ LinkDown => UNCHANGED task
  BY DEF Tick, Sample, Notify, PublishStatus, Arrive, LinkUp, LinkDown
<1> QED
  BY <1>1, <1>2, <1>3, <1>4, <1>5, <1>6 DEF UplinkNext

-----------------------------------------------------------------------------

LEMMA PublishIs ==
  ASSUME UplinkTypes, Publish
  PROVE  LET batch == mqttQueue[1].rows
         IN \E chunk, rest \in Seq(Rows) :
            /\ 1 \in 1..Len(mqttQueue) /\ mqttQueue # <<>>
            /\ Len(chunk) \in 0..Len(batch) /\ Len(rest) = Len(batch) - Len(chunk)
            /\ \A p \in 1..Len(chunk) : chunk[p] = batch[p]
            /\ \A p \in 1..Len(rest) : rest[p] = batch[Len(chunk) + p]
            /\ flight' = Append(flight, [rows |-> chunk, ulTime |-> Latest(Range(chunk))])
            /\ mqttQueue' = IF rest = <<>> THEN Tail(mqttQueue)
                            ELSE [mqttQueue EXCEPT ![1].rows = rest]
            /\ skipped' = skipped \cup Skips(chunk, mqttQueue[1].live)
            /\ refused' = refused \ Range(chunk)
            /\ UNCHANGED <<cloud, arrived, time, task>>
<1> DEFINE batch == Head(mqttQueue)
           chunk == SubSeq(batch.rows, 1, Min({Chunk, Len(batch.rows)}))
           rest  == SubSeq(batch.rows, Len(chunk) + 1, Len(batch.rows))
<1>1. mqttQueue # <<>>
  BY DEF Publish
<1>2. /\ batch = mqttQueue[1] /\ 1 \in 1..Len(mqttQueue)
      /\ chunk \in Seq(Rows) /\ rest \in Seq(Rows)
      /\ Len(chunk) \in 0..Len(batch.rows)
      /\ Len(rest) = Len(batch.rows) - Len(chunk)
      /\ \A p \in 1..Len(chunk) : chunk[p] = batch.rows[p]
      /\ \A p \in 1..Len(rest) : rest[p] = batch.rows[Len(chunk) + p]
  BY <1>1, ChunkIs
<1>3. /\ flight' = Append(flight, [rows |-> chunk, ulTime |-> Latest(Range(chunk))])
      /\ mqttQueue' = IF rest = <<>> THEN Tail(mqttQueue)
                      ELSE [mqttQueue EXCEPT ![1].rows = rest]
      /\ skipped' = skipped \cup Skips(chunk, batch.live)
      /\ refused' = refused \ Range(chunk)
      /\ UNCHANGED <<cloud, arrived, time, task>>
  BY DEF Publish, Published, EndTime, gatewaySide
<1> HIDE DEF chunk, rest
<1> QED
  BY <1>1, <1>2, <1>3

LEMMA AppendIs ==
  ASSUME NEW S, NEW s \in Seq(S), NEW e
  PROVE  /\ Len(Append(s, e)) = Len(s) + 1 /\ Len(s) \in Nat
         /\ \A i \in 1..Len(s) : Append(s, e)[i] = s[i]
         /\ Append(s, e)[Len(s) + 1] = e
  OBVIOUS

LEMMA TailIs ==
  ASSUME NEW S, NEW s \in Seq(S), s # <<>>
  PROVE  /\ Len(Tail(s)) = Len(s) - 1 /\ Len(s) \in Nat /\ Len(s) # 0
         /\ \A i \in 1..Len(Tail(s)) : Tail(s)[i] = s[i + 1]
         /\ Head(s) = s[1]
  OBVIOUS

\* The publications in flight, after each kind of step.
LEMMA FlownStays ==
  ASSUME UplinkTypes, [UplinkNext]_uplinkVars, UNCHANGED flight
  PROVE  \A n : Flown(n) \subseteq Flown(n)'
  BY RowsGrow DEF Flown

LEMMA FlownMore ==
  ASSUME UplinkTypes, [UplinkNext]_uplinkVars, NEW pub, flight' = Append(flight, pub),
         pub.rows \in Seq(Rows)
  PROVE  /\ \A n \in 0..Len(flight) : Flown(n) \subseteq Flown(n)'
         /\ \A p \in 1..Len(pub.rows) : pub.rows[p] \in Flown(Len(flight))'
         /\ Flown(Len(flight)) \subseteq Flown(Len(flight))'
<1>1. /\ flight \in Seq(Publications) /\ Len(flight') = Len(flight) + 1 /\ Len(flight) \in Nat
      /\ \A i \in 1..Len(flight) : flight'[i] = flight[i]
      /\ flight'[Len(flight) + 1] = pub
  BY AppendIs DEF UplinkTypes, ClientTypes
<1>2. Rows \subseteq Rows'
  BY RowsGrow
<1>3. \A n \in 0..Len(flight) : Flown(n) \subseteq Flown(n)'
  BY <1>1, <1>2 DEF Flown
<1>4. \A p \in 1..Len(pub.rows) : pub.rows[p] \in Flown(Len(flight))'
  <2> TAKE p \in 1..Len(pub.rows)
  <2>1. pub.rows[p] \in Rows' /\ p \in Nat /\ Len(flight') \in 1..Len(flight')
    BY <1>1, <1>2
  <2>2. flight'[Len(flight')] = pub
    BY <1>1
  <2> QED
    BY <2>1, <2>2 DEF Flown
<1>5. Flown(Len(flight)) \subseteq Flown(Len(flight))'
  <2>1. 1..Len(flight) \subseteq 1..Len(flight') /\ \A i \in 1..Len(flight) : flight'[i] = flight[i]
    BY <1>1
  <2> QED
    BY <1>2, <2>1 DEF Flown
<1> QED
  BY <1>3, <1>4, <1>5

LEMMA FlownLess ==
  ASSUME UplinkTypes, [UplinkNext]_uplinkVars, FlightInOrder, Acknowledged
  PROVE  /\ \A n \in 0..(Len(flight) - 1) : Flown(n + 1) \subseteq Flown(n)' \cup cloud
         /\ Flown(Len(flight)) \subseteq Flown(Len(flight))' \cup cloud
         /\ \A n \in 0..(Len(flight) - 1) : Flown(n)' \subseteq Flown(n + 1)
<1>1. /\ flight \in Seq(Publications) /\ flight # <<>> /\ flight' = Tail(flight) /\ arrived > 0
      /\ arrived \in 0..Len(flight) /\ UNCHANGED time
  BY DEF UplinkTypes, ClientTypes, Acknowledged, gatewaySide
<1>2. /\ Len(flight') = Len(flight) - 1 /\ Len(flight) \in Nat /\ Len(flight) # 0
      /\ \A i \in 1..Len(flight') : flight'[i] = flight[i + 1]
  BY <1>1, TailIs
<1>3. \A p \in Nat : p \in 1..Len(flight[1].rows) => flight[1].rows[p] \in cloud
  <2>1. 1 \in 1..arrived /\ 1 \in 1..Len(flight)
    BY <1>1, <1>2
  <2>2. \A p \in Nat : p \in 1..Len(flight[1].rows) => flight[1].rows[p] \in Flown(arrived)
    BY <2>1, ElementsAre DEF Flown
  <2> QED
    BY <2>2 DEF FlightInOrder
<1>4. Rows' = Rows
  BY <1>1, SameRows
<1>5. ASSUME NEW n \in 0..(Len(flight) - 1), NEW r \in Flown(n + 1)
      PROVE  r \in Flown(n)' \cup cloud
  <2>1. PICK i \in 1..(n + 1), p \in Nat : p \in 1..Len(flight[i].rows) /\ flight[i].rows[p] = r
    BY DEF Flown
  <2>2. CASE i = 1
    BY <1>3, <2>1, <2>2
  <2>3. CASE i # 1
    <3>1. i - 1 \in 1..n /\ i - 1 \in 1..Len(flight') /\ flight'[i - 1] = flight[i]
      BY <1>2, <2>3
    <3>2. r \in Rows
      BY DEF Flown
    <3> QED
      BY <1>4, <2>1, <3>1, <3>2 DEF Flown
  <2> QED
    BY <2>2, <2>3
<1>6. ASSUME NEW n \in 0..(Len(flight) - 1), NEW r \in Flown(n)'
      PROVE  r \in Flown(n + 1)
  <2>1. PICK i \in 1..n, p \in Nat : p \in 1..Len(flight'[i].rows) /\ flight'[i].rows[p] = r
    BY DEF Flown
  <2>2. i + 1 \in 1..(n + 1) /\ flight'[i] = flight[i + 1] /\ r \in Rows
    BY <1>2, <1>4 DEF Flown
  <2> QED
    BY <2>1, <2>2 DEF Flown
<1>7. Flown(Len(flight)) \subseteq Flown(Len(flight))' \cup cloud
  <2>1. PICK m \in Nat : m = Len(flight) - 1
    BY <1>2
  <2>2. m \in 0..(Len(flight) - 1) /\ m + 1 = Len(flight) /\ m = Len(flight')
    BY <1>2, <2>1
  <2>3. Flown(m + 1) \subseteq Flown(m)' \cup cloud
    BY <1>5, <2>2
  <2>4. Flown(Len(flight)) = Flown(m + 1)
    BY <2>2
  <2>5. Flown(Len(flight))' = Flown(m)'
    BY <2>2 DEF Flown
  <2> QED
    BY <2>3, <2>4, <2>5
<1> QED
  BY <1>5, <1>6, <1>7

-------------------------------------------------------------------------------
(* Publications in the order of the batch.                                 *)

LEMMA RefuseIs ==
  ASSUME UplinkTypes, Refuse
  PROVE  /\ mqttQueue # <<>> /\ mqttQueue' = Tail(mqttQueue)
         /\ UNCHANGED <<flight, arrived, cloud, skipped, time, task>>
         /\ refused \subseteq refused'
         /\ ~ mqttQueue[1].live =>
              \A p \in 1..Len(mqttQueue[1].rows) : mqttQueue[1].rows[p] \in refused'
<1>1. /\ mqttQueue # <<>> /\ mqttQueue' = Tail(mqttQueue)
      /\ UNCHANGED <<flight, arrived, cloud, skipped, time, task>>
      /\ refused' = IF Head(mqttQueue).live THEN refused
                    ELSE refused \cup Range(Head(mqttQueue).rows)
  BY DEF Refuse, link, gatewaySide
<1>2. mqttQueue[1].rows \in Seq(Rows) /\ Head(mqttQueue) = mqttQueue[1]
  <2>1. 1 \in 1..Len(mqttQueue) /\ Head(mqttQueue) = mqttQueue[1]
    BY <1>1 DEF UplinkTypes, ClientTypes
  <2> QED
    BY <2>1, ElementsAre
<1>3. \A p \in 1..Len(mqttQueue[1].rows) : mqttQueue[1].rows[p] \in Range(mqttQueue[1].rows)
  BY <1>2 DEF Range
<1> QED
  BY <1>1, <1>2, <1>3

LEMMA SettledGrows ==
  UplinkTypes /\ [UplinkNext]_uplinkVars => Settled \subseteq Settled'
<1> SUFFICES ASSUME UplinkTypes, [UplinkNext]_uplinkVars
             PROVE  cloud \subseteq cloud' /\ skipped \subseteq skipped'
  BY DEF Settled
<1>1. CASE Publish
  BY <1>1 DEF Publish
<1>2. CASE Refuse
  BY <1>2, RefuseIs
<1>3. CASE Arrive \/ Fresh \/ Acknowledged
  BY <1>3 DEF Arrive, Fresh, Acknowledged, history
<1> QED
  BY <1>1, <1>2, <1>3, LinkSteps

LEMMA GivenGrows ==
  ASSUME UplinkTypes, [UplinkNext]_uplinkVars, FlightInOrder, ~ Fresh
  PROVE  Given \subseteq Given'
<1>1. Settled \subseteq Settled'
  BY SettledGrows
<1> SUFFICES refused \cup Flown(Len(flight)) \subseteq Given'
  BY <1>1 DEF Given, Settled
<1>2. CASE Publish
  <2>1. PICK chunk \in Seq(Rows) :
           /\ flight' = Append(flight, [rows |-> chunk, ulTime |-> Latest(Range(chunk))])
           /\ refused' = refused \ Range(chunk)
    BY <1>2, PublishIs
  <2> DEFINE pub == [rows |-> chunk, ulTime |-> Latest(Range(chunk))]
  <2>2. pub.rows = chunk /\ flight' = Append(flight, pub)
    BY <2>1
  <2> HIDE DEF pub
  <2>3. /\ \A p \in 1..Len(chunk) : chunk[p] \in Flown(Len(flight))'
        /\ Flown(Len(flight)) \subseteq Flown(Len(flight))'
    BY <2>1, <2>2, FlownMore
  <2>4. Range(chunk) \subseteq Flown(Len(flight))'
    BY <2>1, <2>3 DEF Range
  <2> QED
    BY <2>1, <2>3, <2>4 DEF Given
<1>3. CASE Acknowledged
  <2>1. Flown(Len(flight)) \subseteq Flown(Len(flight))' \cup cloud
    BY <1>3, FlownLess
  <2>2. refused' = refused /\ cloud' = cloud
    BY <1>3 DEF Acknowledged, history
  <2> QED
    BY <2>1, <2>2 DEF Given
<1>4. CASE UNCHANGED flight /\ refused \subseteq refused'
  <2>1. Flown(Len(flight)) \subseteq Flown(Len(flight))'
    <3>1. PICK n \in Nat : n = Len(flight) /\ n = Len(flight')
      BY <1>4, ElementsAre
    <3>2. Flown(n) \subseteq Flown(n)'
      BY <1>4, FlownStays
    <3>3. Flown(Len(flight)) = Flown(n) /\ Flown(Len(flight))' = Flown(n)'
      BY <3>1 DEF Flown
    <3> QED
      BY <3>2, <3>3
  <2> QED
    BY <1>4, <2>1 DEF Given
<1>5. Refuse => UNCHANGED flight /\ refused \subseteq refused'
  BY RefuseIs
<1>6. Arrive => UNCHANGED flight /\ refused \subseteq refused'
  BY DEF Arrive, history
<1> QED
  BY <1>2, <1>3, <1>4, <1>5, <1>6, LinkSteps

\* The moments a publication of these rows leaves behind.
LEMMA ChunkInOrder ==
  ASSUME UplinkInv, Publish,
         NEW chunk \in Seq(Rows), 1 \in 1..Len(mqttQueue),
         Len(chunk) \in 0..Len(mqttQueue[1].rows),
         \A p \in 1..Len(chunk) : chunk[p] = mqttQueue[1].rows[p],
         NEW R, R \subseteq Rows,
         Settled \subseteq R, Flown(Len(flight)) \subseteq R, Range(chunk) \subseteq R,
         Skips(chunk, mqttQueue[1].live) \subseteq R
  PROVE  Behind(Latest(Range(chunk)), R)
<1> DEFINE T == Latest(Range(chunk))
<1>0. UplinkTypes
  BY DEF UplinkInv
<1>1. /\ Range(chunk) \subseteq Rows
      /\ T \in Nat /\ T <= clock
      /\ Range(chunk) # {} => \E r \in Range(chunk) : time[r] = T
      /\ \A r \in Range(chunk) : time[r] <= T
  <2>1. Range(chunk) \subseteq Rows
    BY DEF Range
  <2> QED
    BY <1>0, <2>1, LatestIs
<1>2. /\ Range(chunk) = {} => T = 0
  BY DEF Latest
<1>3. OnTheLink \subseteq R
  <2>1. ASSUME NEW i \in 1..Len(flight), NEW r \in Range(flight[i].rows)
        PROVE  r \in Flown(Len(flight))
    <3>1. flight[i].rows \in Seq(Rows) /\ Len(flight[i].rows) \in Nat
      BY <1>0, ElementsAre
    <3>2. PICK p \in 1..Len(flight[i].rows) : flight[i].rows[p] = r
      BY <3>1 DEF Range
    <3> QED
      BY <3>1, <3>2 DEF Flown
  <2>2. DOMAIN flight = 1..Len(flight)
    BY <1>0 DEF UplinkTypes, ClientTypes
  <2> QED
    BY <2>1, <2>2 DEF OnTheLink
<1> HIDE DEF T
<1>4. ASSUME NEW t \in Nat, t < T,
             NEW s \in Rows, time[s] = t
      PROVE  \E r \in R : time[r] = t
  <2>1. CASE mqttQueue[1].live
    <3>1. s \in cloud \cup OnTheLink \cup Range(chunk) \/ s \in Skips(chunk, mqttQueue[1].live)
      BY <1>4, <2>1 DEF Skips, T
    <3> QED
      BY <1>3, <1>4, <3>1 DEF Settled
  <2>2. CASE ~ mqttQueue[1].live
    <3>1. PICK q \in Range(chunk) : time[q] = T
      BY <1>1, <1>2, <1>4
    <3>2. PICK p \in 1..Len(chunk) : chunk[p] = q
      BY DEF Range
    <3>3. p \in 1..Len(mqttQueue[1].rows) /\ mqttQueue[1].rows[p] = q /\ Len(mqttQueue[1].rows) \in Nat
      BY <1>0, <3>2, ElementsAre
    <3>4. Behind(T, Given \cup Fetched(0) \cup Upto(mqttQueue[1].rows, p))
      <4>1. Fetched(1 - 1) = Fetched(0)
        OBVIOUS
      <4> QED
        BY <2>2, <3>1, <3>3, <4>1 DEF UplinkInv, QueueInOrder
    <3>5. Fetched(0) = {}
      BY DEF Fetched
    <3>6. Upto(mqttQueue[1].rows, p) \subseteq Range(chunk)
      <4>1. \A i \in 1..p : i \in 1..Len(chunk) /\ mqttQueue[1].rows[i] = chunk[i]
        BY <3>2
      <4> QED
        BY <4>1 DEF Upto, Range
    <3>7. PICK r \in Given \cup Upto(mqttQueue[1].rows, p) : time[r] = t
      <4>1. Rows = 1..Len(time) /\ t <= T
        BY <1>0, <1>1, <1>4, TimesAre
      <4> QED
        BY <1>4, <3>4, <3>5, <4>1 DEF Behind, Reached
    <3>8. CASE r \in refused
      <4>1. r \in cloud \cup OnTheLink \cup Range(chunk) \/ r \in Skips(chunk, mqttQueue[1].live)
        BY <1>4, <2>2, <3>7, <3>8 DEF Skips, T
      <4> QED
        BY <1>3, <3>7, <4>1 DEF Settled
    <3> QED
      BY <3>6, <3>7, <3>8 DEF Given, Settled
  <2> QED
    BY <2>1, <2>2
<1>5. /\ Rows = 1..Len(time) /\ clock \in Nat /\ 2 <= clock
      /\ \A s \in Rows : time[s] \in Nat /\ 2 <= time[s]
  BY <1>0, TimesAre
<1>6. ASSUME NEW s \in 1..Len(time), time[s] <= T
      PROVE  \E r \in R : time[r] = time[s]
  <2>1. CASE time[s] < T
    BY <1>4, <1>5, <2>1
  <2>2. CASE time[s] = T
    <3>1. Range(chunk) # {}
      BY <1>2, <1>5, <2>2
    <3> QED
      BY <1>1, <2>2, <3>1
  <2> QED
    BY <1>1, <1>5, <1>6, <2>1, <2>2
<1>7. clock <= T => \E r \in R : time[r] = clock
  <2>1. clock <= T => Range(chunk) # {} /\ clock = T
    BY <1>1, <1>2, <1>5
  <2> QED
    BY <1>1, <2>1
<1> QED
  BY <1>1, <1>6, <1>7 DEF Behind, Reached, T

-------------------------------------------------------------------------------
(* The link, and what the cloud is known to have.                          *)

LEMMA ArrivedStays ==
  ASSUME UplinkInv, [UplinkNext]_uplinkVars
  PROVE  (Flown(arrived) \subseteq cloud)'
<1> SUFFICES ASSUME NEW r \in Rows', NEW i \in 1..arrived', NEW p \in Nat,
                    p \in 1..Len(flight'[i].rows), flight'[i].rows[p] = r
             PROVE  r \in cloud'
  BY DEF Flown
<1>1. UplinkTypes /\ FlightInOrder /\ UplinkTypes'
  BY TypesStep DEF UplinkInv
<1>2. arrived \in 0..Len(flight) /\ Len(flight) \in Nat /\ flight \in Seq(Publications)
  BY <1>1 DEF UplinkTypes, ClientTypes
<1>3. ASSUME NEW j \in 1..arrived, flight[j] = flight'[i]
      PROVE  r \in cloud
  <2>1. flight[j].rows \in Seq(Rows) /\ flight[j].rows[p] = r
    BY <1>1, <1>2, <1>3, ElementsAre
  <2>2. r \in Rows
    BY <1>3, <2>1
  <2> QED
    BY <1>1, <1>3, <2>1, <2>2 DEF Flown, FlightInOrder
<1>4. cloud \subseteq cloud'
  <2>1. CASE Publish \/ Refuse
    BY <1>1, <2>1, RefuseIs DEF Publish
  <2>2. CASE Arrive \/ Fresh \/ Acknowledged
    BY <2>2 DEF Arrive, Fresh, Acknowledged
  <2> QED
    BY <1>1, <2>1, <2>2, LinkSteps
<1>5. CASE Publish
  <2>1. \E pub : flight' = Append(flight, pub)
    BY <1>5 DEF Publish
  <2>2. arrived' = arrived
    BY <1>5 DEF Publish
  <2>3. i \in 1..Len(flight) /\ flight'[i] = flight[i]
    BY <1>2, <2>1, <2>2, AppendIs
  <2> QED
    BY <1>3, <1>4, <2>2, <2>3
<1>6. CASE Arrive
  <2>1. arrived' = arrived + 1 /\ flight' = flight /\ cloud' = cloud \cup Range(flight[arrived'].rows)
    BY <1>6 DEF Arrive
  <2>2. CASE i = arrived'
    <3>1. i \in 1..Len(flight)
      BY <1>2, <1>6, <2>1, <2>2 DEF Arrive
    <3>2. flight[i].rows \in Seq(Rows)
      BY <1>1, <3>1, ElementsAre
    <3>3. r \in Range(flight[i].rows)
      BY <2>1, <3>2 DEF Range
    <3> QED
      BY <2>1, <2>2, <3>3
  <2>3. CASE i # arrived'
    BY <1>2, <1>3, <1>4, <2>1, <2>3
  <2> QED
    BY <2>2, <2>3
<1>7. CASE Fresh
  <2>1. arrived' = 0
    BY <1>7 DEF Fresh
  <2> QED
    BY <2>1
<1>8. CASE Acknowledged
  <2>1. flight' = Tail(flight) /\ arrived' = arrived - 1 /\ arrived > 0
    BY <1>8 DEF Acknowledged
  <2>2. flight # <<>>
    BY <1>2, <2>1
  <2>3. Len(flight') = Len(flight) - 1 /\ \A k \in 1..Len(flight') : flight'[k] = flight[k + 1]
    BY <1>2, <2>1, <2>2, TailIs
  <2>4. i \in 1..Len(flight') /\ i + 1 \in 1..arrived
    BY <1>2, <2>1, <2>3
  <2> QED
    BY <1>3, <1>4, <2>3, <2>4
<1>9. CASE UNCHANGED <<flight, arrived>>
  BY <1>3, <1>4, <1>9
<1>10. Refuse => UNCHANGED <<flight, arrived>>
  BY <1>1, RefuseIs
<1> QED
  BY <1>1, <1>5, <1>6, <1>7, <1>8, <1>9, <1>10, LinkSteps

LEMMA FlightTimes ==
  ASSUME UplinkInv, [UplinkNext]_uplinkVars,
         NEW i \in 1..Len(flight'), NEW p \in 1..Len(flight'[i].rows)
  PROVE  time'[flight'[i].rows[p]] <= flight'[i].ulTime
<1>1. UplinkTypes /\ FlightInOrder
  BY DEF UplinkInv
<1>2. Len(flight) \in Nat /\ flight \in Seq(Publications)
  BY <1>1 DEF UplinkTypes, ClientTypes
<1>3. ASSUME NEW j \in 1..Len(flight), flight'[i] = flight[j]
      PROVE  time'[flight'[i].rows[p]] <= flight'[i].ulTime
  <2>1. flight[j].rows \in Seq(Rows) /\ p \in 1..Len(flight[j].rows)
    BY <1>1, <1>3, ElementsAre
  <2>2. flight[j].rows[p] \in Rows
    BY <2>1
  <2>3. time[flight[j].rows[p]] <= flight[j].ulTime
    BY <1>1, <1>3, <2>1 DEF FlightInOrder
  <2> QED
    BY <1>1, <1>3, <2>2, <2>3, RowsGrow
<1>4. CASE Publish
  <2>1. PICK chunk \in Seq(Rows) :
           /\ flight' = Append(flight, [rows |-> chunk, ulTime |-> Latest(Range(chunk))])
           /\ UNCHANGED time
    BY <1>1, <1>4, PublishIs
  <2> DEFINE pub == [rows |-> chunk, ulTime |-> Latest(Range(chunk))]
  <2>2. pub.rows = chunk /\ flight' = Append(flight, pub) /\ pub.ulTime = Latest(Range(chunk))
    BY <2>1
  <2> HIDE DEF pub
  <2>3. Len(flight') = Len(flight) + 1 /\ flight'[Len(flight) + 1] = pub
        /\ \A k \in 1..Len(flight) : flight'[k] = flight[k]
    BY <1>2, <2>2, AppendIs
  <2>4. CASE i = Len(flight) + 1
    <3>1. chunk[p] \in Range(chunk) /\ Range(chunk) \subseteq Rows
      BY <2>2, <2>3, <2>4 DEF Range
    <3>2. time[chunk[p]] <= Latest(Range(chunk))
      BY <1>1, <3>1, LatestIs
    <3> QED
      BY <2>1, <2>2, <2>3, <2>4, <3>2
  <2> QED
    BY <1>2, <1>3, <2>3, <2>4
<1>5. CASE Acknowledged
  <2>1. flight' = Tail(flight) /\ flight # <<>>
    BY <1>1, <1>5 DEF Acknowledged, UplinkTypes, ClientTypes
  <2>2. Len(flight') = Len(flight) - 1 /\ \A k \in 1..Len(flight') : flight'[k] = flight[k + 1]
    BY <1>2, <2>1, TailIs
  <2>3. i + 1 \in 1..Len(flight) /\ flight'[i] = flight[i + 1]
    BY <1>2, <2>2
  <2> QED
    BY <1>3, <2>3
<1>6. CASE Fresh
  <2>1. flight' = <<>>
    BY <1>6 DEF Fresh
  <2> QED
    BY <2>1
<1>7. CASE UNCHANGED flight
  BY <1>3, <1>7
<1>8. Refuse \/ Arrive => UNCHANGED flight
  BY <1>1, RefuseIs DEF Arrive
<1> QED
  BY <1>1, <1>4, <1>5, <1>6, <1>7, <1>8, LinkSteps

LEMMA FlightStep ==
  ASSUME UplinkInv, [UplinkNext]_uplinkVars
  PROVE  FlightInOrder'
<1>1. UplinkTypes /\ FlightInOrder /\ UplinkTypes'
  BY TypesStep DEF UplinkInv
<1> SUFFICES ASSUME NEW i \in 1..Len(flight')
             PROVE  Reached(flight'[i].ulTime, (Settled \cup Flown(i))', time', clock')
  BY ArrivedStays, FlightTimes DEF FlightInOrder, Behind
<1>2. Settled \subseteq Settled' /\ Len(flight) \in Nat /\ flight \in Seq(Publications)
  BY <1>1, SettledGrows DEF UplinkTypes, ClientTypes
<1>3. ASSUME NEW j \in 1..Len(flight), flight'[i].ulTime = flight[j].ulTime,
             Flown(j) \subseteq (Settled \cup Flown(i))'
      PROVE  Reached(flight'[i].ulTime, (Settled \cup Flown(i))', time', clock')
  <2>1. flight[j].ulTime \in Nat /\ Behind(flight[j].ulTime, Settled \cup Flown(j))
    BY <1>1, ElementsAre DEF FlightInOrder
  <2>2. Settled \cup Flown(j) \subseteq Rows
    BY <1>1, SetsAreRows
  <2>3. Settled \cup Flown(j) \subseteq (Settled \cup Flown(i))'
    BY <1>2, <1>3
  <2> QED
    BY <1>1, <1>3, <2>1, <2>2, <2>3, BehindKept
<1>4. CASE Publish
  <2> DEFINE batch == mqttQueue[1].rows
  <2>1. PICK chunk \in Seq(Rows) :
           /\ 1 \in 1..Len(mqttQueue)
           /\ Len(chunk) \in 0..Len(batch)
           /\ \A p \in 1..Len(chunk) : chunk[p] = batch[p]
           /\ flight' = Append(flight, [rows |-> chunk, ulTime |-> Latest(Range(chunk))])
           /\ skipped' = skipped \cup Skips(chunk, mqttQueue[1].live)
    BY <1>1, <1>4, PublishIs
  <2> DEFINE pub == [rows |-> chunk, ulTime |-> Latest(Range(chunk))]
  <2>2. pub.rows = chunk /\ flight' = Append(flight, pub) /\ pub.ulTime = Latest(Range(chunk))
    BY <2>1
  <2> HIDE DEF pub
  <2>3. /\ \A n \in 0..Len(flight) : Flown(n) \subseteq Flown(n)'
        /\ \A p \in 1..Len(chunk) : chunk[p] \in Flown(Len(flight))'
        /\ Flown(Len(flight)) \subseteq Flown(Len(flight))'
    BY <1>1, <2>1, <2>2, FlownMore
  <2>4. Len(flight') = Len(flight) + 1 /\ flight'[Len(flight) + 1] = pub
        /\ \A k \in 1..Len(flight) : flight'[k] = flight[k]
    BY <1>2, <2>2, AppendIs
  <2>5. CASE i \in 1..Len(flight)
    <3>1. i \in 0..Len(flight)
      BY <1>2, <2>5
    <3> QED
      BY <1>3, <2>3, <2>4, <2>5, <3>1
  <2>6. CASE i = Len(flight')
    <3> DEFINE R == Settled \cup Flown(Len(flight)) \cup Range(chunk) \cup Skips(chunk, mqttQueue[1].live)
    <3>1. R \subseteq Rows
      <4>1. Range(chunk) \subseteq Rows
        BY DEF Range
      <4>2. Skips(chunk, mqttQueue[1].live) \subseteq Rows
        BY <1>1 DEF Skips, UplinkTypes, ClientTypes
      <4> QED
        BY <1>1, <4>1, <4>2, SetsAreRows
    <3>2. Behind(Latest(Range(chunk)), R)
      <4> HIDE DEF R
      <4>1. Settled \subseteq R /\ Flown(Len(flight)) \subseteq R /\ Range(chunk) \subseteq R
            /\ Skips(chunk, mqttQueue[1].live) \subseteq R
        BY DEF R
      <4> QED
        BY <1>4, <2>1, <3>1, <4>1, ChunkInOrder
    <3>3. R \subseteq (Settled \cup Flown(i))'
      <4>1. Range(chunk) \subseteq Flown(Len(flight))'
        BY <2>3 DEF Range
      <4>2. Skips(chunk, mqttQueue[1].live) \subseteq Settled'
        BY <2>1 DEF Settled
      <4>3. Flown(Len(flight))' = Flown(i)'
        BY <2>6 DEF Flown
      <4> QED
        BY <1>2, <2>3, <4>1, <4>2, <4>3
    <3>4. Latest(Range(chunk)) \in Nat
      <4>1. Range(chunk) \subseteq Rows
        BY DEF Range
      <4> QED
        BY <1>1, <4>1, LatestIs
    <3>5. flight'[i].ulTime = Latest(Range(chunk))
      BY <2>2, <2>4, <2>6
    <3> HIDE DEF R
    <3> QED
      BY <1>1, <3>1, <3>2, <3>3, <3>4, <3>5, BehindKept
  <2> QED
    BY <1>2, <2>4, <2>5, <2>6
<1>5. CASE Acknowledged
  <2>1. flight' = Tail(flight) /\ cloud' = cloud
    BY <1>5 DEF Acknowledged
  <2>2. flight # <<>>
    BY <1>2, <2>1, <1>5, <1>1 DEF Acknowledged, UplinkTypes, ClientTypes
  <2>3. Len(flight') = Len(flight) - 1 /\ \A k \in 1..Len(flight') : flight'[k] = flight[k + 1]
    BY <1>2, <2>1, <2>2, TailIs
  <2>4. i \in 0..(Len(flight) - 1) /\ i + 1 \in 1..Len(flight) /\ flight'[i] = flight[i + 1]
    BY <1>2, <2>3
  <2>5. Flown(i + 1) \subseteq (Settled \cup Flown(i))'
    <3>1. Flown(i + 1) \subseteq Flown(i)' \cup cloud
      BY <1>1, <1>5, <2>4, FlownLess
    <3> QED
      BY <1>2, <3>1 DEF Settled
  <2> QED
    BY <1>3, <2>4, <2>5
<1>6. CASE Fresh
  <2>1. flight' = <<>>
    BY <1>6 DEF Fresh
  <2> QED
    BY <2>1
<1>7. CASE UNCHANGED flight
  <2>1. Flown(i) \subseteq Flown(i)'
    BY <1>1, <1>7, FlownStays
  <2> QED
    BY <1>3, <1>7, <2>1
<1>8. Refuse \/ Arrive => UNCHANGED flight
  BY <1>1, RefuseIs DEF Arrive
<1> QED
  BY <1>1, <1>4, <1>5, <1>6, <1>7, <1>8, LinkSteps

LEMMA KnownSteps ==
  ASSUME UplinkTypes, [UplinkNext]_uplinkVars
  PROVE  /\ Fresh \/ Acknowledged \/ ReplaceGateway \/ UNCHANGED pGateway
         /\ Fresh \/ ReadGateway \/ ReplaceGateway \/ UNCHANGED reading
<1>1. Acknowledge => Fresh \/ Acknowledged
  BY AcknowledgeIs
<1>2. Acknowledged => UNCHANGED reading
  BY DEF Acknowledged
<1>3. Dies => Fresh
  BY DEF Dies
<1>4. UNCHANGED uplinkVars \/ BlockerStep => UNCHANGED <<pGateway, reading>>
  BY DEF uplinkVars, BlockerStep, Forward, Begin, GetLastTime, Count, FetchPage, FetchFails, cloudClient
<1>5. CloudClientStep => ReadGateway \/ ReplaceGateway \/ UNCHANGED <<pGateway, reading>>
  BY DEF CloudClientStep, Poll, SendData, OnDisconnected
<1>6. ReadGateway => UNCHANGED pGateway
  BY DEF ReadGateway
<1>7. MQTTStep => UNCHANGED <<pGateway, reading>>
  BY DEF MQTTStep, Publish, Refuse, cloudClient
<1>8. Tick \/ Sample \/ Notify \/ PublishStatus \/ Arrive \/ LinkUp \/ LinkDown =>
        UNCHANGED <<pGateway, reading>>
  BY DEF Tick, Sample, Notify, PublishStatus, Arrive, LinkUp, LinkDown, cloudClient
<1> QED
  BY <1>1, <1>2, <1>3, <1>4, <1>5, <1>6, <1>7, <1>8 DEF UplinkNext

LEMMA LatestStep ==
  ASSUME UplinkInv, [UplinkNext]_uplinkVars
  PROVE  Reached(Latest(cloud)', Settled', time', clock')
<1>1. UplinkTypes /\ FlightInOrder /\ CloudInOrder /\ UplinkTypes'
  BY TypesStep DEF UplinkInv
<1>2. Settled \subseteq Settled' /\ Settled \subseteq Rows /\ cloud \subseteq Rows
  BY <1>1, SettledGrows, SetsAreRows
<1>3. Latest(cloud) \in Nat /\ Behind(Latest(cloud), Settled)
  BY <1>1, <1>2, LatestIs DEF CloudInOrder
<1>4. CASE Arrive
  <2>1. /\ arrived' \in 1..Len(flight) /\ cloud' = cloud \cup Range(flight[arrived'].rows)
        /\ flight' = flight /\ time' = time /\ clock' = clock
    BY <1>1, <1>4, ElementsAre DEF Arrive, UplinkTypes, ClientTypes, gatewaySide
  <2>2. PICK n \in 1..Len(flight) : n = arrived'
    BY <2>1
  <2>3. PICK C : C = cloud'
    OBVIOUS
  <2>4. /\ flight[n].ulTime \in Nat /\ Behind(flight[n].ulTime, Settled \cup Flown(n))
        /\ flight[n].rows \in Seq(Rows)
        /\ \A p \in 1..Len(flight[n].rows) : time[flight[n].rows[p]] <= flight[n].ulTime
    BY <1>1, ElementsAre DEF FlightInOrder
  <2>5. \A r \in Range(flight[n].rows) : r \in Rows /\ time[r] <= flight[n].ulTime
    BY <2>4 DEF Range
  <2>6. Flown(n) \subseteq cloud'
    <3>1. Flown(n) \subseteq Flown(n)'
      BY <1>1, <2>1, FlownStays
    <3>2. Flown(n)' = Flown(arrived)'
      BY <2>2 DEF Flown
    <3>3. Flown(arrived)' \subseteq cloud'
      BY ArrivedStays
    <3> QED
      BY <3>1, <3>2, <3>3
  <2>7. C \subseteq Rows /\ C = cloud \cup Range(flight[n].rows)
    BY <1>2, <2>1, <2>2, <2>3, <2>5
  <2>8. /\ Latest(C) \in Nat
        /\ C # {} => \E r \in C : time[r] = Latest(C)
    BY <1>1, <2>7, LatestIs
  <2>9. Latest(cloud)' = Latest(C)
    BY <2>1, <2>3 DEF Latest, TimesOf
  <2>10. CASE Latest(C) <= Latest(cloud)
    <3>1. Behind(Latest(C), Settled)
      BY <1>1, <1>2, <1>3, <2>8, <2>10, ReachedMore
    <3> QED
      BY <1>1, <1>2, <2>8, <2>9, <3>1, BehindKept
  <2>11. CASE ~ (Latest(C) <= Latest(cloud))
    <3>1. C # {}
      BY <1>3, <2>11 DEF Latest
    <3>2. PICK r \in C : time[r] = Latest(C)
      BY <2>8, <3>1
    <3>3. \A q \in cloud : time[q] <= Latest(cloud)
      BY <1>1, <1>2, LatestIs
    <3>4. Latest(C) <= flight[n].ulTime
      BY <2>5, <2>7, <2>11, <3>2, <3>3
    <3>5. Settled \cup Flown(n) \subseteq Rows /\ Settled \cup Flown(n) \subseteq Settled'
      BY <1>1, <1>2, <2>6, SetsAreRows DEF Settled
    <3>6. Behind(Latest(C), Settled \cup Flown(n))
      BY <1>1, <2>4, <2>8, <3>4, <3>5, ReachedMore
    <3> QED
      BY <1>1, <2>8, <2>9, <3>5, <3>6, BehindKept
  <2> QED
    BY <2>10, <2>11
<1>5. CASE UNCHANGED cloud
  <2>1. \A r \in cloud : time'[r] = time[r]
    BY <1>1, <1>2, RowsGrow
  <2>2. TimesOf(cloud)' = TimesOf(cloud)
    BY <1>5, <2>1 DEF TimesOf
  <2>3. Latest(cloud)' = Latest(cloud)
    BY <1>5, <2>2 DEF Latest
  <2> QED
    BY <1>1, <1>2, <1>3, <2>3, BehindKept
<1>6. Publish \/ Refuse \/ Fresh \/ Acknowledged => UNCHANGED cloud
  BY <1>1, RefuseIs DEF Publish, Fresh, Acknowledged
<1> QED
  BY <1>1, <1>4, <1>5, <1>6, LinkSteps

LEMMA CloudStep ==
  ASSUME UplinkInv, [UplinkNext]_uplinkVars
  PROVE  CloudInOrder'
<1>1. UplinkTypes /\ FlightInOrder /\ CloudInOrder
  BY DEF UplinkInv
<1>2. Settled \subseteq Settled' /\ Settled \subseteq Rows /\ cloud \subseteq Rows
  BY <1>1, SettledGrows, SetsAreRows
<1>3. \A T \in Nat : Behind(T, Settled) => Reached(T, Settled', time', clock')
  BY <1>1, <1>2, BehindKept
<1>4. Latest(cloud) \in Nat /\ pGateway.last \in Nat /\ reading.last \in Nat
  BY <1>1, <1>2, LatestIs DEF UplinkTypes, ClientTypes
<1>5. Reached(Latest(cloud)', Settled', time', clock')
  BY LatestStep
<1>6. pGateway'.known => Reached(pGateway'.last, Settled', time', clock')
  <2>1. CASE Fresh
    BY <2>1 DEF Fresh, Unknown
  <2>2. CASE Acknowledged
    <3>1. CASE pGateway' = pGateway
      BY <1>1, <1>3, <1>4, <3>1 DEF CloudInOrder
    <3>2. CASE pGateway' # pGateway
      <4>1. pGateway.known /\ pGateway'.last = Max({pGateway.last, Head(flight).ulTime})
        BY <1>1, <2>2, <3>2 DEF Acknowledged, UplinkTypes, ClientTypes
      <4>2. 1 \in 1..arrived /\ 1 \in 1..Len(flight) /\ Head(flight) = flight[1]
        BY <1>1, <2>2 DEF Acknowledged, UplinkTypes, ClientTypes
      <4>3. flight[1].ulTime \in Nat /\ Behind(flight[1].ulTime, Settled \cup Flown(1))
        BY <1>1, <4>2, ElementsAre DEF FlightInOrder
      <4>4. Settled \cup Flown(1) = Settled
        <5>1. Flown(1) \subseteq Flown(arrived)
          BY <4>2 DEF Flown
        <5> QED
          BY <1>1, <5>1 DEF FlightInOrder, Settled
      <4>5. pGateway'.last \in {pGateway.last, flight[1].ulTime}
        BY <1>4, <4>1, <4>2, <4>3, GreatestOfTwo
      <4>6. Behind(pGateway.last, Settled) /\ Behind(flight[1].ulTime, Settled)
        BY <1>1, <4>1, <4>3, <4>4 DEF CloudInOrder
      <4> QED
        BY <1>3, <1>4, <4>3, <4>5, <4>6
    <3> QED
      BY <3>1, <3>2
  <2>3. CASE ReplaceGateway
    <3>1. reading.going /\ pGateway'.last = reading.last
      BY <2>3 DEF ReplaceGateway
    <3> QED
      BY <1>1, <1>3, <1>4, <3>1 DEF CloudInOrder
  <2>4. CASE UNCHANGED pGateway
    BY <1>1, <1>3, <1>4, <2>4 DEF CloudInOrder
  <2> QED
    BY <1>1, <2>1, <2>2, <2>3, <2>4, KnownSteps
<1>7. reading'.going => Reached(reading'.last, Settled', time', clock')
  <2>1. CASE Fresh \/ ReplaceGateway
    BY <2>1 DEF Fresh, ReplaceGateway, NoReading
  <2>2. CASE ReadGateway
    <3>1. reading' = reading \/ reading'.last = Latest(cloud)
      BY <2>2 DEF ReadGateway
    <3> QED
      BY <1>1, <1>3, <1>4, <3>1 DEF CloudInOrder
  <2>3. CASE UNCHANGED reading
    BY <1>1, <1>3, <1>4, <2>3 DEF CloudInOrder
  <2> QED
    BY <1>1, <2>1, <2>2, <2>3, KnownSteps
<1> QED
  BY <1>5, <1>6, <1>7 DEF CloudInOrder, Behind

-------------------------------------------------------------------------------
(* The queue to the link.                                                  *)

\* The batch in work moves on by n rows, which are given to the link or up.
LEMMA HeadMoves ==
  ASSUME UplinkInv, [UplinkNext]_uplinkVars, ~ Fresh, Publish \/ Refuse
  PROVE  LET batch == mqttQueue[1]
         IN \E n \in 0..Len(batch.rows) :
            /\ mqttQueue # <<>> /\ 1 \in 1..Len(mqttQueue) /\ batch.rows \in Seq(Rows)
            /\ ~ batch.live => \A p \in 1..n : batch.rows[p] \in Given'
            /\ \/ n = Len(batch.rows) /\ mqttQueue' = Tail(mqttQueue)
               \/ /\ Len(mqttQueue') = Len(mqttQueue)
                  /\ \A k \in 2..Len(mqttQueue) : mqttQueue'[k] = mqttQueue[k]
                  /\ mqttQueue'[1].live = batch.live
                  /\ Len(mqttQueue'[1].rows) = Len(batch.rows) - n
                  /\ \A p \in 1..(Len(batch.rows) - n) : mqttQueue'[1].rows[p] = batch.rows[n + p]
<1>1. UplinkTypes /\ FlightInOrder
  BY DEF UplinkInv
<1> DEFINE batch == mqttQueue[1]
<1>2. mqttQueue # <<>>
  BY <1>1, RefuseIs DEF Publish
<1>3. /\ 1 \in 1..Len(mqttQueue) /\ mqttQueue \in Seq(Batches) /\ batch \in Batches
      /\ batch.rows \in Seq(Rows) /\ Len(batch.rows) \in Nat
  BY <1>1, <1>2, ElementsAre DEF UplinkTypes, ClientTypes
<1>4. CASE Publish
  <2>1. PICK chunk, rest \in Seq(Rows) :
            /\ Len(chunk) \in 0..Len(batch.rows) /\ Len(rest) = Len(batch.rows) - Len(chunk)
            /\ \A p \in 1..Len(chunk) : chunk[p] = batch.rows[p]
            /\ \A p \in 1..Len(rest) : rest[p] = batch.rows[Len(chunk) + p]
            /\ flight' = Append(flight, [rows |-> chunk, ulTime |-> Latest(Range(chunk))])
            /\ mqttQueue' = IF rest = <<>> THEN Tail(mqttQueue)
                            ELSE [mqttQueue EXCEPT ![1].rows = rest]
    BY <1>1, <1>4, PublishIs
  <2> DEFINE pub == [rows |-> chunk, ulTime |-> Latest(Range(chunk))]
  <2>2. pub.rows = chunk /\ flight' = Append(flight, pub)
    BY <2>1
  <2> HIDE DEF pub
  <2>3. \A p \in 1..Len(chunk) : chunk[p] \in Flown(Len(flight))'
    BY <1>1, <2>1, <2>2, FlownMore
  <2>4. \A p \in 1..Len(chunk) : batch.rows[p] \in Given'
    BY <2>1, <2>3 DEF Given
  <2>5. CASE rest = <<>>
    <3>1. Len(chunk) = Len(batch.rows)
      BY <1>3, <2>1, <2>5
    <3> QED
      BY <1>2, <1>3, <2>1, <2>4, <2>5, <3>1
  <2>6. CASE rest # <<>>
    <3>1. mqttQueue' = [mqttQueue EXCEPT ![1] = [batch EXCEPT !.rows = rest]]
      BY <2>1, <2>6
    <3>2. [batch EXCEPT !.rows = rest].live = batch.live /\ [batch EXCEPT !.rows = rest].rows = rest
      BY <1>3 DEF Batches
    <3>3. Len(mqttQueue') = Len(mqttQueue) /\ mqttQueue'[1] = [batch EXCEPT !.rows = rest]
          /\ \A k \in 2..Len(mqttQueue) : mqttQueue'[k] = mqttQueue[k]
      BY <1>3, <3>1
    <3>4. PICK n \in 0..Len(batch.rows) : n = Len(chunk)
      BY <2>1
    <3>5. mqttQueue'[1].rows = rest /\ mqttQueue'[1].live = batch.live /\ Len(rest) = Len(batch.rows) - n
      BY <2>1, <3>2, <3>3, <3>4
    <3>6. \A p \in 1..(Len(batch.rows) - n) : rest[p] = batch.rows[n + p]
      BY <2>1, <3>4, <3>5
    <3>7. \A p \in 1..n : batch.rows[p] \in Given'
      BY <2>4, <3>4
    <3> QED
      BY <1>2, <1>3, <3>3, <3>5, <3>6, <3>7
  <2> QED
    BY <2>5, <2>6
<1>5. CASE Refuse
  <2>1. /\ mqttQueue' = Tail(mqttQueue)
        /\ ~ batch.live => \A p \in 1..Len(batch.rows) : batch.rows[p] \in refused'
    BY <1>1, <1>5, RefuseIs
  <2> QED
    BY <1>2, <1>3, <2>1 DEF Given
<1> QED
  BY <1>4, <1>5

LEMMA FetchedShift ==
  ASSUME UplinkInv, [UplinkNext]_uplinkVars, ~ Fresh, Publish \/ Refuse, mqttQueue' = Tail(mqttQueue)
  PROVE  \A m \in 0..(Len(mqttQueue) - 1) : Fetched(m + 1) \subseteq Given' \cup Fetched(m)'
<1>1. UplinkTypes
  BY DEF UplinkInv
<1>2. PICK n \in 0..Len(mqttQueue[1].rows) :
            /\ mqttQueue # <<>> /\ mqttQueue[1].rows \in Seq(Rows)
            /\ ~ mqttQueue[1].live => \A p \in 1..n : mqttQueue[1].rows[p] \in Given'
            /\ n = Len(mqttQueue[1].rows) \/ Len(mqttQueue') = Len(mqttQueue)
  BY HeadMoves
<1>3. /\ Len(mqttQueue') = Len(mqttQueue) - 1 /\ Len(mqttQueue) \in Nat
      /\ \A i \in 1..Len(mqttQueue') : mqttQueue'[i] = mqttQueue[i + 1]
  BY <1>1, <1>2, TailIs DEF UplinkTypes, ClientTypes
<1>4. n = Len(mqttQueue[1].rows)
  <2>1. Len(mqttQueue') # Len(mqttQueue)
    BY <1>3
  <2> QED
    BY <1>2, <2>1
<1>5. Rows \subseteq Rows'
  BY <1>1, RowsGrow
<1> SUFFICES ASSUME NEW m \in 0..(Len(mqttQueue) - 1), NEW r \in Fetched(m + 1)
             PROVE  r \in Given' \cup Fetched(m)'
  OBVIOUS
<1>6. PICK i \in 1..(m + 1), p \in Nat :
         ~ mqttQueue[i].live /\ p \in 1..Len(mqttQueue[i].rows) /\ mqttQueue[i].rows[p] = r
  BY DEF Fetched
<1>7. CASE i = 1
  BY <1>2, <1>4, <1>6, <1>7
<1>8. CASE i # 1
  <2>1. i - 1 \in 1..m /\ i - 1 \in 1..Len(mqttQueue') /\ mqttQueue'[i - 1] = mqttQueue[i]
    BY <1>3, <1>8
  <2>2. r \in Rows
    BY DEF Fetched
  <2> QED
    BY <1>5, <1>6, <2>1, <2>2 DEF Fetched
<1> QED
  BY <1>7, <1>8

LEMMA FetchedStays ==
  ASSUME UplinkInv, [UplinkNext]_uplinkVars, ~ Fresh,
         ~ (mqttQueue # <<>> /\ mqttQueue' = Tail(mqttQueue))
  PROVE  \A m \in 0..Len(mqttQueue) : Fetched(m) \subseteq Given' \cup Fetched(m)'
<1>1. UplinkTypes
  BY DEF UplinkInv
<1>2. Rows \subseteq Rows' /\ mqttQueue \in Seq(Batches) /\ Len(mqttQueue) \in Nat
  BY <1>1, RowsGrow DEF UplinkTypes, ClientTypes
<1> SUFFICES ASSUME NEW m \in 0..Len(mqttQueue), NEW r \in Fetched(m)
             PROVE  r \in Given' \cup Fetched(m)'
  OBVIOUS
<1>3. PICK i \in 1..m, p \in Nat :
         ~ mqttQueue[i].live /\ p \in 1..Len(mqttQueue[i].rows) /\ mqttQueue[i].rows[p] = r
  BY DEF Fetched
<1>4. r \in Rows' /\ i \in 1..Len(mqttQueue)
  BY <1>2 DEF Fetched
<1>5. CASE mqttQueue'[i] = mqttQueue[i]
  BY <1>3, <1>4, <1>5 DEF Fetched
<1>6. CASE Publish \/ Refuse
  <2>1. PICK n \in 0..Len(mqttQueue[1].rows) :
          /\ mqttQueue # <<>> /\ mqttQueue[1].rows \in Seq(Rows)
          /\ ~ mqttQueue[1].live => \A q \in 1..n : mqttQueue[1].rows[q] \in Given'
          /\ Len(mqttQueue') = Len(mqttQueue)
          /\ \A k \in 2..Len(mqttQueue) : mqttQueue'[k] = mqttQueue[k]
          /\ mqttQueue'[1].live = mqttQueue[1].live
          /\ Len(mqttQueue'[1].rows) = Len(mqttQueue[1].rows) - n
          /\ \A q \in 1..(Len(mqttQueue[1].rows) - n) : mqttQueue'[1].rows[q] = mqttQueue[1].rows[n + q]
    BY <1>6, HeadMoves
  <2>2. CASE i # 1
    <3>1. i \in 2..Len(mqttQueue)
      BY <1>2, <1>4, <2>2
    <3>2. mqttQueue'[i] = mqttQueue[i]
      BY <2>1, <3>1
    <3> QED
      BY <1>5, <3>2
  <2>3. CASE i = 1 /\ p <= n
    BY <1>3, <2>1, <2>3
  <2>4. CASE i = 1 /\ p > n
    <3>1. p - n \in 1..(Len(mqttQueue[1].rows) - n) /\ n + (p - n) = p /\ p - n \in Nat
      BY <1>3, <2>1, <2>4
    <3>2. p - n \in 1..Len(mqttQueue'[1].rows) /\ mqttQueue'[1].rows[p - n] = r
      BY <1>3, <2>1, <2>4, <3>1
    <3> QED
      BY <1>3, <1>4, <2>1, <2>4, <3>1, <3>2 DEF Fetched
  <2> QED
    BY <1>3, <2>2, <2>3, <2>4
<1>7. CASE FetchPage \/ SendData
  <2>1. mqttQueue' = mqttQueue \/ \E b : mqttQueue' = Append(mqttQueue, b)
    BY <1>1, <1>7, FetchPageIs DEF SendData
  <2>2. mqttQueue'[i] = mqttQueue[i]
    BY <1>2, <1>4, <2>1, AppendIs
  <2> QED
    BY <1>5, <2>2
<1> QED
  BY <1>1, <1>5, <1>6, <1>7, QueueSteps

LEMMA KnownGrows ==
  ASSUME UplinkInv, [UplinkNext]_uplinkVars, ~ Fresh
  PROVE  Known \subseteq Known'
<1>1. UplinkTypes /\ FlightInOrder /\ UplinkTypes'
  BY TypesStep DEF UplinkInv
<1>2. Given \subseteq Given'
  BY <1>1, GivenGrows
<1>3. Len(mqttQueue) \in Nat /\ mqttQueue \in Seq(Batches)
  BY <1>1 DEF UplinkTypes, ClientTypes
<1>4. PICK n \in Nat : n = Len(mqttQueue')
  BY <1>1, ElementsAre DEF UplinkTypes, ClientTypes
<1>5. Fetched(Len(mqttQueue))' = Fetched(n)'
  BY <1>4 DEF Fetched
<1>6. Fetched(Len(mqttQueue)) \subseteq Given' \cup Fetched(n)'
  <2>1. CASE mqttQueue # <<>> /\ mqttQueue' = Tail(mqttQueue) /\ (Publish \/ Refuse)
    <3>1. n = Len(mqttQueue) - 1 /\ n + 1 = Len(mqttQueue) /\ n \in 0..(Len(mqttQueue) - 1)
      BY <1>3, <1>4, <2>1, TailIs
    <3>2. Fetched(n + 1) \subseteq Given' \cup Fetched(n)'
      BY <2>1, <3>1, FetchedShift
    <3> QED
      BY <3>1, <3>2
  <2>2. CASE ~ (mqttQueue # <<>> /\ mqttQueue' = Tail(mqttQueue))
    <3>1. PICK m \in Nat : m = Len(mqttQueue)
      BY <1>3
    <3>2. Fetched(m) \subseteq Given' \cup Fetched(m)'
      BY <2>2, <3>1, FetchedStays
    <3>3. m <= n
      <4>1. CASE Publish \/ Refuse
        <5>1. Len(mqttQueue') = Len(mqttQueue)
          BY <2>2, <4>1, HeadMoves
        <5> QED
          BY <1>4, <3>1, <5>1
      <4>2. CASE FetchPage \/ SendData
        <5>1. mqttQueue' = mqttQueue \/ \E b : mqttQueue' = Append(mqttQueue, b)
          BY <1>1, <4>2, FetchPageIs DEF SendData
        <5> QED
          BY <1>3, <1>4, <3>1, <5>1, AppendIs
      <4> QED
        BY <1>1, <1>4, <3>1, <4>1, <4>2, QueueSteps
    <3>4. Fetched(m)' \subseteq Fetched(n)'
      BY <3>3 DEF Fetched
    <3> QED
      BY <3>1, <3>2, <3>4
  <2>3. mqttQueue # <<>> /\ mqttQueue' = Tail(mqttQueue) => Publish \/ Refuse
    <3> SUFFICES ASSUME mqttQueue # <<>>, mqttQueue' = Tail(mqttQueue), ~ (Publish \/ Refuse)
                 PROVE  FALSE
      OBVIOUS
    <3>1. Len(mqttQueue') = Len(mqttQueue) - 1
      BY <1>3, TailIs
    <3>2. mqttQueue' = mqttQueue \/ \E b : mqttQueue' = Append(mqttQueue, b)
      BY <1>1, QueueSteps, FetchPageIs DEF SendData
    <3>3. CASE \E b : mqttQueue' = Append(mqttQueue, b)
      <4>1. Len(mqttQueue') = Len(mqttQueue) + 1
        BY <1>3, <3>3, AppendIs
      <4> QED
        BY <1>3, <3>1, <4>1
    <3>4. CASE mqttQueue' = mqttQueue
      BY <1>3, <3>1, <3>4
    <3> QED
      BY <3>2, <3>3, <3>4
  <2> QED
    BY <2>1, <2>2, <2>3
<1> QED
  BY <1>2, <1>5, <1>6 DEF Known

-------------------------------------------------------------------------------
(* The queue and the next page.                                            *)

LEMMA NumbersInOrder ==
  ASSUME NEW a \in Nat, NEW b \in Nat
  PROVE  /\ a <= b <=> a < b \/ a = b
         /\ a <= b /\ b <= a => a = b
         /\ a < b /\ b # 0 => a <= b - 1
  OBVIOUS

\* The rows the blocker has after one more answer are in order.
LEMMA PageInOrder ==
  ASSUME UplinkInv, task.at = "fetch", NEW n \in Nat, NEW s, s = task.rows \o Answer(n),
         NEW p \in 1..Len(s)
  PROVE  s[p] \in Rows /\ Behind(time[s[p]], Known \cup Upto(s, p))
<1>1. UplinkTypes /\ TaskInOrder /\ RangeInOrder /\ task \in Tasks
  BY DEF UplinkInv, UplinkTypes, ClientTypes
<1> DEFINE L == Len(task.rows)
           page == Answer(n)
           R == Known \cup Upto(s, p)
           T == time[s[p]]
<1>2. /\ s \in Seq(Rows) /\ Len(s) = L + Len(page) /\ L \in Nat /\ Len(page) \in Nat
      /\ \A i \in 1..L : s[i] = task.rows[i]
      /\ \A i \in 1..Len(page) : s[L + i] = page[i] /\ page[i] \in Selected(task.begin, task.end)
  BY <1>1, PageIs, ElementsAre
<1>3. s[p] \in Rows /\ s[p] \in Upto(s, p) /\ Known \subseteq Rows /\ Upto(s, p) \subseteq Rows
  <2>1. s[p] \in Rows /\ \A i \in 1..Len(s) : s[i] \in Rows
    BY <1>2
  <2>2. p \in 1..p /\ \A i \in 1..p : i \in 1..Len(s)
    BY <1>2
  <2>3. Known \subseteq Rows
    BY <1>1, SetsAreRows
  <2> QED
    BY <2>1, <2>2, <2>3 DEF Upto
<1>4. /\ Rows = 1..Len(time) /\ clock \in Nat
      /\ \A r \in Rows : time[r] \in Nat /\ time[r] <= clock
  BY <1>1, TimesAre
<1>5. CASE p \in 1..L
  <2>1. Behind(time[task.rows[p]], Known \cup Upto(task.rows, p)) /\ s[p] = task.rows[p]
    BY <1>1, <1>2, <1>5 DEF TaskInOrder
  <2>2. Upto(task.rows, p) = Upto(s, p)
    <3>1. \A i \in 1..p : s[i] = task.rows[i]
      BY <1>2, <1>5
    <3> QED
      BY <3>1 DEF Upto
  <2> QED
    BY <1>3, <2>1, <2>2
<1>6. CASE p \notin 1..L
  <2>1. PICK q \in 1..Len(page) : p = L + q
    <3>1. p - L \in 1..Len(page) /\ p = L + (p - L)
      BY <1>2, <1>6
    <3> QED
      BY <3>1
  <2>2. /\ s[p] = page[q] /\ task.begin <= T /\ (task.end = 0 \/ T <= task.end)
        /\ task.begin \in Nat /\ task.end \in Nat
    BY <1>1, <1>2, <2>1 DEF Selected, Tasks
  <2>3. Upto(task.rows, L) \subseteq Upto(s, p)
    <3>1. \A i \in 1..L : i \in 1..p /\ s[i] = task.rows[i]
      BY <1>2, <2>1
    <3> QED
      BY <3>1 DEF Upto
  <2>4. ASSUME NEW t \in Rows, time[t] < T
        PROVE  \E r \in R : time[r] = time[t]
    <3>1. CASE task.ascending
      <4>1. task.begin # 0 /\ Behind(task.begin - 1, Known \cup Upto(task.rows, L))
        BY <1>1, <3>1 DEF RangeInOrder
      <4>2. CASE time[t] <= task.begin - 1
        <5>1. \E r \in Known \cup Upto(task.rows, L) : time[r] = time[t]
          BY <1>4, <4>1, <4>2 DEF Behind, Reached
        <5> QED
          BY <2>3, <5>1
      <4>3. CASE ~ (time[t] <= task.begin - 1)
        <5>1. time[t] \in Nat /\ T \in Nat
          BY <1>3, <1>4
        <5>2. t \in Selected(task.begin, task.end)
          <6>1. task.begin <= time[t] /\ (task.end = 0 \/ time[t] <= task.end)
            BY <2>2, <2>4, <4>3, <5>1
          <6> QED
            BY <6>1 DEF Selected
        <5>3. PICK i \in 1..(q - 1) : page[i] = t
          BY <1>1, <2>2, <2>4, <3>1, <5>2, AnswerIs
        <5>4. L + i \in 1..p /\ i \in 1..Len(page)
          BY <1>2, <2>1
        <5>5. t \in Upto(s, p)
          BY <1>2, <5>3, <5>4 DEF Upto
        <5> QED
          BY <5>5
      <4> QED
        BY <4>2, <4>3
    <3>2. CASE ~ task.ascending
      <4>1. task.end # 0 /\ Behind(task.end - 1, Known \cup Upto(task.rows, L))
        BY <1>1, <3>2 DEF RangeInOrder
      <4>2. time[t] <= task.end - 1
        <5>1. time[t] \in Nat /\ T \in Nat /\ task.end \in Nat /\ T <= task.end /\ time[t] < T
          BY <1>3, <1>4, <2>2, <2>4, <4>1
        <5> HIDE DEF T
        <5>2. time[t] < task.end
          BY <5>1
        <5> QED
          BY <4>1, <5>1, <5>2, NumbersInOrder
      <4>3. \E r \in Known \cup Upto(task.rows, L) : time[r] = time[t]
        BY <1>4, <4>1, <4>2 DEF Behind, Reached
      <4> QED
        BY <2>3, <4>3
    <3> QED
      BY <3>1, <3>2
  <2>5. s[p] \in R /\ T \in Nat /\ T <= clock
    BY <1>3, <1>4
  <2>6. ASSUME NEW t \in 1..Len(time), time[t] <= T
        PROVE  \E r \in R : time[r] = time[t]
    <3>1. time[t] \in Nat /\ t \in Rows
      BY <1>4
    <3>2. time[t] < T \/ time[t] = T
      <4> HIDE DEF T
      <4> QED
        BY <2>5, <2>6, <3>1, NumbersInOrder
    <3> QED
      BY <2>4, <2>5, <3>1, <3>2
  <2>7. clock <= T => \E r \in R : time[r] = clock
    <3>1. clock <= T => clock = T
      <4> HIDE DEF T
      <4> QED
        BY <1>4, <2>5, NumbersInOrder
    <3> QED
      BY <2>5, <3>1
  <2> QED
    BY <1>3, <2>5, <2>6, <2>7 DEF Behind, Reached
<1> QED
  BY <1>5, <1>6

-----------------------------------------------------------------------------

LEMMA QueueKept ==
  ASSUME UplinkInv, [UplinkNext]_uplinkVars,
         NEW k \in 1..Len(mqttQueue), NEW p \in 1..Len(mqttQueue[k].rows), ~ mqttQueue[k].live,
         NEW S, Given \cup Fetched(k - 1) \cup Upto(mqttQueue[k].rows, p) \subseteq S
  PROVE  Reached(time'[mqttQueue[k].rows[p]], S, time', clock')
<1>1. UplinkTypes /\ QueueInOrder
  BY DEF UplinkInv
<1> DEFINE R == Given \cup Fetched(k - 1) \cup Upto(mqttQueue[k].rows, p)
           r == mqttQueue[k].rows[p]
<1>2. R \subseteq Rows /\ r \in Rows /\ R \subseteq S
  BY <1>1, SetsAreRows
<1>3. Behind(time[r], R)
  BY <1>1 DEF QueueInOrder
<1>4. time'[r] = time[r] /\ time[r] \in Nat
  BY <1>1, <1>2, RowsGrow
<1> HIDE DEF R, r
<1>5. Reached(time'[r], S, time', clock')
  BY <1>1, <1>2, <1>3, <1>4, BehindKept
<1> QED
  BY <1>5 DEF r

LEMMA QueueStep ==
  ASSUME UplinkInv, [UplinkNext]_uplinkVars
  PROVE  QueueInOrder'
<1> SUFFICES ASSUME NEW k \in 1..Len(mqttQueue'), NEW p \in 1..Len(mqttQueue'[k].rows),
                    ~ mqttQueue'[k].live
             PROVE  Reached(time'[mqttQueue'[k].rows[p]],
                           (Given \cup Fetched(k - 1) \cup Upto(mqttQueue[k].rows, p))', time', clock')
  BY DEF QueueInOrder, Behind
<1>1. UplinkTypes /\ FlightInOrder /\ UplinkTypes'
  BY TypesStep DEF UplinkInv
<1>2. mqttQueue \in Seq(Batches) /\ Len(mqttQueue) \in Nat /\ k \in Nat /\ k - 1 \in Nat
      /\ Len(mqttQueue'[k].rows) \in Nat
  <2>1. mqttQueue \in Seq(Batches) /\ mqttQueue' \in Seq(Batches')
    BY <1>1 DEF UplinkTypes, ClientTypes
  <2>2. Len(mqttQueue) \in Nat /\ k \in Nat /\ k - 1 \in Nat /\ mqttQueue'[k] \in Batches'
    BY <2>1
  <2>3. mqttQueue'[k].rows \in Seq(Rows')
    BY <2>2 DEF Batches
  <2>4. Len(mqttQueue'[k].rows) \in Nat
    BY <2>3
  <2> QED
    BY <2>1, <2>2, <2>4
<1> DEFINE S == (Given \cup Fetched(k - 1) \cup Upto(mqttQueue[k].rows, p))'
<1>3. CASE Fresh
  <2>1. mqttQueue' = <<>>
    BY <1>3 DEF Fresh
  <2> QED
    BY <2>1
<1>4. CASE ~ Fresh
  <2>1. Given \subseteq Given'
    BY <1>1, <1>4, GivenGrows
  <2>2. ASSUME k \in 1..Len(mqttQueue), mqttQueue'[k] = mqttQueue[k],
               ~ (mqttQueue # <<>> /\ mqttQueue' = Tail(mqttQueue))
        PROVE  Reached(time'[mqttQueue'[k].rows[p]], S, time', clock')
    <3>1. k - 1 \in 0..Len(mqttQueue)
      BY <1>2, <2>2
    <3>2. Fetched(k - 1) \subseteq Given' \cup Fetched(k - 1)'
      BY <1>4, <2>2, <3>1, FetchedStays
    <3>3. Upto(mqttQueue[k].rows, p) = Upto(mqttQueue[k].rows, p)'
      BY <2>2
    <3>4. Given \cup Fetched(k - 1) \cup Upto(mqttQueue[k].rows, p) \subseteq S
      BY <2>1, <3>2, <3>3
    <3> HIDE DEF S
    <3> QED
      BY <2>2, <3>4, QueueKept
  <2>3. CASE Publish \/ Refuse
    <3>1. PICK n \in 0..Len(mqttQueue[1].rows) :
            /\ mqttQueue # <<>> /\ 1 \in 1..Len(mqttQueue) /\ mqttQueue[1].rows \in Seq(Rows)
            /\ ~ mqttQueue[1].live => \A i \in 1..n : mqttQueue[1].rows[i] \in Given'
            /\ \/ n = Len(mqttQueue[1].rows) /\ mqttQueue' = Tail(mqttQueue)
               \/ /\ Len(mqttQueue') = Len(mqttQueue)
                  /\ \A j \in 2..Len(mqttQueue) : mqttQueue'[j] = mqttQueue[j]
                  /\ mqttQueue'[1].live = mqttQueue[1].live
                  /\ Len(mqttQueue'[1].rows) = Len(mqttQueue[1].rows) - n
                  /\ \A i \in 1..(Len(mqttQueue[1].rows) - n) :
                       mqttQueue'[1].rows[i] = mqttQueue[1].rows[n + i]
      BY <1>4, <2>3, HeadMoves
    <3>2. CASE mqttQueue' = Tail(mqttQueue)
      <4>1. /\ Len(mqttQueue') = Len(mqttQueue) - 1
            /\ \A i \in 1..Len(mqttQueue') : mqttQueue'[i] = mqttQueue[i + 1]
        BY <1>2, <3>1, <3>2, TailIs
      <4>2. k + 1 \in 1..Len(mqttQueue) /\ mqttQueue'[k] = mqttQueue[k + 1]
            /\ k - 1 \in 0..(Len(mqttQueue) - 1) /\ (k - 1) + 1 = k /\ (k + 1) - 1 = k
        BY <1>2, <4>1
      <4>3. Fetched(k) \subseteq Given' \cup Fetched(k - 1)'
        BY <1>4, <2>3, <3>2, <4>2, FetchedShift
      <4>4. Upto(mqttQueue[k + 1].rows, p) = Upto(mqttQueue[k].rows, p)'
        BY <4>2
      <4>5. Given \cup Fetched((k + 1) - 1) \cup Upto(mqttQueue[k + 1].rows, p) \subseteq S
        BY <2>1, <4>2, <4>3, <4>4
      <4>6. p \in 1..Len(mqttQueue[k + 1].rows) /\ ~ mqttQueue[k + 1].live
        BY <4>2
      <4> HIDE DEF S
      <4>7. Reached(time'[mqttQueue[k + 1].rows[p]], S, time', clock')
        BY <4>2, <4>5, <4>6, QueueKept
      <4> QED
        BY <4>2, <4>7 DEF S
    <3>3. CASE mqttQueue' # Tail(mqttQueue) /\ k # 1
      <4>1. k \in 2..Len(mqttQueue) /\ k \in 1..Len(mqttQueue)
        BY <1>2, <3>1, <3>3
      <4> QED
        BY <2>2, <3>1, <3>3, <4>1
    <3>4. CASE mqttQueue' # Tail(mqttQueue) /\ k = 1
      <4>1. n + p \in 1..Len(mqttQueue[1].rows) /\ p \in Nat /\ n \in Nat
            /\ mqttQueue'[1].rows[p] = mqttQueue[1].rows[n + p]
        BY <1>2, <3>1, <3>4
      <4>2. Fetched(1 - 1) \subseteq S
        BY DEF Fetched
      <4>3. Upto(mqttQueue[1].rows, n + p) \subseteq S
        <5> SUFFICES ASSUME NEW i \in 1..(n + p) PROVE mqttQueue[1].rows[i] \in S
          BY DEF Upto
        <5>1. CASE i <= n
          <6>1. i \in 1..n /\ ~ mqttQueue[1].live
            BY <3>1, <3>4, <4>1, <5>1
          <6> QED
            BY <3>1, <6>1
        <5>2. CASE i > n
          <6>1. i - n \in 1..p /\ n + (i - n) = i /\ i - n \in 1..(Len(mqttQueue[1].rows) - n)
            <7>1. /\ i \in Nat /\ n \in Nat /\ p \in Nat /\ n < i /\ i <= n + p
                  /\ n + p <= Len(mqttQueue[1].rows) /\ Len(mqttQueue[1].rows) \in Nat
              BY <1>1, <3>1, <4>1, <5>2, ElementsAre
            <7> QED
              BY <7>1
          <6>2. mqttQueue'[1].rows[i - n] = mqttQueue[1].rows[i]
            BY <3>1, <3>4, <6>1
          <6>3. mqttQueue'[1].rows[i - n] \in Upto(mqttQueue[1].rows, p)'
            BY <6>1 DEF Upto
          <6> QED
            BY <3>4, <6>2, <6>3
        <5> QED
          BY <4>1, <5>1, <5>2
      <4>4. Given \cup Fetched(1 - 1) \cup Upto(mqttQueue[1].rows, n + p) \subseteq S
        BY <2>1, <4>2, <4>3
      <4>5. ~ mqttQueue[1].live
        BY <3>1, <3>4
      <4> HIDE DEF S
      <4>6. Reached(time'[mqttQueue[1].rows[n + p]], S, time', clock')
        BY <3>1, <4>1, <4>4, <4>5, QueueKept
      <4> QED
        BY <3>4, <4>1, <4>6 DEF S
    <3> QED
      BY <3>2, <3>3, <3>4
  <2>4. CASE FetchPage \/ SendData
    <3>1. PICK b : mqttQueue' = mqttQueue \/ mqttQueue' = Append(mqttQueue, b)
      BY <1>1, <2>4, FetchPageIs DEF SendData
    <3>2. Len(mqttQueue') >= Len(mqttQueue) /\ \A i \in 1..Len(mqttQueue) : mqttQueue'[i] = mqttQueue[i]
      BY <1>2, <3>1, AppendIs
    <3>3. ~ (mqttQueue # <<>> /\ mqttQueue' = Tail(mqttQueue))
      <4>1. mqttQueue # <<>> => Len(Tail(mqttQueue)) = Len(mqttQueue) - 1
        BY <1>2, TailIs
      <4> QED
        BY <1>2, <3>2, <4>1
    <3>4. CASE k \in 1..Len(mqttQueue)
      BY <2>2, <3>2, <3>3, <3>4
    <3>5. CASE k \notin 1..Len(mqttQueue)
      <4>1. SendData => mqttQueue' = Append(mqttQueue, [rows |-> Head(tpQueue).rows, live |-> TRUE])
        BY DEF SendData
      <4>2. k = Len(mqttQueue) + 1
        BY <1>2, <3>1, <3>5, AppendIs
      <4>3. ~ SendData
        <5> SUFFICES ASSUME SendData PROVE FALSE
          OBVIOUS
        <5>1. mqttQueue'[k] = [rows |-> Head(tpQueue).rows, live |-> TRUE]
          BY <1>2, <4>1, <4>2, AppendIs
        <5> QED
          BY <5>1
      <4>4. PICK m \in Nat : m = Min({Page, Batch - Len(task.rows)})
        BY <1>1, <2>4, <4>3, FetchPageIs
      <4> DEFINE s == task.rows \o Answer(m)
      <4>5. mqttQueue' = Append(mqttQueue, [rows |-> s, live |-> FALSE])
        BY <1>1, <1>2, <2>4, <4>2, <4>3, <4>4, FetchPageIs
      <4>6. mqttQueue'[k].rows = s
        BY <1>2, <4>2, <4>5, AppendIs
      <4>7. task.at = "fetch"
        BY <2>4, <4>3 DEF FetchPage
      <4>8. s[p] \in Rows /\ Behind(time[s[p]], Known \cup Upto(s, p))
        <5>1. p \in 1..Len(s)
          BY <4>6
        <5> HIDE DEF s
        <5>2. s = task.rows \o Answer(m)
          BY DEF s
        <5> QED
          BY <4>7, <5>1, <5>2, PageInOrder
      <4>9. Known \cup Upto(s, p) \subseteq S
        <5>1. Fetched(k - 1) \subseteq Given' \cup Fetched(k - 1)'
          <6>1. k - 1 \in 0..Len(mqttQueue)
            BY <1>2, <4>2
          <6> QED
            BY <1>4, <3>3, <6>1, FetchedStays
        <5>2. Fetched(k - 1) = Fetched(Len(mqttQueue))
          BY <1>2, <4>2
        <5>3. Upto(s, p) = Upto(mqttQueue[k].rows, p)'
          BY <4>6
        <5> QED
          BY <2>1, <5>1, <5>2, <5>3 DEF Known
      <4>10. Known \cup Upto(s, p) \subseteq Rows
        <5>1. s \in Seq(Rows)
          BY <1>1, PageIs
        <5>2. Upto(s, p) \subseteq Rows
          <6> HIDE DEF s
          <6>1. p \in 1..Len(s)
            BY <4>6
          <6> QED
            BY <5>1, <6>1 DEF Upto
        <5> QED
          BY <1>1, <5>2, SetsAreRows
      <4>11. time'[s[p]] = time[s[p]] /\ time[s[p]] \in Nat
        BY <1>1, <4>8, RowsGrow
      <4> HIDE DEF S, s
      <4>12. Reached(time'[s[p]], S, time', clock')
        BY <1>1, <4>8, <4>9, <4>10, <4>11, BehindKept
      <4> QED
        BY <4>6, <4>12 DEF S, s
    <3> QED
      BY <3>4, <3>5
  <2>5. CASE UNCHANGED mqttQueue
    <3>1. ~ (mqttQueue # <<>> /\ mqttQueue' = Tail(mqttQueue))
      <4>1. mqttQueue # <<>> => Len(Tail(mqttQueue)) = Len(mqttQueue) - 1
        BY <1>2, TailIs
      <4> QED
        BY <1>2, <2>5, <4>1
    <3> QED
      BY <2>2, <2>5, <3>1
  <2> QED
    BY <1>1, <1>4, <2>3, <2>4, <2>5, QueueSteps
<1> QED
  BY <1>3, <1>4

-------------------------------------------------------------------------------
(* The catch-up, and the theorem.                                          *)

\* What the steps of a catch-up other than a page do to its request.
LEMMA RequestSteps ==
  ASSUME UplinkInv, Fresh \/ Begin \/ GetLastTime \/ Count \/ FetchFails
  PROVE  /\ task'.rows = <<>>
         /\ \/ task'.at \in {"idle", "last"}
            \/ /\ task'.at = "count" /\ pGateway.known /\ task'.begin = pGateway.last + 1
            \/ /\ task'.at = "fetch" /\ task.at = "count"
               /\ IF task'.ascending THEN task'.begin = task.begin ELSE task'.end = task.begin
<1>1. UplinkTypes /\ RangeInOrder /\ task \in Tasks
  BY DEF UplinkInv, UplinkTypes, ClientTypes
<1>2. CASE task' = Idle
  BY <1>2 DEF Idle
<1>3. CASE task' = [Idle EXCEPT !.at = "last", !.now = clock]
  BY <1>3 DEF Idle
<1>4. CASE GetLastTime /\ task' # Idle
  <2>1. PICK now : /\ task.at = "last" /\ pGateway.known
                   /\ task' = [task EXCEPT !.at = "count", !.now = now, !.begin = pGateway.last + 1]
    BY <1>4 DEF GetLastTime
  <2>2. task.rows = <<>>
    BY <1>1, <2>1 DEF RangeInOrder
  <2>3. task'.at = "count" /\ task'.begin = pGateway.last + 1 /\ task'.rows = task.rows
    BY <1>1, <2>1 DEF Tasks
  <2> QED
    BY <2>1, <2>2, <2>3
<1>5. CASE Count /\ task' # Idle
  <2>1. PICK total \in Nat : /\ task.at = "count"
                             /\ task' = AskFor([task EXCEPT !.at = "fetch", !.total = total], task.begin)
    <3>1. Cardinality(Selected(task.begin, task.now)) \in Nat
      BY <1>1, SelectedRows
    <3> QED
      BY <1>5, <3>1 DEF Count
  <2> DEFINE t == [task EXCEPT !.at = "fetch", !.total = total]
  <2>2. t \in Tasks /\ t.at = "fetch" /\ task.begin \in Nat
    BY <1>1, <2>1 DEF Tasks
  <2>3. task' = AskFor(t, task.begin)
    BY <2>1
  <2> HIDE DEF t
  <2>4. /\ task'.at = "fetch" /\ task'.rows = <<>>
        /\ IF task'.ascending THEN task'.begin = task.begin ELSE task'.end = task.begin
    BY <2>2, <2>3, AskForType
  <2> QED
    BY <2>1, <2>4
<1>6. task' = Idle \/ task' = [Idle EXCEPT !.at = "last", !.now = clock] \/ GetLastTime \/ Count
  BY DEF Fresh, Begin, FetchFails
<1> QED
  BY <1>2, <1>3, <1>4, <1>5, <1>6

\* The rows of a batch that is complete wait in the queue.
LEMMA BatchWaits ==
  ASSUME UplinkInv, [UplinkNext]_uplinkVars, NEW s \in Seq(Rows),
         mqttQueue' = Append(mqttQueue, [rows |-> s, live |-> FALSE])
  PROVE  Upto(s, Len(s)) \subseteq Known'
<1>1. UplinkTypes
  BY DEF UplinkInv
<1>2. mqttQueue \in Seq(Batches)
  BY <1>1 DEF UplinkTypes, ClientTypes
<1> DEFINE k == Len(mqttQueue) + 1
<1>3. /\ Len(mqttQueue') = k /\ k \in Nat /\ k \in 1..k
      /\ mqttQueue'[k] = [rows |-> s, live |-> FALSE]
  BY <1>2, AppendIs
<1>4. mqttQueue'[k].rows = s /\ ~ mqttQueue'[k].live
  BY <1>3
<1>5. Rows \subseteq Rows' /\ Len(s) \in Nat
  BY <1>1, RowsGrow
<1> SUFFICES ASSUME NEW p \in 1..Len(s) PROVE s[p] \in Fetched(Len(mqttQueue))'
  BY DEF Upto, Known
<1>6. s[p] \in Rows' /\ p \in Nat /\ p \in 1..Len(mqttQueue'[k].rows) /\ mqttQueue'[k].rows[p] = s[p]
  BY <1>4, <1>5
<1> HIDE DEF k
<1> QED
  BY <1>3, <1>4, <1>6 DEF Fetched

LEMMA TaskStep ==
  ASSUME UplinkInv, [UplinkNext]_uplinkVars
  PROVE  TaskInOrder'
<1> SUFFICES ASSUME NEW p \in 1..Len(task'.rows)
             PROVE  Reached(time'[task'.rows[p]], (Known \cup Upto(task.rows, p))', time', clock')
  BY DEF TaskInOrder, Behind
<1>1. UplinkTypes /\ TaskInOrder
  BY DEF UplinkInv
<1>2. CASE Fresh \/ Begin \/ GetLastTime \/ Count \/ FetchFails
  BY <1>2, RequestSteps
<1>3. CASE UNCHANGED task /\ ~ Fresh
  <2> DEFINE R == Known \cup Upto(task.rows, p)
             S == (Known \cup Upto(task.rows, p))'
             T == time[task.rows[p]]
  <2>1. task' = task /\ p \in 1..Len(task.rows)
    BY <1>3
  <2>2. Behind(T, R)
    BY <1>1, <2>1 DEF TaskInOrder
  <2>3. R \subseteq Rows /\ task.rows[p] \in Rows
    BY <1>1, <2>1, SetsAreRows
  <2>4. R \subseteq S
    BY <1>3, <2>1, KnownGrows
  <2>5. time'[task'.rows[p]] = T /\ T \in Nat
    BY <1>1, <2>1, <2>3, RowsGrow
  <2> HIDE DEF R, S, T
  <2>6. Reached(T, S, time', clock')
    BY <1>1, <2>2, <2>3, <2>4, <2>5, BehindKept
  <2> QED
    BY <2>5, <2>6 DEF S
<1>4. CASE FetchPage /\ ~ Fresh
  <2>1. PICK n \in Nat : n = Min({Page, Batch - Len(task.rows)})
    BY <1>1, <1>4, FetchPageIs
  <2> DEFINE s == task.rows \o Answer(n)
  <2>2. task.at = "fetch" /\ task'.rows = s
    <3>1. task.at = "fetch" /\ (task'.rows = s \/ task' = Idle \/ task'.rows = <<>>)
      BY <1>1, <1>4, <2>1, FetchPageIs
    <3>2. task'.rows # <<>>
      OBVIOUS
    <3> QED
      BY <3>1, <3>2 DEF Idle
  <2>3. s \in Seq(Rows)
    BY <1>1, PageIs
  <2>4. s = task.rows \o Answer(n)
    OBVIOUS
  <2> HIDE DEF s
  <2> DEFINE R == Known \cup Upto(s, p)
             S == (Known \cup Upto(task.rows, p))'
             T == time[s[p]]
  <2>5. s[p] \in Rows /\ Behind(T, R)
    BY <2>2, <2>4, PageInOrder
  <2>6. R \subseteq Rows
    BY <1>1, <2>2, <2>3, SetsAreRows DEF Upto
  <2>7. R \subseteq S
    BY <1>4, <2>2, KnownGrows DEF Upto
  <2>8. time'[task'.rows[p]] = T /\ T \in Nat
    BY <1>1, <2>2, <2>5, RowsGrow
  <2> HIDE DEF R, S, T
  <2>9. Reached(T, S, time', clock')
    BY <1>1, <2>5, <2>6, <2>7, <2>8, BehindKept
  <2> QED
    BY <2>8, <2>9 DEF S
<1> QED
  BY <1>1, <1>2, <1>3, <1>4, TaskSteps

LEMMA RangeStep ==
  ASSUME UplinkInv, [UplinkNext]_uplinkVars
  PROVE  RangeInOrder'
<1>1. UplinkTypes /\ RangeInOrder /\ CloudInOrder /\ task \in Tasks /\ task' \in Tasks'
  BY TypesStep DEF UplinkInv, UplinkTypes, ClientTypes
<1>2. Known \subseteq Rows /\ Settled \subseteq Known
  BY <1>1, SetsAreRows DEF Known, Given, Settled
<1>3. task'.rows = <<>> => Upto(task'.rows, Len(task'.rows)) = {}
  BY DEF Upto
<1> DEFINE S == (Known \cup Upto(task.rows, Len(task.rows)))'
<1>4. Known' \subseteq S
  OBVIOUS
<1>5. CASE Fresh \/ Begin \/ GetLastTime \/ Count \/ FetchFails
  <2>1. CASE task'.at \in {"idle", "last"}
    BY <1>5, <2>1, RequestSteps DEF RangeInOrder
  <2>2. CASE ~ Fresh /\ task'.at = "count" /\ pGateway.known /\ task'.begin = pGateway.last + 1
    <3>1. pGateway.last \in Nat /\ Behind(pGateway.last, Settled)
      BY <1>1, <2>2 DEF CloudInOrder, UplinkTypes, ClientTypes
    <3>2. Settled \subseteq Known'
      BY <1>2, <2>2, KnownGrows
    <3>3. Reached(pGateway.last, Known', time', clock')
      BY <1>1, <1>2, <3>1, <3>2, BehindKept
    <3>4. task'.begin # 0 /\ task'.begin - 1 = pGateway.last
      BY <2>2, <3>1
    <3>5. task'.rows = <<>>
      BY <1>5, RequestSteps
    <3> QED
      BY <2>2, <3>3, <3>4, <3>5 DEF RangeInOrder, Behind
  <2>3. CASE /\ ~ Fresh /\ task'.at = "fetch" /\ task.at = "count"
             /\ IF task'.ascending THEN task'.begin = task.begin ELSE task'.end = task.begin
    <3>1. task.begin \in Nat /\ task.begin # 0 /\ Behind(task.begin - 1, Known)
      BY <1>1, <2>3 DEF RangeInOrder, Tasks
    <3>2. task.begin - 1 \in Nat
      BY <3>1
    <3>3. Known \subseteq S
      BY <2>3, KnownGrows
    <3>4. task'.rows = <<>>
      BY <1>5, RequestSteps
    <3> HIDE DEF S
    <3>5. Reached(task.begin - 1, S, time', clock')
      BY <1>1, <1>2, <3>1, <3>2, <3>3, BehindKept
    <3> QED
      BY <2>3, <3>1, <3>4, <3>5 DEF RangeInOrder, Behind, S
  <2>4. Fresh => task'.at = "idle"
    BY DEF Fresh, Idle
  <2> QED
    BY <1>5, <2>1, <2>2, <2>3, <2>4, RequestSteps
<1>6. CASE UNCHANGED task /\ ~ Fresh
  <2> DEFINE R == Known \cup Upto(task.rows, Len(task.rows))
  <2>1. R \subseteq Rows
    BY <1>1, SetsAreRows
  <2>2. Known \subseteq Known'
    BY <1>6, KnownGrows
  <2>3. R \subseteq S
    BY <1>6, <2>2
  <2>4. task.begin \in Nat /\ task.end \in Nat
    BY <1>1 DEF Tasks
  <2>5. (task.at = "count" => task.begin # 0 /\ Behind(task.begin - 1, Known))
        /\ (task.at # "fetch" => task.rows = <<>>)
    BY <1>1 DEF RangeInOrder
  <2>6. task.at = "count" => Reached(task.begin - 1, Known', time', clock')
    BY <1>1, <1>2, <2>2, <2>4, <2>5, BehindKept
  <2>7. task.at = "fetch" => IF task.ascending THEN task.begin # 0 /\ Behind(task.begin - 1, R)
                             ELSE task.end # 0 /\ Behind(task.end - 1, R)
    BY <1>1 DEF RangeInOrder
  <2> HIDE DEF R, S
  <2>8. task.at = "fetch" =>
          IF task.ascending THEN task.begin # 0 /\ Reached(task.begin - 1, S, time', clock')
          ELSE task.end # 0 /\ Reached(task.end - 1, S, time', clock')
    <3>1. \A b \in Nat : b # 0 /\ Behind(b - 1, R) => Reached(b - 1, S, time', clock')
      <4> TAKE b \in Nat
      <4> HAVE b # 0 /\ Behind(b - 1, R)
      <4>1. b - 1 \in Nat
        OBVIOUS
      <4> QED
        BY <1>1, <2>1, <2>3, <4>1, BehindKept
    <3> QED
      BY <2>4, <2>7, <3>1
  <2> QED
    BY <1>6, <2>5, <2>6, <2>8 DEF RangeInOrder, Behind, S
<1>7. CASE FetchPage /\ ~ Fresh
  <2>1. PICK n \in Nat : n = Min({Page, Batch - Len(task.rows)})
    BY <1>1, <1>7, FetchPageIs
  <2> DEFINE page == Answer(n)
             s == task.rows \o page
             l == time[Last(s)]
             R == Known \cup Upto(s, Len(s))
  <2>2. task.at = "fetch"
    BY <1>1, <1>7, FetchPageIs
  <2>3. s \in Seq(Rows) /\ Len(s) \in Nat /\ Upto(s, Len(s)) \subseteq Rows /\ R \subseteq Rows
    <3>1. s \in Seq(Rows)
      BY <1>1, PageIs
    <3> HIDE DEF s
    <3> QED
      BY <1>2, <3>1 DEF Upto
  <2>4. s # <<>> => /\ Len(s) \in 1..Len(s) /\ Last(s) = s[Len(s)] /\ Last(s) \in Rows
    <3>1. s # <<>> => Len(s) # 0 /\ Last(s) = s[Len(s)] /\ Last(s) \in Rows
      BY <1>1, PageIs
    <3> HIDE DEF s
    <3> QED
      BY <2>3, <3>1
  <2>5. s # <<>> => Behind(l, R)
    <3>1. s = task.rows \o Answer(n)
      OBVIOUS
    <3> HIDE DEF s
    <3> QED
      BY <2>2, <2>4, <3>1, PageInOrder
  <2>6. s # <<>> => l \in Nat /\ 2 <= l
    BY <1>1, <2>4, TimesAre
  <2>7. page # <<>> => s # <<>> /\ Last(page) = Last(s)
    <3> SUFFICES ASSUME page # <<>> PROVE s # <<>> /\ Last(page) = Last(s)
      OBVIOUS
    <3>1. /\ Len(page) \in Nat /\ Len(page) # 0 /\ Last(page) = page[Len(page)]
          /\ Len(s) = Len(task.rows) + Len(page) /\ Len(task.rows) \in Nat
          /\ \A i \in 1..Len(page) : s[Len(task.rows) + i] = page[i]
      BY <1>1, PageIs, ElementsAre
    <3>2. Len(s) # 0 /\ s[Len(s)] = page[Len(page)]
      BY <3>1
    <3>3. s # <<>>
      BY <3>2
    <3> QED
      BY <2>4, <3>1, <3>2, <3>3
  <2>8. Known \subseteq Known'
    BY <1>7, KnownGrows
  <2>9. CASE /\ page # <<>>
             /\ task'.at = "fetch" /\ task'.rows = s
             /\ task'.ascending = task.ascending
             /\ IF task.ascending THEN task'.begin = time[Last(page)] + 1
                ELSE task'.end = time[Last(page)] - 1
    <3>1. R \subseteq S
      BY <2>8, <2>9 DEF Upto
    <3>2. l \in Nat /\ 2 <= l /\ Behind(l, R) /\ time[Last(page)] = l
      BY <2>5, <2>6, <2>7, <2>9
    <3> HIDE DEF l, R, S
    <3>3. l - 2 \in Nat /\ l - 2 <= l /\ (l + 1) - 1 = l /\ (l - 1) - 1 = l - 2 /\ l + 1 # 0 /\ l - 1 # 0
      BY <3>2
    <3>4. Reached(l, S, time', clock')
      BY <1>1, <2>3, <3>1, <3>2, BehindKept
    <3>5. Reached(l - 2, S, time', clock')
      <4>1. Behind(l - 2, R)
        BY <1>1, <2>3, <3>2, <3>3, ReachedMore
      <4> QED
        BY <1>1, <2>3, <3>1, <3>3, <4>1, BehindKept
    <3>6. IF task'.ascending THEN task'.begin # 0 /\ Reached(task'.begin - 1, S, time', clock')
          ELSE task'.end # 0 /\ Reached(task'.end - 1, S, time', clock')
      BY <2>9, <3>2, <3>3, <3>4, <3>5
    <3> QED
      BY <2>9, <3>6 DEF RangeInOrder, Behind, S
  <2>10. CASE task' = Idle
    BY <2>10 DEF RangeInOrder, Idle
  <2>11. CASE /\ s # <<>> /\ task'.rows = <<>>
              /\ task'.at \in {"idle", "fetch"}
              /\ task'.at = "fetch" =>
                   IF task'.ascending THEN task'.begin = l + 1 ELSE task'.end = l + 1
              /\ mqttQueue' = Append(mqttQueue, [rows |-> s, live |-> FALSE])
    <3>1. Upto(s, Len(s)) \subseteq Known'
      BY <2>3, <2>11, BatchWaits
    <3>2. R \subseteq S
      BY <1>4, <2>8, <3>1
    <3>3. l \in Nat /\ Behind(l, R)
      BY <2>5, <2>6, <2>11
    <3> HIDE DEF l, R, S
    <3>4. Reached(l, S, time', clock')
      BY <1>1, <2>3, <3>2, <3>3, BehindKept
    <3>5. l + 1 # 0 /\ (l + 1) - 1 = l
      BY <3>3
    <3> QED
      BY <2>11, <3>4, <3>5 DEF RangeInOrder, Behind, S
  <2> QED
    BY <1>1, <1>7, <2>1, <2>9, <2>10, <2>11, FetchPageIs
<1> QED
  BY <1>1, <1>5, <1>6, <1>7, TaskSteps

-----------------------------------------------------------------------------

LEMMA UplinkInvInit == UplinkInit => UplinkInv
<1> SUFFICES ASSUME UplinkInit PROVE UplinkInv
  OBVIOUS
<1>1. UplinkTypes
  BY TypesInit
<1>2. /\ task = Idle /\ mqttQueue = <<>> /\ flight = <<>> /\ arrived = 0
      /\ cloud = {} /\ skipped = {} /\ reading = NoReading /\ pGateway = Unknown
  BY DEF UplinkInit
<1>3. FlightInOrder
  BY <1>2 DEF FlightInOrder, Flown
<1>4. CloudInOrder
  <2>1. Latest(cloud) = 0
    BY <1>2 DEF Latest
  <2>2. Behind(0, Settled)
    <3>1. \A r \in 1..Len(time) : ~ (time[r] <= 0)
      BY <1>1, TimesAre
    <3>2. 0 <= clock /\ ~ (clock <= 0)
      BY <1>1, TimesAre
    <3> QED
      BY <3>1, <3>2 DEF Behind, Reached
  <2> QED
    BY <1>2, <2>1, <2>2 DEF CloudInOrder, NoReading, Unknown
<1>5. QueueInOrder
  BY <1>2 DEF QueueInOrder
<1>6. TaskInOrder /\ RangeInOrder
  BY <1>2 DEF TaskInOrder, RangeInOrder, Idle
<1> QED
  BY <1>1, <1>3, <1>4, <1>5, <1>6 DEF UplinkInv

LEMMA UplinkInvStep == UplinkInv /\ [UplinkNext]_uplinkVars => UplinkInv'
<1> SUFFICES ASSUME UplinkInv, [UplinkNext]_uplinkVars PROVE UplinkInv'
  OBVIOUS
<1>1. UplinkTypes'
  BY TypesStep DEF UplinkInv
<1> QED
  BY <1>1, FlightStep, CloudStep, QueueStep, TaskStep, RangeStep DEF UplinkInv

\* The queues, the requests, the publications and what is known of the cloud stay well
\* typed: what a thread keeps of samples are samples the gateway has stored, and an
\* unfinished batch is smaller than a message to the MQTT client.
THEOREM UplinkIsTyped == UplinkSpec => []UplinkTypes
<1>1. UplinkInv => UplinkTypes
  BY DEF UplinkInv
<1> QED
  BY <1>1, UplinkInvInit, UplinkInvStep, PTL DEF UplinkSpec

LEMMA SettledCovers == UplinkInv => NothingPassedOver
<1> SUFFICES ASSUME UplinkInv, pGateway.known, NEW r \in Rows, time[r] <= pGateway.last
             PROVE  SharesSecond(r, cloud \cup skipped)
  BY DEF NothingPassedOver
<1>1. Behind(pGateway.last, Settled)
  BY DEF UplinkInv, CloudInOrder
<1>2. \E s \in Settled : time[s] = time[r]
  BY <1>1 DEF Behind, Reached, Rows
<1> QED
  BY <1>2 DEF SharesSecond, TimesOf, Settled

\* The last second the cloud is known to have, FTOM_TP_GATEWAY's ulServerDataTime, from
\* which every catch-up goes on: each sample stored for it or before it is in the cloud,
\* or a publication passed over it, or so it is for another sample of its second, in
\* whatever order the four threads step and whatever fails, is refused or dies.
THEOREM NothingPassedOverHolds == UplinkSpec => []NothingPassedOver
<1>1. UplinkSpec => []UplinkInv
  BY UplinkInvInit, UplinkInvStep, PTL DEF UplinkSpec
<1> QED
  BY <1>1, SettledCovers, PTL
===============================================================================
