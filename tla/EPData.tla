-------------------------------- MODULE EPData --------------------------------
(***************************************************************************)
(* How the data manager keeps the samples of one endpoint                  *)
(* (src/ftdm/lib/ftdm_ep.c over the SQL of src/ftdm/lib/ftdm_sqlite.c).    *)
(*                                                                         *)
(* The samples are the rows of a table that outlives the process; the      *)
(* object in memory caches how many there are and the oldest and newest    *)
(* time.  Before a sample is inserted, room is made for it under a limit   *)
(* by count; the process may die in between.  SQL selects rows by time     *)
(* alone, so samples of the same second go together, and a call may fail.  *)
(* One session works on the endpoint at a time.                            *)
(***************************************************************************)
EXTENDS Integers, FiniteSets

CONSTANTS Stamps,        \* times of samples, in seconds
          Limits,        \* limits by count that may be set
          Width,         \* FTM_ULONG holds 0..Width-1
          NoLimit,       \* a limit of any other type
          MaxSamples,    \* bound: samples of a run
          MaxChanges     \* bound: failures, limit changes and re-creations of a run

ASSUME StampsAssumption == Stamps \subseteq Nat \ {0} /\ IsFiniteSet(Stamps)
ASSUME LimitsAssumption ==
    /\ Limits \subseteq Nat /\ NoLimit \notin Nat
    /\ Width \in Nat \ {0} /\ \A n \in Limits : n < Width
ASSUME BoundsAssumption ==
    /\ MaxSamples \in Nat /\ MaxChanges \in Nat
    /\ MaxSamples < Width      \* the table is far from 2^32 rows

VARIABLES rows,          \* the table of the endpoint
          xStored,       \* the limit in ep_info
          ulCount, ulFirstTime, ulLastTime, xLimit,    \* the object in memory
          pc, pData,     \* a sample being added
          log,           \* history: every sample inserted so far
          changes,       \* history: failures, limit changes and re-creations
          forgot         \* history: made over rows it does not know of

memory == <<ulCount, ulFirstTime, ulLastTime, xLimit>>
vars   == <<rows, xStored, memory, pc, pData, log, changes, forgot>>

Samples == [id : 1..MaxSamples, ulTime : Stamps]
Times(R) == {r.ulTime : r \in R}
Garbage == {0} \cup Stamps     \* what an uninitialised FTM_ULONG may hold

TypeOK ==
    /\ rows \subseteq log /\ log \subseteq Samples
    /\ xStored \in Limits \cup {NoLimit} /\ xLimit \in Limits \cup {NoLimit}
    /\ ulCount \in 0..(Width - 1)
    /\ ulFirstTime \in Garbage /\ ulLastTime \in Garbage
    /\ pc \in {"idle", "insert"} /\ pData \in Garbage
    /\ changes \in 0..MaxChanges /\ forgot \in BOOLEAN

Init ==
    /\ rows = {} /\ log = {}
    /\ xStored \in Limits /\ xLimit = xStored
    /\ ulCount = 0 /\ ulFirstTime = 0 /\ ulLastTime = 0
    /\ pc = "idle" /\ pData = 0
    /\ changes = 0 /\ forgot = FALSE

\* A step the properties about an undisturbed endpoint do not cover.
Disturb == changes < MaxChanges /\ changes' = changes + 1

-------------------------------------------------------------------------------
(* The SQL the operations are made of.                                        *)

\* ORDER BY TIME DESC LIMIT 1 OFFSET i: rows of the same second come in any order.
RowAt(t, i) ==
    /\ t \in Times(rows)
    /\ Cardinality({r \in rows : r.ulTime > t}) <= i
    /\ i < Cardinality({r \in rows : r.ulTime >= t})

\* The oldest and the newest time of a table that is not empty.
Oldest(t, R) == t \in Times(R) /\ \A u \in Times(R) : t <= u
Newest(t, R) == t \in Times(R) /\ \A u \in Times(R) : u <= t

DeleteBetween(first, last) ==
    rows' = {r \in rows : ~(first <= r.ulTime /\ r.ulTime <= last)}

\* FTDM_DBIF_deleteWithTime, where 0 leaves an end open.
DeleteWithTime(begin, end) ==
    rows' = {r \in rows : ~(/\ begin = 0 \/ begin <= r.ulTime
                            /\ end = 0 \/ r.ulTime <= end)}

\* Fault: the positions count from the oldest row.
DeleteFromOldest(index, count) ==
    LET total == Cardinality(rows)
        lastIndex == IF index + count > total THEN total - 1 ELSE index + count - 1
    IN IF index < 0 \/ total = 0 \/ index >= total
       THEN UNCHANGED rows
       ELSE \E first, last \in Times(rows) :
               /\ RowAt(first, total - 1 - index) /\ RowAt(last, total - 1 - lastIndex)
               /\ DeleteBetween(first, last)

\* FTDM_DBIF_deleteEPData: the rows from the index-th newest on, or the last
\* count rows when the index is negative.  They are deleted by time, from the
\* first of them, the newest, to the last, the oldest.
DeleteEPData(index, count) ==
    LET total == Cardinality(rows)
        from == IF index >= 0 THEN index
                ELSE IF count > total THEN 0 ELSE total - count
        n == IF from + count > total THEN total - from ELSE count
    IN IF total = 0 \/ from >= total
       THEN UNCHANGED rows
       ELSE \E first, last \in Times(rows) :
               /\ RowAt(first, from) /\ RowAt(last, from + n - 1)
               /\ DeleteBetween(first, last)

\* FTDM_DBIF_getEPDataInfo writes nothing when the table is empty.
ReadInfo(R, unset) ==
    IF R = {} THEN ulFirstTime' \in unset /\ ulLastTime' \in unset
    ELSE \E f, l \in Times(R) :
            /\ Oldest(f, R) /\ Newest(l, R)
            /\ ulFirstTime' = f /\ ulLastTime' = l

-------------------------------------------------------------------------------
(* Adding a sample.                                                           *)

\* How many rows go for the new one to fit, and their going.
Excess == ulCount - xLimit + 1
Evict  == DeleteEPData(ulCount - Excess, Excess) /\ ReadInfo(rows', Garbage)

\* Fault: the count is not taken down.
MakeRoomUncounted ==
    IF xLimit # NoLimit /\ ulCount >= xLimit
    THEN Evict /\ UNCHANGED ulCount
    ELSE UNCHANGED <<rows, ulCount, ulFirstTime, ulLastTime>>

\* The first half of FTDM_EP_addData: under a limit by count, the last rows go.
MakeRoom ==
    IF xLimit # NoLimit /\ ulCount >= xLimit
    THEN Evict /\ ulCount' = (ulCount - Excess) % Width
    ELSE UNCHANGED <<rows, ulCount, ulFirstTime, ulLastTime>>

AddData(t) ==
    /\ pc = "idle" /\ Cardinality(log) < MaxSamples
    /\ MakeRoom
    /\ pc' = "insert" /\ pData' = t
    /\ UNCHANGED <<xStored, xLimit, log, changes, forgot>>

\* The delete failed, or the times could not be read after it: the sample is
\* added all the same.
AddDataNoRoom(t) ==
    /\ pc = "idle" /\ Cardinality(log) < MaxSamples
    /\ xLimit # NoLimit /\ ulCount >= xLimit
    /\ Disturb
    /\ \/ UNCHANGED <<rows, ulCount>>
       \/ /\ DeleteEPData(ulCount - Excess, Excess)
          /\ ulCount' = (ulCount - Excess) % Width
    /\ pc' = "insert" /\ pData' = t
    /\ UNCHANGED <<xStored, xLimit, ulFirstTime, ulLastTime, log, forgot>>

\* Fault: a sample moves the newest time only.
InsertNewest ==
    /\ pc = "insert"
    /\ LET new == [id |-> Cardinality(log) + 1, ulTime |-> pData]
       IN rows' = rows \cup {new} /\ log' = log \cup {new}
    /\ ulCount' = (ulCount + 1) % Width
    /\ ulLastTime' = IF ulLastTime < pData THEN pData ELSE ulLastTime
    /\ ulFirstTime' = IF ulFirstTime = 0 THEN pData ELSE ulFirstTime
    /\ pc' = "idle" /\ pData' = 0
    /\ UNCHANGED <<xStored, xLimit, changes, forgot>>

\* Its second half.  The range is widened to the new sample.
Insert ==
    /\ pc = "insert"
    /\ LET new == [id |-> Cardinality(log) + 1, ulTime |-> pData]
       IN rows' = rows \cup {new} /\ log' = log \cup {new}
    /\ ulCount' = (ulCount + 1) % Width
    /\ ulLastTime' = IF ulLastTime = 0 \/ ulLastTime < pData THEN pData ELSE ulLastTime
    /\ ulFirstTime' = IF ulFirstTime = 0 \/ ulFirstTime > pData THEN pData ELSE ulFirstTime
    /\ pc' = "idle" /\ pData' = 0
    /\ UNCHANGED <<xStored, xLimit, changes, forgot>>

\* The insert failed: the error goes back to the client, the room stays free.
InsertFails ==
    /\ pc = "insert" /\ Disturb
    /\ pc' = "idle" /\ pData' = 0
    /\ UNCHANGED <<rows, xStored, memory, log, forgot>>

-------------------------------------------------------------------------------
(* The other requests.                                                        *)

\* What the object knows after rows were deleted for a client.  The times were
\* read before the delete, too, into the same variables.
Recount ==
    /\ ReadInfo(rows', IF rows = {} THEN Garbage
                       ELSE {t \in Times(rows) : Oldest(t, rows) \/ Newest(t, rows)})
    /\ rows' = {} /\ rows # {} => Oldest(ulFirstTime', rows) /\ Newest(ulLastTime', rows)
    /\ ulCount' = Cardinality(rows')

\* FTDM_EP_deleteData and FTDM_EP_deleteDataWithTime.
DeleteData(index, count) ==
    /\ pc = "idle" /\ log # {}
    /\ DeleteEPData(index, count)
    /\ Recount
    /\ UNCHANGED <<xStored, xLimit, pc, pData, log, changes, forgot>>

DeleteDataWithTime(begin, end) ==
    /\ pc = "idle" /\ log # {}
    /\ DeleteWithTime(begin, end)
    /\ Recount
    /\ UNCHANGED <<xStored, xLimit, pc, pData, log, changes, forgot>>

\* FTDM_EP_setDataLimit: only the limit in memory changes, and neither the
\* count nor the times are read again.  A delete that fails is ignored.
SetDataLimit(limit) ==
    /\ pc = "idle" /\ limit # xLimit /\ Disturb
    /\ xLimit' = limit
    /\ \/ UNCHANGED rows
       \/ /\ limit # NoLimit /\ limit < Cardinality(rows)
          /\ DeleteEPData(limit, Cardinality(rows) - limit)
       \* by time: the rows between the ends
       \/ limit = NoLimit /\ \E b, e \in Garbage : DeleteWithTime(b, e)
       \* by hours: from the newest row up to so many hours ago
       \/ limit = NoLimit /\ \E l, e \in Stamps : Newest(l, rows) /\ DeleteWithTime(l, e)
    /\ UNCHANGED <<xStored, ulCount, ulFirstTime, ulLastTime, pc, pData, log, forgot>>

\* FTDM_EP_setInfo and FTDM_EP_setFields: the limit in memory and, unless the
\* update fails, in ep_info.  No row is deleted.
SetFields(limit) ==
    /\ pc = "idle" /\ Disturb
    /\ xLimit' = limit
    /\ xStored' \in {xStored, limit}
    /\ UNCHANGED <<rows, ulCount, ulFirstTime, ulLastTime, pc, pData, log, forgot>>

\* The process ends, anywhere, and FTDM_EP_create finds the endpoint in the
\* database when it is back.
Restart ==
    /\ log # {}
    /\ xLimit' = xStored
    /\ ulCount' = Cardinality(rows)
    /\ ReadInfo(rows, Garbage)
    /\ pc' = "idle" /\ pData' = 0
    /\ forgot' = FALSE
    /\ UNCHANGED <<rows, xStored, log, changes>>

\* The same, but the range or the count could not be read: it stays 0, and the
\* endpoint is served all the same.
RestartUnread ==
    /\ log # {} /\ Disturb
    /\ xLimit' = xStored
    /\ ulCount' \in {0, Cardinality(rows)}
    /\ \/ ReadInfo(rows, Garbage) /\ forgot' = FALSE
       \/ ulFirstTime' = 0 /\ ulLastTime' = 0 /\ forgot' = (rows # {})
    /\ pc' = "idle" /\ pData' = 0
    /\ UNCHANGED <<rows, xStored, log>>

\* FTDM_deleteEP and FTDM_createEP: the row in ep_info goes and comes back, the
\* table of samples stays, and the new object does not look at it.
Recreate(limit) ==
    /\ pc = "idle" /\ rows # {} /\ Disturb
    /\ xLimit' = limit /\ xStored' = limit
    /\ ulCount' = 0 /\ ulFirstTime' = 0 /\ ulLastTime' = 0
    /\ forgot' = TRUE
    /\ UNCHANGED <<rows, pc, pData, log>>

Next ==
    \/ \E t \in Stamps : AddData(t) \/ AddDataNoRoom(t)
    \/ Insert \/ InsertFails \/ Restart \/ RestartUnread
    \/ \E i \in -1..(MaxSamples - 1), n \in 1..(MaxSamples - 1) : DeleteData(i, n)
    \/ \E b, e \in Garbage : DeleteDataWithTime(b, e)
    \/ \E l \in Limits \cup {NoLimit} : SetDataLimit(l) \/ SetFields(l) \/ Recreate(l)

Spec == Init /\ [][Next]_vars

-------------------------------------------------------------------------------
\* The range FTDM_EP_getDataInfo reports covers every row, through failed calls,
\* restarts and limit changes, however wrong its ends may be once the table was
\* empty.  It fails only for an object that was made without a look at an old
\* table: created over it, or started when its range could not be read.
RangeCovers ==
    ~forgot => \A t \in Times(rows) : ulFirstTime <= t /\ t <= ulLastTime

\* Making room never touches the newest samples: whatever the count was, a row
\* that goes has at least a limit's worth of rows that are as new as it is.
NewestKept ==
    [][pc = "idle" /\ pc' = "insert" =>
         \A r \in rows \ rows' :
            Cardinality({q \in rows : q.ulTime >= r.ulTime}) >= xLimit]_vars

\* As long as the limit stays, no call fails and no two samples share a second, the count is right
\* between requests, across restarts, deletes and samples that come in any order, so
\* that no room is made that is not needed.
CountExact ==
    /\ changes = 0 /\ pc = "idle" /\ xLimit > 0
    /\ \A a, b \in log : a.ulTime = b.ulTime => a = b
    => ulCount = Cardinality(rows)
===============================================================================
