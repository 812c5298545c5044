----------------------------- MODULE Collector -----------------------------
(***************************************************************************)
(* internal/collector/group_collector.go: how one collection group turns   *)
(* Zabbix history into cached values.  Each batch of the group has a       *)
(* watermark; a collection asks for the window from a little before the    *)
(* watermark, splits a batch whose answer may be truncated, applies what   *)
(* it can and advances the watermark only when every part succeeded.       *)
(*                                                                         *)
(* Around it, as far as it touches it: Zabbix, where points may arrive     *)
(* after their clock and need not be numbers (external); the metadata      *)
(* loop, which redefines, disables, removes and adds items and drops       *)
(* watermarks (RetainGroups).  An expired value stays here: what a         *)
(* collection does about an item depends on its points and its definition, *)
(* and ValueCache has the expiry loop.                                     *)
(*                                                                         *)
(* An answer and its application are one step.  A snapshot swapped between *)
(* them has the effect of one swapped before both, since the answer does   *)
(* not depend on it; ValueCache takes ApplyBatch apart.  A batch is        *)
(* identified by its members, as batchID does with a hash of them.         *)
(***************************************************************************)
EXTENDS ValueState, FiniteSets, SequencesExt

CONSTANTS
    Items,           \* item IDs, numbers: a batch is cut from them in order
    NotANumber,      \* the points (item, clock) whose value is no finite number
    Delay,           \* the group's delay
    BatchSize,       \* scheduler.history_batch_size
    HistoryLimit,    \* HistoryConfig.Limit
    MaxSplitDepth,   \* HistoryConfig.MaxSplitDepth
    OverlapMin,      \* HistoryConfig.OverlapMin
    OverlapMax,      \* HistoryConfig.OverlapMax
    MinBootstrap,    \* five minutes in bootstrapWindow
    MissThreshold,   \* cache.miss_threshold
    MaxMisses,       \* where ConsecutiveMisses saturates (MaxUint32)
    ClockSteps,      \* how far the clock behind a task's till may be back
    Absent,          \* no value, no watermark
    MaxTime,         \* bound: the model's last instant
    MaxPoints,       \* bound: history points
    MaxSnapshots,    \* bound: snapshots published
    MaxChanged       \* bound: items a snapshot changes

ASSUME CollectorAssumption ==
    /\ Items \subseteq Nat /\ IsFiniteSet(Items)
    /\ NotANumber \subseteq Items \X Nat
    /\ Delay \in Nat \ {0} /\ BatchSize \in Nat \ {0}
    /\ HistoryLimit \in Nat \ {0} /\ MaxSplitDepth \in Nat \ {0}
    /\ OverlapMin \in Nat /\ OverlapMax \in Nat /\ OverlapMin <= OverlapMax
    /\ MinBootstrap \in Nat /\ MinShortTTL <= MinBootstrap
    /\ MissThreshold \in Nat \ {0} /\ MaxMisses \in Nat
    /\ ClockSteps \subseteq Nat
    /\ Absent \notin Nat
    /\ MaxTime \in Nat /\ MaxPoints \in Nat /\ MaxSnapshots \in Nat /\ MaxChanged \in Nat

VARIABLES
    now,
    history,    \* the points Zabbix has
    snapshot,   \* Version of the published snapshot
    version,    \* Version of each of its items, 0 for none
    disabled,   \* those of its items that are not enabled
    obsolete,   \* items the metadata loop has yet to delete from the cache
    groups,     \* the items of the group the scheduler works with
    watermark,  \* states: lastQueryTill of each batch
    values,     \* the value cache
    task,       \* locals of CollectGroup, collectBatch and query
    given_up    \* history: the newest clock of each item that was given up

vars == <<now, history, snapshot, version, disabled, obsolete, groups, watermark,
          values, task, given_up>>

metadata == <<snapshot, version, disabled, obsolete, groups>>

Point == [item : Items, clock : Nat, late : BOOLEAN]

Value == [clock : Nat, version : Nat, misses : Nat, valid : BOOLEAN]

ASSUME AbsentAssumption == Absent \notin Value

Segment == [items : SUBSET Items, depth : Nat]

IdleTask ==
    [running |-> FALSE, till |-> 0, batches |-> <<>>, batch |-> {}, from |-> 0,
     snap |-> [i \in Items |-> 0], orphan |-> FALSE, stack |-> <<>>,
     complete |-> TRUE, misses |-> {}, had |-> {}]

Init ==
    /\ now = 0
    /\ history = {}
    /\ snapshot = 1
    /\ version = [i \in Items |-> 1]
    /\ disabled = {}
    /\ obsolete = {}
    /\ groups = Items
    /\ watermark = [b \in SUBSET Items |-> Absent]
    /\ values = [i \in Items |-> Absent]
    /\ task = IdleTask
    /\ given_up = [i \in Items |-> -1]

-----------------------------------------------------------------------------
(* Windows, limits and batches.                                            *)

\* A fifth of the delay, between the configured minimum and maximum.
overlapForDelay ==
    LET least == AtLeast(Delay \div 5, OverlapMin)
    IN IF least > OverlapMax THEN OverlapMax ELSE least

\* The first window of a batch reaches back as far as a value can be alive.
bootstrapWindow ==
    IF PublishPolicyForDelay(Delay) = "source" THEN AtLeast(2 * Delay, MinBootstrap)
    ELSE 2 * Delay + Grace(Delay)

\* Windows start before time began only while the model is young.
Back(time, window) == IF window > time THEN 0 ELSE time - window

CeilDiv(a, b) == (a + b - 1) \div b

\* Regular points in a window, both ends included, and one to spare.
ExpectedPerItem(window) == CeilDiv(window, Delay) + 2

queryLimit(window, n) ==
    LET expected == ExpectedPerItem(window)
    IN IF expected >= HistoryLimit \/ expected > HistoryLimit \div n
       THEN HistoryLimit ELSE expected * n

Rank(i, S) == Cardinality({j \in S : j <= i})

\* GroupBuilder.Build: the sorted items in chunks.
BatchesOf(S) ==
    [k \in 1 .. CeilDiv(Cardinality(S), BatchSize) |->
        {i \in S : CeilDiv(Rank(i, S), BatchSize) = k}]

LeftHalf(S)  == {i \in S : Rank(i, S) <= Cardinality(S) \div 2}
RightHalf(S) == {i \in S : Rank(i, S) > Cardinality(S) \div 2}

-----------------------------------------------------------------------------
(* Zabbix and time.                                                        *)

Tick ==
    /\ now < MaxTime
    /\ now' = now + 1
    /\ UNCHANGED <<history, metadata, watermark, values, task, given_up>>

\* A point becomes visible at or after its clock.  A late one is so late that the
\* overlap, whose purpose is to catch stragglers, cannot be expected to.
Arrive(i, clock) ==
    /\ clock <= now
    /\ Cardinality(history) < MaxPoints
    /\ \A p \in history : p.item = i => p.clock # clock
    /\ history' = history \cup {[item |-> i, clock |-> clock,
                                 late |-> now - clock > overlapForDelay]}
    /\ UNCHANGED <<now, metadata, watermark, values, task, given_up>>

\* history.get: the newest points up to the limit, newest first.
Newest(points, limit) ==
    LET Before(p, q) == p.clock > q.clock \/ (p.clock = q.clock /\ p.item <= q.item)
    IN {q \in points : Cardinality({p \in points : Before(p, q)}) <= limit}

-----------------------------------------------------------------------------
(* The metadata loop.                                                      *)

\* The items that are to be collected: the group is built from them.
Enabled == {i \in Items : version[i] # 0} \ disabled

\* A new snapshot with these items is swapped in, some of them redefined or disabled
\* or enabled again, which is a redefinition too.  One without a difference changes
\* nothing here.  Of a disabled item the old value is left to expire.
Publish(next, redefined, off) ==
    /\ snapshot < MaxSnapshots
    /\ groups = Enabled
    /\ obsolete = {}
    /\ off \subseteq next
    /\ snapshot' = snapshot + 1
    /\ version' = [i \in Items |->
                     IF i \notin next THEN 0
                     ELSE IF version[i] = 0 \/ i \in redefined \/ (i \in disabled) # (i \in off)
                          THEN snapshot + 1 ELSE version[i]]
    /\ disabled' = off
    /\ obsolete' = {i \in Items \ off : version[i] # 0 /\ version'[i] # version[i]}
    /\ Cardinality({i \in Items : version'[i] # version[i]}) \in 1 .. MaxChanged
    /\ UNCHANGED <<now, history, groups, watermark, values, task, given_up>>

Batches(S) == ToSet(BatchesOf(S))

\* The clock of the cached value is given up, if it is newer than what was before.
GivenUp(i) == IF values[i] = Absent THEN given_up[i] ELSE AtLeast(values[i].clock, given_up[i])

\* applyMetadata after the swap: the obsolete values are deleted, the group is
\* rebuilt, and RetainGroups drops the watermark of every batch that is gone.  A
\* collection that holds a dropped watermark's record writes into the void.  The
\* watermark of a batch with the same members stays, though its items may just have
\* lost their values.
Reconcile ==
    LET kept == Enabled
    IN /\ kept # groups \/ obsolete # {}
       /\ values' = [i \in Items |-> IF i \in obsolete THEN Absent ELSE values[i]]
       /\ given_up' = [i \in Items |-> IF i \in obsolete THEN GivenUp(i) ELSE given_up[i]]
       /\ obsolete' = {}
       /\ groups' = kept
       /\ watermark' = [b \in SUBSET Items |->
                          IF b \in Batches(kept) THEN watermark[b] ELSE Absent]
       /\ task' = [task EXCEPT !.orphan = @ \/ task.batch \notin Batches(kept) \cup {{}}]
       /\ UNCHANGED <<now, history, snapshot, version, disabled>>

-----------------------------------------------------------------------------
(* A collection.                                                           *)

\* A worker takes the group's task; how often is the business of Scheduler, where a
\* failed batch makes the whole group run again after seconds.  The window ends when
\* it is taken, by a wall clock that may have stepped back.
CollectGroup(step) ==
    /\ ~task.running
    /\ groups # {}
    /\ task' = [IdleTask EXCEPT !.running = TRUE, !.till = Back(now, step),
                                !.batches = BatchesOf(groups)]
    /\ UNCHANGED <<now, history, metadata, watermark, values, given_up>>

\* Locals of collectBatch that are not read again are reset.
Closed(t) == [IdleTask EXCEPT !.running = TRUE, !.till = t.till, !.batches = t.batches]

NextBatch == task.running /\ task.batch = {} /\ task.batches # <<>>

TimeFrom(mark, till) ==
    IF mark = Absent THEN Back(till, bootstrapWindow) ELSE Back(mark, overlapForDelay)

\* Mutant: a window that ends before the watermark is not refused.
MayBegin_Always(mark) == TRUE

MayBegin(mark) == IF mark = Absent THEN TRUE ELSE mark <= task.till

\* collectBatch up to the first query: window and snapshot are fixed.
BeginBatch ==
    LET batch == Head(task.batches)
        mark  == watermark[batch]
        from  == TimeFrom(mark, task.till)
    IN /\ NextBatch
       /\ MayBegin(mark)
       /\ task' = [task EXCEPT
             !.batches = Tail(@), !.batch = batch, !.from = from, !.snap = version,
             !.stack = <<[items |-> batch, depth |-> 0]>>,
             !.had = {p.item : p \in {q \in history : from <= q.clock /\ q.clock <= task.till}}]
       /\ UNCHANGED <<now, history, metadata, watermark, values, given_up>>

\* The window would end before the watermark: an error, nothing is asked.
RefuseBatch ==
    /\ NextBatch
    /\ ~MayBegin(watermark[Head(task.batches)])
    /\ task' = [task EXCEPT !.batches = Tail(@)]
    /\ UNCHANGED <<now, history, metadata, watermark, values, given_up>>

Asking == task.stack # <<>>

Asked == Head(task.stack).items

Limit == queryLimit(task.till - task.from, Cardinality(Asked))

Answer ==
    Newest({p \in history : p.item \in Asked /\ task.from <= p.clock
                                             /\ p.clock <= task.till}, Limit)

\* Mutant: a full answer counts as complete.
Truncated_MoreThanLimit == Cardinality(Answer) > Limit

\* An answer that fills its limit may have been cut.
Truncated == Cardinality(Answer) >= Limit

MayBeSplit == Cardinality(Asked) >= 2 /\ Head(task.stack).depth < MaxSplitDepth

\* query, truncated: the halves are asked one after the other.
Split ==
    /\ Asking /\ Truncated /\ MayBeSplit
    /\ LET half(S) == [items |-> S, depth |-> Head(task.stack).depth + 1]
       IN task' = [task EXCEPT
            !.stack = <<half(LeftHalf(Asked)), half(RightHalf(Asked))>> \o Tail(@)]
    /\ UNCHANGED <<now, history, metadata, watermark, values, given_up>>

\* mergeSplit: one part without success makes the whole incomplete.
Incomplete(t) == [t EXCEPT !.complete = FALSE]

\* An API error, a timeout, a cancelled context, or truncated beyond help.
Fail ==
    /\ Asking
    /\ task' = [Incomplete(task) EXCEPT !.stack = Tail(@)]
    /\ UNCHANGED <<now, history, metadata, watermark, values, given_up>>

LatestClock(i) ==
    CHOOSE c \in {p.clock : p \in Answer} :
        /\ \E p \in Answer : p.item = i /\ p.clock = c
        /\ \A p \in Answer : p.item = i => p.clock <= c

Returned == {p.item : p \in Answer}

\* Mutant: an attempt with stale items counts as successful.
Stale_Never == FALSE

Stale == \E i \in Asked : task.snap[i] = 0 \/ task.snap[i] # version[i]

\* filterExpiredLatest: the answered items whose latest point is still alive.
Alive == {i \in Returned : ValueExpireAt(LatestClock(i), Delay) > task.till}

\* ApplyBatch writes what has a current definition, that of an enabled item, and is a
\* number.  (Who is disabled now was so in the snapshot of an item that is current.)
Current(i) == task.snap[i] # 0 /\ task.snap[i] = version[i]

Writable ==
    {i \in Alive : Current(i) /\ i \notin disabled /\ <<i, LatestClock(i)>> \notin NotANumber}

\* Skipped and rejected records: not written, no miss, and no reason to ask again.
Dropped == {i \in Alive : Current(i)} \ Writable

\* ApplyBatch of one record.
Applied(i, clock) ==
    IF values[i] # Absent /\ values[i].version = version[i]
                          /\ ~sourceIsNewer(clock, values[i])
    THEN values[i]
    ELSE [clock |-> clock, version |-> version[i], misses |-> 0, valid |-> TRUE]

\* A complete answer is applied.  Anything stale makes the attempt incomplete and
\* suppresses its misses, but what is current has been written.  Given up are the
\* value of an old definition that is replaced and, unless the attempt is repeated,
\* what was dropped.
Apply ==
    /\ Asking /\ ~Truncated
    /\ values' = [i \in Items |-> IF i \in Writable THEN Applied(i, LatestClock(i))
                                  ELSE values[i]]
    /\ given_up' = [i \in Items |->
          IF i \in Dropped /\ ~Stale THEN AtLeast(LatestClock(i), given_up[i])
          ELSE IF i \in Writable /\ values[i] # Absent /\ values[i].version # version[i]
               THEN GivenUp(i) ELSE given_up[i]]
    /\ LET after == IF Stale THEN Incomplete(task) ELSE task
       IN task' = [after EXCEPT
                     !.stack = Tail(@),
                     !.misses = IF Stale THEN @ ELSE @ \cup (Asked \ Returned)]
    /\ UNCHANGED <<now, history, metadata, watermark>>

\* MarkMiss of one item: the cache's counter, whatever answers lay in between.
Missed(v) ==
    LET misses  == IF v.misses < MaxMisses THEN v.misses + 1 ELSE v.misses
        overdue == now > missInvalidAfter(v.clock, Delay)
    IN [v EXCEPT !.misses = misses,
                 !.valid  = @ /\ ~(misses >= MissThreshold /\ overdue)]

\* collectBatch after the last part: only a complete attempt marks its misses and
\* moves the watermark, if its record is still the one in use.
FinishBatch ==
    /\ task.batch # {} /\ ~Asking
    /\ IF task.complete
       THEN /\ values' = [i \in Items |->
                            IF i \in task.misses /\ values[i] # Absent
                            THEN Missed(values[i]) ELSE values[i]]
            /\ watermark' = [watermark EXCEPT ![task.batch] =
                               IF task.orphan THEN @ ELSE task.till]
       ELSE UNCHANGED <<values, watermark>>
    /\ task' = Closed(task)
    /\ UNCHANGED <<now, history, metadata, given_up>>

EndGroup ==
    /\ task.running /\ task.batch = {} /\ task.batches = <<>>
    /\ task' = IdleTask
    /\ UNCHANGED <<now, history, metadata, watermark, values, given_up>>

-----------------------------------------------------------------------------
Collect ==
    \/ \E step \in ClockSteps : CollectGroup(step)
    \/ BeginBatch \/ RefuseBatch
    \/ Split \/ Fail \/ Apply
    \/ FinishBatch \/ EndGroup

Next ==
    \/ Tick
    \/ \E i \in Items, clock \in 0 .. MaxTime : Arrive(i, clock)
    \/ \E next, redefined, off \in SUBSET Items : Publish(next, redefined, off)
    \/ Reconcile
    \/ Collect

Spec == Init /\ [][Next]_vars

-----------------------------------------------------------------------------
(* Properties.                                                             *)

TypeOK ==
    /\ now \in Nat
    /\ history \subseteq Point
    /\ version \in [Items -> 0 .. snapshot]
    /\ disabled \subseteq Items /\ obsolete \subseteq Items /\ groups \subseteq Items
    /\ watermark \in [SUBSET Items -> Nat \cup {Absent}]
    /\ values \in [Items -> Value \cup {Absent}]
    /\ task.running \in BOOLEAN /\ task.complete \in BOOLEAN
    /\ task.till <= now /\ task.from <= task.till
    /\ task.stack \in Seq(Segment) /\ task.batches \in Seq(SUBSET Items)
    /\ task.misses \subseteq task.batch
    /\ given_up \in [Items -> Nat \cup {-1}]

\* No gap between windows: a point that Zabbix had no later than the overlap allows
\* is now in the cache or superseded there, has expired, or lies in the window the
\* batch will ask for next - through failed, truncated, split, stale and refused
\* attempts, dropped watermarks and regrouped items ("an overlapping query window
\* reduces the chance of losing samples at time boundaries").  Three kinds of points
\* the code gives up, and no other: those not newer than a value that was deleted or
\* replaced because its item was redefined, while the batch kept its watermark; those
\* not newer than a point that is no number; those of an item that was disabled.
NoGap ==
    \A b \in Batches(groups) : watermark[b] # Absent =>
        \A p \in history :
            p.item \in b /\ ~p.late =>
                \/ values[p.item] # Absent /\ p.clock <= values[p.item].clock
                \/ p.clock <= given_up[p.item]
                \/ p.clock >= Back(watermark[b], overlapForDelay)
                \/ ValueExpireAt(p.clock, Delay) <= now

\* A miss is counted only against an item of which Zabbix had no point in the
\* window when the attempt began: errors, truncation and half-failed splits never
\* count as "no point".
MissesHonest ==
    [][\A i \in Items :
          /\ values[i] # Absent /\ values'[i] # Absent
          /\ values'[i].misses > values[i].misses
          => i \notin task.had]_vars
=============================================================================
