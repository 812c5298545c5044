----------------------------- MODULE ValueCache -----------------------------
(***************************************************************************)
(* internal/cache/value_cache.go together with the three loops that write  *)
(* it concurrently:                                                        *)
(*                                                                         *)
(*   - the metadata loop (pipeline/scheduled.go applyMetadata): swaps the  *)
(*     snapshot, then deletes what the new definitions made obsolete, then *)
(*     hands the scheduler the new groups;                                 *)
(*   - the collection workers (collector/group_collector.go collectBatch): *)
(*     capture a snapshot, query Zabbix, ApplyBatch, then MarkMiss;        *)
(*   - the expiry loop (cache/expiry_wheel.go ExpireDue): takes due wheel  *)
(*     entries, then DeleteVersioned without holding the wheel's mutex.    *)
(*                                                                         *)
(* Every item is given a shard of its own: two items of one shard are      *)
(* written in one critical section by the code, so one lock per item       *)
(* allows every interleaving of the code's locks and more.  A group of the *)
(* model is one host's items of one delay, in one batch.                   *)
(***************************************************************************)
EXTENDS ValueState, MetadataStore

CONSTANTS
    Collectors,      \* the scheduler's collection workers
    NoCollector,     \* an unlocked shard
    MissThreshold,   \* scheduler.miss_threshold
    MaxMisses,       \* where ConsecutiveMisses saturates (MaxUint32)
    Clocks,          \* the source timestamps Zabbix reports
    NoRecord,        \* the query returned no history for the item
    BadRecord,       \* it returned a value or ns that ApplyBatch rejects
    MaxTime,         \* bound: the model's last instant
    MaxSnapshots,    \* bound: complete metadata refreshes
    MaxVersions      \* bound: versions handed out when the last query starts

ASSUME CacheAssumption ==
    /\ NoCollector \notin Collectors
    /\ MissThreshold \in Nat /\ MaxMisses \in Nat
    /\ Clocks \subseteq Nat
    /\ NoRecord \notin Clocks /\ BadRecord \notin Clocks /\ NoRecord # BadRecord
    /\ MaxTime \in Nat /\ MaxSnapshots \in Nat /\ MaxVersions \in Nat

VARIABLES
    now,              \* wall clock
    snapshot,         \* Store.snapshot, the published metadata
    reconcile,        \* the metadata loop between the swap and the new groups
    groups,           \* the items the scheduler's groups were built from
    values,           \* shard.values: the cached ValueState of each item
    lock,             \* shard.mu: the collector that holds it, if any
    nextValueVersion, \* ValueCache.nextValueVersion, one counter for all items
    collector,        \* each worker's collectBatch / ApplyBatch locals
    wheel,            \* ExpiryWheel: registered, not yet due or not yet taken
    expiring          \* candidates ExpireDue took and has not yet deleted

vars == <<now, snapshot, reconcile, groups, values, lock, nextValueVersion,
          collector, wheel, expiring>>

Delays == {d.delay : d \in Definitions}

ValueEntry ==
    [clock : Nat, delay : Nat, expireAt : Nat, misses : Nat,
     metadataVersion : Nat, valueVersion : Nat, valid : BOOLEAN]

ASSUME NoValueAssumption == Absent \notin ValueEntry

ExpiryEntry == [item : Items, valueVersion : Nat, expireAt : Nat]

Collector ==
    [pc : {"idle", "dispatched", "querying", "applying", "missing"},
     delay : Nat, query : SUBSET Items, till : Nat, fetchedAt : Nat,
     snap : [Items -> ItemMetadata \cup {Absent}],
     points : [Items -> Clocks \cup {NoRecord, BadRecord}],
     pending : SUBSET Items, stale : BOOLEAN,
     expiry : SUBSET ExpiryEntry, misses : SUBSET Items]

IdleCollector ==
    [pc |-> "idle", delay |-> 0, query |-> {}, till |-> 0, fetchedAt |-> 0,
     snap |-> [i \in Items |-> Absent], points |-> [i \in Items |-> NoRecord],
     pending |-> {}, stale |-> FALSE, expiry |-> {}, misses |-> {}]

Init ==
    /\ now = 0
    /\ snapshot = EmptySnapshot
    /\ reconcile = [busy |-> FALSE, removed |-> {}, changed |-> {}]
    /\ groups = EmptySnapshot.items
    /\ values = [i \in Items |-> Absent]
    /\ lock = [i \in Items |-> NoCollector]
    /\ nextValueVersion = 0
    /\ collector = [c \in Collectors |-> IdleCollector]
    /\ wheel = {}
    /\ expiring = {}

Tick ==
    /\ now < MaxTime
    /\ now' = now + 1
    /\ UNCHANGED <<snapshot, reconcile, groups, values, lock, nextValueVersion,
                   collector, wheel, expiring>>

-----------------------------------------------------------------------------
(* The metadata loop.                                                      *)

\* applyMetadata keeps a changed item's value only while the item is disabled.
ChangedEnabled(old, new) ==
    {i \in ChangedItems(old, new) : new.items[i].def.enabled}

\* runMetadata: a complete refresh publishes a snapshot and returns its diff.
\* A refresh that fails changes nothing.
ApplySnapshot(next) ==
    /\ ~reconcile.busy
    /\ snapshot.version < MaxSnapshots
    /\ snapshot' = cloneSnapshot(next, snapshot)
    /\ reconcile' = [busy    |-> TRUE,
                     removed |-> RemovedItems(snapshot, snapshot'),
                     changed |-> ChangedEnabled(snapshot, snapshot')]
    /\ UNCHANGED <<now, groups, values, lock, nextValueVersion, collector,
                   wheel, expiring>>

\* ValueCache.Delete of one item, removed ones before changed ones.
ReconcileDelete(i) ==
    /\ \/ i \in reconcile.removed
       \/ reconcile.removed = {} /\ i \in reconcile.changed
    /\ lock[i] = NoCollector
    /\ values' = [values EXCEPT ![i] = Absent]
    /\ reconcile' = [reconcile EXCEPT
                       !.removed = @ \ {i},
                       !.changed = IF i \in reconcile.removed THEN @ ELSE @ \ {i}]
    /\ UNCHANGED <<now, snapshot, groups, lock, nextValueVersion, collector,
                   wheel, expiring>>

\* scheduler.ApplyMetadataDiff: rebuild the groups from the published snapshot.
ReplaceGroups ==
    /\ reconcile.busy /\ reconcile.removed = {} /\ reconcile.changed = {}
    /\ groups' = snapshot.items
    /\ reconcile' = [reconcile EXCEPT !.busy = FALSE]
    /\ UNCHANGED <<now, snapshot, values, lock, nextValueVersion, collector,
                   wheel, expiring>>

-----------------------------------------------------------------------------
(* Collection workers.                                                     *)

\* The batch of the group with this delay: enabled items only (Build).
GroupItems(delay) ==
    {i \in Items : groups[i] # Absent /\ groups[i].def.enabled
                                      /\ groups[i].def.delay = delay}

\* dispatchDue and runWorker: at most one task of a group is in flight.  The
\* earlier batches of a large group lie between this step, which fixes the end of
\* the query window, and the next one.
Dispatch(c, delay) ==
    /\ collector[c].pc = "idle"
    /\ GroupItems(delay) # {}
    /\ nextValueVersion < MaxVersions
    /\ \A d \in Collectors : collector[d].pc # "idle" => collector[d].delay # delay
    /\ collector' = [collector EXCEPT ![c] =
                       [@ EXCEPT !.pc = "dispatched", !.delay = delay,
                                 !.query = GroupItems(delay), !.till = now]]
    /\ UNCHANGED <<now, snapshot, reconcile, groups, values, lock,
                   nextValueVersion, wheel, expiring>>

\* collectBatch: the snapshot every part of this attempt is judged against.
CaptureSnapshot(c) ==
    /\ collector[c].pc = "dispatched"
    /\ collector' = [collector EXCEPT ![c].pc = "querying",
                                      ![c].snap = snapshot.items]
    /\ UNCHANGED <<now, snapshot, reconcile, groups, values, lock,
                   nextValueVersion, wheel, expiring>>

\* An API error, a timeout, a cancellation or a truncated answer that cannot
\* be split: nothing is applied and nothing is missed.
QueryFailed(c) ==
    /\ collector[c].pc = "querying"
    /\ collector' = [collector EXCEPT ![c] = IdleCollector]
    /\ UNCHANGED <<now, snapshot, reconcile, groups, values, lock,
                   nextValueVersion, wheel, expiring>>

\* Mutant: the check without the lock, a caller that trusts its own snapshot.
metadataVersionCurrent_Always(i, version) == snapshot.items[i] # Absent

metadataVersionCurrent(i, version) ==
    snapshot.items[i] # Absent /\ snapshot.items[i].version = version

\* filterExpiredLatest: the point would still be alive at the end of the window.
StillAlive(clock, delay, till) == ValueExpireAt(clock, delay) > till

\* ApplyBatch up to the first lock: the stale pre-check of the queried items,
\* the records worth writing, and the items the answer said nothing about.
\* Zabbix answers with any clock up to the end of the window.  Locals that are
\* not read again are reset.
Deliver(c, points) ==
    /\ collector[c].pc = "querying"
    /\ \A i \in Items : points[i] # NoRecord =>
         /\ i \in collector[c].query
         /\ points[i] # BadRecord => points[i] <= collector[c].till
    /\ LET self == collector[c]
           Stale(i) == \/ self.snap[i] = Absent
                       \/ ~metadataVersionCurrent(i, self.snap[i].version)
           Writable(i) == /\ points[i] \notin {NoRecord, BadRecord}
                          /\ StillAlive(points[i], self.delay, self.till)
                          /\ self.snap[i] # Absent
                          /\ self.snap[i].def.enabled
           writable == {i \in self.query : Writable(i)}
           missed   == {i \in self.query : points[i] = NoRecord}
       IN collector' = [collector EXCEPT ![c] =
            [IdleCollector EXCEPT
               !.pc        = "applying",
               !.delay     = self.delay,
               !.fetchedAt = IF missed = {} THEN 0 ELSE now,
               !.snap      = [i \in Items |-> IF i \in writable THEN self.snap[i] ELSE Absent],
               !.points    = [i \in Items |-> IF i \in writable THEN points[i] ELSE NoRecord],
               !.pending   = writable,
               !.stale     = \E i \in self.query : Stale(i),
               !.misses    = missed]]
    /\ UNCHANGED <<now, snapshot, reconcile, groups, values, lock,
                   nextValueVersion, wheel, expiring>>

\* The locked re-check of one record: the shard stays locked for the write, or
\* the record is dropped and the whole attempt is marked stale.
LockAndCheck(c, i) ==
    /\ collector[c].pc = "applying"
    /\ i \in collector[c].pending
    /\ \A j \in Items : lock[j] # c
    /\ lock[i] = NoCollector
    /\ IF metadataVersionCurrent(i, collector[c].snap[i].version)
       THEN /\ lock' = [lock EXCEPT ![i] = c]
            /\ UNCHANGED collector
       ELSE /\ collector' = [collector EXCEPT ![c].pending = @ \ {i},
                                              ![c].stale = TRUE]
            /\ UNCHANGED lock
    /\ UNCHANGED <<now, snapshot, reconcile, groups, values, nextValueVersion,
                   wheel, expiring>>

NewEntry(clock, item, version) ==
    [clock |-> clock, delay |-> item.def.delay,
     expireAt |-> ValueExpireAt(clock, item.def.delay), misses |-> 0,
     metadataVersion |-> item.version, valueVersion |-> version, valid |-> TRUE]

\* Mutant: the last fetch wins whatever its source clock.
Unchanged_Never(c, i) == values[i] # Absent /\ FALSE

\* A record that is not newer than a value of the same definition only
\* refreshes LastFetchAt.
Unchanged(c, i) ==
    /\ values[i] # Absent
    /\ values[i].metadataVersion = collector[c].snap[i].version
    /\ ~sourceIsNewer(collector[c].points[i], values[i])

\* Mutant: only a created entry is registered, an updated one is not.
NewExpiry_CreatedOnly(i, entry) ==
    {x \in {[item |-> i, valueVersion |-> entry.valueVersion,
             expireAt |-> entry.expireAt]} : values[i] = Absent}

\* The expiry entries one insertion adds.
NewExpiry(i, entry) ==
    {[item |-> i, valueVersion |-> entry.valueVersion, expireAt |-> entry.expireAt]}

\* Mutant: a counter kept in the entry, which starts again after a deletion.
NewVersion_PerEntry(i) ==
    IF values[i] = Absent THEN 1 ELSE values[i].valueVersion + 1

\* ValueVersion: one counter for the whole cache, never reused.
NewVersion(i) == nextValueVersion + 1

Unlocked(c, i) == [lock EXCEPT ![i] = NoCollector]

\* The body of the locked loop, and the unlock.
Write(c, i) ==
    /\ lock[i] = c
    /\ i \in collector[c].pending
    /\ lock' = Unlocked(c, i)
    /\ \/ /\ Unchanged(c, i)
          /\ collector' = [collector EXCEPT ![c].pending = @ \ {i}]
          /\ UNCHANGED <<values, nextValueVersion>>
       \/ /\ ~Unchanged(c, i)
          /\ LET entry == NewEntry(collector[c].points[i], collector[c].snap[i],
                                   NewVersion(i))
             IN /\ values' = [values EXCEPT ![i] = entry]
                /\ collector' = [collector EXCEPT
                                   ![c].pending = @ \ {i},
                                   ![c].expiry = @ \cup NewExpiry(i, entry)]
          /\ nextValueVersion' = nextValueVersion + 1
    /\ UNCHANGED <<now, snapshot, reconcile, groups, wheel, expiring>>

\* After the last shard: RegisterExpiry, then either the miss candidates of a
\* fully successful attempt or, when anything was stale, none of them.
RegisterExpiry(c) ==
    /\ collector[c].pc = "applying"
    /\ collector[c].pending = {}
    /\ wheel' = wheel \cup collector[c].expiry
    /\ LET self == collector[c]
       IN collector' = [collector EXCEPT ![c] =
            IF self.stale \/ self.misses = {} THEN IdleCollector
            ELSE [IdleCollector EXCEPT
                    !.pc = "missing", !.delay = self.delay,
                    !.fetchedAt = self.fetchedAt, !.misses = self.misses]]
    /\ UNCHANGED <<now, snapshot, reconcile, groups, values, lock,
                   nextValueVersion, expiring>>

\* Mutant: the age of the cached generation is not looked at.
Missed_AnyAge(entry, fetchedAt) ==
    [entry EXCEPT !.misses = @ + 1, !.valid = @ /\ entry.misses + 1 < MissThreshold]

\* What MarkMiss does to the generation it finds when it gets the lock.
Missed(entry, fetchedAt) ==
    LET misses  == IF entry.misses < MaxMisses THEN entry.misses + 1 ELSE entry.misses
        overdue == fetchedAt > missInvalidAfter(entry.clock, entry.delay)
    IN [entry EXCEPT !.misses = misses,
                     !.valid  = @ /\ ~(misses >= MissThreshold /\ overdue)]

MarkMiss(c, i) ==
    /\ collector[c].pc = "missing"
    /\ i \in collector[c].misses
    /\ lock[i] = NoCollector
    /\ values' = [values EXCEPT ![i] =
                    IF @ = Absent THEN @ ELSE Missed(@, collector[c].fetchedAt)]
    /\ LET self == collector[c]
       IN collector' = [collector EXCEPT ![c] =
            IF self.misses = {i} THEN IdleCollector
            ELSE [self EXCEPT !.misses = self.misses \ {i}]]
    /\ UNCHANGED <<now, snapshot, reconcile, groups, lock, nextValueVersion,
                   wheel, expiring>>

-----------------------------------------------------------------------------
(* The expiry loop.  Which due entries one round takes, and in which order *)
(* and batches, is ExpiryWheel's business; here it takes any of them.      *)

Due(x) == x.expireAt <= now

TakeDue(due) ==
    /\ expiring = {}
    /\ due # {}
    /\ due \subseteq {x \in wheel : Due(x)}
    /\ wheel' = wheel \ due
    /\ expiring' = due
    /\ UNCHANGED <<now, snapshot, reconcile, groups, values, lock,
                   nextValueVersion, collector>>

\* Mutant: the other version of the value is compared.
SameGeneration_Metadata(x) ==
    values[x.item] # Absent /\ values[x.item].metadataVersion = x.valueVersion

\* DeleteVersioned: only the generation the wheel entry was registered for.
SameGeneration(x) ==
    values[x.item] # Absent /\ values[x.item].valueVersion = x.valueVersion

DeleteVersioned(x) ==
    /\ x \in expiring
    /\ lock[x.item] = NoCollector
    /\ values' = IF SameGeneration(x) THEN [values EXCEPT ![x.item] = Absent]
                                      ELSE values
    /\ expiring' = expiring \ {x}
    /\ UNCHANGED <<now, snapshot, reconcile, groups, lock, nextValueVersion,
                   collector, wheel>>

-----------------------------------------------------------------------------
MetadataLoop ==
    \/ \E next \in [Items -> Definitions \cup {Absent}] : ApplySnapshot(next)
    \/ \E i \in Items : ReconcileDelete(i)
    \/ ReplaceGroups

Answers == [Items -> Clocks \cup {NoRecord, BadRecord}]

Collect(c) ==
    \/ \E delay \in Delays : Dispatch(c, delay)
    \/ CaptureSnapshot(c)
    \/ QueryFailed(c)
    \/ \E points \in Answers : Deliver(c, points)
    \/ \E i \in Items : LockAndCheck(c, i) \/ Write(c, i) \/ MarkMiss(c, i)
    \/ RegisterExpiry(c)

ExpiryLoop ==
    \/ \E due \in SUBSET wheel : TakeDue(due)
    \/ \E x \in expiring : DeleteVersioned(x)

Next ==
    \/ Tick
    \/ MetadataLoop
    \/ \E c \in Collectors : Collect(c)
    \/ ExpiryLoop

Spec == Init /\ [][Next]_vars

(***************************************************************************)
(* Fairness.  Go runs every goroutine that can run, a query ends at the    *)
(* latest with its timeout, and sync.RWMutex hands a shard to a waiter     *)
(* that has waited long enough, so a step that is enabled again and again  *)
(* (its lock is free again and again) is taken.                            *)
(***************************************************************************)
Fairness ==
    /\ WF_vars(Tick)
    /\ WF_vars(ReplaceGroups)
    /\ \A i \in Items : SF_vars(ReconcileDelete(i))
    /\ WF_vars(\E due \in SUBSET wheel : TakeDue(due))
    /\ SF_vars(\E x \in expiring : DeleteVersioned(x))
    /\ \A c \in Collectors :
         /\ WF_vars(CaptureSnapshot(c))
         /\ WF_vars(QueryFailed(c) \/ \E points \in Answers : Deliver(c, points))
         /\ WF_vars(RegisterExpiry(c))
         /\ \A i \in Items : /\ SF_vars(LockAndCheck(c, i))
                             /\ WF_vars(Write(c, i))
                             /\ SF_vars(MarkMiss(c, i))

FairSpec == Spec /\ Fairness

-----------------------------------------------------------------------------
(* Properties.                                                             *)

TypeOK ==
    /\ now \in Nat
    /\ snapshot \in MetadataSnapshot
    /\ reconcile \in [busy : BOOLEAN, removed : SUBSET Items, changed : SUBSET Items]
    /\ groups \in [Items -> ItemMetadata \cup {Absent}]
    /\ values \in [Items -> ValueEntry \cup {Absent}]
    /\ lock \in [Items -> Collectors \cup {NoCollector}]
    /\ nextValueVersion \in Nat
    /\ collector \in [Collectors -> Collector]
    /\ wheel \subseteq ExpiryEntry
    /\ expiring \subseteq ExpiryEntry

\* A value of metadata version v is legitimate for item i when v is the
\* published definition, when the metadata loop still has to delete i, or when
\* the item is disabled (its old value is kept until its TTL).
Legitimate(i, v) ==
    \/ snapshot.items[i] # Absent /\ snapshot.items[i].version = v
    \/ i \in reconcile.removed \cup reconcile.changed
    \/ snapshot.items[i] # Absent /\ ~snapshot.items[i].def.enabled

\* The metadata fence (metadataVersionCurrent's comment: "This closes both
\* orderings"): however a snapshot swap, its reconciliation deletes and the
\* collectors' check-then-write interleave, no value of an obsolete definition
\* stays in the cache once reconciliation is over, except a disabled item's.
MetadataFence ==
    \A i \in Items : values[i] # Absent => Legitimate(i, values[i].metadataVersion)

\* Every expiry entry that exists anywhere: in the wheel, taken by ExpireDue, or
\* collected by an ApplyBatch that has not called RegisterExpiry yet.
AllExpiry == wheel \cup expiring \cup UNION {collector[c].expiry : c \in Collectors}

ExpiryOf(i) ==
    [item |-> i, valueVersion |-> values[i].valueVersion, expireAt |-> values[i].expireAt]

\* No cached generation can leak: although RegisterExpiry runs after the shard
\* is unlocked and ExpireDue drops its entries before it deletes, each cached
\* generation always has the expiry entry, with its own TTL, that will remove it.
ExpiryCovered ==
    \A i \in Items : values[i] # Absent => ExpiryOf(i) \in AllExpiry

\* A value disappears only when its own hard TTL has passed or when the metadata
\* loop is deleting its item: a wheel entry of an earlier generation of the same
\* item (updated, or deleted and created again) never removes a younger one.
DeletedForCause ==
    [][\A i \in Items : values[i] # Absent /\ values'[i] = Absent =>
          \/ values[i].expireAt <= now
          \/ i \in reconcile.removed \cup reconcile.changed]_vars

\* Under one definition the source clock of a cached value never goes back and a
\* new ValueVersion means a strictly newer source point, whatever the order in
\* which two workers' answers for the item are applied.
SourceNeverRegresses ==
    [][\A i \in Items :
          /\ values[i] # Absent /\ values'[i] # Absent
          /\ values'[i].metadataVersion = values[i].metadataVersion
          /\ values'[i].valueVersion # values[i].valueVersion
          => values'[i].clock > values[i].clock]_vars

\* A miss is counted against the generation that is cached when MarkMiss gets the
\* lock, which may be younger than the query.  Even so a value is invalid only
\* when its own delay and grace have passed without a newer point.
InvalidOnlyWhenOverdue ==
    \A i \in Items :
        values[i] # Absent /\ ~values[i].valid =>
            now > missInvalidAfter(values[i].clock, values[i].delay)

\* The hard TTL is enforced: a value whose TTL has passed does not stay, even if
\* its expiry entry was registered late or belongs to a batch taken mid-update.
Expired(i) == values[i] # Absent /\ values[i].expireAt <= now

ExpiredEventuallyGone == \A i \in Items : Expired(i) ~> ~Expired(i)
=============================================================================
