----------------------------- MODULE ShardScan -----------------------------
(***************************************************************************)
(* A scrape of the value cache while it is being written:                  *)
(*                                                                         *)
(*   - internal/cache/shard.go: the scan order of a shard, its sequence    *)
(*     numbers, tombstones and compaction;                                 *)
(*   - value_cache.go ReadScrapePage: pages of a scan over all shards, the *)
(*     read lock of a shard held for one section of a page only;           *)
(*   - internal/prometheus/exporter/exporter.go Collect: page after page,  *)
(*     each value judged against the snapshot captured at the start.       *)
(*                                                                         *)
(* valueShard.order is a slice that only grows at its end, with numbers    *)
(* that only grow, and that compaction filters in place: it is sorted, and *)
(* is modelled as the set of its keys.  What makes a write or a deletion   *)
(* legitimate is the business of ValueCache.                               *)
(***************************************************************************)
EXTENDS ValueState, FiniteSets

CONSTANTS
    Items,
    NumShards,         \* ValueCacheConfig.ShardCount
    ShardOf,           \* shardIndex: the shard of each item
    Delay,             \* the configured delay of each item
    PageSize,          \* exporter.pageSize
    CompactThreshold,  \* 1024 in compactOrder
    QueryTime,         \* an answer is applied this long after its window's end
    Clocks,            \* the source timestamps Zabbix reports
    Absent,
    MaxTime,           \* bound: the model's last instant
    MaxSequence,       \* bound: insertions into each shard
    MaxSnapshots       \* bound: the last snapshot version

ASSUME ScanAssumption ==
    /\ IsFiniteSet(Items)
    /\ NumShards \in Nat \ {0}
    /\ ShardOf \in [Items -> 0 .. NumShards - 1]
    /\ Delay \in [Items -> Nat \ {0}]
    /\ PageSize \in Nat \ {0}
    /\ CompactThreshold \in Nat \ {0}
    /\ QueryTime \in Nat /\ Clocks \subseteq Nat
    /\ MaxSequence \in [0 .. NumShards - 1 -> Nat]
    /\ MaxTime \in Nat /\ MaxSnapshots \in Nat

VARIABLES
    now,
    snapshot,      \* version of the published snapshot
    definition,    \* Version of each of its items
    changed,       \* redefined items that applyMetadata has yet to delete
    values,        \* shard.values
    order,         \* shard.order
    nextSequence,  \* shard.nextSequence
    tombstones,    \* shard.tombstones
    scan,          \* locals of Collect and ReadScrapePage
    emitted,       \* the samples this scrape has produced
    steady         \* history: items that qualified at every moment of the scrape

vars == <<now, snapshot, definition, changed, values, order, nextSequence, tombstones,
          scan, emitted, steady>>

cache == <<values, order, nextSequence, tombstones>>

Shards == 0 .. NumShards - 1

ScanKey == [sequence : Nat, item : Items]

Entry == [sequence : Nat, clock : Nat, definition : Nat, valid : BOOLEAN]

ASSUME NoEntryAssumption == Absent \notin Entry

\* A sample carries the page that returned it: a key that two pages return is
\* two samples.
Sample == [page : Nat, item : Items, sequence : Nat, clock : Nat]

IdleScan == [running |-> FALSE, shard |-> 0, sequence |-> 0, count |-> 0,
             page |-> 0, timestamp |-> 0, snap |-> [i \in Items |-> 0]]

Init ==
    /\ now = 0
    /\ snapshot = 1
    /\ definition = [i \in Items |-> 1]
    /\ changed = {}
    /\ values = [i \in Items |-> Absent]
    /\ order = [h \in Shards |-> {}]
    /\ nextSequence = [h \in Shards |-> 0]
    /\ tombstones = [h \in Shards |-> 0]
    /\ scan = IdleScan
    /\ emitted = {}
    /\ steady = {}

ExpireAt(i) == ValueExpireAt(values[i].clock, Delay[i])

ItemsOf(h) == {i \in Items : ShardOf[i] = h}

\* A writer's step.  The samples of a scrape that is over are forgotten.
ScanUnmoved ==
    /\ UNCHANGED scan
    /\ emitted' = IF scan.running THEN emitted ELSE {}

Present(h) == {i \in ItemsOf(h) : values[i] # Absent}

-----------------------------------------------------------------------------
(* The writers.                                                            *)

Tick ==
    /\ now < MaxTime
    /\ now' = now + 1
    /\ UNCHANGED <<snapshot, definition, changed, cache>>
    /\ ScanUnmoved

\* A snapshot with another definition of the item is swapped in.
Redefine(i) ==
    /\ snapshot < MaxSnapshots
    /\ changed = {}
    /\ snapshot' = snapshot + 1
    /\ definition' = [definition EXCEPT ![i] = snapshot + 1]
    /\ changed' = {i}
    /\ UNCHANGED <<now, cache>>
    /\ ScanUnmoved

\* Mutant: an update of a cached item moves it to the end of the scan order.
SequenceFor_Fresh(i) == nextSequence[ShardOf[i]] + 1

\* insert: an item keeps its place in the scan order for as long as it is cached.
SequenceFor(i) ==
    IF values[i] # Absent THEN values[i].sequence ELSE nextSequence[ShardOf[i]] + 1

\* ApplyBatch, one record: the version check precedes the lock, so between a swap
\* and the deletion the previous definition may still be written.  A point is
\* rejected as expired at the end of its query's window, not at the write.
ApplyRecord(i, clock, version) ==
    LET h == ShardOf[i]
        s == SequenceFor(i)
    IN /\ version = definition[i] \/ (i \in changed /\ version < definition[i])
       /\ clock <= now
       /\ ValueExpireAt(clock, Delay[i]) > now - QueryTime
       /\ values[i] # Absent =>
            values[i].definition # version \/ sourceIsNewer(clock, values[i])
       /\ s <= MaxSequence[h]
       /\ values' = [values EXCEPT ![i] = [sequence |-> s, clock |-> clock,
                                           definition |-> version, valid |-> TRUE]]
       /\ order' = [order EXCEPT ![h] = @ \cup {[sequence |-> s, item |-> i]}]
       /\ nextSequence' = [nextSequence EXCEPT ![h] = IF s > @ THEN s ELSE @]
       /\ UNCHANGED <<now, snapshot, definition, changed, tombstones>>
       /\ ScanUnmoved

\* MarkMiss, when it invalidates.
Invalidate(i) ==
    /\ values[i] # Absent
    /\ values[i].valid
    /\ now > missInvalidAfter(values[i].clock, Delay[i])
    /\ values' = [values EXCEPT ![i].valid = FALSE]
    /\ UNCHANGED <<now, snapshot, definition, changed, order, nextSequence, tombstones>>
    /\ ScanUnmoved

\* Mutant: any key of a cached item survives, also that of an earlier life.
LiveKey_ByItem(vals, k) == vals[k.item] # Absent

\* A key whose item is cached and has not been deleted and created anew since.
LiveKey(vals, k) == vals[k.item] # Absent /\ vals[k.item].sequence = k.sequence

MustCompact(dead, keys) == dead >= CompactThreshold /\ 2 * dead >= keys

\* Mutant: the counter survives the compaction.
Compacted_Counted(dead) == dead

Compacted(dead) == 0

\* Delete and DeleteVersioned: the shard's part of a batch and one compactOrder,
\* in one critical section.
Remove(h, batch) ==
    LET gone == batch \cap Present(h)
        left == [i \in Items |-> IF i \in gone THEN Absent ELSE values[i]]
        dead == tombstones[h] + Cardinality(gone)
    IN /\ values' = left
       /\ IF MustCompact(dead, Cardinality(order[h]))
          THEN /\ order' = [order EXCEPT ![h] = {k \in @ : LiveKey(left, k)}]
               /\ tombstones' = [tombstones EXCEPT ![h] = Compacted(dead)]
          ELSE /\ tombstones' = [tombstones EXCEPT ![h] = dead]
               /\ UNCHANGED order
       /\ UNCHANGED nextSequence

\* applyMetadata deletes what the swap made obsolete, whatever is cached for it.
Delete(h) ==
    /\ changed \cap ItemsOf(h) # {}
    /\ Remove(h, changed \cap ItemsOf(h))
    /\ changed' = changed \ ItemsOf(h)
    /\ UNCHANGED <<now, snapshot, definition>>
    /\ ScanUnmoved

\* One deletion batch of ExpireDue.
DeleteVersioned(h, batch) ==
    /\ batch # {}
    /\ \A i \in batch : values[i] # Absent /\ ExpireAt(i) <= now
    /\ Remove(h, batch)
    /\ UNCHANGED <<now, snapshot, definition, changed>>
    /\ ScanUnmoved

-----------------------------------------------------------------------------
(* The scrape.                                                             *)

scrapeEligible(i, timestamp) ==
    /\ values[i].valid
    /\ timestamp < ExpireAt(i)
    /\ PublishPolicyForDelay(Delay[i]) = "cycle" => values[i].clock <= timestamp

\* Collect up to its first page: the snapshot and the scrape's time.
Collect ==
    /\ ~scan.running
    /\ scan' = [IdleScan EXCEPT !.running = TRUE, !.timestamp = now,
                                !.snap = definition]
    /\ emitted' = {}
    /\ UNCHANGED <<now, snapshot, definition, changed, cache>>

\* Mutant: the search finds the cursor's own key again.
AfterCursor_Inclusive(k) == k.sequence >= scan.sequence

\* firstSequenceAfter: keys behind the cursor.
AfterCursor(k) == k.sequence > scan.sequence

Readable ==
    {k \in order[scan.shard] : /\ AfterCursor(k)
                               /\ LiveKey(values, k)
                               /\ scrapeEligible(k.item, scan.timestamp)}

Room == PageSize - scan.count

\* The keys of a set in scan order, up to the room left in the page.
FirstOf(keys, room) ==
    {k \in keys : Cardinality({j \in keys : j.sequence <= k.sequence}) <= room}

\* What Collect makes of the values of a page.
Samples(keys) ==
    {[page |-> scan.page, item |-> k.item, sequence |-> k.sequence,
      clock |-> values[k.item].clock] :
        k \in {x \in keys : values[x.item].definition = scan.snap[x.item]}}

\* The page is full: it is returned, the lock is given up, and the next page
\* starts behind its last value.
FullPage ==
    /\ scan.running
    /\ Cardinality(Readable) >= Room
    /\ LET read == FirstOf(Readable, Room)
       IN /\ \E last \in read :
               /\ \A k \in read : k.sequence <= last.sequence
               /\ scan' = [scan EXCEPT !.sequence = last.sequence, !.count = 0,
                                       !.page = @ + 1]
          /\ emitted' = emitted \cup Samples(read)
    /\ UNCHANGED <<now, snapshot, definition, changed, cache>>

\* Mutant: the page remembers where the shard was left, not that it is finished.
NextSequence_Kept(last) == last

NextSequence(last) == 0

\* The shard is exhausted: its lock is given up and the page goes on with the
\* next shard, or the scan is done.
ShardExhausted ==
    /\ scan.running
    /\ Cardinality(Readable) < Room
    /\ emitted' = emitted \cup Samples(Readable)
    /\ scan' = IF scan.shard + 1 = NumShards THEN IdleScan
               ELSE [scan EXCEPT !.shard = @ + 1,
                                 !.sequence = NextSequence(@),
                                 !.count = @ + Cardinality(Readable)]
    /\ UNCHANGED <<now, snapshot, definition, changed, cache>>

-----------------------------------------------------------------------------
\* What a scrape owes a sample of: a value its time and its snapshot admit.
Qualifies(i) ==
    /\ values[i] # Absent
    /\ scrapeEligible(i, scan.timestamp)
    /\ values[i].definition = scan.snap[i]

Step ==
    \/ Tick
    \/ \E i \in Items : Redefine(i) \/ Invalidate(i)
    \/ \E i \in Items, clock \in Clocks, version \in 1 .. snapshot :
          ApplyRecord(i, clock, version)
    \/ \E h \in Shards : Delete(h)
    \/ \E h \in Shards : \E batch \in SUBSET Present(h) : DeleteVersioned(h, batch)
    \/ Collect
    \/ FullPage
    \/ ShardExhausted

Next ==
    /\ Step
    /\ steady' = IF scan.running THEN {i \in steady : ~scan'.running \/ Qualifies(i)'}
                ELSE IF scan'.running THEN {i \in Items : Qualifies(i)'} ELSE {}

Spec == Init /\ [][Next]_vars

-----------------------------------------------------------------------------
(* Properties.                                                             *)

TypeOK ==
    /\ now \in Nat
    /\ snapshot \in Nat
    /\ definition \in [Items -> Nat]
    /\ changed \subseteq Items
    /\ values \in [Items -> Entry \cup {Absent}]
    /\ order \in [Shards -> SUBSET ScanKey]
    /\ nextSequence \in [Shards -> Nat]
    /\ tombstones \in [Shards -> Nat]
    /\ scan \in [running : BOOLEAN, shard : Shards, sequence : Nat,
                 count : 0 .. PageSize - 1, page : Nat, timestamp : Nat,
                 snap : [Items -> Nat]]
    /\ emitted \subseteq Sample
    /\ steady \subseteq Items

\* A scrape misses nothing: although the locks are given up between pages and
\* between shards, while items are inserted, updated and deleted and the order is
\* compacted under the cursor (compactOrder: "preserves sequence numbers, so an
\* outstanding PublishCursor remains valid"), every item whose value qualified from
\* the start of the scrape to its end has a sample.
ScrapeComplete ==
    ~scan.running => \A i \in steady : \E x \in emitted : x.item = i

\* A cached life of an item (from its insertion to its deletion) is read at most
\* once by a scrape, however its value is updated meanwhile.
LifeReadOnce ==
    \A x, y \in emitted : x.item = y.item /\ x.sequence = y.sequence => x = y

\* The tombstone counter that decides about compaction is exact: keys without a
\* live value, no matter how deletions, re-creations and compactions alternate.
TombstonesExact ==
    \A h \in Shards : tombstones[h] = Cardinality({k \in order[h] : ~LiveKey(values, k)})

\* Deletions do not let the scan order grow without bound: beyond the threshold at
\* least half of its keys are live.
OrderBounded ==
    \A h \in Shards :
        \/ Cardinality(order[h]) < Cardinality(Present(h)) + CompactThreshold
        \/ Cardinality(order[h]) < 2 * Cardinality(Present(h))

=============================================================================
