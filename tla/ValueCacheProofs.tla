-------------------------- MODULE ValueCacheProofs --------------------------
(* Theorems about ValueCache for every set of items, definitions, workers  *)
(* and clocks and every bound, with the lemmas they rest on.               *)
EXTENDS ValueCache, TLAPS

(***************************************************************************)
(* The inductive invariant.  MetadataFence is not inductive alone: a       *)
(* collector that passed the locked version check carries a version that   *)
(* the cache does not hold yet.  LockedWriteLegitimate says that the write *)
(* such a collector is about to make is as legitimate as a cached value,   *)
(* and it survives a snapshot swap because ReconcileDelete must wait for   *)
(* the same lock.                                                          *)
(***************************************************************************)
PendingIsWritable ==
    \A c \in Collectors : \A i \in collector[c].pending :
        /\ collector[c].pc = "applying"
        /\ collector[c].snap[i] # Absent
        /\ collector[c].points[i] \in Clocks

LockedIsPending ==
    \A c \in Collectors, i \in Items : lock[i] = c => i \in collector[c].pending

QuietWhenIdle ==
    ~reconcile.busy => reconcile.removed = {} /\ reconcile.changed = {}

LockedWriteLegitimate ==
    \A c \in Collectors, i \in Items : lock[i] = c =>
        Legitimate(i, collector[c].snap[i].version)

FenceInv ==
    /\ TypeOK
    /\ PendingIsWritable
    /\ LockedIsPending
    /\ QuietWhenIdle
    /\ LockedWriteLegitimate
    /\ MetadataFence

-----------------------------------------------------------------------------
LEMMA ExpireAtIsNat ==
    ASSUME NEW clock \in Nat, NEW delay \in Nat
    PROVE  ValueExpireAt(clock, delay) \in Nat
<1>1. delay \div 5 \in Nat
  OBVIOUS
<1>2. Grace(delay) \in Nat
  BY <1>1, DurationAssumption DEF Grace, AtLeast
<1>3. AtLeast(2 * delay, MinShortTTL) \in Nat
  BY DurationAssumption DEF AtLeast
<1>4. QED
  BY <1>2, <1>3 DEF ValueExpireAt

LEMMA IdleIsCollector == IdleCollector \in Collector
BY DEF IdleCollector, Collector

LEMMA NewEntryIsEntry ==
    ASSUME NEW clock \in Nat, NEW item \in ItemMetadata, NEW version \in Nat
    PROVE  NewEntry(clock, item, version) \in ValueEntry
<1>1. item.def.delay \in Nat /\ item.version \in Nat
  BY DefinitionAssumption DEF ItemMetadata
<1>2. ValueExpireAt(clock, item.def.delay) \in Nat
  BY <1>1, ExpireAtIsNat
<1>3. QED
  BY <1>1, <1>2 DEF NewEntry, ValueEntry

LEMMA CloneIsSnapshot ==
    ASSUME NEW next \in [Items -> Definitions \cup {Absent}],
           NEW current \in MetadataSnapshot
    PROVE  cloneSnapshot(next, current) \in MetadataSnapshot
<1>1. current.version + 1 \in Nat
  BY DEF MetadataSnapshot
<1>2. ASSUME NEW i \in Items
      PROVE  cloneItem(next[i], current.items[i], current.version + 1)
               \in ItemMetadata \cup {Absent}
  BY <1>1 DEF cloneItem, ItemMetadata, MetadataSnapshot
<1>3. QED
  BY <1>1, <1>2 DEF cloneSnapshot, MetadataSnapshot

LEMMA MissedIsEntry ==
    ASSUME NEW entry \in ValueEntry, NEW at \in Nat
    PROVE  Missed(entry, at) \in ValueEntry
<1> DEFINE misses  == IF entry.misses < MaxMisses THEN entry.misses + 1
                      ELSE entry.misses
           overdue == at > missInvalidAfter(entry.clock, entry.delay)
           valid   == entry.valid /\ ~(misses >= MissThreshold /\ overdue)
<1>1. misses \in Nat
  BY DEF ValueEntry
<1>2. valid \in BOOLEAN
  BY Zenon
<1> HIDE DEF misses, overdue, valid
<1>3. [entry EXCEPT !.misses = misses, !.valid = valid] \in ValueEntry
  BY <1>1, <1>2 DEF ValueEntry
<1>4. Missed(entry, at) = [entry EXCEPT !.misses = misses, !.valid = valid]
  BY DEF Missed, misses, overdue, valid
<1>5. QED
  BY <1>3, <1>4

-----------------------------------------------------------------------------
(* Collector records, step by step: each equation says what one action     *)
(* stores, so that the invariance proofs below need no record updates.     *)

LEMMA FieldTypes ==
    ASSUME TypeOK, NEW c \in Collectors
    PROVE  /\ collector[c] \in Collector
           /\ collector[c].pc \in {"idle", "dispatched", "querying", "applying", "missing"}
           /\ collector[c].delay \in Nat
           /\ collector[c].query \subseteq Items
           /\ collector[c].till \in Nat
           /\ collector[c].fetchedAt \in Nat
           /\ collector[c].snap \in [Items -> ItemMetadata \cup {Absent}]
           /\ collector[c].points \in [Items -> Clocks \cup {NoRecord, BadRecord}]
           /\ collector[c].pending \subseteq Items
           /\ collector[c].stale \in BOOLEAN
           /\ collector[c].expiry \subseteq ExpiryEntry
           /\ collector[c].misses \subseteq Items
BY DEF TypeOK, Collector

LEMMA InitFence == Init => FenceInv
<1> SUFFICES ASSUME Init PROVE FenceInv
  OBVIOUS
<1>1. TypeOK
  <2>1. EmptySnapshot \in MetadataSnapshot
    BY DEF EmptySnapshot, MetadataSnapshot
  <2>2. collector \in [Collectors -> Collector]
    BY IdleIsCollector DEF Init
  <2>3. QED
    BY <2>1, <2>2 DEF Init, TypeOK, MetadataSnapshot
<1>2. \A c \in Collectors : collector[c].pending = {}
  BY DEF Init, IdleCollector
<1>3. \A i \in Items : lock[i] \notin Collectors
  BY CacheAssumption DEF Init
<1>4. QED
  BY <1>1, <1>2, <1>3
  DEF Init, FenceInv, PendingIsWritable, LockedIsPending, QuietWhenIdle,
      LockedWriteLegitimate, MetadataFence

LEMMA TickFence == FenceInv /\ Tick => FenceInv'
<1> SUFFICES ASSUME FenceInv, Tick PROVE FenceInv'
  OBVIOUS
<1>1. TypeOK'
  BY DEF FenceInv, TypeOK, Tick
<1>2. QED
  BY <1>1 DEF FenceInv, Tick, PendingIsWritable, LockedIsPending, QuietWhenIdle,
      LockedWriteLegitimate, MetadataFence, Legitimate

LEMMA ApplySnapshotFence ==
    ASSUME NEW next \in [Items -> Definitions \cup {Absent}]
    PROVE  FenceInv /\ ApplySnapshot(next) => FenceInv'
<1> SUFFICES ASSUME FenceInv, ApplySnapshot(next) PROVE FenceInv'
  OBVIOUS
<1>1. snapshot \in MetadataSnapshot /\ snapshot' \in MetadataSnapshot
  BY CloneIsSnapshot DEF FenceInv, TypeOK, ApplySnapshot
<1>2. TypeOK'
  BY <1>1 DEF FenceInv, TypeOK, ApplySnapshot, RemovedItems, ChangedEnabled,
              ChangedItems
<1>3. reconcile.removed = {} /\ reconcile.changed = {}
  BY DEF FenceInv, QuietWhenIdle, ApplySnapshot
\* What was legitimate before the swap is the current definition still, or is
\* about to be deleted, or belongs to a disabled item.
<1>4. ASSUME NEW i \in Items, NEW v, Legitimate(i, v)
      PROVE  Legitimate(i, v)'
  <2>1. snapshot.items[i] # Absent
    BY <1>3, <1>4 DEF Legitimate
  <2>2. snapshot'.items[i] = cloneItem(next[i], snapshot.items[i], snapshot.version + 1)
    BY DEF ApplySnapshot, cloneSnapshot
  <2>3. snapshot.items[i].def \in Definitions /\ next[i] \in Definitions \cup {Absent}
    BY <1>1, <2>1 DEF MetadataSnapshot, ItemMetadata
  <2>4. CASE next[i] = Absent
    BY <2>1, <2>2, <2>4
    DEF Legitimate, ApplySnapshot, RemovedItems, cloneItem
  <2>5. CASE next[i] # Absent /\ snapshot.items[i].def = next[i]
    <3>1. snapshot'.items[i] # Absent
      BY <1>1, <2>2, <2>3, <2>5, AbsentAssumption, DefinitionAssumption
      DEF cloneItem, ItemMetadata, MetadataSnapshot
    <3>2. /\ snapshot'.items[i].version = snapshot.items[i].version
          /\ snapshot'.items[i].def = snapshot.items[i].def
      BY <2>1, <2>2, <2>5 DEF cloneItem
    <3>3. QED
      BY <1>3, <1>4, <3>1, <3>2 DEF Legitimate
  <2>6. CASE next[i] # Absent /\ snapshot.items[i].def # next[i]
    <3>1. snapshot'.items[i] # Absent
      BY <1>1, <2>2, <2>3, <2>6, AbsentAssumption, DefinitionAssumption
      DEF cloneItem, ItemMetadata, MetadataSnapshot
    <3>2. snapshot'.items[i].def = next[i]
      BY <2>2, <2>6 DEF cloneItem
    <3>3. i \in ChangedItems(snapshot, snapshot')
      BY <2>1, <2>6, <3>1, <3>2 DEF ChangedItems, itemDefinitionsEqual
    <3>4. CASE next[i].enabled
      BY <3>2, <3>3, <3>4 DEF Legitimate, ApplySnapshot, ChangedEnabled
    <3>5. CASE ~next[i].enabled
      BY <3>1, <3>2, <3>5 DEF Legitimate
    <3>6. QED
      BY <3>4, <3>5
  <2>7. QED
    BY <2>4, <2>5, <2>6
<1>5. MetadataFence'
  BY <1>4 DEF FenceInv, MetadataFence, ApplySnapshot
<1>6. LockedWriteLegitimate'
  BY <1>4 DEF FenceInv, LockedWriteLegitimate, ApplySnapshot
<1>7. PendingIsWritable' /\ LockedIsPending' /\ QuietWhenIdle'
  BY DEF FenceInv, PendingIsWritable, LockedIsPending, QuietWhenIdle, ApplySnapshot
<1>8. QED
  BY <1>2, <1>5, <1>6, <1>7 DEF FenceInv

LEMMA ReconcileDeleteFence ==
    ASSUME NEW i \in Items
    PROVE  FenceInv /\ ReconcileDelete(i) => FenceInv'
<1> SUFFICES ASSUME FenceInv, ReconcileDelete(i) PROVE FenceInv'
  OBVIOUS
<1>1. TypeOK'
  BY DEF FenceInv, TypeOK, ReconcileDelete
<1>2. values'[i] = Absent /\ \A j \in Items : j # i => values'[j] = values[j]
  BY DEF FenceInv, TypeOK, ReconcileDelete
<1>3. \A c \in Collectors : lock[i] # c
  BY CacheAssumption DEF ReconcileDelete
<1>4. ASSUME NEW j \in Items, j # i, NEW v, Legitimate(j, v)
      PROVE  Legitimate(j, v)'
  BY <1>4 DEF Legitimate, ReconcileDelete, FenceInv, TypeOK
<1>5. MetadataFence'
  BY <1>2, <1>4 DEF FenceInv, MetadataFence
<1>6. LockedWriteLegitimate'
  BY <1>3, <1>4 DEF FenceInv, LockedWriteLegitimate, ReconcileDelete
<1>7. PendingIsWritable' /\ LockedIsPending'
  BY DEF FenceInv, PendingIsWritable, LockedIsPending, ReconcileDelete
<1>8. QuietWhenIdle'
  BY DEF FenceInv, TypeOK, QuietWhenIdle, ReconcileDelete
<1>9. QED
  BY <1>1, <1>5, <1>6, <1>7, <1>8 DEF FenceInv

LEMMA ReplaceGroupsFence == FenceInv /\ ReplaceGroups => FenceInv'
<1> SUFFICES ASSUME FenceInv, ReplaceGroups PROVE FenceInv'
  OBVIOUS
<1>1. TypeOK'
  BY DEF FenceInv, TypeOK, ReplaceGroups, MetadataSnapshot
<1>2. reconcile'.removed = reconcile.removed /\ reconcile'.changed = reconcile.changed
  BY DEF FenceInv, TypeOK, ReplaceGroups
<1>3. ASSUME NEW i \in Items, NEW v, Legitimate(i, v) PROVE Legitimate(i, v)'
  BY <1>2, <1>3 DEF Legitimate, ReplaceGroups
<1>4. MetadataFence' /\ LockedWriteLegitimate'
  BY <1>3 DEF FenceInv, MetadataFence, LockedWriteLegitimate, ReplaceGroups
<1>5. PendingIsWritable' /\ LockedIsPending' /\ QuietWhenIdle'
  BY <1>2 DEF FenceInv, PendingIsWritable, LockedIsPending, QuietWhenIdle, ReplaceGroups
<1>6. QED
  BY <1>1, <1>4, <1>5 DEF FenceInv

-----------------------------------------------------------------------------
(* Steps of a worker that touch nothing but its own record, and keep or    *)
(* shrink what it has pending.                                             *)

LEMMA LocalStepFence ==
    ASSUME NEW c \in Collectors, NEW new \in Collector,
           FenceInv,
           collector' = [collector EXCEPT ![c] = new],
           UNCHANGED <<now, snapshot, reconcile, groups, values, lock,
                       nextValueVersion, wheel, expiring>>,
           \A i \in new.pending : /\ new.pc = "applying"
                                 /\ new.snap[i] # Absent
                                 /\ new.points[i] \in Clocks,
           \A i \in Items : lock[i] # c
    PROVE  FenceInv'
<1>1. /\ collector'[c] = new
      /\ \A d \in Collectors : d # c => collector'[d] = collector[d]
  BY DEF FenceInv, TypeOK
<1>2. TypeOK'
  BY DEF FenceInv, TypeOK
<1>3. PendingIsWritable'
  BY <1>1 DEF FenceInv, PendingIsWritable
<1>4. LockedIsPending'
  BY <1>1 DEF FenceInv, LockedIsPending
<1>5. ASSUME NEW i \in Items, NEW v, Legitimate(i, v) PROVE Legitimate(i, v)'
  BY <1>5 DEF Legitimate
<1>6. LockedWriteLegitimate'
  BY <1>1, <1>5 DEF FenceInv, LockedWriteLegitimate
<1>7. MetadataFence' /\ QuietWhenIdle'
  BY <1>5 DEF FenceInv, MetadataFence, QuietWhenIdle
<1>8. QED
  BY <1>2, <1>3, <1>4, <1>6, <1>7 DEF FenceInv

\* A worker that is not applying has nothing pending and holds no lock.
LEMMA NotApplying ==
    ASSUME FenceInv, NEW c \in Collectors, collector[c].pc # "applying"
    PROVE  collector[c].pending = {} /\ \A i \in Items : lock[i] # c
BY DEF FenceInv, LockedIsPending, PendingIsWritable

LEMMA DispatchFence ==
    ASSUME NEW c \in Collectors, NEW delay \in Delays
    PROVE  FenceInv /\ Dispatch(c, delay) => FenceInv'
<1> SUFFICES ASSUME FenceInv, Dispatch(c, delay) PROVE FenceInv'
  OBVIOUS
<1> DEFINE new == [collector[c] EXCEPT !.pc = "dispatched", !.delay = delay,
                                       !.query = GroupItems(delay), !.till = now]
<1>1. delay \in Nat /\ GroupItems(delay) \subseteq Items /\ now \in Nat
  BY DefinitionAssumption DEF Delays, GroupItems, FenceInv, TypeOK
<1>2. new \in Collector
  BY <1>1, FieldTypes DEF Collector, FenceInv
<1>3. collector' = [collector EXCEPT ![c] = new]
  BY DEF Dispatch
<1>4. new.pending = {}
  BY NotApplying, FieldTypes DEF Dispatch, Collector, FenceInv
<1> HIDE DEF new
<1>5. \A i \in Items : lock[i] # c
  BY NotApplying DEF Dispatch
<1>6. QED
  BY <1>2, <1>3, <1>4, <1>5, LocalStepFence DEF Dispatch

LEMMA CaptureSnapshotFence ==
    ASSUME NEW c \in Collectors
    PROVE  FenceInv /\ CaptureSnapshot(c) => FenceInv'
<1> SUFFICES ASSUME FenceInv, CaptureSnapshot(c) PROVE FenceInv'
  OBVIOUS
<1> DEFINE new == [collector[c] EXCEPT !.pc = "querying", !.snap = snapshot.items]
<1>1. snapshot.items \in [Items -> ItemMetadata \cup {Absent}]
  BY DEF FenceInv, TypeOK, MetadataSnapshot
<1>2. new \in Collector
  BY <1>1, FieldTypes DEF Collector, FenceInv
<1>3. collector' = [collector EXCEPT ![c] = new]
  BY DEF CaptureSnapshot, FenceInv, TypeOK
<1>4. new.pending = {}
  BY NotApplying, FieldTypes DEF CaptureSnapshot, Collector, FenceInv
<1> HIDE DEF new
<1>5. \A i \in Items : lock[i] # c
  BY NotApplying DEF CaptureSnapshot
<1>6. QED
  BY <1>2, <1>3, <1>4, <1>5, LocalStepFence DEF CaptureSnapshot

LEMMA QueryFailedFence ==
    ASSUME NEW c \in Collectors
    PROVE  FenceInv /\ QueryFailed(c) => FenceInv'
<1> SUFFICES ASSUME FenceInv, QueryFailed(c) PROVE FenceInv'
  OBVIOUS
<1>1. IdleCollector.pending = {}
  BY DEF IdleCollector
<1>2. \A i \in Items : lock[i] # c
  BY NotApplying DEF QueryFailed
<1>3. QED
  BY <1>1, <1>2, IdleIsCollector, LocalStepFence DEF QueryFailed

LEMMA DeliverFence ==
    ASSUME NEW c \in Collectors, NEW points \in Answers
    PROVE  FenceInv /\ Deliver(c, points) => FenceInv'
<1> SUFFICES ASSUME FenceInv, Deliver(c, points) PROVE FenceInv'
  OBVIOUS
<1> DEFINE self == collector[c]
           Writable(i) == /\ points[i] \notin {NoRecord, BadRecord}
                          /\ StillAlive(points[i], self.delay, self.till)
                          /\ self.snap[i] # Absent
                          /\ self.snap[i].def.enabled
           writable == {i \in self.query : Writable(i)}
           missed   == {i \in self.query : points[i] = NoRecord}
           stale    == \E i \in self.query :
                          \/ self.snap[i] = Absent
                          \/ ~metadataVersionCurrent(i, self.snap[i].version)
           at       == IF missed = {} THEN 0 ELSE now
           snap     == [i \in Items |-> IF i \in writable THEN self.snap[i] ELSE Absent]
           kept     == [i \in Items |-> IF i \in writable THEN points[i] ELSE NoRecord]
           new      == [IdleCollector EXCEPT
                          !.pc = "applying", !.delay = self.delay,
                          !.fetchedAt = at, !.snap = snap, !.points = kept,
                          !.pending = writable, !.stale = stale, !.misses = missed]
<1>1. collector' = [collector EXCEPT ![c] = new]
  BY DEF Deliver
<1>2. writable \subseteq Items /\ missed \subseteq Items
  BY FieldTypes DEF FenceInv
<1>3. at \in Nat
  BY DEF FenceInv, TypeOK
<1>4. stale \in BOOLEAN
  OBVIOUS
<1>5. snap \in [Items -> ItemMetadata \cup {Absent}]
  BY FieldTypes DEF FenceInv
<1>6. kept \in [Items -> Clocks \cup {NoRecord, BadRecord}]
  BY DEF Answers
<1>7. \A i \in writable : snap[i] # Absent /\ kept[i] \in Clocks
  BY <1>2 DEF Answers
<1>8. self.delay \in Nat
  BY FieldTypes DEF FenceInv
<1> HIDE DEF self, writable, missed, stale, at, snap, kept
<1>9. new \in Collector
  BY <1>2, <1>3, <1>4, <1>5, <1>6, <1>8, IdleIsCollector DEF Collector
<1>10. /\ new.pending = writable /\ new.pc = "applying"
       /\ new.snap = snap /\ new.points = kept
  BY DEF IdleCollector
<1> HIDE DEF new
<1>11. \A i \in Items : lock[i] # c
  BY NotApplying DEF Deliver
<1>12. QED
  BY <1>1, <1>7, <1>9, <1>10, <1>11, LocalStepFence DEF Deliver

-----------------------------------------------------------------------------
(* Steps under a lock, and steps that only remove or re-mark values.       *)

\* A step that publishes no metadata, caches no new metadata version and gives
\* nobody a lock or another version to write keeps the fence.
LEMMA FenceFrame ==
    ASSUME FenceInv, TypeOK', PendingIsWritable', LockedIsPending',
           UNCHANGED <<snapshot, reconcile>>,
           \A i \in Items : values'[i] # Absent =>
               /\ values[i] # Absent
               /\ values'[i].metadataVersion = values[i].metadataVersion,
           \A d \in Collectors, i \in Items : lock'[i] = d =>
               lock[i] = d /\ collector'[d].snap[i] = collector[d].snap[i]
    PROVE  FenceInv'
<1>1. ASSUME NEW i \in Items, NEW v, Legitimate(i, v) PROVE Legitimate(i, v)'
  BY <1>1 DEF Legitimate
<1>2. MetadataFence'
  BY <1>1 DEF FenceInv, MetadataFence
<1>3. LockedWriteLegitimate'
  BY <1>1 DEF FenceInv, LockedWriteLegitimate
<1>4. QuietWhenIdle'
  BY DEF FenceInv, QuietWhenIdle
<1>5. QED
  BY <1>2, <1>3, <1>4 DEF FenceInv

LEMMA LockAndCheckFence ==
    ASSUME NEW c \in Collectors, NEW i \in Items
    PROVE  FenceInv /\ LockAndCheck(c, i) => FenceInv'
<1> SUFFICES ASSUME FenceInv, LockAndCheck(c, i) PROVE FenceInv'
  OBVIOUS
<1>1. CASE metadataVersionCurrent(i, collector[c].snap[i].version)
  <2>1. lock' = [lock EXCEPT ![i] = c] /\ UNCHANGED collector
    BY <1>1 DEF LockAndCheck
  <2>2. TypeOK'
    BY <2>1 DEF FenceInv, TypeOK, LockAndCheck
  <2>3. \A d \in Collectors, j \in Items : lock'[j] = d =>
          \/ lock[j] = d
          \/ j = i /\ d = c
    BY <2>1 DEF FenceInv, TypeOK
  <2>4. LockedIsPending' /\ PendingIsWritable'
    BY <2>1, <2>3 DEF FenceInv, LockedIsPending, PendingIsWritable, LockAndCheck
  <2>5. ASSUME NEW j \in Items, NEW v, Legitimate(j, v) PROVE Legitimate(j, v)'
    BY <2>5 DEF Legitimate, LockAndCheck
  <2>6. Legitimate(i, collector[c].snap[i].version)
    BY <1>1 DEF Legitimate, metadataVersionCurrent
  <2>7. LockedWriteLegitimate'
    BY <2>1, <2>3, <2>5, <2>6 DEF FenceInv, LockedWriteLegitimate
  <2>8. MetadataFence' /\ QuietWhenIdle'
    BY <2>5 DEF FenceInv, MetadataFence, QuietWhenIdle, LockAndCheck
  <2>9. QED
    BY <2>2, <2>4, <2>7, <2>8 DEF FenceInv
<1>2. CASE ~metadataVersionCurrent(i, collector[c].snap[i].version)
  <2> DEFINE new == [collector[c] EXCEPT !.pending = @ \ {i}, !.stale = TRUE]
  <2>1. collector' = [collector EXCEPT ![c] = new]
    BY <1>2 DEF LockAndCheck, FenceInv, TypeOK
  <2>2. new \in Collector
    BY FieldTypes DEF Collector, FenceInv
  <2>3. /\ new.pending = collector[c].pending \ {i} /\ new.pc = collector[c].pc
        /\ new.snap = collector[c].snap /\ new.points = collector[c].points
    BY FieldTypes DEF Collector, FenceInv
  <2> HIDE DEF new
  <2>4. \A j \in new.pending : /\ new.pc = "applying"
                               /\ new.snap[j] # Absent
                               /\ new.points[j] \in Clocks
    BY <2>3 DEF FenceInv, PendingIsWritable
  <2>5. \A j \in Items : lock[j] # c
    BY DEF LockAndCheck
  <2>6. QED
    BY <1>2, <2>1, <2>2, <2>4, <2>5, LocalStepFence DEF LockAndCheck
<1>3. QED
  BY <1>1, <1>2

LEMMA WriteFence ==
    ASSUME NEW c \in Collectors, NEW i \in Items
    PROVE  FenceInv /\ Write(c, i) => FenceInv'
<1> SUFFICES ASSUME FenceInv, Write(c, i) PROVE FenceInv'
  OBVIOUS
<1>1. /\ lock[i] = c
      /\ lock' \in [Items -> Collectors \cup {NoCollector}]
      /\ \A d \in Collectors, j \in Items : lock'[j] = d => lock[j] = d /\ j # i
  BY CacheAssumption DEF Write, Unlocked, FenceInv, TypeOK
<1>2. i \in collector[c].pending
  BY <1>1 DEF FenceInv, LockedIsPending
<1>3. /\ collector[c].pc = "applying"
      /\ collector[c].snap[i] \in ItemMetadata
      /\ collector[c].points[i] \in Nat
  BY <1>2, FieldTypes, CacheAssumption DEF FenceInv, PendingIsWritable
<1> DEFINE entry  == NewEntry(collector[c].points[i], collector[c].snap[i], NewVersion(i))
<1>4. entry \in ValueEntry /\ entry.metadataVersion = collector[c].snap[i].version
  BY <1>3, NewEntryIsEntry DEF NewEntry, NewVersion, FenceInv, TypeOK
\* Both branches leave a record that differs in pending and expiry only.
<1>5. PICK new \in Collector :
         /\ collector' = [collector EXCEPT ![c] = new]
         /\ new.pending = collector[c].pending \ {i} /\ new.pc = collector[c].pc
         /\ new.snap = collector[c].snap /\ new.points = collector[c].points
  <2>1. CASE Unchanged(c, i)
    <3> DEFINE new == [collector[c] EXCEPT !.pending = @ \ {i}]
    <3>1. collector' = [collector EXCEPT ![c] = new]
      BY <2>1 DEF Write, FenceInv, TypeOK
    <3>2. new \in Collector /\ new.pending = collector[c].pending \ {i}
      BY FieldTypes DEF Collector, FenceInv
    <3>3. /\ new.pc = collector[c].pc
          /\ new.snap = collector[c].snap /\ new.points = collector[c].points
      BY FieldTypes DEF Collector, FenceInv
    <3> HIDE DEF new
    <3>4. QED
      BY <3>1, <3>2, <3>3
  <2>2. CASE ~Unchanged(c, i)
    <3> DEFINE expiry == collector[c].expiry \cup NewExpiry(i, entry)
               new == [collector[c] EXCEPT !.pending = @ \ {i}, !.expiry = expiry]
    <3>1. expiry \subseteq ExpiryEntry
      BY <1>4, FieldTypes DEF NewExpiry, ExpiryEntry, ValueEntry, FenceInv
    <3>2. collector' = [collector EXCEPT ![c] = new]
      BY <2>2 DEF Write, FenceInv, TypeOK
    <3> HIDE DEF expiry
    <3>3. new \in Collector /\ new.pending = collector[c].pending \ {i}
      BY <3>1, FieldTypes DEF Collector, FenceInv
    <3>4. /\ new.pc = collector[c].pc
          /\ new.snap = collector[c].snap /\ new.points = collector[c].points
      BY FieldTypes DEF Collector, FenceInv
    <3> HIDE DEF new
    <3>5. QED
      BY <3>2, <3>3, <3>4
  <2>3. QED
    BY <2>1, <2>2
<1>6. /\ collector' \in [Collectors -> Collector] /\ collector'[c] = new
      /\ \A d \in Collectors : d # c => collector'[d] = collector[d]
  BY <1>5 DEF FenceInv, TypeOK
<1>7. values' = values \/ values' = [values EXCEPT ![i] = entry]
  BY DEF Write
<1>8. TypeOK'
  <2>1. nextValueVersion' \in Nat
    BY DEF Write, FenceInv, TypeOK
  <2>2. values' \in [Items -> ValueEntry \cup {Absent}]
    BY <1>4, <1>7 DEF FenceInv, TypeOK
  <2>3. QED
    BY <1>1, <1>6, <2>1, <2>2 DEF Write, FenceInv, TypeOK
<1>9. PendingIsWritable' /\ LockedIsPending'
  BY <1>1, <1>5, <1>6 DEF FenceInv, PendingIsWritable, LockedIsPending
<1>10. ASSUME NEW j \in Items, NEW v, Legitimate(j, v) PROVE Legitimate(j, v)'
  BY <1>10 DEF Legitimate, Write
<1>11. Legitimate(i, entry.metadataVersion)
  BY <1>1, <1>4 DEF FenceInv, LockedWriteLegitimate
<1> HIDE DEF entry
<1>12. \A j \in Items : values'[j] # Absent =>
          \/ values[j] # Absent /\ values'[j] = values[j]
          \/ j = i /\ values'[j] = entry
  BY <1>7 DEF FenceInv, TypeOK
<1>13. MetadataFence'
  BY <1>10, <1>11, <1>12 DEF FenceInv, MetadataFence
<1>14. LockedWriteLegitimate'
  BY <1>1, <1>5, <1>6, <1>10 DEF FenceInv, LockedWriteLegitimate
<1>15. QuietWhenIdle'
  BY DEF FenceInv, QuietWhenIdle, Write
<1>16. QED
  BY <1>8, <1>9, <1>13, <1>14, <1>15 DEF FenceInv

LEMMA RegisterExpiryFence ==
    ASSUME NEW c \in Collectors
    PROVE  FenceInv /\ RegisterExpiry(c) => FenceInv'
<1> SUFFICES ASSUME FenceInv, RegisterExpiry(c) PROVE FenceInv'
  OBVIOUS
<1> DEFINE next == [IdleCollector EXCEPT
                      !.pc = "missing", !.delay = collector[c].delay,
                      !.fetchedAt = collector[c].fetchedAt,
                      !.misses = collector[c].misses]
           new  == IF collector[c].stale \/ collector[c].misses = {}
                   THEN IdleCollector ELSE next
<1>1. next \in Collector /\ next.pending = {}
  BY FieldTypes, IdleIsCollector DEF Collector, IdleCollector, FenceInv
<1>2. new \in Collector /\ new.pending = {}
  BY <1>1, IdleIsCollector DEF IdleCollector
<1>3. collector' = [collector EXCEPT ![c] = new]
  BY DEF RegisterExpiry
<1> HIDE DEF new
<1>4. /\ collector'[c] = new
      /\ \A d \in Collectors : d # c => collector'[d] = collector[d]
  BY <1>3 DEF FenceInv, TypeOK
<1>5. wheel' \subseteq ExpiryEntry
  BY FieldTypes DEF RegisterExpiry, FenceInv, TypeOK
<1>6. TypeOK'
  BY <1>2, <1>3, <1>5 DEF RegisterExpiry, FenceInv, TypeOK
<1>7. \A i \in Items : lock[i] # c
  BY DEF RegisterExpiry, FenceInv, LockedIsPending
<1>8. PendingIsWritable' /\ LockedIsPending'
  <2>1. PendingIsWritable'
    <3> SUFFICES ASSUME NEW d \in Collectors, NEW i \in collector'[d].pending
                 PROVE  /\ collector'[d].pc = "applying"
                        /\ collector'[d].snap[i] # Absent
                        /\ collector'[d].points[i] \in Clocks
      BY Zenon DEF PendingIsWritable
    <3>1. d # c /\ collector'[d] = collector[d]
      BY <1>2, <1>4
    <3>2. QED
      BY <3>1 DEF FenceInv, PendingIsWritable
  <2>2. LockedIsPending'
    BY <1>4, <1>7 DEF RegisterExpiry, FenceInv, LockedIsPending
  <2>3. QED
    BY <2>1, <2>2
<1>9. \A d \in Collectors, i \in Items : lock'[i] = d =>
        lock[i] = d /\ collector'[d].snap[i] = collector[d].snap[i]
  BY <1>4, <1>7 DEF RegisterExpiry
<1>10. QED
  BY <1>6, <1>8, <1>9, FenceFrame DEF RegisterExpiry

LEMMA MarkMissFence ==
    ASSUME NEW c \in Collectors, NEW i \in Items
    PROVE  FenceInv /\ MarkMiss(c, i) => FenceInv'
<1> SUFFICES ASSUME FenceInv, MarkMiss(c, i) PROVE FenceInv'
  OBVIOUS
<1> DEFINE left  == [collector[c] EXCEPT !.misses = @ \ {i}]
           new   == IF collector[c].misses = {i} THEN IdleCollector ELSE left
           entry == IF values[i] = Absent THEN Absent
                    ELSE Missed(values[i], collector[c].fetchedAt)
<1>1. collector[c].pending = {} /\ \A j \in Items : lock[j] # c
  BY NotApplying DEF MarkMiss
<1>2. left \in Collector /\ left.pending = {}
  BY <1>1, FieldTypes DEF Collector, FenceInv
<1>3. new \in Collector /\ new.pending = {}
  BY <1>2, IdleIsCollector DEF IdleCollector
<1>4. collector' = [collector EXCEPT ![c] = new]
  <2>1. CASE collector[c].misses = {i}
    BY <2>1 DEF MarkMiss, FenceInv, TypeOK
  <2>2. CASE collector[c].misses # {i}
    BY <2>2 DEF MarkMiss, FenceInv, TypeOK
  <2>3. QED
    BY <2>1, <2>2
<1> HIDE DEF new
<1>5. /\ collector'[c] = new
      /\ \A d \in Collectors : d # c => collector'[d] = collector[d]
  BY <1>4 DEF FenceInv, TypeOK
<1>6. values' = [values EXCEPT ![i] = entry]
  BY DEF MarkMiss, FenceInv, TypeOK
<1>7. entry \in ValueEntry \cup {Absent}
  BY MissedIsEntry, FieldTypes DEF FenceInv, TypeOK
<1>8. entry # Absent => /\ values[i] # Absent
                        /\ entry.metadataVersion = values[i].metadataVersion
  <2> SUFFICES ASSUME values[i] # Absent
               PROVE  Missed(values[i], collector[c].fetchedAt).metadataVersion
                        = values[i].metadataVersion
    OBVIOUS
  <2>1. values[i] \in ValueEntry
    BY DEF FenceInv, TypeOK
  <2>2. QED
    BY <2>1 DEF Missed, ValueEntry
<1> HIDE DEF entry
<1>9. \A j \in Items : values'[j] # Absent =>
        /\ values[j] # Absent
        /\ values'[j].metadataVersion = values[j].metadataVersion
  BY <1>6, <1>8 DEF FenceInv, TypeOK
<1>10. TypeOK'
  <2>1. collector' \in [Collectors -> Collector]
    BY <1>3, <1>4 DEF FenceInv, TypeOK
  <2>2. values' \in [Items -> ValueEntry \cup {Absent}]
    BY <1>6, <1>7 DEF FenceInv, TypeOK
  <2>3. QED
    BY <2>1, <2>2 DEF MarkMiss, FenceInv, TypeOK
<1>11. PendingIsWritable' /\ LockedIsPending'
  BY <1>1, <1>3, <1>5 DEF MarkMiss, FenceInv, PendingIsWritable, LockedIsPending
<1>12. \A d \in Collectors, j \in Items : lock'[j] = d =>
         lock[j] = d /\ collector'[d].snap[j] = collector[d].snap[j]
  BY <1>1, <1>5 DEF MarkMiss
<1>13. QED
  BY <1>9, <1>10, <1>11, <1>12, FenceFrame DEF MarkMiss

LEMMA TakeDueFence ==
    ASSUME NEW due \in SUBSET wheel
    PROVE  FenceInv /\ TakeDue(due) => FenceInv'
<1> SUFFICES ASSUME FenceInv, TakeDue(due) PROVE FenceInv'
  OBVIOUS
<1>1. TypeOK'
  BY DEF TakeDue, FenceInv, TypeOK
<1>2. PendingIsWritable' /\ LockedIsPending'
  BY DEF TakeDue, FenceInv, PendingIsWritable, LockedIsPending
<1>3. QED
  BY <1>1, <1>2, FenceFrame DEF TakeDue

LEMMA DeleteVersionedFence ==
    ASSUME NEW x \in expiring
    PROVE  FenceInv /\ DeleteVersioned(x) => FenceInv'
<1> SUFFICES ASSUME FenceInv, DeleteVersioned(x) PROVE FenceInv'
  OBVIOUS
<1>1. x.item \in Items
  BY DEF FenceInv, TypeOK, ExpiryEntry
<1>2. values' = values \/ values' = [values EXCEPT ![x.item] = Absent]
  BY DEF DeleteVersioned
<1>3. \A j \in Items : values'[j] # Absent => values'[j] = values[j]
  BY <1>1, <1>2 DEF FenceInv, TypeOK
<1>4. TypeOK'
  BY <1>2 DEF DeleteVersioned, FenceInv, TypeOK
<1>5. PendingIsWritable' /\ LockedIsPending'
  BY DEF DeleteVersioned, FenceInv, PendingIsWritable, LockedIsPending
<1>6. QED
  BY <1>3, <1>4, <1>5, FenceFrame DEF DeleteVersioned

-----------------------------------------------------------------------------
LEMMA NextFence == FenceInv /\ [Next]_vars => FenceInv'
<1> SUFFICES ASSUME FenceInv, [Next]_vars PROVE FenceInv'
  OBVIOUS
<1>1. CASE Tick
  BY <1>1, TickFence
<1>2. CASE MetadataLoop
  BY <1>2, ApplySnapshotFence, ReconcileDeleteFence, ReplaceGroupsFence
  DEF MetadataLoop
<1>3. ASSUME NEW c \in Collectors, Collect(c) PROVE FenceInv'
  <2>1. CASE \E delay \in Delays : Dispatch(c, delay)
    BY <2>1, DispatchFence
  <2>2. CASE CaptureSnapshot(c)
    BY <2>2, CaptureSnapshotFence
  <2>3. CASE QueryFailed(c)
    BY <2>3, QueryFailedFence
  <2>4. CASE \E points \in Answers : Deliver(c, points)
    BY <2>4, DeliverFence
  <2>5. ASSUME NEW i \in Items, LockAndCheck(c, i) \/ Write(c, i) \/ MarkMiss(c, i)
        PROVE FenceInv'
    BY <2>5, LockAndCheckFence, WriteFence, MarkMissFence
  <2>6. CASE RegisterExpiry(c)
    BY <2>6, RegisterExpiryFence
  <2>7. QED
    BY <1>3, <2>1, <2>2, <2>3, <2>4, <2>5, <2>6 DEF Collect
<1>4. CASE ExpiryLoop
  BY <1>4, TakeDueFence, DeleteVersionedFence DEF ExpiryLoop
<1>5. CASE UNCHANGED vars
  <2>1. TypeOK' /\ PendingIsWritable' /\ LockedIsPending'
    BY <1>5 DEF vars, FenceInv, TypeOK, PendingIsWritable, LockedIsPending
  <2>2. QED
    BY <1>5, <2>1, FenceFrame DEF vars
<1>6. QED
  BY <1>1, <1>2, <1>3, <1>4, <1>5 DEF Next

LEMMA FenceInvariant == Spec => []FenceInv
BY InitFence, NextFence, PTL DEF Spec

\* Every variable of the cache and its three writers keeps its type, for any
\* items, definitions, clocks and number of workers.
THEOREM TypeCorrect == Spec => []TypeOK
BY FenceInvariant, PTL DEF FenceInv

\* metadataVersionCurrent under the shard lock, with the delete that follows the
\* swap, closes both orderings of a snapshot swap and a write: outside a
\* reconciliation the cache holds no value of an obsolete definition, except
\* for a disabled item.
THEOREM FenceHolds == Spec => []MetadataFence
BY FenceInvariant, PTL DEF FenceInv

-----------------------------------------------------------------------------
(* Theorems about the life of a cached value: what removes it, what marks  *)
(* it invalid, and what may replace it.  They stand on the type and lock   *)
(* invariants above.                                                       *)

(***************************************************************************)
(* The inductive invariant.  ExpiryCovered needs to know that a worker     *)
(* holds unregistered entries only while it applies.  DeletedForCause      *)
(* needs three facts about expiry entries wherever they are: no entry and  *)
(* no value has a version that has not been handed out, an entry with a    *)
(* cached value's version has that value's TTL, and the entries ExpireDue  *)
(* took were due.                                                          *)
(***************************************************************************)
ExpiryWhileApplying ==
    \A c \in Collectors : collector[c].pc # "applying" => collector[c].expiry = {}

VersionsUsed ==
    /\ \A i \in Items : values[i] # Absent => values[i].valueVersion <= nextValueVersion
    /\ \A x \in AllExpiry : x.valueVersion <= nextValueVersion

OneExpiryPerVersion ==
    \A x \in AllExpiry : SameGeneration(x) => x.expireAt = values[x.item].expireAt

ExpiringAreDue == \A x \in expiring : x.expireAt <= now

CoverInv ==
    /\ ExpiryWhileApplying
    /\ ExpiryCovered
    /\ VersionsUsed
    /\ OneExpiryPerVersion
    /\ ExpiringAreDue

-----------------------------------------------------------------------------
LEMMA AllExpiryTypes ==
    ASSUME TypeOK
    PROVE  \A x \in AllExpiry : x.item \in Items /\ x.valueVersion \in Nat
                                                 /\ x.expireAt \in Nat
<1>1. AllExpiry \subseteq ExpiryEntry
  BY FieldTypes DEF AllExpiry, TypeOK
<1>2. QED
  BY <1>1 DEF ExpiryEntry

LEMMA InitCover == Init => CoverInv
<1> SUFFICES ASSUME Init PROVE CoverInv
  OBVIOUS
<1>1. \A c \in Collectors : collector[c].expiry = {}
  BY DEF Init, IdleCollector
<1>2. AllExpiry = {}
  BY <1>1 DEF AllExpiry, Init
<1>3. \A i \in Items : values[i] = Absent
  BY DEF Init
<1>4. expiring = {}
  BY DEF Init
<1>5. QED
  BY <1>1, <1>2, <1>3, <1>4
  DEF CoverInv, ExpiryWhileApplying, ExpiryCovered, VersionsUsed,
      OneExpiryPerVersion, ExpiringAreDue

\* A step that writes no value, moves expiry entries without losing one, and takes
\* only due ones keeps the invariant.
LEMMA CoverFrame ==
    ASSUME TypeOK, TypeOK', CoverInv,
           now <= now',
           nextValueVersion' = nextValueVersion,
           AllExpiry' = AllExpiry,
           ExpiryWhileApplying',
           \A i \in Items : values'[i] # Absent =>
               /\ values[i] # Absent
               /\ values'[i].valueVersion = values[i].valueVersion
               /\ values'[i].expireAt = values[i].expireAt,
           \A x \in expiring' : x \in expiring \/ x.expireAt <= now
    PROVE  CoverInv'
<1>1. ExpiryCovered'
  BY DEF CoverInv, ExpiryCovered, ExpiryOf
<1>2. VersionsUsed'
  BY DEF CoverInv, VersionsUsed
<1>3. OneExpiryPerVersion'
  <2> SUFFICES ASSUME NEW x \in AllExpiry', SameGeneration(x)'
               PROVE  x.expireAt = values'[x.item].expireAt
    BY DEF OneExpiryPerVersion
  <2>1. x \in AllExpiry /\ x.item \in Items
    BY AllExpiryTypes
  <2>2. SameGeneration(x) /\ values'[x.item].expireAt = values[x.item].expireAt
    BY <2>1 DEF SameGeneration
  <2>3. QED
    BY <2>1, <2>2 DEF CoverInv, OneExpiryPerVersion
<1>4. ExpiringAreDue'
  <2> SUFFICES ASSUME NEW x \in expiring' PROVE x.expireAt <= now'
    BY DEF ExpiringAreDue
  <2>1. x.expireAt <= now
    BY DEF CoverInv, ExpiringAreDue
  <2>2. x.expireAt \in Nat /\ now \in Nat /\ now' \in Nat
    BY DEF TypeOK, ExpiryEntry
  <2>3. QED
    BY <2>1, <2>2
<1>5. QED
  BY <1>1, <1>2, <1>3, <1>4 DEF CoverInv

\* A worker's step that keeps the entries it has collected.
LEMMA WorkerCover ==
    ASSUME TypeOK, TypeOK', CoverInv,
           NEW c \in Collectors, NEW new,
           collector' = [collector EXCEPT ![c] = new],
           new.expiry = collector[c].expiry,
           new.pc # "applying" => new.expiry = {},
           UNCHANGED <<now, nextValueVersion, wheel, expiring>>,
           \A i \in Items : values'[i] # Absent =>
               /\ values[i] # Absent
               /\ values'[i].valueVersion = values[i].valueVersion
               /\ values'[i].expireAt = values[i].expireAt
    PROVE  CoverInv'
<1>1. /\ collector'[c] = new
      /\ \A d \in Collectors : d # c => collector'[d] = collector[d]
  BY DEF TypeOK
<1>2. {collector'[d].expiry : d \in Collectors} = {collector[d].expiry : d \in Collectors}
  BY <1>1
<1>3. AllExpiry' = AllExpiry
  BY <1>2 DEF AllExpiry
<1>4. ExpiryWhileApplying'
  BY <1>1 DEF CoverInv, ExpiryWhileApplying
<1>5. now \in Nat
  BY DEF TypeOK
<1>6. QED
  BY <1>3, <1>4, <1>5, CoverFrame

-----------------------------------------------------------------------------
(* The steps that neither write a value nor touch the wheel.               *)

LEMMA TickCover == FenceInv /\ FenceInv' /\ CoverInv /\ Tick => CoverInv'
<1> SUFFICES ASSUME FenceInv, FenceInv', CoverInv, Tick PROVE CoverInv'
  OBVIOUS
<1>1. AllExpiry' = AllExpiry
  BY DEF Tick, AllExpiry
<1>2. now <= now'
  BY DEF Tick, FenceInv, TypeOK
<1>3. ExpiryWhileApplying'
  BY DEF Tick, CoverInv, ExpiryWhileApplying
<1>4. QED
  BY <1>1, <1>2, <1>3, CoverFrame DEF Tick, FenceInv

LEMMA MetadataLoopCover ==
    FenceInv /\ FenceInv' /\ CoverInv /\ MetadataLoop => CoverInv'
<1> SUFFICES ASSUME FenceInv, FenceInv', CoverInv, MetadataLoop PROVE CoverInv'
  OBVIOUS
<1>1. UNCHANGED <<now, nextValueVersion, collector, wheel, expiring>>
  BY DEF MetadataLoop, ApplySnapshot, ReconcileDelete, ReplaceGroups
<1>2. \A i \in Items : values'[i] # Absent => values'[i] = values[i]
  BY DEF MetadataLoop, ApplySnapshot, ReconcileDelete, ReplaceGroups, FenceInv, TypeOK
<1>3. AllExpiry' = AllExpiry /\ ExpiryWhileApplying'
  BY <1>1 DEF AllExpiry, CoverInv, ExpiryWhileApplying
<1>4. now <= now'
  BY <1>1 DEF FenceInv, TypeOK
<1>5. QED
  BY <1>1, <1>2, <1>3, <1>4, CoverFrame DEF FenceInv

LEMMA DispatchCover ==
    ASSUME NEW c \in Collectors, NEW delay \in Delays
    PROVE  FenceInv /\ FenceInv' /\ CoverInv /\ Dispatch(c, delay) => CoverInv'
<1> SUFFICES ASSUME FenceInv, FenceInv', CoverInv, Dispatch(c, delay) PROVE CoverInv'
  OBVIOUS
<1> DEFINE new == [collector[c] EXCEPT !.pc = "dispatched", !.delay = delay,
                                       !.query = GroupItems(delay), !.till = now]
<1>1. collector' = [collector EXCEPT ![c] = new]
  BY DEF Dispatch
<1>2. collector[c].expiry = {}
  BY DEF Dispatch, CoverInv, ExpiryWhileApplying
<1>3. new.expiry = collector[c].expiry
  BY FieldTypes DEF Collector, FenceInv
<1> HIDE DEF new
<1>4. QED
  BY <1>1, <1>2, <1>3, WorkerCover DEF Dispatch, FenceInv

LEMMA CaptureSnapshotCover ==
    ASSUME NEW c \in Collectors
    PROVE  FenceInv /\ FenceInv' /\ CoverInv /\ CaptureSnapshot(c) => CoverInv'
<1> SUFFICES ASSUME FenceInv, FenceInv', CoverInv, CaptureSnapshot(c) PROVE CoverInv'
  OBVIOUS
<1> DEFINE new == [collector[c] EXCEPT !.pc = "querying", !.snap = snapshot.items]
<1>1. collector' = [collector EXCEPT ![c] = new]
  BY DEF CaptureSnapshot, FenceInv, TypeOK
<1>2. collector[c].expiry = {}
  BY DEF CaptureSnapshot, CoverInv, ExpiryWhileApplying
<1>3. new.expiry = collector[c].expiry
  BY FieldTypes DEF Collector, FenceInv
<1> HIDE DEF new
<1>4. QED
  BY <1>1, <1>2, <1>3, WorkerCover DEF CaptureSnapshot, FenceInv

LEMMA QueryFailedCover ==
    ASSUME NEW c \in Collectors
    PROVE  FenceInv /\ FenceInv' /\ CoverInv /\ QueryFailed(c) => CoverInv'
<1> SUFFICES ASSUME FenceInv, FenceInv', CoverInv, QueryFailed(c) PROVE CoverInv'
  OBVIOUS
<1>1. collector[c].expiry = {} /\ IdleCollector.expiry = {}
  BY DEF QueryFailed, CoverInv, ExpiryWhileApplying, IdleCollector
<1>2. QED
  BY <1>1, WorkerCover DEF QueryFailed, FenceInv

\* Deliver leaves a fresh record, in which no entry has been collected.
LEMMA DeliverCover ==
    ASSUME NEW c \in Collectors, NEW points \in Answers
    PROVE  FenceInv /\ FenceInv' /\ CoverInv /\ Deliver(c, points) => CoverInv'
<1> SUFFICES ASSUME FenceInv, FenceInv', CoverInv, Deliver(c, points) PROVE CoverInv'
  OBVIOUS
<1> DEFINE self == collector[c]
           Writable(i) == /\ points[i] \notin {NoRecord, BadRecord}
                          /\ StillAlive(points[i], self.delay, self.till)
                          /\ self.snap[i] # Absent
                          /\ self.snap[i].def.enabled
           writable == {i \in self.query : Writable(i)}
           missed   == {i \in self.query : points[i] = NoRecord}
           stale    == \E i \in self.query :
                          \/ self.snap[i] = Absent
                          \/ ~metadataVersionCurrent(i, self.snap[i].version)
           at       == IF missed = {} THEN 0 ELSE now
           snap     == [i \in Items |-> IF i \in writable THEN self.snap[i] ELSE Absent]
           kept     == [i \in Items |-> IF i \in writable THEN points[i] ELSE NoRecord]
           new      == [IdleCollector EXCEPT
                          !.pc = "applying", !.delay = self.delay,
                          !.fetchedAt = at, !.snap = snap, !.points = kept,
                          !.pending = writable, !.stale = stale, !.misses = missed]
<1>1. collector' = [collector EXCEPT ![c] = new]
  BY DEF Deliver
<1>2. collector[c].expiry = {}
  BY DEF Deliver, CoverInv, ExpiryWhileApplying
<1> HIDE DEF self, writable, missed, stale, at, snap, kept
<1>3. new.expiry = {}
  BY DEF IdleCollector
<1> HIDE DEF new
<1>4. UNCHANGED <<now, nextValueVersion, wheel, expiring, values>>
  BY DEF Deliver
<1>5. QED
  BY <1>1, <1>2, <1>3, <1>4, WorkerCover DEF FenceInv

LEMMA LockAndCheckCover ==
    ASSUME NEW c \in Collectors, NEW i \in Items
    PROVE  FenceInv /\ FenceInv' /\ CoverInv /\ LockAndCheck(c, i) => CoverInv'
<1> SUFFICES ASSUME FenceInv, FenceInv', CoverInv, LockAndCheck(c, i) PROVE CoverInv'
  OBVIOUS
<1>1. PICK new : /\ collector' = [collector EXCEPT ![c] = new]
                 /\ new.expiry = collector[c].expiry /\ new.pc = collector[c].pc
  <2>1. CASE metadataVersionCurrent(i, collector[c].snap[i].version)
    <3>1. collector' = [collector EXCEPT ![c] = collector[c]]
      BY <2>1 DEF LockAndCheck, FenceInv, TypeOK
    <3>2. QED
      BY <3>1
  <2>2. CASE ~metadataVersionCurrent(i, collector[c].snap[i].version)
    <3> DEFINE new == [collector[c] EXCEPT !.pending = @ \ {i}, !.stale = TRUE]
    <3>1. collector' = [collector EXCEPT ![c] = new]
      BY <2>2 DEF LockAndCheck, FenceInv, TypeOK
    <3>2. new.expiry = collector[c].expiry /\ new.pc = collector[c].pc
      BY FieldTypes DEF Collector, FenceInv
    <3> HIDE DEF new
    <3>3. QED
      BY <3>1, <3>2
  <2>3. QED
    BY <2>1, <2>2
<1>2. new.pc = "applying"
  BY <1>1 DEF LockAndCheck
<1>3. QED
  BY <1>1, <1>2, WorkerCover DEF LockAndCheck, FenceInv

LEMMA MarkMissCover ==
    ASSUME NEW c \in Collectors, NEW i \in Items
    PROVE  FenceInv /\ FenceInv' /\ CoverInv /\ MarkMiss(c, i) => CoverInv'
<1> SUFFICES ASSUME FenceInv, FenceInv', CoverInv, MarkMiss(c, i) PROVE CoverInv'
  OBVIOUS
<1> DEFINE left == [collector[c] EXCEPT !.misses = collector[c].misses \ {i}]
           new  == IF collector[c].misses = {i} THEN IdleCollector ELSE left
<1>1. collector[c].expiry = {}
  BY DEF MarkMiss, CoverInv, ExpiryWhileApplying
<1>2. collector' = [collector EXCEPT ![c] = new]
  BY DEF MarkMiss, FenceInv, TypeOK
<1>3. left.expiry = {} /\ IdleCollector.expiry = {}
  BY <1>1, FieldTypes DEF Collector, FenceInv, IdleCollector
<1>4. new.expiry = collector[c].expiry
  BY <1>1, <1>3
<1> HIDE DEF new
<1>5. \A j \in Items : values'[j] # Absent =>
        /\ values[j] # Absent
        /\ values'[j].valueVersion = values[j].valueVersion
        /\ values'[j].expireAt = values[j].expireAt
  <2> SUFFICES ASSUME NEW j \in Items, values'[j] # Absent
               PROVE  /\ values[j] # Absent
                      /\ values'[j].valueVersion = values[j].valueVersion
                      /\ values'[j].expireAt = values[j].expireAt
    OBVIOUS
  <2>1. CASE j # i
    BY <2>1 DEF MarkMiss, FenceInv, TypeOK
  <2>2. CASE j = i
    <3>1. values[i] # Absent /\ values'[i] = Missed(values[i], collector[c].fetchedAt)
      BY <2>2 DEF MarkMiss, FenceInv, TypeOK
    <3>2. values[i] \in ValueEntry
      BY <3>1 DEF FenceInv, TypeOK
    <3>3. QED
      BY <2>2, <3>1, <3>2 DEF Missed, ValueEntry
  <2>3. QED
    BY <2>1, <2>2
<1>6. UNCHANGED <<now, nextValueVersion, wheel, expiring>>
  BY DEF MarkMiss
<1>7. QED
  BY <1>1, <1>2, <1>4, <1>5, <1>6, WorkerCover DEF FenceInv

-----------------------------------------------------------------------------
(* The steps that create, move and drop expiry entries.                    *)

\* An insertion: the new generation and its expiry entry appear together, and
\* its version is above that of every entry and every value there is.
LEMMA InsertCover ==
    ASSUME NEW c \in Collectors, NEW i \in Items,
           FenceInv, FenceInv', CoverInv, Write(c, i), ~Unchanged(c, i)
    PROVE  CoverInv'
<1> DEFINE entry  == NewEntry(collector[c].points[i], collector[c].snap[i], NewVersion(i))
           e      == [item |-> i, valueVersion |-> entry.valueVersion,
                      expireAt |-> entry.expireAt]
           expiry == collector[c].expiry \cup {e}
           new    == [collector[c] EXCEPT !.pending = @ \ {i}, !.expiry = expiry]
<1>1. /\ nextValueVersion \in Nat /\ nextValueVersion' = nextValueVersion + 1
      /\ UNCHANGED <<now, wheel, expiring>>
      /\ values' = [values EXCEPT ![i] = entry]
  BY DEF Write, FenceInv, TypeOK
<1>2. collector' = [collector EXCEPT ![c] = new]
  BY DEF Write, NewExpiry, FenceInv, TypeOK
<1>3. collector[c].pc = "applying"
  BY DEF Write, FenceInv, PendingIsWritable
<1> HIDE DEF expiry
<1>4. new.expiry = expiry /\ new.pc = "applying"
  BY <1>3, FieldTypes DEF Collector, FenceInv
<1> HIDE DEF new
<1>5. /\ collector'[c] = new
      /\ \A d \in Collectors : d # c => collector'[d] = collector[d]
  BY <1>2 DEF FenceInv, TypeOK
<1>6. entry.valueVersion = nextValueVersion + 1
  BY DEF NewEntry, NewVersion
<1>7. /\ e.item = i /\ e.valueVersion = nextValueVersion + 1
      /\ e.expireAt = entry.expireAt
  BY <1>6
<1>8. e \in expiry /\ collector[c].expiry \subseteq expiry
      /\ \A x \in expiry : x \in collector[c].expiry \/ x = e
  BY DEF expiry
<1>9. values'[i] = entry /\ \A j \in Items : j # i => values'[j] = values[j]
  BY <1>1 DEF FenceInv, TypeOK
<1> HIDE DEF entry
<1>10. e = ExpiryOf(i)'
  BY <1>9 DEF ExpiryOf
<1> HIDE DEF e
<1>11. e \in AllExpiry'
  BY <1>4, <1>5, <1>8 DEF AllExpiry
<1>12. \A x \in AllExpiry : x \in AllExpiry'
  BY <1>1, <1>4, <1>5, <1>8 DEF AllExpiry
<1>13. \A x \in AllExpiry' : x \in AllExpiry \/ x = e
  BY <1>1, <1>4, <1>5, <1>8 DEF AllExpiry
<1>14. ExpiryCovered'
  <2> SUFFICES ASSUME NEW j \in Items, values'[j] # Absent
               PROVE  ExpiryOf(j)' \in AllExpiry'
    BY DEF ExpiryCovered
  <2>1. CASE j = i
    BY <2>1, <1>10, <1>11
  <2>2. CASE j # i
    <3>1. values'[j] = values[j] /\ ExpiryOf(j) \in AllExpiry
      BY <2>2, <1>9 DEF CoverInv, ExpiryCovered
    <3>2. ExpiryOf(j)' = ExpiryOf(j)
      BY <3>1 DEF ExpiryOf
    <3>3. QED
      BY <3>1, <3>2, <1>12
  <2>3. QED
    BY <2>1, <2>2
<1>15. VersionsUsed'
  <2>1. ASSUME NEW j \in Items, values'[j] # Absent
        PROVE  values'[j].valueVersion <= nextValueVersion'
    <3>1. CASE j = i
      BY <3>1, <1>1, <1>6, <1>9
    <3>2. CASE j # i
      <4>1. values'[j] = values[j] /\ values[j].valueVersion <= nextValueVersion
        BY <2>1, <3>2, <1>9 DEF CoverInv, VersionsUsed
      <4>2. values[j].valueVersion \in Nat
        BY <2>1, <4>1 DEF FenceInv, TypeOK, ValueEntry
      <4>3. QED
        BY <4>1, <4>2, <1>1
    <3>3. QED
      BY <3>1, <3>2
  <2>2. ASSUME NEW x \in AllExpiry' PROVE x.valueVersion <= nextValueVersion'
    <3>1. CASE x = e
      BY <3>1, <1>1, <1>7
    <3>2. CASE x \in AllExpiry
      BY <3>2, <1>1, AllExpiryTypes DEF FenceInv, CoverInv, VersionsUsed
    <3>3. QED
      BY <3>1, <3>2, <1>13
  <2>3. QED
    BY <2>1, <2>2 DEF VersionsUsed
<1>16. OneExpiryPerVersion'
  <2> SUFFICES ASSUME NEW x \in AllExpiry', SameGeneration(x)'
               PROVE  x.expireAt = values'[x.item].expireAt
    BY DEF OneExpiryPerVersion
  <2>1. CASE x = e
    BY <2>1, <1>7, <1>9
  <2>2. CASE x \in AllExpiry
    <3>1. x.item \in Items /\ x.valueVersion \in Nat /\ x.valueVersion <= nextValueVersion
      BY <2>2, AllExpiryTypes DEF FenceInv, CoverInv, VersionsUsed
    <3>2. values'[x.item].valueVersion = x.valueVersion
      BY DEF SameGeneration
    <3>3. x.item # i
      BY <3>1, <3>2, <1>1, <1>6, <1>9
    <3>4. values'[x.item] = values[x.item] /\ SameGeneration(x)
      BY <3>1, <3>3, <1>9 DEF SameGeneration
    <3>5. QED
      BY <2>2, <3>4 DEF CoverInv, OneExpiryPerVersion
  <2>3. QED
    BY <2>1, <2>2, <1>13
<1>17. ExpiryWhileApplying'
  BY <1>4, <1>5 DEF CoverInv, ExpiryWhileApplying
<1>18. ExpiringAreDue'
  BY <1>1 DEF CoverInv, ExpiringAreDue
<1>19. QED
  BY <1>14, <1>15, <1>16, <1>17, <1>18 DEF CoverInv

LEMMA WriteCover ==
    ASSUME NEW c \in Collectors, NEW i \in Items
    PROVE  FenceInv /\ FenceInv' /\ CoverInv /\ Write(c, i) => CoverInv'
<1> SUFFICES ASSUME FenceInv, FenceInv', CoverInv, Write(c, i) PROVE CoverInv'
  OBVIOUS
<1>1. CASE Unchanged(c, i)
  <2> DEFINE new == [collector[c] EXCEPT !.pending = @ \ {i}]
  <2>1. collector' = [collector EXCEPT ![c] = new]
    BY <1>1 DEF Write, FenceInv, TypeOK
  <2>2. collector[c].pc = "applying"
    BY DEF Write, FenceInv, PendingIsWritable
  <2>3. new.expiry = collector[c].expiry /\ new.pc = "applying"
    BY <2>2, FieldTypes DEF Collector, FenceInv
  <2> HIDE DEF new
  <2>4. UNCHANGED <<now, nextValueVersion, wheel, expiring, values>>
    BY <1>1 DEF Write
  <2>5. QED
    BY <2>1, <2>3, <2>4, WorkerCover DEF FenceInv
<1>2. CASE ~Unchanged(c, i)
  BY <1>2, InsertCover
<1>3. QED
  BY <1>1, <1>2

\* RegisterExpiry moves a worker's entries into the wheel.
LEMMA RegisterExpiryCover ==
    ASSUME NEW c \in Collectors
    PROVE  FenceInv /\ FenceInv' /\ CoverInv /\ RegisterExpiry(c) => CoverInv'
<1> SUFFICES ASSUME FenceInv, FenceInv', CoverInv, RegisterExpiry(c) PROVE CoverInv'
  OBVIOUS
<1>1. collector'[c].expiry = {}
  BY DEF RegisterExpiry, FenceInv, TypeOK, IdleCollector
<1>2. \A d \in Collectors : d # c => collector'[d] = collector[d]
  BY DEF RegisterExpiry, FenceInv, TypeOK
<1>3. wheel' = wheel \cup collector[c].expiry
  BY DEF RegisterExpiry
<1>4. UNCHANGED <<now, nextValueVersion, values, expiring>>
  BY DEF RegisterExpiry
<1>5. AllExpiry' = AllExpiry
  <2>1. \A x \in AllExpiry' : x \in AllExpiry
    BY <1>1, <1>2, <1>3, <1>4 DEF AllExpiry
  <2>2. \A x \in AllExpiry : x \in AllExpiry'
    BY <1>2, <1>3, <1>4 DEF AllExpiry
  <2>3. QED
    BY <2>1, <2>2
<1>6. ExpiryWhileApplying'
  BY <1>1, <1>2 DEF CoverInv, ExpiryWhileApplying
<1>7. now <= now'
  BY <1>4 DEF FenceInv, TypeOK
<1>8. QED
  BY <1>4, <1>5, <1>6, <1>7, CoverFrame DEF FenceInv

LEMMA TakeDueCover ==
    ASSUME NEW due \in SUBSET wheel
    PROVE  FenceInv /\ FenceInv' /\ CoverInv /\ TakeDue(due) => CoverInv'
<1> SUFFICES ASSUME FenceInv, FenceInv', CoverInv, TakeDue(due) PROVE CoverInv'
  OBVIOUS
<1>1. UNCHANGED <<now, nextValueVersion, values, collector>>
  BY DEF TakeDue
<1>2. wheel' \cup expiring' = wheel \cup expiring
  BY DEF TakeDue
<1>3. AllExpiry' = AllExpiry
  BY <1>1, <1>2 DEF AllExpiry
<1>4. ExpiryWhileApplying'
  BY <1>1 DEF CoverInv, ExpiryWhileApplying
<1>5. \A x \in expiring' : x.expireAt <= now
  BY DEF TakeDue, Due
<1>6. now <= now'
  BY <1>1 DEF FenceInv, TypeOK
<1>7. QED
  BY <1>1, <1>3, <1>4, <1>5, <1>6, CoverFrame DEF FenceInv

\* DeleteVersioned drops one entry.  Either it was the entry of the cached
\* generation, and the value goes with it, or the cached generation has another.
LEMMA DeleteVersionedCover ==
    ASSUME NEW x \in expiring
    PROVE  FenceInv /\ FenceInv' /\ CoverInv /\ DeleteVersioned(x) => CoverInv'
<1> SUFFICES ASSUME FenceInv, FenceInv', CoverInv, DeleteVersioned(x) PROVE CoverInv'
  OBVIOUS
<1>1. /\ UNCHANGED <<now, nextValueVersion, collector, wheel>>
      /\ expiring' = expiring \ {x}
  BY DEF DeleteVersioned
<1>2. x.item \in Items /\ x \in AllExpiry
  BY DEF FenceInv, TypeOK, ExpiryEntry, AllExpiry
<1>3. \A j \in Items : values'[j] # Absent =>
         values'[j] = values[j] /\ ~(j = x.item /\ SameGeneration(x))
  BY <1>2 DEF DeleteVersioned, FenceInv, TypeOK
<1>4. /\ \A y \in AllExpiry' : y \in AllExpiry
      /\ \A y \in AllExpiry : y # x => y \in AllExpiry'
  BY <1>1 DEF AllExpiry
<1>5. ExpiryCovered'
  <2> SUFFICES ASSUME NEW j \in Items, values'[j] # Absent
               PROVE  ExpiryOf(j)' \in AllExpiry'
    BY DEF ExpiryCovered
  <2>1. values'[j] = values[j] /\ values[j] # Absent
    BY <1>3
  <2>2. ExpiryOf(j)' = ExpiryOf(j) /\ ExpiryOf(j) \in AllExpiry
    BY <2>1 DEF ExpiryOf, CoverInv, ExpiryCovered
  <2>3. ExpiryOf(j) # x
    <3> SUFFICES ASSUME ExpiryOf(j) = x PROVE FALSE
      OBVIOUS
    <3>1. x.item = j /\ x.valueVersion = values[j].valueVersion
      BY DEF ExpiryOf
    <3>2. QED
      BY <2>1, <3>1, <1>3 DEF SameGeneration
  <2>4. QED
    BY <2>2, <2>3, <1>4
<1>6. VersionsUsed'
  BY <1>1, <1>3, <1>4 DEF CoverInv, VersionsUsed
<1>7. OneExpiryPerVersion'
  <2> SUFFICES ASSUME NEW y \in AllExpiry', SameGeneration(y)'
               PROVE  y.expireAt = values'[y.item].expireAt
    BY DEF OneExpiryPerVersion
  <2>1. y \in AllExpiry /\ y.item \in Items
    BY <1>4, AllExpiryTypes DEF FenceInv
  <2>2. values'[y.item] = values[y.item] /\ SameGeneration(y)
    BY <2>1, <1>3 DEF SameGeneration
  <2>3. QED
    BY <2>1, <2>2 DEF CoverInv, OneExpiryPerVersion
<1>8. ExpiryWhileApplying' /\ ExpiringAreDue'
  BY <1>1 DEF CoverInv, ExpiryWhileApplying, ExpiringAreDue
<1>9. QED
  BY <1>5, <1>6, <1>7, <1>8 DEF CoverInv

-----------------------------------------------------------------------------
LEMMA NextCover == FenceInv /\ FenceInv' /\ CoverInv /\ [Next]_vars => CoverInv'
<1> SUFFICES ASSUME FenceInv, FenceInv', CoverInv, [Next]_vars PROVE CoverInv'
  OBVIOUS
<1>1. CASE Tick
  BY <1>1, TickCover
<1>2. CASE MetadataLoop
  BY <1>2, MetadataLoopCover
<1>3. ASSUME NEW c \in Collectors, Collect(c) PROVE CoverInv'
  <2>1. CASE \E delay \in Delays : Dispatch(c, delay)
    BY <2>1, DispatchCover
  <2>2. CASE CaptureSnapshot(c)
    BY <2>2, CaptureSnapshotCover
  <2>3. CASE QueryFailed(c)
    BY <2>3, QueryFailedCover
  <2>4. CASE \E points \in Answers : Deliver(c, points)
    BY <2>4, DeliverCover
  <2>5. ASSUME NEW i \in Items, LockAndCheck(c, i) \/ Write(c, i) \/ MarkMiss(c, i)
        PROVE CoverInv'
    BY <2>5, LockAndCheckCover, WriteCover, MarkMissCover
  <2>6. CASE RegisterExpiry(c)
    BY <2>6, RegisterExpiryCover
  <2>7. QED
    BY <1>3, <2>1, <2>2, <2>3, <2>4, <2>5, <2>6 DEF Collect
<1>4. CASE ExpiryLoop
  BY <1>4, TakeDueCover, DeleteVersionedCover DEF ExpiryLoop
<1>5. CASE UNCHANGED vars
  <2>1. AllExpiry' = AllExpiry /\ ExpiryWhileApplying'
    BY <1>5 DEF vars, AllExpiry, CoverInv, ExpiryWhileApplying
  <2>2. now <= now'
    BY <1>5 DEF vars, FenceInv, TypeOK
  <2>3. QED
    BY <1>5, <2>1, <2>2, CoverFrame DEF vars, FenceInv
<1>6. QED
  BY <1>1, <1>2, <1>3, <1>4, <1>5 DEF Next

LEMMA CoverInvariant == Spec => [](FenceInv /\ CoverInv)
<1>1. Init => FenceInv /\ CoverInv
  BY InitFence, InitCover
<1>2. FenceInv /\ CoverInv /\ [Next]_vars => (FenceInv /\ CoverInv)'
  BY NextFence, NextCover
<1>3. QED
  BY <1>1, <1>2, PTL DEF Spec

\* RegisterExpiry after the unlock and the take-then-delete of ExpireDue lose no
\* expiry entry of a cached generation.
THEOREM NoGenerationLeaks == Spec => []ExpiryCovered
BY CoverInvariant, PTL DEF CoverInv

\* DeleteVersioned compares ValueVersion, versions are never reused, and an
\* entry with a value's version has its TTL: so a value disappears only after
\* its own TTL or because the metadata loop deletes its item.
THEOREM DeletedOnlyForCause == Spec => DeletedForCause
<1> DEFINE ForCause ==
        \A i \in Items : values[i] # Absent /\ values'[i] = Absent =>
            \/ values[i].expireAt <= now
            \/ i \in reconcile.removed \cup reconcile.changed
<1>1. FenceInv /\ FenceInv' /\ CoverInv /\ [Next]_vars => [ForCause]_vars
  <2> SUFFICES ASSUME FenceInv, FenceInv', CoverInv, Next,
                      NEW i \in Items, values[i] # Absent, values'[i] = Absent
               PROVE  \/ values[i].expireAt <= now
                      \/ i \in reconcile.removed \cup reconcile.changed
    OBVIOUS
  <2>1. values' # values
    OBVIOUS
  <2>2. CASE Tick
    BY <2>1, <2>2 DEF Tick
  <2>3. CASE MetadataLoop
    <3>1. PICK j \in Items : ReconcileDelete(j)
      BY <2>1, <2>3 DEF MetadataLoop, ApplySnapshot, ReplaceGroups
    <3>2. j = i
      BY <3>1 DEF ReconcileDelete, FenceInv, TypeOK
    <3>3. QED
      BY <3>1, <3>2 DEF ReconcileDelete
  <2>4. ASSUME NEW c \in Collectors, Collect(c)
        PROVE  FALSE
    <3>1. PICK j \in Items : Write(c, j) \/ MarkMiss(c, j)
      BY <2>1, <2>4 DEF Collect, Dispatch, CaptureSnapshot, QueryFailed, Deliver,
                        LockAndCheck, RegisterExpiry
    <3>2. CASE Write(c, j)
      <4>1. j \in collector[c].pending
        BY <3>2 DEF Write
      <4>2. /\ collector[c].snap[j] \in ItemMetadata
            /\ collector[c].points[j] \in Nat
        BY <4>1, FieldTypes, CacheAssumption DEF FenceInv, PendingIsWritable
      <4> DEFINE entry == NewEntry(collector[c].points[j], collector[c].snap[j],
                                   NewVersion(j))
      <4>3. entry \in ValueEntry
        BY <4>2, NewEntryIsEntry DEF NewVersion, FenceInv, TypeOK
      <4>4. values' = values \/ values' = [values EXCEPT ![j] = entry]
        BY <3>2 DEF Write
      <4>5. entry # Absent
        BY <4>3, NoValueAssumption
      <4> HIDE DEF entry
      <4>6. QED
        BY <4>4, <4>5 DEF FenceInv, TypeOK
    <3>3. CASE MarkMiss(c, j)
      <4>1. j = i /\ values'[i] = Missed(values[i], collector[c].fetchedAt)
        BY <3>3 DEF MarkMiss, FenceInv, TypeOK
      <4>2. Missed(values[i], collector[c].fetchedAt) \in ValueEntry
        BY MissedIsEntry, FieldTypes DEF FenceInv, TypeOK
      <4>3. QED
        BY <4>1, <4>2, NoValueAssumption
    <3>4. QED
      BY <3>1, <3>2, <3>3
  <2>5. CASE ExpiryLoop
    <3>1. PICK x \in expiring : DeleteVersioned(x)
      BY <2>1, <2>5 DEF ExpiryLoop, TakeDue
    <3>2. x.item = i /\ SameGeneration(x)
      BY <3>1 DEF DeleteVersioned, FenceInv, TypeOK
    <3>3. x \in AllExpiry /\ x.expireAt <= now
      BY DEF AllExpiry, CoverInv, ExpiringAreDue
    <3>4. QED
      BY <3>2, <3>3 DEF CoverInv, OneExpiryPerVersion
  <2>6. QED
    BY <2>2, <2>3, <2>4, <2>5 DEF Next
<1>2. FenceInv /\ [Next]_vars => FenceInv'
  BY NextFence
<1> HIDE DEF ForCause
<1>3. Spec => [][ForCause]_vars
  BY <1>1, <1>2, CoverInvariant, PTL DEF Spec
<1>4. QED
  BY <1>3 DEF ForCause, DeletedForCause

\* Two workers may apply answers for one item in either order; under one
\* definition the generation that wins always has the newer source clock.
THEOREM SourceMovesForward == Spec => SourceNeverRegresses
<1> DEFINE Forward ==
        \A i \in Items :
            /\ values[i] # Absent /\ values'[i] # Absent
            /\ values'[i].metadataVersion = values[i].metadataVersion
            /\ values'[i].valueVersion # values[i].valueVersion
            => values'[i].clock > values[i].clock
<1>1. FenceInv /\ [Next]_vars => [Forward]_vars
  <2> SUFFICES ASSUME FenceInv, Next, NEW i \in Items,
                      values[i] # Absent, values'[i] # Absent,
                      values'[i].metadataVersion = values[i].metadataVersion,
                      values'[i].valueVersion # values[i].valueVersion
               PROVE  values'[i].clock > values[i].clock
    OBVIOUS
  <2>1. values'[i] # values[i]
    OBVIOUS
  <2>2. CASE Tick
    BY <2>1, <2>2 DEF Tick
  <2>3. CASE MetadataLoop
    BY <2>1, <2>3 DEF MetadataLoop, ApplySnapshot, ReconcileDelete, ReplaceGroups,
                      FenceInv, TypeOK
  <2>4. ASSUME NEW c \in Collectors, Collect(c)
        PROVE  values'[i].clock > values[i].clock
    <3>1. PICK j \in Items : Write(c, j) \/ MarkMiss(c, j)
      BY <2>1, <2>4 DEF Collect, Dispatch, CaptureSnapshot, QueryFailed, Deliver,
                        LockAndCheck, RegisterExpiry
    <3>2. CASE Write(c, j)
      <4> DEFINE entry == NewEntry(collector[c].points[j], collector[c].snap[j],
                                   NewVersion(j))
      <4>1. ~Unchanged(c, j) /\ values' = [values EXCEPT ![j] = entry]
        BY <2>1, <3>2 DEF Write
      <4>2. j = i /\ values'[i] = entry
        BY <2>1, <4>1 DEF FenceInv, TypeOK
      <4>3. /\ entry.clock = collector[c].points[i]
            /\ entry.metadataVersion = collector[c].snap[i].version
        BY <4>2 DEF NewEntry
      <4>4. sourceIsNewer(collector[c].points[i], values[i])
        BY <4>1, <4>2, <4>3 DEF Unchanged
      <4>5. QED
        BY <4>2, <4>3, <4>4 DEF sourceIsNewer
    <3>3. CASE MarkMiss(c, j)
      <4>1. values'[i] = Missed(values[i], collector[c].fetchedAt)
        BY <2>1, <3>3 DEF MarkMiss, FenceInv, TypeOK
      <4>2. values[i] \in ValueEntry
        BY DEF FenceInv, TypeOK
      <4>3. values'[i].valueVersion = values[i].valueVersion
        BY <4>1, <4>2 DEF Missed, ValueEntry
      <4>4. QED
        BY <4>3
    <3>4. QED
      BY <3>1, <3>2, <3>3
  <2>5. CASE ExpiryLoop
    BY <2>1, <2>5 DEF ExpiryLoop, TakeDue, DeleteVersioned, FenceInv, TypeOK,
                      ExpiryEntry
  <2>6. QED
    BY <2>2, <2>3, <2>4, <2>5 DEF Next
<1> HIDE DEF Forward
<1>2. Spec => [][Forward]_vars
  BY <1>1, FenceInvariant, PTL DEF Spec
<1>3. QED
  BY <1>2 DEF Forward, SourceNeverRegresses

-----------------------------------------------------------------------------
(* When MarkMiss may mark a value invalid.  A miss carries the time of the *)
(* answer it comes from and is applied to whatever generation is cached    *)
(* when the shard is free; the invariant adds that no worker carries a     *)
(* time that has not come.                                                 *)

FetchedInPast == \A c \in Collectors : collector[c].fetchedAt <= now

-----------------------------------------------------------------------------
LEMMA GraceIsNat ==
    ASSUME NEW delay \in Nat
    PROVE  Grace(delay) \in Nat
<1>1. delay \div 5 \in Nat
  OBVIOUS
<1>2. QED
  BY <1>1, DurationAssumption DEF Grace, AtLeast

LEMMA FetchedFrame ==
    ASSUME FenceInv, FenceInv', FetchedInPast, NEW c \in Collectors, NEW new,
           collector' = [collector EXCEPT ![c] = new], now' = now,
           new.fetchedAt \in {0, now, collector[c].fetchedAt}
    PROVE  FetchedInPast'
<1>1. /\ collector'[c] = new
      /\ \A d \in Collectors : d # c => collector'[d] = collector[d]
  BY DEF FenceInv, TypeOK
<1>2. now \in Nat
  BY DEF FenceInv, TypeOK
<1>3. QED
  BY <1>1, <1>2 DEF FetchedInPast

LEMMA DeliverFetched ==
    ASSUME NEW c \in Collectors, NEW points \in Answers,
           FenceInv, FenceInv', FetchedInPast, Deliver(c, points)
    PROVE  FetchedInPast'
<1> DEFINE self == collector[c]
           Writable(i) == /\ points[i] \notin {NoRecord, BadRecord}
                          /\ StillAlive(points[i], self.delay, self.till)
                          /\ self.snap[i] # Absent
                          /\ self.snap[i].def.enabled
           writable == {i \in self.query : Writable(i)}
           missed   == {i \in self.query : points[i] = NoRecord}
           stale    == \E i \in self.query :
                          \/ self.snap[i] = Absent
                          \/ ~metadataVersionCurrent(i, self.snap[i].version)
           at       == IF missed = {} THEN 0 ELSE now
           snap     == [i \in Items |-> IF i \in writable THEN self.snap[i] ELSE Absent]
           kept     == [i \in Items |-> IF i \in writable THEN points[i] ELSE NoRecord]
           new      == [IdleCollector EXCEPT
                          !.pc = "applying", !.delay = self.delay,
                          !.fetchedAt = at, !.snap = snap, !.points = kept,
                          !.pending = writable, !.stale = stale, !.misses = missed]
<1>1. collector' = [collector EXCEPT ![c] = new] /\ now' = now
  BY DEF Deliver
<1>2. at \in {0, now}
  OBVIOUS
<1> HIDE DEF self, writable, missed, stale, at, snap, kept
<1>3. new.fetchedAt = at
  BY DEF IdleCollector
<1> HIDE DEF new
<1>4. QED
  BY <1>1, <1>2, <1>3, FetchedFrame

LEMMA CollectFetched ==
    ASSUME NEW c \in Collectors, FenceInv, FenceInv', FetchedInPast, Collect(c)
    PROVE  FetchedInPast'
<1>1. collector[c] \in Collector
  BY FieldTypes DEF FenceInv
<1>2. IdleCollector.fetchedAt = 0
  BY DEF IdleCollector
<1>3. ASSUME NEW delay \in Delays, Dispatch(c, delay) PROVE FetchedInPast'
  <2> DEFINE new == [collector[c] EXCEPT !.pc = "dispatched", !.delay = delay,
                                         !.query = GroupItems(delay), !.till = now]
  <2>1. new.fetchedAt = collector[c].fetchedAt
    BY <1>1 DEF Collector
  <2>2. collector' = [collector EXCEPT ![c] = new] /\ now' = now
    BY <1>3 DEF Dispatch
  <2> HIDE DEF new
  <2>3. QED
    BY <2>1, <2>2, FetchedFrame
<1>4. CASE CaptureSnapshot(c)
  <2> DEFINE new == [collector[c] EXCEPT !.pc = "querying", !.snap = snapshot.items]
  <2>1. new.fetchedAt = collector[c].fetchedAt
    BY <1>1 DEF Collector
  <2>2. collector' = [collector EXCEPT ![c] = new] /\ now' = now
    BY <1>4 DEF CaptureSnapshot, FenceInv, TypeOK
  <2> HIDE DEF new
  <2>3. QED
    BY <2>1, <2>2, FetchedFrame
<1>5. CASE QueryFailed(c)
  BY <1>2, <1>5, FetchedFrame DEF QueryFailed
<1>6. ASSUME NEW points \in Answers, Deliver(c, points) PROVE FetchedInPast'
  BY <1>6, DeliverFetched
<1>7. ASSUME NEW i \in Items, LockAndCheck(c, i) PROVE FetchedInPast'
  <2> DEFINE new == [collector[c] EXCEPT !.pending = @ \ {i}, !.stale = TRUE]
  <2>1. new.fetchedAt = collector[c].fetchedAt
    BY <1>1 DEF Collector
  <2>2. now' = now /\ (collector' = collector \/ collector' = [collector EXCEPT ![c] = new])
    BY <1>7 DEF LockAndCheck, FenceInv, TypeOK
  <2> HIDE DEF new
  <2>3. QED
    BY <2>1, <2>2, FetchedFrame DEF FetchedInPast
<1>8. ASSUME NEW i \in Items, Write(c, i) PROVE FetchedInPast'
  <2>1. now' = now
    BY <1>8 DEF Write
  <2> DEFINE entry  == NewEntry(collector[c].points[i], collector[c].snap[i],
                                NewVersion(i))
             expiry == collector[c].expiry \cup NewExpiry(i, entry)
             seen   == [collector[c] EXCEPT !.pending = @ \ {i}]
             new    == [collector[c] EXCEPT !.pending = @ \ {i}, !.expiry = expiry]
  <2>2. \/ collector' = [collector EXCEPT ![c] = seen]
        \/ collector' = [collector EXCEPT ![c] = new]
    BY <1>8 DEF Write, FenceInv, TypeOK
  <2> HIDE DEF expiry
  <2>3. /\ seen.fetchedAt = collector[c].fetchedAt
        /\ new.fetchedAt = collector[c].fetchedAt
    BY <1>1 DEF Collector
  <2> HIDE DEF new, seen
  <2>4. QED
    BY <2>1, <2>2, <2>3, FetchedFrame
<1>9. ASSUME NEW i \in Items, MarkMiss(c, i) PROVE FetchedInPast'
  <2> DEFINE left == [collector[c] EXCEPT !.misses = collector[c].misses \ {i}]
             new  == IF collector[c].misses = {i} THEN IdleCollector ELSE left
  <2>1. left.fetchedAt = collector[c].fetchedAt
    BY <1>1 DEF Collector
  <2>2. new.fetchedAt \in {0, collector[c].fetchedAt}
    BY <1>2, <2>1
  <2>3. collector' = [collector EXCEPT ![c] = new] /\ now' = now
    BY <1>9 DEF MarkMiss, FenceInv, TypeOK
  <2> HIDE DEF new
  <2>4. QED
    BY <2>2, <2>3, FetchedFrame
<1>10. CASE RegisterExpiry(c)
  <2> DEFINE next == [IdleCollector EXCEPT
                        !.pc = "missing", !.delay = collector[c].delay,
                        !.fetchedAt = collector[c].fetchedAt,
                        !.misses = collector[c].misses]
             new  == IF collector[c].stale \/ collector[c].misses = {}
                     THEN IdleCollector ELSE next
  <2>1. next.fetchedAt = collector[c].fetchedAt
    BY DEF IdleCollector
  <2>2. new.fetchedAt \in {0, collector[c].fetchedAt}
    BY <1>2, <2>1
  <2>3. collector' = [collector EXCEPT ![c] = new] /\ now' = now
    BY <1>10 DEF RegisterExpiry
  <2> HIDE DEF new
  <2>4. QED
    BY <2>2, <2>3, FetchedFrame
<1>11. QED
  BY <1>3, <1>4, <1>5, <1>6, <1>7, <1>8, <1>9, <1>10 DEF Collect

LEMMA NextFetched ==
    FenceInv /\ FenceInv' /\ FetchedInPast /\ [Next]_vars => FetchedInPast'
<1> SUFFICES ASSUME FenceInv, FenceInv', FetchedInPast, [Next]_vars
             PROVE  FetchedInPast'
  OBVIOUS
<1>1. CASE Tick
  BY <1>1, FieldTypes DEF Tick, FetchedInPast, FenceInv, TypeOK
<1>2. CASE MetadataLoop
  BY <1>2 DEF MetadataLoop, ApplySnapshot, ReconcileDelete, ReplaceGroups, FetchedInPast
<1>3. ASSUME NEW c \in Collectors, Collect(c) PROVE FetchedInPast'
  BY <1>3, CollectFetched
<1>4. CASE ExpiryLoop
  BY <1>4 DEF ExpiryLoop, TakeDue, DeleteVersioned, FetchedInPast
<1>5. CASE UNCHANGED vars
  BY <1>5 DEF vars, FetchedInPast
<1>6. QED
  BY <1>1, <1>2, <1>3, <1>4, <1>5 DEF Next

-----------------------------------------------------------------------------
\* What a step makes of one item's value: it keeps clock, delay and validity, or
\* the value is new and valid, or MarkMiss found it overdue.
LEMMA ValueStep ==
    ASSUME FenceInv, FetchedInPast, Next, NEW i \in Items,
           values'[i] # Absent, ~values'[i].valid
    PROVE  /\ values[i] # Absent
           /\ values'[i].clock = values[i].clock /\ values'[i].delay = values[i].delay
           /\ \/ ~values[i].valid
              \/ now > missInvalidAfter(values[i].clock, values[i].delay)
<1> DEFINE Kept == values[i] # Absent /\ values'[i] = values[i]
<1>1. CASE Tick
  BY <1>1 DEF Tick
<1>2. CASE MetadataLoop
  BY <1>2 DEF MetadataLoop, ApplySnapshot, ReconcileDelete, ReplaceGroups,
              FenceInv, TypeOK
<1>3. ASSUME NEW c \in Collectors, NEW j \in Items, Write(c, j) PROVE Kept
  <2> DEFINE entry == NewEntry(collector[c].points[j], collector[c].snap[j],
                               NewVersion(j))
  <2>1. values' = values \/ values' = [values EXCEPT ![j] = entry]
    BY <1>3 DEF Write
  <2>2. entry.valid
    BY DEF NewEntry
  <2> HIDE DEF entry
  <2>3. QED
    BY <2>1, <2>2 DEF FenceInv, TypeOK
<1>4. ASSUME NEW c \in Collectors, NEW j \in Items, MarkMiss(c, j), j = i
      PROVE  /\ values[i] # Absent
             /\ values'[i].clock = values[i].clock /\ values'[i].delay = values[i].delay
             /\ \/ ~values[i].valid
                \/ now > missInvalidAfter(values[i].clock, values[i].delay)
  <2>1. values[i] # Absent /\ values'[i] = Missed(values[i], collector[c].fetchedAt)
    BY <1>4 DEF MarkMiss, FenceInv, TypeOK
  <2>2. values[i] \in ValueEntry
    BY <2>1 DEF FenceInv, TypeOK
  <2> DEFINE misses  == IF values[i].misses < MaxMisses THEN values[i].misses + 1
                        ELSE values[i].misses
             overdue == collector[c].fetchedAt
                          > missInvalidAfter(values[i].clock, values[i].delay)
             valid   == values[i].valid /\ ~(misses >= MissThreshold /\ overdue)
  <2>3. values'[i] = [values[i] EXCEPT !.misses = misses, !.valid = valid]
    BY <2>1 DEF Missed
  <2> HIDE DEF valid, misses
  <2>4. /\ values'[i].clock = values[i].clock /\ values'[i].delay = values[i].delay
        /\ values'[i].valid = valid
    BY <2>2, <2>3 DEF ValueEntry
  <2>5. ~values[i].valid \/ overdue
    BY <2>4 DEF valid
  <2>6. missInvalidAfter(values[i].clock, values[i].delay) \in Nat
    BY <2>2, GraceIsNat DEF ValueEntry, missInvalidAfter
  <2>7. collector[c].fetchedAt \in Nat /\ now \in Nat /\ collector[c].fetchedAt <= now
    BY FieldTypes DEF FenceInv, TypeOK, FetchedInPast
  <2>8. QED
    BY <2>1, <2>4, <2>5, <2>6, <2>7
<1>5. ASSUME NEW c \in Collectors, Collect(c), ~Kept
      PROVE  \E j \in Items : MarkMiss(c, j) /\ j = i
  <2>1. PICK j \in Items : Write(c, j) \/ MarkMiss(c, j)
    BY <1>5 DEF Collect, Dispatch, CaptureSnapshot, QueryFailed, Deliver,
                LockAndCheck, RegisterExpiry
  <2>2. MarkMiss(c, j)
    BY <2>1, <1>3, <1>5
  <2>3. j = i
    BY <2>2, <1>5 DEF MarkMiss, FenceInv, TypeOK
  <2>4. QED
    BY <2>2, <2>3
<1>6. CASE ExpiryLoop
  BY <1>6 DEF ExpiryLoop, TakeDue, DeleteVersioned, FenceInv, TypeOK, ExpiryEntry
<1>7. CASE Kept
  BY <1>7
<1>8. QED
  BY <1>1, <1>2, <1>4, <1>5, <1>6, <1>7 DEF Next

LEMMA NextOverdue ==
    ASSUME FenceInv, FetchedInPast, InvalidOnlyWhenOverdue, [Next]_vars
    PROVE  InvalidOnlyWhenOverdue'
<1> SUFFICES ASSUME NEW i \in Items, values'[i] # Absent, ~values'[i].valid
             PROVE  now' > missInvalidAfter(values'[i].clock, values'[i].delay)
  BY DEF InvalidOnlyWhenOverdue
<1>1. CASE Next
  <2>1. /\ values[i] # Absent
        /\ values'[i].clock = values[i].clock /\ values'[i].delay = values[i].delay
        /\ now > missInvalidAfter(values[i].clock, values[i].delay)
    BY <1>1, ValueStep DEF InvalidOnlyWhenOverdue
  <2>2. now \in Nat /\ (now' = now \/ now' = now + 1)
    <3>1. Tick \/ UNCHANGED now
      <4>1. CASE MetadataLoop \/ ExpiryLoop
        BY <4>1 DEF MetadataLoop, ApplySnapshot, ReconcileDelete, ReplaceGroups,
                    ExpiryLoop, TakeDue, DeleteVersioned
      <4>2. ASSUME NEW c \in Collectors, Collect(c) PROVE UNCHANGED now
        <5>1. CASE \/ \E delay \in Delays : Dispatch(c, delay)
                   \/ CaptureSnapshot(c) \/ QueryFailed(c) \/ RegisterExpiry(c)
          BY <5>1 DEF Dispatch, CaptureSnapshot, QueryFailed, RegisterExpiry
        <5>2. CASE \E points \in Answers : Deliver(c, points)
          BY <5>2 DEF Deliver
        <5>3. CASE \E j \in Items : LockAndCheck(c, j) \/ Write(c, j) \/ MarkMiss(c, j)
          BY <5>3 DEF LockAndCheck, Write, MarkMiss
        <5>4. QED
          BY <4>2, <5>1, <5>2, <5>3 DEF Collect
      <4>3. QED
        BY <1>1, <4>1, <4>2 DEF Next
    <3>2. QED
      BY <3>1 DEF Tick, FenceInv, TypeOK
  <2>3. missInvalidAfter(values[i].clock, values[i].delay) \in Nat
    <3>1. values[i] \in ValueEntry
      BY <2>1 DEF FenceInv, TypeOK
    <3>2. QED
      BY <3>1, GraceIsNat DEF ValueEntry, missInvalidAfter
  <2>4. QED
    BY <2>1, <2>2, <2>3
<1>2. CASE UNCHANGED vars
  BY <1>2 DEF vars, InvalidOnlyWhenOverdue
<1>3. QED
  BY <1>1, <1>2

\* MarkMiss may hit a generation younger than the query that missed; a value is
\* invalid all the same only when its own delay and grace have passed.
THEOREM InvalidIsOverdue == Spec => []InvalidOnlyWhenOverdue
<1>1. Init => FetchedInPast /\ InvalidOnlyWhenOverdue
  BY DEF Init, FetchedInPast, InvalidOnlyWhenOverdue, IdleCollector
<1>2. FenceInv /\ FenceInv' /\ FetchedInPast /\ InvalidOnlyWhenOverdue /\ [Next]_vars
        => FetchedInPast' /\ InvalidOnlyWhenOverdue'
  BY NextFetched, NextOverdue
<1>3. QED
  BY <1>1, <1>2, FenceInvariant, PTL DEF Spec

-----------------------------------------------------------------------------
(* The value cache uses the expiry wheel as ExpirySet says: ExpiryWheel is *)
(* shown to implement ExpirySet, and here the wheel and expiring variables *)
(* of ValueCache are shown to be steps of the same specification.  What    *)
(* ExpirySet asks of its user is that an entry is registered once and that *)
(* a batch is dealt with before the next is taken.                         *)

VARIABLE registered   \* history: every entry RegisterExpiry has handed over

allVars == <<vars, registered>>

HistInit == Init /\ registered = {}

HistNext == [Next]_vars /\ registered' = registered \cup wheel'

HistSpec == HistInit /\ [][HistNext]_allVars

Expiry == INSTANCE ExpirySet
          WITH Entry <- ExpiryEntry, pending <- wheel, taken <- expiring

(***************************************************************************)
(* The inductive invariant.  That a worker's entries are new to the wheel  *)
(* when it registers them needs three facts from the moment they are       *)
(* created: registered entries have versions that were handed out, an      *)
(* unregistered entry is nowhere in the history, and no two workers hold   *)
(* the same one.                                                           *)
(***************************************************************************)
WheelIsRegistered == wheel \subseteq registered

RegisteredUsed ==
    \A x \in registered : x \in ExpiryEntry /\ x.valueVersion <= nextValueVersion

HeldIsNew == \A c \in Collectors : collector[c].expiry \cap registered = {}

HeldByOne ==
    \A c, d \in Collectors : c # d => collector[c].expiry \cap collector[d].expiry = {}

FreshInv == WheelIsRegistered /\ RegisteredUsed /\ HeldIsNew /\ HeldByOne

\* A step that registers nothing and collects no entry.
LEMMA FreshFrame ==
    ASSUME FreshInv, wheel' \subseteq wheel,
           registered' = registered \cup wheel',
           nextValueVersion' = nextValueVersion,
           \A c \in Collectors : collector'[c].expiry \subseteq collector[c].expiry
    PROVE  FreshInv' /\ registered' = registered
<1>1. registered' = registered
  BY DEF FreshInv, WheelIsRegistered
<1>2. WheelIsRegistered'
  BY <1>1 DEF FreshInv, WheelIsRegistered
<1>3. RegisteredUsed'
  BY <1>1 DEF FreshInv, RegisteredUsed
<1>4. HeldIsNew'
  BY <1>1 DEF FreshInv, HeldIsNew
<1>5. HeldByOne'
  BY DEF FreshInv, HeldByOne
<1>6. QED
  BY <1>1, <1>2, <1>3, <1>4, <1>5 DEF FreshInv

\* The worker's steps between the dispatch and the misses, RegisterExpiry and the
\* insertion left aside, keep the entries it has collected.
LEMMA CollectKeepsExpiry ==
    ASSUME NEW c \in Collectors, FenceInv, CoverInv, Collect(c),
           ~RegisterExpiry(c), nextValueVersion' = nextValueVersion
    PROVE  \A d \in Collectors : collector'[d].expiry \subseteq collector[d].expiry
<1>1. collector[c] \in Collector
  BY FieldTypes DEF FenceInv
<1>2. IdleCollector.expiry = {}
  BY DEF IdleCollector
<1>3. ASSUME NEW new, collector' = [collector EXCEPT ![c] = new],
             new.expiry \subseteq collector[c].expiry
      PROVE  \A d \in Collectors : collector'[d].expiry \subseteq collector[d].expiry
  BY <1>3 DEF FenceInv, TypeOK
<1>4. ASSUME NEW delay \in Delays, Dispatch(c, delay)
      PROVE  \A d \in Collectors : collector'[d].expiry \subseteq collector[d].expiry
  <2> DEFINE new == [collector[c] EXCEPT !.pc = "dispatched", !.delay = delay,
                                         !.query = GroupItems(delay), !.till = now]
  <2>1. collector' = [collector EXCEPT ![c] = new]
    BY <1>4 DEF Dispatch
  <2>2. new.expiry = collector[c].expiry
    BY <1>1 DEF Collector
  <2> HIDE DEF new
  <2>3. QED
    BY <2>1, <2>2, <1>3
<1>5. ASSUME CaptureSnapshot(c)
      PROVE  \A d \in Collectors : collector'[d].expiry \subseteq collector[d].expiry
  <2> DEFINE new == [collector[c] EXCEPT !.pc = "querying", !.snap = snapshot.items]
  <2>1. collector' = [collector EXCEPT ![c] = new]
    BY <1>5 DEF CaptureSnapshot, FenceInv, TypeOK
  <2>2. new.expiry = collector[c].expiry
    BY <1>1 DEF Collector
  <2> HIDE DEF new
  <2>3. QED
    BY <2>1, <2>2, <1>3
<1>6. ASSUME QueryFailed(c)
      PROVE  \A d \in Collectors : collector'[d].expiry \subseteq collector[d].expiry
  BY <1>2, <1>3, <1>6 DEF QueryFailed
<1>7. ASSUME NEW points \in Answers, Deliver(c, points)
      PROVE  \A d \in Collectors : collector'[d].expiry \subseteq collector[d].expiry
  <2> DEFINE self == collector[c]
             Writable(i) == /\ points[i] \notin {NoRecord, BadRecord}
                            /\ StillAlive(points[i], self.delay, self.till)
                            /\ self.snap[i] # Absent
                            /\ self.snap[i].def.enabled
             writable == {i \in self.query : Writable(i)}
             missed   == {i \in self.query : points[i] = NoRecord}
             stale    == \E i \in self.query :
                            \/ self.snap[i] = Absent
                            \/ ~metadataVersionCurrent(i, self.snap[i].version)
             at       == IF missed = {} THEN 0 ELSE now
             snap     == [i \in Items |-> IF i \in writable THEN self.snap[i] ELSE Absent]
             kept     == [i \in Items |-> IF i \in writable THEN points[i] ELSE NoRecord]
             new      == [IdleCollector EXCEPT
                            !.pc = "applying", !.delay = self.delay,
                            !.fetchedAt = at, !.snap = snap, !.points = kept,
                            !.pending = writable, !.stale = stale, !.misses = missed]
  <2>1. collector' = [collector EXCEPT ![c] = new]
    BY <1>7 DEF Deliver
  <2> HIDE DEF self, writable, missed, stale, at, snap, kept
  <2>2. new.expiry = {}
    BY DEF IdleCollector
  <2> HIDE DEF new
  <2>3. QED
    BY <2>1, <2>2, <1>3
<1>8. ASSUME NEW i \in Items, LockAndCheck(c, i)
      PROVE  \A d \in Collectors : collector'[d].expiry \subseteq collector[d].expiry
  <2>1. CASE metadataVersionCurrent(i, collector[c].snap[i].version)
    BY <1>8, <2>1 DEF LockAndCheck
  <2>2. CASE ~metadataVersionCurrent(i, collector[c].snap[i].version)
    <3> DEFINE new == [collector[c] EXCEPT !.pending = @ \ {i}, !.stale = TRUE]
    <3>1. collector' = [collector EXCEPT ![c] = new]
      BY <1>8, <2>2 DEF LockAndCheck, FenceInv, TypeOK
    <3>2. new.expiry = collector[c].expiry
      BY <1>1 DEF Collector
    <3> HIDE DEF new
    <3>3. QED
      BY <3>1, <3>2, <1>3
  <2>3. QED
    BY <2>1, <2>2
<1>9. ASSUME NEW i \in Items, Write(c, i)
      PROVE  \A d \in Collectors : collector'[d].expiry \subseteq collector[d].expiry
  <2> DEFINE new == [collector[c] EXCEPT !.pending = @ \ {i}]
  <2>1. nextValueVersion' # nextValueVersion + 1
    BY DEF FenceInv, TypeOK
  <2>2. collector' = [collector EXCEPT ![c] = new]
    BY <1>9, <2>1 DEF Write, FenceInv, TypeOK
  <2>3. new.expiry = collector[c].expiry
    BY <1>1 DEF Collector
  <2> HIDE DEF new
  <2>4. QED
    BY <2>2, <2>3, <1>3
<1>10. ASSUME NEW i \in Items, MarkMiss(c, i)
       PROVE  \A d \in Collectors : collector'[d].expiry \subseteq collector[d].expiry
  <2> DEFINE left == [collector[c] EXCEPT !.misses = collector[c].misses \ {i}]
             new  == IF collector[c].misses = {i} THEN IdleCollector ELSE left
  <2>1. collector' = [collector EXCEPT ![c] = new]
    BY <1>10 DEF MarkMiss, FenceInv, TypeOK
  <2>2. left.expiry = collector[c].expiry
    BY <1>1 DEF Collector
  <2>3. new.expiry \subseteq collector[c].expiry
    BY <1>2, <2>2
  <2> HIDE DEF new
  <2>4. QED
    BY <2>1, <2>3, <1>3
<1>11. QED
  BY <1>4, <1>5, <1>6, <1>7, <1>8, <1>9, <1>10 DEF Collect

\* An insertion collects an entry no one has: its version was never handed out.
LEMMA InsertFresh ==
    ASSUME NEW c \in Collectors, NEW i \in Items,
           FenceInv, FenceInv', CoverInv, FreshInv,
           Write(c, i), ~Unchanged(c, i), registered' = registered \cup wheel'
    PROVE  FreshInv' /\ registered' = registered
<1> DEFINE version == NewVersion(i)
           entry  == NewEntry(collector[c].points[i], collector[c].snap[i], version)
           e      == [item |-> i, valueVersion |-> entry.valueVersion,
                      expireAt |-> entry.expireAt]
           expiry == collector[c].expiry \cup {e}
           new    == [collector[c] EXCEPT !.pending = @ \ {i}, !.expiry = expiry]
<1>1. /\ nextValueVersion \in Nat /\ nextValueVersion' = nextValueVersion + 1
      /\ wheel' = wheel
  BY DEF Write, FenceInv, TypeOK
<1>2. collector' = [collector EXCEPT ![c] = new]
  BY DEF Write, NewExpiry, FenceInv, TypeOK
<1>3. e.valueVersion = nextValueVersion + 1
  BY DEF NewEntry, NewVersion
<1> HIDE DEF e
<1>4. new.expiry = collector[c].expiry \cup {e}
  BY FieldTypes DEF Collector, FenceInv
<1> HIDE DEF new
<1>5. /\ collector'[c].expiry = collector[c].expiry \cup {e}
      /\ \A d \in Collectors : d # c => collector'[d] = collector[d]
  BY <1>2, <1>4 DEF FenceInv, TypeOK
<1>6. registered' = registered
  BY <1>1 DEF FreshInv, WheelIsRegistered
<1>7. e \notin registered
  BY <1>1, <1>3 DEF FreshInv, RegisteredUsed, ExpiryEntry
<1>8. \A d \in Collectors : e \notin collector[d].expiry
  <2> SUFFICES ASSUME NEW d \in Collectors, e \in collector[d].expiry PROVE FALSE
    OBVIOUS
  <2>1. e \in AllExpiry
    BY DEF AllExpiry
  <2>2. e.valueVersion <= nextValueVersion
    BY <2>1 DEF CoverInv, VersionsUsed
  <2>3. QED
    BY <2>2, <1>1, <1>3
<1>9. WheelIsRegistered'
  BY <1>1, <1>6 DEF FreshInv, WheelIsRegistered
<1>10. RegisteredUsed'
  <2> SUFFICES ASSUME NEW x \in registered
               PROVE  x \in ExpiryEntry /\ x.valueVersion <= nextValueVersion'
    BY <1>6 DEF RegisteredUsed
  <2>1. x \in ExpiryEntry /\ x.valueVersion <= nextValueVersion
    BY DEF FreshInv, RegisteredUsed
  <2>2. x.valueVersion \in Nat
    BY <2>1 DEF ExpiryEntry
  <2>3. QED
    BY <2>1, <2>2, <1>1
<1>11. HeldIsNew'
  BY <1>5, <1>6, <1>7 DEF FreshInv, HeldIsNew
<1>12. HeldByOne'
  BY <1>5, <1>8 DEF FreshInv, HeldByOne
<1>13. QED
  BY <1>6, <1>9, <1>10, <1>11, <1>12 DEF FreshInv

\* RegisterExpiry hands over what one worker collected, all of it new.
LEMMA RegisterFresh ==
    ASSUME NEW c \in Collectors,
           FenceInv, CoverInv, FreshInv,
           RegisterExpiry(c), registered' = registered \cup wheel'
    PROVE  FreshInv' /\ Expiry!Register(collector[c].expiry)
<1>1. collector'[c].expiry = {}
  BY DEF RegisterExpiry, FenceInv, TypeOK, IdleCollector
<1>2. \A d \in Collectors : d # c => collector'[d] = collector[d]
  BY DEF RegisterExpiry, FenceInv, TypeOK
<1>3. wheel' = wheel \cup collector[c].expiry
  BY DEF RegisterExpiry
<1>4. UNCHANGED <<now, nextValueVersion, expiring>>
  BY DEF RegisterExpiry
<1>5. registered' = registered \cup collector[c].expiry
  BY <1>3 DEF FreshInv, WheelIsRegistered
<1>6. Expiry!Register(collector[c].expiry)
  BY <1>3, <1>4, <1>5 DEF Expiry!Register, FreshInv, HeldIsNew
<1>7. WheelIsRegistered'
  BY <1>3, <1>5 DEF FreshInv, WheelIsRegistered
<1>8. RegisteredUsed'
  <2> SUFFICES ASSUME NEW x \in collector[c].expiry
               PROVE  x \in ExpiryEntry /\ x.valueVersion <= nextValueVersion
    BY <1>4, <1>5 DEF FreshInv, RegisteredUsed
  <2>1. x \in AllExpiry
    BY DEF AllExpiry
  <2>2. x \in ExpiryEntry
    BY FieldTypes DEF FenceInv, TypeOK
  <2>3. QED
    BY <2>1, <2>2 DEF CoverInv, VersionsUsed
<1>9. HeldIsNew'
  BY <1>1, <1>2, <1>5 DEF FreshInv, HeldIsNew, HeldByOne
<1>10. HeldByOne'
  BY <1>1, <1>2 DEF FreshInv, HeldByOne
<1>11. QED
  BY <1>6, <1>7, <1>8, <1>9, <1>10 DEF FreshInv

\* Every step of the cache is a step of the set, or leaves the set alone.
LEMMA NextUsesExpirySet ==
    ASSUME FenceInv, FenceInv', CoverInv, FreshInv, HistNext
    PROVE  FreshInv' /\ [Expiry!Next]_(Expiry!vars)
<1>1. registered' = registered \cup wheel'
  BY DEF HistNext
<1>2. ASSUME UNCHANGED <<nextValueVersion, collector>>, wheel' \subseteq wheel
      PROVE  FreshInv' /\ registered' = registered
  BY <1>1, <1>2, FreshFrame
<1>3. CASE Tick
  <2>1. FreshInv' /\ registered' = registered
    BY <1>2, <1>3 DEF Tick
  <2>2. Expiry!Tick
    BY <2>1, <1>3 DEF Expiry!Tick, Tick
  <2>3. QED
    BY <2>1, <2>2 DEF Expiry!Next
<1>4. CASE MetadataLoop
  <2>1. UNCHANGED <<now, nextValueVersion, collector, wheel, expiring>>
    BY <1>4 DEF MetadataLoop, ApplySnapshot, ReconcileDelete, ReplaceGroups
  <2>2. QED
    BY <2>1, <1>2 DEF Expiry!vars
<1>5. ASSUME NEW c \in Collectors, Collect(c)
      PROVE  FreshInv' /\ [Expiry!Next]_(Expiry!vars)
  <2>1. CASE RegisterExpiry(c)
    <3>1. collector[c].expiry \in SUBSET ExpiryEntry
      BY FieldTypes DEF FenceInv, TypeOK
    <3>2. QED
      BY <2>1, <3>1, <1>1, RegisterFresh DEF Expiry!Next
  <2>2. CASE ~RegisterExpiry(c)
    <3>1. UNCHANGED <<now, wheel, expiring>>
      BY <1>5, <2>2 DEF Collect, Dispatch, CaptureSnapshot, QueryFailed, Deliver,
                        LockAndCheck, Write, MarkMiss
    <3>2. CASE \E i \in Items : Write(c, i) /\ ~Unchanged(c, i)
      <4>1. FreshInv' /\ registered' = registered
        BY <3>2, <1>1, InsertFresh
      <4>2. QED
        BY <4>1, <3>1 DEF Expiry!vars
    <3>3. CASE ~\E i \in Items : Write(c, i) /\ ~Unchanged(c, i)
      <4>1. nextValueVersion' = nextValueVersion
        BY <1>5, <2>2, <3>3
        DEF Collect, Dispatch, CaptureSnapshot, QueryFailed, Deliver,
            LockAndCheck, Write, MarkMiss
      <4>2. \A d \in Collectors : collector'[d].expiry \subseteq collector[d].expiry
        BY <1>5, <2>2, <4>1, CollectKeepsExpiry
      <4>3. FreshInv' /\ registered' = registered
        BY <4>1, <4>2, <3>1, <1>1, FreshFrame
      <4>4. QED
        BY <4>3, <3>1 DEF Expiry!vars
    <3>4. QED
      BY <3>2, <3>3
  <2>3. QED
    BY <2>1, <2>2
<1>6. ASSUME NEW due \in SUBSET wheel, TakeDue(due)
      PROVE  FreshInv' /\ [Expiry!Next]_(Expiry!vars)
  <2>1. FreshInv' /\ registered' = registered
    BY <1>2, <1>6 DEF TakeDue
  <2>2. Expiry!Take(due)
    BY <2>1, <1>6 DEF Expiry!Take, TakeDue, Due
  <2>3. QED
    BY <2>1, <2>2 DEF Expiry!Next
<1>7. ASSUME NEW x \in expiring, DeleteVersioned(x)
      PROVE  FreshInv' /\ [Expiry!Next]_(Expiry!vars)
  <2>1. FreshInv' /\ registered' = registered
    BY <1>2, <1>7 DEF DeleteVersioned
  <2>2. Expiry!Handle(x)
    BY <2>1, <1>7 DEF Expiry!Handle, DeleteVersioned
  <2>3. QED
    BY <2>1, <2>2 DEF Expiry!Next
<1>8. CASE UNCHANGED vars
  <2>1. UNCHANGED <<now, nextValueVersion, collector, wheel, expiring>>
    BY <1>8 DEF vars
  <2>2. QED
    BY <2>1, <1>2 DEF Expiry!vars
<1>9. CASE ExpiryLoop
  BY <1>9, <1>6, <1>7 DEF ExpiryLoop
<1>10. CASE \E c \in Collectors : Collect(c)
  BY <1>10, <1>5
<1>11. QED
  BY <1>3, <1>4, <1>8, <1>9, <1>10 DEF HistNext, Next

\* RegisterExpiry hands the wheel only entries it never had, although the write
\* of an entry and its registration are apart and workers' registrations arrive
\* in any order; ExpireDue takes due ones, after the last batch was deleted.  So
\* the cache uses the wheel as ExpirySet says, which ExpiryWheel implements.
THEOREM CacheUsesExpirySet == HistSpec => Expiry!Spec
<1>1. HistInit => FenceInv /\ CoverInv /\ FreshInv /\ Expiry!Init
  <2> SUFFICES ASSUME HistInit PROVE FenceInv /\ CoverInv /\ FreshInv /\ Expiry!Init
    OBVIOUS
  <2>1. \A c \in Collectors : collector[c].expiry = {}
    BY DEF HistInit, Init, IdleCollector
  <2>2. FreshInv
    BY <2>1 DEF HistInit, Init, FreshInv, WheelIsRegistered, RegisteredUsed,
                HeldIsNew, HeldByOne
  <2>3. Expiry!Init
    BY DEF HistInit, Init, Expiry!Init
  <2>4. QED
    BY <2>2, <2>3, InitFence, InitCover DEF HistInit
<1>2. FenceInv /\ CoverInv /\ FreshInv /\ [HistNext]_allVars
        => FenceInv' /\ CoverInv' /\ FreshInv' /\ [Expiry!Next]_(Expiry!vars)
  <2> SUFFICES ASSUME FenceInv, CoverInv, FreshInv, [HistNext]_allVars
               PROVE  FenceInv' /\ CoverInv' /\ FreshInv' /\ [Expiry!Next]_(Expiry!vars)
    OBVIOUS
  <2>1. HistNext
    BY DEF HistNext, allVars, vars, FreshInv, WheelIsRegistered
  <2>2. FenceInv' /\ CoverInv'
    BY <2>1, NextFence, NextCover DEF HistNext
  <2>3. QED
    BY <2>1, <2>2, NextUsesExpirySet
<1>3. QED
  BY <1>1, <1>2, PTL DEF HistSpec, Expiry!Spec
=============================================================================
