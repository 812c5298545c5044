-------------------------- MODULE ShardScanProofs --------------------------
(* What a scrape is owed, for every number of shards and items, every page *)
(* size and every compaction threshold.  The scan order names every cached *)
(* value, and its numbers only grow; so a value that is neither deleted    *)
(* nor emitted stays ahead of the cursor, and everything emitted is behind *)
(* it.                                                                     *)
EXTENDS ShardScan, FiniteSetTheorems, FunctionTheorems, TLAPS

Key(i) == [sequence |-> values[i].sequence, item |-> i]

KeysInOrder ==
    \A h \in Shards :
        /\ IsFiniteSet(order[h])
        /\ \A k \in order[h] :
              ShardOf[k.item] = h /\ 0 < k.sequence /\ k.sequence <= nextSequence[h]

LiveNamed == \A i \in Items : values[i] # Absent => Key(i) \in order[ShardOf[i]]

OrderInv == TypeOK /\ KeysInOrder /\ LiveNamed

\* An update keeps the item's place.
PlaceKept ==
    \A i \in Items : values[i] # Absent /\ values'[i] # Absent
                       => values'[i].sequence = values[i].sequence

-----------------------------------------------------------------------------
LEMMA Shape ==
    ASSUME OrderInv
    PROVE  /\ \A i \in Items : /\ ShardOf[i] \in Shards
                               /\ values[i] # Absent =>
                                    /\ values[i] \in Entry
                                    /\ values[i].sequence \in Nat /\ 0 < values[i].sequence
                                    /\ values[i].sequence <= nextSequence[ShardOf[i]]
           /\ \A h \in Shards : nextSequence[h] \in Nat /\ tombstones[h] \in Nat
           /\ NumShards \in Nat /\ Shards \subseteq Int
<1>1. NumShards \in Nat /\ ShardOf \in [Items -> Shards]
  BY ScanAssumption DEF Shards
<1>2. ASSUME NEW i \in Items, values[i] # Absent
      PROVE  /\ values[i] \in Entry
             /\ values[i].sequence \in Nat /\ 0 < values[i].sequence
             /\ values[i].sequence <= nextSequence[ShardOf[i]]
  <2>1. values[i] \in Entry
    BY <1>2 DEF OrderInv, TypeOK
  <2>2. values[i].sequence \in Nat
    BY <2>1 DEF Entry
  <2>3. Key(i) \in order[ShardOf[i]] /\ Key(i).sequence = values[i].sequence
    BY <1>2 DEF OrderInv, LiveNamed, Key
  <2>4. QED
    BY <1>1, <2>1, <2>2, <2>3 DEF OrderInv, KeysInOrder
<1>3. QED
  BY <1>1, <1>2 DEF Shards, OrderInv, TypeOK

ScanType == [running : BOOLEAN, shard : Shards, sequence : Nat,
             count : 0 .. PageSize - 1, page : Nat, timestamp : Nat,
             snap : [Items -> Nat]]

LEMMA IdleScanType == IdleScan \in ScanType
<1>1. 0 \in Shards /\ 0 \in 0 .. PageSize - 1
  BY ScanAssumption DEF Shards
<1>2. QED
  BY <1>1 DEF IdleScan, ScanType

LEMMA InitOrder == Init => OrderInv
<1> SUFFICES ASSUME Init PROVE OrderInv
  OBVIOUS
<1> USE DEF Init
<1>2. TypeOK
  BY IdleScanType DEF TypeOK, ScanType
<1>3. KeysInOrder
  BY FS_EmptySet DEF KeysInOrder
<1>4. LiveNamed
  BY DEF LiveNamed
<1>5. QED
  BY <1>2, <1>3, <1>4 DEF OrderInv
-----------------------------------------------------------------------------
(* The writers keep the order.                                             *)

\* A step that leaves the order, and the presence of every item, alone.
SameOrder ==
    /\ UNCHANGED <<order, nextSequence, tombstones>>
    /\ values' \in [Items -> Entry \cup {Absent}]
    /\ \A i \in Items : /\ values'[i] # Absent <=> values[i] # Absent
                        /\ values[i] # Absent => values'[i].sequence = values[i].sequence

LEMMA SameOrderKeeps ==
    ASSUME OrderInv, TypeOK', SameOrder
    PROVE  OrderInv' /\ PlaceKept
<1>1. KeysInOrder'
  BY DEF OrderInv, KeysInOrder, SameOrder
<1>2. ASSUME NEW i \in Items, values'[i] # Absent
      PROVE  Key(i)' \in order'[ShardOf[i]]
  BY <1>2 DEF OrderInv, LiveNamed, SameOrder, Key
<1>3. QED
  BY <1>1, <1>2 DEF OrderInv, LiveNamed, PlaceKept, SameOrder

LEMMA CacheUnchanged ==
    ASSUME OrderInv, UNCHANGED cache
    PROVE  SameOrder
BY DEF OrderInv, TypeOK, cache, SameOrder

LEMMA FrameTypes ==
    ASSUME OrderInv, ScanUnmoved, steady' \subseteq Items
    PROVE  /\ emitted' \subseteq Sample
           /\ scan' \in ScanType
BY DEF OrderInv, TypeOK, ScanUnmoved, ScanType

LEMMA ApplyKeeps ==
    ASSUME NEW i \in Items, NEW clock \in Clocks, NEW version \in 1 .. snapshot,
           OrderInv, ApplyRecord(i, clock, version), steady' \subseteq Items
    PROVE  OrderInv' /\ PlaceKept
<1> DEFINE h == ShardOf[i]
           s == SequenceFor(i)
           e == [sequence |-> s, clock |-> clock, definition |-> version, valid |-> TRUE]
           k == [sequence |-> s, item |-> i]
<1>1. /\ values' = [values EXCEPT ![i] = e]
      /\ order' = [order EXCEPT ![h] = @ \cup {k}]
      /\ nextSequence' = [nextSequence EXCEPT ![h] = IF s > @ THEN s ELSE @]
      /\ UNCHANGED <<now, snapshot, definition, changed, tombstones>>
      /\ ScanUnmoved
  BY DEF ApplyRecord
<1>2. h \in Shards /\ nextSequence[h] \in Nat
  BY Shape
<1>3. s \in Nat /\ 0 < s
  BY <1>2, Shape DEF SequenceFor
<1>4. e \in Entry
  <2>1. clock \in Nat /\ version \in Nat
    BY ScanAssumption DEF OrderInv, TypeOK
  <2>2. QED
    BY <1>3, <2>1 DEF Entry
<1>5. k \in ScanKey
  BY <1>3 DEF ScanKey
<1>6. /\ values'[i] = e /\ \A j \in Items : j # i => values'[j] = values[j]
      /\ order'[h] = order[h] \cup {k}
      /\ \A g \in Shards : g # h => order'[g] = order[g]
      /\ nextSequence'[h] \in Nat /\ nextSequence'[h] >= s
      /\ nextSequence'[h] >= nextSequence[h]
      /\ \A g \in Shards : g # h => nextSequence'[g] = nextSequence[g]
  BY <1>1, <1>2, <1>3 DEF OrderInv, TypeOK
<1>7. TypeOK'
  <2>1. /\ values' \in [Items -> Entry \cup {Absent}]
        /\ order' \in [Shards -> SUBSET ScanKey]
        /\ nextSequence' \in [Shards -> Nat]
    BY <1>1, <1>2, <1>4, <1>5, <1>6 DEF OrderInv, TypeOK
  <2>2. QED
    BY <1>1, <2>1, FrameTypes DEF OrderInv, TypeOK, ScanType
<1>8. KeysInOrder'
  <2>1. ASSUME NEW g \in Shards
        PROVE  /\ IsFiniteSet(order'[g])
               /\ \A j \in order'[g] : /\ ShardOf[j.item] = g
                                      /\ 0 < j.sequence /\ j.sequence <= nextSequence'[g]
    <3>1. IsFiniteSet(order[g])
      BY DEF OrderInv, KeysInOrder
    <3>2. IsFiniteSet(order[g] \cup {k})
      BY <3>1, FS_AddElement
    <3>3. IsFiniteSet(order'[g])
      BY <1>6, <3>1, <3>2
    <3>4. ASSUME NEW j \in order'[g]
          PROVE  ShardOf[j.item] = g /\ 0 < j.sequence /\ j.sequence <= nextSequence'[g]
      <4>1. CASE j \in order[g]
        <5>1. j.sequence \in Nat /\ nextSequence[g] \in Nat
          BY <4>1, Shape DEF OrderInv, TypeOK, ScanKey
        <5>2. ShardOf[j.item] = g /\ 0 < j.sequence /\ j.sequence <= nextSequence[g]
          BY <4>1 DEF OrderInv, KeysInOrder
        <5>3. nextSequence'[g] >= nextSequence[g] /\ nextSequence'[g] \in Nat
          BY <1>6, <5>1
        <5>4. QED
          BY <5>1, <5>2, <5>3
      <4>2. CASE j = k /\ g = h
        BY <4>2, <1>3, <1>6
      <4>3. QED
        BY <4>1, <4>2, <1>6
    <3>5. QED
      BY <3>3, <3>4
  <2>2. QED
    BY <2>1 DEF KeysInOrder
<1>9. LiveNamed'
  <2>1. ASSUME NEW j \in Items, values'[j] # Absent
        PROVE  Key(j)' \in order'[ShardOf[j]]
    <3>1. CASE j = i
      BY <3>1, <1>6 DEF Key
    <3>2. CASE j # i
      <4>1. Key(j)' = Key(j)
        BY <3>2, <1>6 DEF Key
      <4>2. Key(j) \in order[ShardOf[j]] /\ ShardOf[j] \in Shards
        BY <3>2, <2>1, <1>6, Shape DEF OrderInv, LiveNamed
      <4>3. QED
        BY <4>1, <4>2, <1>6
    <3>3. QED
      BY <3>1, <3>2
  <2>2. QED
    BY <2>1 DEF LiveNamed
<1>10. PlaceKept
  <2>1. values[i] # Absent => s = values[i].sequence
    BY DEF SequenceFor
  <2>2. QED
    BY <1>6, <2>1 DEF PlaceKept
<1>11. QED
  BY <1>7, <1>8, <1>9, <1>10 DEF OrderInv

\* What is left of the cache and of the order after a deletion.
LEMMA RemoveKeeps ==
    ASSUME NEW h \in Shards, NEW batch, OrderInv, Remove(h, batch)
    PROVE  /\ values' \in [Items -> Entry \cup {Absent}]
           /\ order' \in [Shards -> SUBSET ScanKey]
           /\ tombstones' \in [Shards -> Nat]
           /\ nextSequence' = nextSequence
           /\ KeysInOrder' /\ LiveNamed' /\ PlaceKept
           /\ \A i \in Items : values'[i] = Absent \/ values'[i] = values[i]
<1> DEFINE gone == batch \cap Present(h)
           left == [i \in Items |-> IF i \in gone THEN Absent ELSE values[i]]
           dead == tombstones[h] + Cardinality(gone)
<1>1. values' = left /\ nextSequence' = nextSequence
  BY DEF Remove
<1>2. \/ /\ order' = [order EXCEPT ![h] = {k \in @ : LiveKey(left, k)}]
         /\ tombstones' = [tombstones EXCEPT ![h] = 0]
      \/ order' = order /\ tombstones' = [tombstones EXCEPT ![h] = dead]
  BY DEF Remove, Compacted
<1>3. dead \in Nat
  <2>1. IsFiniteSet(gone)
    BY ScanAssumption, FS_Subset DEF Present, ItemsOf
  <2>2. QED
    BY <2>1, FS_CardinalityType, Shape
<1>4. /\ left \in [Items -> Entry \cup {Absent}]
      /\ \A i \in Items : left[i] = Absent \/ left[i] = values[i]
  BY DEF OrderInv, TypeOK
<1> HIDE DEF gone, left, dead
<1>5. tombstones' \in [Shards -> Nat]
  BY <1>2, <1>3 DEF OrderInv, TypeOK
<1>6. \A g \in Shards : /\ order'[g] \subseteq order[g]
                        /\ \A k \in order[g] : LiveKey(left, k) => k \in order'[g]
  BY <1>2 DEF OrderInv, TypeOK
<1>7. order' \in [Shards -> SUBSET ScanKey]
  BY <1>2, <1>6 DEF OrderInv, TypeOK
<1>8. KeysInOrder'
  <2>1. ASSUME NEW g \in Shards PROVE IsFiniteSet(order'[g])
    BY <1>6, FS_Subset DEF OrderInv, KeysInOrder
  <2>2. QED
    BY <1>1, <1>6, <2>1 DEF OrderInv, KeysInOrder
<1>9. LiveNamed'
  <2>1. ASSUME NEW i \in Items, left[i] # Absent
        PROVE  Key(i)' \in order'[ShardOf[i]]
    <3>1. left[i] = values[i] /\ values[i] # Absent
      BY <2>1, <1>4
    <3>2. Key(i) \in order[ShardOf[i]] /\ ShardOf[i] \in Shards
      BY <3>1, Shape DEF OrderInv, LiveNamed
    <3>3. Key(i)' = Key(i)
      BY <3>1, <1>1 DEF Key
    <3>4. LiveKey(left, Key(i))
      BY <2>1, <3>1 DEF LiveKey, Key
    <3>5. QED
      BY <1>6, <3>2, <3>3, <3>4
  <2>2. QED
    BY <1>1, <2>1 DEF LiveNamed
<1>10. PlaceKept
  BY <1>1, <1>4 DEF PlaceKept
<1>11. QED
  BY <1>1, <1>4, <1>5, <1>7, <1>8, <1>9, <1>10
-----------------------------------------------------------------------------
(* The scrape's own steps.                                                 *)

LEMMA ReadableKeys ==
    ASSUME OrderInv
    PROVE  /\ scan.shard \in Shards /\ scan.sequence \in Nat /\ scan.page \in Nat
           /\ scan.count \in 0 .. PageSize - 1
           /\ IsFiniteSet(Readable) /\ Cardinality(Readable) \in Nat
           /\ \A k \in Readable :
                 /\ k \in order[scan.shard]
                 /\ k.item \in Items /\ k.sequence \in Nat
                 /\ ShardOf[k.item] = scan.shard
                 /\ scan.sequence < k.sequence
                 /\ values[k.item] # Absent /\ values[k.item].sequence = k.sequence
<1>1. /\ scan.shard \in Shards /\ scan.sequence \in Nat /\ scan.page \in Nat
      /\ scan.count \in 0 .. PageSize - 1
  BY DEF OrderInv, TypeOK
<1>2. Readable \subseteq order[scan.shard] /\ order[scan.shard] \subseteq ScanKey
  BY <1>1 DEF OrderInv, TypeOK, Readable
<1>3. IsFiniteSet(Readable)
  BY <1>1, <1>2, FS_Subset DEF OrderInv, KeysInOrder
<1>4. Cardinality(Readable) \in Nat
  BY <1>3, FS_CardinalityType
<1>5. ASSUME NEW k \in Readable
      PROVE  /\ k \in order[scan.shard]
             /\ k.item \in Items /\ k.sequence \in Nat
             /\ ShardOf[k.item] = scan.shard
             /\ scan.sequence < k.sequence
             /\ values[k.item] # Absent /\ values[k.item].sequence = k.sequence
  <2>1. k \in order[scan.shard] /\ k \in ScanKey
    BY <1>2
  <2>2. AfterCursor(k) /\ LiveKey(values, k)
    BY DEF Readable
  <2>3. k.item \in Items /\ k.sequence \in Nat
    BY <2>1 DEF ScanKey
  <2>4. ShardOf[k.item] = scan.shard
    BY <1>1, <2>1 DEF OrderInv, KeysInOrder
  <2>5. QED
    BY <1>1, <2>1, <2>2, <2>3, <2>4 DEF AfterCursor, LiveKey
<1>6. QED
  BY <1>1, <1>3, <1>4, <1>5

\* A key in front of the last of a page is on that page.
LEMMA FirstOfIsPrefix ==
    ASSUME NEW room, OrderInv, NEW last \in FirstOf(Readable, room),
           NEW k \in Readable, k.sequence <= last.sequence, room \in Nat
    PROVE  k \in FirstOf(Readable, room)
<1> DEFINE UpTo(x) == {j \in Readable : j.sequence <= x.sequence}
<1>1. /\ IsFiniteSet(Readable) /\ last \in Readable
      /\ \A j \in Readable : j.sequence \in Nat
  BY ReadableKeys DEF FirstOf
<1>2. UpTo(k) \subseteq UpTo(last)
  BY <1>1
<1>3. IsFiniteSet(UpTo(last)) /\ IsFiniteSet(UpTo(k))
  BY <1>1, FS_Subset
<1>4. Cardinality(UpTo(k)) <= Cardinality(UpTo(last))
  BY <1>2, <1>3, FS_Subset
<1>5. Cardinality(UpTo(k)) \in Nat /\ Cardinality(UpTo(last)) \in Nat
  BY <1>3, FS_CardinalityType
<1>6. Cardinality(UpTo(last)) <= room
  BY DEF FirstOf
<1>7. Cardinality(UpTo(k)) <= room
  BY <1>4, <1>5, <1>6
<1>8. QED
  BY <1>7 DEF FirstOf

LEMMA SampleOf ==
    ASSUME OrderInv, NEW keys \in SUBSET Readable
    PROVE  /\ Samples(keys) \subseteq Sample
           /\ \A x \in Samples(keys) :
                 /\ [sequence |-> x.sequence, item |-> x.item] \in Readable
                 /\ [sequence |-> x.sequence, item |-> x.item] \in keys
                 /\ x.page = scan.page /\ x.clock = values[x.item].clock
           /\ \A k \in keys : values[k.item].definition = scan.snap[k.item] =>
                 \E x \in Samples(keys) : x.item = k.item
<1>1. ASSUME NEW x \in Samples(keys)
      PROVE  /\ x \in Sample
             /\ [sequence |-> x.sequence, item |-> x.item] \in Readable
             /\ [sequence |-> x.sequence, item |-> x.item] \in keys
             /\ x.page = scan.page /\ x.clock = values[x.item].clock
  <2>1. PICK k \in keys : x = [page |-> scan.page, item |-> k.item,
                               sequence |-> k.sequence, clock |-> values[k.item].clock]
    BY DEF Samples
  <2>2. /\ k.item \in Items /\ k.sequence \in Nat /\ scan.page \in Nat
        /\ values[k.item] # Absent /\ scan.shard \in Shards
        /\ k \in order[scan.shard]
    BY ReadableKeys
  <2>3. values[k.item] \in Entry /\ k \in ScanKey
    BY <2>2, Shape DEF OrderInv, TypeOK
  <2>4. k = [sequence |-> x.sequence, item |-> x.item]
    BY <2>1, <2>3 DEF ScanKey
  <2>5. QED
    BY <2>1, <2>2, <2>3, <2>4 DEF Sample, Entry
<1>2. ASSUME NEW k \in keys, values[k.item].definition = scan.snap[k.item]
      PROVE  \E x \in Samples(keys) : x.item = k.item
  <2> DEFINE x == [page |-> scan.page, item |-> k.item, sequence |-> k.sequence,
                   clock |-> values[k.item].clock]
  <2>1. x \in Samples(keys)
    BY <1>2 DEF Samples
  <2>2. QED
    BY <2>1
<1>3. QED
  BY <1>1, <1>2

LEMMA CollectTypes ==
    ASSUME OrderInv, Collect, steady' \subseteq Items
    PROVE  TypeOK'
<1>1. now \in Nat /\ definition \in [Items -> Nat]
  BY DEF OrderInv, TypeOK
<1>2. scan' = [IdleScan EXCEPT !.running = TRUE, !.timestamp = now, !.snap = definition]
  BY DEF Collect
<1>3. scan' \in ScanType
  BY <1>1, <1>2, IdleScanType DEF ScanType
<1>4. QED
  BY <1>3 DEF Collect, OrderInv, TypeOK, cache, ScanType

LEMMA FullPageTypes ==
    ASSUME OrderInv, FullPage, steady' \subseteq Items
    PROVE  TypeOK'
<1> DEFINE read == FirstOf(Readable, Room)
<1>1. PICK last \in read :
        scan' = [scan EXCEPT !.sequence = last.sequence, !.count = 0, !.page = @ + 1]
  BY DEF FullPage
<1>2. read \subseteq Readable
  BY DEF FirstOf
<1>3. last.sequence \in Nat /\ Samples(read) \subseteq Sample
  BY <1>2, ReadableKeys, SampleOf
<1>4. scan' \in ScanType
  <2>1. scan \in ScanType
    BY DEF OrderInv, TypeOK, ScanType
  <2>2. 0 \in 0 .. PageSize - 1 /\ scan.page + 1 \in Nat
    BY <2>1, ScanAssumption DEF ScanType
  <2> HIDE DEF read
  <2>3. QED
    BY <1>1, <1>3, <2>1, <2>2 DEF ScanType
<1>5. emitted' \subseteq Sample
  BY <1>3 DEF FullPage, OrderInv, TypeOK
<1>6. QED
  BY <1>4, <1>5 DEF FullPage, OrderInv, TypeOK, cache, ScanType

LEMMA ShardExhaustedTypes ==
    ASSUME OrderInv, ShardExhausted, steady' \subseteq Items
    PROVE  TypeOK'
<1> DEFINE n == Cardinality(Readable)
           next == [scan EXCEPT !.shard = @ + 1, !.sequence = 0, !.count = @ + n]
<1>1. scan' = IF scan.shard + 1 = NumShards THEN IdleScan ELSE next
  BY DEF ShardExhausted, NextSequence
<1>3. ASSUME scan.shard + 1 # NumShards
      PROVE  next \in ScanType
  <2>1. scan \in ScanType
    BY DEF OrderInv, TypeOK, ScanType
  <2>2. scan.shard + 1 \in Shards
    BY <1>3, <2>1, ScanAssumption DEF Shards, ScanType
  <2>3. scan.count + n \in 0 .. PageSize - 1
    <3>1. n \in Nat /\ scan.count \in 0 .. PageSize - 1
      BY ReadableKeys
    <3>2. n < PageSize - scan.count
      BY DEF ShardExhausted, Room
    <3>3. QED
      BY <3>1, <3>2, ScanAssumption
  <2> HIDE DEF n
  <2>4. QED
    BY <2>1, <2>2, <2>3 DEF ScanType
<1>4. scan' \in ScanType
  BY <1>1, <1>3, IdleScanType
<1>5. emitted' \subseteq Sample
  <2>1. Samples(Readable) \subseteq Sample
    BY SampleOf
  <2>2. QED
    BY <2>1 DEF ShardExhausted, OrderInv, TypeOK
<1>6. QED
  BY <1>4, <1>5 DEF ShardExhausted, OrderInv, TypeOK, cache, ScanType
-----------------------------------------------------------------------------
(* Every step keeps the order, and every step is a writer's or the         *)
(* scrape's.                                                               *)

LEMMA WriterStep ==
    ASSUME OrderInv, steady' \subseteq Items,
           \/ Tick
           \/ \E i \in Items : Redefine(i) \/ Invalidate(i)
           \/ \E i \in Items, clock \in Clocks, version \in 1 .. snapshot :
                 ApplyRecord(i, clock, version)
           \/ \E h \in Shards : Delete(h)
           \/ \E h \in Shards : \E batch \in SUBSET Present(h) : DeleteVersioned(h, batch)
    PROVE  OrderInv' /\ PlaceKept /\ ScanUnmoved
<1>1. CASE Tick
  <2>1. ScanUnmoved /\ SameOrder
    BY <1>1, CacheUnchanged DEF Tick
  <2>2. TypeOK'
    BY <1>1, <2>1, FrameTypes DEF Tick, OrderInv, TypeOK, cache, ScanType
  <2>3. QED
    BY <2>1, <2>2, SameOrderKeeps
<1>2. ASSUME NEW i \in Items, Redefine(i)
      PROVE  OrderInv' /\ PlaceKept /\ ScanUnmoved
  <2>1. ScanUnmoved /\ SameOrder
    BY <1>2, CacheUnchanged DEF Redefine
  <2>2. TypeOK'
    BY <1>2, <2>1, FrameTypes DEF Redefine, OrderInv, TypeOK, cache, ScanType
  <2>3. QED
    BY <2>1, <2>2, SameOrderKeeps
<1>3. ASSUME NEW i \in Items, Invalidate(i)
      PROVE  OrderInv' /\ PlaceKept /\ ScanUnmoved
  <2> DEFINE e == [values[i] EXCEPT !.valid = FALSE]
  <2>1. values' = [values EXCEPT ![i] = e] /\ values[i] \in Entry
    BY <1>3, Shape DEF Invalidate
  <2>2. e \in Entry /\ e.sequence = values[i].sequence
    BY <2>1 DEF Entry
  <2>3. e # Absent /\ values[i] # Absent
    BY <2>1, <2>2, NoEntryAssumption
  <2> HIDE DEF e
  <2>4. SameOrder
    BY <1>3, <2>1, <2>2, <2>3 DEF Invalidate, OrderInv, TypeOK, SameOrder
  <2>5. TypeOK'
    BY <1>3, <2>4, FrameTypes DEF Invalidate, SameOrder, OrderInv, TypeOK, ScanType
  <2>6. QED
    BY <1>3, <2>4, <2>5, SameOrderKeeps DEF Invalidate
<1>4. ASSUME NEW i \in Items, NEW clock \in Clocks, NEW version \in 1 .. snapshot,
             ApplyRecord(i, clock, version)
      PROVE  OrderInv' /\ PlaceKept /\ ScanUnmoved
  BY <1>4, ApplyKeeps DEF ApplyRecord
<1>5. ASSUME NEW h \in Shards, Delete(h)
      PROVE  OrderInv' /\ PlaceKept /\ ScanUnmoved
  <2>1. Remove(h, changed \cap ItemsOf(h)) /\ ScanUnmoved
    BY <1>5 DEF Delete
  <2>2. TypeOK'
    BY <1>5, <2>1, RemoveKeeps, FrameTypes DEF Delete, OrderInv, TypeOK, ScanType
  <2>3. QED
    BY <2>1, <2>2, RemoveKeeps DEF OrderInv
<1>6. ASSUME NEW h \in Shards, NEW batch \in SUBSET Present(h), DeleteVersioned(h, batch)
      PROVE  OrderInv' /\ PlaceKept /\ ScanUnmoved
  <2>1. Remove(h, batch) /\ ScanUnmoved
    BY <1>6 DEF DeleteVersioned
  <2>2. TypeOK'
    BY <1>6, <2>1, RemoveKeeps, FrameTypes DEF DeleteVersioned, OrderInv, TypeOK, ScanType
  <2>3. QED
    BY <2>1, <2>2, RemoveKeeps DEF OrderInv
<1>7. QED
  BY <1>1, <1>2, <1>3, <1>4, <1>5, <1>6

LEMMA ScrapeStep ==
    ASSUME OrderInv, steady' \subseteq Items, Collect \/ FullPage \/ ShardExhausted
    PROVE  OrderInv' /\ UNCHANGED cache
<1>1. UNCHANGED cache
  BY DEF Collect, FullPage, ShardExhausted
<1>2. TypeOK'
  BY CollectTypes, FullPageTypes, ShardExhaustedTypes
<1>3. QED
  BY <1>1, <1>2, CacheUnchanged, SameOrderKeeps

History ==
    steady' = IF scan.running THEN {i \in steady : ~scan'.running \/ Qualifies(i)'}
              ELSE IF scan'.running THEN {i \in Items : Qualifies(i)'} ELSE {}

LEMMA SteadyItems ==
    ASSUME OrderInv, History
    PROVE  steady' \subseteq Items
BY DEF OrderInv, TypeOK, History

LEMMA NextKeepsOrder ==
    ASSUME OrderInv, [Next]_vars
    PROVE  OrderInv'
<1>1. CASE Next
  <2>1. steady' \subseteq Items
    BY <1>1, SteadyItems DEF Next, History
  <2>2. QED
    BY <1>1, <2>1, WriterStep, ScrapeStep DEF Next, Step
<1>2. CASE UNCHANGED vars
  <2>1. TypeOK'
    BY <1>2 DEF OrderInv, TypeOK, vars
  <2>2. SameOrder
    BY <1>2, CacheUnchanged DEF vars, cache
  <2>3. QED
    BY <2>1, <2>2, SameOrderKeeps
<1>3. QED
  BY <1>1, <1>2

\* The types, and the scan order names every cached value exactly where a scan
\* will look for it.
THEOREM ScanOrder == Spec => []OrderInv
<1>1. Init => OrderInv
  BY InitOrder
<1>2. OrderInv /\ [Next]_vars => OrderInv'
  BY NextKeepsOrder
<1>3. QED
  BY <1>1, <1>2, PTL DEF Spec

\* The state and the scan order stay in their types (the model's variables are
\* those of shard.go and ReadScrapePage).
THEOREM ScanTypes == Spec => []TypeOK
<1>1. OrderInv => TypeOK
  BY DEF OrderInv
<1>2. QED
  BY <1>1, ScanOrder, PTL

-----------------------------------------------------------------------------
(* A running scrape: what is behind the cursor and what is ahead of it.    *)

Emitted(i) == \E x \in emitted : x.item = i

Ahead(i) ==
    \/ scan.shard < ShardOf[i]
    \/ scan.shard = ShardOf[i] /\ scan.sequence < values[i].sequence

Behind(x) ==
    \/ ShardOf[x.item] < scan.shard
    \/ ShardOf[x.item] = scan.shard /\ x.sequence <= scan.sequence

CursorInv ==
    scan.running => /\ \A i \in steady : Qualifies(i) /\ (Emitted(i) \/ Ahead(i))
                    /\ \A x \in emitted : Behind(x)

ScanInv == CursorInv /\ ScrapeComplete /\ LifeReadOnce

LEMMA WriterKeepsScan ==
    ASSUME OrderInv, OrderInv', ScanInv, PlaceKept, ScanUnmoved, History
    PROVE  ScanInv'
<1>1. CASE scan.running
  <2>1. /\ scan' = scan /\ emitted' = emitted
        /\ steady' = {i \in steady : Qualifies(i)'}
    BY <1>1 DEF ScanUnmoved, History
  <2>2. ASSUME NEW i \in steady'
        PROVE  Qualifies(i)' /\ (Emitted(i)' \/ Ahead(i)')
    <3>1. i \in steady /\ Qualifies(i)' /\ i \in Items
      BY <2>1 DEF OrderInv, TypeOK
    <3>2. Qualifies(i) /\ (Emitted(i) \/ Ahead(i))
      BY <1>1, <3>1 DEF ScanInv, CursorInv
    <3>3. values[i] # Absent /\ values'[i] # Absent
      BY <3>1, <3>2 DEF Qualifies
    <3>4. values'[i].sequence = values[i].sequence
      BY <3>1, <3>3 DEF PlaceKept
    <3>5. Ahead(i) => Ahead(i)'
      BY <2>1, <3>4 DEF Ahead
    <3>6. QED
      BY <2>1, <3>1, <3>2, <3>5 DEF Emitted
  <2>3. \A x \in emitted' : Behind(x)'
    BY <1>1, <2>1 DEF ScanInv, CursorInv, Behind
  <2>4. LifeReadOnce' /\ ScrapeComplete'
    BY <1>1, <2>1 DEF ScanInv, LifeReadOnce, ScrapeComplete
  <2>5. QED
    BY <2>2, <2>3, <2>4 DEF ScanInv, CursorInv
<1>2. CASE ~scan.running
  <2>1. emitted' = {} /\ steady' = {} /\ scan' = scan
    BY <1>2 DEF ScanUnmoved, History
  <2>2. QED
    BY <1>2, <2>1 DEF ScanInv, CursorInv, ScrapeComplete, LifeReadOnce
<1>3. QED
  BY <1>1, <1>2

LEMMA CollectBegins ==
    ASSUME OrderInv, OrderInv', Collect, History
    PROVE  ScanInv'
<1>1. /\ scan'.running /\ scan'.shard = 0 /\ scan'.sequence = 0
      /\ emitted' = {} /\ ~scan.running
  BY DEF Collect, IdleScan
<1>2. ASSUME NEW i \in steady'
      PROVE  Qualifies(i)' /\ Ahead(i)'
  <2>1. i \in Items /\ Qualifies(i)'
    BY <1>1 DEF History
  <2>2. values'[i] # Absent
    BY <2>1 DEF Qualifies
  <2>3. ShardOf[i] \in Shards /\ 0 < values'[i].sequence
    BY <2>1, <2>2, Shape, SameOrderKeeps, CacheUnchanged DEF Collect, cache
  <2>4. QED
    BY <1>1, <2>1, <2>3, ScanAssumption DEF Ahead, Shards
<1>3. QED
  BY <1>1, <1>2 DEF ScanInv, CursorInv, ScrapeComplete, LifeReadOnce
\* What a page or the rest of a shard adds: at most one sample of a key, and none
\* of a key whose sample there is already.
LEMMA ReadOnce ==
    ASSUME OrderInv, ScanInv, scan.running, NEW keys \in SUBSET Readable,
           emitted' = emitted \cup Samples(keys)
    PROVE  LifeReadOnce'
<1>1. ASSUME NEW x \in Samples(keys)
      PROVE  /\ x \in Sample
             /\ ShardOf[x.item] = scan.shard /\ scan.sequence < x.sequence
             /\ x.sequence \in Nat
             /\ x.page = scan.page /\ x.clock = values[x.item].clock
  <2> DEFINE k == [sequence |-> x.sequence, item |-> x.item]
  <2>1. k \in Readable /\ x \in Sample
    BY SampleOf
  <2>2. k.sequence = x.sequence /\ k.item = x.item
    OBVIOUS
  <2>3. QED
    BY <2>1, <2>2, SampleOf, ReadableKeys
<1>2. ASSUME NEW x \in emitted
      PROVE  x \in Sample /\ Behind(x)
  BY DEF OrderInv, TypeOK, ScanInv, CursorInv
<1>3. scan.shard \in Nat /\ scan.sequence \in Nat
  BY ReadableKeys DEF Shards
<1>4. ASSUME NEW x \in emitted', NEW y \in emitted', x.item = y.item, x.sequence = y.sequence
      PROVE  x = y
  <2>1. CASE x \in emitted /\ y \in emitted
    BY <2>1, <1>4 DEF ScanInv, LifeReadOnce
  <2>2. CASE x \in Samples(keys) /\ y \in Samples(keys)
    <3>1. x.page = y.page /\ x.clock = y.clock /\ x \in Sample /\ y \in Sample
      BY <2>2, <1>1, <1>4
    <3>2. QED
      BY <3>1, <1>4 DEF Sample
  <2>3. ASSUME NEW u \in emitted, NEW v \in Samples(keys),
               u.item = v.item, u.sequence = v.sequence
        PROVE  FALSE
    BY <2>3, <1>1, <1>2, <1>3 DEF Behind
  <2>4. QED
    BY <2>1, <2>2, <2>3, <1>4
<1>5. QED
  BY <1>4 DEF LifeReadOnce

\* A value a scrape is owed is where the scan will look for it.
LEMMA OwedIsReadable ==
    ASSUME OrderInv, NEW i \in Items, Qualifies(i), Ahead(i), scan.shard = ShardOf[i]
    PROVE  Key(i) \in Readable /\ Key(i).item = i /\ Key(i).sequence = values[i].sequence
<1>1. values[i] # Absent /\ scrapeEligible(i, scan.timestamp)
  BY DEF Qualifies
<1>2. Key(i) \in order[scan.shard] /\ Key(i).item = i /\ Key(i).sequence = values[i].sequence
  BY <1>1 DEF OrderInv, LiveNamed, Key
<1>3. scan.sequence < values[i].sequence
  BY ReadableKeys DEF Ahead, Shards
<1>4. QED
  BY <1>1, <1>2, <1>3 DEF Readable, AfterCursor, LiveKey

LEMMA FullPageKeepsScan ==
    ASSUME OrderInv, OrderInv', ScanInv, FullPage, History
    PROVE  ScanInv'
<1> DEFINE read == FirstOf(Readable, Room)
<1>1. PICK last \in read :
        /\ \A k \in read : k.sequence <= last.sequence
        /\ scan' = [scan EXCEPT !.sequence = last.sequence, !.count = 0, !.page = @ + 1]
  BY DEF FullPage
<1>2. read \in SUBSET Readable
  BY DEF FirstOf
<1>3. scan.running /\ emitted' = emitted \cup Samples(read) /\ UNCHANGED cache
  BY DEF FullPage
<1>4. /\ scan'.running /\ scan'.shard = scan.shard /\ scan'.sequence = last.sequence
      /\ scan'.timestamp = scan.timestamp /\ scan'.snap = scan.snap
  BY <1>1, <1>3 DEF OrderInv, TypeOK
<1>5. scan.sequence < last.sequence /\ last.sequence \in Nat /\ scan.sequence \in Nat
  BY <1>2, ReadableKeys
<1>6. Room \in Nat
  BY ReadableKeys, ScanAssumption DEF Room
<1>7. values' = values
  BY <1>3 DEF cache
<1>8. \A i \in Items : Qualifies(i)' <=> Qualifies(i)
  BY <1>4, <1>7 DEF Qualifies, scrapeEligible, ExpireAt
<1> HIDE DEF read
<1>9. ASSUME NEW i \in steady'
      PROVE  Qualifies(i)' /\ (Emitted(i)' \/ Ahead(i)')
  <2>1. i \in steady /\ i \in Items /\ Qualifies(i)'
    BY <1>3, <1>4 DEF History, OrderInv, TypeOK
  <2>2. Qualifies(i) /\ (Emitted(i) \/ Ahead(i))
    BY <1>3, <2>1 DEF ScanInv, CursorInv
  <2>3. CASE Emitted(i)
    BY <1>3, <2>1, <2>3 DEF Emitted
  <2>4. CASE Ahead(i) /\ scan.shard # ShardOf[i]
    BY <1>4, <2>1, <2>4 DEF Ahead
  <2>5. CASE Ahead(i) /\ scan.shard = ShardOf[i]
    <3>1. Key(i) \in Readable /\ Key(i).item = i /\ Key(i).sequence = values[i].sequence
      BY <2>1, <2>2, <2>5, OwedIsReadable
    <3>2. values[i].sequence \in Nat
      BY <3>1, ReadableKeys
    <3>3. CASE last.sequence < values[i].sequence
      BY <1>4, <1>7, <2>1, <2>5, <3>3 DEF Ahead
    <3>4. CASE values[i].sequence <= last.sequence
      <4>1. Key(i) \in read
        BY <1>1, <1>6, <3>1, <3>4, FirstOfIsPrefix DEF read
      <4>2. values[i].definition = scan.snap[i]
        BY <2>2 DEF Qualifies
      <4>3. \E x \in Samples(read) : x.item = i
        BY <1>2, <3>1, <4>1, <4>2, SampleOf
      <4>4. QED
        BY <1>3, <2>1, <4>3 DEF Emitted
    <3>5. QED
      BY <1>5, <3>2, <3>3, <3>4
  <2>6. QED
    BY <2>2, <2>3, <2>4, <2>5
<1>10. ASSUME NEW x \in emitted'
       PROVE  Behind(x)'
  <2>1. CASE x \in emitted
    <3>1. Behind(x) /\ x.sequence \in Nat
      BY <1>3, <2>1 DEF ScanInv, CursorInv, OrderInv, TypeOK, Sample
    <3>2. QED
      BY <1>4, <1>5, <3>1 DEF Behind
  <2>2. CASE x \in Samples(read)
    <3> DEFINE k == [sequence |-> x.sequence, item |-> x.item]
    <3>1. k \in read /\ k.sequence = x.sequence /\ k.item = x.item
      BY <1>2, <2>2, SampleOf
    <3>2. ShardOf[x.item] = scan.shard
      BY <1>2, <3>1, ReadableKeys
    <3>3. x.sequence <= last.sequence
      BY <1>1, <3>1
    <3>4. QED
      BY <1>4, <3>2, <3>3 DEF Behind
  <2>3. QED
    BY <1>3, <2>1, <2>2
<1>11. LifeReadOnce'
  BY <1>2, <1>3, ReadOnce
<1>12. QED
  BY <1>4, <1>9, <1>10, <1>11 DEF ScanInv, CursorInv, ScrapeComplete

LEMMA ShardExhaustedKeepsScan ==
    ASSUME OrderInv, OrderInv', ScanInv, ShardExhausted, History
    PROVE  ScanInv'
<1>1. /\ scan.running /\ emitted' = emitted \cup Samples(Readable) /\ values' = values
      /\ steady' \subseteq steady
  BY DEF ShardExhausted, cache, History
<1>2. scan.shard \in Shards /\ scan.sequence \in Nat
  BY ReadableKeys
<1>3. ASSUME NEW i \in steady
      PROVE  i \in Items /\ Qualifies(i) /\ (Emitted(i)' \/ scan.shard < ShardOf[i])
  <2>1. i \in Items /\ Qualifies(i) /\ (Emitted(i) \/ Ahead(i))
    BY <1>1 DEF ScanInv, CursorInv, OrderInv, TypeOK
  <2>2. CASE Emitted(i)
    BY <1>1, <2>1, <2>2 DEF Emitted
  <2>3. CASE Ahead(i) /\ scan.shard = ShardOf[i]
    <3>1. Key(i) \in Readable /\ Key(i).item = i
      BY <2>1, <2>3, OwedIsReadable
    <3>2. values[i].definition = scan.snap[i]
      BY <2>1 DEF Qualifies
    <3>3. \E x \in Samples(Readable) : x.item = i
      BY <3>1, <3>2, SampleOf
    <3>4. QED
      BY <1>1, <2>1, <3>3 DEF Emitted
  <2>4. QED
    BY <2>1, <2>2, <2>3 DEF Ahead
<1>4. ASSUME NEW x \in emitted'
      PROVE  ShardOf[x.item] <= scan.shard /\ ShardOf[x.item] \in Nat
  <2>1. CASE x \in emitted
    <3>1. Behind(x) /\ x.item \in Items
      BY <1>1, <2>1 DEF ScanInv, CursorInv, OrderInv, TypeOK, Sample
    <3>2. ShardOf[x.item] \in Nat
      BY <3>1, ScanAssumption
    <3>3. QED
      BY <1>2, <3>1, <3>2 DEF Behind, Shards
  <2>2. CASE x \in Samples(Readable)
    <3> DEFINE k == [sequence |-> x.sequence, item |-> x.item]
    <3>1. k \in Readable /\ k.item = x.item
      BY <2>2, SampleOf
    <3>2. ShardOf[x.item] = scan.shard
      BY <3>1, ReadableKeys
    <3>3. QED
      BY <1>2, <3>2 DEF Shards
  <2>3. QED
    BY <1>1, <2>1, <2>2
<1>5. LifeReadOnce'
  BY <1>1, ReadOnce
<1>6. CASE scan.shard + 1 = NumShards
  <2>1. ~scan'.running
    BY <1>6 DEF ShardExhausted, IdleScan
  <2>2. ASSUME NEW i \in steady'
        PROVE  Emitted(i)'
    <3>1. i \in Items /\ (Emitted(i)' \/ scan.shard < ShardOf[i])
      BY <1>1, <1>3
    <3>2. ShardOf[i] \in 0 .. NumShards - 1
      BY <3>1, ScanAssumption
    <3>3. QED
      BY <1>2, <1>6, <3>1, <3>2, ScanAssumption DEF Shards
  <2>3. QED
    BY <1>5, <2>1, <2>2 DEF ScanInv, CursorInv, ScrapeComplete, Emitted
<1>7. CASE scan.shard + 1 # NumShards
  <2>1. /\ scan'.running /\ scan'.shard = scan.shard + 1 /\ scan'.sequence = 0
        /\ scan'.timestamp = scan.timestamp /\ scan'.snap = scan.snap
    BY <1>1, <1>7 DEF ShardExhausted, NextSequence, OrderInv, TypeOK
  <2>2. ASSUME NEW i \in steady'
        PROVE  Qualifies(i)' /\ (Emitted(i)' \/ Ahead(i)')
    <3>1. /\ i \in steady /\ i \in Items /\ Qualifies(i)
          /\ (Emitted(i)' \/ scan.shard < ShardOf[i])
      BY <1>1, <1>3
    <3>2. Qualifies(i)'
      BY <1>1, <2>1, <3>1 DEF Qualifies, scrapeEligible, ExpireAt
    <3>3. values[i] # Absent /\ 0 < values[i].sequence /\ ShardOf[i] \in Shards
      BY <3>1, Shape DEF Qualifies
    <3>4. scan.shard < ShardOf[i] => Ahead(i)'
      BY <1>1, <1>2, <2>1, <3>3 DEF Ahead, Shards
    <3>5. QED
      BY <3>1, <3>2, <3>4
  <2>3. ASSUME NEW x \in emitted'
        PROVE  Behind(x)'
    <3>1. ShardOf[x.item] < scan.shard + 1
      BY <1>2, <1>4 DEF Shards
    <3>2. QED
      BY <2>1, <3>1 DEF Behind
  <2>4. QED
    BY <1>5, <2>1, <2>2, <2>3 DEF ScanInv, CursorInv, ScrapeComplete
<1>8. QED
  BY <1>6, <1>7

LEMMA NextKeepsScan ==
    ASSUME OrderInv, OrderInv', ScanInv, [Next]_vars
    PROVE  ScanInv'
<1>1. CASE Next
  <2>1. History /\ steady' \subseteq Items
    BY <1>1, SteadyItems DEF Next, History
  <2>2. CASE Collect \/ FullPage \/ ShardExhausted
    BY <2>1, <2>2, CollectBegins, FullPageKeepsScan, ShardExhaustedKeepsScan
  <2>3. CASE ~(Collect \/ FullPage \/ ShardExhausted)
    <3>1. PlaceKept /\ ScanUnmoved
      BY <1>1, <2>1, <2>3, WriterStep DEF Next, Step
    <3>2. QED
      BY <2>1, <3>1, WriterKeepsScan
  <2>4. QED
    BY <2>2, <2>3
<1>2. CASE UNCHANGED vars
  BY <1>2 DEF vars, ScanInv, CursorInv, ScrapeComplete, LifeReadOnce, Emitted, Ahead,
              Behind, Qualifies, scrapeEligible, ExpireAt
<1>3. QED
  BY <1>1, <1>2

\* What is owed and not emitted is ahead of the cursor; what is emitted is behind it
\* (ReadScrapePage with firstSequenceAfter).
THEOREM ScanInvariant == Spec => [](OrderInv /\ ScanInv)
<1>1. Init => OrderInv /\ ScanInv
  BY InitOrder DEF Init, IdleScan, ScanInv, CursorInv, ScrapeComplete, LifeReadOnce
<1>2. OrderInv /\ ScanInv /\ [Next]_vars => OrderInv' /\ ScanInv'
  BY NextKeepsOrder, NextKeepsScan
<1>3. QED
  BY <1>1, <1>2, PTL DEF Spec

\* A scrape has a sample of every item whose value qualified from its start to its
\* end, although ReadScrapePage gives up the locks between pages and shards and
\* compactOrder moves the slice under the cursor.
THEOREM ScrapesAreComplete == Spec => []ScrapeComplete
<1>1. ScanInv => ScrapeComplete
  BY DEF ScanInv
<1>2. QED
  BY <1>1, ScanInvariant, PTL

\* Between an insertion and the deletion a scrape reads an item at most once.
THEOREM LivesAreReadOnce == Spec => []LifeReadOnce
<1>1. ScanInv => LifeReadOnce
  BY DEF ScanInv
<1>2. QED
  BY <1>1, ScanInvariant, PTL

-----------------------------------------------------------------------------
(* The tombstone counter of a shard is exact, so compaction keeps its      *)
(* promise about the size of the scan order.  Dead keys and cached values  *)
(* are counted by their keys: a cached value has exactly one live key.     *)

Dead(h) == {k \in order[h] : ~LiveKey(values, k)}

Keys(items) == {Key(i) : i \in items}

CompactionDue == \A h \in Shards :
    tombstones[h] < CompactThreshold \/ 2 * tombstones[h] < Cardinality(order[h])

CountInv == TombstonesExact /\ CompactionDue

-----------------------------------------------------------------------------
LEMMA OrderFacts ==
    ASSUME OrderInv, NEW h \in Shards
    PROVE  /\ IsFiniteSet(order[h]) /\ Cardinality(order[h]) \in Nat
           /\ IsFiniteSet(Dead(h)) /\ Cardinality(Dead(h)) \in Nat
           /\ \A k \in order[h] : /\ k \in ScanKey /\ k.item \in Items
                                  /\ ShardOf[k.item] = h
                                  /\ k.sequence \in Nat /\ k.sequence <= nextSequence[h]
           /\ tombstones[h] \in Nat
<1>1. IsFiniteSet(order[h]) /\ order[h] \subseteq ScanKey
  BY DEF OrderInv, KeysInOrder, TypeOK
<1>2. IsFiniteSet(Dead(h))
  BY <1>1, FS_Subset DEF Dead
<1>3. QED
  BY <1>1, <1>2, FS_CardinalityType, Shape DEF OrderInv, KeysInOrder, ScanKey

\* Distinct cached values have distinct keys.
LEMMA KeysCount ==
    ASSUME NEW items, IsFiniteSet(items)
    PROVE  IsFiniteSet(Keys(items)) /\ Cardinality(Keys(items)) = Cardinality(items)
<1> DEFINE f == [i \in items |-> Key(i)]
<1>1. f \in [items -> Keys(items)]
  BY DEF Keys
<1>2. \A a, b \in items : f[a] = f[b] => a = b
  BY DEF Key
<1>3. \A t \in Keys(items) : \E s \in items : f[s] = t
  BY DEF Keys
<1> HIDE DEF f
<1>4. f \in Bijection(items, Keys(items))
  BY <1>1, <1>2, <1>3, Fun_IsBij
<1>5. ExistsBijection(items, Keys(items))
  BY <1>4 DEF ExistsBijection
<1>6. QED
  BY <1>5, FS_Bijection

LEMMA PresentFinite ==
    ASSUME NEW h \in Shards
    PROVE  IsFiniteSet(Present(h)) /\ Cardinality(Present(h)) \in Nat
<1>1. IsFiniteSet(Present(h))
  BY ScanAssumption, FS_Subset DEF Present, ItemsOf
<1>2. QED
  BY <1>1, FS_CardinalityType

\* The two kinds of keys of a shard.
LEMMA OrderSplit ==
    ASSUME OrderInv, NEW h \in Shards
    PROVE  Cardinality(order[h]) = Cardinality(Dead(h)) + Cardinality(Present(h))
<1>1. order[h] = Dead(h) \cup Keys(Present(h))
  <2>1. ASSUME NEW k \in order[h], LiveKey(values, k)
        PROVE  k \in Keys(Present(h))
    <3>1. k = Key(k.item) /\ k.item \in Present(h)
      BY <2>1, OrderFacts DEF LiveKey, Key, ScanKey, Present, ItemsOf
    <3>2. QED
      BY <3>1 DEF Keys
  <2>2. ASSUME NEW i \in Present(h)
        PROVE  Key(i) \in order[h]
    BY DEF Present, ItemsOf, OrderInv, LiveNamed
  <2>3. QED
    BY <2>1, <2>2 DEF Dead, Keys
<1>2. Dead(h) \cap Keys(Present(h)) = {}
  BY DEF Dead, Keys, Key, LiveKey, Present
<1>3. /\ IsFiniteSet(Keys(Present(h)))
      /\ Cardinality(Keys(Present(h))) = Cardinality(Present(h))
  BY PresentFinite, KeysCount
<1>4. Cardinality(Dead(h) \cup Keys(Present(h)))
        = Cardinality(Dead(h)) + Cardinality(Keys(Present(h)))
            - Cardinality(Dead(h) \cap Keys(Present(h)))
  BY <1>3, OrderFacts, FS_Union
<1>5. Cardinality(Dead(h) \cap Keys(Present(h))) = 0
  BY <1>2, FS_EmptySet
<1>6. Cardinality(Dead(h)) \in Nat /\ Cardinality(Present(h)) \in Nat
  BY OrderFacts, PresentFinite
<1>7. QED
  BY <1>1, <1>3, <1>4, <1>5, <1>6

LEMMA SameOrderCounts ==
    ASSUME OrderInv, CountInv, SameOrder
    PROVE  CountInv'
<1>1. ASSUME NEW h \in Shards PROVE Dead(h)' = Dead(h)
  BY OrderFacts DEF Dead, LiveKey, SameOrder
<1>2. QED
  BY <1>1 DEF CountInv, TombstonesExact, CompactionDue, SameOrder, Dead

LEMMA ApplyCounts ==
    ASSUME NEW i \in Items, NEW clock \in Clocks, NEW version \in 1 .. snapshot,
           OrderInv, OrderInv', CountInv, ApplyRecord(i, clock, version)
    PROVE  CountInv'
<1> DEFINE s == SequenceFor(i)
           k == [sequence |-> s, item |-> i]
<1>1. /\ order' = [order EXCEPT ![ShardOf[i]] = @ \cup {k}]
      /\ values'[i].sequence = s /\ values'[i] # Absent
      /\ \A j \in Items : j # i => values'[j] = values[j]
      /\ tombstones' = tombstones
  <2>1. values' = [values EXCEPT ![i] = [sequence |-> s, clock |-> clock,
                                          definition |-> version, valid |-> TRUE]]
    BY DEF ApplyRecord
  <2>2. values'[i] \in Entry
    <3>1. s \in Nat
      BY Shape DEF SequenceFor
    <3>2. clock \in Nat /\ version \in Nat
      BY ScanAssumption DEF OrderInv, TypeOK
    <3>3. QED
      BY <2>1, <3>1, <3>2 DEF Entry, OrderInv, TypeOK
  <2>3. values'[i].sequence = s /\ \A j \in Items : j # i => values'[j] = values[j]
    BY <2>1 DEF OrderInv, TypeOK
  <2>4. /\ order' = [order EXCEPT ![ShardOf[i]] = @ \cup {k}]
        /\ tombstones' = tombstones
    BY DEF ApplyRecord
  <2>5. QED
    BY <2>2, <2>3, <2>4, NoEntryAssumption
<1>2. \A j \in Items : ShardOf[j] \in Shards
  BY Shape
<1>3. s = IF values[i] # Absent THEN values[i].sequence ELSE nextSequence[ShardOf[i]] + 1
  BY DEF SequenceFor
<1> HIDE DEF s
<1>4. ASSUME NEW h \in Shards
      PROVE  Dead(h)' = Dead(h) /\ Cardinality(order[h]) <= Cardinality(order'[h])
  <2>1. ASSUME NEW j \in order[h]
        PROVE  LiveKey(values', j) <=> LiveKey(values, j)
    <3>1. CASE j.item # i
      BY <1>1, <3>1, OrderFacts DEF LiveKey
    <3>2. CASE j.item = i /\ values[i] # Absent
      BY <1>1, <1>3, <3>2 DEF LiveKey
    <3>3. CASE j.item = i /\ values[i] = Absent
      <4>1. j.sequence < s
        BY <1>3, <3>3, OrderFacts, Shape
      <4>2. j.sequence \in Nat
        BY OrderFacts
      <4>3. QED
        BY <1>1, <3>3, <4>1, <4>2 DEF LiveKey
    <3>4. QED
      BY <3>1, <3>2, <3>3
  <2>2. order'[h] = order[h] \/ order'[h] = order[h] \cup {k}
    BY <1>1, <1>2 DEF OrderInv, TypeOK
  <2>3. LiveKey(values', k)
    BY <1>1 DEF LiveKey
  <2>4. Dead(h)' = Dead(h)
    BY <2>1, <2>2, <2>3 DEF Dead
  <2>5. Cardinality(order[h]) <= Cardinality(order'[h])
    <3>1. IsFiniteSet(order[h]) /\ Cardinality(order[h]) \in Nat
      BY OrderFacts
    <3>2. Cardinality(order[h] \cup {k})
            = IF k \in order[h] THEN Cardinality(order[h]) ELSE Cardinality(order[h]) + 1
      BY <3>1, FS_AddElement
    <3>3. Cardinality(order[h]) <= Cardinality(order[h] \cup {k})
      BY <3>1, <3>2
    <3>4. QED
      BY <2>2, <3>1, <3>3
  <2>6. QED
    BY <2>4, <2>5
<1>5. ASSUME NEW h \in Shards
      PROVE  Cardinality(order[h]) \in Nat /\ Cardinality(order'[h]) \in Nat
             /\ tombstones[h] \in Nat
  BY OrderFacts, FS_CardinalityType DEF OrderInv, KeysInOrder
<1>6. TombstonesExact'
  BY <1>1, <1>4 DEF CountInv, TombstonesExact, Dead
<1>7. CompactionDue'
  <2>1. ASSUME NEW h \in Shards
        PROVE  \/ tombstones'[h] < CompactThreshold
               \/ 2 * tombstones'[h] < Cardinality(order'[h])
    <3>1. \/ tombstones[h] < CompactThreshold
          \/ 2 * tombstones[h] < Cardinality(order[h])
      BY DEF CountInv, CompactionDue
    <3>2. /\ Cardinality(order[h]) \in Nat /\ Cardinality(order'[h]) \in Nat
          /\ tombstones[h] \in Nat /\ tombstones'[h] = tombstones[h]
          /\ Cardinality(order[h]) <= Cardinality(order'[h])
      BY <1>1, <1>4, <1>5
    <3>3. QED
      BY <3>1, <3>2
  <2>2. QED
    BY <2>1 DEF CompactionDue
<1>8. QED
  BY <1>6, <1>7 DEF CountInv

LEMMA RemoveCounts ==
    ASSUME NEW h \in Shards, NEW batch, OrderInv, CountInv, Remove(h, batch)
    PROVE  CountInv'
<1> DEFINE gone == batch \cap Present(h)
           left == [i \in Items |-> IF i \in gone THEN Absent ELSE values[i]]
           dead == tombstones[h] + Cardinality(gone)
           D    == {k \in order[h] : ~LiveKey(left, k)}
<1>1. values' = left
  BY DEF Remove
<1>2. \A g \in Shards \ {h} : order'[g] = order[g] /\ tombstones'[g] = tombstones[g]
  BY DEF Remove, OrderInv, TypeOK
<1>3. IsFiniteSet(gone) /\ gone \subseteq Present(h)
  BY PresentFinite, FS_Subset
<1>4. D = Dead(h) \cup Keys(gone)
  <2>1. ASSUME NEW k \in order[h]
        PROVE  ~LiveKey(left, k) <=> ~LiveKey(values, k) \/ k \in Keys(gone)
    <3>1. k.item \in Items /\ k \in ScanKey
      BY OrderFacts
    <3>2. CASE k.item \in gone
      <4>1. ~LiveKey(left, k)
        BY <3>1, <3>2 DEF LiveKey
      <4>2. LiveKey(values, k) => k = Key(k.item)
        BY <3>1 DEF LiveKey, Key, ScanKey
      <4>3. QED
        BY <3>2, <4>1, <4>2 DEF Keys
    <3>3. CASE k.item \notin gone
      <4>1. LiveKey(left, k) <=> LiveKey(values, k)
        BY <3>1, <3>3 DEF LiveKey
      <4>2. k \notin Keys(gone)
        BY <3>3 DEF Keys, Key
      <4>3. QED
        BY <4>1, <4>2
    <3>4. QED
      BY <3>2, <3>3
  <2>2. Keys(gone) \subseteq order[h]
    BY <1>3 DEF Keys, Present, ItemsOf, OrderInv, LiveNamed
  <2>3. QED
    BY <2>1, <2>2 DEF Dead
<1>5. Dead(h) \cap Keys(gone) = {}
  BY <1>3 DEF Dead, Keys, Key, LiveKey, Present
<1>6. Cardinality(D) = dead
  <2>1. IsFiniteSet(Keys(gone)) /\ Cardinality(Keys(gone)) = Cardinality(gone)
    BY <1>3, KeysCount
  <2>2. Cardinality(gone) \in Nat
    BY <1>3, FS_CardinalityType
  <2>3. Cardinality(Dead(h) \cup Keys(gone))
          = Cardinality(Dead(h)) + Cardinality(Keys(gone))
              - Cardinality(Dead(h) \cap Keys(gone))
    BY <2>1, OrderFacts, FS_Union
  <2>4. tombstones[h] = Cardinality(Dead(h))
    BY DEF CountInv, TombstonesExact, Dead
  <2>5. Cardinality(Dead(h) \cap Keys(gone)) = 0
    BY <1>5, FS_EmptySet
  <2>6. tombstones[h] \in Nat
    BY OrderFacts
  <2> HIDE DEF gone, left, D
  <2>7. QED
    BY <1>4, <2>1, <2>2, <2>3, <2>4, <2>5, <2>6
<1>7. ASSUME NEW g \in Shards, g # h
      PROVE  Dead(g)' = Dead(g)
  <2>1. ASSUME NEW k \in order[g]
        PROVE  LiveKey(left, k) <=> LiveKey(values, k)
    <3>1. k.item \in Items /\ k.item \notin gone
      BY <1>3, <1>7, OrderFacts DEF Present, ItemsOf
    <3>2. QED
      BY <3>1 DEF LiveKey
  <2>2. QED
    BY <1>1, <1>2, <1>7, <2>1 DEF Dead
<1>8. /\ tombstones'[h] = Cardinality(Dead(h)')
      /\ tombstones'[h] < CompactThreshold \/ 2 * tombstones'[h] < Cardinality(order'[h])
  <2>1. CASE MustCompact(dead, Cardinality(order[h]))
    <3>1. /\ order'[h] = {k \in order[h] : LiveKey(left, k)}
          /\ tombstones'[h] = 0
      BY <2>1 DEF Remove, Compacted, OrderInv, TypeOK
    <3>2. Dead(h)' = {}
      BY <1>1, <3>1 DEF Dead
    <3>3. QED
      BY <3>1, <3>2, FS_EmptySet, ScanAssumption
  <2>2. CASE ~MustCompact(dead, Cardinality(order[h]))
    <3>1. order'[h] = order[h] /\ tombstones'[h] = dead
      BY <2>2 DEF Remove, OrderInv, TypeOK
    <3>2. Dead(h)' = D
      BY <1>1, <3>1 DEF Dead
    <3>3. dead \in Nat /\ Cardinality(order[h]) \in Nat
      BY <1>3, FS_CardinalityType, OrderFacts
    <3> HIDE DEF dead
    <3>4. QED
      BY <1>6, <2>2, <3>1, <3>2, <3>3, ScanAssumption DEF MustCompact
  <2>3. QED
    BY <2>1, <2>2
<1> HIDE DEF gone, left, dead, D
<1>9. TombstonesExact'
  BY <1>2, <1>7, <1>8 DEF CountInv, TombstonesExact, Dead
<1>10. CompactionDue'
  BY <1>2, <1>8 DEF CountInv, CompactionDue
<1>11. QED
  BY <1>9, <1>10 DEF CountInv

LEMMA NextCounts ==
    ASSUME OrderInv, OrderInv', CountInv, [Next]_vars
    PROVE  CountInv'
<1>1. ASSUME UNCHANGED cache PROVE CountInv'
  BY <1>1, CacheUnchanged, SameOrderCounts
<1>2. CASE Tick \/ Collect \/ FullPage \/ ShardExhausted \/ UNCHANGED vars
  BY <1>1, <1>2 DEF Tick, Collect, FullPage, ShardExhausted, vars, cache
<1>3. ASSUME NEW i \in Items, Redefine(i) PROVE CountInv'
  BY <1>1, <1>3 DEF Redefine
<1>4. ASSUME NEW i \in Items, Invalidate(i) PROVE CountInv'
  <2> DEFINE e == [values[i] EXCEPT !.valid = FALSE]
  <2>1. values' = [values EXCEPT ![i] = e] /\ values[i] \in Entry
    BY <1>4, Shape DEF Invalidate
  <2>2. e \in Entry /\ e.sequence = values[i].sequence
    BY <2>1 DEF Entry
  <2>3. e # Absent /\ values[i] # Absent
    BY <2>1, <2>2, NoEntryAssumption
  <2> HIDE DEF e
  <2>4. SameOrder
    BY <1>4, <2>1, <2>2, <2>3 DEF Invalidate, OrderInv, TypeOK, SameOrder
  <2>5. QED
    BY <2>4, SameOrderCounts
<1>5. ASSUME NEW i \in Items, NEW clock \in Clocks, NEW version \in 1 .. snapshot,
             ApplyRecord(i, clock, version)
      PROVE  CountInv'
  BY <1>5, ApplyCounts
<1>6. ASSUME NEW h \in Shards, Delete(h) PROVE CountInv'
  BY <1>6, RemoveCounts DEF Delete
<1>7. ASSUME NEW h \in Shards, NEW batch \in SUBSET Present(h), DeleteVersioned(h, batch)
      PROVE  CountInv'
  BY <1>7, RemoveCounts DEF DeleteVersioned
<1>8. QED
  BY <1>2, <1>3, <1>4, <1>5, <1>6, <1>7 DEF Next, Step

LEMMA InitCounts == Init => CountInv
<1> SUFFICES ASSUME Init PROVE CountInv
  OBVIOUS
<1>1. \A h \in Shards : order[h] = {} /\ tombstones[h] = 0
  BY DEF Init
<1>2. TombstonesExact
  <2>1. \A h \in Shards : {k \in order[h] : ~LiveKey(values, k)} = {}
    BY <1>1
  <2>2. QED
    BY <1>1, <2>1, FS_EmptySet DEF TombstonesExact
<1>3. CompactionDue
  BY <1>1, ScanAssumption DEF CompactionDue
<1>4. QED
  BY <1>2, <1>3 DEF CountInv

\* Every order is sorted and behind the shard's clock, and what its counter says of
\* the dead keys is exact (removeValue and compactOrder of shard.go).
THEOREM CountInvariant == Spec => [](OrderInv /\ CountInv)
<1>1. Init => OrderInv /\ CountInv
  BY InitOrder, InitCounts
<1>2. OrderInv /\ CountInv /\ [Next]_vars => OrderInv' /\ CountInv'
  BY NextKeepsOrder, NextCounts
<1>3. QED
  BY <1>1, <1>2, PTL DEF Spec

\* compactOrder decides by a counter that equals the number of keys without a live
\* value, however deletions, re-creations and compactions alternate.
THEOREM TombstonesAreExact == Spec => []TombstonesExact
<1>1. CountInv => TombstonesExact
  BY DEF CountInv
<1>2. QED
  BY <1>1, CountInvariant, PTL

\* The scan order of a shard exceeds its values by less than the threshold, or is
\* shorter than twice their number.
THEOREM OrderIsBounded == Spec => []OrderBounded
<1>1. OrderInv /\ CountInv => OrderBounded
  <2> SUFFICES ASSUME OrderInv, CountInv, NEW h \in Shards
               PROVE  \/ Cardinality(order[h]) < Cardinality(Present(h)) + CompactThreshold
                      \/ Cardinality(order[h]) < 2 * Cardinality(Present(h))
    BY DEF OrderBounded
  <2>1. Cardinality(order[h]) = tombstones[h] + Cardinality(Present(h))
    BY OrderSplit DEF CountInv, TombstonesExact, Dead
  <2>2. tombstones[h] < CompactThreshold \/ 2 * tombstones[h] < Cardinality(order[h])
    BY DEF CountInv, CompactionDue
  <2>3. QED
    BY <2>1, <2>2, PresentFinite, OrderFacts, ScanAssumption
<1>2. QED
  BY <1>1, CountInvariant, PTL
=============================================================================
