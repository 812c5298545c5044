-------------------------- MODULE PublisherProofs --------------------------
(* The publisher for every number of items, hosts, slots and lanes, every  *)
(* page size, capacity and retry limit.                                    *)
EXTENDS Publisher, TLAPS, FiniteSetTheorems, SequenceTheorems, WellFoundedInduction

-----------------------------------------------------------------------------
(* Sublist: the m-th smallest of a finite set of numbers exists, and what  *)
(* a sublist holds and in which order.                                     *)

\* The elements of K up to n.
UpTo(K, n) == {j \in K : j <= n}

LEMMA UpToFinite ==
    ASSUME NEW top \in Nat, NEW K, \A j \in K : j \in Nat /\ j <= top, NEW n
    PROVE  /\ IsFiniteSet(UpTo(K, n)) /\ Cardinality(UpTo(K, n)) \in Nat
           /\ Cardinality(UpTo(K, n)) <= Cardinality(K)
           /\ IsFiniteSet(K) /\ Cardinality(K) \in Nat
<1>1. IsFiniteSet(0..top)
  BY FS_Interval
<1>2. IsFiniteSet(K)
  <2>1. K \subseteq 0..top
    OBVIOUS
  <2>2. QED
    BY <1>1, <2>1, FS_Subset
<1>3. UpTo(K, n) \subseteq K
  BY DEF UpTo
<1>4. QED
  BY <1>2, <1>3, FS_Subset, FS_CardinalityType

\* A larger element has more elements up to it.
LEMMA RankGrows ==
    ASSUME NEW top \in Nat, NEW K, \A j \in K : j \in Nat /\ j <= top, NEW p \in K, NEW n \in K, p < n
    PROVE  Cardinality(UpTo(K, p)) < Cardinality(UpTo(K, n))
<1>1. p \in Nat /\ n \in Nat /\ n <= n /\ ~(n <= p)
  OBVIOUS
<1>2. \A j \in K : j <= p => j <= n
  BY <1>1
<1>3. UpTo(K, p) \subseteq UpTo(K, n) /\ n \in UpTo(K, n) /\ n \notin UpTo(K, p)
  BY <1>1, <1>2 DEF UpTo
<1>4. /\ IsFiniteSet(UpTo(K, n)) /\ Cardinality(UpTo(K, n)) \in Nat
      /\ Cardinality(UpTo(K, p)) \in Nat
  BY UpToFinite
<1>5. QED
  BY <1>3, <1>4, FS_Subset

LEMMA NthExists ==
    ASSUME NEW top \in Nat, NEW K, \A j \in K : j \in Nat /\ j <= top, NEW m \in 1..Cardinality(K)
    PROVE  Nth(K, m) \in K /\ Cardinality(UpTo(K, Nth(K, m))) = m
<1> DEFINE Enough == {n \in Nat : m <= Cardinality(UpTo(K, n))}
<1>1. /\ Cardinality(K) \in Nat /\ m \in Nat /\ 1 <= m /\ m <= Cardinality(K)
      /\ IsFiniteSet(K) /\ \A j \in K : j \in Nat
  <2>1. Cardinality(K) \in Nat /\ IsFiniteSet(K)
    BY UpToFinite
  <2>2. QED
    BY <2>1
<1>2. Enough # {}
  <2>1. UpTo(K, top) = K
    BY DEF UpTo
  <2>2. Cardinality(UpTo(K, top)) = Cardinality(K)
    BY <2>1
  <2>3. top \in Enough
    BY <2>2, <1>1
  <2>4. QED
    BY <2>3
<1>3. PICK n \in Enough : \A j \in Enough : ~ (<<j, n>> \in OpToRel(<, Nat))
  BY <1>2, NatLessThanWellFounded, WFMin
<1>4. n \in Nat /\ \A j \in Enough : ~(j < n)
  BY <1>3 DEF OpToRel
<1> HIDE DEF Enough
<1> DEFINE Below == {j \in K : j < n}
<1>5. IsFiniteSet(Below) /\ Cardinality(Below) \in Nat
  BY <1>1, FS_Subset, FS_CardinalityType
<1>6. Cardinality(Below) < m
  <2>1. CASE n = 0
    <3>1. Below = {}
      <4>1. \A j \in K : ~(j < n)
        BY <2>1
      <4>2. QED
        BY <4>1
    <3>2. QED
      BY <3>1, <1>1, FS_EmptySet
  <2>2. CASE n # 0
    <3>1. n - 1 \in Nat /\ n - 1 \notin Enough
      BY <2>2, <1>4
    <3>2. UpTo(K, n - 1) = Below
      <4>1. \A j \in K : j \in Nat /\ (j <= n - 1 <=> j < n)
        BY <1>4
      <4>2. QED
        BY <4>1 DEF UpTo
    <3>3. ~(m <= Cardinality(UpTo(K, n - 1)))
      BY <3>1 DEF Enough
    <3>4. QED
      BY <3>2, <3>3, <1>1, <1>5
  <2>3. QED
    BY <2>1, <2>2
<1>7. m <= Cardinality(UpTo(K, n))
  BY <1>3 DEF Enough
<1>8. n \in K
  <2>1. SUFFICES ASSUME n \notin K PROVE FALSE
    OBVIOUS
  <2>2. UpTo(K, n) = Below
    <3>1. \A j \in K : j <= n <=> j < n
      BY <2>1, <1>4
    <3>2. QED
      BY <3>1 DEF UpTo
  <2>3. QED
    BY <2>2, <1>6, <1>7, <1>1, <1>5
<1>9. Cardinality(UpTo(K, n)) = m
  <2>1. UpTo(K, n) = Below \cup {n} /\ n \notin Below
    <3>1. \A j \in K : j <= n <=> (j < n \/ j = n)
      BY <1>4
    <3>2. QED
      BY <3>1, <1>4, <1>8 DEF UpTo
  <2>2. Cardinality(UpTo(K, n)) = Cardinality(Below) + 1
    BY <2>1, <1>5, FS_AddElement
  <2>3. QED
    BY <2>2, <1>5, <1>6, <1>7, <1>1
<1>10. QED
  BY <1>8, <1>9 DEF Nth, UpTo

LEMMA NthOrdered ==
    ASSUME NEW top \in Nat, NEW K, \A j \in K : j \in Nat /\ j <= top,
           NEW a \in 1..Cardinality(K), NEW b \in 1..Cardinality(K), a < b
    PROVE  Nth(K, a) < Nth(K, b)
<1>1. /\ Nth(K, a) \in K /\ Cardinality(UpTo(K, Nth(K, a))) = a
      /\ Nth(K, b) \in K /\ Cardinality(UpTo(K, Nth(K, b))) = b
  BY NthExists
<1>2. Nth(K, a) # Nth(K, b)
  BY <1>1
<1>3. ~(Nth(K, b) < Nth(K, a))
  <2>1. SUFFICES ASSUME Nth(K, b) < Nth(K, a) PROVE FALSE
    OBVIOUS
  <2>2. Cardinality(UpTo(K, Nth(K, b))) < Cardinality(UpTo(K, Nth(K, a)))
    BY <1>1, <2>1, RankGrows
  <2>3. QED
    BY <1>1, <2>2
<1>4. QED
  BY <1>1, <1>2, <1>3

LEMMA NthCovers ==
    ASSUME NEW top \in Nat, NEW K, \A j \in K : j \in Nat /\ j <= top, NEW n \in K
    PROVE  \E m \in 1..Cardinality(K) : Nth(K, m) = n
<1> DEFINE m == Cardinality(UpTo(K, n))
<1>1. m \in 1..Cardinality(K)
  <2>1. n \in UpTo(K, n)
    <3>1. n <= n
      OBVIOUS
    <3>2. QED
      BY <3>1 DEF UpTo
  <2>2. /\ IsFiniteSet(UpTo(K, n)) /\ Cardinality(UpTo(K, n)) \in Nat
        /\ Cardinality(UpTo(K, n)) <= Cardinality(K)
    BY UpToFinite
  <2>3. m # 0
    BY <2>1, <2>2, FS_EmptySet
  <2>4. QED
    BY <2>2, <2>3, UpToFinite
<1>2. Nth(K, m) \in K /\ Cardinality(UpTo(K, Nth(K, m))) = m
  BY <1>1, NthExists
<1>3. m \in Nat
  BY UpToFinite
<1> HIDE DEF m
<1>4. ASSUME Nth(K, m) < n PROVE FALSE
  <2>1. Cardinality(UpTo(K, Nth(K, m))) < Cardinality(UpTo(K, n))
    BY <1>2, <1>4, RankGrows
  <2>2. QED
    BY <1>2, <1>3, <2>1 DEF m
<1>5. ASSUME n < Nth(K, m) PROVE FALSE
  <2>1. Cardinality(UpTo(K, n)) < Cardinality(UpTo(K, Nth(K, m)))
    BY <1>2, <1>5, RankGrows
  <2>2. QED
    BY <1>2, <1>3, <2>1 DEF m
<1>6. Nth(K, m) = n
  BY <1>2, <1>4, <1>5
<1>7. QED
  BY <1>1, <1>6

\* r holds the elements of s at the positions K, in their order.
IsSublist(s, K, r) ==
    /\ \A m \in 1..Len(r) : \E n \in K : r[m] = s[n]
    /\ \A n \in K : \E m \in 1..Len(r) : r[m] = s[n]
    /\ \A a, b \in 1..Len(r) : a < b =>
          \E i, j \in K : i < j /\ r[a] = s[i] /\ r[b] = s[j]

LEMMA SublistFacts ==
    ASSUME NEW S, NEW s \in Seq(S), NEW K, K \subseteq 1..Len(s)
    PROVE  /\ Sublist(s, K) \in Seq(S)
           /\ IsFiniteSet(K) /\ Len(Sublist(s, K)) = Cardinality(K)
           /\ IsSublist(s, K, Sublist(s, K))
<1>1. Len(s) \in Nat /\ IsFiniteSet(1..Len(s))
  BY LenProperties, FS_Interval
<1>2. /\ IsFiniteSet(K) /\ Cardinality(K) \in Nat
      /\ \A j \in K : j \in Nat /\ j <= Len(s)
  <2>1. IsFiniteSet(K)
    BY <1>1, FS_Subset
  <2>2. \A j \in K : j \in 1..Len(s)
    OBVIOUS
  <2>3. \A j \in 1..Len(s) : j \in Nat /\ j <= Len(s)
    BY <1>1
  <2>4. QED
    BY <2>1, <2>2, <2>3, FS_CardinalityType
<1>3. \A m \in 1..Cardinality(K) : Nth(K, m) \in K
  BY <1>1, <1>2, NthExists
<1>4. \A n \in K : s[n] \in S
  BY ElementOfSeq
<1>5. Sublist(s, K) \in [1..Cardinality(K) -> S]
  BY <1>3, <1>4 DEF Sublist
<1>6. /\ Sublist(s, K) \in Seq(S) /\ Len(Sublist(s, K)) = Cardinality(K)
  BY <1>5, <1>2
<1>7. \A m \in 1..Cardinality(K) : Sublist(s, K)[m] = s[Nth(K, m)]
  BY DEF Sublist
<1>8. \A a, b \in 1..Cardinality(K) : a < b => Nth(K, a) < Nth(K, b)
  BY <1>1, <1>2, NthOrdered
<1>9. \A n \in K : \E m \in 1..Cardinality(K) : Nth(K, m) = n
  BY <1>1, <1>2, NthCovers
<1>10. \A n \in K : \E m \in 1..Cardinality(K) : Sublist(s, K)[m] = s[n]
  BY <1>7, <1>9
<1>11. \A a, b \in 1..Cardinality(K) : a < b =>
                 \E i, j \in K : i < j /\ Sublist(s, K)[a] = s[i] /\ Sublist(s, K)[b] = s[j]
  BY <1>3, <1>7, <1>8
<1>12. \A m \in 1..Cardinality(K) : \E n \in K : Sublist(s, K)[m] = s[n]
  BY <1>3, <1>7
<1> HIDE DEF Sublist
<1>13. QED
  BY <1>2, <1>6, <1>10, <1>11, <1>12 DEF IsSublist

-----------------------------------------------------------------------------
(***************************************************************************)
(* The inductive invariant, in layers.  Shape: types, and what each place  *)
(* of the loop, of a worker and of StopContext leaves empty.               *)
(***************************************************************************)
LoopRecord ==
    [pc : {"idle", "started", "dropping", "paging", "adding", "submitting",
           "enqueueing", "refused", "cleanup"},
     slot : Slots \cup {None}, cycle : 0..MaxCycle, removed : SUBSET Batch,
     owed : BOOLEAN, hosts : Seq(HostSet), cursor : Nat, done : BOOLEAN,
     page : Seq(Key), builders : [Builders -> SUBSET Key],
     batch : Batch \cup {None}, sample : Key \cup {None}]

WorkerRecord ==
    [pc : {"popping", "selecting", "waiting", "sending", "backoff", "acking",
           "releasing", "done", "exited"},
     batch : Batch \cup {None}, attempt : 1..MaxRetries + 1]

Holding == {"sending", "backoff", "acking", "releasing"}

StoreShape ==
    /\ versions \in 0..MaxVersions
    /\ store \in [Items -> StoredValue \cup {None}]
    /\ \A i \in Items : store[i] # None =>
          store[i].version \in 1..versions /\ store[i].sequence \in 1..versions
    /\ \A i, j \in Items : store[i] # None /\ store[j] # None /\ i # j =>
          store[i].sequence # store[j].sequence

QueueShape ==
    /\ queue \in [lanes : [Lanes -> Seq(Batch)], size : Int, closed : BOOLEAN,
                  latest : [Slots -> Nat]]
    /\ \A l \in Lanes : \A n \in 1..Len(queue.lanes[l]) : queue.lanes[l][n].lane = l
    /\ notify \in [Lanes -> BOOLEAN]

OutsidePages == {"idle", "started", "dropping", "paging"}

LoopShape ==
    /\ loop \in LoopRecord
    /\ loop.pc # "idle" => /\ loop.slot \in Slots /\ loop.cycle = cycles[loop.slot]
                           /\ loop.cycle # 0
    /\ \A n \in 1..Len(loop.hosts) : SlotOf[loop.hosts[n]] = loop.slot
    /\ loop.pc # "dropping" => loop.removed = {}
    /\ loop.owed => loop.pc \in {"dropping", "refused"}
    /\ loop.batch # None <=> \/ loop.pc \in {"submitting", "enqueueing"}
                             \/ loop.pc = "refused" /\ ~loop.owed
    /\ loop.sample # None =>
          /\ loop.pc \in {"submitting", "enqueueing", "refused", "cleanup"}
          /\ loop.builders[BuilderOf(loop.sample)] = {}
    /\ loop.pc \in OutsidePages => loop.builders = NoBuilders /\ loop.page = <<>>
    /\ \A x \in Builders : \A k \in loop.builders[x] : BuilderOf(k) = x

WorkerShape ==
    /\ worker \in [Lanes -> WorkerRecord]
    /\ \A l \in Lanes : worker[l].batch # None <=> worker[l].pc \in Holding
    /\ \A l \in Lanes : worker[l].batch # None => worker[l].batch.lane = l
    /\ \A l \in Lanes : worker[l].pc = "backoff" => worker[l].attempt <= MaxRetries

StopShape ==
    /\ stopping \in [pc : {"running", "draining", "stopped"}, remaining : SUBSET Batch,
                     owed : BOOLEAN]
    /\ stopping.pc # "draining" => stopping.remaining = {} /\ ~stopping.owed

Shape ==
    /\ StoreShape /\ QueueShape /\ LoopShape /\ WorkerShape /\ StopShape
    /\ requested \in [Slots -> Nat] /\ cycles \in [Slots -> 0..MaxCycle]
    /\ \A s \in Slots : requested[s] # 0 => cycles[s] # 0
    /\ reservations \subseteq Key /\ received \subseteq Key
    /\ pending \in Int /\ cancelled \in BOOLEAN

-----------------------------------------------------------------------------
(* What is known of a sample wherever it is.                               *)
PageKeys == {loop.page[n] : n \in 1..Len(loop.page)}

\* Whoever is read next of this series is not older.
Past(k) ==
    /\ k.ts <= cycles[SlotOf[k.series]]
    /\ k.series \in Items =>
         /\ k.version <= versions
         /\ store[k.series] # None =>
               /\ k.version <= store[k.series].version
               /\ k.version = store[k.series].version => Policy(k) = store[k.series].policy
    /\ k.series \notin Items => k.version = 1

OnePerSeries(keys) == \A j, k \in keys : j.series = k.series => j = k

GoodBatch(b) ==
    /\ b.keys # {} /\ OnePerSeries(b.keys)
    /\ \A k \in b.keys : Past(k) /\ LaneOf[k.series] = b.lane

\* The samples of the page in hand: read, reserved, or about to be submitted.
InHand == (IF loop.batch = None THEN {} ELSE loop.batch.keys) \cup OpenKeys \cup PageKeys

KeysPast ==
    /\ \A b \in LiveBatches : GoodBatch(b)
    /\ \A k \in received \cup InHand : Past(k)
    /\ OnePerSeries(InHand)

-----------------------------------------------------------------------------
(* A batch is in one place.                                                *)
OnePlace ==
    /\ \A l \in Lanes : \A m, n \in 1..Len(queue.lanes[l]) :
          m # n => queue.lanes[l][m] # queue.lanes[l][n]
    /\ Queued(queue) \cap (loop.removed \cup stopping.remaining) = {}
    /\ loop.removed \cap stopping.remaining = {}
    /\ loop.batch \notin Queued(queue) \cup loop.removed \cup stopping.remaining
    /\ \A l \in Lanes : worker[l].batch \notin
          Queued(queue) \cup loop.removed \cup stopping.remaining
            \cup ({loop.batch} \ {None})

-----------------------------------------------------------------------------
(* First in, first out.                                                    *)
Before(A, B) == \A a \in A, b \in B : a.series = b.series => NotBefore(b, a)

WorkerKeys(l) == IF worker[l].batch = None THEN {} ELSE worker[l].batch.keys

\* One lane, from the endpoint back: what it has, what the worker holds, what is
\* queued, and what the loop has in hand.
LaneOrdered(R, W, s, H) ==
    /\ Before(R, W) /\ Before(W, H)
    /\ \A n \in 1..Len(s) :
         Before(R, s[n].keys) /\ Before(W, s[n].keys) /\ Before(s[n].keys, H)
    /\ \A m, n \in 1..Len(s) : m < n => Before(s[m].keys, s[n].keys)

FirstInFirstOut ==
    /\ Before(received, InHand)
    /\ \A l \in Lanes : LaneOrdered(received, WorkerKeys(l), queue.lanes[l], InHand)

-----------------------------------------------------------------------------
AckingReceived ==
    \A l \in Lanes : worker[l].pc = "acking" => worker[l].batch.keys \subseteq received

LatestPast == \A s \in Slots : queue.latest[s] <= cycles[s]

-----------------------------------------------------------------------------
(* Facts about the operators.                                              *)

LEMMA NoneFacts ==
    /\ None \notin Key /\ None \notin Batch /\ None \notin StoredValue
    /\ \A k \in Key : k # None
    /\ \A b \in Batch : b # None
BY NoneAssumption

LEMMA ConstantFacts ==
    /\ Hosts \in Seq(HostSet) /\ \A h \in HostSet : h \notin Items
    /\ \A k \in Key : BuilderOf(k) \in Builders
    /\ \A s \in Series : SlotOf[s] \in Slots /\ LaneOf[s] \in Lanes
    /\ \A x \in Builders : x[1] \in Lanes /\ x[2] \in {"source", "cycle"}
    /\ MaxCycle \in Nat /\ MaxVersions \in Nat /\ 1 <= MaxVersions
    /\ PageSize \in Nat /\ 1 <= PageSize /\ MaxRetries \in Nat
BY PublisherAssumption DEF Builders, BuilderOf, Policy, Key, Series

LEMMA QueuedFacts ==
    ASSUME NEW q, q.lanes \in [Lanes -> Seq(Batch)]
    PROVE  /\ Queued(q) \subseteq Batch
           /\ \A l \in Lanes : \A n \in 1..Len(q.lanes[l]) : q.lanes[l][n] \in Queued(q)
           /\ \A b : b \in Queued(q) <=>
                 \E l \in Lanes : \E n \in 1..Len(q.lanes[l]) : b = q.lanes[l][n]
BY DEF Queued, BatchesIn

\* The first hosts of a sequence, at most n, and the rest.
LEMMA AtMostFacts ==
    ASSUME NEW S, NEW s \in Seq(S), NEW n \in Nat
    PROVE  /\ AtMost(s, n) \in Seq(S) /\ Len(AtMost(s, n)) <= Len(s)
           /\ Len(AtMost(s, n)) \in Nat
           /\ \A m \in 1..Len(AtMost(s, n)) : AtMost(s, n)[m] = s[m]
           /\ SubSeq(s, Len(AtMost(s, n)) + 1, Len(s)) \in Seq(S)
           /\ \A m \in 1..Len(SubSeq(s, Len(AtMost(s, n)) + 1, Len(s))) :
                 \E j \in 1..Len(s) :
                    SubSeq(s, Len(AtMost(s, n)) + 1, Len(s))[m] = s[j]
<1> DEFINE size == IF Len(s) < n THEN Len(s) ELSE n
<1>1. Len(s) \in Nat /\ size \in Nat /\ size <= Len(s)
  BY LenProperties
<1>2. \A j \in 1..Len(s) : s[j] \in S
  BY ElementOfSeq
<1> HIDE DEF size
<1>3. /\ SubSeq(s, 1, size) \in Seq(S) /\ Len(SubSeq(s, 1, size)) = size
      /\ \A m \in 1..size : SubSeq(s, 1, size)[m] = s[m]
  BY <1>1, <1>2
<1>4. /\ SubSeq(s, size + 1, Len(s)) \in Seq(S)
      /\ Len(SubSeq(s, size + 1, Len(s))) = Len(s) - size
      /\ \A m \in 1..(Len(s) - size) : SubSeq(s, size + 1, Len(s))[m] = s[size + m]
  BY <1>1, <1>2
<1>5. \A m \in 1..(Len(s) - size) : size + m \in 1..Len(s)
  BY <1>1
<1>6. AtMost(s, n) = SubSeq(s, 1, size)
  BY DEF AtMost, size
<1>7. Len(AtMost(s, n)) = size
  BY <1>3, <1>6
<1>8. QED
  BY <1>1, <1>3, <1>4, <1>5, <1>6, <1>7

LEMMA HostsOfFacts ==
    ASSUME NEW slot \in Slots
    PROVE  /\ HostsOf(slot) \in Seq(HostSet)
           /\ \A n \in 1..Len(HostsOf(slot)) : SlotOf[HostsOf(slot)[n]] = slot
<1> DEFINE K == {n \in 1..Len(Hosts) : SlotOf[Hosts[n]] = slot}
<1>1. Hosts \in Seq(HostSet) /\ K \subseteq 1..Len(Hosts)
  BY PublisherAssumption
<1> HIDE DEF K
<1>2. Sublist(Hosts, K) \in Seq(HostSet) /\ IsSublist(Hosts, K, Sublist(Hosts, K))
  BY <1>1, SublistFacts
<1>3. HostsOf(slot) = Sublist(Hosts, K) /\ \A n \in K : SlotOf[Hosts[n]] = slot
  BY DEF HostsOf, K
<1>4. QED
  BY <1>2, <1>3 DEF IsSublist

LEMMA QueuedFinite ==
    ASSUME NEW q, q.lanes \in [Lanes -> Seq(Batch)]
    PROVE  /\ IsFiniteSet(Queued(q)) /\ Cardinality(Queued(q)) \in Nat
           /\ \A l \in Lanes : IsFiniteSet(BatchesIn(q.lanes[l]))
<1>1. ASSUME NEW l \in Lanes PROVE IsFiniteSet(BatchesIn(q.lanes[l]))
  <2>1. Len(q.lanes[l]) \in Nat
    <3>1. q.lanes[l] \in Seq(Batch)
      OBVIOUS
    <3>2. QED
      BY <3>1, LenProperties
  <2>2. IsFiniteSet(1..Len(q.lanes[l]))
    BY <2>1, FS_Interval
  <2> DEFINE f == [n \in 1..Len(q.lanes[l]) |-> q.lanes[l][n]]
  <2>3. f \in Surjection(1..Len(q.lanes[l]), BatchesIn(q.lanes[l]))
    BY DEF Surjection, BatchesIn
  <2>4. QED
    BY <2>2, <2>3, FS_Surjection
<1> DEFINE sets == {BatchesIn(q.lanes[l]) : l \in Lanes}
<1>2. IsFiniteSet(sets)
  <2> DEFINE g == [l \in Lanes |-> BatchesIn(q.lanes[l])]
  <2>1. g \in Surjection(Lanes, sets)
    BY DEF Surjection
  <2>2. QED
    BY <2>1, QueueAssumption, FS_Surjection
<1>3. IsFiniteSet(UNION sets)
  BY <1>1, <1>2, FS_UNION
<1>4. QED
  BY <1>1, <1>3, FS_CardinalityType DEF Queued

LEMMA TailFacts ==
    ASSUME NEW S, NEW s \in Seq(S), s # <<>>
    PROVE  /\ Tail(s) \in Seq(S) /\ Head(s) \in S /\ Head(s) = s[1]
           /\ Len(s) \in Nat /\ 1 <= Len(s) /\ Len(Tail(s)) = Len(s) - 1
           /\ \A n \in 1..Len(Tail(s)) : n + 1 \in 1..Len(s) /\ Tail(s)[n] = s[n + 1]
<1>1. Len(s) \in Nat /\ Len(s) # 0
  BY LenProperties, EmptySeq
<1>2. QED
  BY <1>1, HeadTailProperties

\* A page holds eligible items of the slot, each of them once.
LEMMA PageOfFacts ==
    ASSUME Shape, NEW slot \in Slots, NEW cycle \in 0..MaxCycle, NEW cursor \in Nat
    PROVE  /\ PageOf(slot, cycle, cursor) \in Seq(Items)
           /\ \A n \in 1..Len(PageOf(slot, cycle, cursor)) :
                 PageOf(slot, cycle, cursor)[n] \in Unread(slot, cycle, cursor)
           /\ \A m, n \in 1..Len(PageOf(slot, cycle, cursor)) :
                 m # n => PageOf(slot, cycle, cursor)[m] # PageOf(slot, cycle, cursor)[n]
<1> DEFINE unread == Unread(slot, cycle, cursor)
           places == {store[i].sequence : i \in unread}
           size == IF Cardinality(places) < PageSize THEN Cardinality(places) ELSE PageSize
           page == [n \in 1..size |-> CHOOSE i \in unread : store[i].sequence = Nth(places, n)]
<1>1. unread \subseteq Items /\ \A i \in unread : store[i] # None
  BY DEF Unread, Eligible
<1>2. versions \in Nat /\ \A j \in places : j \in Nat /\ j <= versions
  BY <1>1 DEF Shape, StoreShape
<1>3. Cardinality(places) \in Nat
  BY <1>2, UpToFinite
<1>4. size \in Nat /\ size <= Cardinality(places)
  BY <1>3, ConstantFacts
<1>5. \A n \in 1..size : n \in 1..Cardinality(places)
  BY <1>3, <1>4
<1>6. \A n \in 1..size : Nth(places, n) \in places
  <2> HIDE DEF places, size
  <2>1. \A n \in 1..Cardinality(places) : Nth(places, n) \in places
    BY <1>2, NthExists
  <2>2. QED
    BY <2>1, <1>5
<1>7. \A n \in 1..size : page[n] \in unread /\ store[page[n]].sequence = Nth(places, n)
  <2> HIDE DEF unread, size
  <2>1. \A n \in 1..size : \E i \in unread : store[i].sequence = Nth(places, n)
    BY <1>6
  <2> HIDE DEF places
  <2>2. QED
    BY <2>1
<1>8. \A m, n \in 1..size : m # n => Nth(places, m) # Nth(places, n)
  <2> HIDE DEF places, size
  <2>1. ASSUME NEW m \in 1..size, NEW n \in 1..size, m < n
        PROVE  Nth(places, m) # Nth(places, n)
    <3>1. Nth(places, m) < Nth(places, n)
      BY <1>2, <1>5, <2>1, NthOrdered
    <3>2. Nth(places, m) \in Nat /\ Nth(places, n) \in Nat
      BY <1>2, <1>6
    <3>3. QED
      BY <3>1, <3>2
  <2>2. \A m, n \in 1..size : m # n => m < n \/ n < m
    BY <1>4
  <2>3. QED
    BY <2>1, <2>2
<1>9. PageOf(slot, cycle, cursor) = page
  BY DEF PageOf
<1> HIDE DEF page, places, unread, size
<1>10. page \in [1..size -> Items]
  <2>1. page = [n \in 1..size |-> page[n]]
    BY DEF page
  <2>2. QED
    BY <2>1, <1>1, <1>7
<1>11. page \in Seq(Items) /\ Len(page) = size
  BY <1>10, <1>4
<1>12. \A m, n \in 1..size : m # n => page[m] # page[n]
  BY <1>7, <1>8
<1>13. QED
  BY <1>7, <1>9, <1>11, <1>12 DEF unread

\* The positions that a new cycle of the slot leaves in a lane.
KeptAt(q, slot, cycle, l) ==
    {n \in 1..Len(q.lanes[l]) : ~Superseded(q, slot, cycle, q.lanes[l][n])}

LEMMA BeginCycleFacts ==
    ASSUME QueueShape, NEW slot \in Slots, NEW cycle \in Nat
    PROVE  LET q == beginLongCycle(queue, slot, cycle) IN
           /\ q.lanes \in [Lanes -> Seq(Batch)] /\ q.closed = queue.closed
           /\ q.latest = [queue.latest EXCEPT ![slot] = cycle]
           /\ q.size = SizeWithout(queue, RemovedBatches(queue, slot, cycle))
           /\ q \in [lanes : [Lanes -> Seq(Batch)], size : {q.size}, closed : BOOLEAN,
                     latest : [Slots -> Nat]]
           /\ \A l \in Lanes :
                 IsSublist(queue.lanes[l], KeptAt(queue, slot, cycle, l), q.lanes[l])
<1> DEFINE q == beginLongCycle(queue, slot, cycle)
<1>1. q = [queue EXCEPT !.latest[slot] = cycle,
                        !.lanes = [l \in Lanes |->
                                     Sublist(queue.lanes[l], KeptAt(queue, slot, cycle, l))],
                        !.size = SizeWithout(queue, RemovedBatches(queue, slot, cycle))]
  BY DEF beginLongCycle, KeptAt
<1>2. \A l \in Lanes : KeptAt(queue, slot, cycle, l) \subseteq 1..Len(queue.lanes[l])
  BY DEF KeptAt
<1> DEFINE lane(l) == Sublist(queue.lanes[l], KeptAt(queue, slot, cycle, l))
<1>3. ASSUME NEW l \in Lanes
      PROVE  /\ lane(l) \in Seq(Batch)
             /\ IsSublist(queue.lanes[l], KeptAt(queue, slot, cycle, l), lane(l))
  <2>1. queue.lanes[l] \in Seq(Batch)
    BY DEF QueueShape
  <2>2. QED
    BY <1>2, <2>1, SublistFacts
<1> HIDE DEF lane
<1>4. /\ q.lanes = [l \in Lanes |-> lane(l)] /\ q.closed = queue.closed
      /\ q.latest = [queue.latest EXCEPT ![slot] = cycle]
      /\ q.size = SizeWithout(queue, RemovedBatches(queue, slot, cycle))
      /\ DOMAIN q = {"lanes", "size", "closed", "latest"}
      /\ q = [lanes |-> q.lanes, size |-> q.size, closed |-> q.closed, latest |-> q.latest]
  BY <1>1 DEF QueueShape, lane
<1> HIDE DEF q
<1>5. q.lanes \in [Lanes -> Seq(Batch)] /\ \A l \in Lanes : q.lanes[l] = lane(l)
  BY <1>3, <1>4
<1>6. q.latest \in [Slots -> Nat] /\ q.closed \in BOOLEAN
  BY <1>4 DEF QueueShape
<1>7. q \in [lanes : [Lanes -> Seq(Batch)], size : {q.size}, closed : BOOLEAN,
             latest : [Slots -> Nat]]
  BY <1>4, <1>5, <1>6
<1>8. QED
  BY <1>3, <1>4, <1>5, <1>7 DEF q

-----------------------------------------------------------------------------
(* Who changes what.                                                       *)

LEMMA ValueStoreFrame ==
    ValueStore => UNCHANGED <<queue, notify, reservations, pending, requested, cycles,
                              loop, worker, stopping, cancelled, received>>
BY DEF ValueStore, WriteValue, DropValue

LEMMA SlotFrame ==
    SlotStep => UNCHANGED <<store, versions, requested, cycles, worker, stopping,
                            cancelled, received>>
BY DEF SlotStep, BeginCycle, ReleaseRemoved, LoopDone, StartPaging, HostPage, ItemPage,
       EndSlot, SkipSample, HostsCancelled, AddSample, SkipReserved, Finish, CountBatch,
       TryEnqueue, ReleaseRefused, Cleanup

LEMMA WorkerFrame ==
    ASSUME NEW l \in Lanes
    PROVE  WorkerStep(l) => UNCHANGED <<versions, requested, cycles, loop, stopping,
                                        cancelled>>
BY DEF WorkerStep, Pop, PopEmpty, Block, Wake, Attempt, Backoff, Ack, ReleaseSent,
       WorkerDone

LEMMA DrainFrame ==
    DrainStep => UNCHANGED <<store, versions, queue, notify, requested, cycles, loop,
                             worker, cancelled, received>>
BY DEF DrainStep, ReleaseRemaining, StopDone, Stopped

-----------------------------------------------------------------------------
(* Shape is preserved, part by part.                                       *)

LEMMA AckedType ==
    ASSUME Shape, NEW i \in Items, store[i] # None, NEW key \in Key
    PROVE  /\ Acked(i, key) \in StoredValue
           /\ Acked(i, key).version = store[i].version
           /\ Acked(i, key).sequence = store[i].sequence
           /\ Acked(i, key).policy = store[i].policy
<1>1. store[i] \in StoredValue
  BY DEF Shape, StoreShape
<1>2. key.version \in Nat /\ key.ts \in Nat
  BY ConstantFacts DEF Key
<1>3. QED
  BY <1>1, <1>2 DEF Acked, StoredValue

LEMMA AckStore ==
    ASSUME Shape, NEW l \in Lanes, Ack(l), NEW i \in Items
    PROVE  \/ store'[i] = store[i]
           \/ \E key \in worker[l].batch.keys :
                /\ key \in Key /\ key.series = i
                /\ store[i] # None /\ store'[i] = Acked(i, key)
<1>1. worker[l].pc = "acking" /\ worker[l] \in WorkerRecord
  BY DEF Ack, Shape, WorkerShape
<1>2. worker[l].batch \in Batch
  BY <1>1 DEF Shape, WorkerShape, Holding, WorkerRecord
<1>3. worker[l].batch.keys \subseteq Key
  BY <1>2 DEF Batch
<1> DEFINE AcksOf == {key \in worker[l].batch.keys : key.series = i}
<1>4. store'[i] = IF store[i] = None \/ AcksOf = {} THEN store[i]
                  ELSE Acked(i, CHOOSE key \in AcksOf : TRUE)
  BY DEF Ack
<1>5. CASE store[i] = None \/ AcksOf = {}
  BY <1>4, <1>5
<1>6. CASE ~(store[i] = None \/ AcksOf = {})
  <2> DEFINE chosen == CHOOSE key \in AcksOf : TRUE
  <2>1. chosen \in AcksOf
    BY <1>6
  <2>2. store'[i] = Acked(i, chosen)
    BY <1>4, <1>6
  <2>3. chosen \in worker[l].batch.keys /\ chosen.series = i
    BY <2>1
  <2> HIDE DEF chosen
  <2>4. QED
    BY <1>3, <1>6, <2>2, <2>3
<1>7. QED
  BY <1>5, <1>6

LEMMA StoreStep ==
    ASSUME Shape, Next
    PROVE  StoreShape'
<1> USE DEF StoreShape
<1>1. ASSUME NEW i \in Items, NEW policy \in {"source", "cycle"}, WriteValue(i, policy)
      PROVE  StoreShape'
  <2> DEFINE new == [version |-> versions + 1, policy |-> policy, published |-> 0,
                     publishedAt |-> 0,
                     sequence |-> IF store[i] = None THEN versions + 1 ELSE store[i].sequence]
  <2>1. /\ versions < MaxVersions /\ versions' = versions + 1
        /\ store' = [store EXCEPT ![i] = new]
    BY <1>1 DEF WriteValue
  <2>2. /\ versions' \in 0..MaxVersions /\ versions \in Nat
        /\ \A n \in 1..versions : n \in 1..versions' /\ n # versions + 1
        /\ versions + 1 \in 1..versions'
    BY <2>1, ConstantFacts DEF Shape
  <2>3. /\ new.sequence \in 1..versions' /\ new.version \in 1..versions'
        /\ new \in StoredValue /\ new # None
        /\ store[i] # None => new.sequence = store[i].sequence
        /\ store[i] = None => new.sequence = versions + 1
    BY <2>2, NoneFacts DEF Shape, StoredValue
  <2> HIDE DEF new
  <2>4. /\ store' \in [Items -> StoredValue \cup {None}] /\ store'[i] = new
        /\ \A j \in Items : j # i => store'[j] = store[j]
    BY <2>1, <2>3 DEF Shape
  <2>5. \A j \in Items : store[j] # None /\ j # i => store[j].sequence # new.sequence
    BY <2>2, <2>3 DEF Shape
  <2>6. \A j \in Items : store[j] # None =>
           store[j].version \in 1..versions' /\ store[j].sequence \in 1..versions'
    BY <2>2 DEF Shape
  <2>7. QED
    BY <2>2, <2>3, <2>4, <2>5, <2>6 DEF Shape
<1>2. ASSUME NEW i \in Items, DropValue(i) PROVE StoreShape'
  BY <1>2 DEF DropValue, Shape
<1>3. ASSUME NEW l \in Lanes, WorkerStep(l) PROVE StoreShape'
  <2>1. versions' = versions
    BY <1>3, WorkerFrame
  <2>2. CASE store' = store
    BY <2>1, <2>2 DEF Shape
  <2>3. CASE Ack(l)
    <3>1. \A i \in Items :
            \/ store'[i] = store[i]
            \/ /\ store[i] # None /\ store'[i] \in StoredValue
               /\ store'[i].version = store[i].version
               /\ store'[i].sequence = store[i].sequence
      BY <2>3, AckStore, AckedType
    <3>2. DOMAIN store' = Items /\ store' = [i \in Items |-> store'[i]]
      BY <2>3 DEF Ack
    <3>3. \A i \in Items : /\ store'[i] \in StoredValue \cup {None}
                           /\ store'[i] # None =>
                                 /\ store[i] # None
                                 /\ store'[i].version = store[i].version
                                 /\ store'[i].sequence = store[i].sequence
      BY <3>1 DEF Shape
    <3>4. store' \in [Items -> StoredValue \cup {None}]
      BY <3>2, <3>3
    <3>5. QED
      BY <2>1, <3>3, <3>4 DEF Shape
  <2>4. QED
    BY <1>3, <2>2, <2>3 DEF WorkerStep, Pop, PopEmpty, Block, Wake, Attempt, Backoff,
       ReleaseSent, WorkerDone
<1>4. CASE UNCHANGED <<store, versions>>
  BY <1>4 DEF Shape
<1>5. QED
  BY <1>1, <1>2, <1>3, <1>4, PublisherAssumption, SlotFrame, DrainFrame
  DEF Next, ValueStore, Cancel, StartSlot, Stop

LEMMA HeadOfLane ==
    ASSUME Shape, NEW l \in Lanes, queue.lanes[l] # <<>>
    PROVE  /\ queue.lanes[l] \in Seq(Batch) /\ Head(queue.lanes[l]) = queue.lanes[l][1]
           /\ 1 \in 1..Len(queue.lanes[l])
           /\ Head(queue.lanes[l]) \in Batch /\ Head(queue.lanes[l]).lane = l
<1>1. queue.lanes[l] \in Seq(Batch)
  BY DEF Shape, QueueShape
<1>2. /\ Head(queue.lanes[l]) = queue.lanes[l][1] /\ Head(queue.lanes[l]) \in Batch
      /\ 1 \in 1..Len(queue.lanes[l])
  BY <1>1, TailFacts
<1>3. QED
  BY <1>1, <1>2 DEF Shape, QueueShape

LEMMA WorkerReplaced ==
    ASSUME Shape, NEW l \in Lanes, NEW new \in WorkerRecord,
           worker' = [worker EXCEPT ![l] = new],
           new.batch # None <=> new.pc \in Holding,
           new.batch # None => new.batch.lane = l,
           new.pc = "backoff" => new.attempt <= MaxRetries
    PROVE  WorkerShape'
<1>1. /\ worker'[l] = new /\ worker' \in [Lanes -> WorkerRecord]
      /\ \A k \in Lanes : k # l => worker'[k] = worker[k]
  BY DEF Shape, WorkerShape
<1>2. QED
  BY <1>1 DEF Shape, WorkerShape

LEMMA WorkerShapeStep ==
    ASSUME Shape, Next
    PROVE  WorkerShape'
<1>1. ASSUME NEW l \in Lanes, WorkerStep(l) PROVE WorkerShape'
  <2>1. /\ worker[l] \in WorkerRecord /\ (worker[l].batch # None <=> worker[l].pc \in Holding)
        /\ worker[l].batch # None => worker[l].batch.lane = l
        /\ worker[l].pc = "backoff" => worker[l].attempt <= MaxRetries
    BY DEF Shape, WorkerShape
  <2>2. MaxRetries \in Nat
    BY ConstantFacts
  <2>3. CASE Pop(l)
    <3> DEFINE new == [pc |-> "sending", attempt |-> 1, batch |-> Head(queue.lanes[l])]
    <3>1. queue.lanes[l] # <<>> /\ worker' = [worker EXCEPT ![l] = new]
      BY <2>3 DEF Pop
    <3>2. /\ new \in WorkerRecord /\ new.batch # None /\ new.batch.lane = l
          /\ new.pc = "sending"
      BY <2>2, <3>1, HeadOfLane, NoneFacts DEF WorkerRecord
    <3> HIDE DEF new
    <3>3. QED
      BY <3>1, <3>2, WorkerReplaced DEF Holding
  <2>4. CASE PopEmpty(l)
    <3> DEFINE new == [worker[l] EXCEPT !.pc = IF queue.closed THEN "exited" ELSE "selecting"]
    <3>1. worker' = [worker EXCEPT ![l] = new] /\ worker[l].pc = "popping"
      BY <2>4 DEF PopEmpty
    <3>2. new \in WorkerRecord /\ new.pc \in {"exited", "selecting"} /\ new.batch = None
      BY <2>1, <3>1 DEF WorkerRecord, Holding
    <3> HIDE DEF new
    <3>3. QED
      BY <3>1, <3>2, WorkerReplaced DEF Holding
  <2>5. CASE Block(l)
    <3> DEFINE new == [worker[l] EXCEPT !.pc = "waiting"]
    <3>1. worker' = [worker EXCEPT ![l] = new] /\ worker[l].pc = "selecting"
      BY <2>5 DEF Block
    <3>2. new \in WorkerRecord /\ new.pc = "waiting" /\ new.batch = None
      BY <2>1, <3>1 DEF WorkerRecord, Holding
    <3> HIDE DEF new
    <3>3. QED
      BY <3>1, <3>2, WorkerReplaced DEF Holding
  <2>6. CASE Wake(l)
    <3>1. PICK place \in {"popping", "exited"} :
             worker' = [worker EXCEPT ![l] = [worker[l] EXCEPT !.pc = place]]
      BY <2>6 DEF Wake
    <3> DEFINE new == [worker[l] EXCEPT !.pc = place]
    <3>2. worker[l].pc \in {"selecting", "waiting"}
      BY <2>6 DEF Wake
    <3>3. new \in WorkerRecord /\ new.pc \in {"popping", "exited"} /\ new.batch = None
      BY <2>1, <3>2 DEF WorkerRecord, Holding
    <3> HIDE DEF new
    <3>4. QED
      BY <3>1, <3>3, WorkerReplaced DEF Holding, new
  <2>7. ASSUME NEW outcome \in Outcomes, Attempt(l, outcome) PROVE WorkerShape'
    <3> DEFINE next == IF outcome = "delivered" THEN "acking"
                       ELSE IF outcome = "permanent" \/ worker[l].attempt > MaxRetries
                       THEN "releasing" ELSE "backoff"
               new == [worker[l] EXCEPT !.pc = next]
    <3>1. worker' = [worker EXCEPT ![l] = new] /\ worker[l].pc = "sending"
      BY <2>7 DEF Attempt
    <3>2. next = "backoff" => worker[l].attempt <= MaxRetries
      BY <2>1, <2>2 DEF WorkerRecord
    <3>3. next \in {"acking", "releasing", "backoff"}
      OBVIOUS
    <3> HIDE DEF next
    <3>4. /\ new \in WorkerRecord /\ new.pc = next /\ new.batch = worker[l].batch
          /\ new.attempt = worker[l].attempt
      BY <2>1, <3>3 DEF WorkerRecord
    <3> HIDE DEF new
    <3>5. QED
      BY <2>1, <3>1, <3>2, <3>3, <3>4, WorkerReplaced DEF Holding
  <2>8. CASE Backoff(l)
    <3> DEFINE new == IF cancelled THEN [worker[l] EXCEPT !.pc = "releasing"]
                      ELSE [worker[l] EXCEPT !.pc = "sending",
                                             !.attempt = worker[l].attempt + 1]
    <3>1. worker' = [worker EXCEPT ![l] = new] /\ worker[l].pc = "backoff"
      BY <2>8 DEF Backoff
    <3>2. worker[l].attempt + 1 \in 1..MaxRetries + 1
      BY <2>1, <2>2, <3>1 DEF WorkerRecord
    <3>3. /\ new \in WorkerRecord /\ new.pc \in {"releasing", "sending"}
          /\ new.batch = worker[l].batch
      BY <2>1, <3>2 DEF WorkerRecord
    <3> HIDE DEF new
    <3>4. QED
      BY <2>1, <3>1, <3>3, WorkerReplaced DEF Holding
  <2>9. CASE Ack(l)
    <3> DEFINE new == [worker[l] EXCEPT !.pc = "releasing"]
    <3>1. worker' = [worker EXCEPT ![l] = new] /\ worker[l].pc = "acking"
      BY <2>9 DEF Ack
    <3>2. new \in WorkerRecord /\ new.pc = "releasing" /\ new.batch = worker[l].batch
      BY <2>1 DEF WorkerRecord
    <3> HIDE DEF new
    <3>3. QED
      BY <2>1, <3>1, <3>2, WorkerReplaced DEF Holding
  <2>10. CASE ReleaseSent(l)
    <3> DEFINE new == [worker[l] EXCEPT !.pc = "done", !.batch = None]
    <3>1. worker' = [worker EXCEPT ![l] = new]
      BY <2>10 DEF ReleaseSent, Shape, WorkerShape
    <3>2. new \in WorkerRecord /\ new.pc = "done" /\ new.batch = None
      BY <2>1 DEF WorkerRecord
    <3> HIDE DEF new
    <3>3. QED
      BY <3>1, <3>2, WorkerReplaced DEF Holding
  <2>11. CASE WorkerDone(l)
    <3>1. worker' = [worker EXCEPT ![l] = IdleWorker]
      BY <2>11 DEF WorkerDone
    <3>2. /\ IdleWorker \in WorkerRecord /\ IdleWorker.pc = "popping"
          /\ IdleWorker.batch = None
      BY <2>2 DEF WorkerRecord, IdleWorker
    <3>3. QED
      BY <3>1, <3>2, WorkerReplaced DEF Holding
  <2>12. QED
    BY <1>1, <2>3, <2>4, <2>5, <2>6, <2>7, <2>8, <2>9, <2>10, <2>11 DEF WorkerStep
<1>2. CASE worker' = worker
  BY <1>2 DEF Shape, WorkerShape
<1>3. QED
  BY <1>1, <1>2, ValueStoreFrame, SlotFrame, DrainFrame DEF Next, Cancel, StartSlot, Stop

LEMMA StopShapeStep ==
    ASSUME Shape, Next
    PROVE  StopShape'
<1>1. CASE Stop
  BY <1>1, QueuedFacts DEF Stop, Remaining, Shape, StopShape, QueueShape
<1>2. CASE DrainStep
  BY <1>2, ZenonT(60) DEF DrainStep, ReleaseRemaining, StopDone, Stopped, Shape, StopShape
<1>3. CASE stopping' = stopping
  BY <1>3 DEF Shape, StopShape
<1>4. QED
  BY <1>1, <1>2, <1>3, ValueStoreFrame, SlotFrame, WorkerFrame DEF Next, Cancel, StartSlot

LEMMA QueueFields ==
    ASSUME QueueShape
    PROVE  /\ queue.lanes \in [Lanes -> Seq(Batch)] /\ queue.size \in Int
           /\ queue.closed \in BOOLEAN /\ queue.latest \in [Slots -> Nat]
           /\ \A l \in Lanes : queue.lanes[l] \in Seq(Batch)
           /\ \A l \in Lanes : \A n \in 1..Len(queue.lanes[l]) : queue.lanes[l][n].lane = l
BY DEF QueueShape

LEMMA QueueUpdated ==
    ASSUME QueueShape, NEW lanes \in [Lanes -> Seq(Batch)], NEW size \in Int
    PROVE  LET q == [queue EXCEPT !.lanes = lanes, !.size = size] IN
           /\ q.lanes = lanes /\ q.size = size
           /\ q.closed = queue.closed /\ q.latest = queue.latest
           /\ q \in [lanes : [Lanes -> Seq(Batch)], size : Int, closed : BOOLEAN,
                     latest : [Slots -> Nat]]
BY DEF QueueShape

LEMMA EnqueuedFields ==
    ASSUME QueueShape, NEW b \in Batch,
           [queue.lanes EXCEPT ![b.lane] = Append(queue.lanes[b.lane], b)] \in [Lanes -> Seq(Batch)]
    PROVE  /\ Enqueued(queue, b).lanes = [queue.lanes EXCEPT ![b.lane] = Append(queue.lanes[b.lane], b)]
           /\ Enqueued(queue, b).size = queue.size + 1
           /\ Enqueued(queue, b).closed = queue.closed
           /\ Enqueued(queue, b).latest = queue.latest
           /\ Enqueued(queue, b) \in
                 [lanes : [Lanes -> Seq(Batch)], size : Int, closed : BOOLEAN,
                  latest : [Slots -> Nat]]
<1> DEFINE lanes == [queue.lanes EXCEPT ![b.lane] = Append(queue.lanes[b.lane], b)]
           size == queue.size + 1
           q == [queue EXCEPT !.lanes = lanes, !.size = size]
<1>1. Enqueued(queue, b) = q
  BY DEF QueueShape, Enqueued
<1>2. lanes \in [Lanes -> Seq(Batch)] /\ size \in Int
  BY QueueFields
<1> HIDE DEF lanes, size
<1>3. /\ q.lanes = lanes /\ q.size = size
      /\ q.closed = queue.closed /\ q.latest = queue.latest
      /\ q \in [lanes : [Lanes -> Seq(Batch)], size : Int, closed : BOOLEAN,
                latest : [Slots -> Nat]]
  BY <1>2, QueueUpdated
<1> HIDE DEF q
<1>4. QED
  BY <1>1, <1>3 DEF lanes, size

LEMMA PoppedFields ==
    ASSUME QueueShape, NEW l \in Lanes,
           [queue.lanes EXCEPT ![l] = Tail(queue.lanes[l])] \in [Lanes -> Seq(Batch)]
    PROVE  /\ Popped(queue, l).lanes = [queue.lanes EXCEPT ![l] = Tail(queue.lanes[l])]
           /\ Popped(queue, l).size = queue.size - 1
           /\ Popped(queue, l).closed = queue.closed
           /\ Popped(queue, l).latest = queue.latest
           /\ Popped(queue, l) \in
                 [lanes : [Lanes -> Seq(Batch)], size : Int, closed : BOOLEAN,
                  latest : [Slots -> Nat]]
<1> DEFINE lanes == [queue.lanes EXCEPT ![l] = Tail(queue.lanes[l])]
           size == queue.size - 1
           q == [queue EXCEPT !.lanes = lanes, !.size = size]
<1>1. Popped(queue, l) = q
  BY DEF QueueShape, Popped
<1>2. lanes \in [Lanes -> Seq(Batch)] /\ size \in Int
  BY QueueFields
<1> HIDE DEF lanes, size
<1>3. /\ q.lanes = lanes /\ q.size = size
      /\ q.closed = queue.closed /\ q.latest = queue.latest
      /\ q \in [lanes : [Lanes -> Seq(Batch)], size : Int, closed : BOOLEAN,
                latest : [Slots -> Nat]]
  BY <1>2, QueueUpdated
<1> HIDE DEF q
<1>4. QED
  BY <1>1, <1>3 DEF lanes, size

\* A sequence with one more element at its end.
LEMMA AppendFacts ==
    ASSUME NEW S, NEW s \in Seq(S), NEW b \in S
    PROVE  /\ Append(s, b) \in Seq(S) /\ Len(s) \in Nat
           /\ Len(Append(s, b)) = Len(s) + 1 /\ Append(s, b)[Len(s) + 1] = b
           /\ \A n \in 1..Len(s) : Append(s, b)[n] = s[n]
           /\ \A n \in 1..Len(Append(s, b)) : n = Len(s) + 1 \/ n \in 1..Len(s)
<1>1. Len(s) \in Nat
  BY LenProperties
<1>2. /\ Append(s, b) \in Seq(S) /\ Len(Append(s, b)) = Len(s) + 1
      /\ Append(s, b)[Len(s) + 1] = b
      /\ \A n \in 1..Len(s) : Append(s, b)[n] = s[n]
  BY AppendProperties
<1>3. \A n \in 1..Len(Append(s, b)) : n = Len(s) + 1 \/ n \in 1..Len(s)
  BY <1>1, <1>2
<1>4. QED
  BY <1>1, <1>2, <1>3

LEMMA QueueShapeStep ==
    ASSUME Shape, Next
    PROVE  QueueShape'
<1>1. CASE BeginCycle
  <2>1. CASE ~IsCurrent(queue, loop.slot, loop.cycle)
    BY <1>1, <2>1 DEF BeginCycle, Shape, QueueShape
  <2>2. CASE IsCurrent(queue, loop.slot, loop.cycle)
    <3>1. /\ queue' = beginLongCycle(queue, loop.slot, loop.cycle) /\ notify' = notify
          /\ loop.slot \in Slots /\ loop.cycle \in Nat
      BY <1>1, <2>2 DEF BeginCycle, Shape, LoopShape, LoopRecord
    <3> DEFINE q == beginLongCycle(queue, loop.slot, loop.cycle)
    <3>2. /\ q \in [lanes : [Lanes -> Seq(Batch)], size : {q.size},
                    closed : BOOLEAN, latest : [Slots -> Nat]]
          /\ q.size = SizeWithout(queue, RemovedBatches(queue, loop.slot, loop.cycle))
          /\ \A l \in Lanes :
                IsSublist(queue.lanes[l], KeptAt(queue, loop.slot, loop.cycle, l), q.lanes[l])
      <4>1. QueueShape
        BY DEF Shape
      <4>2. QED
        BY <3>1, <4>1, BeginCycleFacts, ZenonT(60)
    <3> HIDE DEF q
    <3>3. \A l \in Lanes : \A n \in 1..Len(q.lanes[l]) : q.lanes[l][n].lane = l
      <4> SUFFICES ASSUME NEW l \in Lanes, NEW n \in 1..Len(q.lanes[l])
                   PROVE  q.lanes[l][n].lane = l
        OBVIOUS
      <4>1. PICK i \in KeptAt(queue, loop.slot, loop.cycle, l) :
               q.lanes[l][n] = queue.lanes[l][i]
        BY <3>2 DEF IsSublist
      <4>2. i \in 1..Len(queue.lanes[l])
        BY DEF KeptAt
      <4>3. QED
        BY <4>1, <4>2 DEF Shape, QueueShape
    <3>4. q.size \in Int
      <4>1. RemovedBatches(queue, loop.slot, loop.cycle) \subseteq Queued(queue)
        BY DEF RemovedBatches
      <4>2. Cardinality(RemovedBatches(queue, loop.slot, loop.cycle)) \in Nat
        BY <4>1, QueuedFinite, FS_Subset, FS_CardinalityType DEF Shape, QueueShape
      <4>3. QED
        BY <3>2, <4>2 DEF SizeWithout, Shape, QueueShape
    <3>5. q \in [lanes : [Lanes -> Seq(Batch)], size : Int, closed : BOOLEAN,
                 latest : [Slots -> Nat]]
      BY <3>2, <3>4
    <3>6. queue' = q
      BY <3>1 DEF q
    <3>7. QED
      BY <3>1, <3>3, <3>5, <3>6 DEF Shape, QueueShape
  <2>3. QED
    BY <2>1, <2>2
<1>2. CASE TryEnqueue
  <2>1. CASE Admission(queue, loop.batch) # "accepted"
    BY <1>2, <2>1 DEF TryEnqueue, Shape, QueueShape
  <2>2. CASE Admission(queue, loop.batch) = "accepted"
    <3>1. loop.batch \in Batch /\ loop.batch.lane \in Lanes
      BY <1>2, NoneFacts DEF TryEnqueue, Shape, LoopShape, LoopRecord, Batch
    <3> DEFINE b == loop.batch
               k == b.lane
    <3>2. queue' = Enqueued(queue, b) /\ notify' = [notify EXCEPT ![k] = TRUE]
      BY <1>2, <2>2 DEF TryEnqueue, Notified
    <3>3. QueueShape /\ b \in Batch /\ notify' \in [Lanes -> BOOLEAN]
      BY <3>1, <3>2 DEF Shape, QueueShape
    <3> HIDE DEF b
    <3>4. /\ queue'.lanes = [queue.lanes EXCEPT ![k] = Append(queue.lanes[k], b)]
          /\ Append(queue.lanes[k], b) \in Seq(Batch)
          /\ queue' \in [lanes : [Lanes -> Seq(Batch)], size : Int, closed : BOOLEAN,
                         latest : [Slots -> Nat]]
      <4>1. k \in Lanes /\ queue.lanes \in [Lanes -> Seq(Batch)]
        BY <3>1, <3>3, QueueFields DEF b
      <4>2. Append(queue.lanes[k], b) \in Seq(Batch)
        BY <3>3, <4>1
      <4>3. [queue.lanes EXCEPT ![k] = Append(queue.lanes[k], b)] \in [Lanes -> Seq(Batch)]
        BY <4>1, <4>2
      <4>4. QED
        BY <3>2, <3>3, <4>2, <4>3, EnqueuedFields
    <3>5. /\ queue'.lanes \in [Lanes -> Seq(Batch)]
          /\ queue'.lanes[k] = Append(queue.lanes[k], b)
          /\ \A l \in Lanes : l # k => queue'.lanes[l] = queue.lanes[l]
      <4>1. k \in Lanes /\ queue.lanes \in [Lanes -> Seq(Batch)]
        BY <3>1, <3>3, QueueFields DEF b
      <4>2. QED
        BY <3>4, <4>1
    <3>6. \A n \in 1..Len(Append(queue.lanes[k], b)) : Append(queue.lanes[k], b)[n].lane = k
      <4>1. \A n \in 1..Len(queue.lanes[k]) : queue.lanes[k][n].lane = k
        BY <3>1, <3>3, QueueFields DEF b
      <4> DEFINE s == queue.lanes[k]
      <4>2. s \in Seq(Batch)
        BY <3>1, <3>3, QueueFields DEF b
      <4>3. \A n \in 1..Len(s) : s[n].lane = k
        BY <4>1
      <4> HIDE DEF s
      <4>4. \A n \in 1..Len(Append(s, b)) : Append(s, b)[n].lane = k
        BY <3>3, <4>2, <4>3, AppendFacts
      <4>5. QED
        BY <4>4 DEF s
    <3>7. \A l \in Lanes : \A n \in 1..Len(queue'.lanes[l]) : queue'.lanes[l][n].lane = l
      BY <3>3, <3>5, <3>6, QueueFields
    <3>8. QED
      BY <3>3, <3>4, <3>5, <3>7 DEF QueueShape
  <2>3. QED
    BY <2>1, <2>2
<1>3. ASSUME NEW l \in Lanes, WorkerStep(l) PROVE QueueShape'
  <2>1. CASE Pop(l)
    <3>1. queue.lanes[l] # <<>> /\ queue' = Popped(queue, l)
      BY <2>1 DEF Pop
    <3>2. QueueShape /\ notify' \in [Lanes -> BOOLEAN]
      BY <2>1 DEF Pop, Notified, Shape, QueueShape
    <3>3. /\ queue'.lanes = [queue.lanes EXCEPT ![l] = Tail(queue.lanes[l])]
          /\ Tail(queue.lanes[l]) \in Seq(Batch)
          /\ queue' \in [lanes : [Lanes -> Seq(Batch)], size : Int, closed : BOOLEAN,
                         latest : [Slots -> Nat]]
      <4>1. queue.lanes \in [Lanes -> Seq(Batch)]
        BY <3>2, QueueFields
      <4>2. Tail(queue.lanes[l]) \in Seq(Batch)
        BY <3>1, <4>1
      <4>3. [queue.lanes EXCEPT ![l] = Tail(queue.lanes[l])] \in [Lanes -> Seq(Batch)]
        BY <4>1, <4>2
      <4>4. QED
        BY <3>1, <3>2, <4>2, <4>3, PoppedFields
    <3>4. /\ queue'.lanes \in [Lanes -> Seq(Batch)]
          /\ queue'.lanes[l] = Tail(queue.lanes[l])
          /\ \A k \in Lanes : k # l => queue'.lanes[k] = queue.lanes[k]
      BY <3>2, <3>3, QueueFields
    <3>5. \A n \in 1..Len(Tail(queue.lanes[l])) : Tail(queue.lanes[l])[n].lane = l
      <4> DEFINE s == queue.lanes[l]
      <4>1. s \in Seq(Batch) /\ s # <<>> /\ \A n \in 1..Len(s) : s[n].lane = l
        BY <3>1, <3>2, QueueFields
      <4> HIDE DEF s
      <4>2. \A n \in 1..Len(Tail(s)) : Tail(s)[n].lane = l
        BY <4>1, TailFacts
      <4>3. QED
        BY <4>2 DEF s
    <3>6. \A k \in Lanes : \A n \in 1..Len(queue'.lanes[k]) : queue'.lanes[k][n].lane = k
      BY <3>2, <3>4, <3>5, QueueFields
    <3>7. QED
      BY <3>2, <3>3, <3>4, <3>6 DEF QueueShape
  <2>2. CASE queue' = queue /\ notify' \in [Lanes -> BOOLEAN]
    BY <2>2 DEF Shape, QueueShape
  <2>3. ASSUME Wake(l) PROVE queue' = queue /\ notify' \in [Lanes -> BOOLEAN]
    BY <2>3 DEF Wake, Shape, QueueShape
  <2>4. QED
    BY <1>3, <2>1, <2>2, <2>3 DEF WorkerStep, PopEmpty, Block, Attempt, Backoff, Ack,
       ReleaseSent, WorkerDone, Shape, QueueShape
<1>4. CASE Stop
  <2>1. /\ queue' = [queue EXCEPT !.closed = TRUE, !.size = 0, !.lanes = [l \in Lanes |-> <<>>]]
        /\ notify' = [l \in Lanes |-> TRUE]
    BY <1>4 DEF Stop, Closed, Notified
  <2>2. <<>> \in Seq(Batch) /\ 1..Len(<<>>) = {}
    OBVIOUS
  <2>3. queue' = [lanes |-> [l \in Lanes |-> <<>>], size |-> 0, closed |-> TRUE,
                  latest |-> queue.latest]
    BY <2>1 DEF Shape, QueueShape
  <2>4. /\ queue' \in [lanes : [Lanes -> Seq(Batch)], size : Int, closed : BOOLEAN,
                      latest : [Slots -> Nat]]
        /\ \A l \in Lanes : queue'.lanes[l] = <<>>
    BY <2>2, <2>3, QueueFields DEF Shape
  <2>5. notify' \in [Lanes -> BOOLEAN]
    BY <2>1
  <2>6. QED
    BY <2>2, <2>4, <2>5 DEF QueueShape
<1>5. CASE queue' = queue /\ notify' = notify
  BY <1>5 DEF Shape, QueueShape
<1>6. SlotStep => BeginCycle \/ TryEnqueue \/ (queue' = queue /\ notify' = notify)
  BY DEF SlotStep, ReleaseRemoved, LoopDone, StartPaging, HostPage, ItemPage,
       EndSlot, SkipSample, HostsCancelled, AddSample, SkipReserved, Finish, CountBatch,
       ReleaseRefused, Cleanup
<1>7. QED
  BY <1>1, <1>2, <1>3, <1>4, <1>5, <1>6, ValueStoreFrame, DrainFrame
  DEF Next, Cancel, StartSlot

LEMMA IdleLoopType ==
    /\ IdleLoop \in LoopRecord /\ IdleLoop.pc = "idle" /\ IdleLoop.removed = {}
    /\ IdleLoop.owed = FALSE /\ IdleLoop.batch = None /\ IdleLoop.sample = None
    /\ IdleLoop.builders = NoBuilders /\ IdleLoop.page = <<>> /\ IdleLoop.hosts = <<>>
<1>1. NoBuilders \in [Builders -> SUBSET Key]
  BY DEF NoBuilders
<1>2. QED
  BY <1>1, ConstantFacts DEF IdleLoop, LoopRecord

LEMMA IdleLoopShape ==
    ASSUME loop' = IdleLoop
    PROVE  LoopShape'
<1>1. \A x \in Builders : NoBuilders[x] = {}
  BY DEF NoBuilders
<1>2. QED
  BY <1>1, IdleLoopType DEF LoopShape

LEMMA HostPageType ==
    ASSUME Shape, loop.pc = "paging"
    PROVE  LET page == AtMost(loop.hosts, PageSize)
               SampleOf(h) == [series |-> h, version |-> 1, ts |-> loop.cycle]
           IN  /\ [n \in 1..Len(page) |-> SampleOf(page[n])] \in Seq(Key)
               /\ SubSeq(loop.hosts, Len(page) + 1, Len(loop.hosts)) \in Seq(HostSet)
               /\ \A m \in 1..Len(SubSeq(loop.hosts, Len(page) + 1, Len(loop.hosts))) :
                    \E j \in 1..Len(loop.hosts) :
                      SubSeq(loop.hosts, Len(page) + 1, Len(loop.hosts))[m] = loop.hosts[j]
<1> DEFINE s == loop.hosts
           page == AtMost(s, PageSize)
<1>1. s \in Seq(HostSet) /\ PageSize \in Nat
  BY ConstantFacts DEF Shape, LoopShape, LoopRecord
<1> HIDE DEF s
<1>2. /\ page \in Seq(HostSet) /\ Len(page) \in Nat
      /\ SubSeq(s, Len(page) + 1, Len(s)) \in Seq(HostSet)
      /\ \A m \in 1..Len(SubSeq(s, Len(page) + 1, Len(s))) :
           \E j \in 1..Len(s) : SubSeq(s, Len(page) + 1, Len(s))[m] = s[j]
  BY <1>1, AtMostFacts
<1>3. \A n \in 1..Len(page) : page[n] \in HostSet
  BY <1>2, ElementOfSeq
<1>4. \A h \in HostSet : [series |-> h, version |-> 1, ts |-> loop.cycle] \in Key
  <2>1. loop.cycle \in 0..MaxCycle /\ 1 \in 1..MaxVersions
    BY ConstantFacts DEF Shape, LoopShape, LoopRecord
  <2>2. QED
    BY <2>1 DEF Key, Series
<1> HIDE DEF page
<1>5. [n \in 1..Len(page) |-> [series |-> page[n], version |-> 1, ts |-> loop.cycle]]
        \in Seq(Key)
  BY <1>2, <1>3, <1>4
<1>6. QED
  BY <1>2, <1>5 DEF page, s

LEMMA KeyOfType ==
    ASSUME Shape, NEW i \in Items, store[i] # None, NEW cycle \in 0..MaxCycle
    PROVE  KeyOf(i, cycle) \in Key
<1>1. store[i].version \in 1..MaxVersions
  BY ConstantFacts DEF Shape, StoreShape
<1>2. 0 \in 0..MaxCycle
  BY ConstantFacts
<1>3. QED
  BY <1>1, <1>2 DEF KeyOf, Key, Series

LEMMA ItemPageType ==
    ASSUME Shape, loop.pc = "paging"
    PROVE  LET page == PageOf(loop.slot, loop.cycle, loop.cursor)
           IN  /\ [n \in 1..Len(page) |-> KeyOf(page[n], loop.cycle)] \in Seq(Key)
               /\ page # <<>> => store[page[Len(page)]].sequence \in Nat
<1> DEFINE page == PageOf(loop.slot, loop.cycle, loop.cursor)
<1>1. loop.slot \in Slots /\ loop.cycle \in 0..MaxCycle /\ loop.cursor \in Nat
  BY DEF Shape, LoopShape, LoopRecord
<1>2. /\ page \in Seq(Items)
      /\ \A n \in 1..Len(page) : page[n] \in Unread(loop.slot, loop.cycle, loop.cursor)
  BY <1>1, PageOfFacts
<1>3. \A n \in 1..Len(page) : page[n] \in Items /\ store[page[n]] # None
  BY <1>2 DEF Unread, Eligible
<1> HIDE DEF page
<1>4. Len(page) \in Nat /\ (page # <<>> => Len(page) \in 1..Len(page))
  <2>1. Len(page) \in Nat /\ (page # <<>> => Len(page) # 0)
    BY <1>2, LenProperties, EmptySeq
  <2>2. QED
    BY <2>1
<1>5. [n \in 1..Len(page) |-> KeyOf(page[n], loop.cycle)] \in Seq(Key)
  <2>1. \A n \in 1..Len(page) : KeyOf(page[n], loop.cycle) \in Key
    BY <1>1, <1>3, KeyOfType
  <2>2. QED
    BY <1>4, <2>1
<1>6. page # <<>> => store[page[Len(page)]].sequence \in Nat
  BY <1>3, <1>4 DEF Shape, StoreShape
<1>7. QED
  BY <1>5, <1>6 DEF page

LEMMA NewBatchType ==
    ASSUME Shape, loop.pc # "idle", NEW x \in Builders
    PROVE  /\ NewBatch(x) \in Batch /\ NewBatch(x) # None
           /\ NewBatch(x).keys = loop.builders[x] /\ NewBatch(x).lane = x[1]
           /\ NewBatch(x).policy = x[2] /\ NewBatch(x).slot = loop.slot
           /\ NewBatch(x).cycle = loop.cycle
<1>1. /\ x[1] \in Lanes /\ x[2] \in {"source", "cycle"} /\ loop.slot \in Slots
      /\ loop.cycle \in Nat /\ loop.builders[x] \in SUBSET Key
  BY ConstantFacts DEF Shape, LoopShape, LoopRecord
<1>2. NewBatch(x) \in Batch
  BY <1>1 DEF NewBatch, Batch
<1>3. QED
  BY <1>2, NoneFacts DEF NewBatch

LEMMA LoopShapeSlotStep ==
    ASSUME Shape, SlotStep
    PROVE  LoopShape'
<1>0. cycles' = cycles
  BY SlotFrame
<1>a. /\ LoopShape /\ loop \in LoopRecord
      /\ \A x \in Builders : \A k \in NoBuilders[x] : BuilderOf(k) = x
  BY DEF Shape, LoopShape, NoBuilders
<1>1. CASE BeginCycle
  <2>1. CASE ~IsCurrent(queue, loop.slot, loop.cycle)
    BY <1>1, <2>1, IdleLoopShape DEF BeginCycle
  <2>2. CASE IsCurrent(queue, loop.slot, loop.cycle)
    <3>1. loop' = [loop EXCEPT !.pc = "dropping",
                     !.removed = RemovedBatches(queue, loop.slot, loop.cycle),
                     !.hosts = HostsOf(loop.slot)] /\ loop.pc = "started"
      BY <1>1, <2>2 DEF BeginCycle
    <3>2. loop.slot \in Slots
      BY <3>1, <1>a DEF LoopShape
    <3>3. /\ HostsOf(loop.slot) \in Seq(HostSet)
          /\ \A n \in 1..Len(HostsOf(loop.slot)) : SlotOf[HostsOf(loop.slot)[n]] = loop.slot
      BY <3>2, HostsOfFacts
    <3>4. RemovedBatches(queue, loop.slot, loop.cycle) \subseteq Batch
      BY QueuedFacts DEF RemovedBatches, Shape, QueueShape
    <3>5. QED
      BY <1>0, <1>a, <3>1, <3>3, <3>4 DEF LoopShape, LoopRecord, OutsidePages
  <2>3. QED
    BY <2>1, <2>2
<1>2. ASSUME NEW b \in loop.removed, ReleaseRemoved(b) PROVE LoopShape'
  BY <1>0, <1>a, <1>2 DEF ReleaseRemoved, LoopShape, LoopRecord, OutsidePages
<1>3. CASE LoopDone
  BY <1>0, <1>a, <1>3 DEF LoopDone, LoopShape, LoopRecord, OutsidePages
<1>4. CASE StartPaging
  BY <1>0, <1>a, <1>4 DEF StartPaging, LoopShape, LoopRecord, OutsidePages
<1>5. CASE HostPage
  <2> DEFINE page == AtMost(loop.hosts, PageSize)
             SampleOf(h) == [series |-> h, version |-> 1, ts |-> loop.cycle]
             keys == [n \in 1..Len(page) |-> SampleOf(page[n])]
             rest == SubSeq(loop.hosts, Len(page) + 1, Len(loop.hosts))
  <2>1. /\ loop.pc = "paging"
        /\ loop' = [loop EXCEPT !.pc = "adding", !.page = keys, !.hosts = rest]
    BY <1>5 DEF HostPage
  <2>2. /\ keys \in Seq(Key) /\ rest \in Seq(HostSet)
        /\ \A m \in 1..Len(rest) : \E j \in 1..Len(loop.hosts) : rest[m] = loop.hosts[j]
    BY <2>1, HostPageType
  <2> HIDE DEF keys, rest
  <2>3. \A m \in 1..Len(rest) : SlotOf[rest[m]] = loop.slot
    BY <1>a, <2>2 DEF LoopShape
  <2>4. QED
    BY <1>0, <1>a, <2>1, <2>2, <2>3 DEF LoopShape, LoopRecord, OutsidePages
<1>6. CASE ItemPage
  <2> DEFINE page == PageOf(loop.slot, loop.cycle, loop.cursor)
             keys == [n \in 1..Len(page) |-> KeyOf(page[n], loop.cycle)]
             cursor == IF page = <<>> THEN loop.cursor ELSE store[page[Len(page)]].sequence
             done == Len(page) < PageSize
  <2>1. /\ loop.pc = "paging"
        /\ loop' = [loop EXCEPT !.pc = "adding", !.page = keys, !.cursor = cursor,
                                !.done = done]
    BY <1>6 DEF ItemPage
  <2>2. keys \in Seq(Key) /\ cursor \in Nat
    <3>1. keys \in Seq(Key) /\ (page # <<>> => store[page[Len(page)]].sequence \in Nat)
      BY <2>1, ItemPageType
    <3>2. QED
      BY <1>a, <3>1 DEF LoopRecord
  <2>3. done \in BOOLEAN
    OBVIOUS
  <2> HIDE DEF keys, cursor, done
  <2>4. QED
    BY <1>0, <1>a, <2>1, <2>2, <2>3 DEF LoopShape, LoopRecord, OutsidePages
<1>7. CASE EndSlot
  BY <1>7, IdleLoopShape DEF EndSlot
<1>8. CASE SkipSample
  BY <1>0, <1>a, <1>8, TailFacts DEF SkipSample, LoopShape, LoopRecord, OutsidePages
<1>9. CASE HostsCancelled
  BY <1>0, <1>a, <1>9 DEF HostsCancelled, LoopShape, LoopRecord, OutsidePages
<1>10. CASE AddSample
  <2> DEFINE key == Head(loop.page)
             x == BuilderOf(key)
  <2>1. /\ loop.pc = "adding" /\ loop.page # <<>> /\ loop.page \in Seq(Key)
        /\ loop.sample = None /\ loop.batch = None /\ loop.removed = {} /\ ~loop.owed
    BY <1>10, <1>a DEF AddSample, LoopShape, LoopRecord
  <2>2. key \in Key /\ Tail(loop.page) \in Seq(Key) /\ x \in Builders
    BY <2>1, TailFacts, ConstantFacts
  <2>3. /\ NewBatch(x) \in Batch /\ NewBatch(x) # None /\ key # None
    BY <2>1, <2>2, NewBatchType, NoneFacts
  <2>4. loop' = IF Cardinality(loop.builders[x]) < MaxSamples
                THEN [loop EXCEPT !.page = Tail(loop.page),
                                  !.builders[x] = loop.builders[x] \cup {key}]
                ELSE [loop EXCEPT !.pc = "submitting", !.page = Tail(loop.page),
                                  !.batch = NewBatch(x), !.builders[x] = {}, !.sample = key]
    BY <1>10 DEF AddSample
  <2>5. CASE Cardinality(loop.builders[x]) < MaxSamples
    <3> DEFINE tail == Tail(loop.page)
               builders == [loop.builders EXCEPT ![x] = loop.builders[x] \cup {key}]
    <3>1. loop' = [loop EXCEPT !.page = tail, !.builders = builders]
      BY <1>a, <2>4, <2>5 DEF LoopRecord
    <3>2. x = BuilderOf(key)
      OBVIOUS
    <3> HIDE DEF key, x
    <3>3. builders \in [Builders -> SUBSET Key]
      BY <1>a, <2>2 DEF LoopRecord
    <3>4. \A y \in Builders : \A k \in builders[y] : BuilderOf(k) = y
      BY <1>a, <2>2, <3>2 DEF LoopRecord, LoopShape
    <3> HIDE DEF tail, builders
    <3>5. tail \in Seq(Key)
      BY <2>2 DEF tail
    <3>6. QED
      BY <1>0, <1>a, <2>1, <3>1, <3>3, <3>4, <3>5 DEF LoopShape, LoopRecord, OutsidePages
  <2>6. CASE ~(Cardinality(loop.builders[x]) < MaxSamples)
    <3>1. loop' = [loop EXCEPT !.pc = "submitting", !.page = Tail(loop.page),
                               !.batch = NewBatch(x), !.builders[x] = {}, !.sample = key]
      BY <2>4, <2>6
    <3>2. x = BuilderOf(key)
      OBVIOUS
    <3> HIDE DEF key, x
    <3>3. QED
      BY <1>0, <1>a, <2>1, <2>2, <2>3, <3>1, <3>2 DEF LoopShape, LoopRecord, OutsidePages
  <2>7. QED
    BY <2>5, <2>6
<1>11. CASE SkipReserved
  BY <1>0, <1>a, <1>11, TailFacts DEF SkipReserved, LoopShape, LoopRecord, OutsidePages
<1>12. CASE Finish
  <2>1. ASSUME NEW x \in Builders,
               loop' = [loop EXCEPT !.pc = "submitting", !.batch = NewBatch(x),
                                    !.builders[x] = {}]
        PROVE  LoopShape'
    <3>1. loop.pc = "adding"
      BY <1>12 DEF Finish
    <3>2. NewBatch(x) \in Batch /\ NewBatch(x) # None
      BY <3>1, NewBatchType
    <3>3. QED
      BY <1>0, <1>a, <2>1, <3>1, <3>2 DEF LoopShape, LoopRecord, OutsidePages
  <2>2. CASE /\ loop.builders = NoBuilders
             /\ loop' = [loop EXCEPT !.pc = "paging"]
    BY <1>0, <1>a, <1>12, <2>2 DEF Finish, LoopShape, LoopRecord, OutsidePages
  <2>3. QED
    BY <1>12, <2>1, <2>2 DEF Finish
<1>13. CASE CountBatch
  BY <1>0, <1>a, <1>13 DEF CountBatch, LoopShape, LoopRecord, OutsidePages
<1>14. CASE TryEnqueue
  <2>1. CASE loop' = [loop EXCEPT !.pc = "refused"]
    BY <1>0, <1>a, <1>14, <2>1 DEF TryEnqueue, LoopShape, LoopRecord, OutsidePages
  <2>2. CASE loop' = AfterSubmit
    <3>1. CASE loop.sample = None
      BY <1>0, <1>a, <1>14, <2>2, <3>1, ZenonT(60)
      DEF AfterSubmit, TryEnqueue, LoopShape, LoopRecord, OutsidePages
    <3>2. CASE loop.sample # None
      <4> DEFINE x == BuilderOf(loop.sample)
      <4>1. loop.sample \in Key /\ x \in Builders
        BY <1>a, <3>2, ConstantFacts DEF LoopRecord
      <4>2. loop' = [loop EXCEPT !.pc = "adding", !.batch = None, !.sample = None,
                                 !.builders[x] = {loop.sample}]
        BY <2>2, <3>2 DEF AfterSubmit
      <4>3. x = BuilderOf(loop.sample) /\ loop.pc = "enqueueing"
        BY <1>14 DEF TryEnqueue
      <4> HIDE DEF x
      <4>4. QED
        BY <1>0, <1>a, <4>1, <4>2, <4>3 DEF LoopShape, LoopRecord, OutsidePages
    <3>3. QED
      BY <3>1, <3>2
  <2>3. QED
    BY <1>14, <2>1, <2>2 DEF TryEnqueue
<1>15. CASE ReleaseRefused
  BY <1>0, <1>a, <1>15 DEF ReleaseRefused, LoopShape, LoopRecord, OutsidePages
<1>16. CASE Cleanup
  BY <1>16, IdleLoopShape DEF Cleanup
<1>17. QED
  BY <1>1, <1>2, <1>3, <1>4, <1>5, <1>6, <1>7, <1>8, <1>9, <1>10, <1>11, <1>12, <1>13,
     <1>14, <1>15, <1>16 DEF SlotStep

LEMMA StartSlotFacts ==
    ASSUME Shape, NEW slot \in Slots, NEW at \in 1..MaxCycle, StartSlot(slot, at)
    PROVE  /\ Normalized(slot, at) \in 0..MaxCycle
           /\ cycles[slot] <= Normalized(slot, at)
           /\ cycles' = [cycles EXCEPT ![slot] = Normalized(slot, at)]
           /\ cycles'[slot] = Normalized(slot, at)
           /\ \A s \in Slots : cycles[s] <= cycles'[s]
           /\ cycles' \in [Slots -> 0..MaxCycle] /\ requested' \in [Slots -> Nat]
           /\ Normalized(slot, at) # 0
           /\ \A s \in Slots : requested'[s] # 0 => cycles'[s] # 0
<1>1. cycles[slot] \in 0..MaxCycle /\ at \in 1..MaxCycle /\ MaxCycle \in Nat
  BY ConstantFacts DEF Shape
<1>2. Normalized(slot, at) <= MaxCycle
  BY DEF StartSlot
<1>3. Normalized(slot, at) \in 0..MaxCycle /\ cycles[slot] <= Normalized(slot, at)
  BY <1>1, <1>2 DEF Normalized
<1>4. /\ cycles' = [cycles EXCEPT ![slot] = Normalized(slot, at)]
      /\ requested' = [requested EXCEPT ![slot] = at]
  BY DEF StartSlot
<1>5. /\ cycles'[slot] = Normalized(slot, at) /\ cycles' \in [Slots -> 0..MaxCycle]
      /\ \A s \in Slots : s # slot => cycles'[s] = cycles[s]
  BY <1>3, <1>4 DEF Shape
<1>6. \A s \in Slots : cycles[s] \in Int
  BY <1>1 DEF Shape
<1>7. Normalized(slot, at) # 0
  BY <1>1 DEF Normalized, Shape
<1>8. \A s \in Slots : requested'[s] # 0 => cycles'[s] # 0
  BY <1>4, <1>5, <1>7 DEF Shape
<1>9. QED
  BY <1>1, <1>3, <1>4, <1>5, <1>6, <1>7, <1>8 DEF Shape

LEMMA LoopShapeStep ==
    ASSUME Shape, Next
    PROVE  LoopShape'
<1>1. ASSUME NEW slot \in Slots, NEW at \in 1..MaxCycle, StartSlot(slot, at)
      PROVE  LoopShape'
  <2> DEFINE cycle == Normalized(slot, at)
  <2>1. loop' = [IdleLoop EXCEPT !.pc = "started", !.slot = slot, !.cycle = cycle]
    BY <1>1 DEF StartSlot
  <2>2. cycle \in 0..MaxCycle /\ cycles'[slot] = cycle /\ cycle # 0
    BY <1>1, StartSlotFacts
  <2>3. \A x \in Builders : NoBuilders[x] = {}
    BY DEF NoBuilders
  <2> HIDE DEF cycle
  <2>4. /\ loop' \in LoopRecord /\ loop'.pc = "started" /\ loop'.slot = slot
        /\ loop'.cycle = cycle /\ loop'.hosts = <<>> /\ loop'.removed = {}
        /\ loop'.owed = FALSE /\ loop'.batch = None /\ loop'.sample = None
        /\ loop'.builders = NoBuilders /\ loop'.page = <<>>
    BY <2>1, <2>2, IdleLoopType DEF LoopRecord
  <2>5. QED
    BY <2>2, <2>3, <2>4 DEF LoopShape, OutsidePages
<1>2. CASE loop' = loop /\ cycles' = cycles
  BY <1>2 DEF Shape, LoopShape
<1>3. QED
  BY <1>1, <1>2, LoopShapeSlotStep, ValueStoreFrame, WorkerFrame, DrainFrame
  DEF Next, Cancel, Stop

\* What a worker that holds a batch holds.
LEMMA WorkerHolds ==
    ASSUME Shape, NEW l \in Lanes, worker[l].pc \in Holding
    PROVE  /\ worker[l].batch \in Batch /\ worker[l].batch # None
           /\ worker[l].batch.keys \subseteq Key /\ worker[l].batch.lane = l
<1>1. worker[l] \in WorkerRecord /\ worker[l].batch # None
  BY DEF Shape, WorkerShape
<1>2. worker[l].batch \in Batch /\ worker[l].batch.lane = l
  BY <1>1 DEF WorkerRecord, Shape, WorkerShape
<1>3. QED
  BY <1>1, <1>2 DEF Batch

\* The reservations that a step adds or takes away, and what an attempt delivers.
LEMMA KeysShapeStep ==
    ASSUME Shape, Next
    PROVE  reservations' \subseteq Key /\ received' \subseteq Key
<1>1. reservations \subseteq Key /\ received \subseteq Key
  BY DEF Shape
<1>2. CASE SlotStep
  <2>1. AddSample => Head(loop.page) \in Key
    <3>1. AddSample => loop.page \in Seq(Key) /\ loop.page # <<>>
      BY DEF AddSample, Shape, LoopShape, LoopRecord
    <3>2. QED
      BY <3>1, TailFacts
  <2>2. AddSample => reservations' = reservations \cup {Head(loop.page)}
    BY DEF AddSample
  <2>3. reservations' \subseteq reservations \/ AddSample
    BY <1>2 DEF SlotStep, BeginCycle, ReleaseRemoved, LoopDone, StartPaging, HostPage,
       ItemPage, EndSlot, SkipSample, HostsCancelled, SkipReserved, Finish, CountBatch,
       TryEnqueue, ReleaseRefused, Cleanup
  <2>4. QED
    BY <1>1, <1>2, <2>1, <2>2, <2>3, SlotFrame
<1>3. ASSUME NEW l \in Lanes, WorkerStep(l)
      PROVE  reservations' \subseteq Key /\ received' \subseteq Key
  <2>1. ASSUME NEW outcome \in Outcomes, Attempt(l, outcome)
        PROVE  reservations' \subseteq Key /\ received' \subseteq Key
    <3>1. worker[l].batch.keys \subseteq Key
      BY <2>1, WorkerHolds DEF Attempt, Holding
    <3>2. QED
      BY <1>1, <2>1, <3>1 DEF Attempt
  <2>2. CASE reservations' \subseteq reservations /\ received' = received
    BY <1>1, <2>2
  <2>3. QED
    BY <1>3, <2>1, <2>2 DEF WorkerStep, Pop, PopEmpty, Block, Wake, Backoff, Ack,
       ReleaseSent, WorkerDone
<1>4. CASE DrainStep
  BY <1>1, <1>4 DEF DrainStep, ReleaseRemaining, StopDone, Stopped
<1>5. CASE reservations' = reservations /\ received' = received
  BY <1>1, <1>5
<1>6. QED
  BY <1>2, <1>3, <1>4, <1>5, ValueStoreFrame DEF Next, Cancel, StartSlot, Stop

LEMMA PendingShapeStep ==
    ASSUME Shape, Next
    PROVE  pending' \in Int /\ cancelled' \in BOOLEAN
<1>1. pending \in Int /\ cancelled \in BOOLEAN
  BY DEF Shape
<1>2. pending' \in {pending, pending + 1, pending - 1}
  <2>1. SlotStep => pending' \in {pending, pending + 1, pending - 1}
    BY DEF SlotStep, BeginCycle, ReleaseRemoved, LoopDone, StartPaging, HostPage,
       ItemPage, EndSlot, SkipSample, HostsCancelled, AddSample, SkipReserved, Finish,
       CountBatch, TryEnqueue, ReleaseRefused, Cleanup, AfterDone, PendingBeforeEnqueue
  <2>2. \A l \in Lanes : WorkerStep(l) => pending' \in {pending, pending - 1}
    BY DEF WorkerStep, Pop, PopEmpty, Block, Wake, Attempt, Backoff, Ack, ReleaseSent,
       WorkerDone
  <2>3. DrainStep => pending' \in {pending, pending - 1}
    BY DEF DrainStep, ReleaseRemaining, StopDone, Stopped
  <2>4. QED
    BY <2>1, <2>2, <2>3, ValueStoreFrame DEF Next, Cancel, StartSlot, Stop
<1>3. cancelled' \in BOOLEAN
  BY <1>1, SlotFrame, ValueStoreFrame, WorkerFrame, DrainFrame
  DEF Next, Cancel, StartSlot, Stop
<1>4. QED
  BY <1>1, <1>2, <1>3

LEMMA ShapeStep ==
    ASSUME Shape, [Next]_vars
    PROVE  Shape'
<1>1. CASE Next
  <2>1. /\ requested' \in [Slots -> Nat] /\ cycles' \in [Slots -> 0..MaxCycle]
        /\ \A s \in Slots : requested'[s] # 0 => cycles'[s] # 0
    <3>1. CASE UNCHANGED <<requested, cycles>>
      BY <3>1 DEF Shape
    <3>2. QED
      BY <1>1, <3>1, StartSlotFacts, SlotFrame, ValueStoreFrame, WorkerFrame, DrainFrame
      DEF Next, Cancel, Stop
  <2>2. QED
    BY <1>1, <2>1, StoreStep, QueueShapeStep, LoopShapeStep, WorkerShapeStep,
       StopShapeStep, KeysShapeStep, PendingShapeStep DEF Shape
<1>2. CASE UNCHANGED vars
  BY <1>2 DEF vars, Shape, StoreShape, QueueShape, LoopShape, WorkerShape, StopShape
<1>3. QED
  BY <1>1, <1>2

LEMMA InitShape ==
    ASSUME Init
    PROVE  Shape
<1>1. StoreShape
  BY ConstantFacts DEF Init, StoreShape
<1>2. QueueShape
  <2>1. <<>> \in Seq(Batch) /\ 1..Len(<<>>) = {}
    OBVIOUS
  <2>2. QED
    BY <2>1 DEF Init, QueueShape, EmptyQueue
<1>3. LoopShape
  <2>1. \A x \in Builders : NoBuilders[x] = {}
    BY DEF NoBuilders
  <2>2. QED
    BY <2>1, IdleLoopType DEF Init, LoopShape
<1>4. WorkerShape
  BY ConstantFacts DEF Init, WorkerShape, WorkerRecord, IdleWorker, Holding
<1>5. StopShape
  BY DEF Init, StopShape
<1>6. 0 \in 0..MaxCycle
  BY ConstantFacts
<1>7. /\ requested \in [Slots -> Nat] /\ cycles \in [Slots -> 0..MaxCycle]
      /\ \A s \in Slots : requested[s] # 0 => cycles[s] # 0
  BY <1>6 DEF Init
<1>8. /\ reservations \subseteq Key /\ received \subseteq Key
      /\ pending \in Int /\ cancelled \in BOOLEAN
  <2>1. reservations = {} /\ received = {} /\ pending = 0 /\ cancelled = FALSE
    BY DEF Init
  <2>2. cancelled \in BOOLEAN
    BY <2>1, Zenon
  <2>3. reservations \subseteq Key /\ received \subseteq Key /\ pending \in Int
    BY <2>1
  <2>4. QED
    BY <2>2, <2>3
<1>9. QED
  BY <1>1, <1>2, <1>3, <1>4, <1>5, <1>7, <1>8 DEF Shape

\* The types of the publisher's state, and what each place of the loop, of a
\* worker and of StopContext leaves empty: PublishSlot, runWorker and StopContext
\* never find a batch, a sample or a builder where they do not expect one.
THEOREM PublisherShape == Spec => []Shape
<1>1. QED
  BY InitShape, ShapeStep, PTL DEF Spec

-----------------------------------------------------------------------------
(* No lost wakeup.                                                         *)

\* Removing the superseded batches leaves an empty lane empty.
LEMMA BeginCycleEmpty ==
    ASSUME Shape, BeginCycle, NEW l \in Lanes, queue'.lanes[l] # <<>>
    PROVE  queue.lanes[l] # <<>>
<1>1. CASE ~IsCurrent(queue, loop.slot, loop.cycle)
  BY <1>1 DEF BeginCycle
<1>2. CASE IsCurrent(queue, loop.slot, loop.cycle)
  <2>1. /\ queue' = beginLongCycle(queue, loop.slot, loop.cycle)
        /\ loop.slot \in Slots /\ loop.cycle \in Nat /\ QueueShape
    BY <1>2 DEF BeginCycle, Shape, LoopShape, LoopRecord
  <2> DEFINE K == KeptAt(queue, loop.slot, loop.cycle, l)
  <2>2. queue'.lanes[l] \in Seq(Batch) /\ IsSublist(queue.lanes[l], K, queue'.lanes[l])
    <3>1. /\ beginLongCycle(queue, loop.slot, loop.cycle).lanes \in [Lanes -> Seq(Batch)]
          /\ IsSublist(queue.lanes[l], K, beginLongCycle(queue, loop.slot, loop.cycle).lanes[l])
      BY <2>1, BeginCycleFacts
    <3>2. QED
      BY <2>1, <3>1
  <2>3. 1 \in 1..Len(queue'.lanes[l])
    <3> DEFINE s == queue'.lanes[l]
    <3>1. s \in Seq(Batch) /\ s # <<>>
      BY <2>2
    <3> HIDE DEF s
    <3>2. 1 \in 1..Len(s)
      BY <3>1, TailFacts
    <3>3. QED
      BY <3>2 DEF s
  <2>4. PICK n \in K : TRUE
    BY <2>2, <2>3 DEF IsSublist
  <2>5. n \in 1..Len(queue.lanes[l])
    BY <2>4 DEF KeptAt
  <2>6. QED
    BY <2>5
<1>3. QED
  BY <1>1, <1>2

\* A worker's step leaves the other workers, their lanes and their tokens alone.
LEMMA OtherWorkers ==
    ASSUME Shape, NEW l \in Lanes, WorkerStep(l), NEW k \in Lanes, k # l
    PROVE  /\ worker'[k] = worker[k] /\ notify'[k] = notify[k]
           /\ queue'.lanes[k] = queue.lanes[k]
<1>1. /\ worker \in [Lanes -> WorkerRecord] /\ notify \in [Lanes -> BOOLEAN]
      /\ QueueShape
  BY DEF Shape, WorkerShape, QueueShape
<1>2. CASE Pop(l)
  <2>1. worker'[k] = worker[k] /\ notify'[k] = notify[k] /\ queue' = Popped(queue, l)
    BY <1>1, <1>2 DEF Pop
  <2>2. Popped(queue, l).lanes[k] = queue.lanes[k]
    BY <1>1 DEF Popped, QueueShape
  <2>3. QED
    BY <2>1, <2>2
<1>3. CASE PopEmpty(l) \/ Block(l)
  BY <1>1, <1>3 DEF PopEmpty, Block
<1>4. CASE Wake(l)
  BY <1>1, <1>4 DEF Wake
<1>5. ASSUME NEW outcome \in Outcomes, Attempt(l, outcome)
      PROVE  worker'[k] = worker[k] /\ notify'[k] = notify[k] /\ queue' = queue
  BY <1>1, <1>5 DEF Attempt
<1>6. CASE Backoff(l) \/ Ack(l) \/ ReleaseSent(l) \/ WorkerDone(l)
  BY <1>1, <1>6 DEF Backoff, Ack, ReleaseSent, WorkerDone
<1>7. QED
  BY <1>2, <1>3, <1>4, <1>5, <1>6 DEF WorkerStep

\* Where a worker's step takes it, and what it then holds.
LEMMA WorkerMoves ==
    ASSUME Shape, NEW l \in Lanes
    PROVE  /\ Pop(l) => /\ worker[l].pc = "popping" /\ worker'[l].pc = "sending"
                        /\ worker[l].batch = None
                        /\ worker'[l].batch = Head(queue.lanes[l])
           /\ PopEmpty(l) => /\ worker[l].pc = "popping"
                             /\ worker'[l].pc \in {"exited", "selecting"}
                             /\ worker'[l].batch = worker[l].batch
           /\ Block(l) => /\ worker[l].pc = "selecting" /\ worker'[l].pc = "waiting"
                          /\ worker'[l].batch = worker[l].batch
           /\ Wake(l) => /\ worker[l].pc \in {"selecting", "waiting"}
                         /\ worker'[l].pc \in {"popping", "exited"}
                         /\ worker'[l].batch = worker[l].batch
           /\ \A outcome \in Outcomes : Attempt(l, outcome) =>
                 /\ worker[l].pc = "sending"
                 /\ worker'[l].pc \in {"acking", "releasing", "backoff"}
                 /\ worker'[l].pc = "acking" => outcome = "delivered"
                 /\ worker'[l].batch = worker[l].batch
           /\ Backoff(l) => /\ worker[l].pc = "backoff"
                            /\ worker'[l].pc \in {"releasing", "sending"}
                            /\ worker'[l].batch = worker[l].batch
           /\ Ack(l) => /\ worker[l].pc = "acking" /\ worker'[l].pc = "releasing"
                        /\ worker'[l].batch = worker[l].batch
           /\ ReleaseSent(l) => /\ worker[l].pc = "releasing" /\ worker'[l].pc = "done"
                                /\ worker'[l].batch = None
           /\ WorkerDone(l) => /\ worker[l].pc = "done" /\ worker'[l].pc = "popping"
                               /\ worker[l].batch = None /\ worker'[l].batch = None
<1>1. /\ worker[l] \in WorkerRecord /\ worker \in [Lanes -> WorkerRecord]
      /\ worker[l].batch # None <=> worker[l].pc \in Holding
  BY DEF Shape, WorkerShape
<1>2. Pop(l) => /\ worker[l].pc = "popping" /\ worker'[l].pc = "sending"
                /\ worker[l].batch = None /\ worker'[l].batch = Head(queue.lanes[l])
  BY <1>1 DEF Pop, Holding
<1>3. PopEmpty(l) => /\ worker[l].pc = "popping"
                     /\ worker'[l].pc \in {"exited", "selecting"}
                     /\ worker'[l].batch = worker[l].batch
  BY <1>1 DEF PopEmpty, WorkerRecord
<1>4. Block(l) => /\ worker[l].pc = "selecting" /\ worker'[l].pc = "waiting"
                  /\ worker'[l].batch = worker[l].batch
  BY <1>1 DEF Block, WorkerRecord
<1>5. Wake(l) => /\ worker[l].pc \in {"selecting", "waiting"}
                 /\ worker'[l].pc \in {"popping", "exited"}
                 /\ worker'[l].batch = worker[l].batch
  BY <1>1 DEF Wake, WorkerRecord
<1>6. ASSUME NEW outcome \in Outcomes, Attempt(l, outcome)
      PROVE  /\ worker[l].pc = "sending"
             /\ worker'[l].pc \in {"acking", "releasing", "backoff"}
             /\ worker'[l].pc = "acking" => outcome = "delivered"
             /\ worker'[l].batch = worker[l].batch
  BY <1>1, <1>6 DEF Attempt, WorkerRecord
<1>7. Backoff(l) => /\ worker[l].pc = "backoff"
                    /\ worker'[l].pc \in {"releasing", "sending"}
                    /\ worker'[l].batch = worker[l].batch
  BY <1>1 DEF Backoff, WorkerRecord
<1>8. Ack(l) => /\ worker[l].pc = "acking" /\ worker'[l].pc = "releasing"
                /\ worker'[l].batch = worker[l].batch
  BY <1>1 DEF Ack, WorkerRecord
<1>9. ReleaseSent(l) => /\ worker[l].pc = "releasing" /\ worker'[l].pc = "done"
                        /\ worker'[l].batch = None
  <2> DEFINE new == [worker[l] EXCEPT !.pc = "done", !.batch = None]
  <2>1. ReleaseSent(l) => worker' = [worker EXCEPT ![l] = new] /\ worker[l].pc = "releasing"
    BY <1>1 DEF ReleaseSent
  <2>2. new.pc = "done" /\ new.batch = None
    BY <1>1 DEF WorkerRecord
  <2> HIDE DEF new
  <2>3. QED
    BY <1>1, <2>1, <2>2
<1>10. WorkerDone(l) => /\ worker[l].pc = "done" /\ worker'[l].pc = "popping"
                        /\ worker[l].batch = None /\ worker'[l].batch = None
  BY <1>1 DEF WorkerDone, IdleWorker, Holding
<1>11. QED
  BY <1>2, <1>3, <1>4, <1>5, <1>6, <1>7, <1>8, <1>9, <1>10

LEMMA NoLostWakeupStep ==
    ASSUME Shape, NoLostWakeup, [Next]_vars
    PROVE  NoLostWakeup'
<1> USE DEF NoLostWakeup
<1>1. CASE BeginCycle
  <2>1. worker' = worker /\ notify' = notify
    BY <1>1 DEF BeginCycle
  <2>2. QED
    BY <1>1, <2>1, BeginCycleEmpty
<1>2. CASE TryEnqueue
  <2>1. worker' = worker
    BY <1>2 DEF TryEnqueue
  <2>2. CASE Admission(queue, loop.batch) # "accepted"
    BY <1>2, <2>1, <2>2 DEF TryEnqueue
  <2>3. CASE Admission(queue, loop.batch) = "accepted"
    <3>1. /\ queue' = Enqueued(queue, loop.batch)
          /\ notify' = [notify EXCEPT ![loop.batch.lane] = TRUE]
      BY <1>2, <2>3 DEF TryEnqueue, Notified
    <3>2. \A l \in Lanes : l # loop.batch.lane => queue'.lanes[l] = queue.lanes[l]
      BY <3>1 DEF Enqueued, Shape, QueueShape
    <3>3. QED
      BY <2>1, <3>1, <3>2 DEF Shape, QueueShape
  <2>4. QED
    BY <2>2, <2>3
<1>3. ASSUME NEW l \in Lanes, WorkerStep(l) PROVE NoLostWakeup'
  <2>1. \A k \in Lanes : k # l => /\ worker'[k] = worker[k] /\ notify'[k] = notify[k]
                                  /\ queue'.lanes[k] = queue.lanes[k]
    BY <1>3, OtherWorkers
  <2>2. CASE PopEmpty(l)
    BY <2>1, <2>2 DEF PopEmpty
  <2>3. CASE Block(l)
    <3>1. /\ worker' = [worker EXCEPT ![l].pc = "waiting"] /\ worker[l].pc = "selecting"
          /\ notify' = notify /\ queue' = queue
      BY <2>3 DEF Block
    <3>2. QED
      BY <2>1, <3>1
  <2>4. ASSUME ~PopEmpty(l), ~Block(l)
        PROVE  worker'[l].pc \notin {"selecting", "waiting"}
    BY <1>3, <2>4, WorkerMoves DEF WorkerStep
  <2>5. QED
    BY <2>1, <2>2, <2>3, <2>4
<1>4. CASE Stop
  BY <1>4 DEF Stop, Notified
<1>5. CASE UNCHANGED <<queue, notify, worker>>
  BY <1>5
<1>6. SlotStep => BeginCycle \/ TryEnqueue \/ UNCHANGED <<queue, notify, worker>>
  BY DEF SlotStep, ReleaseRemoved, LoopDone, StartPaging, HostPage, ItemPage,
       EndSlot, SkipSample, HostsCancelled, AddSample, SkipReserved, Finish, CountBatch,
       ReleaseRefused, Cleanup
<1>7. QED
  BY <1>1, <1>2, <1>3, <1>4, <1>5, <1>6, ValueStoreFrame, DrainFrame
  DEF Next, Cancel, StartSlot, vars

\* No lost wakeup: a worker that blocks, or is about to, with a batch in its lane
\* has a token to wake it (pop of push_worker.go lets go of the mutex before it
\* selects on the channel, tryEnqueue sends to the channel after it).
THEOREM PublisherNoLostWakeup == Spec => []NoLostWakeup
<1>1. Init => NoLostWakeup
  BY DEF Init, NoLostWakeup, IdleWorker
<1>2. QED
  BY <1>1, InitShape, ShapeStep, NoLostWakeupStep, PTL DEF Spec

-----------------------------------------------------------------------------
(* What the four steps that touch the queue do to it.                      *)

LEMMA EnqueueStep ==
    ASSUME Shape, TryEnqueue, Admission(queue, loop.batch) = "accepted",
           NEW k, k = loop.batch.lane
    PROVE  /\ loop.batch \in Batch /\ loop.batch # None /\ k \in Lanes
           /\ queue.lanes[k] \in Seq(Batch)
           /\ queue'.lanes[k] = Append(queue.lanes[k], loop.batch)
           /\ \A l \in Lanes : l # k => queue'.lanes[l] = queue.lanes[l]
           /\ queue'.size = queue.size + 1 /\ queue'.closed = queue.closed
           /\ queue'.latest = queue.latest
           /\ notify' = [notify EXCEPT ![k] = TRUE] /\ loop' = AfterSubmit
           /\ ~queue.closed /\ queue.size < Capacity
           /\ loop.batch.policy = "cycle" => loop.batch.cycle >= queue.latest[loop.batch.slot]
<1>1. loop.pc = "enqueueing"
  BY DEF TryEnqueue
<1>2. loop.batch \in Batch /\ loop.batch # None
  BY <1>1 DEF Shape, LoopShape, LoopRecord
<1>3. /\ queue' = Enqueued(queue, loop.batch) /\ loop' = AfterSubmit
      /\ notify' = [notify EXCEPT ![k] = TRUE]
  BY DEF TryEnqueue, Notified
<1>4. k \in Lanes /\ loop.batch.slot \in Slots /\ loop.batch.cycle \in Nat
  BY <1>2 DEF Batch
<1>5. queue.lanes \in [Lanes -> Seq(Batch)] /\ queue.lanes[k] \in Seq(Batch) /\ QueueShape
  BY <1>4, QueueFields DEF Shape
<1>6. Append(queue.lanes[k], loop.batch) \in Seq(Batch)
  BY <1>2, <1>5
<1>7. [queue.lanes EXCEPT ![k] = Append(queue.lanes[k], loop.batch)] \in [Lanes -> Seq(Batch)]
  BY <1>4, <1>5, <1>6
<1>8. /\ queue'.lanes = [queue.lanes EXCEPT ![k] = Append(queue.lanes[k], loop.batch)]
      /\ queue'.size = queue.size + 1 /\ queue'.closed = queue.closed
      /\ queue'.latest = queue.latest
  BY <1>2, <1>3, <1>5, <1>7, EnqueuedFields
<1>9. /\ queue'.lanes[k] = Append(queue.lanes[k], loop.batch)
      /\ \A l \in Lanes : l # k => queue'.lanes[l] = queue.lanes[l]
  BY <1>4, <1>5, <1>8
<1>10. /\ ~queue.closed /\ ~(queue.size >= Capacity)
       /\ ~(loop.batch.policy = "cycle" /\ loop.batch.cycle < queue.latest[loop.batch.slot])
  BY DEF Admission
<1>11. /\ queue.latest[loop.batch.slot] \in Nat /\ queue.size \in Int /\ Capacity \in Nat
  BY <1>4, <1>5, QueueFields, QueueAssumption
<1>12. /\ ~queue.closed /\ queue.size < Capacity
       /\ loop.batch.policy = "cycle" => loop.batch.cycle >= queue.latest[loop.batch.slot]
  BY <1>4, <1>10, <1>11
<1>13. QED
  BY <1>2, <1>3, <1>4, <1>5, <1>8, <1>9, <1>12

LEMMA EnqueueQueued ==
    ASSUME Shape, TryEnqueue, Admission(queue, loop.batch) = "accepted"
    PROVE  Queued(queue') = Queued(queue) \cup {loop.batch}
<1> DEFINE b == loop.batch
           k == b.lane
           s == queue.lanes[k]
<1>1. /\ k \in Lanes /\ b \in Batch /\ s \in Seq(Batch) /\ queue'.lanes[k] = Append(s, b)
      /\ \A l \in Lanes : l # k => queue'.lanes[l] = queue.lanes[l]
  BY EnqueueStep
<1> HIDE DEF b, k, s
<1>2. BatchesIn(Append(s, b)) = BatchesIn(s) \cup {b}
  <2>1. /\ Len(s) \in Nat /\ Len(Append(s, b)) = Len(s) + 1 /\ Append(s, b)[Len(s) + 1] = b
        /\ \A n \in 1..Len(s) : Append(s, b)[n] = s[n]
        /\ \A n \in 1..Len(Append(s, b)) : n = Len(s) + 1 \/ n \in 1..Len(s)
    BY <1>1, AppendFacts
  <2>2. ASSUME NEW x \in BatchesIn(Append(s, b)) PROVE x \in BatchesIn(s) \cup {b}
    BY <2>1, <2>2 DEF BatchesIn
  <2>3. Len(s) + 1 \in 1..Len(Append(s, b)) /\ 1..Len(s) \subseteq 1..Len(Append(s, b))
    BY <2>1
  <2>4. b \in BatchesIn(Append(s, b))
    BY <2>1, <2>3 DEF BatchesIn
  <2>5. ASSUME NEW x \in BatchesIn(s) PROVE x \in BatchesIn(Append(s, b))
    BY <2>1, <2>3, <2>5 DEF BatchesIn
  <2>6. QED
    BY <2>2, <2>4, <2>5
<1>3. \A l \in Lanes : l # k => BatchesIn(queue'.lanes[l]) = BatchesIn(queue.lanes[l])
  BY <1>1
<1>4. BatchesIn(queue'.lanes[k]) = BatchesIn(queue.lanes[k]) \cup {b}
  BY <1>1, <1>2 DEF s
<1>5. ASSUME NEW x PROVE x \in Queued(queue') <=> x \in Queued(queue) \/ x = b
  <2>1. x \in Queued(queue') <=> \E l \in Lanes : x \in BatchesIn(queue'.lanes[l])
    BY DEF Queued
  <2>2. x \in Queued(queue) <=> \E l \in Lanes : x \in BatchesIn(queue.lanes[l])
    BY DEF Queued
  <2>3. QED
    BY <1>1, <1>3, <1>4, <2>1, <2>2
<1>6. QED
  BY <1>5 DEF b

LEMMA PopStep ==
    ASSUME Shape, NEW l \in Lanes, Pop(l)
    PROVE  /\ queue.lanes[l] # <<>> /\ queue.lanes[l] \in Seq(Batch)
           /\ Head(queue.lanes[l]) \in Batch /\ Head(queue.lanes[l]) = queue.lanes[l][1]
           /\ Head(queue.lanes[l]).lane = l /\ Head(queue.lanes[l]) # None
           /\ queue'.lanes[l] = Tail(queue.lanes[l])
           /\ \A k \in Lanes : k # l => queue'.lanes[k] = queue.lanes[k]
           /\ queue'.size = queue.size - 1 /\ queue'.closed = queue.closed
           /\ queue'.latest = queue.latest
<1>1. queue.lanes[l] # <<>> /\ queue' = Popped(queue, l)
  BY DEF Pop
<1>2. /\ queue.lanes[l] \in Seq(Batch) /\ Head(queue.lanes[l]) = queue.lanes[l][1]
      /\ Head(queue.lanes[l]) \in Batch /\ Head(queue.lanes[l]).lane = l
  BY <1>1, HeadOfLane
<1>3. Tail(queue.lanes[l]) \in Seq(Batch)
  BY <1>1, <1>2
<1>4. queue.lanes \in [Lanes -> Seq(Batch)] /\ QueueShape
  BY DEF Shape, QueueShape
<1>5. [queue.lanes EXCEPT ![l] = Tail(queue.lanes[l])] \in [Lanes -> Seq(Batch)]
  BY <1>3, <1>4
<1>6. /\ queue'.lanes = [queue.lanes EXCEPT ![l] = Tail(queue.lanes[l])]
      /\ queue'.size = queue.size - 1 /\ queue'.closed = queue.closed
      /\ queue'.latest = queue.latest
  BY <1>1, <1>4, <1>5, PoppedFields
<1>7. QED
  BY <1>1, <1>2, <1>4, <1>6, NoneFacts

LEMMA PopQueued ==
    ASSUME Shape, NEW l \in Lanes, Pop(l)
    PROVE  /\ Head(queue.lanes[l]) \in Queued(queue)
           /\ Queued(queue) = Queued(queue') \cup {Head(queue.lanes[l])}
<1> DEFINE s == queue.lanes[l]
           b == Head(s)
<1>1. /\ s # <<>> /\ s \in Seq(Batch) /\ queue'.lanes[l] = Tail(s)
      /\ \A k \in Lanes : k # l => queue'.lanes[k] = queue.lanes[k]
  BY PopStep
<1> HIDE DEF s
<1>2. BatchesIn(s) = BatchesIn(Tail(s)) \cup {b}
  <2>1. /\ b = s[1] /\ Len(s) \in Nat /\ 1 <= Len(s) /\ Len(Tail(s)) = Len(s) - 1
        /\ \A n \in 1..Len(Tail(s)) : n + 1 \in 1..Len(s) /\ Tail(s)[n] = s[n + 1]
    BY <1>1, TailFacts
  <2>2. ASSUME NEW n \in 1..Len(s) PROVE s[n] \in BatchesIn(Tail(s)) \cup {b}
    <3>1. CASE n = 1
      BY <2>1, <3>1
    <3>2. CASE n # 1
      <4>1. n - 1 \in 1..Len(Tail(s)) /\ n - 1 + 1 = n
        BY <2>1, <3>2
      <4>2. Tail(s)[n - 1] = s[n]
        BY <2>1, <4>1
      <4>3. QED
        BY <4>1, <4>2 DEF BatchesIn
    <3>3. QED
      BY <3>1, <3>2
  <2>3. b \in BatchesIn(s)
    <3>1. 1 \in 1..Len(s)
      BY <2>1
    <3>2. QED
      BY <2>1, <3>1 DEF BatchesIn
  <2>4. ASSUME NEW x \in BatchesIn(Tail(s)) PROVE x \in BatchesIn(s)
    BY <2>1, <2>4 DEF BatchesIn
  <2>5. ASSUME NEW x \in BatchesIn(s) PROVE x \in BatchesIn(Tail(s)) \cup {b}
    BY <2>2, <2>5 DEF BatchesIn
  <2>6. QED
    BY <2>3, <2>4, <2>5
<1>3. \A k \in Lanes : k # l => BatchesIn(queue'.lanes[k]) = BatchesIn(queue.lanes[k])
  BY <1>1
<1>4. BatchesIn(queue.lanes[l]) = BatchesIn(queue'.lanes[l]) \cup {b}
  BY <1>1, <1>2 DEF s
<1> HIDE DEF b
<1>5. ASSUME NEW x PROVE x \in Queued(queue) <=> x \in Queued(queue') \/ x = b
  <2>1. x \in Queued(queue') <=> \E k \in Lanes : x \in BatchesIn(queue'.lanes[k])
    BY DEF Queued
  <2>2. x \in Queued(queue) <=> \E k \in Lanes : x \in BatchesIn(queue.lanes[k])
    BY DEF Queued
  <2>3. QED
    BY <1>3, <1>4, <2>1, <2>2
<1>6. b = Head(queue.lanes[l])
  BY DEF b, s
<1>7. Queued(queue) = Queued(queue') \cup {b} /\ b \in Queued(queue)
  BY <1>5
<1>8. QED
  BY <1>6, <1>7

LEMMA BeginStep ==
    ASSUME Shape, BeginCycle, IsCurrent(queue, loop.slot, loop.cycle)
    PROVE  /\ loop.pc = "started" /\ loop.slot \in Slots /\ loop.cycle \in Nat
           /\ ~queue.closed /\ queue.latest[loop.slot] <= loop.cycle
           /\ loop.cycle = cycles[loop.slot]
           /\ queue'.closed = queue.closed /\ queue'.lanes \in [Lanes -> Seq(Batch)]
           /\ queue'.latest = [queue.latest EXCEPT ![loop.slot] = loop.cycle]
           /\ queue'.size =
                 SizeWithout(queue, RemovedBatches(queue, loop.slot, loop.cycle))
           /\ \A l \in Lanes :
                IsSublist(queue.lanes[l], KeptAt(queue, loop.slot, loop.cycle, l),
                          queue'.lanes[l])
           /\ loop' = [loop EXCEPT
                          !.pc = "dropping",
                          !.removed = RemovedBatches(queue, loop.slot, loop.cycle),
                          !.hosts = HostsOf(loop.slot)]
           /\ Queued(queue') = Queued(queue) \ RemovedBatches(queue, loop.slot, loop.cycle)
<1>1. /\ loop.pc = "started" /\ loop.slot \in Slots /\ loop.cycle \in Nat /\ QueueShape
      /\ loop.cycle = cycles[loop.slot]
  BY DEF BeginCycle, Shape, LoopShape, LoopRecord
<1>2. queue' = beginLongCycle(queue, loop.slot, loop.cycle)
  BY DEF BeginCycle
<1> DEFINE q == beginLongCycle(queue, loop.slot, loop.cycle)
           K(l) == KeptAt(queue, loop.slot, loop.cycle, l)
           removed == RemovedBatches(queue, loop.slot, loop.cycle)
<1>3. /\ q.lanes \in [Lanes -> Seq(Batch)] /\ q.closed = queue.closed
      /\ q.latest = [queue.latest EXCEPT ![loop.slot] = loop.cycle]
      /\ q.size = SizeWithout(queue, removed)
      /\ \A l \in Lanes : IsSublist(queue.lanes[l], K(l), q.lanes[l])
  BY <1>1, BeginCycleFacts
<1>4. queue.lanes \in [Lanes -> Seq(Batch)]
  BY <1>1, QueueFields
<1> HIDE DEF q
<1>5. ASSUME NEW b \in Queued(q) PROVE b \in Queued(queue) /\ b \notin removed
  <2>1. PICK l \in Lanes : \E n \in 1..Len(q.lanes[l]) : b = q.lanes[l][n]
    BY <1>3, QueuedFacts
  <2>2. PICK i \in K(l) : b = queue.lanes[l][i]
    BY <1>3, <2>1 DEF IsSublist
  <2>3. i \in 1..Len(queue.lanes[l]) /\ ~Superseded(queue, loop.slot, loop.cycle, b)
    BY <2>2 DEF KeptAt
  <2>4. QED
    BY <1>4, <2>2, <2>3, QueuedFacts DEF RemovedBatches
<1>6. ASSUME NEW b \in Queued(queue), b \notin removed PROVE b \in Queued(q)
  <2>1. PICK l \in Lanes : \E n \in 1..Len(queue.lanes[l]) : b = queue.lanes[l][n]
    BY <1>4, QueuedFacts
  <2>2. PICK i \in 1..Len(queue.lanes[l]) : b = queue.lanes[l][i]
    BY <2>1
  <2>3. i \in K(l)
    BY <1>6, <2>2 DEF KeptAt, RemovedBatches
  <2>4. PICK m \in 1..Len(q.lanes[l]) : q.lanes[l][m] = queue.lanes[l][i]
    BY <1>3, <2>3 DEF IsSublist
  <2>5. q.lanes[l][m] \in Queued(q)
    BY <1>3, <2>4, QueuedFacts
  <2>6. QED
    BY <2>2, <2>4, <2>5
<1>7. Queued(q) = Queued(queue) \ removed
  BY <1>5, <1>6
<1>8. queue' = q
  BY <1>2 DEF q
<1>9. loop' = [loop EXCEPT !.pc = "dropping", !.removed = removed,
                           !.hosts = HostsOf(loop.slot)]
  BY DEF BeginCycle
<1>10. ~queue.closed /\ queue.latest[loop.slot] <= loop.cycle
  <2>1. queue.latest[loop.slot] \in Nat
    BY <1>1, QueueFields
  <2>2. QED
    BY <1>1, <2>1 DEF IsCurrent
<1> HIDE DEF removed
<1>11. QED
  BY <1>1, <1>3, <1>7, <1>8, <1>9, <1>10 DEF removed

LEMMA StopQueue ==
    ASSUME Shape, Stop
    PROVE  /\ Queued(queue') = {} /\ queue'.size = 0 /\ queue'.closed = TRUE
           /\ queue'.latest = queue.latest /\ \A l \in Lanes : queue'.lanes[l] = <<>>
           /\ stopping.pc = "running" /\ stopping.remaining = {} /\ stopping.owed = FALSE
           /\ stopping' = [pc |-> "draining", remaining |-> Queued(queue), owed |-> FALSE]
<1>1. queue' = [queue EXCEPT !.closed = TRUE, !.size = 0, !.lanes = [l \in Lanes |-> <<>>]]
  BY DEF Stop, Closed
<1>2. /\ queue'.size = 0 /\ queue'.closed = TRUE /\ queue'.latest = queue.latest
      /\ \A l \in Lanes : queue'.lanes[l] = <<>>
  BY <1>1 DEF Shape, QueueShape
<1>3. \A l \in Lanes : BatchesIn(queue'.lanes[l]) = {}
  BY <1>2 DEF BatchesIn
<1>4. Queued(queue') = {}
  BY <1>3 DEF Queued
<1>5. /\ stopping.pc = "running" /\ stopping.remaining = {} /\ stopping.owed = FALSE
      /\ stopping' = [pc |-> "draining", remaining |-> Queued(queue), owed |-> FALSE]
  BY DEF Stop, Remaining, Shape, StopShape
<1>6. QED
  BY <1>2, <1>4, <1>5

\* The other steps leave the queue alone.
QueueStep ==
    \/ BeginCycle /\ IsCurrent(queue, loop.slot, loop.cycle)
    \/ TryEnqueue /\ Admission(queue, loop.batch) = "accepted"
    \/ \E l \in Lanes : Pop(l)
    \/ Stop

LEMMA QueueUntouched ==
    ASSUME [Next]_vars, ~QueueStep
    PROVE  queue' = queue
<1>1. SlotStep => queue' = queue
  <2>1. BeginCycle \/ TryEnqueue => queue' = queue
    BY DEF BeginCycle, TryEnqueue, QueueStep
  <2>2. QED
    BY <2>1 DEF SlotStep, ReleaseRemoved, LoopDone, StartPaging, HostPage, ItemPage,
       EndSlot, SkipSample, HostsCancelled, AddSample, SkipReserved, Finish, CountBatch,
       ReleaseRefused, Cleanup
<1>2. \A l \in Lanes : WorkerStep(l) => queue' = queue
  BY DEF WorkerStep, PopEmpty, Block, Wake, Attempt, Backoff, Ack, ReleaseSent,
     WorkerDone, QueueStep
<1>3. QED
  BY <1>1, <1>2, ValueStoreFrame, DrainFrame DEF Next, Cancel, StartSlot, QueueStep, vars

-----------------------------------------------------------------------------
(* What each step of PublishSlot does to the loop's locals.                *)
LoopIs(pc, removed, owed, page, builders, batch, sample) ==
    /\ loop'.pc = pc /\ loop'.removed = removed /\ loop'.owed = owed
    /\ loop'.page = page /\ loop'.builders = builders
    /\ loop'.batch = batch /\ loop'.sample = sample

SlotKept == loop'.slot = loop.slot /\ loop'.cycle = loop.cycle

LoopIdle == LoopIs("idle", {}, FALSE, <<>>, NoBuilders, None, None)

LEMMA IdleMoves ==
    ASSUME loop' = IdleLoop
    PROVE  LoopIdle
BY IdleLoopType DEF LoopIdle, LoopIs

LEMMA StartSlotMoves ==
    ASSUME NEW slot \in Slots, NEW at \in 1..MaxCycle, StartSlot(slot, at)
    PROVE  /\ loop.pc = "idle" /\ LoopIs("started", {}, FALSE, <<>>, NoBuilders, None, None)
           /\ loop'.slot = slot
           /\ loop'.cycle = Normalized(slot, at)
           /\ UNCHANGED <<store, versions, queue, notify, reservations, pending, worker,
                          stopping, cancelled, received>>
BY DEF StartSlot, IdleLoop, LoopIs

LEMMA BeginMoves ==
    ASSUME Shape, BeginCycle
    PROVE  /\ loop.pc = "started"
           /\ loop.removed = {} /\ loop.owed = FALSE /\ loop.page = <<>>
           /\ loop.builders = NoBuilders /\ loop.batch = None /\ loop.sample = None
           /\ \/ ~IsCurrent(queue, loop.slot, loop.cycle) /\ LoopIdle
              \/ /\ IsCurrent(queue, loop.slot, loop.cycle)
                 /\ LoopIs("dropping", RemovedBatches(queue, loop.slot, loop.cycle), FALSE,
                           <<>>, NoBuilders, None, None)
                 /\ SlotKept
           /\ UNCHANGED <<notify, reservations, pending>>
<1>1. /\ loop.pc = "started" /\ loop \in LoopRecord
      /\ loop.removed = {} /\ loop.owed = FALSE /\ loop.page = <<>>
      /\ loop.builders = NoBuilders /\ loop.batch = None /\ loop.sample = None
  BY DEF BeginCycle, Shape, LoopShape, LoopRecord, OutsidePages
<1>2. UNCHANGED <<notify, reservations, pending>>
  BY DEF BeginCycle
<1>3. CASE ~IsCurrent(queue, loop.slot, loop.cycle)
  BY <1>1, <1>2, <1>3, IdleMoves DEF BeginCycle
<1>4. CASE IsCurrent(queue, loop.slot, loop.cycle)
  BY <1>1, <1>2, <1>4, BeginStep DEF LoopRecord, LoopIs, SlotKept
<1>5. QED
  BY <1>3, <1>4

LEMMA DroppingMoves ==
    ASSUME Shape
    PROVE  /\ \A b \in loop.removed : ReleaseRemoved(b) =>
                /\ loop.pc = "dropping" /\ loop.owed = FALSE /\ SlotKept
                /\ LoopIs("dropping", loop.removed \ {b}, TRUE, loop.page, loop.builders,
                          loop.batch, loop.sample)
                /\ reservations' = reservations \ b.keys
                /\ UNCHANGED <<queue, notify, pending>>
           /\ LoopDone =>
                /\ loop.owed = TRUE /\ loop.pc \in {"dropping", "refused"} /\ SlotKept
                /\ LoopIs(IF loop.pc = "refused" THEN "cleanup" ELSE "dropping",
                          loop.removed, FALSE, loop.page, loop.builders, loop.batch,
                          loop.sample)
                /\ pending' = pending - 1
                /\ UNCHANGED <<queue, notify, reservations>>
           /\ StartPaging =>
                /\ loop.pc = "dropping" /\ loop.removed = {} /\ loop.owed = FALSE /\ SlotKept
                /\ LoopIs("paging", {}, FALSE, loop.page, loop.builders, loop.batch,
                          loop.sample)
                /\ UNCHANGED <<queue, notify, reservations, pending>>
<1>1. /\ loop \in LoopRecord /\ loop.owed \in BOOLEAN
      /\ loop.owed => loop.pc \in {"dropping", "refused"}
  BY DEF Shape, LoopShape, LoopRecord
<1>2. ASSUME NEW b \in loop.removed, ReleaseRemoved(b)
      PROVE  /\ loop.pc = "dropping" /\ loop.owed = FALSE /\ SlotKept
             /\ LoopIs("dropping", loop.removed \ {b}, TRUE, loop.page, loop.builders,
                       loop.batch, loop.sample)
  BY <1>1, <1>2 DEF ReleaseRemoved, LoopRecord, LoopIs, SlotKept
<1>3. ASSUME LoopDone
      PROVE  /\ loop.owed = TRUE /\ loop.pc \in {"dropping", "refused"} /\ SlotKept
             /\ LoopIs(IF loop.pc = "refused" THEN "cleanup" ELSE "dropping",
                       loop.removed, FALSE, loop.page, loop.builders, loop.batch,
                       loop.sample)
  BY <1>1, <1>3 DEF LoopDone, LoopRecord, LoopIs, SlotKept
<1>4. ASSUME StartPaging
      PROVE  /\ loop.pc = "dropping" /\ loop.removed = {} /\ loop.owed = FALSE /\ SlotKept
             /\ LoopIs("paging", {}, FALSE, loop.page, loop.builders, loop.batch,
                       loop.sample)
  BY <1>1, <1>4 DEF StartPaging, LoopRecord, LoopIs, SlotKept
<1>5. LoopDone => pending' = pending - 1
  BY DEF LoopDone, AfterDone
<1>6. QED
  BY <1>2, <1>3, <1>4, <1>5 DEF ReleaseRemoved, LoopDone, StartPaging

\* What the loop holds while it has no batch to submit or to release.
LEMMA AddingHolds ==
    ASSUME Shape, loop.pc \in {"paging", "adding"}
    PROVE  /\ loop.removed = {} /\ loop.owed = FALSE /\ loop.batch = None
           /\ loop.sample = None
           /\ loop.pc = "paging" => loop.builders = NoBuilders /\ loop.page = <<>>
BY DEF Shape, LoopShape, LoopRecord, OutsidePages

LEMMA PageMoves ==
    ASSUME Shape
    PROVE  /\ HostPage \/ ItemPage =>
                /\ loop.pc = "paging" /\ SlotKept
                /\ LoopIs("adding", {}, FALSE, loop'.page, loop.builders, None, None)
                /\ UNCHANGED <<queue, notify, reservations, pending>>
           /\ EndSlot =>
                /\ loop.pc = "paging" /\ LoopIdle
                /\ UNCHANGED <<queue, notify, reservations, pending>>
           /\ SkipSample \/ SkipReserved =>
                /\ loop.pc = "adding" /\ loop.page # <<>> /\ SlotKept
                /\ LoopIs("adding", {}, FALSE, Tail(loop.page), loop.builders, None, None)
                /\ UNCHANGED <<queue, notify, reservations, pending>>
           /\ HostsCancelled =>
                /\ loop.pc = "adding" /\ SlotKept
                /\ LoopIs("cleanup", {}, FALSE, loop.page, loop.builders, None, None)
                /\ UNCHANGED <<queue, notify, reservations, pending>>
<1>1. loop \in LoopRecord
  BY DEF Shape, LoopShape
<1>2. ASSUME HostPage
      PROVE  /\ loop.pc = "paging" /\ SlotKept
             /\ LoopIs("adding", {}, FALSE, loop'.page, loop.builders, None, None)
             /\ UNCHANGED <<queue, notify, reservations, pending>>
  <2>1. \E page, hosts : loop' = [loop EXCEPT !.pc = "adding", !.page = page, !.hosts = hosts]
    BY <1>2 DEF HostPage
  <2>2. loop.pc = "paging" /\ UNCHANGED <<queue, notify, reservations, pending>>
    BY <1>2 DEF HostPage
  <2>3. QED
    BY <1>1, <2>1, <2>2, AddingHolds, ZenonT(60) DEF LoopRecord, LoopIs, SlotKept
<1>3. ASSUME ItemPage
      PROVE  /\ loop.pc = "paging" /\ SlotKept
             /\ LoopIs("adding", {}, FALSE, loop'.page, loop.builders, None, None)
             /\ UNCHANGED <<queue, notify, reservations, pending>>
  <2> DEFINE page == PageOf(loop.slot, loop.cycle, loop.cursor)
             keys == [n \in 1..Len(page) |-> KeyOf(page[n], loop.cycle)]
             cursor == IF page = <<>> THEN loop.cursor ELSE store[page[Len(page)]].sequence
             done == Len(page) < PageSize
  <2>1. loop' = [loop EXCEPT !.pc = "adding", !.page = keys, !.cursor = cursor, !.done = done]
    BY <1>3 DEF ItemPage
  <2>2. loop.pc = "paging" /\ UNCHANGED <<queue, notify, reservations, pending>>
    BY <1>3 DEF ItemPage
  <2> HIDE DEF keys, cursor, done
  <2>3. QED
    BY <1>1, <2>1, <2>2, AddingHolds DEF LoopRecord, LoopIs, SlotKept
<1>4. EndSlot => /\ loop.pc = "paging" /\ LoopIdle
                 /\ UNCHANGED <<queue, notify, reservations, pending>>
  BY IdleMoves DEF EndSlot
<1>5. ASSUME SkipSample \/ SkipReserved
      PROVE  /\ loop.pc = "adding" /\ loop.page # <<>> /\ SlotKept
             /\ LoopIs("adding", {}, FALSE, Tail(loop.page), loop.builders, None, None)
             /\ UNCHANGED <<queue, notify, reservations, pending>>
  <2>1. /\ loop.pc = "adding" /\ loop.page # <<>>
        /\ loop' = [loop EXCEPT !.page = Tail(loop.page)]
        /\ UNCHANGED <<queue, notify, reservations, pending>>
    BY <1>5 DEF SkipSample, SkipReserved
  <2>2. QED
    BY <1>1, <2>1, AddingHolds DEF LoopRecord, LoopIs, SlotKept
<1>6. ASSUME HostsCancelled
      PROVE  /\ loop.pc = "adding" /\ SlotKept
             /\ LoopIs("cleanup", {}, FALSE, loop.page, loop.builders, None, None)
             /\ UNCHANGED <<queue, notify, reservations, pending>>
  <2>1. /\ loop.pc = "adding" /\ loop' = [loop EXCEPT !.pc = "cleanup"]
        /\ UNCHANGED <<queue, notify, reservations, pending>>
    BY <1>6 DEF HostsCancelled
  <2>2. QED
    BY <1>1, <2>1, AddingHolds DEF LoopRecord, LoopIs, SlotKept
<1>7. QED
  BY <1>2, <1>3, <1>4, <1>5, <1>6

\* The two ways a sample joins a builder.
LEMMA AddMoves ==
    ASSUME Shape, AddSample, NEW key, key = Head(loop.page), NEW x, x = BuilderOf(key)
    PROVE  /\ loop.pc = "adding" /\ loop.page # <<>> /\ SlotKept
           /\ key \in Key /\ x \in Builders /\ key \notin reservations
           /\ reservations' = reservations \cup {key}
           /\ \/ LoopIs("adding", {}, FALSE, Tail(loop.page),
                        [loop.builders EXCEPT ![x] = loop.builders[x] \cup {key}],
                        None, None)
              \/ /\ loop.builders[x] # {}
                 /\ LoopIs("submitting", {}, FALSE, Tail(loop.page),
                           [loop.builders EXCEPT ![x] = {}], NewBatch(x), key)
           /\ UNCHANGED <<queue, notify, pending>>
<1>1. /\ loop \in LoopRecord /\ loop.pc = "adding" /\ loop.page # <<>>
      /\ loop.page \in Seq(Key)
  BY DEF AddSample, Shape, LoopShape, LoopRecord
<1>2. key \in Key /\ x \in Builders
  BY <1>1, TailFacts, ConstantFacts
<1>3. /\ key \notin reservations /\ reservations' = reservations \cup {key}
      /\ UNCHANGED <<queue, notify, pending>>
  BY DEF AddSample, Reservable
<1>4. loop' = IF Cardinality(loop.builders[x]) < MaxSamples
              THEN [loop EXCEPT !.page = Tail(loop.page),
                                !.builders[x] = loop.builders[x] \cup {key}]
              ELSE [loop EXCEPT !.pc = "submitting", !.page = Tail(loop.page),
                                !.batch = NewBatch(x), !.builders[x] = {}, !.sample = key]
  BY DEF AddSample
<1>5. /\ loop.removed = {} /\ loop.owed = FALSE /\ loop.batch = None /\ loop.sample = None
  BY <1>1, AddingHolds
<1>6. CASE Cardinality(loop.builders[x]) < MaxSamples
  <2> DEFINE builders == [loop.builders EXCEPT ![x] = loop.builders[x] \cup {key}]
  <2>1. loop' = [loop EXCEPT !.page = Tail(loop.page), !.builders = builders]
    BY <1>1, <1>4, <1>6 DEF LoopRecord
  <2> HIDE DEF builders
  <2>2. LoopIs("adding", {}, FALSE, Tail(loop.page), builders, None, None) /\ SlotKept
    BY <1>1, <1>5, <2>1 DEF LoopRecord, LoopIs, SlotKept
  <2>3. QED
    BY <1>1, <1>2, <1>3, <2>2 DEF builders
<1>7. CASE ~(Cardinality(loop.builders[x]) < MaxSamples)
  <2> DEFINE builders == [loop.builders EXCEPT ![x] = {}]
             batch == NewBatch(x)
  <2>1. loop' = [loop EXCEPT !.pc = "submitting", !.page = Tail(loop.page),
                             !.batch = batch, !.builders = builders, !.sample = key]
    BY <1>1, <1>4, <1>7 DEF LoopRecord
  <2>2. loop.builders[x] # {}
    <3>1. Cardinality({}) = 0 /\ 0 < MaxSamples
      BY FS_EmptySet, PublisherAssumption
    <3>2. QED
      BY <1>7, <3>1
  <2> HIDE DEF builders, batch
  <2>3. LoopIs("submitting", {}, FALSE, Tail(loop.page), builders, batch, key) /\ SlotKept
    BY <1>1, <1>5, <2>1 DEF LoopRecord, LoopIs, SlotKept
  <2>4. QED
    BY <1>1, <1>2, <1>3, <2>2, <2>3 DEF builders, batch
<1>8. QED
  BY <1>6, <1>7

LEMMA FinishMoves ==
    ASSUME Shape, Finish
    PROVE  /\ loop.pc = "adding" /\ loop.page = <<>> /\ SlotKept
           /\ \/ \E x \in Builders :
                   /\ loop.builders[x] # {}
                   /\ LoopIs("submitting", {}, FALSE, <<>>, [loop.builders EXCEPT ![x] = {}],
                             NewBatch(x), None)
              \/ LoopIs("paging", {}, FALSE, <<>>, loop.builders, None, None)
           /\ UNCHANGED <<queue, notify, reservations, pending>>
<1>1. /\ loop \in LoopRecord /\ loop.pc = "adding" /\ loop.page = <<>>
      /\ UNCHANGED <<queue, notify, reservations, pending>>
  BY DEF Finish, Shape, LoopShape
<1>2. /\ loop.removed = {} /\ loop.owed = FALSE /\ loop.batch = None /\ loop.sample = None
  BY <1>1, AddingHolds
<1>3. ASSUME NEW x \in Builders, loop.builders[x] # {},
             loop' = [loop EXCEPT !.pc = "submitting", !.batch = NewBatch(x),
                                  !.builders[x] = {}]
      PROVE  /\ SlotKept
             /\ LoopIs("submitting", {}, FALSE, <<>>, [loop.builders EXCEPT ![x] = {}],
                       NewBatch(x), None)
  <2> DEFINE builders == [loop.builders EXCEPT ![x] = {}]
             batch == NewBatch(x)
  <2>1. loop' = [loop EXCEPT !.pc = "submitting", !.batch = batch, !.builders = builders]
    BY <1>1, <1>3 DEF LoopRecord
  <2> HIDE DEF builders, batch
  <2>2. LoopIs("submitting", {}, FALSE, <<>>, builders, batch, None) /\ SlotKept
    BY <1>1, <1>2, <2>1 DEF LoopRecord, LoopIs, SlotKept
  <2>3. QED
    BY <2>2 DEF builders, batch
<1>4. ASSUME loop' = [loop EXCEPT !.pc = "paging"]
      PROVE  SlotKept /\ LoopIs("paging", {}, FALSE, <<>>, loop.builders, None, None)
  BY <1>1, <1>2, <1>4 DEF LoopRecord, LoopIs, SlotKept
<1>5. \/ \E x \in Builders :
           /\ loop.builders[x] # {}
           /\ loop' = [loop EXCEPT !.pc = "submitting", !.batch = NewBatch(x),
                                   !.builders[x] = {}]
      \/ loop' = [loop EXCEPT !.pc = "paging"]
  BY DEF Finish
<1>6. QED
  BY <1>1, <1>3, <1>4, <1>5

\* What the loop holds while it submits a batch.
LEMMA SubmittingHolds ==
    ASSUME Shape, loop.pc \in {"submitting", "enqueueing"}
    PROVE  /\ loop.removed = {} /\ loop.owed = FALSE /\ loop.batch # None
           /\ loop.batch \in Batch
           /\ loop.sample # None =>
                /\ loop.sample \in Key /\ BuilderOf(loop.sample) \in Builders
                /\ loop.builders[BuilderOf(loop.sample)] = {}
<1>1. /\ loop.removed = {} /\ loop.owed = FALSE /\ loop.batch # None /\ loop \in LoopRecord
      /\ loop.sample # None => loop.builders[BuilderOf(loop.sample)] = {}
  BY DEF Shape, LoopShape, LoopRecord
<1>2. loop.batch \in Batch /\ (loop.sample # None => loop.sample \in Key)
  BY <1>1 DEF LoopRecord
<1>3. QED
  BY <1>1, <1>2, ConstantFacts

LEMMA SubmitMoves ==
    ASSUME Shape
    PROVE  /\ CountBatch =>
                /\ loop.pc = "submitting" /\ SlotKept
                /\ LoopIs("enqueueing", {}, FALSE, loop.page, loop.builders, loop.batch,
                          loop.sample)
                /\ pending' = pending + 1
                /\ UNCHANGED <<queue, notify, reservations>>
           /\ TryEnqueue =>
                /\ loop.pc = "enqueueing" /\ SlotKept
                /\ \/ /\ Admission(queue, loop.batch) # "accepted"
                      /\ LoopIs("refused", {}, FALSE, loop.page, loop.builders, loop.batch,
                                loop.sample)
                      /\ UNCHANGED <<queue, notify>>
                   \/ /\ Admission(queue, loop.batch) = "accepted"
                      /\ \/ /\ loop.sample = None
                            /\ LoopIs("adding", {}, FALSE, loop.page, loop.builders, None,
                                      None)
                         \/ /\ loop.sample # None
                            /\ LoopIs("adding", {}, FALSE, loop.page,
                                      [loop.builders EXCEPT
                                         ![BuilderOf(loop.sample)] = {loop.sample}],
                                      None, None)
                /\ UNCHANGED <<reservations, pending>>
           /\ ReleaseRefused =>
                /\ loop.pc = "refused" /\ loop.owed = FALSE /\ SlotKept
                /\ loop.batch # None /\ loop.batch \in Batch
                /\ LoopIs("refused", {}, TRUE, loop.page, loop.builders, None, loop.sample)
                /\ reservations' = reservations \ loop.batch.keys
                /\ UNCHANGED <<queue, notify, pending>>
           /\ Cleanup =>
                /\ loop.pc = "cleanup" /\ loop.batch = None /\ loop.owed = FALSE
                /\ loop.removed = {} /\ LoopIdle
                /\ reservations' = reservations \ CleanedKeys
                /\ UNCHANGED <<queue, notify, pending>>
<1>1. loop \in LoopRecord /\ loop.owed \in BOOLEAN
  BY DEF Shape, LoopShape, LoopRecord
<1>2. ASSUME CountBatch
      PROVE  /\ loop.pc = "submitting" /\ SlotKept
             /\ LoopIs("enqueueing", {}, FALSE, loop.page, loop.builders, loop.batch,
                       loop.sample)
             /\ pending' = pending + 1
             /\ UNCHANGED <<queue, notify, reservations>>
  <2>1. /\ loop.pc = "submitting" /\ loop' = [loop EXCEPT !.pc = "enqueueing"]
        /\ pending' = pending + 1 /\ UNCHANGED <<queue, notify, reservations>>
    BY <1>2 DEF CountBatch, PendingBeforeEnqueue
  <2>2. QED
    BY <1>1, <2>1, SubmittingHolds DEF LoopRecord, LoopIs, SlotKept
<1>3. ASSUME TryEnqueue, Admission(queue, loop.batch) # "accepted"
      PROVE  /\ SlotKept
             /\ LoopIs("refused", {}, FALSE, loop.page, loop.builders, loop.batch,
                       loop.sample)
             /\ UNCHANGED <<queue, notify>>
  <2>1. /\ loop.pc = "enqueueing" /\ loop' = [loop EXCEPT !.pc = "refused"]
        /\ UNCHANGED <<queue, notify>>
    BY <1>3 DEF TryEnqueue
  <2>2. QED
    BY <1>1, <2>1, SubmittingHolds DEF LoopRecord, LoopIs, SlotKept
<1>4. ASSUME TryEnqueue, Admission(queue, loop.batch) = "accepted"
      PROVE  /\ SlotKept
             /\ \/ /\ loop.sample = None
                   /\ LoopIs("adding", {}, FALSE, loop.page, loop.builders, None, None)
                \/ /\ loop.sample # None
                   /\ LoopIs("adding", {}, FALSE, loop.page,
                             [loop.builders EXCEPT
                                ![BuilderOf(loop.sample)] = {loop.sample}],
                             None, None)
  <2>1. loop.pc = "enqueueing" /\ loop' = AfterSubmit
    BY <1>4 DEF TryEnqueue
  <2>2. loop.removed = {} /\ loop.owed = FALSE
    BY <2>1, SubmittingHolds
  <2>3. CASE loop.sample = None
    <3>1. loop' = [loop EXCEPT !.pc = "adding", !.batch = None]
      BY <2>1, <2>3 DEF AfterSubmit
    <3>2. QED
      BY <1>1, <2>2, <2>3, <3>1 DEF LoopRecord, LoopIs, SlotKept
  <2>4. CASE loop.sample # None
    <3> DEFINE builders == [loop.builders EXCEPT ![BuilderOf(loop.sample)] = {loop.sample}]
    <3>1. loop' = [loop EXCEPT !.pc = "adding", !.batch = None, !.sample = None,
                               !.builders = builders]
      BY <1>1, <2>1, <2>4 DEF AfterSubmit, LoopRecord
    <3> HIDE DEF builders
    <3>2. LoopIs("adding", {}, FALSE, loop.page, builders, None, None) /\ SlotKept
      BY <1>1, <2>2, <3>1 DEF LoopRecord, LoopIs, SlotKept
    <3>3. QED
      BY <2>4, <3>2 DEF builders
  <2>5. QED
    BY <2>3, <2>4
<1>5. TryEnqueue => loop.pc = "enqueueing" /\ UNCHANGED <<reservations, pending>>
  BY DEF TryEnqueue
<1>6. ASSUME ReleaseRefused
      PROVE  /\ loop.pc = "refused" /\ loop.owed = FALSE /\ SlotKept
             /\ loop.batch # None /\ loop.batch \in Batch
             /\ LoopIs("refused", {}, TRUE, loop.page, loop.builders, None, loop.sample)
             /\ reservations' = reservations \ loop.batch.keys
             /\ UNCHANGED <<queue, notify, pending>>
  <2>1. /\ loop.pc = "refused" /\ ~loop.owed
        /\ loop' = [loop EXCEPT !.batch = None, !.owed = TRUE]
        /\ reservations' = reservations \ loop.batch.keys
        /\ UNCHANGED <<queue, notify, pending>>
    BY <1>6 DEF ReleaseRefused, RefusedKeys
  <2>2. loop.owed = FALSE /\ loop.removed = {} /\ loop.batch # None
    BY <1>1, <2>1 DEF Shape, LoopShape
  <2>3. loop.batch \in Batch
    BY <1>1, <2>2 DEF LoopRecord
  <2>4. LoopIs("refused", {}, TRUE, loop.page, loop.builders, None, loop.sample) /\ SlotKept
    BY <1>1, <2>1, <2>2 DEF LoopRecord, LoopIs, SlotKept
  <2>5. QED
    BY <2>1, <2>2, <2>3, <2>4
<1>7. ASSUME Cleanup
      PROVE  /\ loop.pc = "cleanup" /\ loop.batch = None /\ loop.owed = FALSE
             /\ loop.removed = {} /\ LoopIdle
             /\ reservations' = reservations \ CleanedKeys
             /\ UNCHANGED <<queue, notify, pending>>
  <2>1. /\ loop.pc = "cleanup" /\ loop' = IdleLoop
        /\ reservations' = reservations \ CleanedKeys
        /\ UNCHANGED <<queue, notify, pending>>
    BY <1>7 DEF Cleanup
  <2>2. loop.batch = None /\ loop.removed = {} /\ loop.owed = FALSE
    BY <1>1, <2>1 DEF Shape, LoopShape
  <2>3. QED
    BY <2>1, <2>2, IdleMoves
<1>8. QED
  BY <1>2, <1>3, <1>4, <1>5, <1>6, <1>7

-----------------------------------------------------------------------------
(* Coalescing.                                                             *)

LEMMA LatestPastStep ==
    ASSUME Shape, LatestPast, [Next]_vars
    PROVE  LatestPast'
<1>1. \A s \in Slots : /\ queue.latest[s] \in Nat /\ cycles[s] \in Nat /\ cycles'[s] \in Nat
                       /\ queue.latest[s] <= cycles[s] /\ cycles[s] <= cycles'[s]
  <2>1. \A s \in Slots : queue.latest[s] \in Nat /\ cycles[s] \in Nat
    BY DEF Shape, QueueShape
  <2>2. \A s \in Slots : cycles'[s] \in Nat
    BY ShapeStep DEF Shape
  <2>3. \A s \in Slots : cycles[s] <= cycles'[s]
    <3>1. CASE cycles' = cycles
      BY <2>1, <3>1
    <3>2. QED
      BY <3>1, StartSlotFacts, SlotFrame, ValueStoreFrame, WorkerFrame, DrainFrame
      DEF Next, Cancel, Stop, vars
  <2>4. QED
    BY <2>1, <2>2, <2>3 DEF LatestPast
<1>2. \A s \in Slots : queue'.latest[s] <= cycles'[s]
  <2>1. CASE BeginCycle /\ IsCurrent(queue, loop.slot, loop.cycle)
    <3>1. /\ queue'.latest = [queue.latest EXCEPT ![loop.slot] = loop.cycle]
          /\ loop.cycle = cycles[loop.slot] /\ loop.slot \in Slots
      BY <2>1, BeginStep
    <3>2. queue.latest \in [Slots -> Nat]
      BY DEF Shape, QueueShape
    <3>3. \A s \in Slots : queue'.latest[s] = IF s = loop.slot THEN cycles[s]
                                                               ELSE queue.latest[s]
      BY <3>1, <3>2
    <3>4. QED
      BY <1>1, <3>3
  <2>2. CASE queue'.latest = queue.latest
    BY <1>1, <2>2
  <2>3. QED
    BY <2>1, <2>2, EnqueueStep, PopStep, StopQueue, QueueUntouched DEF QueueStep
<1>3. QED
  BY <1>2 DEF LatestPast

LEMMA CoalescedStep ==
    ASSUME Shape, LatestPast, CoalescedExactly, [Next]_vars
    PROVE  CoalescedExactly'
<1>1. \A b \in Queued(queue') : b.policy = "cycle" => b.cycle >= queue'.latest[b.slot]
  <2>1. /\ Queued(queue) \subseteq Batch /\ queue.latest \in [Slots -> Nat]
        /\ \A b \in Queued(queue) : b.policy = "cycle" => b.cycle >= queue.latest[b.slot]
    BY QueuedFacts DEF CoalescedExactly, Shape, QueueShape
  <2>2. CASE BeginCycle /\ IsCurrent(queue, loop.slot, loop.cycle)
    <3>1. /\ queue'.latest = [queue.latest EXCEPT ![loop.slot] = loop.cycle]
          /\ loop.slot \in Slots /\ loop.cycle \in Nat
          /\ queue.latest[loop.slot] <= loop.cycle
          /\ Queued(queue') = Queued(queue) \ RemovedBatches(queue, loop.slot, loop.cycle)
      BY <2>2, BeginStep
    <3>2. \A s \in Slots : queue'.latest[s] = IF s = loop.slot THEN loop.cycle
                                                               ELSE queue.latest[s]
      BY <2>1, <3>1
    <3> SUFFICES ASSUME NEW b \in Queued(queue'), b.policy = "cycle"
                 PROVE  b.cycle >= queue'.latest[b.slot]
      OBVIOUS
    <3>3. /\ b \in Queued(queue) /\ ~Superseded(queue, loop.slot, loop.cycle, b)
          /\ b.slot \in Slots /\ b.cycle \in Nat /\ b.cycle >= queue.latest[b.slot]
          /\ queue.latest[loop.slot] \in Nat
      BY <2>1, <3>1 DEF RemovedBatches, Batch
    <3>4. CASE b.slot # loop.slot
      BY <3>2, <3>3, <3>4
    <3>5. CASE b.slot = loop.slot
      <4>1. ~(b.cycle < loop.cycle /\ loop.cycle > queue.latest[loop.slot])
        BY <3>3, <3>5 DEF Superseded
      <4>2. QED
        BY <3>1, <3>2, <3>3, <3>5, <4>1
    <3>6. QED
      BY <3>4, <3>5
  <2>3. CASE TryEnqueue /\ Admission(queue, loop.batch) = "accepted"
    BY <2>1, <2>3, EnqueueStep, EnqueueQueued
  <2>4. ASSUME NEW l \in Lanes, Pop(l)
        PROVE  Queued(queue') \subseteq Queued(queue) /\ queue'.latest = queue.latest
    BY <2>4, PopStep, PopQueued
  <2>5. QED
    BY <2>1, <2>2, <2>3, <2>4, StopQueue, QueueUntouched DEF QueueStep
<1>2. \A b \in loop'.removed : b.policy = "cycle" /\ b.slot = loop'.slot
  <2>1. CASE BeginCycle /\ IsCurrent(queue, loop.slot, loop.cycle)
    <3>1. /\ loop'.removed = RemovedBatches(queue, loop.slot, loop.cycle)
          /\ loop'.slot = loop.slot
      BY <2>1, BeginStep DEF Shape, LoopShape, LoopRecord
    <3>2. QED
      BY <3>1 DEF RemovedBatches, Superseded
  <2>2. ASSUME NEW b \in loop.removed, ReleaseRemoved(b)
        PROVE  loop'.removed \subseteq loop.removed /\ loop'.slot = loop.slot
    BY <2>2 DEF ReleaseRemoved, Shape, LoopShape, LoopRecord
  <2>3. CASE loop'.pc # "dropping"
    BY <2>3, ShapeStep DEF Shape, LoopShape
  <2>4. CASE UNCHANGED loop
    BY <2>4 DEF CoalescedExactly
  <2>5. CASE LoopDone
    BY <2>5 DEF LoopDone, Shape, LoopShape, LoopRecord, CoalescedExactly
  <2>6. loop.pc # "dropping" =>
           loop'.pc # "dropping" \/ UNCHANGED loop
             \/ (BeginCycle /\ IsCurrent(queue, loop.slot, loop.cycle))
    <3>1. loop \in LoopRecord
      BY DEF Shape, LoopShape
    <3>2. ASSUME SlotStep, loop.pc # "dropping"
          PROVE  loop'.pc # "dropping" \/ (BeginCycle /\ IsCurrent(queue, loop.slot, loop.cycle))
      <4>1. CASE BeginCycle
        BY <4>1, BeginMoves DEF LoopIdle, LoopIs
      <4>2. CASE AddSample
        BY <4>2, AddMoves DEF LoopIs
      <4>3. CASE Finish
        BY <4>3, FinishMoves DEF LoopIs
      <4>4. CASE CountBatch \/ TryEnqueue \/ ReleaseRefused \/ Cleanup
        BY <4>4, SubmitMoves DEF LoopIdle, LoopIs
      <4>5. CASE HostPage \/ ItemPage \/ EndSlot \/ SkipSample \/ SkipReserved
                   \/ HostsCancelled
        BY <4>5, PageMoves DEF LoopIdle, LoopIs
      <4>6. CASE LoopDone \/ StartPaging \/ \E b \in loop.removed : ReleaseRemoved(b)
        BY <3>2, <4>6, DroppingMoves DEF LoopIs
      <4>7. QED
        BY <3>2, <4>1, <4>2, <4>3, <4>4, <4>5, <4>6 DEF SlotStep
    <3>3. ASSUME NEW slot \in Slots, NEW at \in 1..MaxCycle, StartSlot(slot, at)
          PROVE  loop'.pc # "dropping"
      BY <3>3, StartSlotMoves DEF LoopIs
    <3>4. QED
      BY <3>2, <3>3, ValueStoreFrame, WorkerFrame, DrainFrame DEF Next, Cancel, Stop, vars
  <2>7. loop.pc = "dropping" =>
           \/ \E b \in loop.removed : ReleaseRemoved(b)
           \/ LoopDone \/ loop'.pc # "dropping" \/ UNCHANGED loop
    <3>1. loop \in LoopRecord
      BY DEF Shape, LoopShape
    <3>2. ASSUME SlotStep, loop.pc = "dropping"
          PROVE  \/ \E b \in loop.removed : ReleaseRemoved(b)
                 \/ LoopDone \/ loop'.pc # "dropping"
      BY <3>1, <3>2 DEF SlotStep, BeginCycle, StartPaging, HostPage, ItemPage, EndSlot,
         SkipSample, HostsCancelled, AddSample, SkipReserved, Finish, CountBatch,
         TryEnqueue, ReleaseRefused, Cleanup, LoopRecord
    <3>3. QED
      BY <3>2, ValueStoreFrame, WorkerFrame, DrainFrame
      DEF Next, Cancel, Stop, StartSlot, vars
  <2>8. QED
    BY <2>1, <2>2, <2>3, <2>4, <2>5, <2>6, <2>7 DEF CoalescedExactly
<1>3. loop'.pc = "started" /\ ~queue'.closed => IsCurrent(queue', loop'.slot, loop'.cycle)
  <2>1. SUFFICES ASSUME loop'.pc = "started", ~queue'.closed
                 PROVE  loop'.cycle >= queue'.latest[loop'.slot]
    BY DEF IsCurrent
  <2>2. loop'.slot \in Slots /\ loop'.cycle = cycles'[loop'.slot]
    BY <2>1, ShapeStep DEF Shape, LoopShape
  <2>3. queue'.latest[loop'.slot] <= cycles'[loop'.slot]
    BY <2>2, LatestPastStep DEF LatestPast
  <2>4. queue'.latest[loop'.slot] \in Nat /\ cycles'[loop'.slot] \in Nat
    BY <2>2, ShapeStep DEF Shape, QueueShape
  <2>5. QED
    BY <2>2, <2>3, <2>4
<1>4. QED
  BY <1>1, <1>2, <1>3 DEF CoalescedExactly

LEMMA InitQueueEmpty == Init => Queued(queue) = {} /\ \A l \in Lanes : queue.lanes[l] = <<>>
<1>1. ASSUME Init PROVE \A l \in Lanes : queue.lanes[l] = <<>>
  BY <1>1 DEF Init, EmptyQueue
<1>2. ASSUME Init PROVE \A l \in Lanes : BatchesIn(queue.lanes[l]) = {}
  BY <1>1, <1>2 DEF BatchesIn
<1>3. QED
  BY <1>1, <1>2 DEF Queued

\* Coalescing (beginLongCycle and tryEnqueue of push_worker.go, with
\* normalizeCycleLocked): a queued cycle batch is never older than its slot's newest
\* cycle, a newer cycle removes only cycle batches of its own slot, and a slot's
\* normalized cycle is never turned away unless the queue has been closed.
THEOREM PublisherCoalesced == Spec => []CoalescedExactly
<1>1. Init => LatestPast /\ CoalescedExactly
  <2>1. ASSUME Init PROVE LatestPast
    BY <2>1, ConstantFacts DEF Init, LatestPast, EmptyQueue
  <2>2. ASSUME Init PROVE loop.removed = {} /\ loop.pc = "idle"
    BY <2>2, IdleLoopType DEF Init
  <2>3. QED
    BY <2>1, <2>2, InitQueueEmpty DEF CoalescedExactly
<1>2. QED
  BY <1>1, InitShape, ShapeStep, LatestPastStep, CoalescedStep, PTL DEF Spec

-----------------------------------------------------------------------------
(* Who holds what: every step leaves the batches and the open samples where *)
(* they are, releases one batch, opens one sample, closes one builder, or   *)
(* cleans up.                                                              *)
Held == LiveBatches' = LiveBatches /\ OpenKeys' = OpenKeys /\ reservations' = reservations

Freed(b) ==
    /\ b \in LiveBatches /\ LiveBatches' = LiveBatches \ {b}
    /\ OpenKeys' = OpenKeys /\ reservations' = reservations \ b.keys

Opened(key) ==
    /\ LiveBatches' = LiveBatches /\ OpenKeys' = OpenKeys \cup {key}
    /\ key \notin reservations /\ reservations' = reservations \cup {key}

Sealed(b, more) ==
    /\ b.keys # {} /\ b.keys \subseteq OpenKeys /\ LiveBatches' = LiveBatches \cup {b}
    /\ OpenKeys' = (OpenKeys \ b.keys) \cup more
    /\ more \cap reservations = {} /\ reservations' = reservations \cup more

Cleaned ==
    LiveBatches' = LiveBatches /\ OpenKeys' = {} /\ reservations' = reservations \ OpenKeys

LEMMA LiveMember ==
    /\ \A b : b \in LiveBatches <=>
         \/ b \in Queued(queue) \/ b \in loop.removed \/ b \in stopping.remaining
         \/ b # None /\ b = loop.batch
         \/ b # None /\ \E l \in Lanes : b = worker[l].batch
    /\ \A b : b \in LiveBatches' <=>
         \/ b \in Queued(queue') \/ b \in loop'.removed \/ b \in stopping'.remaining
         \/ b # None /\ b = loop'.batch
         \/ b # None /\ \E l \in Lanes : b = worker'[l].batch
BY DEF LiveBatches

LEMMA OpenMember ==
    /\ \A k : k \in OpenKeys <=> \/ \E x \in Builders : k \in loop.builders[x]
                                 \/ loop.sample # None /\ k = loop.sample
    /\ \A k : k \in OpenKeys' <=> \/ \E x \in Builders : k \in loop'.builders[x]
                                  \/ loop'.sample # None /\ k = loop'.sample
BY DEF OpenKeys

LEMMA NothingOpen ==
    /\ loop.builders = NoBuilders /\ loop.sample = None => OpenKeys = {}
    /\ loop'.builders = NoBuilders /\ loop'.sample = None => OpenKeys' = {}
<1>1. \A x \in Builders : NoBuilders[x] = {}
  BY DEF NoBuilders
<1>2. QED
  BY <1>1, OpenMember

\* The loop keeps the batch, the samples and the removed batches it holds.
LEMMA LoopHeld ==
    ASSUME UNCHANGED <<queue, stopping, worker, reservations>>,
           loop'.batch = loop.batch, loop'.removed = loop.removed,
           loop'.sample = loop.sample, loop'.builders = loop.builders
    PROVE  Held
BY DEF Held, LiveBatches, OpenKeys

LEMMA OwnBegin ==
    ASSUME Shape, BeginCycle
    PROVE  Held
<1>1. /\ loop.removed = {} /\ loop.builders = NoBuilders /\ loop.batch = None
      /\ loop.sample = None /\ reservations' = reservations
      /\ UNCHANGED <<stopping, worker>>
  BY BeginMoves DEF BeginCycle
<1>2. CASE ~IsCurrent(queue, loop.slot, loop.cycle)
  <2>1. queue' = queue /\ LoopIdle
    BY <1>2, BeginMoves DEF BeginCycle
  <2>2. QED
    BY <1>1, <2>1, LoopHeld DEF LoopIdle, LoopIs
<1>3. CASE IsCurrent(queue, loop.slot, loop.cycle)
  <2> DEFINE removed == RemovedBatches(queue, loop.slot, loop.cycle)
  <2>1. /\ loop'.removed = removed /\ loop'.builders = NoBuilders
        /\ loop'.batch = None /\ loop'.sample = None
    BY <1>3, BeginMoves DEF LoopIs
  <2>2. Queued(queue') = Queued(queue) \ removed /\ removed \subseteq Queued(queue)
    BY <1>3, BeginStep DEF RemovedBatches
  <2> HIDE DEF removed
  <2>3. \A b : b \in LiveBatches' <=> b \in LiveBatches
    BY <1>1, <2>1, <2>2, LiveMember
  <2>4. QED
    BY <1>1, <2>1, <2>3, NothingOpen DEF Held
<1>4. QED
  BY <1>2, <1>3

LEMMA OwnDropping ==
    ASSUME Shape, OnePlace, NEW b \in loop.removed, ReleaseRemoved(b)
    PROVE  Freed(b)
<1>1. /\ LoopIs("dropping", loop.removed \ {b}, TRUE, loop.page, loop.builders, loop.batch,
                loop.sample)
      /\ reservations' = reservations \ b.keys
      /\ UNCHANGED <<queue, worker, stopping>>
  BY DroppingMoves DEF ReleaseRemoved
<1>2. /\ b \notin Queued(queue) /\ b \notin stopping.remaining /\ b # loop.batch
      /\ \A l \in Lanes : b # worker[l].batch
  BY DEF OnePlace
<1>3. \A c : c \in LiveBatches' <=> c \in LiveBatches /\ c # b
  BY <1>1, <1>2, LiveMember DEF LoopIs
<1>4. b \in LiveBatches /\ LiveBatches' = LiveBatches \ {b}
  BY <1>3, LiveMember
<1>5. OpenKeys' = OpenKeys
  BY <1>1 DEF LoopIs, OpenKeys
<1>6. QED
  BY <1>1, <1>4, <1>5 DEF Freed

LEMMA OwnPaging ==
    ASSUME Shape, \/ LoopDone \/ StartPaging \/ HostPage \/ ItemPage \/ EndSlot
                  \/ SkipSample \/ SkipReserved \/ HostsCancelled \/ CountBatch
    PROVE  Held
<1>1. UNCHANGED <<queue, stopping, worker, reservations>>
  BY DEF LoopDone, StartPaging, HostPage, ItemPage, EndSlot, SkipSample, SkipReserved,
     HostsCancelled, CountBatch
<1>2. CASE LoopDone \/ StartPaging
  BY <1>1, <1>2, DroppingMoves, LoopHeld DEF LoopIs
<1>3. CASE HostPage \/ ItemPage \/ SkipSample \/ SkipReserved \/ HostsCancelled
  <2>1. loop.pc \in {"paging", "adding"}
    BY <1>3, PageMoves
  <2>2. QED
    BY <1>1, <1>3, <2>1, PageMoves, AddingHolds, LoopHeld DEF LoopIs
<1>4. CASE EndSlot
  BY <1>1, <1>4, PageMoves, AddingHolds, LoopHeld DEF LoopIs, LoopIdle
<1>5. CASE CountBatch
  <2>1. loop.pc = "submitting"
    BY <1>5, SubmitMoves
  <2>2. QED
    BY <1>1, <1>5, <2>1, SubmitMoves, SubmittingHolds, LoopHeld DEF LoopIs
<1>6. QED
  BY <1>2, <1>3, <1>4, <1>5

\* The samples of two builders are of different lanes or policies.
LEMMA BuildersApart ==
    ASSUME Shape
    PROVE  /\ loop.builders \in [Builders -> SUBSET Key]
           /\ \A x, y \in Builders : \A k \in loop.builders[x] :
                 k \in loop.builders[y] => x = y
BY DEF Shape, LoopShape, LoopRecord

LEMMA OwnAdd ==
    ASSUME Shape, AddSample, NEW key, key = Head(loop.page)
    PROVE  \/ Opened(key)
           \/ Sealed(NewBatch(BuilderOf(key)), {key}) /\ loop'.batch = NewBatch(BuilderOf(key))
<1> DEFINE x == BuilderOf(key)
<1>1. /\ loop.pc = "adding" /\ key \in Key /\ x \in Builders /\ key \notin reservations
      /\ reservations' = reservations \cup {key} /\ queue' = queue
      /\ \/ LoopIs("adding", {}, FALSE, Tail(loop.page),
                   [loop.builders EXCEPT ![x] = loop.builders[x] \cup {key}], None, None)
         \/ /\ loop.builders[x] # {}
            /\ LoopIs("submitting", {}, FALSE, Tail(loop.page),
                      [loop.builders EXCEPT ![x] = {}], NewBatch(x), key)
  BY AddMoves
<1>2. /\ loop.removed = {} /\ loop.batch = None /\ loop.sample = None /\ key # None
      /\ UNCHANGED <<stopping, worker>>
  BY <1>1, AddingHolds, NoneFacts DEF AddSample
<1>3. /\ NewBatch(x) # None /\ NewBatch(x).keys = loop.builders[x]
  BY <1>1, NewBatchType
<1> HIDE DEF x
<1>4. CASE LoopIs("adding", {}, FALSE, Tail(loop.page),
                  [loop.builders EXCEPT ![x] = loop.builders[x] \cup {key}], None, None)
  <2>1. LiveBatches' = LiveBatches
    BY <1>1, <1>2, <1>4 DEF LoopIs, LiveBatches
  <2>2. \A y \in Builders : loop'.builders[y] = IF y = x THEN loop.builders[y] \cup {key}
                                                         ELSE loop.builders[y]
    BY <1>1, <1>4, BuildersApart DEF LoopIs
  <2>3. \A k : k \in OpenKeys' <=> k \in OpenKeys \/ k = key
    BY <1>1, <1>2, <1>4, <2>2, OpenMember DEF LoopIs
  <2>4. OpenKeys' = OpenKeys \cup {key}
    BY <2>3
  <2>5. QED
    BY <1>1, <2>1, <2>4 DEF Opened
<1>5. CASE /\ loop.builders[x] # {}
           /\ LoopIs("submitting", {}, FALSE, Tail(loop.page),
                     [loop.builders EXCEPT ![x] = {}], NewBatch(x), key)
  <2>1. /\ loop'.batch = NewBatch(x) /\ loop'.removed = {} /\ loop'.sample = key
        /\ \A y \in Builders : loop'.builders[y] = IF y = x THEN {} ELSE loop.builders[y]
    BY <1>1, <1>5, BuildersApart DEF LoopIs
  <2>2. \A b : b \in LiveBatches' <=> b \in LiveBatches \/ b = NewBatch(x)
    BY <1>1, <1>2, <1>3, <2>1, LiveMember
  <2>3. \A k : k \in OpenKeys' <=> (k \in OpenKeys /\ k \notin loop.builders[x]) \/ k = key
    BY <1>1, <1>2, <2>1, OpenMember, BuildersApart
  <2>4. loop.builders[x] \subseteq OpenKeys
    BY <1>1, OpenMember
  <2>5. /\ LiveBatches' = LiveBatches \cup {NewBatch(x)}
        /\ OpenKeys' = (OpenKeys \ loop.builders[x]) \cup {key}
    BY <2>2, <2>3
  <2>6. Sealed(NewBatch(x), {key})
    BY <1>1, <1>3, <1>5, <2>4, <2>5 DEF Sealed
  <2>7. QED
    BY <2>1, <2>6 DEF x
<1>6. QED
  BY <1>1, <1>4, <1>5

LEMMA OwnFinish ==
    ASSUME Shape, Finish
    PROVE  \/ Held
           \/ \E x \in Builders : Sealed(NewBatch(x), {}) /\ loop'.batch = NewBatch(x)
<1>1. /\ loop.pc = "adding" /\ UNCHANGED <<queue, reservations, stopping, worker>>
      /\ \/ \E x \in Builders :
              /\ loop.builders[x] # {}
              /\ LoopIs("submitting", {}, FALSE, <<>>, [loop.builders EXCEPT ![x] = {}],
                        NewBatch(x), None)
         \/ LoopIs("paging", {}, FALSE, <<>>, loop.builders, None, None)
  BY FinishMoves DEF Finish
<1>2. loop.removed = {} /\ loop.batch = None /\ loop.sample = None
  BY <1>1, AddingHolds
<1>3. ASSUME NEW x \in Builders, loop.builders[x] # {},
             LoopIs("submitting", {}, FALSE, <<>>, [loop.builders EXCEPT ![x] = {}],
                    NewBatch(x), None)
      PROVE  Sealed(NewBatch(x), {}) /\ loop'.batch = NewBatch(x)
  <2>1. /\ loop'.batch = NewBatch(x) /\ loop'.removed = {} /\ loop'.sample = None
        /\ \A y \in Builders : loop'.builders[y] = IF y = x THEN {} ELSE loop.builders[y]
    BY <1>3, BuildersApart DEF LoopIs
  <2>2. NewBatch(x) # None /\ NewBatch(x).keys = loop.builders[x]
    BY <1>1, NewBatchType
  <2>3. \A b : b \in LiveBatches' <=> b \in LiveBatches \/ b = NewBatch(x)
    BY <1>1, <1>2, <2>1, <2>2, LiveMember
  <2>4. \A k : k \in OpenKeys' <=> k \in OpenKeys /\ k \notin loop.builders[x]
    BY <1>2, <2>1, OpenMember, BuildersApart
  <2>5. loop.builders[x] \subseteq OpenKeys
    BY OpenMember
  <2>6. /\ LiveBatches' = LiveBatches \cup {NewBatch(x)}
        /\ OpenKeys' = OpenKeys \ loop.builders[x]
    BY <2>3, <2>4
  <2>7. QED
    BY <1>1, <1>3, <2>1, <2>2, <2>5, <2>6 DEF Sealed
<1>4. CASE LoopIs("paging", {}, FALSE, <<>>, loop.builders, None, None)
  BY <1>1, <1>2, <1>4, LoopHeld DEF LoopIs
<1>5. QED
  BY <1>1, <1>3, <1>4

LEMMA OwnSubmit ==
    ASSUME Shape, OnePlace
    PROVE  /\ TryEnqueue => Held
           /\ ReleaseRefused => Freed(loop.batch)
           /\ Cleanup => Cleaned
<1>1. ASSUME TryEnqueue, Admission(queue, loop.batch) # "accepted" PROVE Held
  <2>1. /\ loop.pc = "enqueueing" /\ UNCHANGED <<queue, stopping, worker, reservations>>
        /\ LoopIs("refused", {}, FALSE, loop.page, loop.builders, loop.batch, loop.sample)
    BY <1>1, SubmitMoves DEF TryEnqueue
  <2>2. QED
    BY <2>1, SubmittingHolds, LoopHeld DEF LoopIs
<1>2. ASSUME TryEnqueue, Admission(queue, loop.batch) = "accepted" PROVE Held
  <2>1. /\ loop.pc = "enqueueing" /\ UNCHANGED <<stopping, worker, reservations>>
        /\ \/ /\ loop.sample = None
              /\ LoopIs("adding", {}, FALSE, loop.page, loop.builders, None, None)
           \/ /\ loop.sample # None
              /\ LoopIs("adding", {}, FALSE, loop.page,
                        [loop.builders EXCEPT ![BuilderOf(loop.sample)] = {loop.sample}],
                        None, None)
    BY <1>2, SubmitMoves DEF TryEnqueue
  <2>2. /\ loop.removed = {} /\ loop.batch # None
        /\ loop.sample # None => /\ BuilderOf(loop.sample) \in Builders
                                 /\ loop.builders[BuilderOf(loop.sample)] = {}
    BY <2>1, SubmittingHolds
  <2>3. Queued(queue') = Queued(queue) \cup {loop.batch}
    BY <1>2, EnqueueQueued
  <2>4. \A b : b \in LiveBatches' <=> b \in LiveBatches
    BY <2>1, <2>2, <2>3, LiveMember DEF LoopIs
  <2>5. OpenKeys' = OpenKeys
    <3>1. CASE loop.sample = None
      BY <2>1, <3>1 DEF LoopIs, OpenKeys
    <3>2. CASE loop.sample # None
      <4> DEFINE x == BuilderOf(loop.sample)
      <4>1. /\ x \in Builders /\ loop.builders[x] = {}
            /\ loop'.builders = [loop.builders EXCEPT ![x] = {loop.sample}]
            /\ loop'.sample = None
        BY <2>1, <2>2, <3>2 DEF LoopIs
      <4> HIDE DEF x
      <4>2. \A y \in Builders : loop'.builders[y] = IF y = x THEN {loop.sample}
                                                             ELSE loop.builders[y]
        BY <4>1, BuildersApart
      <4>3. \A k : k \in OpenKeys' <=> k \in OpenKeys
        BY <3>2, <4>1, <4>2, OpenMember
      <4>4. QED
        BY <4>3
    <3>3. QED
      BY <3>1, <3>2
  <2>6. QED
    BY <2>1, <2>4, <2>5 DEF Held
<1>3. ASSUME ReleaseRefused PROVE Freed(loop.batch)
  <2>1. /\ LoopIs("refused", {}, TRUE, loop.page, loop.builders, None, loop.sample)
        /\ reservations' = reservations \ loop.batch.keys /\ loop.batch # None
        /\ loop.pc = "refused" /\ UNCHANGED <<queue, stopping, worker>>
    BY <1>3, SubmitMoves DEF ReleaseRefused
  <2>2. loop.removed = {}
    BY <2>1 DEF Shape, LoopShape
  <2>3. /\ loop.batch \notin Queued(queue) /\ loop.batch \notin stopping.remaining
        /\ \A l \in Lanes : worker[l].batch # loop.batch
    BY <2>1 DEF OnePlace
  <2>4. \A b : b \in LiveBatches' <=> b \in LiveBatches /\ b # loop.batch
    BY <2>1, <2>2, <2>3, LiveMember DEF LoopIs
  <2>5. loop.batch \in LiveBatches /\ LiveBatches' = LiveBatches \ {loop.batch}
    BY <2>1, <2>4, LiveMember
  <2>6. OpenKeys' = OpenKeys
    BY <2>1 DEF LoopIs, OpenKeys
  <2>7. QED
    BY <2>1, <2>5, <2>6 DEF Freed
<1>4. ASSUME Cleanup PROVE Cleaned
  <2>1. /\ loop.batch = None /\ loop.removed = {} /\ LoopIdle
        /\ reservations' = reservations \ CleanedKeys
        /\ UNCHANGED <<queue, stopping, worker>>
    BY <1>4, SubmitMoves DEF Cleanup
  <2>2. CleanedKeys = OpenKeys
    BY DEF CleanedKeys, OpenKeys
  <2>3. LiveBatches' = LiveBatches
    BY <2>1 DEF LoopIdle, LoopIs, LiveBatches
  <2>4. OpenKeys' = {}
    BY <2>1, NothingOpen DEF LoopIdle, LoopIs
  <2>5. QED
    BY <2>1, <2>2, <2>3, <2>4 DEF Cleaned
<1>5. QED
  BY <1>1, <1>2, <1>3, <1>4

LEMMA OwnWorker ==
    ASSUME Shape, OnePlace, NEW l \in Lanes, WorkerStep(l)
    PROVE  \/ Held
           \/ ReleaseSent(l) /\ Freed(worker[l].batch)
<1>1. /\ \A k \in Lanes : k # l => worker'[k] = worker[k]
      /\ UNCHANGED <<loop, stopping>>
  BY OtherWorkers, WorkerFrame
<1>2. OpenKeys' = OpenKeys
  BY <1>1 DEF OpenKeys
<1>3. CASE Pop(l)
  <2>1. /\ worker[l].batch = None /\ worker'[l].batch = Head(queue.lanes[l])
        /\ Head(queue.lanes[l]) # None
        /\ Queued(queue) = Queued(queue') \cup {Head(queue.lanes[l])}
        /\ reservations' = reservations
    BY <1>3, WorkerMoves, PopStep, PopQueued DEF Pop
  <2>2. \A b : b \in LiveBatches' <=> b \in LiveBatches
    BY <1>1, <2>1, LiveMember
  <2>3. QED
    BY <1>2, <2>1, <2>2 DEF Held
<1>4. CASE ReleaseSent(l)
  <2> DEFINE b == worker[l].batch
  <2>1. /\ b # None /\ worker'[l].batch = None /\ queue' = queue
        /\ reservations' = reservations \ b.keys
    BY <1>4, WorkerMoves, WorkerHolds DEF ReleaseSent, Holding
  <2>2. /\ b \notin Queued(queue) \cup loop.removed \cup stopping.remaining
        /\ b # loop.batch
    BY <2>1 DEF OnePlace
  <2>3. \A k \in Lanes : k # l => worker[k].batch # b
    BY <2>1 DEF Shape, WorkerShape
  <2> HIDE DEF b
  <2>4. b = worker[l].batch
    BY DEF b
  <2>5. \A c : c \in LiveBatches' <=> c \in LiveBatches /\ c # b
    BY <1>1, <2>1, <2>2, <2>3, <2>4, LiveMember
  <2>6. b \in LiveBatches /\ LiveBatches' = LiveBatches \ {b}
    BY <2>1, <2>4, <2>5, LiveMember
  <2>7. QED
    BY <1>2, <1>4, <2>1, <2>4, <2>6 DEF Freed
<1>5. CASE queue' = queue /\ worker'[l].batch = worker[l].batch /\ reservations' = reservations
  <2>1. \A b : b \in LiveBatches' <=> b \in LiveBatches
    BY <1>1, <1>5, LiveMember
  <2>2. QED
    BY <1>2, <1>5, <2>1 DEF Held
<1>6. \/ Pop(l) \/ ReleaseSent(l)
      \/ (/\ queue' = queue /\ worker'[l].batch = worker[l].batch
          /\ reservations' = reservations)
  <2>1. \/ Pop(l) \/ ReleaseSent(l) \/ worker'[l].batch = worker[l].batch
    BY WorkerMoves DEF WorkerStep
  <2>2. \/ Pop(l) \/ ReleaseSent(l) \/ (queue' = queue /\ reservations' = reservations)
    BY DEF WorkerStep, PopEmpty, Block, Wake, Attempt, Backoff, Ack, WorkerDone
  <2>3. QED
    BY <2>1, <2>2
<1>7. QED
  BY <1>3, <1>4, <1>5, <1>6

LEMMA OwnStop ==
    ASSUME Shape, OnePlace
    PROVE  /\ Stop => Held
           /\ \A b \in stopping.remaining : ReleaseRemaining(b) => Freed(b)
           /\ StopDone \/ Stopped => Held
<1>1. ASSUME Stop PROVE Held
  <2>1. /\ Queued(queue') = {} /\ stopping.remaining = {}
        /\ stopping'.remaining = Queued(queue)
        /\ UNCHANGED <<loop, worker, reservations>>
    BY <1>1, StopQueue DEF Stop
  <2>2. \A b : b \in LiveBatches' <=> b \in LiveBatches
    BY <2>1, LiveMember
  <2>3. QED
    BY <2>1, <2>2 DEF Held, OpenKeys
<1>2. ASSUME NEW b \in stopping.remaining, ReleaseRemaining(b) PROVE Freed(b)
  <2>1. /\ stopping'.remaining = stopping.remaining \ {b}
        /\ reservations' = reservations \ b.keys
        /\ UNCHANGED <<queue, loop, worker>>
    BY <1>2 DEF ReleaseRemaining, Shape, StopShape
  <2>2. /\ b \notin Queued(queue) \cup loop.removed /\ b # loop.batch
        /\ \A l \in Lanes : worker[l].batch # b
    BY DEF OnePlace
  <2>3. \A c : c \in LiveBatches' <=> c \in LiveBatches /\ c # b
    BY <2>1, <2>2, LiveMember
  <2>4. b \in LiveBatches /\ LiveBatches' = LiveBatches \ {b}
    BY <2>3, LiveMember
  <2>5. QED
    BY <2>1, <2>4 DEF Freed, OpenKeys
<1>3. ASSUME StopDone \/ Stopped PROVE Held
  <2>1. /\ stopping'.remaining = stopping.remaining
        /\ UNCHANGED <<queue, loop, worker, reservations>>
    BY <1>3 DEF StopDone, Stopped, Shape, StopShape
  <2>2. QED
    BY <2>1 DEF Held, LiveBatches, OpenKeys
<1>4. QED
  BY <1>1, <1>2, <1>3

\* One of the five, at every step; a sealed batch is the one the loop submits.
LEMMA Ownership ==
    ASSUME Shape, OnePlace, [Next]_vars
    PROVE  \/ Held \/ Cleaned
           \/ \E b \in LiveBatches : Freed(b)
           \/ AddSample /\ Opened(Head(loop.page))
           \/ AddSample /\ \E b : Sealed(b, {Head(loop.page)}) /\ loop'.batch = b
           \/ Finish /\ \E b : Sealed(b, {}) /\ loop'.batch = b
<1>1. ASSUME SlotStep
      PROVE  \/ Held \/ Cleaned
             \/ \E b \in LiveBatches : Freed(b)
             \/ AddSample /\ Opened(Head(loop.page))
             \/ AddSample /\ \E b : Sealed(b, {Head(loop.page)}) /\ loop'.batch = b
             \/ Finish /\ \E b : Sealed(b, {}) /\ loop'.batch = b
  <2>1. CASE BeginCycle
    BY <2>1, OwnBegin
  <2>2. CASE \E b \in loop.removed : ReleaseRemoved(b)
    BY <2>2, OwnDropping DEF Freed
  <2>3. CASE AddSample
    BY <2>3, OwnAdd
  <2>4. CASE Finish
    BY <2>4, OwnFinish
  <2>5. CASE TryEnqueue \/ ReleaseRefused \/ Cleanup
    BY <2>5, OwnSubmit DEF Freed
  <2>6. QED
    BY <1>1, <2>1, <2>2, <2>3, <2>4, <2>5, OwnPaging DEF SlotStep
<1>2. ASSUME NEW l \in Lanes, WorkerStep(l)
      PROVE  Held \/ \E b \in LiveBatches : Freed(b)
  BY <1>2, OwnWorker DEF Freed
<1>3. Stop \/ DrainStep => Held \/ \E b \in LiveBatches : Freed(b)
  BY OwnStop DEF DrainStep, Freed
<1>4. CASE UNCHANGED <<queue, loop, worker, stopping, reservations>>
  BY <1>4 DEF Held, LiveBatches, OpenKeys
<1>5. ASSUME NEW slot \in Slots, NEW at \in 1..MaxCycle, StartSlot(slot, at)
      PROVE  Held
  <2>1. /\ UNCHANGED <<queue, worker, stopping, reservations>> /\ loop.pc = "idle"
        /\ LoopIs("started", {}, FALSE, <<>>, NoBuilders, None, None)
    BY <1>5, StartSlotMoves
  <2>2. /\ loop.removed = {} /\ loop.batch = None /\ loop.sample = None
        /\ loop.builders = NoBuilders
    BY <2>1 DEF Shape, LoopShape, OutsidePages
  <2>3. QED
    BY <2>1, <2>2, LoopHeld DEF LoopIs
<1>6. QED
  BY <1>1, <1>2, <1>3, <1>4, <1>5, ValueStoreFrame DEF Next, Cancel, vars

LEMMA OwnedStep ==
    ASSUME Shape, OnePlace, ReservationsOwned, [Next]_vars
    PROVE  ReservationsOwned'
<1>1. /\ reservations = OpenKeys \cup UNION {b.keys : b \in LiveBatches}
      /\ \A b \in LiveBatches : b.keys \cap OpenKeys = {}
      /\ \A a, b \in LiveBatches : a # b => a.keys \cap b.keys = {}
  BY DEF ReservationsOwned
<1> DEFINE held(batches) == UNION {b.keys : b \in batches}
<1>2. \A k : k \in reservations <=> k \in OpenKeys \/ \E b \in LiveBatches : k \in b.keys
  BY <1>1
<1>3. SUFFICES /\ \A k : k \in reservations' <=>
                     k \in OpenKeys' \/ \E b \in LiveBatches' : k \in b.keys
               /\ \A b \in LiveBatches' : b.keys \cap OpenKeys' = {}
               /\ \A a, b \in LiveBatches' : a # b => a.keys \cap b.keys = {}
  <2>1. (\A k : k \in reservations' <=>
                     k \in OpenKeys' \/ \E b \in LiveBatches' : k \in b.keys)
          => reservations' = OpenKeys' \cup UNION {b.keys : b \in LiveBatches'}
    OBVIOUS
  <2>2. QED
    BY <2>1 DEF ReservationsOwned
<1>4. CASE Held
  BY <1>1, <1>2, <1>4 DEF Held
<1>5. CASE Cleaned
  BY <1>1, <1>2, <1>5 DEF Cleaned
<1>6. ASSUME NEW b \in LiveBatches, Freed(b)
      PROVE  /\ \A k : k \in reservations' <=>
                     k \in OpenKeys' \/ \E c \in LiveBatches' : k \in c.keys
             /\ \A c \in LiveBatches' : c.keys \cap OpenKeys' = {}
             /\ \A a, c \in LiveBatches' : a # c => a.keys \cap c.keys = {}
  <2>1. /\ LiveBatches' = LiveBatches \ {b} /\ OpenKeys' = OpenKeys
        /\ reservations' = reservations \ b.keys
    BY <1>6 DEF Freed
  <2>2. \A k : k \in reservations' <=>
                  k \in OpenKeys' \/ \E c \in LiveBatches' : k \in c.keys
    BY <1>1, <1>2, <2>1
  <2>3. QED
    BY <1>1, <2>1, <2>2
<1>7. ASSUME NEW key, Opened(key)
      PROVE  /\ \A k : k \in reservations' <=>
                     k \in OpenKeys' \/ \E b \in LiveBatches' : k \in b.keys
             /\ \A b \in LiveBatches' : b.keys \cap OpenKeys' = {}
             /\ \A a, b \in LiveBatches' : a # b => a.keys \cap b.keys = {}
  <2>1. /\ LiveBatches' = LiveBatches /\ OpenKeys' = OpenKeys \cup {key}
        /\ key \notin reservations /\ reservations' = reservations \cup {key}
    BY <1>7 DEF Opened
  <2>2. \A b \in LiveBatches : key \notin b.keys
    BY <1>2, <2>1
  <2>3. QED
    BY <1>1, <1>2, <2>1, <2>2
<1>8. ASSUME NEW b, NEW more, Sealed(b, more)
      PROVE  /\ \A k : k \in reservations' <=>
                     k \in OpenKeys' \/ \E c \in LiveBatches' : k \in c.keys
             /\ \A c \in LiveBatches' : c.keys \cap OpenKeys' = {}
             /\ \A a, c \in LiveBatches' : a # c => a.keys \cap c.keys = {}
  <2>1. /\ b.keys \subseteq OpenKeys /\ LiveBatches' = LiveBatches \cup {b}
        /\ OpenKeys' = (OpenKeys \ b.keys) \cup more
        /\ more \cap reservations = {} /\ reservations' = reservations \cup more
    BY <1>8 DEF Sealed
  <2>2. /\ \A c \in LiveBatches : \A k \in more : k \notin c.keys
        /\ \A k \in more : k \notin OpenKeys
    BY <1>2, <2>1
  <2>3. \A k : k \in reservations' <=>
                  k \in OpenKeys' \/ \E c \in LiveBatches' : k \in c.keys
    BY <1>2, <2>1
  <2>4. \A c \in LiveBatches' : c.keys \cap OpenKeys' = {}
    BY <1>1, <2>1, <2>2
  <2>5. \A a, c \in LiveBatches' : a # c => a.keys \cap c.keys = {}
    BY <1>1, <2>1
  <2>6. QED
    BY <2>3, <2>4, <2>5
<1>9. QED
  BY <1>4, <1>5, <1>6, <1>7, <1>8, Ownership

\* The batch that leaves its lane is not in the queue any more.
LEMMA PopFresh ==
    ASSUME Shape, OnePlace, NEW l \in Lanes, Pop(l)
    PROVE  Head(queue.lanes[l]) \notin Queued(queue')
<1> DEFINE s == queue.lanes[l]
<1>1. /\ s # <<>> /\ s \in Seq(Batch) /\ Head(s) = s[1] /\ Head(s).lane = l
      /\ queue'.lanes[l] = Tail(s)
      /\ \A k \in Lanes : k # l => queue'.lanes[k] = queue.lanes[k]
  BY PopStep
<1>2. \A m, n \in 1..Len(s) : m # n => s[m] # s[n]
  BY DEF OnePlace
<1>3. \A k \in Lanes : \A n \in 1..Len(queue.lanes[k]) : queue.lanes[k][n].lane = k
  BY QueueFields DEF Shape
<1> HIDE DEF s
<1>4. \A n \in 1..Len(Tail(s)) : Tail(s)[n] # s[1]
  <2>1. /\ Len(s) \in Nat /\ 1 <= Len(s) /\ Len(Tail(s)) = Len(s) - 1
        /\ \A n \in 1..Len(Tail(s)) : n + 1 \in 1..Len(s) /\ Tail(s)[n] = s[n + 1]
    BY <1>1, TailFacts
  <2>2. 1 \in 1..Len(s) /\ \A n \in 1..Len(Tail(s)) : n + 1 # 1
    BY <2>1
  <2>3. QED
    BY <1>2, <2>1, <2>2
<1>5. \A k \in Lanes : \A n \in 1..Len(queue'.lanes[k]) : queue'.lanes[k][n] # Head(s)
  <2>1. \A n \in 1..Len(queue'.lanes[l]) : queue'.lanes[l][n] # Head(s)
    BY <1>1, <1>4
  <2>2. ASSUME NEW k \in Lanes, k # l, NEW n \in 1..Len(queue'.lanes[k])
        PROVE  queue'.lanes[k][n] # Head(s)
    <3>1. queue'.lanes[k][n].lane = k
      BY <1>1, <1>3, <2>2
    <3>2. QED
      BY <1>1, <2>2, <3>1
  <2>3. QED
    BY <2>1, <2>2
<1>6. Head(s) \notin Queued(queue')
  BY <1>5 DEF Queued, BatchesIn
<1>7. QED
  BY <1>6 DEF s

\* The lanes hold no batch twice.
Distinct(q) ==
    \A l \in Lanes : \A m, n \in 1..Len(q.lanes[l]) : m # n => q.lanes[l][m] # q.lanes[l][n]

LEMMA DistinctStep ==
    ASSUME Shape, OnePlace, [Next]_vars
    PROVE  Distinct(queue')
<1>1. Distinct(queue)
  BY DEF OnePlace, Distinct
<1>2. CASE BeginCycle /\ IsCurrent(queue, loop.slot, loop.cycle)
  <2>1. /\ queue'.lanes \in [Lanes -> Seq(Batch)]
        /\ \A l \in Lanes :
             IsSublist(queue.lanes[l], KeptAt(queue, loop.slot, loop.cycle, l), queue'.lanes[l])
    BY <1>2, BeginStep
  <2>2. \A l \in Lanes : Len(queue'.lanes[l]) \in Nat
    <3>1. \A l \in Lanes : queue'.lanes[l] \in Seq(Batch)
      BY <2>1
    <3>2. QED
      BY <3>1, LenProperties
  <2>3. ASSUME NEW l \in Lanes, NEW m \in 1..Len(queue'.lanes[l]),
               NEW n \in 1..Len(queue'.lanes[l]), m < n
        PROVE  queue'.lanes[l][m] # queue'.lanes[l][n]
    <3>1. PICK i, j \in KeptAt(queue, loop.slot, loop.cycle, l) :
             /\ i < j /\ queue'.lanes[l][m] = queue.lanes[l][i]
             /\ queue'.lanes[l][n] = queue.lanes[l][j]
      BY <2>1, <2>3 DEF IsSublist
    <3>2. i \in 1..Len(queue.lanes[l]) /\ j \in 1..Len(queue.lanes[l])
      BY DEF KeptAt
    <3>3. i \in Int /\ j \in Int
      <4>1. Len(queue.lanes[l]) \in Nat
        <5>1. queue.lanes[l] \in Seq(Batch)
          BY QueueFields DEF Shape
        <5>2. QED
          BY <5>1, LenProperties
      <4>2. QED
        BY <3>2, <4>1
    <3>4. i # j
      BY <3>1, <3>3
    <3>5. QED
      BY <1>1, <3>1, <3>2, <3>4 DEF Distinct
  <2>4. ASSUME NEW l \in Lanes, NEW m \in 1..Len(queue'.lanes[l]),
               NEW n \in 1..Len(queue'.lanes[l]), m # n
        PROVE  queue'.lanes[l][m] # queue'.lanes[l][n]
    <3>1. m < n \/ n < m
      BY <2>2, <2>4
    <3>2. QED
      BY <2>3, <3>1
  <2>5. QED
    BY <2>4 DEF Distinct
<1>3. CASE TryEnqueue /\ Admission(queue, loop.batch) = "accepted"
  <2> DEFINE b == loop.batch
             k == b.lane
             s == queue.lanes[k]
  <2>1. /\ b \in Batch /\ k \in Lanes /\ s \in Seq(Batch) /\ queue'.lanes[k] = Append(s, b)
        /\ \A l \in Lanes : l # k => queue'.lanes[l] = queue.lanes[l]
    BY <1>3, EnqueueStep
  <2>2. \A n \in 1..Len(s) : s[n] # b
    <3>1. b \notin Queued(queue)
      BY DEF OnePlace
    <3>2. QED
      BY <2>1, <3>1 DEF Queued, BatchesIn
  <2>3. \A m, n \in 1..Len(s) : m # n => s[m] # s[n]
    BY <1>1, <2>1 DEF Distinct
  <2> HIDE DEF b, k, s
  <2>4. \A m, n \in 1..Len(Append(s, b)) : m # n => Append(s, b)[m] # Append(s, b)[n]
    <3>1. /\ Append(s, b)[Len(s) + 1] = b
          /\ \A n \in 1..Len(s) : Append(s, b)[n] = s[n]
          /\ \A n \in 1..Len(Append(s, b)) : n = Len(s) + 1 \/ n \in 1..Len(s)
      BY <2>1, AppendFacts
    <3>2. QED
      BY <2>2, <2>3, <3>1
  <2>5. \A m, n \in 1..Len(queue'.lanes[k]) : m # n => queue'.lanes[k][m] # queue'.lanes[k][n]
    BY <2>1, <2>4
  <2>6. \A l \in Lanes : l # k =>
           \A m, n \in 1..Len(queue'.lanes[l]) : m # n => queue'.lanes[l][m] # queue'.lanes[l][n]
    BY <1>1, <2>1 DEF Distinct
  <2>7. QED
    BY <2>5, <2>6 DEF Distinct
<1>4. ASSUME NEW l \in Lanes, Pop(l) PROVE Distinct(queue')
  <2> DEFINE s == queue.lanes[l]
  <2>1. /\ s # <<>> /\ s \in Seq(Batch) /\ queue'.lanes[l] = Tail(s)
        /\ \A k \in Lanes : k # l => queue'.lanes[k] = queue.lanes[k]
    BY <1>4, PopStep
  <2>2. \A m, n \in 1..Len(s) : m # n => s[m] # s[n]
    BY <1>1 DEF Distinct
  <2> HIDE DEF s
  <2>3. \A m, n \in 1..Len(Tail(s)) : m # n => Tail(s)[m] # Tail(s)[n]
    <3>1. /\ Len(s) \in Nat /\ 1 <= Len(s) /\ Len(Tail(s)) = Len(s) - 1
          /\ \A n \in 1..Len(Tail(s)) : n + 1 \in 1..Len(s) /\ Tail(s)[n] = s[n + 1]
      BY <2>1, TailFacts
    <3>2. \A m, n \in 1..Len(Tail(s)) : m # n => m + 1 # n + 1
      BY <3>1
    <3>3. QED
      BY <2>2, <3>1, <3>2
  <2>4. \A m, n \in 1..Len(queue'.lanes[l]) : m # n => queue'.lanes[l][m] # queue'.lanes[l][n]
    BY <2>1, <2>3
  <2>5. \A k \in Lanes : k # l =>
           \A m, n \in 1..Len(queue'.lanes[k]) : m # n => queue'.lanes[k][m] # queue'.lanes[k][n]
    BY <1>1, <2>1 DEF Distinct
  <2>6. QED
    BY <2>4, <2>5 DEF Distinct
<1>5. CASE Stop
  <2>1. \A l \in Lanes : queue'.lanes[l] = <<>>
    BY <1>5, StopQueue
  <2>2. 1..Len(<<>>) = {}
    OBVIOUS
  <2>3. QED
    BY <2>1, <2>2 DEF Distinct
<1>6. CASE queue' = queue
  BY <1>1, <1>6
<1>7. QED
  BY <1>2, <1>3, <1>4, <1>5, <1>6, QueueUntouched DEF QueueStep

\* The parts of OnePlace about the places other than the lanes.
LEMMA OnePlaceParts ==
    ASSUME Distinct(queue'),
           \A b \in Queued(queue') : b \notin loop'.removed /\ b \notin stopping'.remaining,
           \A b \in loop'.removed : b \notin stopping'.remaining,
           loop'.batch \notin Queued(queue') \cup loop'.removed \cup stopping'.remaining,
           \A l \in Lanes :
             /\ worker'[l].batch \notin Queued(queue') \cup loop'.removed \cup stopping'.remaining
             /\ worker'[l].batch # None => worker'[l].batch # loop'.batch
    PROVE  OnePlace'
BY DEF OnePlace, Distinct

LEMMA OnePlaceStep ==
    ASSUME Shape, OnePlace, ReservationsOwned, [Next]_vars
    PROVE  OnePlace'
<1> DEFINE elsewhere == Queued(queue) \cup loop.removed \cup stopping.remaining
<1>1. /\ \A b \in Queued(queue) : b \notin loop.removed /\ b \notin stopping.remaining
      /\ \A b \in loop.removed : b \notin stopping.remaining
      /\ loop.batch \notin Queued(queue) \cup loop.removed \cup stopping.remaining
      /\ \A l \in Lanes :
           /\ worker[l].batch \notin Queued(queue) \cup loop.removed \cup stopping.remaining
           /\ worker[l].batch # None => worker[l].batch # loop.batch
  BY DEF OnePlace
<1>2. Distinct(queue')
  BY DistinctStep
<1>3. None \notin Queued(queue) \cup loop.removed \cup stopping.remaining
  BY NoneFacts, QueuedFacts DEF Shape, QueueShape, LoopShape, LoopRecord, StopShape
\* Steps that keep every batch but perhaps one, or give the loop a new one.
<1>4. ASSUME queue' = queue, worker' = worker, stopping' = stopping,
             loop'.removed \subseteq loop.removed,
             \/ loop'.batch = loop.batch \/ loop'.batch = None
             \/ loop'.batch \notin LiveBatches
      PROVE  OnePlace'
  <2>1. loop'.batch \notin LiveBatches => /\ loop'.batch \notin Queued(queue) \cup loop.removed \cup stopping.remaining
                                          /\ \A l \in Lanes : worker[l].batch # None
                                                => worker[l].batch # loop'.batch
    BY LiveMember
  <2>2. /\ loop'.batch \notin Queued(queue) \cup loop.removed \cup stopping.remaining
        /\ \A l \in Lanes : worker[l].batch # None => worker[l].batch # loop'.batch
    BY <1>1, <1>3, <1>4, <2>1
  <2>3. QED
    BY <1>1, <1>2, <1>4, <2>2, OnePlaceParts
<1>5. CASE BeginCycle
  <2>1. UNCHANGED <<worker, stopping>> /\ loop.removed = {}
    BY <1>5, BeginMoves DEF BeginCycle
  <2>2. CASE ~IsCurrent(queue, loop.slot, loop.cycle)
    <3>1. queue' = queue /\ loop'.removed = {} /\ loop'.batch = None
      BY <1>5, <2>2, BeginMoves DEF BeginCycle, LoopIdle, LoopIs
    <3>2. QED
      BY <1>4, <2>1, <3>1
  <2>3. CASE IsCurrent(queue, loop.slot, loop.cycle)
    <3> DEFINE removed == RemovedBatches(queue, loop.slot, loop.cycle)
    <3>1. /\ Queued(queue') = Queued(queue) \ removed /\ removed \subseteq Queued(queue)
          /\ loop'.removed = removed /\ loop'.batch = None
      BY <1>5, <2>3, BeginMoves, BeginStep DEF LoopIs, RemovedBatches
    <3> HIDE DEF removed
    <3>2. /\ \A b \in Queued(queue') : b \notin loop'.removed /\ b \notin stopping'.remaining
          /\ \A b \in loop'.removed : b \notin stopping'.remaining
          /\ loop'.batch \notin Queued(queue') \cup loop'.removed \cup stopping'.remaining
          /\ \A l \in Lanes :
               /\ worker'[l].batch \notin Queued(queue') \cup loop'.removed \cup stopping'.remaining
               /\ worker'[l].batch # None => worker'[l].batch # loop'.batch
      BY <1>1, <1>3, <2>1, <3>1
    <3>3. QED
      BY <1>2, <3>2, OnePlaceParts
  <2>4. QED
    BY <2>2, <2>3
<1>6. CASE TryEnqueue
  <2>1. UNCHANGED <<worker, stopping>> /\ loop.pc = "enqueueing" /\ loop.removed = {}
    BY <1>6, SubmittingHolds DEF TryEnqueue
  <2>2. CASE Admission(queue, loop.batch) # "accepted"
    <3>1. queue' = queue /\ loop'.removed = {} /\ loop'.batch = loop.batch
      BY <1>6, <2>2, SubmitMoves DEF LoopIs
    <3>2. QED
      BY <1>4, <2>1, <3>1
  <2>3. CASE Admission(queue, loop.batch) = "accepted"
    <3>1. /\ Queued(queue') = Queued(queue) \cup {loop.batch} /\ loop.batch # None
          /\ loop'.removed = {} /\ loop'.batch = None
      BY <1>6, <2>3, EnqueueQueued, EnqueueStep, SubmitMoves DEF LoopIs
    <3>2. /\ \A b \in Queued(queue') : b \notin loop'.removed /\ b \notin stopping'.remaining
          /\ \A b \in loop'.removed : b \notin stopping'.remaining
          /\ loop'.batch \notin Queued(queue') \cup loop'.removed \cup stopping'.remaining
          /\ \A l \in Lanes :
               /\ worker'[l].batch \notin Queued(queue') \cup loop'.removed \cup stopping'.remaining
               /\ worker'[l].batch # None => worker'[l].batch # loop'.batch
      BY <1>1, <1>3, <2>1, <3>1
    <3>3. QED
      BY <1>2, <3>2, OnePlaceParts
  <2>4. QED
    BY <2>2, <2>3
<1>7. CASE AddSample \/ Finish
  <2>1. /\ UNCHANGED <<queue, worker, stopping>> /\ loop.pc = "adding"
        /\ loop'.removed = {}
        /\ loop'.batch = None \/ \E x \in Builders : /\ loop'.batch = NewBatch(x)
                                                     /\ loop.builders[x] # {}
    <3>1. CASE AddSample
      BY <3>1, AddMoves DEF AddSample, LoopIs
    <3>2. CASE Finish
      BY <3>2, FinishMoves DEF Finish, LoopIs
    <3>3. QED
      BY <1>7, <3>1, <3>2
  <2>2. ASSUME NEW x \in Builders, loop.builders[x] # {} PROVE NewBatch(x) \notin LiveBatches
    <3>1. NewBatch(x).keys = loop.builders[x] /\ loop.builders[x] \subseteq OpenKeys
      BY <2>1, NewBatchType, OpenMember
    <3>2. \A b \in LiveBatches : b.keys \cap OpenKeys = {}
      BY DEF ReservationsOwned
    <3>3. QED
      BY <2>2, <3>1, <3>2
  <2>3. QED
    BY <1>4, <2>1, <2>2
<1>8. ASSUME SlotStep, ~BeginCycle, ~TryEnqueue, ~AddSample, ~Finish PROVE OnePlace'
  <2>1. UNCHANGED <<queue, worker, stopping>>
    BY <1>8 DEF SlotStep, ReleaseRemoved, LoopDone, StartPaging, HostPage, ItemPage,
       EndSlot, SkipSample, HostsCancelled, SkipReserved, CountBatch, ReleaseRefused, Cleanup
  <2>2. /\ loop'.removed \subseteq loop.removed
        /\ loop'.batch = loop.batch \/ loop'.batch = None
    <3>1. CASE \E b \in loop.removed : ReleaseRemoved(b)
      BY <3>1, DroppingMoves DEF LoopIs
    <3>2. CASE LoopDone \/ StartPaging
      BY <3>2, DroppingMoves DEF LoopIs
    <3>3. CASE HostPage \/ ItemPage \/ EndSlot \/ SkipSample \/ SkipReserved \/ HostsCancelled
      BY <3>3, PageMoves DEF LoopIs, LoopIdle
    <3>4. CASE CountBatch \/ ReleaseRefused \/ Cleanup
      BY <3>4, SubmitMoves DEF LoopIs, LoopIdle
    <3>5. QED
      BY <1>8, <3>1, <3>2, <3>3, <3>4 DEF SlotStep
  <2>3. QED
    BY <1>4, <2>1, <2>2
<1>9. ASSUME NEW l \in Lanes, WorkerStep(l) PROVE OnePlace'
  <2>1. /\ UNCHANGED <<loop, stopping>>
        /\ \A k \in Lanes : k # l => worker'[k] = worker[k]
    BY <1>9, WorkerFrame, OtherWorkers
  <2>2. CASE Pop(l)
    <3> DEFINE b == Head(queue.lanes[l])
    <3>1. /\ b \in Queued(queue) /\ Queued(queue) = Queued(queue') \cup {b}
          /\ b \notin Queued(queue') /\ worker'[l].batch = b
      BY <2>2, PopQueued, PopFresh, WorkerMoves
    <3> HIDE DEF b
    <3>2. /\ \A c \in Queued(queue') : c \notin loop'.removed /\ c \notin stopping'.remaining
          /\ \A c \in loop'.removed : c \notin stopping'.remaining
          /\ loop'.batch \notin Queued(queue') \cup loop'.removed \cup stopping'.remaining
          /\ \A k \in Lanes :
               /\ worker'[k].batch \notin Queued(queue') \cup loop'.removed \cup stopping'.remaining
               /\ worker'[k].batch # None => worker'[k].batch # loop'.batch
      BY <1>1, <2>1, <3>1
    <3>3. QED
      BY <1>2, <3>2, OnePlaceParts
  <2>3. CASE ~Pop(l)
    <3>1. /\ queue' = queue
          /\ worker'[l].batch = worker[l].batch \/ worker'[l].batch = None
      BY <1>9, <2>3, WorkerMoves DEF WorkerStep, PopEmpty, Block, Wake, Attempt, Backoff,
         Ack, ReleaseSent, WorkerDone
    <3>2. \A k \in Lanes :
             /\ worker'[k].batch \notin Queued(queue') \cup loop'.removed \cup stopping'.remaining
             /\ worker'[k].batch # None => worker'[k].batch # loop'.batch
      BY <1>1, <1>3, <2>1, <3>1
    <3>3. QED
      BY <1>1, <1>2, <2>1, <3>1, <3>2, OnePlaceParts
  <2>4. QED
    BY <2>2, <2>3
<1>10. CASE Stop
  <2>1. /\ Queued(queue') = {} /\ stopping.remaining = {}
        /\ stopping'.remaining = Queued(queue) /\ UNCHANGED <<loop, worker>>
    BY <1>10, StopQueue DEF Stop
  <2>2. /\ \A b \in loop'.removed : b \notin stopping'.remaining
        /\ loop'.batch \notin Queued(queue') \cup loop'.removed \cup stopping'.remaining
        /\ \A l \in Lanes :
             /\ worker'[l].batch \notin Queued(queue') \cup loop'.removed \cup stopping'.remaining
             /\ worker'[l].batch # None => worker'[l].batch # loop'.batch
    BY <1>1, <2>1
  <2>3. QED
    BY <1>2, <2>1, <2>2, OnePlaceParts
<1>11. CASE DrainStep
  <2>1. stopping'.remaining \subseteq stopping.remaining /\ UNCHANGED <<queue, loop, worker>>
    BY <1>11, ZenonT(60) DEF DrainStep, ReleaseRemaining, StopDone, Stopped, Shape, StopShape
  <2>2. QED
    BY <1>1, <1>2, <2>1, OnePlaceParts
<1>12. CASE UNCHANGED <<queue, loop, worker, stopping>>
  BY <1>1, <1>2, <1>12, OnePlaceParts
<1>13. ASSUME NEW slot \in Slots, NEW at \in 1..MaxCycle, StartSlot(slot, at)
       PROVE  OnePlace'
  BY <1>4, <1>13, StartSlotMoves DEF LoopIs
<1>14. QED
  BY <1>5, <1>6, <1>7, <1>8, <1>9, <1>10, <1>11, <1>12, <1>13, ValueStoreFrame
  DEF Next, Cancel, vars

LEMMA InitOwned ==
    ASSUME Init
    PROVE  OnePlace /\ ReservationsOwned
<1>1. /\ Queued(queue) = {} /\ \A l \in Lanes : queue.lanes[l] = <<>>
      /\ loop.removed = {} /\ loop.batch = None /\ loop.sample = None
      /\ loop.builders = NoBuilders /\ stopping.remaining = {} /\ reservations = {}
      /\ \A l \in Lanes : worker[l].batch = None
  BY InitQueueEmpty, IdleLoopType DEF Init, IdleWorker
<1>2. 1..Len(<<>>) = {}
  OBVIOUS
<1>3. OnePlace
  BY <1>1, <1>2 DEF OnePlace
<1>4. LiveBatches = {}
  BY <1>1, LiveMember
<1>5. OpenKeys = {}
  BY <1>1, NothingOpen
<1>6. QED
  BY <1>1, <1>3, <1>4, <1>5 DEF ReservationsOwned

\* Reservations and the work they stand for agree at every moment, through a full
\* queue, a coalesced cycle, an error, a cancellation and a stop (reserve, release
\* and releaseBatch of publisher.go): no sample is reserved without an owner, and
\* none has two.
THEOREM PublisherOwned == Spec => []ReservationsOwned
<1>1. Shape /\ OnePlace /\ ReservationsOwned /\ [Next]_vars
        => (Shape /\ OnePlace /\ ReservationsOwned)'
  BY ShapeStep, OnePlaceStep, OwnedStep
<1>2. Init => Shape /\ OnePlace /\ ReservationsOwned
  BY InitShape, InitOwned
<1>3. QED
  BY <1>1, <1>2, PTL DEF Spec

-----------------------------------------------------------------------------
(* What is known of a sample stays known.                                  *)

LEMMA CyclesGrow ==
    ASSUME Shape, [Next]_vars, NEW s \in Slots
    PROVE  cycles[s] \in Nat /\ cycles'[s] \in Nat /\ cycles[s] <= cycles'[s]
<1>1. cycles[s] \in Nat /\ cycles'[s] \in Nat
  BY ShapeStep DEF Shape
<1>2. cycles[s] <= cycles'[s]
  <2>1. CASE cycles' = cycles
    BY <1>1, <2>1
  <2>2. QED
    BY <2>1, StartSlotFacts, SlotFrame, ValueStoreFrame, WorkerFrame, DrainFrame
    DEF Next, Cancel, Stop, vars
<1>3. QED
  BY <1>1, <1>2

SameValue(i) ==
    /\ store[i] # None
    /\ store'[i].version = store[i].version /\ store'[i].policy = store[i].policy

\* A value that is replaced gets a larger version than any before; one that keeps
\* its version keeps its policy.
LEMMA VersionsGrow ==
    ASSUME Shape, [Next]_vars, NEW i \in Items
    PROVE  /\ versions \in Nat /\ versions' \in Nat /\ versions <= versions'
           /\ store'[i] # None =>
                \/ SameValue(i)
                \/ store'[i].version \in Nat /\ store'[i].version > versions
<1>1. versions \in Nat /\ versions' \in Nat
  BY ShapeStep DEF Shape, StoreShape
<1>2. ASSUME NEW j \in Items, NEW policy, WriteValue(j, policy)
      PROVE  /\ versions' = versions + 1
             /\ store'[i] # None =>
                  \/ SameValue(i)
                  \/ store'[i].version \in Nat /\ store'[i].version > versions
  <2> DEFINE new == [version |-> versions + 1, policy |-> policy, published |-> 0,
                     publishedAt |-> 0,
                     sequence |-> IF store[j] = None THEN versions + 1 ELSE store[j].sequence]
  <2>1. versions' = versions + 1 /\ store' = [store EXCEPT ![j] = new]
    BY <1>2 DEF WriteValue
  <2>2. new.version = versions + 1
    OBVIOUS
  <2> HIDE DEF new
  <2>3. store'[i] = IF i = j THEN new ELSE store[i]
    BY <2>1 DEF Shape, StoreShape
  <2>4. QED
    BY <1>1, <2>1, <2>2, <2>3 DEF SameValue
<1>3. ASSUME NEW j \in Items, DropValue(j)
      PROVE  versions' = versions /\ (store'[i] # None => store'[i] = store[i])
  BY <1>3 DEF DropValue, Shape, StoreShape
<1>4. ASSUME NEW l \in Lanes, WorkerStep(l)
      PROVE  /\ versions' = versions
             /\ store'[i] # None =>
                  SameValue(i)
  <2>1. versions' = versions
    BY <1>4, WorkerFrame
  <2>2. CASE Ack(l)
    BY <2>1, <2>2, AckStore, AckedType DEF SameValue
  <2>3. CASE store' = store
    BY <2>1, <2>3 DEF SameValue
  <2>4. QED
    BY <1>4, <2>2, <2>3 DEF WorkerStep, Pop, PopEmpty, Block, Wake, Attempt, Backoff,
       ReleaseSent, WorkerDone
<1>5. QED
  <2> DEFINE Goal == /\ versions <= versions'
                     /\ store'[i] # None =>
                          \/ SameValue(i)
                          \/ store'[i].version \in Nat /\ store'[i].version > versions
  <2>1. ASSUME NEW j \in Items, NEW policy, WriteValue(j, policy) PROVE Goal
    BY <1>1, <1>2, <2>1
  <2>2. ASSUME NEW j \in Items, DropValue(j) PROVE Goal
    BY <1>1, <1>3, <2>2 DEF SameValue
  <2>3. ASSUME NEW l \in Lanes, WorkerStep(l) PROVE Goal
    BY <1>1, <1>4, <2>3
  <2>4. versions' = versions /\ store' = store => Goal
    BY <1>1 DEF SameValue
  <2> HIDE DEF Goal
  <2>5. ValueStore => Goal
    BY <2>1, <2>2 DEF ValueStore
  <2>6. (\E l \in Lanes : WorkerStep(l)) => Goal
    BY <2>3
  <2>7. SlotStep \/ DrainStep => Goal
    BY <2>4, SlotFrame, DrainFrame DEF Goal
  <2>8. Cancel \/ Stop \/ UNCHANGED vars => Goal
    BY <2>4 DEF Cancel, Stop, vars, Goal
  <2>9. (\E slot \in Slots, at \in 1..MaxCycle : StartSlot(slot, at)) => Goal
    BY <2>4 DEF StartSlot, Goal
  <2>10. Goal
    BY <2>5, <2>6, <2>7, <2>8, <2>9 DEF Next
  <2>11. QED
    BY <1>1, <2>10 DEF Goal

LEMMA PastKept ==
    ASSUME Shape, [Next]_vars, NEW k \in Key, Past(k)
    PROVE  Past(k)'
<1>1. k.version \in Nat /\ k.ts \in Nat /\ k.series \in Series /\ SlotOf[k.series] \in Slots
  BY ConstantFacts DEF Key
<1>2. k.ts <= cycles'[SlotOf[k.series]]
  <2> DEFINE s == SlotOf[k.series]
  <2>1. s \in Slots /\ k.ts <= cycles[s]
    BY <1>1 DEF Past
  <2> HIDE DEF s
  <2>2. k.ts <= cycles'[s]
    BY <1>1, <2>1, CyclesGrow
  <2>3. QED
    BY <2>2 DEF s
<1>3. ASSUME k.series \in Items
      PROVE  /\ k.version <= versions'
             /\ store'[k.series] # None =>
                  /\ k.version <= store'[k.series].version
                  /\ k.version = store'[k.series].version =>
                       Policy(k) = store'[k.series].policy
  <2> DEFINE i == k.series
             p == Policy(k)
  <2>1. /\ i \in Items /\ k.version <= versions
        /\ store[i] # None => /\ k.version <= store[i].version
                              /\ k.version = store[i].version => p = store[i].policy
    BY <1>3 DEF Past
  <2> HIDE DEF i, p
  <2>2. /\ k.version <= versions'
        /\ store'[i] # None => /\ k.version <= store'[i].version
                               /\ k.version = store'[i].version => p = store'[i].policy
    BY <1>1, <2>1, VersionsGrow DEF SameValue
  <2>3. QED
    BY <2>2 DEF i, p
<1>4. k.series \notin Items => k.version = 1
  BY DEF Past
<1>5. QED
  BY <1>2, <1>3, <1>4 DEF Past, Policy

LEMMA GoodBatchKept ==
    ASSUME Shape, [Next]_vars, NEW b \in Batch, GoodBatch(b)
    PROVE  GoodBatch(b)'
<1>1. \A k \in b.keys : k \in Key /\ Past(k)
  BY DEF GoodBatch, Batch
<1>2. \A k \in b.keys : Past(k)'
  BY <1>1, PastKept
<1>3. QED
  BY <1>2 DEF GoodBatch

LEMMA LiveType ==
    ASSUME Shape
    PROVE  LiveBatches \subseteq Batch
<1>1. Queued(queue) \subseteq Batch
  BY QueuedFacts DEF Shape, QueueShape
<1>2. loop.removed \subseteq Batch /\ (loop.batch # None => loop.batch \in Batch)
  BY DEF Shape, LoopShape, LoopRecord
<1>3. stopping.remaining \subseteq Batch
  BY DEF Shape, StopShape
<1>4. \A l \in Lanes : worker[l].batch # None => worker[l].batch \in Batch
  BY DEF Shape, WorkerShape, WorkerRecord
<1>5. QED
  BY <1>1, <1>2, <1>3, <1>4, LiveMember

LEMMA InHandMember ==
    /\ \A k : k \in InHand <=> \/ loop.batch # None /\ k \in loop.batch.keys
                               \/ k \in OpenKeys
                               \/ \E n \in 1..Len(loop.page) : k = loop.page[n]
    /\ \A k : k \in InHand' <=> \/ loop'.batch # None /\ k \in loop'.batch.keys
                                \/ k \in OpenKeys'
                                \/ \E n \in 1..Len(loop'.page) : k = loop'.page[n]
BY DEF InHand, PageKeys

LEMMA InHandType ==
    ASSUME Shape
    PROVE  InHand \subseteq Key
<1>1. loop.batch # None => loop.batch.keys \subseteq Key
  BY DEF Shape, LoopShape, LoopRecord, Batch
<1>2. OpenKeys \subseteq Key
  BY OpenMember DEF Shape, LoopShape, LoopRecord
<1>3. \A n \in 1..Len(loop.page) : loop.page[n] \in Key
  <2>1. loop.page \in Seq(Key)
    BY DEF Shape, LoopShape, LoopRecord
  <2>2. QED
    BY <2>1, ElementOfSeq
<1>4. QED
  BY <1>1, <1>2, <1>3, InHandMember

\* A new page is read when nothing else is in hand: one sample per series of
\* the slot, as new as the cache and the cycle.
LEMMA NewPage ==
    ASSUME Shape, HostPage \/ ItemPage
    PROVE  /\ InHand = {} /\ OnePerSeries(InHand')
           /\ \A k \in InHand' :
                /\ k \in Key /\ SlotOf[k.series] = loop.slot
                /\ k.series \in Items =>
                     /\ store[k.series] # None /\ k.version = store[k.series].version
                     /\ k.ts = IF store[k.series].policy = "source" THEN 0 ELSE loop.cycle
                /\ k.series \notin Items => k.version = 1 /\ k.ts = loop.cycle
<1>1. /\ loop.pc = "paging" /\ loop.batch = None /\ loop.page = <<>> /\ loop.sample = None
      /\ loop.builders = NoBuilders /\ loop'.batch = None /\ loop'.sample = None
      /\ loop'.builders = NoBuilders
  BY PageMoves, AddingHolds DEF LoopIs
<1>2. OpenKeys = {} /\ OpenKeys' = {}
  BY <1>1, NothingOpen
<1>3. InHand = {}
  <2>1. 1..Len(<<>>) = {}
    OBVIOUS
  <2>2. QED
    BY <1>1, <1>2, <2>1, InHandMember
<1>4. \A k : k \in InHand' <=> \E n \in 1..Len(loop'.page) : k = loop'.page[n]
  BY <1>1, <1>2, InHandMember
<1>5. /\ loop \in LoopRecord /\ loop.slot \in Slots /\ loop.cycle \in 0..MaxCycle
      /\ loop.cursor \in Nat
  BY <1>1 DEF Shape, LoopShape, LoopRecord
<1>6. \A k \in InHand' :
         /\ k \in Key /\ SlotOf[k.series] = loop.slot
         /\ k.series \in Items =>
              /\ store[k.series] # None /\ k.version = store[k.series].version
              /\ k.ts = IF store[k.series].policy = "source" THEN 0 ELSE loop.cycle
         /\ k.series \notin Items => k.version = 1 /\ k.ts = loop.cycle
  <2>1. CASE HostPage
    <3> DEFINE page == AtMost(loop.hosts, PageSize)
               SampleOf(h) == [series |-> h, version |-> 1, ts |-> loop.cycle]
               keys == [n \in 1..Len(page) |-> SampleOf(page[n])]
               rest == SubSeq(loop.hosts, Len(page) + 1, Len(loop.hosts))
    <3>1. loop' = [loop EXCEPT !.pc = "adding", !.page = keys, !.hosts = rest]
      BY <2>1 DEF HostPage
    <3>2. keys \in Seq(Key)
      BY <1>1, HostPageType
    <3>3. /\ page \in Seq(HostSet) /\ Len(page) \in Nat /\ Len(page) <= Len(loop.hosts)
          /\ Len(loop.hosts) \in Nat
          /\ \A n \in 1..Len(page) : page[n] = loop.hosts[n]
      <4>1. loop.hosts \in Seq(HostSet) /\ PageSize \in Nat
        BY <1>5, ConstantFacts DEF LoopRecord
      <4>2. QED
        BY <4>1, AtMostFacts, LenProperties
    <3>4. \A n \in 1..Len(page) : page[n] \in HostSet /\ SlotOf[page[n]] = loop.slot
      <4>1. \A n \in 1..Len(page) : n \in 1..Len(loop.hosts)
        BY <3>3
      <4>2. \A n \in 1..Len(page) : page[n] \in HostSet
        BY <3>3, ElementOfSeq
      <4>3. QED
        BY <3>3, <4>1, <4>2 DEF Shape, LoopShape
    <3> HIDE DEF page
    <3>5. Len(keys) = Len(page) /\ \A n \in 1..Len(page) : keys[n] = SampleOf(page[n])
      BY <3>3
    <3> HIDE DEF keys, rest
    <3>6. loop'.page = keys
      BY <1>5, <3>1 DEF LoopRecord
    <3>7. ASSUME NEW n \in 1..Len(keys)
          PROVE  /\ keys[n] \in Key /\ keys[n].series \notin Items
                 /\ SlotOf[keys[n].series] = loop.slot
                 /\ keys[n].version = 1 /\ keys[n].ts = loop.cycle
      <4>1. keys[n] = SampleOf(page[n]) /\ n \in 1..Len(page)
        BY <3>5
      <4>2. keys[n].series = page[n] /\ keys[n].version = 1 /\ keys[n].ts = loop.cycle
        BY <4>1
      <4>3. page[n] \in HostSet /\ SlotOf[page[n]] = loop.slot
        BY <3>4, <4>1
      <4>4. page[n] \notin Items
        BY <4>3, ConstantFacts, PublisherAssumption
      <4>5. keys[n] \in Key
        BY <3>2, ElementOfSeq
      <4>6. QED
        BY <4>2, <4>3, <4>4, <4>5
    <3>8. QED
      BY <1>4, <3>6, <3>7
  <2>2. CASE ItemPage
    <3> DEFINE page == PageOf(loop.slot, loop.cycle, loop.cursor)
               keys == [n \in 1..Len(page) |-> KeyOf(page[n], loop.cycle)]
               cursor == IF page = <<>> THEN loop.cursor ELSE store[page[Len(page)]].sequence
               done == Len(page) < PageSize
    <3>1. loop' = [loop EXCEPT !.pc = "adding", !.page = keys, !.cursor = cursor, !.done = done]
      BY <2>2 DEF ItemPage
    <3>2. keys \in Seq(Key)
      BY <1>1, ItemPageType
    <3>3. /\ page \in Seq(Items)
          /\ \A n \in 1..Len(page) : page[n] \in Unread(loop.slot, loop.cycle, loop.cursor)
      BY <1>5, PageOfFacts
    <3>4. \A n \in 1..Len(page) : /\ page[n] \in Items /\ SlotOf[page[n]] = loop.slot
                                  /\ store[page[n]] # None
      BY <3>3 DEF Unread, Eligible
    <3>5. Len(page) \in Nat
      BY <3>3, LenProperties
    <3> HIDE DEF page
    <3>6. Len(keys) = Len(page) /\ \A n \in 1..Len(page) : keys[n] = KeyOf(page[n], loop.cycle)
      BY <3>5
    <3> HIDE DEF keys, cursor, done
    <3>7. loop'.page = keys
      BY <1>5, <3>1 DEF LoopRecord
    <3>8. ASSUME NEW n \in 1..Len(keys)
          PROVE  /\ keys[n] \in Key /\ keys[n].series \in Items
                 /\ SlotOf[keys[n].series] = loop.slot
                 /\ store[keys[n].series] # None
                 /\ keys[n].version = store[keys[n].series].version
                 /\ keys[n].ts = IF store[keys[n].series].policy = "source"
                                 THEN 0 ELSE loop.cycle
      <4>1. keys[n] = KeyOf(page[n], loop.cycle) /\ n \in 1..Len(page)
        BY <3>6
      <4>2. keys[n].series = page[n] /\ keys[n].version = store[page[n]].version
        BY <4>1 DEF KeyOf
      <4>3. keys[n].ts = IF store[page[n]].policy = "source" THEN 0 ELSE loop.cycle
        BY <4>1 DEF KeyOf
      <4>4. keys[n] \in Key
        BY <3>2, ElementOfSeq
      <4>5. QED
        BY <3>4, <4>1, <4>2, <4>3, <4>4
    <3>9. QED
      BY <1>4, <3>7, <3>8
  <2>3. QED
    BY <2>1, <2>2
<1>7. OnePerSeries(InHand')
  <2>1. \A j, k \in Key : j.series = k.series /\ j.version = k.version /\ j.ts = k.ts => j = k
    BY DEF Key
  <2>2. QED
    BY <1>6, <2>1 DEF OnePerSeries
<1>8. QED
  BY <1>3, <1>6, <1>7

\* Every other step keeps in hand what is in hand, or less.
LEMMA InHandShrinks ==
    ASSUME Shape, [Next]_vars, ~HostPage, ~ItemPage
    PROVE  InHand' \subseteq InHand
<1>1. CASE loop' = loop
  BY <1>1 DEF InHand, OpenKeys, PageKeys
<1>2. ASSUME loop'.batch = loop.batch \/ loop'.batch = None,
             OpenKeys' \subseteq OpenKeys, loop'.page = loop.page \/ loop'.page = <<>>
      PROVE  InHand' \subseteq InHand
  <2>1. 1..Len(<<>>) = {}
    OBVIOUS
  <2>2. QED
    BY <1>2, <2>1, InHandMember
<1>3. ASSUME loop'.builders = NoBuilders, loop'.sample = None, loop'.batch = None,
             loop'.page = <<>>
      PROVE  InHand' \subseteq InHand
  BY <1>2, <1>3, NothingOpen
<1>4. ASSUME loop'.builders = loop.builders, loop'.sample = loop.sample,
             loop'.batch = loop.batch \/ loop'.batch = None,
             loop'.page = loop.page \/ loop'.page = <<>>
      PROVE  InHand' \subseteq InHand
  BY <1>2, <1>4 DEF OpenKeys
<1>5. ASSUME loop.page # <<>>
      PROVE  \A n \in 1..Len(Tail(loop.page)) :
                \E m \in 1..Len(loop.page) : Tail(loop.page)[n] = loop.page[m]
  <2>1. loop.page \in Seq(Key)
    BY DEF Shape, LoopShape, LoopRecord
  <2>2. QED
    BY <1>5, <2>1, TailFacts
<1>6. CASE SkipSample \/ SkipReserved
  <2>1. /\ loop.pc = "adding" /\ loop.page # <<>> /\ loop'.page = Tail(loop.page)
        /\ loop'.builders = loop.builders /\ loop'.batch = None /\ loop'.sample = None
    BY <1>6, PageMoves DEF LoopIs
  <2>2. loop.sample = None
    BY <2>1, AddingHolds
  <2>3. OpenKeys' = OpenKeys
    BY <2>1, <2>2 DEF OpenKeys
  <2>4. QED
    BY <1>5, <2>1, <2>3, InHandMember
<1>7. CASE AddSample
  <2> DEFINE key == Head(loop.page)
             x == BuilderOf(key)
  <2>1. /\ loop.pc = "adding" /\ loop.page # <<>> /\ x \in Builders
        /\ loop'.page = Tail(loop.page)
        /\ \/ /\ loop'.builders = [loop.builders EXCEPT ![x] = loop.builders[x] \cup {key}]
              /\ loop'.batch = None /\ loop'.sample = None
           \/ /\ loop'.builders = [loop.builders EXCEPT ![x] = {}]
              /\ loop'.batch = NewBatch(x) /\ loop'.sample = key
    BY <1>7, AddMoves DEF LoopIs
  <2>2. key = loop.page[1] /\ 1 \in 1..Len(loop.page)
    <3>1. loop.page \in Seq(Key)
      BY DEF Shape, LoopShape, LoopRecord
    <3>2. QED
      BY <2>1, <3>1, TailFacts
  <2>3. NewBatch(x).keys = loop.builders[x]
    BY <2>1, NewBatchType
  <2> HIDE DEF key, x
  <2>4. \A k : k \in OpenKeys' => k \in OpenKeys \/ k = key
    <3>1. \A y \in Builders : \A k \in loop'.builders[y] : k \in loop.builders[y] \/ k = key
      BY <2>1, BuildersApart
    <3>2. QED
      BY <2>1, <3>1, OpenMember
  <2>5. loop'.batch # None => \A k \in loop'.batch.keys : k \in OpenKeys
    BY <2>1, <2>3, OpenMember
  <2>6. QED
    BY <1>5, <2>1, <2>2, <2>4, <2>5, InHandMember
<1>8. CASE Finish
  <2>1. CASE \E x \in Builders :
               /\ loop'.builders = [loop.builders EXCEPT ![x] = {}]
               /\ loop'.batch = NewBatch(x) /\ loop'.sample = None /\ loop'.page = <<>>
    <3>1. PICK x \in Builders :
             /\ loop'.builders = [loop.builders EXCEPT ![x] = {}]
             /\ loop'.batch = NewBatch(x) /\ loop'.sample = None /\ loop'.page = <<>>
      BY <2>1
    <3>2. NewBatch(x).keys = loop.builders[x]
      BY <1>8, FinishMoves, NewBatchType
    <3>3. \A y \in Builders : \A k \in loop'.builders[y] : k \in loop.builders[y]
      BY <3>1, BuildersApart
    <3>4. \A k : k \in OpenKeys' => k \in OpenKeys
      BY <3>1, <3>3, OpenMember
    <3>5. \A k \in loop'.batch.keys : k \in OpenKeys
      BY <3>1, <3>2, OpenMember
    <3>6. 1..Len(<<>>) = {}
      OBVIOUS
    <3>7. QED
      BY <3>1, <3>4, <3>5, <3>6, InHandMember
  <2>2. CASE LoopIs("paging", {}, FALSE, <<>>, loop.builders, None, None)
    <3>1. loop.sample = None
      BY <1>8, FinishMoves, AddingHolds
    <3>2. QED
      BY <1>4, <2>2, <3>1 DEF LoopIs
  <2>3. QED
    BY <1>8, <2>1, <2>2, FinishMoves DEF LoopIs
<1>9. CASE TryEnqueue
  <2>1. loop'.page = loop.page /\ (loop'.batch = loop.batch \/ loop'.batch = None)
    BY <1>9, SubmitMoves DEF LoopIs
  <2>2. \A k : k \in OpenKeys' => k \in OpenKeys
    <3>1. CASE loop'.builders = loop.builders /\ loop'.sample = loop.sample
      BY <3>1 DEF OpenKeys
    <3>2. CASE /\ loop.sample # None /\ loop'.sample = None
               /\ loop'.builders = [loop.builders EXCEPT ![BuilderOf(loop.sample)] = {loop.sample}]
      <4>1. \A y \in Builders : \A k \in loop'.builders[y] :
               k \in loop.builders[y] \/ k = loop.sample
        BY <3>2, BuildersApart
      <4>2. QED
        BY <3>2, <4>1, OpenMember
    <3>3. QED
      BY <1>9, <3>1, <3>2, SubmitMoves DEF LoopIs
  <2>3. QED
    BY <1>2, <2>1, <2>2
<1>10. CASE BeginCycle
  BY <1>3, <1>10, BeginMoves DEF LoopIs, LoopIdle
<1>11. CASE LoopDone \/ StartPaging \/ \E b \in loop.removed : ReleaseRemoved(b)
  BY <1>4, <1>11, DroppingMoves DEF LoopIs
<1>12. CASE EndSlot
  BY <1>3, <1>12, PageMoves DEF LoopIs, LoopIdle
<1>13. CASE HostsCancelled
  <2>1. loop.sample = None /\ loop.batch = None
    BY <1>13, PageMoves, AddingHolds
  <2>2. QED
    BY <1>4, <1>13, <2>1, PageMoves DEF LoopIs
<1>14. CASE CountBatch \/ ReleaseRefused
  BY <1>4, <1>14, SubmitMoves DEF LoopIs
<1>15. CASE Cleanup
  BY <1>3, <1>15, SubmitMoves DEF LoopIs, LoopIdle
<1>16. ASSUME NEW slot \in Slots, NEW at \in 1..MaxCycle, StartSlot(slot, at)
       PROVE  InHand' \subseteq InHand
  BY <1>3, <1>16, StartSlotMoves DEF LoopIs
<1>17. SlotStep => InHand' \subseteq InHand
  BY <1>6, <1>7, <1>8, <1>9, <1>10, <1>11, <1>12, <1>13, <1>14, <1>15 DEF SlotStep
<1>18. QED
  BY <1>1, <1>16, <1>17, ValueStoreFrame, WorkerFrame, DrainFrame
  DEF Next, Cancel, Stop, vars

LEMMA LiveTypeNext ==
    ASSUME Shape, [Next]_vars
    PROVE  LiveBatches' \subseteq Batch
<1>1. Shape'
  BY ShapeStep
<1>2. Queued(queue') \subseteq Batch
  BY <1>1, QueuedFacts DEF Shape, QueueShape
<1>3. loop'.removed \subseteq Batch /\ (loop'.batch # None => loop'.batch \in Batch)
  BY <1>1 DEF Shape, LoopShape, LoopRecord
<1>4. stopping'.remaining \subseteq Batch
  BY <1>1 DEF Shape, StopShape
<1>5. \A l \in Lanes : worker'[l].batch # None => worker'[l].batch \in Batch
  BY <1>1 DEF Shape, WorkerShape, WorkerRecord
<1>6. QED
  BY <1>2, <1>3, <1>4, <1>5, LiveMember

\* The batch that add or finish closes holds samples of one builder.
LEMMA SealedLane ==
    ASSUME Shape, [Next]_vars, AddSample \/ Finish, NEW more,
           Sealed(loop'.batch, more)
    PROVE  \A k \in loop'.batch.keys : LaneOf[k.series] = loop'.batch.lane
<1>1. loop'.batch \in Batch /\ loop'.batch # None
  BY LiveTypeNext, NoneFacts DEF Sealed
<1>2. loop.pc = "adding" /\ \E x \in Builders : loop'.batch = NewBatch(x)
  BY <1>1, AddMoves, FinishMoves DEF LoopIs
<1>3. PICK x \in Builders : loop'.batch = NewBatch(x)
  BY <1>2
<1>4. loop'.batch.keys = loop.builders[x] /\ loop'.batch.lane = x[1]
  BY <1>2, <1>3, NewBatchType
<1>5. \A k \in loop.builders[x] : BuilderOf(k) = x
  BY DEF Shape, LoopShape
<1>6. QED
  BY <1>4, <1>5 DEF BuilderOf

\* The endpoint receives what a worker holds.
LEMMA ReceivedGrows ==
    ASSUME Shape, [Next]_vars
    PROVE  \/ received' = received
           \/ \E l \in Lanes, outcome \in Outcomes :
                /\ Attempt(l, outcome)
                /\ worker[l].batch # None /\ worker[l].batch \in LiveBatches
                /\ received' = received \cup worker[l].batch.keys
<1>1. ASSUME NEW l \in Lanes, NEW outcome \in Outcomes, Attempt(l, outcome)
      PROVE  \/ received' = received
             \/ /\ worker[l].batch # None /\ worker[l].batch \in LiveBatches
                /\ received' = received \cup worker[l].batch.keys
  <2>1. worker[l].pc = "sending"
    BY <1>1, WorkerMoves
  <2>2. worker[l].batch # None
    BY <2>1, WorkerHolds DEF Holding
  <2>3. worker[l].batch \in LiveBatches
    BY <2>2, LiveMember
  <2>4. received' = received \/ received' = received \cup worker[l].batch.keys
    BY <1>1 DEF Attempt
  <2>5. QED
    BY <2>2, <2>3, <2>4
<1>2. ASSUME NEW l \in Lanes, WorkerStep(l)
      PROVE  received' = received \/ \E outcome \in Outcomes : Attempt(l, outcome)
  BY <1>2 DEF WorkerStep, Pop, PopEmpty, Block, Wake, Backoff, Ack, ReleaseSent,
     WorkerDone
<1>3. received' = received \/ \E l \in Lanes, outcome \in Outcomes : Attempt(l, outcome)
  BY <1>2, ValueStoreFrame, SlotFrame, DrainFrame DEF Next, Cancel, StartSlot, Stop, vars
<1>4. QED
  BY <1>1, <1>3

LEMMA NewPagePast ==
    ASSUME Shape, HostPage \/ ItemPage
    PROVE  \A k \in InHand' : Past(k)'
<1>1. SlotStep /\ UNCHANGED <<store, versions, cycles>> /\ loop.pc = "paging"
  BY SlotFrame, PageMoves DEF SlotStep
<1>2. /\ loop.slot \in Slots /\ loop.cycle = cycles[loop.slot] /\ loop.cycle \in Nat
      /\ loop.cycle # 0 /\ versions \in Nat
      /\ \A i \in Items : store[i] # None => /\ store[i].version \in 1..versions
                                             /\ store[i].policy \in {"source", "cycle"}
  BY <1>1 DEF Shape, LoopShape, LoopRecord, StoreShape, StoredValue
<1>3. ASSUME NEW k \in InHand' PROVE Past(k)'
  <2>1. /\ k \in Key /\ SlotOf[k.series] = loop.slot
        /\ k.series \in Items =>
             /\ store[k.series] # None /\ k.version = store[k.series].version
             /\ k.ts = IF store[k.series].policy = "source" THEN 0 ELSE loop.cycle
        /\ k.series \notin Items => k.version = 1 /\ k.ts = loop.cycle
    BY <1>3, NewPage
  <2> HIDE <1>3
  <2>2. k.ts <= cycles[SlotOf[k.series]]
    BY <1>2, <2>1
  <2>3. k.series \in Items =>
          /\ k.version <= versions /\ k.version <= store[k.series].version
          /\ Policy(k) = store[k.series].policy
    BY <1>2, <2>1 DEF Policy
  <2>4. QED
    BY <1>1, <2>1, <2>2, <2>3 DEF Past, Policy
<1>4. QED
  BY <1>3

LEMMA KeysPastStep ==
    ASSUME Shape, OnePlace, KeysPast, [Next]_vars
    PROVE  KeysPast'
<1>1. /\ \A b \in LiveBatches : GoodBatch(b)
      /\ \A k \in received : Past(k)
      /\ \A k \in InHand : Past(k)
      /\ OnePerSeries(InHand)
  BY DEF KeysPast
<1>2. InHand \subseteq Key /\ received \subseteq Key /\ LiveBatches \subseteq Batch
  BY InHandType, LiveType DEF Shape
<1>3. (\A k \in InHand' : Past(k)') /\ OnePerSeries(InHand')
  <2>1. CASE HostPage \/ ItemPage
    BY <2>1, NewPage, NewPagePast
  <2>2. CASE ~HostPage /\ ~ItemPage
    <3>1. InHand' \subseteq InHand
      BY <2>2, InHandShrinks
    <3>2. \A k \in InHand' : Past(k)'
      BY <1>1, <1>2, <3>1, PastKept
    <3>3. OnePerSeries(InHand')
      BY <1>1, <3>1 DEF OnePerSeries
    <3>4. QED
      BY <3>2, <3>3
  <2>3. QED
    BY <2>1, <2>2
<1>4. \A k \in received' : Past(k)'
  <2>1. \A k \in received : Past(k)'
    BY <1>1, <1>2, PastKept
  <2>2. ASSUME NEW b \in LiveBatches PROVE \A k \in b.keys : Past(k)'
    <3>1. GoodBatch(b)'
      BY <1>1, <1>2, GoodBatchKept
    <3>2. QED
      BY <3>1 DEF GoodBatch
  <2>3. QED
    BY <2>1, <2>2, ReceivedGrows
<1>5. \A b \in LiveBatches' : GoodBatch(b)'
  <2>1. \A b \in LiveBatches : GoodBatch(b)'
    BY <1>1, <1>2, GoodBatchKept
  <2>2. ASSUME NEW b, b = loop'.batch, NEW more, Sealed(b, more), AddSample \/ Finish
        PROVE  GoodBatch(b)'
    <3>1. b \in Batch /\ b.keys # {} /\ b.keys \subseteq OpenKeys
      BY <2>2, LiveTypeNext DEF Sealed
    <3>2. \A k \in b.keys : k \in InHand
      BY <3>1, InHandMember
    <3>3. \A k \in b.keys : LaneOf[k.series] = b.lane
      BY <2>2, SealedLane
    <3>4. OnePerSeries(b.keys)
      BY <1>1, <3>2 DEF OnePerSeries
    <3>5. \A k \in b.keys : Past(k)'
      BY <1>1, <1>2, <3>2, PastKept
    <3>6. QED
      BY <3>1, <3>3, <3>4, <3>5 DEF GoodBatch, OnePerSeries
  <2>3. ASSUME NEW b, b = loop'.batch, NEW more, Sealed(b, more), AddSample \/ Finish
        PROVE  \A c \in LiveBatches' : GoodBatch(c)'
    BY <2>1, <2>2, <2>3 DEF Sealed
  <2>4. QED
    BY <2>1, <2>3, Ownership DEF Held, Cleaned, Freed, Opened
<1>6. QED
  BY <1>3, <1>4, <1>5 DEF KeysPast

LEMMA InitKeysPast ==
    ASSUME Init
    PROVE  KeysPast
<1>1. /\ Queued(queue) = {} /\ loop.removed = {} /\ loop.batch = None /\ loop.sample = None
      /\ loop.builders = NoBuilders /\ loop.page = <<>> /\ stopping.remaining = {}
      /\ received = {} /\ \A l \in Lanes : worker[l].batch = None
  BY InitQueueEmpty, IdleLoopType DEF Init, IdleWorker
<1>2. 1..Len(<<>>) = {}
  OBVIOUS
<1>3. LiveBatches = {} /\ InHand = {}
  BY <1>1, <1>2, LiveMember, InHandMember, NothingOpen
<1>4. QED
  BY <1>1, <1>3 DEF KeysPast, OnePerSeries

-----------------------------------------------------------------------------
(* What counts as published has been received.                             *)

LEMMA AckingReceivedStep ==
    ASSUME Shape, AckingReceived, [Next]_vars
    PROVE  AckingReceived'
<1>1. received \subseteq received'
  BY ReceivedGrows
<1>2. ASSUME NEW l \in Lanes, WorkerStep(l), worker'[l].pc = "acking"
      PROVE  worker'[l].batch.keys \subseteq received'
  <2>1. \E outcome \in Outcomes : Attempt(l, outcome)
    BY <1>2, WorkerMoves DEF WorkerStep
  <2>2. PICK outcome \in Outcomes : Attempt(l, outcome)
    BY <2>1
  <2>3. outcome = "delivered" /\ worker'[l].batch = worker[l].batch
    BY <1>2, <2>2, WorkerMoves
  <2>4. received' = received \cup worker[l].batch.keys
    BY <2>2, <2>3 DEF Attempt
  <2>5. QED
    BY <2>3, <2>4
<1>3. ASSUME NEW k \in Lanes, worker'[k] = worker[k], worker'[k].pc = "acking"
      PROVE  worker'[k].batch.keys \subseteq received'
  BY <1>1, <1>3 DEF AckingReceived
<1>4. ASSUME NEW l \in Lanes, WorkerStep(l) PROVE AckingReceived'
  BY <1>2, <1>3, <1>4, OtherWorkers DEF AckingReceived
<1>5. worker' = worker => AckingReceived'
  BY <1>3 DEF AckingReceived
<1>6. QED
  BY <1>4, <1>5, ValueStoreFrame, SlotFrame, DrainFrame DEF Next, Cancel, StartSlot, Stop, vars

\* A stored value stays as it is, is written anew, or is acked.
LEMMA StoreMoves ==
    ASSUME Shape, [Next]_vars, NEW i \in Items, store'[i] # None
    PROVE  \/ store'[i] = store[i]
           \/ store'[i].published = 0 /\ store'[i].publishedAt = 0
           \/ \E l \in Lanes : Ack(l)
<1> DEFINE Goal == \/ store'[i] = store[i]
                   \/ store'[i].published = 0 /\ store'[i].publishedAt = 0
                   \/ \E l \in Lanes : Ack(l)
<1>1. ASSUME NEW j \in Items, NEW policy, WriteValue(j, policy) PROVE Goal
  <2> DEFINE new == [version |-> versions + 1, policy |-> policy, published |-> 0,
                     publishedAt |-> 0,
                     sequence |-> IF store[j] = None THEN versions + 1 ELSE store[j].sequence]
  <2>1. store' = [store EXCEPT ![j] = new]
    BY <1>1 DEF WriteValue
  <2>2. new.published = 0 /\ new.publishedAt = 0
    OBVIOUS
  <2> HIDE DEF new
  <2>3. store'[i] = IF i = j THEN new ELSE store[i]
    BY <2>1 DEF Shape, StoreShape
  <2>4. QED
    BY <2>2, <2>3
<1>2. ASSUME NEW j \in Items, DropValue(j) PROVE Goal
  BY <1>2 DEF DropValue, Shape, StoreShape
<1>3. ASSUME NEW l \in Lanes, WorkerStep(l) PROVE Goal
  BY <1>3 DEF WorkerStep, Pop, PopEmpty, Block, Wake, Attempt, Backoff, ReleaseSent,
     WorkerDone
<1>4. store' = store => Goal
  OBVIOUS
<1> HIDE DEF Goal
<1>5. ValueStore => Goal
  BY <1>1, <1>2 DEF ValueStore
<1>6. SlotStep \/ DrainStep \/ Cancel \/ Stop \/ UNCHANGED vars => Goal
  BY <1>4, SlotFrame, DrainFrame DEF Cancel, Stop, vars
<1>7. (\E slot \in Slots, at \in 1..MaxCycle : StartSlot(slot, at)) => Goal
  BY <1>4 DEF StartSlot
<1>8. Goal
  BY <1>3, <1>5, <1>6, <1>7 DEF Next
<1>9. QED
  BY <1>8 DEF Goal

LEMMA KeyIs ==
    ASSUME NEW k \in Key
    PROVE  k = [series |-> k.series, version |-> k.version, ts |-> k.ts]
BY DEF Key

LEMMA AckedWasReceivedStep ==
    ASSUME Shape, KeysPast, AckingReceived, AckedWasReceived, [Next]_vars
    PROVE  AckedWasReceived'
<1>1. received \subseteq received'
  BY ReceivedGrows
<1> DEFINE Sent(i, v) ==
      /\ v.published # 0 => [series |-> i, version |-> v.version, ts |-> 0] \in received
      /\ v.publishedAt # 0 =>
           [series |-> i, version |-> v.version, ts |-> v.publishedAt] \in received
<1>2. \A i \in Items : store[i] # None => Sent(i, store[i])
  BY DEF AckedWasReceived
<1>3. ASSUME NEW i \in Items, store'[i] # None, NEW l \in Lanes, Ack(l)
      PROVE  Sent(i, store'[i])
  <2>1. CASE store'[i] = store[i]
    BY <1>2, <1>3, <2>1
  <2>2. CASE \E key \in worker[l].batch.keys :
                /\ key \in Key /\ key.series = i
                /\ store[i] # None /\ store'[i] = Acked(i, key)
    <3>1. PICK key \in worker[l].batch.keys :
                /\ key \in Key /\ key.series = i
                /\ store[i] # None /\ store'[i] = Acked(i, key)
      BY <2>2
    <3>2. key \in received
      BY <1>3, <3>1, WorkerMoves DEF AckingReceived
    <3>3. Past(key)
      BY <3>2 DEF KeysPast
    <3>4. key.version = store[i].version => (store[i].policy = "source" => key.ts = 0)
      BY <3>1, <3>3 DEF Past, Policy
    <3>5. key = [series |-> i, version |-> key.version, ts |-> key.ts]
      BY <3>1, KeyIs
    <3>6. store[i] \in StoredValue
      BY <3>1 DEF Shape, StoreShape
    <3>7. Sent(i, store[i])
      BY <1>2, <3>1
    <3>8. CASE store[i].version # key.version
      BY <3>1, <3>7, <3>8 DEF Acked
    <3>9. CASE store[i].version = key.version
      <4> DEFINE v == store'[i]
      <4>1. /\ v.version = key.version
            /\ v.published = IF store[i].policy = "source" THEN key.version
                                                           ELSE store[i].published
            /\ v.publishedAt = IF key.ts > store[i].publishedAt THEN key.ts
                                                                ELSE store[i].publishedAt
        BY <3>1, <3>6, <3>9 DEF Acked, StoredValue
      <4> HIDE DEF v
      <4>2. v.published # 0 => [series |-> i, version |-> v.version, ts |-> 0] \in received
        BY <3>2, <3>4, <3>5, <3>7, <3>9, <4>1
      <4>3. v.publishedAt # 0 =>
              [series |-> i, version |-> v.version, ts |-> v.publishedAt] \in received
        BY <3>2, <3>5, <3>7, <3>9, <4>1
      <4>4. QED
        BY <4>2, <4>3 DEF v
    <3>10. QED
      BY <3>8, <3>9
  <2>3. QED
    BY <1>3, <2>1, <2>2, AckStore
<1>4. ASSUME NEW i \in Items, store'[i] # None
      PROVE  Sent(i, store'[i])
  BY <1>2, <1>3, <1>4, StoreMoves
<1>5. QED
  BY <1>1, <1>4 DEF AckedWasReceived

\* An ack counts for the generation, and for a cycle value the cycle, that the
\* endpoint answered for: one that comes after ApplyBatch has replaced the value
\* changes nothing (AckPublished of value_cache.go), so no value the endpoint has
\* not taken is ever skipped as published.
THEOREM PublisherAcked == Spec => []AckedWasReceived
<1> DEFINE IInv == /\ Shape /\ OnePlace /\ ReservationsOwned /\ KeysPast
                   /\ AckingReceived /\ AckedWasReceived
<1>1. IInv /\ [Next]_vars => IInv'
  BY ShapeStep, OnePlaceStep, OwnedStep, KeysPastStep, AckingReceivedStep,
     AckedWasReceivedStep
<1>2. Init => IInv
  <2>1. Init => AckingReceived /\ AckedWasReceived
    BY DEF Init, IdleWorker, AckingReceived, AckedWasReceived
  <2>2. QED
    BY <2>1, InitShape, InitOwned, InitKeysPast
<1>3. QED
  BY <1>1, <1>2, PTL DEF Spec

-----------------------------------------------------------------------------
(* First in, first out.                                                    *)

LEMMA BeforeShrinks ==
    ASSUME NEW A, NEW B, Before(A, B), NEW C, NEW D,
           \A c \in C : c \in A, \A d \in D : d \in B
    PROVE  Before(C, D)
BY DEF Before

LEMMA BeforeItself ==
    ASSUME NEW A, NEW B, NEW H, H \subseteq Key, OnePerSeries(H),
           \A a \in A : a \in H, \A b \in B : b \in H
    PROVE  Before(A, B)
<1>1. ASSUME NEW a \in A, NEW b \in B, a.series = b.series
      PROVE  NotBefore(b, a)
  <2>1. a = b
    BY <1>1 DEF OnePerSeries
  <2>2. b \in Key
    OBVIOUS
  <2>3. b.ts \in Nat /\ b.version \in Nat
    BY <2>2, ConstantFacts DEF Key
  <2>4. QED
    BY <2>1, <2>3 DEF NotBefore
<1>2. QED
  BY <1>1 DEF Before

LEMMA LaneShrinks ==
    ASSUME NEW R, NEW W, NEW s, NEW H, LaneOrdered(R, W, s, H),
           NEW V, NEW G, \A k \in V : k \in W, \A k \in G : k \in H
    PROVE  LaneOrdered(R, V, s, G)
<1>1. Before(R, V) /\ Before(V, G)
  BY BeforeShrinks DEF LaneOrdered
<1>2. \A n \in 1..Len(s) : Before(R, s[n].keys) /\ Before(V, s[n].keys) /\ Before(s[n].keys, G)
  BY BeforeShrinks DEF LaneOrdered
<1>3. QED
  BY <1>1, <1>2 DEF LaneOrdered

LEMMA LaneCoalesced ==
    ASSUME NEW R, NEW W, NEW s, NEW H, LaneOrdered(R, W, s, H),
           NEW K, \A n \in K : n \in 1..Len(s), NEW r, IsSublist(s, K, r)
    PROVE  LaneOrdered(R, W, r, H)
<1>1. \A m \in 1..Len(r) : \E n \in K : r[m] = s[n]
  BY DEF IsSublist
<1>2. \A a, b \in 1..Len(r) : a < b => \E i, j \in K : i < j /\ r[a] = s[i] /\ r[b] = s[j]
  BY DEF IsSublist
<1>3. ASSUME NEW a \in 1..Len(r), NEW b \in 1..Len(r), a < b
      PROVE  Before(r[a].keys, r[b].keys)
  <2>1. PICK i, j \in K : i < j /\ r[a] = s[i] /\ r[b] = s[j]
    BY <1>2, <1>3
  <2>2. QED
    BY <2>1 DEF LaneOrdered
<1>4. ASSUME NEW a \in 1..Len(r)
      PROVE  Before(R, r[a].keys) /\ Before(W, r[a].keys) /\ Before(r[a].keys, H)
  BY <1>1 DEF LaneOrdered
<1>5. QED
  BY <1>3, <1>4 DEF LaneOrdered

LEMMA LanePopped ==
    ASSUME NEW R, NEW W, NEW s \in Seq(Batch), s # <<>>, NEW H, LaneOrdered(R, W, s, H)
    PROVE  LaneOrdered(R, Head(s).keys, Tail(s), H)
<1>1. /\ Head(s) = s[1] /\ Len(s) \in Nat /\ 1 <= Len(s) /\ Len(Tail(s)) = Len(s) - 1
      /\ \A n \in 1..Len(Tail(s)) : n + 1 \in 1..Len(s) /\ Tail(s)[n] = s[n + 1]
  BY TailFacts
<1>2. 1 \in 1..Len(s)
  BY <1>1
<1>3. Before(R, Head(s).keys) /\ Before(Head(s).keys, H)
  BY <1>1, <1>2 DEF LaneOrdered
<1>4. ASSUME NEW n \in 1..Len(Tail(s))
      PROVE  /\ Before(R, Tail(s)[n].keys) /\ Before(Head(s).keys, Tail(s)[n].keys)
             /\ Before(Tail(s)[n].keys, H)
  <2>1. n + 1 \in 1..Len(s) /\ 1 < n + 1 /\ Tail(s)[n] = s[n + 1]
    BY <1>1
  <2>2. QED
    BY <1>1, <1>2, <2>1 DEF LaneOrdered
<1>5. ASSUME NEW m \in 1..Len(Tail(s)), NEW n \in 1..Len(Tail(s)), m < n
      PROVE  Before(Tail(s)[m].keys, Tail(s)[n].keys)
  <2>1. /\ m + 1 \in 1..Len(s) /\ n + 1 \in 1..Len(s) /\ m + 1 < n + 1
        /\ Tail(s)[m] = s[m + 1] /\ Tail(s)[n] = s[n + 1]
    BY <1>1, <1>5
  <2>2. QED
    BY <2>1 DEF LaneOrdered
<1>6. QED
  BY <1>3, <1>4, <1>5 DEF LaneOrdered

LEMMA LaneAppended ==
    ASSUME NEW R, NEW W, NEW s \in Seq(Batch), NEW H, H \subseteq Key, OnePerSeries(H),
           LaneOrdered(R, W, s, H), Before(R, H),
           NEW b \in Batch, \A k \in b.keys : k \in H
    PROVE  LaneOrdered(R, W, Append(s, b), H)
<1> DEFINE r == Append(s, b)
<1>1. /\ Len(s) \in Nat /\ Len(r) = Len(s) + 1 /\ r[Len(s) + 1] = b
      /\ \A n \in 1..Len(s) : r[n] = s[n]
      /\ \A n \in 1..Len(r) : n = Len(s) + 1 \/ n \in 1..Len(s)
  BY AppendFacts
<1> HIDE DEF r
<1>2. Before(R, b.keys) /\ Before(W, b.keys)
  BY BeforeShrinks DEF LaneOrdered
<1>3. Before(b.keys, H)
  BY BeforeItself
<1>4. ASSUME NEW n \in 1..Len(r)
      PROVE  Before(R, r[n].keys) /\ Before(W, r[n].keys) /\ Before(r[n].keys, H)
  BY <1>1, <1>2, <1>3 DEF LaneOrdered
<1>5. ASSUME NEW m \in 1..Len(r), NEW n \in 1..Len(r), m < n
      PROVE  Before(r[m].keys, r[n].keys)
  <2>1. m \in 1..Len(s) /\ r[m] = s[m]
    BY <1>1, <1>5
  <2>2. CASE n \in 1..Len(s)
    BY <1>1, <1>5, <2>1, <2>2 DEF LaneOrdered
  <2>3. CASE n = Len(s) + 1
    <3>1. Before(s[m].keys, H)
      BY <2>1 DEF LaneOrdered
    <3>2. Before(s[m].keys, b.keys)
      BY <3>1, BeforeShrinks
    <3>3. QED
      BY <1>1, <2>1, <2>3, <3>2
  <2>4. QED
    BY <1>1, <2>2, <2>3
<1>6. LaneOrdered(R, W, r, H)
  BY <1>4, <1>5 DEF LaneOrdered
<1>7. QED
  BY <1>6 DEF r

LEMMA LaneReceives ==
    ASSUME NEW R, NEW W, NEW s, NEW H, LaneOrdered(R, W, s, H),
           NEW X, Before(X, W), \A n \in 1..Len(s) : Before(X, s[n].keys)
    PROVE  LaneOrdered(R \cup X, W, s, H)
BY DEF LaneOrdered, Before

LEMMA LaneRead ==
    ASSUME NEW R, NEW W, NEW s, NEW H, LaneOrdered(R, W, s, H),
           NEW G, Before(W, G), \A n \in 1..Len(s) : Before(s[n].keys, G)
    PROVE  LaneOrdered(R, W, s, G)
BY DEF LaneOrdered

\* A sample of a new page is not older than any that is known of its series.
LEMMA NewPageAfter ==
    ASSUME Shape, HostPage \/ ItemPage, NEW A, A \subseteq Key, \A k \in A : Past(k)
    PROVE  Before(A, InHand')
<1>1. loop.pc = "paging"
  BY PageMoves
<1>2. loop.slot \in Slots /\ loop.cycle = cycles[loop.slot] /\ loop.cycle \in Nat
  BY <1>1 DEF Shape, LoopShape, LoopRecord
<1>3. \A i \in Items : store[i] # None => store[i].version \in Nat
  BY DEF Shape, StoreShape
<1>4. ASSUME NEW a \in A, NEW k \in InHand', a.series = k.series
      PROVE  NotBefore(k, a)
  <2>1. a \in Key /\ Past(a)
    BY <1>4
  <2>2. a.ts \in Nat /\ a.version \in Nat
    BY <2>1, ConstantFacts DEF Key
  <2>3. /\ k \in Key /\ SlotOf[k.series] = loop.slot
        /\ k.series \in Items =>
             /\ store[k.series] # None /\ k.version = store[k.series].version
             /\ k.ts = IF store[k.series].policy = "source" THEN 0 ELSE loop.cycle
        /\ k.series \notin Items => k.version = 1 /\ k.ts = loop.cycle
    BY <1>4, NewPage
  <2>4. a.ts <= loop.cycle
    BY <1>2, <1>4, <2>1, <2>3 DEF Past
  <2>5. CASE k.series \in Items
    <3>1. a.version <= k.version /\ k.version \in Nat
      BY <1>3, <1>4, <2>1, <2>3, <2>5 DEF Past
    <3>2. CASE store[k.series].policy = "source"
      <4>1. k.ts = 0 /\ (Policy(a) = Policy(k) => a.ts = 0)
        BY <2>3, <2>5, <3>2 DEF Policy
      <4>2. QED
        BY <2>2, <3>1, <4>1 DEF NotBefore
    <3>3. CASE store[k.series].policy # "source"
      <4>1. k.ts = loop.cycle
        BY <2>3, <2>5, <3>3
      <4>2. QED
        BY <1>2, <2>2, <2>4, <3>1, <4>1 DEF NotBefore
    <3>4. QED
      BY <3>2, <3>3
  <2>6. CASE k.series \notin Items
    <3>1. a.version = 1 /\ k.version = 1 /\ k.ts = loop.cycle
      BY <1>4, <2>1, <2>3, <2>6 DEF Past
    <3>2. QED
      BY <1>2, <2>2, <2>4, <3>1 DEF NotBefore
  <2>7. QED
    BY <2>5, <2>6
<1>5. QED
  BY <1>4 DEF Before

LEMMA LaneKnownQueue ==
    ASSUME Shape, KeysPast, NEW l \in Lanes
    PROVE  \A n \in 1..Len(queue.lanes[l]) : \A k \in queue.lanes[l][n].keys :
             k \in Key /\ Past(k) /\ LaneOf[k.series] = l
<1>1. ASSUME NEW n \in 1..Len(queue.lanes[l])
      PROVE  \A k \in queue.lanes[l][n].keys :
               k \in Key /\ Past(k) /\ LaneOf[k.series] = l
  <2> DEFINE b == queue.lanes[l][n]
  <2>1. b \in Queued(queue) /\ b.lane = l
    BY DEF Queued, BatchesIn, Shape, QueueShape
  <2>2. b \in Batch /\ GoodBatch(b)
    BY <2>1, LiveMember, LiveType DEF KeysPast
  <2> HIDE DEF b
  <2>3. \A k \in b.keys : k \in Key /\ Past(k) /\ LaneOf[k.series] = l
    BY <2>1, <2>2 DEF GoodBatch, Batch
  <2>4. QED
    BY <2>3 DEF b
<1>2. QED
  BY <1>1

\* What the places of a lane hold is known, and belongs to the lane.
LEMMA LaneKnown ==
    ASSUME Shape, KeysPast, NEW l \in Lanes
    PROVE  /\ \A k \in WorkerKeys(l) : k \in Key /\ Past(k) /\ LaneOf[k.series] = l
           /\ OnePerSeries(WorkerKeys(l))
           /\ \A n \in 1..Len(queue.lanes[l]) : \A k \in queue.lanes[l][n].keys :
                k \in Key /\ Past(k) /\ LaneOf[k.series] = l
<1>1. /\ \A b \in LiveBatches : b \in Batch /\ GoodBatch(b)
  BY LiveType DEF KeysPast
<1>2. CASE worker[l].batch # None
  <2>1. worker[l].batch \in LiveBatches /\ worker[l].batch.lane = l
    BY <1>2, LiveMember DEF Shape, WorkerShape
  <2>2. QED
    BY <1>1, <1>2, <2>1, LaneKnownQueue DEF WorkerKeys, GoodBatch, Batch
<1>3. CASE worker[l].batch = None
  BY <1>3, LaneKnownQueue DEF WorkerKeys, OnePerSeries
<1>4. QED
  BY <1>2, <1>3

\* Nothing new is received, queued or read.
LEMMA OrderKept ==
    ASSUME FirstInFirstOut, received' = received, InHand' \subseteq InHand,
           \A l \in Lanes : queue'.lanes[l] = queue.lanes[l],
           \A l \in Lanes : \A k \in WorkerKeys(l)' : k \in WorkerKeys(l)
    PROVE  FirstInFirstOut'
<1>1. Before(received', InHand')
  BY BeforeShrinks DEF FirstInFirstOut
<1>2. ASSUME NEW l \in Lanes
      PROVE  LaneOrdered(received', WorkerKeys(l)', queue'.lanes[l], InHand')
  <2>1. LaneOrdered(received, WorkerKeys(l), queue.lanes[l], InHand)
    BY DEF FirstInFirstOut
  <2>2. LaneOrdered(received, WorkerKeys(l)', queue.lanes[l], InHand')
    BY <2>1, LaneShrinks
  <2>3. QED
    BY <2>2
<1>3. QED
  BY <1>1, <1>2 DEF FirstInFirstOut

LEMMA OrderWorker ==
    ASSUME Shape, KeysPast, FirstInFirstOut, NEW l \in Lanes, WorkerStep(l)
    PROVE  FirstInFirstOut'
<1>1. /\ UNCHANGED <<loop, stopping>>
      /\ \A k \in Lanes : k # l => worker'[k] = worker[k]
  BY WorkerFrame, OtherWorkers
<1>2. InHand' = InHand
  BY <1>1 DEF InHand, OpenKeys, PageKeys
<1>3. \A k \in Lanes : k # l => WorkerKeys(k)' = WorkerKeys(k)
  BY <1>1 DEF WorkerKeys
<1>4. /\ Before(received, InHand)
      /\ \A k \in Lanes : LaneOrdered(received, WorkerKeys(k), queue.lanes[k], InHand)
  BY DEF FirstInFirstOut
<1>5. CASE Pop(l)
  <2> DEFINE s == queue.lanes[l]
  <2>1. /\ s # <<>> /\ s \in Seq(Batch) /\ Head(s) # None /\ queue'.lanes[l] = Tail(s)
        /\ \A k \in Lanes : k # l => queue'.lanes[k] = queue.lanes[k]
    BY <1>5, PopStep
  <2>2. received' = received
    BY <1>5 DEF Pop
  <2>3. WorkerKeys(l)' = Head(s).keys
    BY <1>5, <2>1, WorkerMoves DEF WorkerKeys
  <2>4. LaneOrdered(received, WorkerKeys(l), s, InHand)
    BY <1>4
  <2> HIDE DEF s
  <2>5. LaneOrdered(received, Head(s).keys, Tail(s), InHand)
    BY <2>1, <2>4, LanePopped
  <2>6. LaneOrdered(received', WorkerKeys(l)', queue'.lanes[l], InHand')
    BY <1>2, <2>1, <2>2, <2>3, <2>5
  <2>7. ASSUME NEW k \in Lanes, k # l
        PROVE  LaneOrdered(received', WorkerKeys(k)', queue'.lanes[k], InHand')
    <3>1. LaneOrdered(received, WorkerKeys(k), queue.lanes[k], InHand)
      BY <1>4
    <3>2. QED
      BY <1>2, <1>3, <2>1, <2>2, <2>7, <3>1
  <2>8. Before(received', InHand')
    BY <1>2, <1>4, <2>2
  <2>9. QED
    BY <2>6, <2>7, <2>8 DEF FirstInFirstOut
<1>6. ASSUME NEW outcome \in Outcomes, Attempt(l, outcome)
      PROVE  FirstInFirstOut'
  <2>1. /\ queue' = queue /\ worker[l].batch # None
        /\ WorkerKeys(l)' = WorkerKeys(l)
        /\ received' = received \/ received' = received \cup WorkerKeys(l)
    <3>1. worker[l].pc = "sending" /\ worker'[l].batch = worker[l].batch
      BY <1>6, WorkerMoves
    <3>2. worker[l].batch # None
      BY <3>1, WorkerHolds DEF Holding
    <3>3. /\ queue' = queue
          /\ received' = received \/ received' = received \cup worker[l].batch.keys
      BY <1>6 DEF Attempt
    <3>4. QED
      BY <3>1, <3>2, <3>3 DEF WorkerKeys
  <2>2. \A k \in Lanes : WorkerKeys(k)' = WorkerKeys(k)
    BY <1>3, <2>1
  <2>3. CASE received' = received
    BY <1>2, <2>1, <2>2, <2>3, OrderKept
  <2>4. CASE received' = received \cup WorkerKeys(l)
    <3> DEFINE X == WorkerKeys(l)
    <3>1. /\ Before(X, InHand) /\ \A n \in 1..Len(queue.lanes[l]) : Before(X, queue.lanes[l][n].keys)
      BY <1>4 DEF LaneOrdered
    <3>2. Before(X, X)
      <4>1. X \subseteq Key /\ OnePerSeries(X)
        BY LaneKnown
      <4> HIDE DEF X
      <4>2. QED
        BY <4>1, BeforeItself
    <3>3. ASSUME NEW k \in Lanes, k # l
          PROVE  /\ Before(X, WorkerKeys(k))
                 /\ \A n \in 1..Len(queue.lanes[k]) : Before(X, queue.lanes[k][n].keys)
      <4>1. \A a \in X : LaneOf[a.series] = l
        BY LaneKnown
      <4>2. /\ \A a \in WorkerKeys(k) : LaneOf[a.series] = k
            /\ \A n \in 1..Len(queue.lanes[k]) : \A a \in queue.lanes[k][n].keys :
                  LaneOf[a.series] = k
        BY LaneKnown
      <4> HIDE DEF X
      <4>3. QED
        BY <3>3, <4>1, <4>2 DEF Before
    <3>4. Before(received \cup X, InHand)
      BY <1>4, <3>1 DEF Before
    <3> HIDE DEF X
    <3>5. ASSUME NEW k \in Lanes
          PROVE  LaneOrdered(received \cup X, WorkerKeys(k), queue.lanes[k], InHand)
      <4>1. LaneOrdered(received, WorkerKeys(k), queue.lanes[k], InHand)
        BY <1>4
      <4>2. /\ Before(X, WorkerKeys(k))
            /\ \A n \in 1..Len(queue.lanes[k]) : Before(X, queue.lanes[k][n].keys)
        <5>1. CASE k = l
          BY <3>1, <3>2, <5>1 DEF X
        <5>2. CASE k # l
          BY <3>3, <5>2
        <5>3. QED
          BY <5>1, <5>2
      <4>3. QED
        BY <4>1, <4>2, LaneReceives
    <3>6. received' = received \cup X
      BY <2>4 DEF X
    <3>7. Before(received', InHand')
      BY <1>2, <3>4, <3>6
    <3>8. \A k \in Lanes : LaneOrdered(received', WorkerKeys(k)', queue'.lanes[k], InHand')
      BY <1>2, <2>1, <2>2, <3>5, <3>6
    <3>9. QED
      BY <3>7, <3>8 DEF FirstInFirstOut
  <2>5. QED
    BY <2>1, <2>3, <2>4
<1>7. CASE ~Pop(l) /\ ~(\E outcome \in Outcomes : Attempt(l, outcome))
  <2>1. /\ queue' = queue /\ received' = received
        /\ worker'[l].batch = worker[l].batch \/ worker'[l].batch = None
    BY <1>7, WorkerMoves DEF WorkerStep, PopEmpty, Block, Wake, Backoff, Ack, ReleaseSent,
       WorkerDone
  <2>2. \A k \in WorkerKeys(l)' : k \in WorkerKeys(l)
    BY <2>1 DEF WorkerKeys
  <2>3. \A j \in Lanes : \A k \in WorkerKeys(j)' : k \in WorkerKeys(j)
    BY <1>3, <2>2
  <2>4. QED
    BY <1>2, <2>1, <2>3, OrderKept
<1>8. QED
  BY <1>5, <1>6, <1>7

LEMMA OrderQueue ==
    ASSUME Shape, KeysPast, FirstInFirstOut, [Next]_vars,
           \/ BeginCycle /\ IsCurrent(queue, loop.slot, loop.cycle)
           \/ TryEnqueue /\ Admission(queue, loop.batch) = "accepted"
           \/ Stop
    PROVE  FirstInFirstOut'
<1>1. /\ Before(received, InHand)
      /\ \A l \in Lanes : LaneOrdered(received, WorkerKeys(l), queue.lanes[l], InHand)
  BY DEF FirstInFirstOut
<1>2. worker' = worker /\ received' = received
  BY DEF BeginCycle, TryEnqueue, Stop
<1>3. \A l \in Lanes : WorkerKeys(l)' = WorkerKeys(l)
  BY <1>2 DEF WorkerKeys
<1>4. ASSUME \A l \in Lanes :
               LaneOrdered(received, WorkerKeys(l), queue'.lanes[l], InHand),
             \A k \in InHand' : k \in InHand
      PROVE  FirstInFirstOut'
  <2>1. Before(received', InHand')
    BY <1>1, <1>2, <1>4, BeforeShrinks
  <2>2. ASSUME NEW l \in Lanes
        PROVE  LaneOrdered(received', WorkerKeys(l)', queue'.lanes[l], InHand')
    <3>1. LaneOrdered(received, WorkerKeys(l), queue'.lanes[l], InHand')
      BY <1>4, LaneShrinks
    <3>2. QED
      BY <1>2, <1>3, <3>1
  <2>3. QED
    BY <2>1, <2>2 DEF FirstInFirstOut
<1>5. CASE BeginCycle /\ IsCurrent(queue, loop.slot, loop.cycle)
  <2>1. ASSUME NEW l \in Lanes
        PROVE  LaneOrdered(received, WorkerKeys(l), queue'.lanes[l], InHand)
    <3> DEFINE K == KeptAt(queue, loop.slot, loop.cycle, l)
    <3>1. IsSublist(queue.lanes[l], K, queue'.lanes[l])
      BY <1>5, BeginStep
    <3>2. \A n \in K : n \in 1..Len(queue.lanes[l])
      BY DEF KeptAt
    <3> HIDE DEF K
    <3>3. QED
      BY <1>1, <3>1, <3>2, LaneCoalesced
  <2>2. \A k \in InHand' : k \in InHand
    <3>1. ~HostPage /\ ~ItemPage
      BY <1>5 DEF BeginCycle, HostPage, ItemPage
    <3>2. QED
      BY <3>1, InHandShrinks
  <2>3. QED
    BY <1>4, <2>1, <2>2
<1>6. CASE TryEnqueue /\ Admission(queue, loop.batch) = "accepted"
  <2> DEFINE b == loop.batch
             j == b.lane
  <2>1. /\ b \in Batch /\ b # None /\ j \in Lanes /\ queue.lanes[j] \in Seq(Batch)
        /\ queue'.lanes[j] = Append(queue.lanes[j], b)
        /\ \A l \in Lanes : l # j => queue'.lanes[l] = queue.lanes[l]
    BY <1>6, EnqueueStep
  <2>2. \A k \in b.keys : k \in InHand
    BY <2>1, InHandMember
  <2>3. InHand \subseteq Key /\ OnePerSeries(InHand)
    BY InHandType DEF KeysPast
  <2> HIDE DEF b, j
  <2>4. LaneOrdered(received, WorkerKeys(j), queue'.lanes[j], InHand)
    <3>1. LaneOrdered(received, WorkerKeys(j), queue.lanes[j], InHand)
      BY <1>1, <2>1
    <3>2. LaneOrdered(received, WorkerKeys(j), Append(queue.lanes[j], b), InHand)
      BY <1>1, <2>1, <2>2, <2>3, <3>1, LaneAppended
    <3>3. QED
      BY <2>1, <3>2
  <2>5. ASSUME NEW l \in Lanes, l # j
        PROVE  LaneOrdered(received, WorkerKeys(l), queue'.lanes[l], InHand)
    <3>1. LaneOrdered(received, WorkerKeys(l), queue.lanes[l], InHand)
      BY <1>1
    <3>2. QED
      BY <2>1, <2>5, <3>1
  <2>6. \A k \in InHand' : k \in InHand
    <3>1. ~HostPage /\ ~ItemPage
      BY <1>6 DEF TryEnqueue, HostPage, ItemPage
    <3>2. QED
      BY <3>1, InHandShrinks
  <2>7. QED
    BY <1>4, <2>4, <2>5, <2>6
<1>7. CASE Stop
  <2>1. \A l \in Lanes : queue'.lanes[l] = <<>>
    BY <1>7, StopQueue
  <2>2. 1..Len(<<>>) = {}
    OBVIOUS
  <2>3. ASSUME NEW l \in Lanes
        PROVE  LaneOrdered(received, WorkerKeys(l), queue'.lanes[l], InHand)
    <3>1. Before(received, WorkerKeys(l)) /\ Before(WorkerKeys(l), InHand)
      BY <1>1 DEF LaneOrdered
    <3>2. LaneOrdered(received, WorkerKeys(l), <<>>, InHand)
      BY <2>2, <3>1 DEF LaneOrdered
    <3>3. QED
      BY <2>1, <3>2
  <2>4. InHand' = InHand
    BY <1>7 DEF Stop, InHand, OpenKeys, PageKeys
  <2>5. QED
    BY <1>4, <2>3, <2>4
<1>8. QED
  BY <1>5, <1>6, <1>7

LEMMA OrderPage ==
    ASSUME Shape, KeysPast, FirstInFirstOut, HostPage \/ ItemPage
    PROVE  FirstInFirstOut'
<1>1. UNCHANGED <<queue, worker, received>>
  BY DEF HostPage, ItemPage
<1>2. Before(received, InHand')
  <2>1. received \subseteq Key /\ \A k \in received : Past(k)
    BY DEF Shape, KeysPast
  <2>2. QED
    BY <2>1, NewPageAfter
<1>3. ASSUME NEW l \in Lanes
      PROVE  LaneOrdered(received, WorkerKeys(l), queue.lanes[l], InHand')
  <2>1. Before(WorkerKeys(l), InHand')
    <3>1. WorkerKeys(l) \subseteq Key /\ \A k \in WorkerKeys(l) : Past(k)
      BY LaneKnown
    <3>2. QED
      BY <3>1, NewPageAfter
  <2>2. ASSUME NEW n \in 1..Len(queue.lanes[l])
        PROVE  Before(queue.lanes[l][n].keys, InHand')
    <3> DEFINE A == queue.lanes[l][n].keys
    <3>1. A \subseteq Key /\ \A k \in A : Past(k)
      BY LaneKnownQueue
    <3> HIDE DEF A
    <3>2. Before(A, InHand')
      BY <3>1, NewPageAfter
    <3>3. QED
      BY <3>2 DEF A
  <2>3. LaneOrdered(received, WorkerKeys(l), queue.lanes[l], InHand)
    BY DEF FirstInFirstOut
  <2>4. QED
    BY <2>1, <2>2, <2>3, LaneRead
<1>4. \A l \in Lanes : WorkerKeys(l)' = WorkerKeys(l)
  BY <1>1 DEF WorkerKeys
<1>5. Before(received', InHand')
  BY <1>1, <1>2
<1>6. \A l \in Lanes : LaneOrdered(received', WorkerKeys(l)', queue'.lanes[l], InHand')
  BY <1>1, <1>3, <1>4
<1>7. QED
  BY <1>5, <1>6 DEF FirstInFirstOut

LEMMA FirstInFirstOutStep ==
    ASSUME Shape, KeysPast, FirstInFirstOut, [Next]_vars
    PROVE  FirstInFirstOut'
<1>1. CASE HostPage \/ ItemPage
  BY <1>1, OrderPage
<1>2. ASSUME NEW l \in Lanes, WorkerStep(l) PROVE FirstInFirstOut'
  BY <1>2, OrderWorker
<1>3. CASE /\ ~HostPage /\ ~ItemPage /\ ~\E l \in Lanes : WorkerStep(l)
  <2>1. CASE \/ BeginCycle /\ IsCurrent(queue, loop.slot, loop.cycle)
             \/ TryEnqueue /\ Admission(queue, loop.batch) = "accepted"
             \/ Stop
    BY <2>1, OrderQueue
  <2>2. CASE ~(\/ BeginCycle /\ IsCurrent(queue, loop.slot, loop.cycle)
               \/ TryEnqueue /\ Admission(queue, loop.batch) = "accepted"
               \/ Stop)
    <3>1. queue' = queue
      <4>1. ~\E l \in Lanes : Pop(l)
        BY <1>3 DEF WorkerStep
      <4>2. QED
        BY <2>2, <4>1, QueueUntouched DEF QueueStep
    <3>2. worker' = worker /\ received' = received
      BY <1>3, ValueStoreFrame, SlotFrame, DrainFrame DEF Next, Cancel, StartSlot, Stop, vars
    <3>3. \A l \in Lanes : WorkerKeys(l)' = WorkerKeys(l)
      BY <3>2 DEF WorkerKeys
    <3>4. InHand' \subseteq InHand
      BY <1>3, InHandShrinks
    <3>5. QED
      BY <3>1, <3>2, <3>3, <3>4, OrderKept
  <2>3. QED
    BY <2>1, <2>2
<1>4. QED
  BY <1>1, <1>2, <1>3

LEMMA InitFirstInFirstOut ==
    ASSUME Init
    PROVE  FirstInFirstOut
<1>1. received = {} /\ \A l \in Lanes : queue.lanes[l] = <<>> /\ worker[l].batch = None
  BY InitQueueEmpty DEF Init, IdleWorker
<1>2. 1..Len(<<>>) = {}
  OBVIOUS
<1>3. \A l \in Lanes : WorkerKeys(l) = {}
  BY <1>1 DEF WorkerKeys
<1>4. LaneOrdered({}, {}, <<>>, InHand)
  BY <1>2 DEF LaneOrdered, Before
<1>5. Before(received, InHand)
  BY <1>1 DEF Before
<1>6. QED
  BY <1>1, <1>3, <1>4, <1>5 DEF FirstInFirstOut

\* Whatever is retried, read again, replaced or coalesced, however the clock steps
\* back and an item's delay is redefined, no attempt sends a sample of an older
\* generation than one the endpoint already has of the same series, nor of an older
\* cycle under the same policy: lanes are first in, first out, a series has one
\* lane (workerLaneForSeries) whatever the policy, and a page is never older than
\* what was read before.
THEOREM PublisherInOrder == Spec => []SeriesInOrder
<1> DEFINE IInv == Shape /\ OnePlace /\ ReservationsOwned /\ KeysPast /\ FirstInFirstOut
<1>1. IInv /\ [Next]_vars => IInv'
  BY ShapeStep, OnePlaceStep, OwnedStep, KeysPastStep, FirstInFirstOutStep
<1>2. Init => IInv
  BY InitShape, InitOwned, InitKeysPast, InitFirstInFirstOut
<1>3. IInv => SeriesInOrder
  <2>1. ASSUME Shape, FirstInFirstOut, NEW l \in Lanes, worker[l].pc = "sending",
               NEW key \in worker[l].batch.keys, NEW old \in received,
               old.series = key.series
        PROVE  NotBefore(key, old)
    <3>1. key \in WorkerKeys(l)
      BY <2>1, WorkerHolds DEF WorkerKeys, Holding
    <3>2. Before(received, WorkerKeys(l))
      BY <2>1 DEF FirstInFirstOut, LaneOrdered
    <3>3. QED
      BY <2>1, <3>1, <3>2 DEF Before
  <2>2. QED
    BY <2>1 DEF SeriesInOrder
<1>4. QED
  BY <1>1, <1>2, <1>3, PTL DEF Spec

-----------------------------------------------------------------------------
(* The counters.  Each term of ActivityExact has a name.                   *)
InQueue == Cardinality(Queued(queue))

Dropped == Cardinality(loop.removed)

Left == Cardinality(stopping.remaining)

Submitted == Count(loop.pc \in {"enqueueing", "refused"} /\ ~loop.owed)

BusyPc == {"sending", "backoff", "acking", "releasing", "done"}

Busy == {l \in Lanes : worker[l].pc \in BusyPc}

FiniteParts == IsFiniteSet(loop.removed) /\ IsFiniteSet(stopping.remaining)

\* What the loop, and everybody, has to answer for.
LoopCount == InQueue + Dropped + Submitted + Count(loop.owed)

LEMMA CountTypes ==
    ASSUME Shape, FiniteParts
    PROVE  /\ InQueue \in Nat /\ Dropped \in Nat /\ Left \in Nat
           /\ Submitted \in Nat /\ Count(loop.owed) \in Nat
           /\ Count(stopping.owed) \in Nat
           /\ LoopCount \in Nat /\ IsFiniteSet(Busy) /\ Cardinality(Busy) \in Nat
<1>1. /\ InQueue \in Nat /\ Dropped \in Nat /\ Left \in Nat
      /\ Submitted \in Nat /\ Count(loop.owed) \in Nat /\ Count(stopping.owed) \in Nat
  BY QueuedFinite, FS_CardinalityType
  DEF Shape, QueueShape, FiniteParts, InQueue, Dropped, Left, Submitted, Count
<1>2. IsFiniteSet(Busy) /\ Cardinality(Busy) \in Nat
  BY QueueAssumption, FS_Subset, FS_CardinalityType DEF Busy
<1>3. QED
  BY <1>1, <1>2 DEF LoopCount

LEMMA ActivityIs ==
    ASSUME Shape, FiniteParts
    PROVE  ActivityExact <=>
             pending = LoopCount + Left + Count(stopping.owed) + Cardinality(Busy)
<1>1. ActivityExact <=>
        pending = InQueue + Dropped + Left + Submitted + Count(loop.owed)
                  + Count(stopping.owed) + Cardinality(Busy)
  BY DEF ActivityExact, InQueue, Dropped, Left, Submitted, Busy, BusyPc
<1>2. QED
  BY <1>1, CountTypes DEF LoopCount

\* What the queue's operations do to the number of queued batches and to size.
LEMMA QueueCounts ==
    ASSUME Shape, OnePlace
    PROVE  /\ BeginCycle /\ IsCurrent(queue, loop.slot, loop.cycle) =>
                /\ IsFiniteSet(loop'.removed) /\ Cardinality(loop'.removed) \in Nat
                /\ InQueue' = InQueue - Cardinality(loop'.removed)
                /\ queue'.size = queue.size - Cardinality(loop'.removed)
           /\ TryEnqueue /\ Admission(queue, loop.batch) = "accepted" =>
                InQueue' = InQueue + 1 /\ queue'.size = queue.size + 1
                  /\ queue.size < Capacity
           /\ \A l \in Lanes : Pop(l) =>
                InQueue' = InQueue - 1 /\ queue'.size = queue.size - 1
           /\ Stop => InQueue' = 0 /\ queue'.size = 0
<1>1. IsFiniteSet(Queued(queue)) /\ InQueue \in Nat /\ queue.size \in Int
  BY QueuedFinite DEF Shape, QueueShape, InQueue
<1>2. ASSUME BeginCycle, IsCurrent(queue, loop.slot, loop.cycle)
      PROVE  /\ IsFiniteSet(loop'.removed) /\ Cardinality(loop'.removed) \in Nat
             /\ InQueue' = InQueue - Cardinality(loop'.removed)
             /\ queue'.size = queue.size - Cardinality(loop'.removed)
  <2> DEFINE Q == Queued(queue)
             R == RemovedBatches(queue, loop.slot, loop.cycle)
  <2>1. loop'.removed = R
    BY <1>2, BeginMoves DEF LoopIs
  <2>2. Queued(queue') = Q \ R /\ queue'.size = queue.size - Cardinality(R)
    BY <1>2, BeginStep DEF SizeWithout
  <2>3. R \in SUBSET Q
    BY DEF RemovedBatches
  <2> HIDE DEF Q, R
  <2>4. IsFiniteSet(R) /\ Cardinality(R) \in Nat
    BY <1>1, <2>3, FS_Subset, FS_CardinalityType DEF Q
  <2>5. Q \cap R = R
    BY <2>3
  <2>6. Cardinality(Q \ R) = Cardinality(Q) - Cardinality(R)
    BY <1>1, <2>5, FS_Difference DEF Q
  <2>7. QED
    BY <2>1, <2>2, <2>4, <2>6 DEF InQueue, Q
<1>3. ASSUME TryEnqueue, Admission(queue, loop.batch) = "accepted"
      PROVE  /\ InQueue' = InQueue + 1 /\ queue'.size = queue.size + 1
             /\ queue.size < Capacity
  <2>1. Queued(queue') = Queued(queue) \cup {loop.batch} /\ loop.batch \notin Queued(queue)
    BY <1>3, EnqueueQueued DEF OnePlace
  <2>2. Cardinality(Queued(queue) \cup {loop.batch}) = Cardinality(Queued(queue)) + 1
    BY <1>1, <2>1, FS_AddElement
  <2>3. QED
    BY <1>3, <2>1, <2>2, EnqueueStep DEF InQueue
<1>4. ASSUME NEW l \in Lanes, Pop(l)
      PROVE  InQueue' = InQueue - 1 /\ queue'.size = queue.size - 1
  <2> DEFINE b == Head(queue.lanes[l])
  <2>1. Queued(queue) = Queued(queue') \cup {b} /\ b \notin Queued(queue')
    BY <1>4, PopQueued, PopFresh
  <2> HIDE DEF b
  <2>2. Queued(queue') = Queued(queue) \ {b} /\ b \in Queued(queue)
    BY <2>1
  <2>3. Cardinality(Queued(queue) \ {b}) = Cardinality(Queued(queue)) - 1
    BY <1>1, <2>2, FS_RemoveElement
  <2>4. QED
    BY <1>4, <2>2, <2>3, PopStep DEF InQueue
<1>5. ASSUME Stop PROVE InQueue' = 0 /\ queue'.size = 0
  BY <1>5, StopQueue, FS_EmptySet DEF InQueue
<1>6. QED
  BY <1>2, <1>3, <1>4, <1>5

LEMMA SizeExactStep ==
    ASSUME Shape, OnePlace, SizeExact, [Next]_vars
    PROVE  SizeExact'
<1>1. /\ queue.size = InQueue /\ queue.size <= Capacity /\ InQueue \in Nat
      /\ Capacity \in Nat
  BY QueuedFinite, QueueAssumption DEF SizeExact, InQueue, Shape, QueueShape
<1>2. SUFFICES queue'.size = InQueue' /\ queue'.size <= Capacity
  BY DEF SizeExact, InQueue
<1>3. CASE QueueStep
  BY <1>1, <1>3, QueueCounts DEF QueueStep
<1>4. CASE ~QueueStep
  BY <1>1, <1>4, QueueUntouched DEF InQueue
<1>5. QED
  BY <1>3, <1>4

LEMMA FinitePartsStep ==
    ASSUME Shape, OnePlace, FiniteParts, [Next]_vars
    PROVE  FiniteParts'
<1>1. IsFiniteSet(loop.removed) /\ IsFiniteSet(stopping.remaining) /\ IsFiniteSet({})
  BY FS_EmptySet DEF FiniteParts
<1>2. \A b : IsFiniteSet(loop.removed \ {b}) /\ IsFiniteSet(stopping.remaining \ {b})
  BY <1>1, FS_RemoveElement
<1>3. IsFiniteSet(loop'.removed)
  <2>1. ASSUME SlotStep PROVE IsFiniteSet(loop'.removed)
    <3>1. CASE BeginCycle
      BY <1>1, <3>1, BeginMoves, QueueCounts DEF LoopIs, LoopIdle
    <3>2. CASE LoopDone \/ StartPaging \/ \E b \in loop.removed : ReleaseRemoved(b)
      <4>1. LoopDone => loop'.removed = loop.removed
        BY DroppingMoves DEF LoopIs
      <4>2. StartPaging => loop'.removed = {}
        BY DroppingMoves DEF LoopIs
      <4>3. \A b \in loop.removed : ReleaseRemoved(b) => loop'.removed = loop.removed \ {b}
        BY DroppingMoves DEF LoopIs
      <4>4. QED
        BY <1>1, <1>2, <3>2, <4>1, <4>2, <4>3
    <3>3. CASE HostPage \/ ItemPage \/ EndSlot \/ SkipSample \/ SkipReserved \/ HostsCancelled
      BY <1>1, <3>3, PageMoves DEF LoopIs, LoopIdle
    <3>4. CASE AddSample \/ Finish
      <4>1. AddSample => loop'.removed = {}
        BY AddMoves DEF LoopIs
      <4>2. Finish => loop'.removed = {}
        BY FinishMoves DEF LoopIs
      <4>3. QED
        BY <1>1, <3>4, <4>1, <4>2
    <3>5. CASE CountBatch \/ TryEnqueue \/ ReleaseRefused \/ Cleanup
      <4>1. loop'.removed = {}
        BY <3>5, SubmitMoves DEF LoopIs, LoopIdle
      <4>2. QED
        BY <1>1, <4>1
    <3>6. QED
      BY <2>1, <3>1, <3>2, <3>3, <3>4, <3>5 DEF SlotStep
  <2>2. ASSUME NEW slot \in Slots, NEW at \in 1..MaxCycle, StartSlot(slot, at)
        PROVE  IsFiniteSet(loop'.removed)
    BY <1>1, <2>2, StartSlotMoves DEF LoopIs
  <2>3. QED
    BY <1>1, <2>1, <2>2, ValueStoreFrame, WorkerFrame, DrainFrame
    DEF Next, Cancel, Stop, vars
<1>4. IsFiniteSet(stopping'.remaining)
  <2>1. CASE Stop
    <3>1. stopping'.remaining = Queued(queue)
      BY <2>1, StopQueue
    <3>2. QED
      BY <3>1, QueuedFinite DEF Shape, QueueShape
  <2>2. CASE DrainStep
    <3>1. \/ stopping'.remaining = stopping.remaining
          \/ \E b : stopping'.remaining = stopping.remaining \ {b}
      BY <2>2 DEF DrainStep, ReleaseRemaining, StopDone, Stopped, Shape, StopShape
    <3>2. QED
      BY <1>1, <1>2, <3>1
  <2>3. CASE stopping' = stopping
    BY <1>1, <2>3
  <2>4. QED
    BY <2>1, <2>2, <2>3, ValueStoreFrame, SlotFrame, WorkerFrame
    DEF Next, Cancel, StartSlot, vars
<1>5. QED
  BY <1>3, <1>4 DEF FiniteParts

\* What a step of the loop adds to pending it adds to the loop's batches.
LEMMA LoopCountStep ==
    ASSUME Shape, OnePlace, FiniteParts, SlotStep
    PROVE  pending' - pending = LoopCount' - LoopCount
<1>1. /\ InQueue \in Nat /\ Dropped \in Nat /\ pending \in Int /\ loop.owed \in BOOLEAN
      /\ Submitted \in Nat /\ Count(loop.owed) \in Nat
      /\ IsFiniteSet(loop.removed)
  BY CountTypes DEF Shape, LoopShape, LoopRecord, FiniteParts
<1>2. /\ loop.owed = TRUE => Count(loop.owed) = 1
      /\ loop.owed = FALSE => Count(loop.owed) = 0
      /\ loop'.owed = TRUE => Count(loop'.owed) = 1
      /\ loop'.owed = FALSE => Count(loop'.owed) = 0
      /\ loop'.owed = loop.owed => Count(loop'.owed) = Count(loop.owed)
  BY DEF Count
<1>3. Cardinality({}) = 0
  BY FS_EmptySet
<1>4. /\ Submitted = IF loop.pc \in {"enqueueing", "refused"} /\ ~loop.owed THEN 1 ELSE 0
      /\ Submitted' = IF loop'.pc \in {"enqueueing", "refused"} /\ ~loop'.owed THEN 1 ELSE 0
      /\ Dropped = Cardinality(loop.removed) /\ Dropped' = Cardinality(loop'.removed)
  BY DEF Submitted, Count, Dropped
<1>5. /\ LoopCount = InQueue + Dropped + Submitted + Count(loop.owed)
      /\ LoopCount' = InQueue' + Dropped' + Submitted' + Count(loop'.owed)
  BY DEF LoopCount
<1>6. ASSUME queue' = queue, pending' = pending, loop'.removed = loop.removed,
             loop'.owed = loop.owed, Submitted' = Submitted
      PROVE  pending' - pending = LoopCount' - LoopCount
  <2>1. InQueue' = InQueue /\ Dropped' = Dropped
    BY <1>6 DEF InQueue, Dropped
  <2>2. QED
    BY <1>1, <1>2, <1>5, <1>6, <2>1
<1>7. CASE BeginCycle
  <2>1. loop.removed = {} /\ loop.owed = FALSE /\ loop.pc = "started" /\ pending' = pending
    BY <1>7, BeginMoves
  <2>2. CASE ~IsCurrent(queue, loop.slot, loop.cycle)
    <3>1. queue' = queue /\ loop'.pc = "idle" /\ loop'.removed = {} /\ loop'.owed = FALSE
      BY <1>7, <2>2, BeginMoves DEF BeginCycle, LoopIdle, LoopIs
    <3>2. QED
      BY <1>4, <1>6, <2>1, <3>1
  <2>3. CASE IsCurrent(queue, loop.slot, loop.cycle)
    <3>1. loop'.pc = "dropping" /\ loop'.owed = FALSE
      BY <1>7, <2>3, BeginMoves DEF LoopIs
    <3>2. InQueue' = InQueue - Dropped' /\ Dropped' \in Nat /\ Dropped = 0
      BY <1>3, <1>4, <1>7, <2>1, <2>3, QueueCounts
    <3>3. Submitted = 0 /\ Submitted' = 0
      BY <1>4, <2>1, <3>1
    <3>4. QED
      BY <1>1, <1>2, <1>5, <2>1, <3>1, <3>2, <3>3
  <2>4. QED
    BY <2>2, <2>3
<1>8. ASSUME NEW b \in loop.removed, ReleaseRemoved(b)
      PROVE  pending' - pending = LoopCount' - LoopCount
  <2>1. /\ loop.pc = "dropping" /\ loop'.pc = "dropping" /\ loop.owed = FALSE
        /\ loop'.owed = TRUE /\ loop'.removed = loop.removed \ {b}
        /\ queue' = queue /\ pending' = pending
    BY <1>8, DroppingMoves DEF LoopIs
  <2>2. Dropped' = Dropped - 1
    BY <1>1, <1>4, <1>8, <2>1, FS_RemoveElement, ZenonT(60)
  <2>3. Submitted = 0 /\ Submitted' = 0 /\ InQueue' = InQueue
    BY <1>4, <2>1 DEF InQueue
  <2>4. QED
    BY <1>1, <1>2, <1>5, <2>1, <2>2, <2>3
<1>9. CASE LoopDone
  <2>1. /\ loop.owed = TRUE /\ loop'.owed = FALSE /\ pending' = pending - 1
        /\ loop'.pc \in {"cleanup", "dropping"} /\ loop'.removed = loop.removed
        /\ queue' = queue
    BY <1>9, DroppingMoves DEF LoopIs
  <2>2. Submitted = 0 /\ Submitted' = 0 /\ InQueue' = InQueue /\ Dropped' = Dropped
    BY <1>4, <2>1 DEF InQueue
  <2>3. QED
    BY <1>1, <1>2, <1>5, <2>1, <2>2
<1>10. CASE StartPaging
  <2>1. /\ loop.pc = "dropping" /\ loop'.pc = "paging" /\ loop'.removed = loop.removed
        /\ loop'.owed = loop.owed /\ queue' = queue /\ pending' = pending
    BY <1>10, DroppingMoves DEF LoopIs
  <2>2. QED
    BY <1>4, <1>6, <2>1
<1>11. CASE HostPage \/ ItemPage \/ EndSlot \/ SkipSample \/ SkipReserved \/ HostsCancelled
  <2>1. /\ loop.pc \in {"paging", "adding"} /\ loop'.pc \in {"adding", "idle", "cleanup"}
        /\ loop'.removed = {} /\ loop'.owed = FALSE /\ queue' = queue /\ pending' = pending
    BY <1>11, PageMoves DEF LoopIs, LoopIdle
  <2>2. loop.removed = {} /\ loop.owed = FALSE
    BY <2>1, AddingHolds
  <2>3. QED
    BY <1>4, <1>6, <2>1, <2>2
<1>12. CASE AddSample \/ Finish
  <2>1. AddSample =>
          /\ loop.pc = "adding" /\ loop'.pc \in {"adding", "submitting"}
          /\ loop'.removed = {} /\ loop'.owed = FALSE /\ queue' = queue /\ pending' = pending
    BY AddMoves DEF LoopIs
  <2>2. Finish =>
          /\ loop.pc = "adding" /\ loop'.pc \in {"paging", "submitting"}
          /\ loop'.removed = {} /\ loop'.owed = FALSE /\ queue' = queue /\ pending' = pending
    BY FinishMoves DEF LoopIs
  <2>3. loop.removed = {} /\ loop.owed = FALSE
    BY <1>12, <2>1, <2>2, AddingHolds
  <2>4. QED
    BY <1>4, <1>6, <1>12, <2>1, <2>2, <2>3
<1>13. CASE CountBatch
  <2>1. /\ loop.pc = "submitting" /\ loop'.pc = "enqueueing" /\ loop'.removed = {}
        /\ loop'.owed = FALSE /\ pending' = pending + 1 /\ queue' = queue
    BY <1>13, SubmitMoves DEF LoopIs
  <2>2. loop.removed = {} /\ loop.owed = FALSE
    BY <2>1, SubmittingHolds
  <2>3. Submitted = 0 /\ Submitted' = 1 /\ InQueue' = InQueue /\ Dropped' = Dropped
    BY <1>4, <2>1, <2>2 DEF InQueue
  <2>4. QED
    BY <1>1, <1>2, <1>5, <2>1, <2>2, <2>3
<1>14. CASE TryEnqueue
  <2>1. /\ loop.pc = "enqueueing" /\ loop'.removed = {} /\ loop'.owed = FALSE
        /\ pending' = pending
    BY <1>14, SubmitMoves DEF LoopIs
  <2>2. loop.removed = {} /\ loop.owed = FALSE
    BY <2>1, SubmittingHolds
  <2>3. Submitted = 1 /\ Dropped' = Dropped
    BY <1>4, <2>1, <2>2
  <2>4. CASE Admission(queue, loop.batch) = "accepted"
    <3>1. loop'.pc = "adding" /\ InQueue' = InQueue + 1
      BY <1>14, <2>4, SubmitMoves, QueueCounts DEF LoopIs
    <3>2. Submitted' = 0
      BY <1>4, <3>1
    <3>3. QED
      BY <1>1, <1>2, <1>5, <2>1, <2>2, <2>3, <3>1, <3>2
  <2>5. CASE Admission(queue, loop.batch) # "accepted"
    <3>1. loop'.pc = "refused" /\ queue' = queue
      BY <1>14, <2>5, SubmitMoves DEF LoopIs
    <3>2. Submitted' = 1
      BY <1>4, <2>1, <3>1
    <3>3. QED
      BY <1>6, <2>1, <2>2, <2>3, <3>1, <3>2
  <2>6. QED
    BY <2>4, <2>5
<1>15. CASE ReleaseRefused
  <2>1. /\ loop.pc = "refused" /\ loop.owed = FALSE /\ loop'.pc = "refused"
        /\ loop'.owed = TRUE /\ loop'.removed = {} /\ queue' = queue /\ pending' = pending
    BY <1>15, SubmitMoves DEF LoopIs
  <2>2. loop.removed = {}
    BY <2>1 DEF Shape, LoopShape
  <2>3. Submitted = 1 /\ Submitted' = 0 /\ InQueue' = InQueue /\ Dropped' = Dropped
    BY <1>4, <2>1, <2>2 DEF InQueue
  <2>4. QED
    BY <1>1, <1>2, <1>5, <2>1, <2>3
<1>16. CASE Cleanup
  <2>1. /\ loop.pc = "cleanup" /\ loop.owed = FALSE /\ loop'.pc = "idle"
        /\ loop'.owed = FALSE /\ loop.removed = {} /\ loop'.removed = {}
        /\ queue' = queue /\ pending' = pending
    BY <1>16, SubmitMoves DEF LoopIs, LoopIdle
  <2>2. QED
    BY <1>4, <1>6, <2>1
<1>17. QED
  BY <1>7, <1>8, <1>9, <1>10, <1>11, <1>12, <1>13, <1>14, <1>15, <1>16 DEF SlotStep

LEMMA CountTypesNext ==
    ASSUME Shape', FiniteParts'
    PROVE  /\ InQueue' \in Nat /\ Dropped' \in Nat /\ Left' \in Nat
           /\ Submitted' \in Nat /\ Count(loop'.owed) \in Nat
           /\ Count(stopping'.owed) \in Nat
           /\ LoopCount' \in Nat /\ Cardinality(Busy') \in Nat
<1>1. /\ InQueue' \in Nat /\ Dropped' \in Nat /\ Left' \in Nat
      /\ Submitted' \in Nat /\ Count(loop'.owed) \in Nat /\ Count(stopping'.owed) \in Nat
  BY QueuedFinite, FS_CardinalityType
  DEF Shape, QueueShape, FiniteParts, InQueue, Dropped, Left, Submitted, Count
<1>2. Cardinality(Busy') \in Nat
  BY QueueAssumption, FS_Subset, FS_CardinalityType DEF Busy
<1>3. LoopCount' = InQueue' + Dropped' + Submitted' + Count(loop'.owed)
  BY DEF LoopCount
<1>4. QED
  BY <1>1, <1>2, <1>3

LEMMA ActivityIsNext ==
    ASSUME Shape', FiniteParts'
    PROVE  ActivityExact' <=>
             pending' = LoopCount' + Left' + Count(stopping'.owed) + Cardinality(Busy')
<1>1. ActivityExact' <=>
        pending' = InQueue' + Dropped' + Left' + Submitted' + Count(loop'.owed)
                   + Count(stopping'.owed) + Cardinality(Busy')
  BY DEF ActivityExact, InQueue, Dropped, Left, Submitted, Busy, BusyPc
<1>2. LoopCount' = InQueue' + Dropped' + Submitted' + Count(loop'.owed)
  BY DEF LoopCount
<1>3. QED
  BY <1>1, <1>2, CountTypesNext

LEMMA WorkerCountStep ==
    ASSUME Shape, OnePlace, FiniteParts, NEW l \in Lanes, WorkerStep(l)
    PROVE  /\ pending' - pending
                = (LoopCount' + Cardinality(Busy')) - (LoopCount + Cardinality(Busy))
           /\ LoopCount' \in Int /\ Cardinality(Busy') \in Int
<1>1. /\ UNCHANGED <<loop, stopping>> /\ pending \in Int
      /\ \A k \in Lanes : k # l => worker'[k] = worker[k]
  BY WorkerFrame, OtherWorkers DEF Shape
<1>2. /\ InQueue \in Nat /\ Dropped \in Nat /\ Submitted \in Nat /\ Count(loop.owed) \in Nat
      /\ IsFiniteSet(Busy) /\ Cardinality(Busy) \in Nat
  BY CountTypes
<1>3. /\ LoopCount = InQueue + Dropped + Submitted + Count(loop.owed)
      /\ LoopCount' = InQueue' + Dropped + Submitted + Count(loop.owed)
  BY <1>1 DEF LoopCount, Dropped, Submitted
<1>4. \A k \in Lanes : /\ k \in Busy <=> worker[k].pc \in BusyPc
                       /\ k \in Busy' <=> worker'[k].pc \in BusyPc
  BY DEF Busy
<1>5. Busy \subseteq Lanes /\ Busy' \subseteq Lanes
  BY DEF Busy
<1>6. CASE Pop(l)
  <2>1. worker[l].pc = "popping" /\ worker'[l].pc = "sending"
    BY <1>6, WorkerMoves
  <2>2. l \notin Busy /\ Busy' = Busy \cup {l}
    BY <1>1, <1>4, <1>5, <2>1 DEF BusyPc
  <2>3. Cardinality(Busy') = Cardinality(Busy) + 1
    BY <1>2, <2>2, FS_AddElement
  <2>4. InQueue' = InQueue - 1 /\ pending' = pending
    BY <1>6, QueueCounts DEF Pop
  <2>5. QED
    BY <1>1, <1>2, <1>3, <2>3, <2>4
<1>7. CASE WorkerDone(l)
  <2>1. worker[l].pc = "done" /\ worker'[l].pc = "popping"
    BY <1>7, WorkerMoves
  <2>2. l \in Busy /\ Busy' = Busy \ {l}
    BY <1>1, <1>4, <1>5, <2>1 DEF BusyPc
  <2>3. Cardinality(Busy') = Cardinality(Busy) - 1
    BY <1>2, <2>2, FS_RemoveElement
  <2>4. InQueue' = InQueue /\ pending' = pending - 1
    BY <1>7 DEF WorkerDone, InQueue
  <2>5. QED
    BY <1>1, <1>2, <1>3, <2>3, <2>4
<1>8. CASE ~Pop(l) /\ ~WorkerDone(l)
  <2>1. queue' = queue /\ pending' = pending
    BY <1>8 DEF WorkerStep, PopEmpty, Block, Wake, Attempt, Backoff, Ack, ReleaseSent
  <2>2. worker[l].pc \in BusyPc <=> worker'[l].pc \in BusyPc
    BY <1>8, WorkerMoves DEF WorkerStep, BusyPc
  <2>3. Busy' = Busy
    <3>1. \A k \in Lanes : k \in Busy' <=> k \in Busy
      BY <1>1, <1>4, <2>2
    <3>2. QED
      BY <1>5, <3>1
  <2>4. InQueue' = InQueue
    BY <2>1 DEF InQueue
  <2>5. QED
    BY <1>1, <1>2, <1>3, <2>1, <2>3, <2>4
<1>9. QED
  BY <1>6, <1>7, <1>8

\* StopContext takes what is queued, and lets it go batch by batch.
LEMMA StopCountStep ==
    ASSUME Shape, OnePlace, FiniteParts, Stop \/ DrainStep
    PROVE  /\ pending' - pending = (LoopCount' + Left' + Count(stopping'.owed))
                                     - (LoopCount + Left + Count(stopping.owed))
           /\ LoopCount' \in Int /\ Left' \in Int /\ Count(stopping'.owed) \in Int
<1>1. UNCHANGED <<loop, worker>> /\ pending \in Int
  BY DrainFrame DEF Stop, Shape
<1>2. /\ InQueue \in Nat /\ Dropped \in Nat /\ Submitted \in Nat /\ Count(loop.owed) \in Nat
      /\ Left \in Nat /\ Count(stopping.owed) \in Nat /\ IsFiniteSet(stopping.remaining)
  BY CountTypes DEF FiniteParts
<1>3. /\ LoopCount = InQueue + Dropped + Submitted + Count(loop.owed)
      /\ LoopCount' = InQueue' + Dropped + Submitted + Count(loop.owed)
  BY <1>1 DEF LoopCount, Dropped, Submitted
<1>4. /\ stopping.owed = TRUE => Count(stopping.owed) = 1
      /\ stopping.owed = FALSE => Count(stopping.owed) = 0
      /\ stopping'.owed = TRUE => Count(stopping'.owed) = 1
      /\ stopping'.owed = FALSE => Count(stopping'.owed) = 0
      /\ stopping'.owed = stopping.owed => Count(stopping'.owed) = Count(stopping.owed)
  BY DEF Count
<1>5. Left = Cardinality(stopping.remaining) /\ Left' = Cardinality(stopping'.remaining)
  BY DEF Left
<1>6. CASE Stop
  <2>1. /\ stopping.remaining = {} /\ stopping.owed = FALSE
        /\ stopping'.remaining = Queued(queue) /\ stopping'.owed = FALSE
    <3>1. /\ stopping.remaining = {} /\ stopping.owed = FALSE
          /\ stopping' = [pc |-> "draining", remaining |-> Queued(queue), owed |-> FALSE]
      BY <1>6, StopQueue
    <3>2. QED
      BY <3>1
  <2>2. Left = 0 /\ Left' = InQueue /\ InQueue' = 0 /\ pending' = pending
    BY <1>5, <1>6, <2>1, QueueCounts, FS_EmptySet DEF Stop, InQueue
  <2>3. QED
    BY <1>1, <1>2, <1>3, <1>4, <2>1, <2>2
<1>7. CASE DrainStep
  <2>1. InQueue' = InQueue
    BY <1>7, DrainFrame DEF InQueue
  <2>2. /\ stopping \in [pc : {"running", "draining", "stopped"}, remaining : SUBSET Batch,
                         owed : BOOLEAN]
    BY DEF Shape, StopShape
  <2>3. ASSUME NEW b \in stopping.remaining, ReleaseRemaining(b)
        PROVE  Left' = Left - 1 /\ stopping.owed = FALSE /\ stopping'.owed = TRUE
                 /\ pending' = pending
    <3>1. /\ stopping'.remaining = stopping.remaining \ {b} /\ stopping.owed = FALSE
          /\ stopping'.owed = TRUE /\ pending' = pending
      BY <2>2, <2>3 DEF ReleaseRemaining
    <3>2. QED
      BY <1>2, <1>5, <3>1, FS_RemoveElement, ZenonT(60)
  <2>4. ASSUME StopDone
        PROVE  Left' = Left /\ stopping.owed = TRUE /\ stopping'.owed = FALSE
                 /\ pending' = pending - 1
    BY <1>5, <2>2, <2>4 DEF StopDone
  <2>5. ASSUME Stopped
        PROVE  Left' = Left /\ stopping'.owed = stopping.owed /\ pending' = pending
    BY <1>5, <2>2, <2>5 DEF Stopped
  <2>6. \/ /\ Left' = Left - 1 /\ Count(stopping.owed) = 0 /\ Count(stopping'.owed) = 1
           /\ pending' = pending
        \/ /\ Left' = Left /\ Count(stopping.owed) = 1 /\ Count(stopping'.owed) = 0
           /\ pending' = pending - 1
        \/ /\ Left' = Left /\ Count(stopping'.owed) = Count(stopping.owed)
           /\ pending' = pending
    BY <1>4, <1>7, <2>3, <2>4, <2>5 DEF DrainStep
  <2>7. LoopCount' = LoopCount /\ LoopCount \in Nat
    BY <1>2, <1>3, <2>1
  <2>8. QED
    BY <1>1, <1>2, <2>6, <2>7
<1>8. QED
  BY <1>6, <1>7

LEMMA ActivityStep ==
    ASSUME Shape, OnePlace, FiniteParts, ActivityExact, [Next]_vars
    PROVE  ActivityExact'
<1>1. Shape' /\ FiniteParts'
  BY ShapeStep, FinitePartsStep
<1>2. pending = LoopCount + Left + Count(stopping.owed) + Cardinality(Busy)
  BY ActivityIs
<1>3. SUFFICES pending' = LoopCount' + Left' + Count(stopping'.owed) + Cardinality(Busy')
  BY <1>1, ActivityIsNext
<1>4. /\ LoopCount \in Nat /\ Left \in Nat /\ Count(stopping.owed) \in Nat
      /\ Cardinality(Busy) \in Nat
  BY CountTypes
<1>5. pending \in Int /\ pending' \in Int
  BY <1>1 DEF Shape
<1>6. stopping' = stopping => Left' = Left /\ Count(stopping'.owed) = Count(stopping.owed)
  BY DEF Left
<1>7. worker' = worker => Cardinality(Busy') = Cardinality(Busy)
  BY DEF Busy
<1>8. queue' = queue /\ loop' = loop => LoopCount' = LoopCount
  BY DEF LoopCount, InQueue, Dropped, Submitted
<1>9. CASE SlotStep
  <2>1. UNCHANGED <<worker, stopping>>
    BY <1>9, SlotFrame
  <2>2. pending' - pending = LoopCount' - LoopCount /\ LoopCount' \in Int
    BY <1>1, <1>9, LoopCountStep, CountTypesNext
  <2>3. QED
    BY <1>2, <1>4, <1>5, <1>6, <1>7, <2>1, <2>2
<1>10. ASSUME NEW l \in Lanes, WorkerStep(l)
       PROVE  pending' = LoopCount' + Left' + Count(stopping'.owed) + Cardinality(Busy')
  <2>1. stopping' = stopping
    BY <1>10, WorkerFrame
  <2>2. /\ pending' - pending
              = (LoopCount' + Cardinality(Busy')) - (LoopCount + Cardinality(Busy))
        /\ LoopCount' \in Int /\ Cardinality(Busy') \in Int
    BY <1>10, WorkerCountStep
  <2>3. Left' = Left /\ Count(stopping'.owed) = Count(stopping.owed)
    BY <1>6, <2>1
  <2>4. QED
    BY <1>2, <1>4, <1>5, <2>2, <2>3
<1>11. CASE Stop \/ DrainStep
  <2>1. worker' = worker
    BY <1>11, DrainFrame DEF Stop
  <2>2. /\ pending' - pending = (LoopCount' + Left' + Count(stopping'.owed))
                                  - (LoopCount + Left + Count(stopping.owed))
        /\ LoopCount' \in Int /\ Left' \in Int /\ Count(stopping'.owed) \in Int
    BY <1>11, StopCountStep
  <2>3. QED
    BY <1>2, <1>4, <1>5, <1>7, <2>1, <2>2
<1>12. ASSUME NEW slot \in Slots, NEW at \in 1..MaxCycle, StartSlot(slot, at)
       PROVE  pending' = LoopCount' + Left' + Count(stopping'.owed) + Cardinality(Busy')
  <2>1. /\ UNCHANGED <<queue, pending, worker, stopping>> /\ loop.pc = "idle"
        /\ loop'.pc = "started" /\ loop'.removed = {} /\ loop'.owed = FALSE
    BY <1>12, StartSlotMoves DEF LoopIs
  <2>2. loop.removed = {} /\ loop.owed = FALSE
    BY <2>1 DEF Shape, LoopShape, LoopRecord
  <2>3. InQueue' = InQueue /\ Dropped' = Dropped /\ Submitted' = Submitted
          /\ Count(loop'.owed) = Count(loop.owed)
    BY <2>1, <2>2 DEF InQueue, Dropped, Submitted, Count
  <2>4. LoopCount' = LoopCount
    BY <2>3 DEF LoopCount
  <2>5. QED
    BY <1>2, <1>6, <1>7, <2>1, <2>4
<1>13. CASE ValueStore \/ Cancel \/ UNCHANGED vars
  <2>1. UNCHANGED <<queue, pending, worker, stopping, loop>>
    BY <1>13, ValueStoreFrame DEF Cancel, vars
  <2>2. QED
    BY <1>2, <1>6, <1>7, <1>8, <2>1
<1>14. QED
  BY <1>9, <1>10, <1>11, <1>12, <1>13 DEF Next

LEMMA InitCounters ==
    ASSUME Init
    PROVE  FiniteParts /\ ActivityExact /\ SizeExact
<1>1. /\ Queued(queue) = {} /\ queue.size = 0 /\ pending = 0
      /\ loop.removed = {} /\ loop.owed = FALSE /\ loop.pc = "idle"
      /\ stopping.remaining = {} /\ stopping.owed = FALSE
      /\ \A l \in Lanes : worker[l].pc = "popping"
  BY InitQueueEmpty, IdleLoopType DEF Init, IdleWorker, EmptyQueue
<1>2. Cardinality({}) = 0 /\ IsFiniteSet({})
  BY FS_EmptySet
<1>3. Busy = {}
  BY <1>1 DEF Busy, BusyPc
<1>4. FiniteParts
  BY <1>1, <1>2 DEF FiniteParts
<1>5. InQueue = 0 /\ Dropped = 0 /\ Left = 0 /\ Cardinality(Busy) = 0
  BY <1>1, <1>2, <1>3 DEF InQueue, Dropped, Left
<1>6. Submitted = 0 /\ Count(loop.owed) = 0 /\ Count(stopping.owed) = 0
  BY <1>1 DEF Submitted, Count
<1>7. LoopCount = 0
  BY <1>5, <1>6 DEF LoopCount
<1>8. ActivityExact
  BY <1>1, <1>4, <1>5, <1>6, <1>7, InitShape, ActivityIs
<1>9. SizeExact
  BY <1>1, <1>5, QueueAssumption DEF SizeExact, InQueue
<1>10. QED
  BY <1>4, <1>8, <1>9

LEMMA TypesFollow ==
    ASSUME Shape, FiniteParts, ActivityExact, SizeExact
    PROVE  TypeOK
<1>1. store \in [Items -> StoredValue \cup {None}] /\ versions \in Nat
  BY ConstantFacts DEF Shape, StoreShape
<1>2. /\ queue.lanes \in [Lanes -> Seq(Batch)] /\ queue.closed \in BOOLEAN
      /\ queue.latest \in [Slots -> Nat] /\ notify \in [Lanes -> BOOLEAN]
  BY DEF Shape, QueueShape
<1>3. queue.size \in 0..Capacity
  BY CountTypes, QueueAssumption DEF SizeExact, InQueue
<1>4. pending \in Nat
  BY CountTypes, ActivityIs
<1>5. /\ reservations \subseteq Key /\ received \subseteq Key /\ cancelled \in BOOLEAN
      /\ requested \in [Slots -> Nat]
  BY DEF Shape
<1>6. cycles \in [Slots -> Nat]
  BY ConstantFacts DEF Shape
<1>7. /\ loop.pc \in {"idle", "started", "dropping", "paging", "adding", "submitting",
                      "enqueueing", "refused", "cleanup"}
      /\ loop.removed \subseteq Batch /\ loop.batch \in Batch \cup {None}
      /\ loop.builders \in [Builders -> SUBSET Key] /\ loop.sample \in Key \cup {None}
  BY DEF Shape, LoopShape, LoopRecord
<1>8. \A l \in Lanes :
         /\ worker[l].pc \in {"popping", "selecting", "waiting", "sending", "backoff",
                              "acking", "releasing", "done", "exited"}
         /\ worker[l].batch \in Batch \cup {None}
         /\ worker[l].attempt \in 1..MaxRetries + 1
  BY DEF Shape, WorkerShape, WorkerRecord
<1>9. stopping.pc \in {"running", "draining", "stopped"} /\ stopping.remaining \subseteq Batch
  BY DEF Shape, StopShape
<1>10. QED
  BY <1>1, <1>2, <1>3, <1>4, <1>5, <1>6, <1>7, <1>8, <1>9 DEF TypeOK

\* The two counters are exact: WaitIdle returns when, and only when, no batch is
\* between activity.add and activity.done, done never finds zero, and the queue's
\* size is what its lanes hold and never exceeds the capacity, through evictions,
\* refusals and close.
THEOREM PublisherCounters == Spec => []CountersExact
<1> DEFINE IInv == /\ Shape /\ OnePlace /\ ReservationsOwned
                   /\ FiniteParts /\ ActivityExact /\ SizeExact
<1>1. IInv /\ [Next]_vars => IInv'
  BY ShapeStep, OnePlaceStep, OwnedStep, FinitePartsStep, ActivityStep, SizeExactStep
<1>2. Init => IInv
  BY InitShape, InitOwned, InitCounters
<1>3. IInv => CountersExact
  BY TypesFollow DEF CountersExact
<1>4. QED
  BY <1>1, <1>2, <1>3, PTL DEF Spec
=============================================================================
