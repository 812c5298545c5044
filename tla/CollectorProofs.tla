-------------------------- MODULE CollectorProofs --------------------------
(***************************************************************************)
(* The collector for every set of items, delay, batch size, limit and      *)
(* overlap: its windows leave no gap, and a miss is counted only against   *)
(* an item that had no point.                                              *)
(***************************************************************************)
EXTENDS Collector, TLAPS, FiniteSetTheorems, SequenceTheorems, FunctionTheorems,
        WellFoundedInduction

-----------------------------------------------------------------------------
(* The inductive invariant.                                                *)

TaskRecord ==
    [running : BOOLEAN, till : Nat, batches : Seq(SUBSET Items), batch : SUBSET Items,
     from : Nat, snap : [Items -> Nat], orphan : BOOLEAN, stack : Seq(Segment),
     complete : BOOLEAN, misses : SUBSET Items, had : SUBSET Items]

\* Types; points and marks are not of the future, and an item has one point of a
\* clock.
Shape ==
    /\ now \in Nat /\ snapshot \in Nat /\ version \in [Items -> 0 .. snapshot]
    /\ disabled \subseteq Items /\ obsolete \subseteq Items /\ groups \subseteq Items
    /\ IsFiniteSet(history) /\ history \subseteq Point
    /\ \A p \in history : p.clock <= now
    /\ \A p, q \in history : p.item = q.item /\ p.clock = q.clock => p = q
    /\ watermark \in [SUBSET Items -> Nat \cup {Absent}]
    /\ \A b \in SUBSET Items : watermark[b] # Absent => watermark[b] <= now
    /\ values \in [Items -> Value \cup {Absent}]
    /\ given_up \in [Items -> Nat \cup {-1}]
    /\ task \in TaskRecord /\ task.till <= now /\ task.from <= task.till

\* What is asked for and missed is of the batch; and an item that had a point when
\* the attempt began has it still, and is not missed.
Working ==
    /\ \A n \in 1..Len(task.stack) : task.stack[n].items \subseteq task.batch
    /\ task.misses \subseteq task.batch
    /\ \A i \in task.had :
         /\ i \notin task.misses
         /\ \E p \in history : p.item = i /\ task.from <= p.clock /\ p.clock <= task.till

\* A point of the item need not be asked for again: something as new is cached, or was
\* given up.
Held(i, clock) ==
    \/ values[i] # Absent /\ clock <= values[i].clock
    \/ clock <= given_up[i]

\* A point need not be asked for by a window that begins an overlap before w.
Reached(p, w) ==
    \/ Held(p.item, p.clock)
    \/ p.clock >= Back(w, overlapForDelay)
    \/ ValueExpireAt(p.clock, Delay) <= now

\* The same after a step.
HeldNext(i, clock) ==
    \/ values'[i] # Absent /\ clock <= values'[i].clock
    \/ clock <= given_up'[i]

ReachedNext(p, w) ==
    \/ HeldNext(p.item, p.clock)
    \/ p.clock >= Back(w, overlapForDelay)
    \/ ValueExpireAt(p.clock, Delay) <= now'

\* NoGap of every mark, of whatever batch.
MarksReach ==
    \A b \in SUBSET Items : watermark[b] # Absent =>
        \A p \in history : p.item \in b /\ ~p.late => Reached(p, watermark[b])

\* The same of the window that the attempt asks for, ...
WindowReaches ==
    \A p \in history :
        p.item \in task.batch /\ ~p.late => p.clock >= task.from \/ Reached(p, task.till)

\* ... and of the mark it will set, for the items that have been answered.
Outstanding == {i \in Items : \E n \in 1..Len(task.stack) : i \in task.stack[n].items}

AnswersReach ==
    task.complete =>
        \A p \in history :
            p.item \in task.batch \ Outstanding /\ ~p.late => Reached(p, task.till)

IInv == Shape /\ Working /\ MarksReach /\ WindowReaches /\ AnswersReach

-----------------------------------------------------------------------------
(* Windows.                                                                *)

LEMMA WindowTypes ==
    /\ overlapForDelay \in Nat /\ bootstrapWindow \in Nat
    /\ \A time, window \in Nat : Back(time, window) \in Nat /\ Back(time, window) <= time
<1>1. Delay \in Nat /\ OverlapMin \in Nat /\ OverlapMax \in Nat /\ MinBootstrap \in Nat
  BY CollectorAssumption
<1>2. Delay \div 5 \in Nat
  BY <1>1
<1>3. overlapForDelay \in Nat
  BY <1>1, <1>2 DEF overlapForDelay, AtLeast
<1>4. Grace(Delay) \in Nat
  BY <1>2, DurationAssumption DEF Grace, AtLeast
<1>5. bootstrapWindow \in Nat
  BY <1>1, <1>4 DEF bootstrapWindow, AtLeast
<1>6. QED
  BY <1>3, <1>5 DEF Back

\* A value lives for a fixed time after its clock, and no longer than the first window
\* of a batch reaches back.
LEMMA Lifetime ==
    \E life \in Nat :
        /\ \A clock \in Nat : ValueExpireAt(clock, Delay) = clock + life
        /\ life <= bootstrapWindow
<1>1. Delay \in Nat /\ MinBootstrap \in Nat /\ MinShortTTL \in Nat /\ MinShortTTL <= MinBootstrap
  BY CollectorAssumption, DurationAssumption
<1>2. Grace(Delay) \in Nat
  <2>1. Delay \div 5 \in Nat
    BY <1>1
  <2>2. QED
    BY <2>1, DurationAssumption DEF Grace, AtLeast
<1>3. CASE PublishPolicyForDelay(Delay) = "source"
  <2> DEFINE life == AtLeast(2 * Delay, MinShortTTL)
  <2>1. life \in Nat /\ life <= bootstrapWindow
    BY <1>1, <1>3 DEF bootstrapWindow, AtLeast
  <2>2. \A clock \in Nat : ValueExpireAt(clock, Delay) = clock + life
    BY <1>3 DEF ValueExpireAt
  <2>3. QED
    BY <2>1, <2>2
<1>4. CASE PublishPolicyForDelay(Delay) # "source"
  <2> DEFINE life == 2 * Delay + Grace(Delay)
  <2>1. life \in Nat /\ life <= bootstrapWindow
    BY <1>1, <1>2, <1>4 DEF bootstrapWindow
  <2>2. \A clock \in Nat : ValueExpireAt(clock, Delay) = clock + life
    BY <1>1, <1>2, <1>4 DEF ValueExpireAt
  <2>3. QED
    BY <2>1, <2>2
<1>5. QED
  BY <1>3, <1>4

\* Time does not go back, and what is held stays held.
Forward ==
    /\ now' \in Nat /\ now <= now'
    /\ \A i \in Items, clock \in Nat : Held(i, clock) => HeldNext(i, clock)

LEMMA SameIsForward ==
    ASSUME Shape, now' = now, values' = values, given_up' = given_up
    PROVE  Forward
BY DEF Forward, Shape, Held, HeldNext

\* What was reached stays reached.
LEMMA ReachedStays ==
    ASSUME Shape, Forward
    PROVE  \A p \in history : \A w : Reached(p, w) => ReachedNext(p, w)
<1> SUFFICES ASSUME NEW p \in history, NEW w, Reached(p, w) PROVE ReachedNext(p, w)
  OBVIOUS
<1>1. p.item \in Items /\ p.clock \in Nat
  BY DEF Shape, Point
<1>2. Held(p.item, p.clock) => HeldNext(p.item, p.clock)
  BY <1>1 DEF Forward
<1>3. ValueExpireAt(p.clock, Delay) \in Nat
  BY <1>1, Lifetime
<1>4. ValueExpireAt(p.clock, Delay) <= now => ValueExpireAt(p.clock, Delay) <= now'
  BY <1>3 DEF Forward, Shape
<1>5. QED
  BY <1>2, <1>4 DEF Reached, ReachedNext

-----------------------------------------------------------------------------
(* What an answer holds.                                                   *)

\* The order of history.get: newest first.
Precedes(p, q) == p.clock > q.clock \/ (p.clock = q.clock /\ p.item <= q.item)

UpTo(P, q) == {p \in P : Precedes(p, q)}

LEMMA NewestIs ==
    ASSUME NEW P, NEW limit
    PROVE  Newest(P, limit) = {q \in P : Cardinality(UpTo(P, q)) <= limit}
BY DEF Newest, UpTo, Precedes

\* No two points have the same place.
LEMMA PlacesDiffer ==
    ASSUME NEW P, IsFiniteSet(P), P \subseteq Point, NEW p \in P, NEW q \in P,
           p.item = q.item /\ p.clock = q.clock => p = q, p # q
    PROVE  Cardinality(UpTo(P, p)) # Cardinality(UpTo(P, q))
<1>1. \A r \in P : r.item \in Nat /\ r.clock \in Nat
  BY CollectorAssumption DEF Point
<1>2. \A r \in P : Precedes(r, r)
  BY <1>1 DEF Precedes
<1>3. ASSUME NEW a \in P, NEW b \in P, Precedes(a, b), ~Precedes(b, a)
      PROVE  Cardinality(UpTo(P, a)) # Cardinality(UpTo(P, b))
  <2>1. \A r \in P : Precedes(r, a) => Precedes(r, b)
    BY <1>1, <1>3 DEF Precedes
  <2>2. UpTo(P, a) \subseteq UpTo(P, b) /\ b \in UpTo(P, b) /\ b \notin UpTo(P, a)
    BY <1>2, <1>3, <2>1 DEF UpTo
  <2>3. UpTo(P, b) \subseteq P
    BY DEF UpTo
  <2>4. IsFiniteSet(UpTo(P, b))
    BY <2>3, FS_Subset
  <2>5. /\ Cardinality(UpTo(P, a)) <= Cardinality(UpTo(P, b))
        /\ Cardinality(UpTo(P, a)) = Cardinality(UpTo(P, b)) => UpTo(P, a) = UpTo(P, b)
    BY <2>2, <2>4, FS_Subset
  <2>6. QED
    BY <2>2, <2>5
<1>4. (Precedes(p, q) /\ ~Precedes(q, p)) \/ (Precedes(q, p) /\ ~Precedes(p, q))
  BY <1>1 DEF Precedes
<1>5. QED
  BY <1>3, <1>4

\* Fewer points than the limit are all there are.
LEMMA NewestAll ==
    ASSUME NEW P, IsFiniteSet(P), P \subseteq Point,
           \A p, q \in P : p.item = q.item /\ p.clock = q.clock => p = q,
           NEW limit \in Int, Cardinality(Newest(P, limit)) < limit
    PROVE  Newest(P, limit) = P
<1> DEFINE N == Newest(P, limit)
           rank == [q \in P |-> Cardinality(UpTo(P, q))]
           l == Cardinality(P)
<1>1. /\ IsFiniteSet(P) /\ l \in Nat /\ N \subseteq P
      /\ IsFiniteSet(N) /\ Cardinality(N) \in Nat
  <2>1. N \subseteq P
    BY NewestIs
  <2>2. QED
    BY <2>1, FS_Subset, FS_CardinalityType
<1>2. \A q \in P : Cardinality(UpTo(P, q)) \in 1..l
  <2> SUFFICES ASSUME NEW q \in P PROVE Cardinality(UpTo(P, q)) \in 1..l
    OBVIOUS
  <2>1. UpTo(P, q) \subseteq P
    BY DEF UpTo
  <2>2. IsFiniteSet(UpTo(P, q)) /\ Cardinality(UpTo(P, q)) \in Nat /\ Cardinality(UpTo(P, q)) <= l
    BY <1>1, <2>1, FS_Subset, FS_CardinalityType
  <2>3. q \in UpTo(P, q)
    <3>1. q.item \in Nat /\ q.clock \in Nat
      BY CollectorAssumption DEF Point
    <3>2. QED
      BY <3>1 DEF UpTo, Precedes
  <2>4. Cardinality(UpTo(P, q)) # 0
    BY <2>2, <2>3, FS_EmptySet
  <2>5. QED
    BY <1>1, <2>2, <2>4
<1>3. rank \in [P -> 1..l] /\ \A q \in P : rank[q] = Cardinality(UpTo(P, q))
  BY <1>2
<1>4. \A p, q \in P : Cardinality(UpTo(P, p)) = Cardinality(UpTo(P, q)) => p = q
  BY PlacesDiffer
<1>5. \A q \in P : q \in N <=> rank[q] <= limit
  BY <1>3, NewestIs
<1> HIDE DEF N, rank, l
<1>6. rank \in Injection(P, 1..l)
  <2>1. \A p, q \in P : rank[p] = rank[q] => p = q
    BY <1>3, <1>4
  <2>2. QED
    BY <1>3, <2>1, Fun_IsInj
<1>7. Cardinality(1..l) = l /\ IsFiniteSet(1..l) /\ l = Cardinality(P)
  BY <1>1, FS_Interval DEF l
<1>8. rank \in Surjection(P, 1..l)
  BY <1>1, <1>6, <1>7, FS_Injection
<1>9. \A r \in 1..l : \E p \in P : rank[p] = r
  BY <1>8 DEF Surjection
<1>10. ASSUME NEW q \in P, q \notin N PROVE FALSE
  <2>1. rank[q] \in 1..l /\ limit < rank[q] /\ Cardinality(N) < limit
    BY <1>3, <1>5, <1>10 DEF N
  <2>2. limit \in Nat /\ \A r \in 1..limit : r \in 1..l
    BY <1>1, <2>1
  <2> DEFINE f == [p \in N |-> rank[p]]
  <2>3. \A p \in N : rank[p] \in 1..limit
    BY <1>1, <1>3, <1>5, <2>2
  <2>4. f \in [N -> 1..limit] /\ \A p \in N : f[p] = rank[p]
    BY <2>3
  <2> HIDE DEF f
  <2>5. \A r \in 1..limit : \E p \in N : f[p] = r
    <3> SUFFICES ASSUME NEW r \in 1..limit PROVE \E p \in N : f[p] = r
      OBVIOUS
    <3>1. PICK p \in P : rank[p] = r
      BY <1>9, <2>2
    <3>2. p \in N
      BY <1>5, <2>2, <3>1
    <3>3. QED
      BY <2>4, <3>1, <3>2
  <2>6. f \in Surjection(N, 1..limit)
    BY <2>4, <2>5, Fun_IsSurj
  <2>7. Cardinality(1..limit) <= Cardinality(N)
    BY <1>1, <2>6, FS_Surjection
  <2>8. Cardinality(1..limit) = limit
    BY <2>2, FS_Interval
  <2>9. QED
    BY <1>1, <2>1, <2>2, <2>7, <2>8
<1>11. N = P
  BY <1>1, <1>10
<1>12. QED
  BY <1>11 DEF N

\* The segment that is asked for, and those after it.
LEMMA StackFacts ==
    ASSUME Shape, Asking
    PROVE  /\ Len(task.stack) \in Nat \ {0} /\ task.stack[1].items = Asked
           /\ Asked \in SUBSET Items /\ Head(task.stack).depth \in Nat
           /\ Tail(task.stack) \in Seq(Segment) /\ Len(Tail(task.stack)) = Len(task.stack) - 1
           /\ \A n \in 1..Len(Tail(task.stack)) : Tail(task.stack)[n] = task.stack[n + 1]
<1> DEFINE s == task.stack
<1>1. s \in Seq(Segment) /\ s # <<>>
  BY DEF Shape, TaskRecord, Asking
<1>2. Len(s) \in Nat \ {0} /\ Head(s) = s[1] /\ Head(s) \in Segment
  BY <1>1
<1>3. Tail(s) \in Seq(Segment) /\ Len(Tail(s)) = Len(s) - 1
  BY <1>1, HeadTailProperties
<1>4. \A n \in 1..Len(Tail(s)) : Tail(s)[n] = s[n + 1]
  BY <1>1, HeadTailProperties
<1>5. QED
  BY <1>2, <1>3, <1>4 DEF Asked, Segment

\* The points of the window that are asked for.
Window ==
    {p \in history : p.item \in Asked /\ task.from <= p.clock /\ p.clock <= task.till}

LEMMA AnswerFacts ==
    ASSUME Shape
    PROVE  /\ Answer \subseteq Window /\ Window \subseteq history
           /\ Asking /\ ~Truncated => Answer = Window
<1>1. Answer = Newest(Window, Limit)
  BY DEF Answer, Window
<1>2. Window \subseteq history
  BY DEF Window
<1>3. Answer \subseteq Window
  BY <1>1, NewestIs
<1>4. ASSUME Asking, ~Truncated PROVE Answer = Window
  <2>1. /\ IsFiniteSet(Window) /\ Window \subseteq Point
        /\ \A p, q \in Window : p.item = q.item /\ p.clock = q.clock => p = q
    BY <1>2, FS_Subset DEF Shape
  <2>2. IsFiniteSet(Answer) /\ Cardinality(Answer) \in Nat
    BY <1>3, <2>1, FS_Subset, FS_CardinalityType
  <2>3. Limit \in Int
    <3>1. task.till \in Nat /\ task.from \in Nat /\ task.from <= task.till
      BY DEF Shape, TaskRecord
    <3>2. Asked \in SUBSET Items
      BY <1>4, StackFacts
    <3>3. IsFiniteSet(Asked) /\ Cardinality(Asked) \in Nat
      BY <3>2, CollectorAssumption, FS_Subset, FS_CardinalityType
    <3> DEFINE n == Cardinality(Asked)
               expected == ExpectedPerItem(task.till - task.from)
    <3>4. expected \in Int /\ n \in Nat /\ HistoryLimit \in Int
      BY <3>1, <3>3, CollectorAssumption DEF ExpectedPerItem, CeilDiv
    <3>5. Limit = HistoryLimit \/ Limit = expected * n
      BY DEF Limit, queryLimit
    <3> HIDE DEF n, expected
    <3>6. QED
      BY <3>4, <3>5
  <2>4. Cardinality(Answer) < Limit
    BY <1>4, <2>2, <2>3 DEF Truncated
  <2>5. QED
    BY <1>1, <2>1, <2>3, <2>4, NewestAll
<1>5. QED
  BY <1>2, <1>3, <1>4

\* The newest clock of an item's points.
LEMMA LatestFacts ==
    ASSUME Shape, NEW i \in Returned
    PROVE  /\ \E p \in Answer : p.item = i /\ p.clock = LatestClock(i)
           /\ \A p \in Answer : p.item = i => p.clock <= LatestClock(i)
<1>1. \A p \in Answer : p.clock \in Nat /\ p.clock <= now
  BY AnswerFacts DEF Shape, Point
<1>2. now \in Nat
  BY DEF Shape
<1> DEFINE D == {d \in Nat : \E p \in Answer : p.item = i /\ p.clock = now - d}
<1>3. D # {}
  <2>1. PICK p \in Answer : p.item = i
    BY DEF Returned
  <2>2. now - p.clock \in Nat /\ p.clock = now - (now - p.clock)
    BY <1>1, <1>2
  <2>3. now - p.clock \in D
    BY <2>1, <2>2
  <2>4. QED
    BY <2>3
<1>4. PICK d \in D : \A e \in D : ~ (<<e, d>> \in OpToRel(<, Nat))
  BY <1>3, NatLessThanWellFounded, WFMin
<1>5. PICK p \in Answer : p.item = i /\ p.clock = now - d
  BY <1>4
<1>6. ASSUME NEW q \in Answer, q.item = i PROVE q.clock <= p.clock
  <2>1. now - q.clock \in Nat /\ q.clock = now - (now - q.clock)
    BY <1>1, <1>2
  <2>2. now - q.clock \in D
    BY <1>6, <2>1
  <2>3. ~(now - q.clock < d) /\ d \in Nat
    BY <1>4, <2>2 DEF OpToRel
  <2>4. QED
    BY <1>1, <1>2, <1>5, <2>3
<1>7. LET c == p.clock
      IN /\ c \in {q.clock : q \in Answer}
         /\ \E q \in Answer : q.item = i /\ q.clock = c
         /\ \A q \in Answer : q.item = i => q.clock <= c
  BY <1>5, <1>6
<1>8. QED
  BY <1>7 DEF LatestClock

-----------------------------------------------------------------------------
(* What a step leaves alone.                                               *)

LEMMA MarksStay ==
    ASSUME Shape, MarksReach, Forward, history' = history,
           \A b \in SUBSET Items : watermark'[b] # Absent => watermark'[b] = watermark[b]
    PROVE  MarksReach'
<1> SUFFICES ASSUME NEW b \in SUBSET Items, watermark'[b] # Absent,
                    NEW p \in history, p.item \in b, ~p.late
             PROVE  ReachedNext(p, watermark'[b])
  BY DEF MarksReach, Reached, ReachedNext, Held, HeldNext
<1>1. watermark'[b] = watermark[b] /\ watermark[b] # Absent
  OBVIOUS
<1>2. Reached(p, watermark[b])
  BY <1>1 DEF MarksReach
<1>3. \A w : Reached(p, w) => ReachedNext(p, w)
  BY ReachedStays
<1>4. QED
  BY <1>1, <1>2, <1>3

LEMMA WindowStays ==
    ASSUME Shape, WindowReaches, Forward, history' = history,
           task'.batch = task.batch, task'.from = task.from, task'.till = task.till
    PROVE  WindowReaches'
<1> SUFFICES ASSUME NEW p \in history, p.item \in task.batch, ~p.late
             PROVE  p.clock >= task.from \/ ReachedNext(p, task.till)
  BY DEF WindowReaches, Reached, ReachedNext, Held, HeldNext
<1>1. \A w : Reached(p, w) => ReachedNext(p, w)
  BY ReachedStays
<1>2. p.clock >= task.from \/ Reached(p, task.till)
  BY DEF WindowReaches
<1>3. QED
  BY <1>1, <1>2

\* With nothing new outstanding answered, and nothing else in the batch.
LEMMA AnswersStay ==
    ASSUME Shape, AnswersReach, Forward, history' = history,
           task'.batch = task.batch, task'.till = task.till,
           task'.complete => task.complete, Outstanding' = Outstanding
    PROVE  AnswersReach'
<1> SUFFICES ASSUME task.complete, NEW p \in history,
                    p.item \in task.batch \ Outstanding, ~p.late
             PROVE  ReachedNext(p, task.till)
  BY DEF AnswersReach, Reached, ReachedNext, Held, HeldNext
<1>1. \A w : Reached(p, w) => ReachedNext(p, w)
  BY ReachedStays
<1>2. Reached(p, task.till)
  BY DEF AnswersReach
<1>3. QED
  BY <1>1, <1>2

LEMMA WorkStays ==
    ASSUME Working, history \subseteq history', task'.stack = task.stack,
           task'.batch = task.batch, task'.misses = task.misses, task'.had = task.had,
           task'.from = task.from, task'.till = task.till
    PROVE  Working'
BY DEF Working

\* Between two batches.
LEMMA NoBatch ==
    ASSUME task'.batch = {}, task'.misses = {}, task'.had = {}, task'.stack = <<>>
    PROVE  Working' /\ WindowReaches' /\ AnswersReach'
<1>1. \A n \in 1..Len(<<>>) : FALSE
  OBVIOUS
<1>2. Working'
  BY <1>1 DEF Working
<1>3. WindowReaches' /\ AnswersReach'
  BY DEF WindowReaches, AnswersReach
<1>4. QED
  BY <1>2, <1>3

\* A step that changes nothing of the attempt and of the points.
LEMMA QuietStep ==
    ASSUME IInv, Shape', Forward, history' = history,
           \A b \in SUBSET Items : watermark'[b] # Absent => watermark'[b] = watermark[b],
           task'.stack = task.stack, task'.batch = task.batch, task'.misses = task.misses,
           task'.had = task.had, task'.from = task.from, task'.till = task.till,
           task'.complete = task.complete
    PROVE  IInv'
<1>1. Outstanding' = Outstanding
  BY DEF Outstanding
<1>2. MarksReach' /\ WindowReaches' /\ AnswersReach' /\ Working'
  BY <1>1, MarksStay, WindowStays, AnswersStay, WorkStays DEF IInv
<1>3. QED
  BY <1>2 DEF IInv

-----------------------------------------------------------------------------
(* Steps of the world: time, Zabbix and the metadata loop.                 *)

LEMMA TickStep ==
    ASSUME IInv, Tick
    PROVE  IInv'
<1>1. /\ now' = now + 1 /\ now \in Nat
      /\ UNCHANGED <<history, metadata, watermark, values, task, given_up>>
  BY DEF Tick, IInv, Shape
<1>2. Shape'
  <2>1. \A n \in Nat : n <= now => n <= now + 1
    BY <1>1
  <2>2. \A p \in history : p.clock \in Nat
    BY DEF IInv, Shape, Point
  <2>3. task.till \in Nat
    BY DEF IInv, Shape, TaskRecord
  <2>4. \A b \in SUBSET Items : watermark[b] # Absent => watermark[b] \in Nat
    BY DEF IInv, Shape
  <2>5. /\ now + 1 \in Nat /\ \A p \in history : p.clock <= now + 1
        /\ task.till <= now + 1
        /\ \A b \in SUBSET Items : watermark[b] # Absent => watermark[b] <= now + 1
    BY <1>1, <2>1, <2>2, <2>3, <2>4 DEF IInv, Shape
  <2>6. QED
    BY <1>1, <2>5 DEF IInv, Shape, metadata
<1>3. Forward
  BY <1>1 DEF Forward, IInv, Shape, Held, HeldNext
<1>4. QED
  BY <1>1, <1>2, <1>3, QuietStep

\* A point that is not late is within the overlap of every mark and window there is.
LEMMA ArriveStep ==
    ASSUME IInv, NEW i \in Items, NEW clock \in Nat, Arrive(i, clock)
    PROVE  IInv'
<1> DEFINE late == now - clock > overlapForDelay
           new == [item |-> i, clock |-> clock, late |-> late]
<1>1. /\ clock <= now /\ history' = history \cup {new}
      /\ \A p \in history : p.item = i => p.clock # clock
      /\ UNCHANGED <<now, metadata, watermark, values, task, given_up>>
  BY DEF Arrive
<1>2. late \in BOOLEAN
  OBVIOUS
<1>3. ~late => \A w \in Nat : w <= now => clock >= Back(w, overlapForDelay)
  BY WindowTypes DEF Back, IInv, Shape
<1> HIDE DEF late
<1>4. new \in Point /\ new.item = i /\ new.clock = clock /\ new.late = late
  BY <1>2 DEF Point
<1> HIDE DEF new
<1>5. Shape'
  <2>1. IsFiniteSet(history')
    BY <1>1, FS_AddElement DEF IInv, Shape
  <2>2. /\ history' \subseteq Point /\ \A p \in history' : p.clock <= now
        /\ \A p, q \in history' : p.item = q.item /\ p.clock = q.clock => p = q
    BY <1>1, <1>4 DEF IInv, Shape
  <2>3. QED
    BY <1>1, <2>1, <2>2 DEF IInv, Shape, metadata
<1>6. Working'
  BY <1>1, WorkStays DEF IInv
<1>7. ~new.late => \A w \in Nat : w <= now => Reached(new, w)
  BY <1>3, <1>4 DEF Reached
<1>8. \A p, w : Reached(p, w)' <=> Reached(p, w)
  BY <1>1 DEF Reached, Held
<1>9. MarksReach'
  <2> SUFFICES ASSUME NEW b \in SUBSET Items, watermark[b] # Absent,
                      NEW p \in history \cup {new}, p.item \in b, ~p.late
               PROVE  Reached(p, watermark[b])
    BY <1>1, <1>8 DEF MarksReach
  <2>1. CASE p \in history
    BY <2>1 DEF IInv, MarksReach
  <2>2. CASE p = new
    <3>1. watermark[b] \in Nat /\ watermark[b] <= now
      BY DEF IInv, Shape
    <3>2. QED
      BY <1>7, <2>2, <3>1
  <2>3. QED
    BY <2>1, <2>2
<1>10. task.till \in Nat /\ task.till <= now
  BY DEF IInv, Shape, TaskRecord
<1>11. WindowReaches'
  <2> SUFFICES ASSUME NEW p \in history \cup {new}, p.item \in task.batch, ~p.late
               PROVE  p.clock >= task.from \/ Reached(p, task.till)
    BY <1>1, <1>8 DEF WindowReaches
  <2>1. CASE p \in history
    BY <2>1 DEF IInv, WindowReaches
  <2>2. CASE p = new
    BY <1>7, <1>10, <2>2
  <2>3. QED
    BY <2>1, <2>2
<1>12. AnswersReach'
  <2> SUFFICES ASSUME task.complete, NEW p \in history \cup {new},
                      p.item \in task.batch \ Outstanding, ~p.late
               PROVE  Reached(p, task.till)
    BY <1>1, <1>8 DEF AnswersReach, Outstanding
  <2>1. CASE p \in history
    BY <2>1 DEF IInv, AnswersReach
  <2>2. CASE p = new
    BY <1>7, <1>10, <2>2
  <2>3. QED
    BY <2>1, <2>2
<1>13. QED
  BY <1>5, <1>6, <1>9, <1>11, <1>12 DEF IInv

LEMMA PublishStep ==
    ASSUME IInv, NEW next \in SUBSET Items, NEW redefined \in SUBSET Items,
           NEW off \in SUBSET Items, Publish(next, redefined, off)
    PROVE  IInv'
<1>1. /\ snapshot' = snapshot + 1 /\ obsolete' \subseteq Items /\ disabled' = off
      /\ version' = [i \in Items |->
                       IF i \notin next THEN 0
                       ELSE IF version[i] = 0 \/ i \in redefined \/ (i \in disabled) # (i \in off)
                            THEN snapshot + 1 ELSE version[i]]
      /\ UNCHANGED <<now, history, groups, watermark, values, task, given_up>>
  BY DEF Publish
<1>2. snapshot \in Nat /\ \A i \in Items : version[i] \in 0 .. snapshot
  BY DEF IInv, Shape
<1>3. version' \in [Items -> 0 .. (snapshot + 1)] /\ snapshot + 1 \in Nat
  <2>1. \A i \in Items : 0 \in 0 .. (snapshot + 1) /\ snapshot + 1 \in 0 .. (snapshot + 1)
                         /\ version[i] \in 0 .. (snapshot + 1)
    BY <1>2
  <2>2. QED
    BY <1>1, <1>2, <2>1
<1>4. Shape'
  BY <1>1, <1>3 DEF IInv, Shape
<1>5. Forward
  BY <1>1, SameIsForward DEF IInv
<1>6. QED
  BY <1>1, <1>4, <1>5, QuietStep

\* The newest clock that is given up with a value.
LEMMA GivenUpFacts ==
    ASSUME Shape, NEW i \in Items
    PROVE  /\ GivenUp(i) \in Nat \cup {-1} /\ given_up[i] <= GivenUp(i)
           /\ \A clock \in Nat : Held(i, clock) => clock <= GivenUp(i)
<1>1. given_up[i] \in Nat \cup {-1} /\ values[i] \in Value \cup {Absent}
  BY DEF Shape
<1>2. CASE values[i] = Absent
  BY <1>1, <1>2 DEF GivenUp, Held
<1>3. CASE values[i] # Absent
  <2>1. values[i].clock \in Nat
    BY <1>1, <1>3 DEF Value
  <2>2. QED
    BY <1>1, <1>3, <2>1 DEF GivenUp, Held, AtLeast
<1>4. QED
  BY <1>2, <1>3

LEMMA ReconcileStep ==
    ASSUME IInv, Reconcile
    PROVE  IInv'
<1> DEFINE kept == Enabled
           orphan == task.orphan \/ task.batch \notin Batches(kept) \cup {{}}
<1>1. /\ values' = [i \in Items |-> IF i \in obsolete THEN Absent ELSE values[i]]
      /\ given_up' = [i \in Items |-> IF i \in obsolete THEN GivenUp(i) ELSE given_up[i]]
      /\ obsolete' = {} /\ groups' = kept
      /\ watermark' = [b \in SUBSET Items |-> IF b \in Batches(kept) THEN watermark[b] ELSE Absent]
      /\ task' = [task EXCEPT !.orphan = orphan]
      /\ UNCHANGED <<now, history, snapshot, version, disabled>>
  BY DEF Reconcile
<1>2. task \in TaskRecord
  BY DEF IInv, Shape
<1>3. orphan \in BOOLEAN
  BY <1>2 DEF TaskRecord
<1>4. groups' \subseteq Items
  BY <1>1 DEF Enabled
<1> HIDE DEF orphan, kept
<1>5. /\ task' \in TaskRecord /\ task'.stack = task.stack /\ task'.batch = task.batch
      /\ task'.misses = task.misses /\ task'.had = task.had /\ task'.from = task.from
      /\ task'.till = task.till /\ task'.complete = task.complete
  BY <1>1, <1>2, <1>3 DEF TaskRecord
<1>6. /\ watermark' \in [SUBSET Items -> Nat \cup {Absent}]
      /\ \A b \in SUBSET Items : watermark'[b] # Absent => watermark'[b] = watermark[b]
  BY <1>1 DEF IInv, Shape
<1>7. /\ values' \in [Items -> Value \cup {Absent}]
      /\ given_up' \in [Items -> Nat \cup {-1}]
  BY <1>1, GivenUpFacts DEF IInv, Shape
<1>8. Shape'
  BY <1>1, <1>4, <1>5, <1>6, <1>7 DEF IInv, Shape
<1>9. Forward
  <2> SUFFICES ASSUME NEW i \in Items, NEW clock \in Nat, Held(i, clock)
               PROVE  HeldNext(i, clock)
    BY <1>1 DEF Forward, IInv, Shape
  <2>1. CASE i \in obsolete
    BY <1>1, <2>1, GivenUpFacts DEF IInv, HeldNext
  <2>2. CASE i \notin obsolete
    BY <1>1, <2>2 DEF Held, HeldNext
  <2>3. QED
    BY <2>1, <2>2
<1>10. QED
  BY <1>1, <1>5, <1>6, <1>8, <1>9, QuietStep

-----------------------------------------------------------------------------
(* A collection begins, and goes from batch to batch.                      *)

LEMMA BatchesType ==
    ASSUME NEW S \in SUBSET Items
    PROVE  BatchesOf(S) \in Seq(SUBSET Items)
<1> DEFINE n == CeilDiv(Cardinality(S), BatchSize)
<1>1. Cardinality(S) \in Nat
  BY CollectorAssumption, FS_Subset, FS_CardinalityType
<1>2. n \in Nat
  <2>1. BatchSize \in Nat \ {0} /\ Cardinality(S) + BatchSize - 1 \in Nat
    BY <1>1, CollectorAssumption
  <2>2. QED
    BY <2>1 DEF CeilDiv
<1> HIDE DEF n
<1>3. BatchesOf(S) = [k \in 1..n |-> {i \in S : CeilDiv(Rank(i, S), BatchSize) = k}]
  BY DEF BatchesOf, n
<1>4. \A k \in 1..n : {i \in S : CeilDiv(Rank(i, S), BatchSize) = k} \in SUBSET Items
  OBVIOUS
<1>5. BatchesOf(S) \in [1..n -> SUBSET Items]
  BY <1>3, <1>4
<1>6. QED
  BY <1>2, <1>5

LEMMA IdleTaskFacts ==
    /\ IdleTask \in TaskRecord /\ IdleTask.till = 0 /\ IdleTask.from = 0
    /\ IdleTask.batch = {} /\ IdleTask.misses = {} /\ IdleTask.had = {}
    /\ IdleTask.stack = <<>>
<1>1. [i \in Items |-> 0] \in [Items -> Nat]
  OBVIOUS
<1>2. <<>> \in Seq(SUBSET Items) /\ <<>> \in Seq(Segment)
  OBVIOUS
<1>3. QED
  BY <1>1, <1>2 DEF IdleTask, TaskRecord

\* A step of the attempt alone.
LEMMA TaskShape ==
    ASSUME Shape, UNCHANGED <<now, history, metadata, watermark, values, given_up>>,
           task' \in TaskRecord, task'.till <= now, task'.from <= task'.till
    PROVE  Shape'
BY DEF Shape, metadata

\* Into, out of, or between two batches.
LEMMA OutsideBatch ==
    ASSUME IInv, UNCHANGED <<now, history, metadata, watermark, values, given_up>>,
           task' \in TaskRecord, task'.till <= now, task'.from = 0,
           task'.batch = {}, task'.misses = {}, task'.had = {}, task'.stack = <<>>
    PROVE  IInv'
<1>1. Shape'
  <2>1. 0 <= task'.till
    BY DEF TaskRecord
  <2>2. QED
    BY <2>1, TaskShape DEF IInv
<1>2. Working' /\ WindowReaches' /\ AnswersReach'
  BY NoBatch
<1>3. MarksReach'
  BY MarksStay, SameIsForward DEF IInv
<1>4. QED
  BY <1>1, <1>2, <1>3 DEF IInv

LEMMA CollectGroupStep ==
    ASSUME IInv, NEW step \in ClockSteps, CollectGroup(step)
    PROVE  IInv'
<1> DEFINE till == Back(now, step)
           batches == BatchesOf(groups)
<1>1. /\ task' = [IdleTask EXCEPT !.running = TRUE, !.till = till, !.batches = batches]
      /\ UNCHANGED <<now, history, metadata, watermark, values, given_up>>
  BY DEF CollectGroup
<1>2. till \in Nat /\ till <= now
  <2>1. now \in Nat /\ step \in Nat
    BY CollectorAssumption DEF IInv, Shape
  <2>2. QED
    BY <2>1, WindowTypes
<1>3. batches \in Seq(SUBSET Items)
  BY BatchesType DEF IInv, Shape
<1> HIDE DEF till, batches
<1>4. /\ task' \in TaskRecord /\ task'.till = till /\ task'.from = 0
      /\ task'.batch = {} /\ task'.misses = {} /\ task'.had = {} /\ task'.stack = <<>>
  BY <1>1, <1>2, <1>3, IdleTaskFacts DEF TaskRecord
<1>5. QED
  BY <1>1, <1>2, <1>4, OutsideBatch

LEMMA EndGroupStep ==
    ASSUME IInv, EndGroup
    PROVE  IInv'
<1>1. /\ task' = IdleTask /\ UNCHANGED <<now, history, metadata, watermark, values, given_up>>
  BY DEF EndGroup
<1>2. 0 <= now
  BY DEF IInv, Shape
<1>3. QED
  BY <1>1, <1>2, IdleTaskFacts, OutsideBatch

\* The batches that are left.
LEMMA BatchesLeft ==
    ASSUME Shape, task.batches # <<>>
    PROVE  Head(task.batches) \in SUBSET Items /\ Tail(task.batches) \in Seq(SUBSET Items)
<1>1. task.batches \in Seq(SUBSET Items)
  BY DEF Shape, TaskRecord
<1>2. QED
  BY <1>1, HeadTailProperties

LEMMA RefuseBatchStep ==
    ASSUME IInv, RefuseBatch
    PROVE  IInv'
<1> DEFINE batches == Tail(task.batches)
<1>1. /\ task' = [task EXCEPT !.batches = batches]
      /\ UNCHANGED <<now, history, metadata, watermark, values, given_up>>
      /\ task.batches # <<>>
  BY DEF RefuseBatch, NextBatch
<1>2. batches \in Seq(SUBSET Items) /\ task \in TaskRecord
  BY <1>1, BatchesLeft DEF IInv, Shape
<1> HIDE DEF batches
<1>3. /\ task' \in TaskRecord /\ task'.stack = task.stack /\ task'.batch = task.batch
      /\ task'.misses = task.misses /\ task'.had = task.had /\ task'.from = task.from
      /\ task'.till = task.till /\ task'.complete = task.complete
  BY <1>1, <1>2 DEF TaskRecord
<1>4. Shape'
  BY <1>1, <1>3, TaskShape DEF IInv, Shape
<1>5. Forward
  BY <1>1, SameIsForward DEF IInv
<1>6. QED
  BY <1>1, <1>3, <1>4, <1>5, QuietStep

\* The window begins an overlap before the mark, or as long ago as a value lives.
LEMMA BeginBatchStep ==
    ASSUME IInv, BeginBatch
    PROVE  IInv'
<1> DEFINE batch == Head(task.batches)
           mark == watermark[batch]
           from == TimeFrom(mark, task.till)
           till == task.till
           batches == Tail(task.batches)
           seg == [items |-> batch, depth |-> 0]
           had == {p.item : p \in {q \in history : from <= q.clock /\ q.clock <= till}}
<1>1. /\ task' = [task EXCEPT !.batches = batches, !.batch = batch, !.from = from,
                              !.snap = version, !.stack = <<seg>>, !.had = had]
      /\ MayBegin(mark) /\ task.batches # <<>> /\ task.batch = {}
      /\ UNCHANGED <<now, history, metadata, watermark, values, given_up>>
  BY DEF BeginBatch, NextBatch
<1>2. /\ task \in TaskRecord /\ till \in Nat /\ till <= now
      /\ batch \in SUBSET Items /\ batches \in Seq(SUBSET Items)
  BY <1>1, BatchesLeft DEF IInv, Shape, TaskRecord
<1>3. mark # Absent => mark \in Nat /\ mark <= till
  BY <1>1, <1>2 DEF MayBegin, IInv, Shape
<1>4. from \in Nat /\ from <= till
  <2>1. CASE mark = Absent
    BY <1>2, <2>1, WindowTypes DEF TimeFrom
  <2>2. CASE mark # Absent
    <3>1. from = Back(mark, overlapForDelay)
      BY <2>2 DEF TimeFrom
    <3>2. from \in Nat /\ from <= mark
      BY <1>3, <2>2, <3>1, WindowTypes
    <3>3. QED
      BY <1>2, <1>3, <2>2, <3>2
  <2>3. QED
    BY <2>1, <2>2
<1>5. seg \in Segment /\ <<seg>> \in Seq(Segment) /\ Len(<<seg>>) = 1 /\ <<seg>>[1] = seg
      /\ seg.items = batch
  BY <1>2 DEF Segment
<1>6. had \subseteq Items
  BY DEF IInv, Shape, Point
<1>7. version \in [Items -> Nat]
  <2>1. \A n \in 0..snapshot : n \in Nat
    BY DEF IInv, Shape
  <2>2. QED
    BY <2>1 DEF IInv, Shape
<1>8. /\ mark = watermark[batch] /\ from = TimeFrom(mark, till) /\ till = task.till
      /\ \A i \in had : \E p \in history : p.item = i /\ from <= p.clock /\ p.clock <= till
  OBVIOUS
<1> HIDE DEF batch, mark, from, till, batches, seg, had
<1>9. /\ task' \in TaskRecord /\ task'.stack = <<seg>> /\ task'.batch = batch
      /\ task'.misses = task.misses /\ task'.had = had /\ task'.from = from
      /\ task'.till = till /\ task'.complete = task.complete
  BY <1>1, <1>2, <1>4, <1>5, <1>6, <1>7, <1>8 DEF TaskRecord
<1>10. Shape'
  BY <1>1, <1>2, <1>4, <1>9, TaskShape DEF IInv
<1>11. task.misses = {}
  BY <1>1 DEF IInv, Working
<1>12. Working'
  <2>1. \A n \in 1..1 : <<seg>>[n].items \subseteq batch
    BY <1>5
  <2>2. QED
    BY <1>1, <1>5, <1>8, <1>9, <1>11, <2>1 DEF Working
<1>13. MarksReach'
  BY <1>1, MarksStay, SameIsForward DEF IInv
<1>14. WindowReaches'
  <2> SUFFICES ASSUME NEW p \in history, p.item \in batch, ~p.late
               PROVE  p.clock >= from \/ Reached(p, till)
    BY <1>1, <1>9 DEF WindowReaches, Reached, Held
  <2>1. p.clock \in Nat
    BY DEF IInv, Shape, Point
  <2>2. CASE mark = Absent
    <3>1. PICK life \in Nat : /\ ValueExpireAt(p.clock, Delay) = p.clock + life
                              /\ life <= bootstrapWindow
      BY <2>1, Lifetime
    <3>2. from = Back(till, bootstrapWindow)
      BY <1>8, <2>2 DEF TimeFrom
    <3>3. bootstrapWindow \in Nat /\ now \in Nat
      BY WindowTypes DEF IInv, Shape
    <3>4. ASSUME p.clock < from PROVE p.clock + life <= now
      <4>1. from = IF bootstrapWindow > till THEN 0 ELSE till - bootstrapWindow
        BY <3>2 DEF Back
      <4>2. from = till - bootstrapWindow
        BY <1>4, <2>1, <3>4, <4>1
      <4>3. QED
        BY <1>2, <1>4, <2>1, <3>1, <3>3, <3>4, <4>2
    <3>5. QED
      BY <1>4, <2>1, <3>1, <3>4 DEF Reached
  <2>3. CASE mark # Absent
    <3>1. Reached(p, mark)
      BY <1>2, <1>8, <2>3 DEF IInv, MarksReach
    <3>2. from = Back(mark, overlapForDelay)
      BY <1>8, <2>3 DEF TimeFrom
    <3>3. QED
      BY <3>1, <3>2 DEF Reached
  <2>4. QED
    BY <2>2, <2>3
<1>15. AnswersReach'
  <2>1. Outstanding' = batch
    <3>1. \A i \in Items : (\E n \in 1..1 : i \in <<seg>>[n].items) <=> i \in batch
      BY <1>5
    <3>2. Outstanding' = {i \in Items : \E n \in 1..1 : i \in <<seg>>[n].items}
      BY <1>5, <1>9 DEF Outstanding
    <3>3. QED
      BY <1>2, <3>1, <3>2
  <2>2. QED
    BY <1>9, <2>1 DEF AnswersReach
<1>16. QED
  BY <1>10, <1>12, <1>13, <1>14, <1>15 DEF IInv

-----------------------------------------------------------------------------
(* The parts of an attempt.                                                *)

StackItems(s) == {i \in Items : \E n \in 1..Len(s) : i \in s[n].items}

WithinBatch(s) == \A n \in 1..Len(s) : s[n].items \subseteq task.batch

\* What is outstanding is asked for now or later.
LEMMA TailItems ==
    ASSUME IInv, Asking
    PROVE  /\ Outstanding = Asked \cup StackItems(Tail(task.stack))
           /\ Asked \subseteq task.batch /\ WithinBatch(Tail(task.stack))
<1> DEFINE s == task.stack
           t == Tail(task.stack)
<1>1. /\ Len(s) \in Nat \ {0} /\ s[1].items = Asked /\ Asked \in SUBSET Items
      /\ Len(t) = Len(s) - 1 /\ \A n \in 1..Len(t) : t[n] = s[n + 1]
  BY StackFacts DEF IInv
<1>2. \A n \in 1..Len(s) : s[n].items \subseteq task.batch
  BY DEF IInv, Working
<1>3. Outstanding = {i \in Items : \E n \in 1..Len(s) : i \in s[n].items}
  BY DEF Outstanding
<1> HIDE DEF s, t
<1>4. 1 \in 1..Len(s) /\ \A n \in 1..Len(t) : n + 1 \in 1..Len(s)
  BY <1>1
<1>5. \A n \in 1..Len(s) : n = 1 \/ (n - 1 \in 1..Len(t) /\ t[n - 1] = s[n])
  <2> SUFFICES ASSUME NEW n \in 1..Len(s), n # 1
               PROVE  n - 1 \in 1..Len(t) /\ t[n - 1] = s[n]
    OBVIOUS
  <2>1. n - 1 \in 1..Len(t) /\ (n - 1) + 1 = n
    BY <1>1
  <2>2. QED
    BY <1>1, <2>1
<1>6. \A i \in Items : (\E n \in 1..Len(s) : i \in s[n].items) <=>
                       (i \in Asked \/ \E n \in 1..Len(t) : i \in t[n].items)
  <2> SUFFICES ASSUME NEW i \in Items
               PROVE  (\E n \in 1..Len(s) : i \in s[n].items) <=>
                      (i \in Asked \/ \E n \in 1..Len(t) : i \in t[n].items)
    OBVIOUS
  <2>1. ASSUME NEW n \in 1..Len(s), i \in s[n].items
        PROVE  i \in Asked \/ \E m \in 1..Len(t) : i \in t[m].items
    BY <1>1, <1>5, <2>1
  <2>2. ASSUME i \in Asked PROVE \E n \in 1..Len(s) : i \in s[n].items
    BY <1>1, <1>4, <2>2
  <2>3. ASSUME NEW n \in 1..Len(t), i \in t[n].items
        PROVE  \E m \in 1..Len(s) : i \in s[m].items
    BY <1>1, <1>4, <2>3
  <2>4. QED
    BY <2>1, <2>2, <2>3
<1>7. Outstanding = Asked \cup StackItems(t)
  BY <1>1, <1>3, <1>6 DEF StackItems
<1>8. Asked \subseteq task.batch
  BY <1>1, <1>2, <1>4
<1>9. WithinBatch(t)
  BY <1>1, <1>2, <1>4 DEF WithinBatch
<1>10. QED
  BY <1>7, <1>8, <1>9 DEF t

\* Both halves are asked for.
LEMMA Halves ==
    ASSUME NEW S \in SUBSET Items
    PROVE  LeftHalf(S) \cup RightHalf(S) = S
<1>1. IsFiniteSet(S) /\ Cardinality(S) \in Nat
  BY CollectorAssumption, FS_Subset, FS_CardinalityType
<1>2. Cardinality(S) \div 2 \in Nat
  BY <1>1
<1>3. \A i \in S : Rank(i, S) \in Nat
  <2> SUFFICES ASSUME NEW i \in S PROVE Rank(i, S) \in Nat
    OBVIOUS
  <2>1. {j \in S : j <= i} \subseteq S
    OBVIOUS
  <2>2. QED
    BY <1>1, <2>1, FS_Subset, FS_CardinalityType DEF Rank
<1>4. \A i \in S : Rank(i, S) <= Cardinality(S) \div 2 \/ Rank(i, S) > Cardinality(S) \div 2
  BY <1>2, <1>3
<1>5. QED
  BY <1>4 DEF LeftHalf, RightHalf

LEMMA SplitStep ==
    ASSUME IInv, Split
    PROVE  IInv'
<1> DEFINE depth == Head(task.stack).depth + 1
           l == [items |-> LeftHalf(Asked), depth |-> depth]
           r == [items |-> RightHalf(Asked), depth |-> depth]
           t == Tail(task.stack)
           s == <<l, r>> \o t
<1>1. /\ task' = [task EXCEPT !.stack = s] /\ Asking
      /\ UNCHANGED <<now, history, metadata, watermark, values, given_up>>
  BY DEF Split
<1>2. /\ Asked \in SUBSET Items /\ depth \in Nat /\ t \in Seq(Segment)
  BY <1>1, StackFacts DEF IInv
<1>3. /\ l \in Segment /\ r \in Segment /\ l.items \cup r.items = Asked
  <2>1. LeftHalf(Asked) \subseteq Items /\ RightHalf(Asked) \subseteq Items
    BY <1>2 DEF LeftHalf, RightHalf
  <2>2. LeftHalf(Asked) \cup RightHalf(Asked) = Asked
    BY <1>2, Halves
  <2> HIDE DEF depth
  <2>3. QED
    BY <1>2, <2>1, <2>2 DEF Segment
<1>4. /\ Outstanding = Asked \cup StackItems(t) /\ Asked \subseteq task.batch /\ WithinBatch(t)
  BY <1>1, TailItems
<1> HIDE DEF l, r, t, depth
<1> DEFINE h == <<l, r>>
<1>5. h \in Seq(Segment) /\ Len(h) = 2 /\ h[1] = l /\ h[2] = r
  BY <1>3
<1>6. Len(t) \in Nat
  BY <1>2, LenProperties
<1> HIDE DEF h
<1>7. /\ s \in Seq(Segment) /\ Len(s) = 2 + Len(t)
      /\ \A n \in 1..(2 + Len(t)) : s[n] = IF n <= 2 THEN h[n] ELSE t[n - 2]
  <2>1. /\ h \o t \in Seq(Segment) /\ Len(h \o t) = Len(h) + Len(t)
        /\ \A n \in 1..(Len(h) + Len(t)) :
             (h \o t)[n] = IF n <= Len(h) THEN h[n] ELSE t[n - Len(h)]
    BY <1>2, <1>5, ConcatProperties
  <2>2. s = h \o t
    BY DEF h
  <2> HIDE DEF s
  <2>3. QED
    BY <1>5, <2>1, <2>2
<1> HIDE DEF s
<1>8. /\ 1 \in 1..Len(s) /\ 2 \in 1..Len(s) /\ s[1] = l /\ s[2] = r
      /\ \A n \in 1..Len(t) : n + 2 \in 1..Len(s) /\ s[n + 2] = t[n]
      /\ \A n \in 1..Len(s) : n = 1 \/ n = 2 \/ (n - 2 \in 1..Len(t) /\ s[n] = t[n - 2])
  <2>1. 1 \in 1..(2 + Len(t)) /\ 2 \in 1..(2 + Len(t)) /\ s[1] = l /\ s[2] = r
    BY <1>5, <1>6, <1>7
  <2>2. ASSUME NEW n \in 1..Len(t) PROVE n + 2 \in 1..(2 + Len(t)) /\ s[n + 2] = t[n]
    <3>1. n + 2 \in 1..(2 + Len(t)) /\ ~(n + 2 <= 2) /\ (n + 2) - 2 = n
      BY <1>6
    <3>2. QED
      BY <1>7, <3>1
  <2>3. ASSUME NEW n \in 1..(2 + Len(t)), n # 1, n # 2
        PROVE  n - 2 \in 1..Len(t) /\ s[n] = t[n - 2]
    <3>1. n - 2 \in 1..Len(t) /\ ~(n <= 2)
      BY <1>6, <2>3
    <3>2. QED
      BY <1>7, <3>1
  <2>4. QED
    BY <1>7, <2>1, <2>2, <2>3
<1>9. StackItems(s) = Outstanding
  <2>1. \A i \in Items : i \in StackItems(s) => i \in Asked \/ i \in StackItems(t)
    BY <1>3, <1>8 DEF StackItems
  <2>2. \A i \in Items : i \in Asked => i \in StackItems(s)
    <3> SUFFICES ASSUME NEW i \in Items, i \in Asked PROVE \E n \in 1..Len(s) : i \in s[n].items
      BY DEF StackItems
    <3>1. i \in l.items \/ i \in r.items
      BY <1>3
    <3>2. QED
      BY <1>8, <3>1
  <2>3. \A i \in Items : i \in StackItems(t) => i \in StackItems(s)
    BY <1>8 DEF StackItems
  <2>4. StackItems(s) \subseteq Items /\ StackItems(t) \subseteq Items
    BY DEF StackItems
  <2>5. QED
    BY <1>2, <1>4, <2>1, <2>2, <2>3, <2>4
<1>10. WithinBatch(s)
  <2>1. l.items \subseteq task.batch /\ r.items \subseteq task.batch
    BY <1>3, <1>4
  <2>2. QED
    BY <1>4, <1>8, <2>1 DEF WithinBatch
<1>11. /\ task' \in TaskRecord /\ task'.stack = s /\ task'.batch = task.batch
       /\ task'.misses = task.misses /\ task'.had = task.had /\ task'.from = task.from
       /\ task'.till = task.till /\ task'.complete = task.complete
  <2>1. task \in TaskRecord
    BY DEF IInv, Shape
  <2>2. QED
    BY <1>1, <1>7, <2>1 DEF TaskRecord
<1>12. Shape'
  BY <1>1, <1>11, TaskShape DEF IInv, Shape
<1>13. Working'
  <2>1. \A n \in 1..Len(s) : s[n].items \subseteq task.batch
    BY <1>10 DEF WithinBatch
  <2>2. QED
    BY <1>1, <1>11, <2>1 DEF IInv, Working
<1>14. Outstanding' = Outstanding
  <2>1. Outstanding' = StackItems(s)
    BY <1>11 DEF Outstanding, StackItems
  <2>2. QED
    BY <1>9, <2>1
<1>15. MarksReach' /\ WindowReaches' /\ AnswersReach'
  BY <1>1, <1>11, <1>14, MarksStay, WindowStays, AnswersStay, SameIsForward DEF IInv
<1>16. QED
  BY <1>12, <1>13, <1>15 DEF IInv

LEMMA FailStep ==
    ASSUME IInv, Fail
    PROVE  IInv'
<1> DEFINE t == Tail(task.stack)
<1>1. /\ task' = [task EXCEPT !.complete = FALSE, !.stack = t] /\ Asking
      /\ UNCHANGED <<now, history, metadata, watermark, values, given_up>>
  BY DEF Fail, Incomplete
<1>2. t \in Seq(Segment) /\ task \in TaskRecord /\ WithinBatch(t)
  BY <1>1, StackFacts, TailItems DEF IInv, Shape
<1> HIDE DEF t
<1>3. /\ task' \in TaskRecord /\ task'.stack = t /\ task'.batch = task.batch
      /\ task'.misses = task.misses /\ task'.had = task.had /\ task'.from = task.from
      /\ task'.till = task.till /\ task'.complete = FALSE
  BY <1>1, <1>2 DEF TaskRecord
<1>4. Shape'
  BY <1>1, <1>3, TaskShape DEF IInv, Shape
<1>5. Working'
  BY <1>1, <1>2, <1>3 DEF IInv, Working, WithinBatch
<1>6. MarksReach' /\ WindowReaches'
  BY <1>1, <1>3, MarksStay, WindowStays, SameIsForward DEF IInv
<1>7. AnswersReach'
  BY <1>3 DEF AnswersReach
<1>8. QED
  BY <1>4, <1>5, <1>6, <1>7 DEF IInv

\* Who is answered, and with which clock.
LEMMA AliveFacts ==
    ASSUME Shape
    PROVE  /\ Writable \subseteq Alive /\ Dropped \subseteq Alive
           /\ Alive \subseteq Returned /\ Returned \subseteq Items
           /\ \A i \in Returned : LatestClock(i) \in Nat
<1>1. Returned \subseteq Items
  BY AnswerFacts DEF Returned, Shape, Point
<1>2. ASSUME NEW i \in Returned PROVE LatestClock(i) \in Nat
  <2>1. PICK p \in Answer : p.item = i /\ p.clock = LatestClock(i)
    BY LatestFacts
  <2>2. p.clock \in Nat
    BY AnswerFacts DEF Shape, Point
  <2>3. QED
    BY <2>1, <2>2
<1>3. QED
  BY <1>1, <1>2 DEF Writable, Dropped, Alive

\* What an answer writes and gives up.
LEMMA ApplyFacts ==
    ASSUME IInv, Apply
    PROVE  /\ values' \in [Items -> Value \cup {Absent}]
           /\ given_up' \in [Items -> Nat \cup {-1}]
           /\ Forward
           /\ \A i \in Writable : HeldNext(i, LatestClock(i))
           /\ ~Stale => \A i \in Dropped : HeldNext(i, LatestClock(i))
           /\ \A i \in Items : values[i] # Absent => values'[i].misses <= values[i].misses
<1> DEFINE replaced(i) == i \in Writable /\ values[i] # Absent /\ values[i].version # version[i]
<1>1. /\ values' = [i \in Items |-> IF i \in Writable THEN Applied(i, LatestClock(i)) ELSE values[i]]
      /\ given_up' = [i \in Items |->
            IF i \in Dropped /\ ~Stale THEN AtLeast(LatestClock(i), given_up[i])
            ELSE IF replaced(i) THEN GivenUp(i) ELSE given_up[i]]
      /\ now' = now
  BY DEF Apply
<1>2. /\ values \in [Items -> Value \cup {Absent}] /\ given_up \in [Items -> Nat \cup {-1}]
      /\ now \in Nat /\ \A i \in Items : version[i] \in Nat
  BY DEF IInv, Shape
<1>3. /\ Writable \subseteq Items /\ Dropped \subseteq Items /\ Dropped \cap Writable = {}
      /\ \A i \in Writable \cup Dropped : LatestClock(i) \in Nat
  BY AliveFacts DEF IInv, Dropped
<1>4. \A i \in Items : \A c \in Nat :
        /\ Applied(i, c) \in Value /\ c <= Applied(i, c).clock
        /\ values[i] # Absent => Applied(i, c).misses <= values[i].misses
        /\ values[i] # Absent /\ values[i].version = version[i]
             => values[i].clock <= Applied(i, c).clock
  <2> SUFFICES ASSUME NEW i \in Items, NEW c \in Nat
               PROVE  /\ Applied(i, c) \in Value /\ c <= Applied(i, c).clock
                      /\ values[i] # Absent => Applied(i, c).misses <= values[i].misses
                      /\ values[i] # Absent /\ values[i].version = version[i]
                           => values[i].clock <= Applied(i, c).clock
    OBVIOUS
  <2>1. values[i] # Absent => /\ values[i] \in Value /\ values[i].misses \in Nat
                              /\ values[i].clock \in Nat
    BY <1>2 DEF Value
  <2> DEFINE v == [clock |-> c, version |-> version[i], misses |-> 0, valid |-> TRUE]
  <2>2. v \in Value /\ v.misses = 0 /\ v.clock = c
    BY <1>2 DEF Value
  <2>3. CASE values[i] # Absent /\ values[i].version = version[i] /\ ~(c > values[i].clock)
    <3>1. Applied(i, c) = values[i]
      BY <2>3 DEF Applied, sourceIsNewer
    <3>2. QED
      BY <2>1, <2>3, <3>1
  <2>4. CASE ~(values[i] # Absent /\ values[i].version = version[i] /\ ~(c > values[i].clock))
    <3>1. Applied(i, c) = v
      BY <2>4 DEF Applied, sourceIsNewer
    <3> HIDE DEF v
    <3>2. QED
      BY <2>1, <2>2, <2>4, <3>1
  <2>5. QED
    BY <2>3, <2>4
<1>5. values' \in [Items -> Value \cup {Absent}]
  BY <1>1, <1>2, <1>3, <1>4
<1>6. \A i \in Items : GivenUp(i) \in Nat \cup {-1}
  BY GivenUpFacts DEF IInv
<1>7. \A i \in Dropped : /\ AtLeast(LatestClock(i), given_up[i]) \in Nat \cup {-1}
                         /\ given_up[i] <= AtLeast(LatestClock(i), given_up[i])
                         /\ LatestClock(i) <= AtLeast(LatestClock(i), given_up[i])
  BY <1>2, <1>3 DEF AtLeast
<1>8. given_up' \in [Items -> Nat \cup {-1}]
  BY <1>1, <1>2, <1>6, <1>7
<1>9. ASSUME NEW i \in Writable PROVE HeldNext(i, LatestClock(i))
  <2>1. values'[i] = Applied(i, LatestClock(i)) /\ values'[i] \in Value
    BY <1>1, <1>3, <1>4
  <2>2. values'[i] # Absent
    BY <2>1, AbsentAssumption
  <2>3. QED
    BY <1>3, <1>4, <2>1, <2>2 DEF HeldNext
<1>10. ASSUME ~Stale, NEW i \in Dropped PROVE HeldNext(i, LatestClock(i))
  BY <1>1, <1>3, <1>7, <1>10 DEF HeldNext
<1>11. ASSUME NEW i \in Items, NEW clock \in Nat, Held(i, clock) PROVE HeldNext(i, clock)
  <2>1. given_up[i] \in Int /\ given_up'[i] \in Int
    BY <1>2, <1>8
  <2>2. given_up[i] <= given_up'[i]
    <3>1. given_up[i] <= GivenUp(i)
      BY GivenUpFacts DEF IInv
    <3>2. QED
      BY <1>1, <1>7, <2>1, <3>1
  <2>3. CASE replaced(i)
    <3>1. given_up'[i] = GivenUp(i)
      BY <1>1, <1>3, <2>3
    <3>2. QED
      BY <1>11, <3>1, GivenUpFacts DEF IInv, HeldNext
  <2>4. CASE ~replaced(i) /\ i \in Writable
    <3>1. clock <= given_up[i] => clock <= given_up'[i]
      BY <2>1, <2>2
    <3>2. ASSUME values[i] # Absent, clock <= values[i].clock
          PROVE  values'[i] # Absent /\ clock <= values'[i].clock
      <4>1. values'[i] = Applied(i, LatestClock(i)) /\ values'[i] \in Value
        BY <1>1, <1>3, <1>4, <2>4
      <4>2. values'[i] # Absent
        BY <4>1, AbsentAssumption
      <4>3. values[i].clock <= values'[i].clock
        BY <1>3, <1>4, <2>4, <3>2, <4>1
      <4>4. values[i].clock \in Nat /\ values'[i].clock \in Nat
        BY <1>2, <3>2, <4>1 DEF Value
      <4>5. QED
        BY <3>2, <4>2, <4>3, <4>4
    <3>3. QED
      BY <1>11, <3>1, <3>2 DEF Held, HeldNext
  <2>5. CASE i \notin Writable
    <3>1. values'[i] = values[i]
      BY <1>1, <2>5
    <3>2. clock <= given_up[i] => clock <= given_up'[i]
      BY <2>1, <2>2
    <3>3. QED
      BY <1>11, <3>1, <3>2 DEF Held, HeldNext
  <2>6. QED
    BY <2>3, <2>4, <2>5
<1>12. Forward
  BY <1>1, <1>2, <1>11 DEF Forward
<1>13. ASSUME NEW i \in Items, values[i] # Absent PROVE values'[i].misses <= values[i].misses
  <2>1. values[i].misses \in Nat
    BY <1>2, <1>13 DEF Value
  <2>2. CASE i \in Writable
    BY <1>1, <1>3, <1>4, <1>13, <2>2
  <2>3. CASE i \notin Writable
    BY <1>1, <2>1, <2>3
  <2>4. QED
    BY <2>2, <2>3
<1>14. QED
  BY <1>5, <1>8, <1>9, <1>10, <1>12, <1>13

\* An answer that counts reaches every point of the items it was about.
LEMMA ApplyReaches ==
    ASSUME IInv, Apply, ~Stale, NEW p \in history, p.item \in Asked, ~p.late
    PROVE  ReachedNext(p, task.till)
<1>1. Asking /\ ~Truncated /\ Asked \subseteq task.batch
  BY TailItems DEF Apply
<1>2. p.clock \in Nat /\ p.item \in Items
  BY DEF IInv, Shape, Point
<1>3. task.till \in Nat /\ task.till <= now /\ now \in Nat /\ task.from \in Nat
  BY DEF IInv, Shape, TaskRecord
<1>4. \A w : Reached(p, w) => ReachedNext(p, w)
  BY ApplyFacts, ReachedStays DEF IInv
<1>5. CASE ~(p.clock >= task.from)
  BY <1>1, <1>4, <1>5 DEF IInv, WindowReaches
<1>6. CASE p.clock > task.till
  <2>1. Back(task.till, overlapForDelay) \in Nat /\ Back(task.till, overlapForDelay) <= task.till
    BY <1>3, WindowTypes
  <2>2. QED
    BY <1>2, <1>3, <1>6, <2>1 DEF ReachedNext
<1>7. CASE p.clock >= task.from /\ ~(p.clock > task.till)
  <2> DEFINE i == p.item
             c == LatestClock(i)
  <2>1. p \in Window /\ Answer = Window
    BY <1>1, <1>2, <1>3, <1>7, AnswerFacts DEF Window, IInv
  <2>2. i \in Returned
    BY <2>1 DEF Returned
  <2>3. p.clock <= c
    BY <2>1, <2>2, LatestFacts DEF IInv
  <2>4. c \in Nat
    <3>1. PICK q \in Answer : q.item = i /\ q.clock = c
      BY <2>2, LatestFacts DEF IInv
    <3>2. q.clock \in Nat
      BY AnswerFacts DEF IInv, Shape, Point
    <3>3. QED
      BY <3>1, <3>2
  <2>5. task.snap[i] # 0 /\ task.snap[i] = version[i]
    BY DEF Stale
  <2>6. CASE i \in Alive
    <3>1. i \in Writable \/ i \in Dropped
      BY <2>5, <2>6 DEF Dropped, Current
    <3>2. HeldNext(i, c)
      BY <3>1, ApplyFacts
    <3>3. values' \in [Items -> Value \cup {Absent}] /\ given_up' \in [Items -> Nat \cup {-1}]
      BY ApplyFacts
    <3> HIDE DEF c
    <3>4. HeldNext(i, p.clock)
      <4>1. values'[i] # Absent => values'[i].clock \in Nat
        BY <1>2, <3>3 DEF Value
      <4>2. given_up'[i] \in Int
        BY <1>2, <3>3
      <4>3. QED
        BY <1>2, <2>3, <2>4, <3>2, <4>1, <4>2 DEF HeldNext
    <3>5. QED
      BY <3>4 DEF ReachedNext
  <2>7. CASE i \notin Alive
    <3>1. ~(ValueExpireAt(c, Delay) > task.till)
      BY <2>2, <2>7 DEF Alive
    <3>2. PICK life \in Nat : \A clock \in Nat : ValueExpireAt(clock, Delay) = clock + life
      BY Lifetime
    <3> HIDE DEF c
    <3>3. ValueExpireAt(p.clock, Delay) = p.clock + life /\ ValueExpireAt(c, Delay) = c + life
      BY <1>2, <2>4, <3>2
    <3>4. now' = now
      BY DEF Apply
    <3>5. ValueExpireAt(p.clock, Delay) <= now'
      BY <1>2, <1>3, <2>3, <2>4, <3>1, <3>2, <3>3, <3>4
    <3>6. QED
      BY <3>5 DEF ReachedNext
  <2>8. QED
    BY <2>6, <2>7
<1>8. QED
  BY <1>5, <1>6, <1>7

LEMMA ApplyStep ==
    ASSUME IInv, Apply
    PROVE  IInv'
<1> DEFINE t == Tail(task.stack)
           misses == IF Stale THEN task.misses ELSE task.misses \cup (Asked \ Returned)
           complete == IF Stale THEN FALSE ELSE task.complete
<1>1. /\ Asking /\ ~Truncated /\ UNCHANGED <<now, history, metadata, watermark>>
  BY DEF Apply
<1>2. task' = [task EXCEPT !.complete = complete, !.stack = t, !.misses = misses]
  <2>1. task \in TaskRecord
    BY DEF IInv, Shape
  <2>2. CASE Stale
    <3>1. task' = [[task EXCEPT !.complete = FALSE] EXCEPT !.stack = t, !.misses = task.misses]
      BY <2>1, <2>2 DEF Apply, Incomplete, TaskRecord
    <3>2. QED
      BY <2>1, <2>2, <3>1 DEF TaskRecord
  <2>3. CASE ~Stale
    <3>1. task' = [task EXCEPT !.stack = t, !.misses = task.misses \cup (Asked \ Returned)]
      BY <2>3 DEF Apply
    <3>2. QED
      BY <2>1, <2>3, <3>1 DEF TaskRecord
  <2>4. QED
    BY <2>2, <2>3
<1>3. /\ t \in Seq(Segment) /\ task \in TaskRecord /\ WithinBatch(t)
      /\ Outstanding = Asked \cup StackItems(t) /\ Asked \subseteq task.batch
      /\ Asked \subseteq Items
  BY <1>1, StackFacts, TailItems DEF IInv, Shape
<1>4. /\ misses \subseteq task.batch /\ misses \subseteq Items /\ complete \in BOOLEAN
      /\ complete => task.complete /\ ~Stale
      /\ misses \subseteq task.misses \cup (Asked \ Returned)
  BY <1>3 DEF IInv, Working, TaskRecord
<1> HIDE DEF t, misses, complete
<1>5. /\ task' \in TaskRecord /\ task'.stack = t /\ task'.batch = task.batch
      /\ task'.misses = misses /\ task'.had = task.had /\ task'.from = task.from
      /\ task'.till = task.till /\ task'.complete = complete
  BY <1>2, <1>3, <1>4 DEF TaskRecord
<1>6. /\ values' \in [Items -> Value \cup {Absent}] /\ given_up' \in [Items -> Nat \cup {-1}]
      /\ Forward
  BY ApplyFacts
<1>7. Shape'
  BY <1>1, <1>5, <1>6 DEF IInv, Shape, metadata
<1>8. \A i \in task.had : i \notin Asked \ Returned
  <2> SUFFICES ASSUME NEW i \in task.had, i \in Asked PROVE i \in Returned
    OBVIOUS
  <2>1. PICK p \in history : p.item = i /\ task.from <= p.clock /\ p.clock <= task.till
    BY DEF IInv, Working
  <2>2. p \in Answer
    BY <1>1, <2>1, AnswerFacts DEF Window, IInv
  <2>3. QED
    BY <2>1, <2>2 DEF Returned
<1>9. Working'
  <2>1. \A i \in task.had : i \notin misses
    BY <1>4, <1>8 DEF IInv, Working
  <2>2. \A n \in 1..Len(t) : t[n].items \subseteq task.batch
    BY <1>3 DEF WithinBatch
  <2>3. QED
    BY <1>1, <1>4, <1>5, <2>1, <2>2 DEF IInv, Working
<1>10. MarksReach' /\ WindowReaches'
  BY <1>1, <1>5, <1>6, MarksStay, WindowStays DEF IInv
<1>11. AnswersReach'
  <2>1. Outstanding' = StackItems(t)
    BY <1>5 DEF Outstanding, StackItems
  <2> SUFFICES ASSUME complete, NEW p \in history,
                      p.item \in task.batch \ StackItems(t), ~p.late
               PROVE  ReachedNext(p, task.till)
    BY <1>1, <1>5, <2>1 DEF AnswersReach, Reached, ReachedNext, Held, HeldNext
  <2>2. task.complete /\ ~Stale
    BY <1>4
  <2>3. CASE p.item \in Asked
    BY <2>2, <2>3, ApplyReaches
  <2>4. CASE p.item \notin Asked
    <3>1. Reached(p, task.till)
      BY <1>3, <2>2, <2>4 DEF IInv, AnswersReach
    <3>2. \A w : Reached(p, w) => ReachedNext(p, w)
      BY <1>6, ReachedStays DEF IInv
    <3>3. QED
      BY <3>1, <3>2
  <2>5. QED
    BY <2>3, <2>4
<1>12. QED
  BY <1>7, <1>9, <1>10, <1>11 DEF IInv

\* A counted miss keeps the value a value.
LEMMA MissedType ==
    ASSUME NEW v \in Value
    PROVE  Missed(v) \in Value /\ Missed(v).clock = v.clock
<1> DEFINE misses == IF v.misses < MaxMisses THEN v.misses + 1 ELSE v.misses
           valid == v.valid /\ ~(misses >= MissThreshold /\ now > missInvalidAfter(v.clock, Delay))
<1>1. v.misses \in Nat /\ v.clock \in Nat /\ v.version \in Nat
  BY DEF Value
<1>2. misses \in Nat
  BY <1>1
<1>3. valid \in BOOLEAN
  BY Zenon
<1>4. Missed(v) = [v EXCEPT !.misses = misses, !.valid = valid]
  BY DEF Missed, Value
<1> HIDE DEF misses, valid
<1>5. QED
  BY <1>1, <1>2, <1>3, <1>4 DEF Value

LEMMA ClosedTaskFacts ==
    ASSUME Shape
    PROVE  /\ Closed(task) \in TaskRecord
           /\ Closed(task).till = task.till /\ Closed(task).from = 0
           /\ Closed(task).batch = {} /\ Closed(task).misses = {} /\ Closed(task).had = {}
           /\ Closed(task).stack = <<>>
<1>1. task.till \in Nat /\ task.batches \in Seq(SUBSET Items)
  BY DEF Shape, TaskRecord
<1>2. QED
  BY <1>1, IdleTaskFacts DEF Closed, TaskRecord

\* The mark is set to the end of a window of which every part was answered.
LEMMA FinishBatchStep ==
    ASSUME IInv, FinishBatch
    PROVE  IInv'
<1>1. /\ task.batch # {} /\ ~Asking /\ task' = Closed(task)
      /\ UNCHANGED <<now, history, metadata, given_up>>
  BY DEF FinishBatch
<1>2. /\ task \in TaskRecord /\ task.till \in Nat /\ task.till <= now /\ task.batch \in SUBSET Items
      /\ values \in [Items -> Value \cup {Absent}]
      /\ watermark \in [SUBSET Items -> Nat \cup {Absent}]
      /\ \A b \in SUBSET Items : watermark[b] # Absent => watermark[b] <= now
  BY DEF IInv, Shape, TaskRecord
<1>3. values' \in [Items -> Value \cup {Absent}]
  <2>1. CASE task.complete
    <3>1. values' = [i \in Items |-> IF i \in task.misses /\ values[i] # Absent
                                     THEN Missed(values[i]) ELSE values[i]]
      BY <2>1 DEF FinishBatch
    <3>2. \A i \in Items : values[i] # Absent => Missed(values[i]) \in Value
      BY <1>2, MissedType
    <3>3. QED
      BY <1>2, <3>1, <3>2
  <2>2. CASE ~task.complete
    BY <1>2, <2>2 DEF FinishBatch
  <2>3. QED
    BY <2>1, <2>2
<1>4. \/ watermark' = watermark
      \/ task.complete /\ watermark' = [watermark EXCEPT ![task.batch] = task.till]
  <2>1. CASE task.complete
    <3>1. watermark' = [watermark EXCEPT ![task.batch] =
                          IF task.orphan THEN watermark[task.batch] ELSE task.till]
      BY <2>1 DEF FinishBatch
    <3>2. [watermark EXCEPT ![task.batch] = watermark[task.batch]] = watermark
      BY <1>2
    <3>3. QED
      BY <2>1, <3>1, <3>2
  <2>2. CASE ~task.complete
    BY <2>2 DEF FinishBatch
  <2>3. QED
    BY <2>1, <2>2
<1>5. /\ watermark' \in [SUBSET Items -> Nat \cup {Absent}]
      /\ \A b \in SUBSET Items : watermark'[b] # Absent => watermark'[b] <= now
  <2>1. CASE watermark' = watermark
    BY <1>2, <2>1
  <2>2. CASE watermark' = [watermark EXCEPT ![task.batch] = task.till]
    BY <1>2, <2>2
  <2>3. QED
    BY <1>4, <2>1, <2>2
<1>6. 0 <= task.till
  BY <1>2
<1>7. Shape'
  BY <1>1, <1>2, <1>3, <1>5, <1>6, ClosedTaskFacts DEF IInv, Shape, metadata
<1>8. Working' /\ WindowReaches' /\ AnswersReach'
  BY <1>1, NoBatch, ClosedTaskFacts DEF IInv
<1>9. Outstanding = {}
  BY <1>1 DEF Outstanding, Asking
<1>10. Forward
  <2> SUFFICES ASSUME NEW i \in Items, NEW clock \in Nat, Held(i, clock)
               PROVE  HeldNext(i, clock)
    BY <1>1 DEF Forward, IInv, Shape
  <2>1. values'[i] = values[i]
        \/ (values[i] # Absent /\ values'[i] = Missed(values[i]))
    BY <1>2 DEF FinishBatch
  <2>2. values[i] # Absent => Missed(values[i]) \in Value /\ Missed(values[i]).clock = values[i].clock
    BY <1>2, MissedType
  <2>3. values[i] # Absent => values'[i] # Absent /\ values'[i].clock = values[i].clock
    BY <2>1, <2>2, AbsentAssumption
  <2>4. QED
    BY <1>1, <2>3 DEF Held, HeldNext
<1>11. MarksReach'
  <2>1. CASE watermark' = watermark
    BY <1>1, <1>10, <2>1, MarksStay DEF IInv
  <2>2. CASE task.complete /\ watermark' = [watermark EXCEPT ![task.batch] = task.till]
    <3> SUFFICES ASSUME NEW b \in SUBSET Items, watermark'[b] # Absent,
                        NEW p \in history, p.item \in b, ~p.late
                 PROVE  ReachedNext(p, watermark'[b])
      BY <1>1 DEF MarksReach, Reached, ReachedNext, Held, HeldNext
    <3>1. \A w : Reached(p, w) => ReachedNext(p, w)
      BY <1>10, ReachedStays DEF IInv
    <3>2. CASE b = task.batch
      <4>1. watermark'[b] = task.till
        BY <1>2, <2>2, <3>2
      <4>2. Reached(p, task.till)
        BY <1>9, <2>2, <3>2 DEF IInv, AnswersReach
      <4>3. QED
        BY <3>1, <4>1, <4>2
    <3>3. CASE b # task.batch
      <4>1. watermark'[b] = watermark[b]
        BY <1>2, <2>2, <3>3
      <4>2. Reached(p, watermark[b])
        BY <4>1 DEF IInv, MarksReach
      <4>3. QED
        BY <3>1, <4>1, <4>2
    <3>4. QED
      BY <3>2, <3>3
  <2>3. QED
    BY <1>4, <2>1, <2>2
<1>12. QED
  BY <1>7, <1>8, <1>11 DEF IInv

-----------------------------------------------------------------------------
(* Every state.                                                            *)

LEMMA InitIInv ==
    ASSUME Init
    PROVE  IInv
<1>1. IsFiniteSet({})
  BY FS_EmptySet
<1>2. \A b \in SUBSET Items : watermark[b] = Absent
  BY DEF Init
<1>3. Shape
  <2>1. /\ version \in [Items -> 0 .. snapshot] /\ given_up \in [Items -> Nat \cup {-1}]
        /\ watermark \in [SUBSET Items -> Nat \cup {Absent}]
        /\ values \in [Items -> Value \cup {Absent}]
    BY DEF Init
  <2>2. QED
    BY <1>1, <1>2, <2>1, IdleTaskFacts DEF Init, Shape
<1>4. Working
  <2>1. task.stack = <<>> /\ task.misses = {} /\ task.had = {}
    BY IdleTaskFacts DEF Init
  <2>2. QED
    BY <2>1 DEF Working
<1>5. MarksReach /\ WindowReaches /\ AnswersReach
  BY <1>2 DEF Init, MarksReach, WindowReaches, AnswersReach
<1>6. QED
  BY <1>3, <1>4, <1>5 DEF IInv

LEMMA IInvStep ==
    ASSUME IInv, [Next]_vars
    PROVE  IInv'
<1>1. CASE Tick
  BY <1>1, TickStep
<1>2. ASSUME NEW i \in Items, NEW clock \in 0 .. MaxTime, Arrive(i, clock) PROVE IInv'
  <2>1. clock \in Nat
    BY CollectorAssumption
  <2>2. QED
    BY <1>2, <2>1, ArriveStep
<1>3. ASSUME NEW next \in SUBSET Items, NEW redefined \in SUBSET Items,
             NEW off \in SUBSET Items, Publish(next, redefined, off)
      PROVE  IInv'
  BY <1>3, PublishStep
<1>4. CASE Reconcile
  BY <1>4, ReconcileStep
<1>5. ASSUME NEW step \in ClockSteps, CollectGroup(step) PROVE IInv'
  BY <1>5, CollectGroupStep
<1>6. CASE BeginBatch
  BY <1>6, BeginBatchStep
<1>7. CASE RefuseBatch
  BY <1>7, RefuseBatchStep
<1>8. CASE Split
  BY <1>8, SplitStep
<1>9. CASE Fail
  BY <1>9, FailStep
<1>10. CASE Apply
  BY <1>10, ApplyStep
<1>11. CASE FinishBatch
  BY <1>11, FinishBatchStep
<1>12. CASE EndGroup
  BY <1>12, EndGroupStep
<1>13. CASE UNCHANGED vars
  <2>1. /\ UNCHANGED <<now, history, metadata, watermark, values, given_up>> /\ task' = task
    BY <1>13 DEF vars, metadata
  <2>2. Shape'
    BY <2>1 DEF IInv, Shape, metadata
  <2>3. Forward
    BY <2>1, SameIsForward DEF IInv
  <2>4. QED
    BY <2>1, <2>2, <2>3, QuietStep
<1>14. QED
  BY <1>1, <1>2, <1>3, <1>4, <1>5, <1>6, <1>7, <1>8, <1>9, <1>10, <1>11, <1>12, <1>13
     DEF Next, Collect

LEMMA Invariance == Spec => []IInv
<1>1. Init => IInv
  BY InitIInv
<1>2. IInv /\ [Next]_vars => IInv'
  BY IInvStep
<1>3. QED
  BY <1>1, <1>2, PTL DEF Spec

\* The state of the collector, of the metadata it sees and of Zabbix keeps its type;
\* the window of an attempt is never of the future and never runs backwards.
THEOREM CollectorTypeOK == Spec => []TypeOK
<1>1. IInv => TypeOK
  <2> SUFFICES ASSUME IInv PROVE TypeOK
    OBVIOUS
  <2>1. task \in TaskRecord /\ task.till <= now /\ task.from <= task.till
    BY DEF IInv, Shape
  <2>2. /\ task.running \in BOOLEAN /\ task.complete \in BOOLEAN
        /\ task.stack \in Seq(Segment) /\ task.batches \in Seq(SUBSET Items)
    BY <2>1 DEF TaskRecord
  <2>3. task.misses \subseteq task.batch
    BY DEF IInv, Working
  <2>4. QED
    BY <2>1, <2>2, <2>3 DEF TypeOK, IInv, Shape
<1>2. QED
  BY <1>1, Invariance, PTL

\* No gap between the windows of a batch (group_collector.go, collectBatch): whatever
\* attempts failed, were split, refused or stale, and however the items were
\* regrouped, a point that was not late is cached or superseded at this moment, has
\* expired, is in the window that is asked for next, or is not newer than what the
\* code is known to give up: a value that was deleted or replaced with the definition
\* of its item, a point that is no number, a point of a disabled item.
THEOREM CollectorNoGap == Spec => []NoGap
<1>1. IInv => NoGap
  <2> SUFFICES ASSUME IInv PROVE NoGap
    OBVIOUS
  <2>1. BatchesOf(groups) \in Seq(SUBSET Items)
    BY BatchesType DEF IInv, Shape
  <2>2. \A b \in Batches(groups) : b \in SUBSET Items
    BY <2>1 DEF Batches, ToSet
  <2>3. QED
    BY <2>2 DEF NoGap, IInv, MarksReach, Reached, Held
<1>2. QED
  BY <1>1, Invariance, PTL

\* A miss is counted only by the end of an attempt of which no part failed, was cut
\* or was stale, and only against an item that had no point in the window when the
\* attempt began (query, mergeSplit, ApplyBatch and the misses of collectBatch).
THEOREM CollectorMissesHonest == Spec => MissesHonest
<1> DEFINE Honest ==
      \A i \in Items : /\ values[i] # Absent /\ values'[i] # Absent
                       /\ values'[i].misses > values[i].misses
                       => i \notin task.had
<1>1. ASSUME IInv, [Next]_vars PROVE Honest
  <2> SUFFICES ASSUME NEW i \in Items, values[i] # Absent, values'[i] # Absent,
                      values'[i].misses > values[i].misses
               PROVE  i \notin task.had
    OBVIOUS
  <2>1. values[i].misses \in Nat
    BY <1>1 DEF IInv, Shape, Value
  <2>2. values'[i] # values[i]
    BY <2>1
  <2>3. values' # values
    BY <2>2
  <2>4. ~Apply
    <3> SUFFICES ASSUME Apply PROVE FALSE
      OBVIOUS
    <3>1. values' \in [Items -> Value \cup {Absent}] /\ values'[i].misses <= values[i].misses
      BY <1>1, ApplyFacts
    <3>2. values'[i].misses \in Nat
      BY <3>1 DEF Value
    <3>3. QED
      BY <2>1, <3>1, <3>2
  <2>5. ~Reconcile
    <3> SUFFICES ASSUME Reconcile PROVE FALSE
      OBVIOUS
    <3>1. values'[i] = IF i \in obsolete THEN Absent ELSE values[i]
      BY DEF Reconcile
    <3>2. QED
      BY <2>2, <3>1
  <2>6. FinishBatch
    <3>1. Reconcile \/ Apply \/ FinishBatch \/ UNCHANGED values
      BY <1>1 DEF Next, Collect, Tick, Arrive, Publish, CollectGroup, BeginBatch,
                  RefuseBatch, Split, Fail, EndGroup, vars
    <3>2. QED
      BY <2>3, <2>4, <2>5, <3>1
  <2>7. i \in task.misses
    BY <2>2, <2>6 DEF FinishBatch
  <2>8. QED
    BY <1>1, <2>7 DEF IInv, Working
<1>2. IInv /\ [Next]_vars => [Honest]_vars
  BY <1>1
<1>3. QED
  BY <1>2, Invariance, PTL DEF Spec, MissesHonest

-----------------------------------------------------------------------------
(* The query limit.                                                        *)

\* Times a delay or more apart lie in different slots of that delay, ...
LEMMA SlotsDiffer ==
    ASSUME NEW delay \in Nat \ {0}, NEW x \in Nat, NEW y \in Nat, y - x >= delay
    PROVE  x \div delay # y \div delay
<1> DEFINE a == x \div delay
           b == y \div delay
<1>1. /\ a \in Int /\ delay * a <= x /\ x < delay * a + delay
      /\ b \in Int /\ delay * b <= y /\ y < delay * b + delay
  BY SMT
<1>2. QED
  BY <1>1, SMT

\* ... and a window has no more slots than CeilDiv gives, and one.
LEMMA SlotsOfWindow ==
    ASSUME NEW delay \in Nat \ {0}, NEW x \in Nat, NEW window \in Nat, x <= window
    PROVE  CeilDiv(window, delay) \in Nat /\ x \div delay \in 0 .. CeilDiv(window, delay)
<1> DEFINE a == x \div delay
           m == (window + delay - 1) \div delay
<1>1. a \in Int /\ delay * a <= x /\ x < delay * a + delay
  BY SMT
<1>2. m \in Int /\ delay * m <= window + delay - 1 /\ window + delay - 1 < delay * m + delay
  BY SMT
<1> HIDE DEF a, m
<1>3. a >= 0
  BY <1>1, SMT
<1>4. a <= m
  BY <1>1, <1>2, SMT
<1>5. QED
  BY <1>1, <1>2, <1>3, <1>4 DEF a, m, CeilDiv

\* An item has no two points closer than the delay.
Regular(P) ==
    \A p, q \in P : p.item = q.item /\ p # q =>
        q.clock - p.clock >= Delay \/ p.clock - q.clock >= Delay

\* Regular points are fewer than are expected of their items.
LEMMA RegularAreExpected ==
    ASSUME NEW P, IsFiniteSet(P), P \subseteq Point, Regular(P),
           NEW S \in SUBSET Items, S # {}, NEW from \in Nat, NEW till \in Nat, from <= till,
           \A p \in P : p.item \in S /\ from <= p.clock /\ p.clock <= till
    PROVE  Cardinality(P) < ExpectedPerItem(till - from) * Cardinality(S)
<1> DEFINE m == CeilDiv(till - from, Delay)
           slot == [p \in P |-> <<p.item, (p.clock - from) \div Delay>>]
           n == Cardinality(S)
<1>1. Delay \in Nat \ {0} /\ till - from \in Nat
  BY CollectorAssumption
<1>2. \A p \in P : p.clock \in Nat /\ p.item \in S /\ p.clock - from \in Nat /\ p.clock - from <= till - from
  BY DEF Point
<1>3. m \in Nat
  BY <1>1, SlotsOfWindow
<1>4. \A p \in P : (p.clock - from) \div Delay \in 0..m
  BY <1>1, <1>2, SlotsOfWindow
<1>5. \A p, q \in P : p.item = q.item /\ p # q =>
        (p.clock - from) \div Delay # (q.clock - from) \div Delay
  <2> SUFFICES ASSUME NEW p \in P, NEW q \in P, p.item = q.item, p # q
               PROVE  (p.clock - from) \div Delay # (q.clock - from) \div Delay
    OBVIOUS
  <2>1. p.clock - from \in Nat /\ q.clock - from \in Nat
    BY <1>2
  <2>2. \/ (q.clock - from) - (p.clock - from) >= Delay
        \/ (p.clock - from) - (q.clock - from) >= Delay
    BY <1>1, <1>2 DEF Regular
  <2>3. QED
    BY <1>1, <2>1, <2>2, SlotsDiffer
<1> HIDE DEF m, n
<1>6. slot \in [P -> S \X (0..m)] /\ \A p, q \in P : slot[p] = slot[q] => p = q
  BY <1>2, <1>4, <1>5
<1> HIDE DEF slot
<1>7. slot \in Injection(P, S \X (0..m))
  BY <1>6, Fun_IsInj
<1>8. /\ IsFiniteSet(S) /\ n \in Nat /\ n # 0
      /\ IsFiniteSet(0..m) /\ Cardinality(0..m) = m + 1
  <2>1. IsFiniteSet(S) /\ n \in Nat /\ n # 0
    BY CollectorAssumption, FS_Subset, FS_CardinalityType, FS_EmptySet DEF n
  <2>2. IsFiniteSet(0..m) /\ Cardinality(0..m) = m + 1
    <3>1. 0 \in Int /\ m \in Int /\ ~(0 > m) /\ m - 0 + 1 = m + 1
      BY <1>3
    <3>2. IsFiniteSet(0..m) /\ Cardinality(0..m) = IF 0 > m THEN 0 ELSE m - 0 + 1
      BY <3>1, FS_Interval
    <3>3. QED
      BY <3>1, <3>2
  <2>3. QED
    BY <2>1, <2>2
<1>9. IsFiniteSet(S \X (0..m)) /\ Cardinality(S \X (0..m)) = n * (m + 1)
  BY <1>8, FS_Product DEF n
<1>10. Cardinality(P) \in Nat /\ Cardinality(P) <= n * (m + 1)
  BY <1>7, <1>9, FS_Injection, FS_CardinalityType
<1>11. n * (m + 1) < (m + 2) * n
  BY <1>3, <1>8
<1>12. n * (m + 1) \in Nat /\ (m + 2) * n \in Nat
  BY <1>3, <1>8
<1>13. ExpectedPerItem(till - from) * Cardinality(S) = (m + 2) * n
  BY DEF ExpectedPerItem, m, n
<1>14. QED
  BY <1>10, <1>11, <1>12, <1>13

\* The limit of a query (queryLimit of group_collector.go) leaves room for the points
\* that the items' delay lets one expect, both ends of the window included: unless it
\* had to be cut to history_max_limit, an answer about items that keep to their delay
\* is never taken for truncated, and the batch is never split for nothing.
THEOREM RegularNotTruncated ==
    Spec => [](Asking /\ Asked # {} /\ Regular(history) /\ Limit # HistoryLimit => ~Truncated)
<1>1. ASSUME IInv, Asking, Asked # {}, Regular(history), Limit # HistoryLimit
      PROVE  ~Truncated
  <2>1. /\ IsFiniteSet(history) /\ history \subseteq Point
        /\ task.till \in Nat /\ task.from \in Nat /\ task.from <= task.till
    BY <1>1 DEF IInv, Shape, TaskRecord
  <2>2. Window \subseteq history /\ Answer \subseteq Window /\ IsFiniteSet(Window)
    BY <1>1, <2>1, AnswerFacts, FS_Subset DEF IInv
  <2>3. Asked \in SUBSET Items
    BY <1>1, StackFacts DEF IInv
  <2>4. Regular(Window) /\ Window \subseteq Point
    BY <1>1, <2>1, <2>2 DEF Regular
  <2>5. \A p \in Window : p.item \in Asked /\ task.from <= p.clock /\ p.clock <= task.till
    BY DEF Window
  <2>6. Cardinality(Window) < ExpectedPerItem(task.till - task.from) * Cardinality(Asked)
    BY <1>1, <2>1, <2>2, <2>3, <2>4, <2>5, RegularAreExpected
  <2>7. Limit = ExpectedPerItem(task.till - task.from) * Cardinality(Asked)
    BY <1>1 DEF Limit, queryLimit
  <2>8. /\ Cardinality(Answer) \in Nat /\ Cardinality(Window) \in Nat
        /\ Cardinality(Answer) <= Cardinality(Window)
    BY <2>2, FS_Subset, FS_CardinalityType
  <2>9. ExpectedPerItem(task.till - task.from) * Cardinality(Asked) \in Int
    <3>1. Cardinality(Asked) \in Nat
      BY <2>3, CollectorAssumption, FS_Subset, FS_CardinalityType
    <3>2. CeilDiv(task.till - task.from, Delay) \in Nat
      <4>1. Delay \in Nat \ {0} /\ 0 \in Nat /\ task.till - task.from \in Nat /\ 0 <= task.till - task.from
        BY <2>1, CollectorAssumption
      <4>2. QED
        BY <4>1, SlotsOfWindow
    <3>3. QED
      BY <3>1, <3>2 DEF ExpectedPerItem
  <2>10. Cardinality(Answer) < Limit
    BY <2>6, <2>7, <2>8, <2>9
  <2>11. QED
    BY <2>7, <2>8, <2>9, <2>10 DEF Truncated
<1>2. IInv => (Asking /\ Asked # {} /\ Regular(history) /\ Limit # HistoryLimit => ~Truncated)
  BY <1>1
<1>3. QED
  BY <1>2, Invariance, PTL
=============================================================================
