-------------------------- MODULE SchedulerProofs --------------------------
(* The scheduler for every number of groups, workers and slots: types, one *)
(* task per group, the cadence of a group through retries and refusals,    *)
(* and a dispatcher that never sleeps past the earliest run.               *)
EXTENDS Scheduler, TLAPS, FiniteSetTheorems, FunctionTheorems, WellFoundedInduction

-----------------------------------------------------------------------------
(* Induction over the naturals, for a set instead of a predicate, and the  *)
(* doubling of the retry delay by it.                                      *)

\* A non-empty set of naturals has a least element.
LEMMA LeastOf ==
  ASSUME NEW T, T \subseteq Nat, T # {}
  PROVE \E x \in T : \A y \in T : x <= y
<1>1. PICK x \in T : \A y \in T : ~ (<<y, x>> \in OpToRel(<,Nat))
  BY NatLessThanWellFounded, WFMin
<1>2. \A y \in T : ~(y < x)
  BY <1>1 DEF OpToRel
<1>3. QED
  BY <1>2

\* What holds of zero and of every successor holds of every natural number.
LEMMA SetInduction ==
  ASSUME NEW T, 0 \in T, \A n \in Nat : n \in T => n + 1 \in T
  PROVE Nat \subseteq T
<1>1. SUFFICES ASSUME Nat \ T # {} PROVE FALSE
  OBVIOUS
<1>2. PICK x \in Nat \ T : \A y \in Nat \ T : x <= y
  BY <1>1, LeastOf
<1>3. x - 1 \in Nat /\ x - 1 \in T /\ x = (x - 1) + 1
  BY <1>2
<1>4. QED
  BY <1>2, <1>3

\* What retryDelay may return after a failure.
Delays == RetryBase..RetryMax

After(delay) == IF delay > RetryMax \div 2 THEN RetryMax ELSE 2 * delay

Follows(g, k) == g[k] = IF k <= 1 THEN RetryBase ELSE After(g[k - 1])

\* The doubling, tabulated up to n.
Tables(n) == {g \in [0..n -> Delays] : \A k \in 0..n : Follows(g, k)}

\* A delay is never doubled past the maximum.
LEMMA AfterStays ==
  \A delay \in Delays : After(delay) \in Delays
BY SchedulerAssumption DEF After, Delays

\* Two tables agree as far as both go.
LEMMA TablesAgree ==
  ASSUME NEW n \in Nat, NEW m \in Nat, NEW g \in Tables(n), NEW h \in Tables(m)
  PROVE  \A k \in Nat : k <= n /\ k <= m => g[k] = h[k]
<1> DEFINE T == {k \in Nat : k <= n /\ k <= m => g[k] = h[k]}
<1>1. 0 \in T
  BY DEF Tables, Follows
<1>2. ASSUME NEW k \in Nat, k \in T PROVE k + 1 \in T
  <2>1. SUFFICES ASSUME k + 1 <= n, k + 1 <= m PROVE g[k + 1] = h[k + 1]
    OBVIOUS
  <2>2. g[k] = h[k] /\ k \in 0..n /\ k + 1 \in 0..n /\ k \in 0..m /\ k + 1 \in 0..m
    BY <1>2, <2>1
  <2>3. Follows(g, k + 1) /\ Follows(h, k + 1)
    BY <2>2 DEF Tables
  <2>4. QED
    BY <2>2, <2>3 DEF Follows
<1>3. Nat \subseteq T
  <2> HIDE DEF T
  <2> QED BY <1>1, <1>2, SetInduction
<1>4. QED
  BY <1>3

\* There is a table of every length.
LEMMA TablesExist ==
  \A n \in Nat : Tables(n) # {}
<1> DEFINE T == {n \in Nat : Tables(n) # {}}
<1>1. 0 \in T
  <2>1. [k \in 0..0 |-> RetryBase] \in Tables(0)
    BY SchedulerAssumption DEF Tables, Follows, Delays
  <2>2. QED
    BY <2>1
<1>2. ASSUME NEW n \in Nat, n \in T PROVE n + 1 \in T
  <2>1. PICK g : g \in Tables(n)
    BY <1>2
  <2> DEFINE h == [k \in 0..(n + 1) |-> IF k <= n THEN g[k]
                                       ELSE IF k <= 1 THEN RetryBase ELSE After(g[n])]
  <2>2. g \in [0..n -> Delays] /\ \A k \in 0..n : Follows(g, k)
    BY <2>1 DEF Tables
  <2>3. h \in [0..(n + 1) -> Delays]
    <3>1. \A k \in 0..n : g[k] \in Delays
      BY <2>2
    <3>2. RetryBase \in Delays /\ n \in 0..n
      BY SchedulerAssumption DEF Delays
    <3>3. \A k \in 0..(n + 1) : k <= n => k \in 0..n
      OBVIOUS
    <3>4. QED
      BY <3>1, <3>2, <3>3, AfterStays
  <2>4. ASSUME NEW k \in 0..(n + 1) PROVE Follows(h, k)
    <3>1. CASE k <= n
      <4>1. h[k] = g[k] /\ Follows(g, k) /\ (k > 1 => h[k - 1] = g[k - 1])
        BY <3>1, <2>2
      <4>2. QED
        BY <4>1, <3>1 DEF Follows
    <3>2. CASE k = n + 1
      <4>1. k > 1 => h[k - 1] = g[n] /\ h[k] = After(g[n])
        BY <3>2
      <4>2. k <= 1 => h[k] = RetryBase
        BY <3>2
      <4>3. QED
        BY <4>1, <4>2 DEF Follows
    <3>3. QED
      BY <3>1, <3>2
  <2>5. h \in Tables(n + 1)
    BY <2>3, <2>4 DEF Tables
  <2>6. QED
    BY <2>5
<1>3. Nat \subseteq T
  <2> HIDE DEF T
  <2> QED BY <1>1, <1>2, SetInduction
<1>4. QED
  BY <1>3

\* The recursion of doubled defines a function, which stays between base and maximum.
LEMMA DoublingDefined ==
  /\ doubled \in [Nat -> Delays]
  /\ \A n \in Nat : Follows(doubled, n)
<1> DEFINE table(n) == CHOOSE g : g \in Tables(n)
           f == [n \in Nat |-> table(n)[n]]
<1>1. \A n \in Nat : table(n) \in Tables(n)
  BY TablesExist
<1>2. f \in [Nat -> Delays]
  <2>1. SUFFICES ASSUME NEW n \in Nat PROVE table(n)[n] \in Delays
    OBVIOUS
  <2>2. table(n) \in [0..n -> Delays] /\ n \in 0..n
    BY <1>1 DEF Tables
  <2>3. QED
    BY <2>2
<1>3. ASSUME NEW n \in Nat PROVE Follows(f, n)
  <2> HIDE DEF table
  <2>1. table(n) \in Tables(n) /\ n \in 0..n
    BY <1>1
  <2>2. Follows(table(n), n)
    BY <2>1 DEF Tables
  <2>3. ASSUME n > 1 PROVE f[n - 1] = table(n)[n - 1]
    <3>1. n - 1 \in Nat /\ n - 1 <= n
      BY <2>3
    <3>2. table(n - 1) \in Tables(n - 1)
      BY <3>1, <1>1
    <3>3. table(n - 1)[n - 1] = table(n)[n - 1]
      BY <3>1, <3>2, <2>1, TablesAgree
    <3>4. QED
      BY <3>1, <3>3
  <2>4. f[n] = table(n)[n]
    OBVIOUS
  <2>5. QED
    BY <2>2, <2>3, <2>4 DEF Follows
<1> HIDE DEF f
<1> DEFINE rule(g) == [failures \in Nat |-> IF failures <= 1 THEN RetryBase
                                           ELSE After(g[failures - 1])]
<1>4. f = rule(f)
  BY <1>2, <1>3 DEF Follows
<1>5. doubled = CHOOSE g : g = rule(g)
  BY DEF doubled, After
<1>6. doubled = rule(doubled)
  <2> HIDE DEF rule
  <2> QED BY <1>4, <1>5
<1>7. \A n \in Nat : Follows(doubled, n)
  <2>1. \A n \in Nat : rule(doubled)[n] = IF n <= 1 THEN RetryBase ELSE After(doubled[n - 1])
    OBVIOUS
  <2> HIDE DEF rule
  <2>2. QED
   BY <1>6, <2>1 DEF Follows
<1>8. DOMAIN doubled = Nat /\ doubled = [n \in Nat |-> doubled[n]]
  <2>1. DOMAIN rule(doubled) = Nat /\ rule(doubled) = [n \in Nat |-> rule(doubled)[n]]
    OBVIOUS
  <2> HIDE DEF rule
  <2>2. QED
    BY <1>6, <2>1
<1>9. \A n \in Nat : doubled[n] \in Delays
  <2> DEFINE T == {n \in Nat : doubled[n] \in Delays}
  <2>1. 0 \in T
    BY <1>7, SchedulerAssumption DEF Follows, Delays
  <2>2. ASSUME NEW n \in Nat, n \in T PROVE n + 1 \in T
    <3>1. Follows(doubled, n + 1) /\ n + 1 \in Nat /\ (n + 1) - 1 = n
      BY <1>7
    <3>2. doubled[n + 1] \in Delays
      BY <3>1, <2>2, AfterStays, SchedulerAssumption DEF Follows, Delays
    <3>3. QED
      BY <3>1, <3>2
  <2>3. Nat \subseteq T
    <3> HIDE DEF T
    <3> QED BY <2>1, <2>2, SetInduction
  <2>4. QED
    BY <2>3
<1>10. QED
  BY <1>7, <1>8, <1>9

-----------------------------------------------------------------------------
(* Types.                                                                  *)

LEMMA RetryDelayType ==
    \A n \in Nat : retryDelay(n) \in Nat
BY DoublingDefined, SchedulerAssumption DEF retryDelay, Delays

\* A plan made after at lies in the future.
LEMMA PlannedType ==
    ASSUME NEW planned \in Nat, NEW period \in Nat \ {0}, NEW at \in Nat
    PROVE  advancePlanned(planned, period, at) \in Nat
<1> DEFINE next == planned + period
<1>1. next \in Nat
  OBVIOUS
<1>2. CASE next > at
  BY <1>1, <1>2 DEF advancePlanned
<1>3. CASE ~(next > at)
  <2>1. at - next \in Nat
    BY <1>1, <1>3
  <2> DEFINE n == (at - next) \div period
  <2>2. n \in Nat
    BY <2>1
  <2>3. next + (n + 1) * period \in Nat
    <3> HIDE DEF n, next
    <3> QED BY <1>1, <2>2
  <2>4. QED
    BY <1>3, <2>3 DEF advancePlanned
<1>4. QED
  BY <1>2, <1>3

LEMMA AdvancedType ==
    ASSUME TypeOK, NEW g \in Present, NEW at \in Nat
    PROVE  Advanced(g, at) \in Entry /\ ~Advanced(g, at).retrying
<1> DEFINE e == entries[g]
<1>1. e \in Entry /\ Period[g] \in Nat \ {0}
  BY SchedulerAssumption DEF TypeOK, Present
<1>2. /\ advancePlanned(e.nextCadence, Period[g], at) \in Nat
      /\ advancePlanned(e.nextRunAt, Period[g], at) \in Nat
  BY <1>1, PlannedType DEF Entry
<1>3. QED
  BY <1>1, <1>2 DEF Advanced, Entry

LEMMA Constants ==
    /\ \A g \in Groups : /\ Period[g] \in Nat /\ Period[g] > 0
                       /\ Offset[g] \in Nat /\ Offset[g] < Period[g]
    /\ QueueCapacity \in Nat /\ QueueCapacity > 0 /\ IdleWait \in Nat
    /\ RetryBase \in Nat /\ RetryBase > 0 /\ RetryMax \in Nat
    /\ Cardinality(Workers) \in Nat
BY SchedulerAssumption, FS_CardinalityType

LEMMA EntryShape ==
    ASSUME NEW e \in Entry
    PROVE  /\ e.nextRunAt \in Nat /\ e.nextCadence \in Nat /\ e.failures \in Nat
           /\ e.retrying \in BOOLEAN
BY DEF Entry

LEMMA PresentShape ==
    ASSUME TypeOK, NEW g \in Present
    PROVE  g \in Groups /\ entries[g] \in Entry /\ entries[g] # Absent
BY DEF TypeOK, Present

\* The head of a channel, and what is left of it.
LEMMA HeadOf ==
    ASSUME NEW S, NEW s \in Seq(S), s # <<>>
    PROVE  /\ s[1] \in S /\ 1 \in DOMAIN s
           /\ Tail(s) \in Seq(S) /\ Len(Tail(s)) = Len(s) - 1
           /\ Len(s) \in Nat /\ Len(s) > 0
OBVIOUS

LEMMA AppendTo ==
    ASSUME NEW S, NEW s \in Seq(S), NEW x \in S
    PROVE  Append(s, x) \in Seq(S) /\ Len(Append(s, x)) = Len(s) + 1 /\ Len(s) \in Nat
OBVIOUS

LEMMA FailedType ==
    ASSUME NEW e \in Entry, now \in Nat
    PROVE  Failed(e) \in Entry
<1> DEFINE failures == e.failures + 1
           retryAt  == now + retryDelay(failures)
<1>1. failures \in Nat /\ retryAt \in Nat
  BY RetryDelayType, EntryShape
<1>2. /\ [e EXCEPT !.failures = failures, !.nextCadence = e.nextRunAt,
                   !.nextRunAt = retryAt, !.retrying = TRUE] \in Entry
      /\ [e EXCEPT !.failures = failures] \in Entry
  <2> HIDE DEF failures, retryAt
  <2> QED BY <1>1 DEF Entry
<1>3. QED
  BY <1>2 DEF Failed

LEMMA NewEntryType ==
    ASSUME TypeOK, NEW g \in Groups
    PROVE  NewEntry(g) \in Entry
BY SchedulerAssumption DEF TypeOK, NewEntry, Entry

LEMMA MinOf ==
    ASSUME NEW S, S \subseteq Nat, S # {}
    PROVE  Min(S) \in S /\ \A x \in S : Min(S) <= x
BY LeastOf DEF Min

LEMMA MaxOfTwo ==
    ASSUME NEW a \in Nat, NEW b \in Nat
    PROVE  Max({a, b}) \in {a, b} /\ Max({a, b}) >= a /\ Max({a, b}) >= b
<1>1. \E x \in {a, b} : \A y \in {a, b} : x >= y
  OBVIOUS
<1>2. QED
  BY <1>1 DEF Max

\* The timer is set for the earliest run, or for now if that is over.
LEMMA DeadlineFact ==
    ASSUME TypeOK
    PROVE  /\ Deadline \in Nat
           /\ \A g \in Present : Deadline <= now \/ Deadline <= entries[g].nextRunAt
<1>1. CASE Present = {}
  BY <1>1, SchedulerAssumption DEF Deadline, TypeOK
<1>2. CASE Present # {}
  <2> DEFINE runs == {entries[g].nextRunAt : g \in Present}
  <2>1. runs \subseteq Nat /\ runs # {}
    BY <1>2, PresentShape, EntryShape
  <2>2. Min(runs) \in Nat /\ \A g \in Present : Min(runs) <= entries[g].nextRunAt
    BY <2>1, MinOf
  <2>3. Deadline = Max({now, Min(runs)})
    BY <1>2 DEF Deadline
  <2> HIDE DEF runs
  <2>4. Deadline \in {now, Min(runs)}
    BY <2>2, <2>3, MaxOfTwo DEF TypeOK
  <2>5. QED
    BY <2>2, <2>4 DEF TypeOK
<1>3. QED
  BY <1>1, <1>2

LEMMA InitTypes ==
    Init => TypeOK
<1> SUFFICES ASSUME Init PROVE TypeOK
  OBVIOUS
<1>1. now \in Nat /\ entries \in [Groups -> Entry \cup {Absent}] /\ first \in [Groups -> Nat]
      /\ inFlight \in [Groups -> Nat]
  BY DEF Init
<1>2. tasks \in Seq(Groups) /\ Len(tasks) <= QueueCapacity
      /\ done \in Seq([group : Groups, ok : BOOLEAN]) /\ Len(done) <= Cardinality(Workers)
  BY Constants DEF Init
<1>3. QED
  BY <1>1, <1>2, Constants DEF Init, TypeOK, IdleWorker

LEMMA ReplaceTypes ==
    ASSUME TypeOK, NEW desired \in SUBSET Groups, ReplaceGroups(desired)
    PROVE  TypeOK'
<1>1. entries' \in [Groups -> Entry \cup {Absent}]
  BY NewEntryType DEF TypeOK, ReplaceGroups
<1>2. first' \in [Groups -> Nat]
  <2>1. \A g \in Groups : now + Offset[g] \in Nat /\ first[g] \in Nat
    BY Constants DEF TypeOK
  <2>2. QED
    BY <2>1 DEF ReplaceGroups
<1>3. QED
  BY <1>1, <1>2 DEF TypeOK, ReplaceGroups

\* What the dispatcher makes of a due group is an entry.
LEMMA PlanTypes ==
    ASSUME TypeOK, NEW g \in Groups, HeadIsDue(g)
    PROVE  /\ Advanced(g, dispatcher.at) \in Entry
           /\ [Advanced(g, dispatcher.at) EXCEPT
                 !.nextRunAt = dispatcher.at + RetryBase, !.retrying = TRUE] \in Entry
<1>1. dispatcher.at \in Nat /\ g \in Present
  BY DEF TypeOK, HeadIsDue, Earliest
<1>2. Advanced(g, dispatcher.at) \in Entry
  BY <1>1, AdvancedType
<1>3. dispatcher.at + RetryBase \in Nat
  BY <1>1, Constants
<1>4. QED
  BY <1>2, <1>3 DEF Entry

LEMMA DispatchTypes ==
    ASSUME TypeOK, dispatchDue
    PROVE  TypeOK'
<1>1. ASSUME NEW g \in Groups, Enqueue(g) PROVE TypeOK'
  <2>1. entries' \in [Groups -> Entry \cup {Absent}]
    BY <1>1, PlanTypes DEF TypeOK, Enqueue
  <2>2. tasks' \in Seq(Groups) /\ Len(tasks') <= QueueCapacity
    BY <1>1, SchedulerAssumption DEF TypeOK, Enqueue, HasRoom
  <2>3. inFlight' \in [Groups -> Nat]
    BY <1>1 DEF TypeOK, Enqueue
  <2>4. QED
    BY <1>1, <2>1, <2>2, <2>3 DEF TypeOK, Enqueue
<1>2. ASSUME NEW g \in Groups, SkipInFlight(g) \/ QueueFull(g) PROVE TypeOK'
  <2>1. entries' \in [Groups -> Entry \cup {Absent}]
    <3>1. PICK e \in Entry : entries' = [entries EXCEPT ![g] = e]
      BY <1>2, PlanTypes DEF SkipInFlight, QueueFull
    <3>2. QED
      BY <3>1 DEF TypeOK
  <2>2. QED
    BY <1>2, <2>1 DEF TypeOK, SkipInFlight, QueueFull
<1>3. ASSUME NEW g \in Groups, DispatchCancelled(g) PROVE TypeOK'
  <2>1. entries' \in [Groups -> Entry \cup {Absent}]
    <3>1. HeadIsDue(g) /\ entries' = [entries EXCEPT ![g] = Advanced(g, dispatcher.at)]
      BY <1>3 DEF DispatchCancelled
    <3>2. Advanced(g, dispatcher.at) \in Entry
      BY <3>1, PlanTypes
    <3>3. QED
      BY <3>1, <3>2 DEF TypeOK
  <2>2. QED
    BY <1>3, <2>1 DEF TypeOK, DispatchCancelled, Arming
<1>4. CASE NothingDue
  BY <1>4 DEF TypeOK, NothingDue, Arming
<1>5. QED
  BY <1>1, <1>2, <1>3, <1>4 DEF dispatchDue

LEMMA DoneTypes ==
    ASSUME TypeOK, handleDone
    PROVE  TypeOK'
<1>1. done[1] \in [group : Groups, ok : BOOLEAN]
  <2>1. done \in Seq([group : Groups, ok : BOOLEAN]) /\ done # <<>>
    BY DEF TypeOK, handleDone
  <2>2. QED
    BY <2>1, HeadOf
<1>2. entries' \in [Groups -> Entry \cup {Absent}]
  <2>1. SUFFICES ASSUME NEW g \in Groups PROVE entries'[g] \in Entry \cup {Absent}
    BY DEF TypeOK, handleDone
  <2>2. CASE entries[g] = Absent \/ g # done[1].group
    BY <2>2, <1>1 DEF TypeOK, handleDone
  <2>3. CASE entries[g] # Absent /\ g = done[1].group
    <3>1. entries[g] \in Entry /\ Failed(entries[g]) \in Entry
      BY <2>3, FailedType DEF TypeOK
    <3>2. [entries[g] EXCEPT !.failures = 0] \in Entry
      BY <3>1 DEF Entry
    <3>3. QED
      BY <2>3, <3>1, <3>2 DEF TypeOK, handleDone
  <2>4. QED
    BY <2>2, <2>3
<1>3. inFlight' \in [Groups -> Nat]
  BY <1>1 DEF TypeOK, handleDone, Uncounted
<1>4. done' \in Seq([group : Groups, ok : BOOLEAN]) /\ Len(done') <= Cardinality(Workers)
  <2>1. done \in Seq([group : Groups, ok : BOOLEAN]) /\ done # <<>> /\ done' = Tail(done)
        /\ Len(done) <= Cardinality(Workers)
    BY DEF TypeOK, handleDone
  <2>2. QED
    BY <2>1, HeadOf, Constants
<1>5. QED
  BY <1>2, <1>3, <1>4 DEF TypeOK, handleDone, Arming

LEMMA WorkerTypes ==
    ASSUME TypeOK, NEW w \in Workers, runWorker(w),
           worker[w].pc = "reporting" => worker[w].group \in Groups
    PROVE  TypeOK'
<1>1. CASE TakeTask(w)
  <2>1. tasks \in Seq(Groups) /\ tasks # <<>> /\ tasks' = Tail(tasks)
        /\ Len(tasks) <= QueueCapacity
    BY <1>1 DEF TypeOK, TakeTask
  <2>2. tasks' \in Seq(Groups) /\ Len(tasks') <= QueueCapacity /\ tasks[1] \in Groups
    BY <2>1, HeadOf, Constants
  <2>3. worker' \in [Workers -> [pc : {"idle", "executing", "reporting", "exited"},
                                 group : Groups \cup {Absent}, ok : BOOLEAN]]
    BY <1>1, <2>2 DEF TypeOK, TakeTask
  <2>4. QED
    BY <1>1, <2>2, <2>3 DEF TypeOK, TakeTask
<1>2. ASSUME NEW ok \in BOOLEAN, Execute(w, ok) PROVE TypeOK'
  BY <1>2 DEF TypeOK, Execute
<1>3. CASE Report(w)
  <2>1. done' \in Seq([group : Groups, ok : BOOLEAN]) /\ Len(done') <= Cardinality(Workers)
    <3>1. [group |-> worker[w].group, ok |-> worker[w].ok] \in [group : Groups, ok : BOOLEAN]
      BY <1>3 DEF TypeOK, Report
    <3>2. done \in Seq([group : Groups, ok : BOOLEAN]) /\ Len(done) < Cardinality(Workers)
          /\ done' = Append(done, [group |-> worker[w].group, ok |-> worker[w].ok])
      BY <1>3 DEF TypeOK, Report
    <3>3. QED
      BY <3>1, <3>2, Constants, AppendTo
  <2>2. worker' \in [Workers -> [pc : {"idle", "executing", "reporting", "exited"},
                                 group : Groups \cup {Absent}, ok : BOOLEAN]]
    BY <1>3 DEF TypeOK, Report, IdleWorker
  <2>3. QED
    BY <1>3, <2>1, <2>2 DEF TypeOK, Report
<1>4. CASE WorkerExits(w)
  BY <1>4 DEF TypeOK, WorkerExits, IdleWorker
<1>5. QED
  BY <1>1, <1>2, <1>3, <1>4 DEF runWorker

LEMMA OtherTypes ==
    ASSUME TypeOK,
           \/ Tick \/ Notify \/ TimerFires \/ TakeWake \/ NextWait \/ ResetTimer
           \/ DispatcherExits \/ Cancel \/ Drain \/ UNCHANGED vars
    PROVE  TypeOK'
<1>1. CASE Tick
  BY <1>1 DEF TypeOK, Tick
<1>2. CASE Notify
  BY <1>2 DEF TypeOK, Notify, TokenSent
<1>3. CASE TimerFires \/ TakeWake \/ ResetTimer \/ DispatcherExits
  <2>1. CASE TimerFires \/ ResetTimer
    BY <2>1 DEF TypeOK, TimerFires, ResetTimer
  <2>2. CASE TakeWake
    BY <2>2 DEF TypeOK, TakeWake, Arming
  <2>3. CASE DispatcherExits
    BY <2>3 DEF TypeOK, DispatcherExits, Arming
  <2>4. QED
    BY <1>3, <2>1, <2>2, <2>3
<1>4. CASE NextWait
  BY <1>4, DeadlineFact DEF TypeOK, NextWait
<1>5. CASE Cancel
  BY <1>5 DEF TypeOK, Cancel
<1>6. CASE Drain
  <2>1. tasks' \in Seq(Groups) /\ Len(tasks') <= QueueCapacity
    BY <1>6, Constants DEF Drain
  <2>2. QED
    BY <1>6, <2>1 DEF TypeOK, Drain
<1>7. CASE UNCHANGED vars
  BY <1>7 DEF TypeOK, vars
<1>8. QED
  BY <1>1, <1>2, <1>3, <1>4, <1>5, <1>6, <1>7

-----------------------------------------------------------------------------
(* Tasks.                                                                  *)

\* The places of s that hold a member of V.
Where(s, V) == {n \in DOMAIN s : s[n] \in V}

LEMMA WhereFinite ==
    ASSUME NEW S, NEW s \in Seq(S), NEW V
    PROVE  IsFiniteSet(Where(s, V)) /\ Cardinality(Where(s, V)) \in Nat
<1>1. DOMAIN s = 1..Len(s) /\ Len(s) \in Nat
  OBVIOUS
<1>2. IsFiniteSet(1..Len(s))
  BY <1>1, FS_Interval
<1>3. Where(s, V) \in SUBSET (1..Len(s))
  BY <1>1 DEF Where
<1>4. IsFiniteSet(Where(s, V))
  BY <1>2, <1>3, FS_Subset
<1>5. QED
  BY <1>4, FS_CardinalityType

\* A send adds its message to those of its kind.
LEMMA WhereAppend ==
    ASSUME NEW S, NEW s \in Seq(S), NEW x \in S, NEW V
    PROVE  Cardinality(Where(Append(s, x), V))
             = Cardinality(Where(s, V)) + (IF x \in V THEN 1 ELSE 0)
<1> DEFINE t == Append(s, x)
           n == Len(s) + 1
<1>1. /\ Len(s) \in Nat /\ DOMAIN s = 1..Len(s) /\ DOMAIN t = 1..n
      /\ \A k \in 1..Len(s) : t[k] = s[k]
      /\ t[n] = x
  OBVIOUS
<1>2. n \notin Where(s, V) /\ IsFiniteSet(Where(s, V)) /\ Cardinality(Where(s, V)) \in Nat
  <2>1. n \notin Where(s, V)
    BY <1>1 DEF Where
  <2>2. QED
    BY <2>1, WhereFinite
<1> HIDE DEF t
<1>3. CASE x \in V
  <2>1. Where(t, V) = Where(s, V) \cup {n}
    BY <1>1, <1>3 DEF Where
  <2>2. QED
    BY <2>1, <1>2, <1>3, FS_AddElement DEF t
<1>4. CASE x \notin V
  <2>1. Where(t, V) = Where(s, V)
    BY <1>1, <1>4 DEF Where
  <2>2. QED
    BY <2>1, <1>2, <1>4 DEF t
<1>5. QED
  BY <1>3, <1>4

\* A receive takes its message away from those of its kind.
LEMMA WhereTail ==
    ASSUME NEW S, NEW s \in Seq(S), s # <<>>, NEW V
    PROVE  Cardinality(Where(s, V))
             = Cardinality(Where(Tail(s), V)) + (IF s[1] \in V THEN 1 ELSE 0)
<1> DEFINE t == Tail(s)
           later == Where(s, V) \ {1}
<1>1. /\ Len(s) \in Nat /\ Len(s) > 0 /\ DOMAIN s = 1..Len(s) /\ DOMAIN t = 1..(Len(s) - 1)
      /\ \A k \in 1..(Len(s) - 1) : t[k] = s[k + 1]
      /\ t \in Seq(S)
  OBVIOUS
<1> HIDE DEF t
<1>2. /\ IsFiniteSet(Where(s, V)) /\ Cardinality(Where(s, V)) \in Nat
      /\ IsFiniteSet(Where(t, V)) /\ Cardinality(Where(t, V)) \in Nat
  BY <1>1, WhereFinite
<1>3. Cardinality(later) = Cardinality(Where(t, V))
  <2> DEFINE f == [k \in Where(t, V) |-> k + 1]
  <2>1. f \in [Where(t, V) -> later]
    BY <1>1 DEF Where
  <2>2. \A j, k \in Where(t, V) : f[j] = f[k] => j = k
    BY <1>1 DEF Where
  <2>3. ASSUME NEW m \in later PROVE \E k \in Where(t, V) : f[k] = m
    <3>1. m \in 2..Len(s) /\ s[m] \in V
      BY <1>1 DEF Where
    <3>2. m - 1 \in Where(t, V) /\ (m - 1) + 1 = m
      BY <1>1, <3>1 DEF Where
    <3>3. QED
      BY <3>2
  <2> HIDE DEF f, later
  <2>4. f \in Bijection(Where(t, V), later)
    BY <2>1, <2>2, <2>3, Fun_IsBij
  <2>5. ExistsBijection(Where(t, V), later)
    BY <2>4 DEF ExistsBijection
  <2>6. QED
    BY <2>5, <1>2, FS_Bijection
<1>4. Cardinality(later) = IF 1 \in Where(s, V) THEN Cardinality(Where(s, V)) - 1
                           ELSE Cardinality(Where(s, V))
  BY <1>2, FS_RemoveElement
<1>5. 1 \in Where(s, V) <=> s[1] \in V
  BY <1>1 DEF Where
<1>6. QED
  BY <1>2, <1>3, <1>4, <1>5 DEF t
Results == [group : Groups, ok : BOOLEAN]
Of(g) == {r \in Results : r.group = g}
Holders(k, g) == {w \in Workers : k[w].group = g}

\* Tasks(g), of any contents of the channels and the workers.
Sum(t, d, k, g) ==
    Cardinality({n \in DOMAIN t : t[n] = g})
      + Cardinality({n \in DOMAIN d : d[n].group = g})
      + Cardinality({w \in Workers : k[w].group = g})

Count(t, d, k, g) ==
    Cardinality(Where(t, {g})) + Cardinality(Where(d, Of(g))) + Cardinality(Holders(k, g))

LEMMA HoldersFinite ==
    ASSUME NEW k, NEW g
    PROVE  IsFiniteSet(Holders(k, g)) /\ Cardinality(Holders(k, g)) \in Nat
<1>1. Holders(k, g) \in SUBSET Workers /\ IsFiniteSet(Workers)
  BY SchedulerAssumption DEF Holders
<1>2. QED
  BY <1>1, FS_Subset, FS_CardinalityType

LEMMA CountOf ==
    ASSUME NEW t \in Seq(Groups), NEW d \in Seq(Results), NEW k, NEW g \in Groups
    PROVE  /\ Sum(t, d, k, g) = Count(t, d, k, g)
           /\ Cardinality(Where(t, {g})) \in Nat
           /\ Cardinality(Where(d, Of(g))) \in Nat
           /\ Cardinality(Holders(k, g)) \in Nat
           /\ Count(t, d, k, g) \in Nat
<1>1. {n \in DOMAIN t : t[n] = g} = Where(t, {g})
  BY DEF Where
<1>2. {n \in DOMAIN d : d[n].group = g} = Where(d, Of(g))
  <2>1. \A n \in DOMAIN d : d[n] \in Results
    OBVIOUS
  <2>2. QED
    BY <2>1 DEF Where, Of
<1>3. {w \in Workers : k[w].group = g} = Holders(k, g)
  BY DEF Holders
<1>4. /\ Cardinality(Where(t, {g})) \in Nat
      /\ Cardinality(Where(d, Of(g))) \in Nat
      /\ Cardinality(Holders(k, g)) \in Nat
  BY WhereFinite, HoldersFinite
<1>5. Sum(t, d, k, g) = Count(t, d, k, g)
  BY <1>1, <1>2, <1>3, Zenon DEF Count, Sum
<1>6. Count(t, d, k, g) \in Nat
  BY <1>4 DEF Count
<1>7. QED
  BY <1>4, <1>5, <1>6, Zenon

LEMMA CountIsTasks ==
    ASSUME TypeOK, NEW g \in Groups
    PROVE  Tasks(g) = Count(tasks, done, worker, g) /\ Tasks(g) \in Nat
<1>1. tasks \in Seq(Groups) /\ done \in Seq(Results)
  BY DEF TypeOK, Results
<1>2. Tasks(g) = Sum(tasks, done, worker, g)
  BY DEF Tasks, Sum
<1>3. /\ Sum(tasks, done, worker, g) = Count(tasks, done, worker, g)
      /\ Count(tasks, done, worker, g) \in Nat
  BY <1>1, CountOf, Zenon
<1>4. QED
  BY <1>2, <1>3, Zenon

LEMMA CountIsTasksNext ==
    ASSUME TypeOK', NEW g \in Groups
    PROVE  Tasks(g)' = Count(tasks', done', worker', g) /\ Tasks(g)' \in Nat
<1>1. tasks' \in Seq(Groups) /\ done' \in Seq(Results)
  BY DEF TypeOK, Results
<1>2. Tasks(g)' = Sum(tasks', done', worker', g)
  BY DEF Tasks, Sum
<1>3. /\ Sum(tasks', done', worker', g) = Count(tasks', done', worker', g)
      /\ Count(tasks', done', worker', g) \in Nat
  BY <1>1, CountOf, Zenon
<1>4. QED
  BY <1>2, <1>3, Zenon

\* A worker takes a group, or gives one back.
LEMMA HoldersMove ==
    ASSUME NEW k, NEW l, NEW w \in Workers, NEW g \in Groups, NEW h \in Groups,
           \A v \in Workers \ {w} : l[v] = k[v],
           k[w].group = Absent, l[w].group = h
    PROVE  Cardinality(Holders(l, g)) = Cardinality(Holders(k, g)) + (IF g = h THEN 1 ELSE 0)
<1>1. w \notin Holders(k, g) /\ IsFiniteSet(Holders(k, g)) /\ Cardinality(Holders(k, g)) \in Nat
  <2>1. w \notin Holders(k, g)
    BY SchedulerAssumption DEF Holders
  <2>2. QED
    BY <2>1, HoldersFinite
<1>2. CASE g = h
  <2>1. Holders(l, g) = Holders(k, g) \cup {w}
    BY <1>2 DEF Holders
  <2>2. Cardinality(Holders(k, g) \cup {w}) = Cardinality(Holders(k, g)) + 1
    BY <1>1, FS_AddElement
  <2>3. QED
    BY <1>2, <2>1, <2>2
<1>3. CASE g # h
  <2>1. Holders(l, g) = Holders(k, g)
    BY <1>1, <1>3 DEF Holders
  <2>2. QED
    BY <1>1, <1>3, <2>1
<1>4. QED
  BY <1>2, <1>3

\* Where the goroutines are, and what a worker has in its hands there.
Places ==
    /\ \A w \in Workers :
         IF worker[w].pc \in {"executing", "reporting"} THEN worker[w].group \in Groups
         ELSE worker[w].group = Absent
    /\ dispatcher.pc = "exited" => cancelled
    /\ \A w \in Workers : worker[w].pc = "exited" => cancelled
    /\ stopped => /\ cancelled /\ dispatcher.pc = "exited"
                  /\ \A w \in Workers : worker[w].pc = "exited"

TaskInv == Places /\ OneTaskPerGroup

LEMMA PlacesPreserved ==
    ASSUME TypeOK, Places, [Next]_vars
    PROVE  Places'
<1>1. CASE \/ Tick \/ MetadataLoop \/ UNCHANGED vars
  BY <1>1 DEF Places, Tick, MetadataLoop, Notify, ReplaceGroups, vars
<1>2. CASE dispatchDue \/ handleDone
  <2>1. UNCHANGED <<worker, cancelled, stopped>>
    BY <1>2 DEF dispatchDue, Enqueue, SkipInFlight, QueueFull, DispatchCancelled,
                NothingDue, handleDone
  <2>2. dispatcher.pc \in {"dispatching", "select"} /\ dispatcher' \in {dispatcher, Arming}
    <3>1. ASSUME NEW g \in Groups, Enqueue(g) \/ SkipInFlight(g) \/ QueueFull(g)
          PROVE  dispatcher.pc = "dispatching" /\ dispatcher' = dispatcher
      BY <3>1 DEF Enqueue, SkipInFlight, QueueFull, HeadIsDue
    <3>2. ASSUME NEW g \in Groups, DispatchCancelled(g)
          PROVE  dispatcher.pc = "dispatching" /\ dispatcher' = Arming
      BY <3>2 DEF DispatchCancelled, HeadIsDue
    <3>3. CASE NothingDue \/ handleDone
      BY <3>3 DEF NothingDue, handleDone
    <3>4. QED
      BY <1>2, <3>1, <3>2, <3>3 DEF dispatchDue
  <2>3. ~stopped /\ dispatcher'.pc # "exited"
    BY <2>2 DEF Places, Arming
  <2>4. QED
    BY <2>1, <2>3 DEF Places
<1>3. CASE TimerFires \/ TakeWake \/ NextWait \/ ResetTimer \/ DispatcherExits
  BY <1>3 DEF TypeOK, Places, TimerFires, TakeWake, NextWait, ResetTimer, DispatcherExits, Arming
<1>4. ASSUME NEW w \in Workers, runWorker(w) PROVE Places'
  <2>1. CASE TakeTask(w)
    <3>1. tasks[1] \in Groups
      BY <2>1, HeadOf DEF TypeOK, TakeTask
    <3>2. QED
      BY <2>1, <3>1 DEF TypeOK, Places, TakeTask
  <2>2. ASSUME NEW ok \in BOOLEAN, Execute(w, ok) PROVE Places'
    BY <2>2 DEF TypeOK, Places, Execute
  <2>3. CASE Report(w)
    BY <2>3 DEF TypeOK, Places, Report, IdleWorker
  <2>4. CASE WorkerExits(w)
    BY <2>4 DEF TypeOK, Places, WorkerExits, IdleWorker
  <2>5. QED
    BY <1>4, <2>1, <2>2, <2>3, <2>4 DEF runWorker
<1>5. CASE Cancel \/ Drain
  BY <1>5 DEF Places, Cancel, Drain
<1>6. QED
  BY <1>1, <1>2, <1>3, <1>4, <1>5 DEF Next, Dispatcher
\* The sums of OneTaskPerGroup, told by the values of a step.
LEMMA CountsKeep ==
    ASSUME TypeOK, TypeOK', TaskInv, UNCHANGED <<tasks, done, worker, inFlight, stopped>>,
           cancelled => cancelled'
    PROVE  OneTaskPerGroup'
<1>1. \A g \in Groups : Tasks(g)' = Tasks(g)
  BY DEF Tasks
<1>2. QED
  BY <1>1 DEF TaskInv, OneTaskPerGroup

\* A step that changes neither the count of a group nor the number of its tasks, or
\* both by one, keeps them equal.
LEMMA EnqueueCounts ==
    ASSUME TypeOK, TypeOK', TaskInv, NEW h \in Groups, Enqueue(h)
    PROVE  OneTaskPerGroup'
<1>1. /\ tasks \in Seq(Groups) /\ tasks' = Append(tasks, h)
      /\ UNCHANGED <<done, worker, cancelled, stopped>>
      /\ inFlight \in [Groups -> Nat] /\ inFlight[h] = 0
      /\ inFlight' = [inFlight EXCEPT ![h] = @ + 1]
      /\ ~stopped
  BY DEF TypeOK, Enqueue, HeadIsDue, TaskInv, Places
<1>2. ASSUME NEW g \in Groups
      PROVE  Tasks(g)' = Tasks(g) + (IF g = h THEN 1 ELSE 0) /\ Tasks(g) \in Nat
  <2>1. Tasks(g)' = Count(tasks', done, worker, g)
    BY <1>1, CountIsTasksNext
  <2>2. Cardinality(Where(tasks', {g}))
          = Cardinality(Where(tasks, {g})) + (IF g = h THEN 1 ELSE 0)
    BY <1>1, WhereAppend
  <2>3. Tasks(g) = Count(tasks, done, worker, g) /\ Tasks(g) \in Nat
    BY CountIsTasks
  <2>4. /\ Cardinality(Where(tasks, {g})) \in Nat
        /\ Cardinality(Where(done, Of(g))) \in Nat
        /\ Cardinality(Holders(worker, g)) \in Nat
    BY CountOf DEF TypeOK, Results
  <2>5. Count(tasks', done, worker, g)
          = Count(tasks, done, worker, g) + (IF g = h THEN 1 ELSE 0)
    BY <2>2, <2>4 DEF Count
  <2>6. QED
    BY <2>1, <2>3, <2>5
<1>3. QED
  BY <1>1, <1>2 DEF TaskInv, OneTaskPerGroup
\* The parts of a sum.
LEMMA PartsType ==
    ASSUME TypeOK, NEW g \in Groups
    PROVE  /\ Cardinality(Where(tasks, {g})) \in Nat
           /\ Cardinality(Where(done, Of(g))) \in Nat
           /\ Cardinality(Holders(worker, g)) \in Nat
<1>1. tasks \in Seq(Groups) /\ done \in Seq(Results)
  BY DEF TypeOK, Results
<1>2. QED
  BY <1>1, WhereFinite, HoldersFinite

\* handleDone counts down what it takes from the channel, whether or not the group is
\* still there: the count is one, because the task was among those counted.
LEMMA DoneCounts ==
    ASSUME TypeOK, TypeOK', TaskInv, handleDone
    PROVE  OneTaskPerGroup'
<1> DEFINE h == done[1].group
<1>1. /\ done \in Seq(Results) /\ done # <<>> /\ done' = Tail(done)
      /\ UNCHANGED <<tasks, worker, cancelled, stopped>>
      /\ inFlight \in [Groups -> Nat]
      /\ inFlight' = Uncounted(h)
      /\ ~stopped
  BY DEF TypeOK, Results, handleDone, TaskInv, Places
<1>2. done[1] \in Results /\ h \in Groups
  <2>1. done[1] \in Results
    BY <1>1, HeadOf
  <2>2. QED
    BY <2>1 DEF Results
<1> HIDE DEF h
<1>3. ASSUME NEW g \in Groups
      PROVE  Tasks(g) = Tasks(g)' + (IF g = h THEN 1 ELSE 0) /\ Tasks(g)' \in Nat
  <2>1. Tasks(g)' = Count(tasks, done', worker, g) /\ Tasks(g)' \in Nat
    BY <1>1, CountIsTasksNext
  <2>2. Cardinality(Where(done, Of(g)))
          = Cardinality(Where(done', Of(g))) + (IF g = h THEN 1 ELSE 0)
    <3>1. done[1] \in Of(g) <=> g = h
      BY <1>2 DEF Of, h
    <3>2. Cardinality(Where(done, Of(g)))
            = Cardinality(Where(Tail(done), Of(g))) + (IF done[1] \in Of(g) THEN 1 ELSE 0)
      BY <1>1, WhereTail
    <3>3. QED
      BY <1>1, <3>1, <3>2
  <2>3. Tasks(g) = Count(tasks, done, worker, g) /\ Tasks(g) \in Nat
    BY CountIsTasks
  <2>4. Cardinality(Where(done', Of(g))) \in Nat
    BY <1>1, HeadOf, WhereFinite
  <2>5. Count(tasks, done, worker, g)
          = Count(tasks, done', worker, g) + (IF g = h THEN 1 ELSE 0)
    BY <2>2, <2>4, PartsType DEF Count
  <2>6. QED
    BY <2>1, <2>3, <2>5
<1>4. \A g \in Groups : inFlight'[g] = IF g = h THEN (IF inFlight[g] > 1 THEN inFlight[g] - 1 ELSE 0)
                                     ELSE inFlight[g]
  BY <1>1, <1>2 DEF Uncounted
<1>5. ASSUME NEW g \in Groups
      PROVE  /\ inFlight'[g] <= 1 /\ Tasks(g)' <= inFlight'[g]
             /\ ~cancelled => Tasks(g)' = inFlight'[g]
  <2>1. /\ inFlight[g] \in Nat /\ inFlight[g] <= 1 /\ Tasks(g) <= inFlight[g]
        /\ ~cancelled => Tasks(g) = inFlight[g]
    BY <1>1 DEF TaskInv, OneTaskPerGroup
  <2>2. CASE g = h
    <3>1. Tasks(g) = Tasks(g)' + 1 /\ Tasks(g)' \in Nat
      BY <1>3, <2>2
    <3>2. inFlight[g] = 1 /\ Tasks(g)' = 0
      BY <2>1, <3>1
    <3>3. inFlight'[g] = 0
      BY <1>4, <2>2, <3>2
    <3>4. QED
      BY <3>2, <3>3
  <2>3. CASE g # h
    <3>1. Tasks(g) = Tasks(g)' /\ inFlight'[g] = inFlight[g]
      BY <1>3, <1>4, <2>3
    <3>2. QED
      BY <2>1, <3>1
  <2>4. QED
    BY <2>2, <2>3
<1>6. QED
  BY <1>1, <1>5 DEF OneTaskPerGroup

\* A worker moves a task from one place to the next.
LEMMA WorkerCounts ==
    ASSUME TypeOK, TypeOK', TaskInv, NEW w \in Workers, runWorker(w)
    PROVE  OneTaskPerGroup'
<1>1. CASE TakeTask(w)
  <2> DEFINE h == tasks[1]
  <2>1. /\ tasks \in Seq(Groups) /\ tasks # <<>> /\ tasks' = Tail(tasks)
        /\ UNCHANGED <<done, inFlight, cancelled, stopped>>
        /\ worker[w].group = Absent /\ worker'[w].group = h
        /\ \A v \in Workers \ {w} : worker'[v] = worker[v]
    BY <1>1 DEF TypeOK, TakeTask, TaskInv, Places
  <2>2. h \in Groups
    BY <2>1, HeadOf
  <2> HIDE DEF h
  <2>3. ASSUME NEW g \in Groups PROVE Tasks(g)' = Tasks(g)
    <3>1. Tasks(g)' = Count(tasks', done, worker', g)
      BY <2>1, CountIsTasksNext
    <3>2. Cardinality(Where(tasks, {g}))
            = Cardinality(Where(tasks', {g})) + (IF g = h THEN 1 ELSE 0)
      BY <2>1, WhereTail DEF h
    <3>3. Cardinality(Holders(worker', g))
            = Cardinality(Holders(worker, g)) + (IF g = h THEN 1 ELSE 0)
      BY <2>1, <2>2, HoldersMove
    <3>4. Tasks(g) = Count(tasks, done, worker, g)
      BY CountIsTasks
    <3>5. Cardinality(Where(tasks', {g})) \in Nat
      BY <2>1, HeadOf, WhereFinite
    <3>6. Count(tasks', done, worker', g) = Count(tasks, done, worker, g)
      BY <3>2, <3>3, <3>5, PartsType DEF Count
    <3>7. QED
      BY <3>1, <3>4, <3>6
  <2>4. QED
    BY <2>1, <2>3 DEF TaskInv, OneTaskPerGroup
<1>2. ASSUME NEW ok \in BOOLEAN, Execute(w, ok) PROVE OneTaskPerGroup'
  <2>1. /\ UNCHANGED <<tasks, done, inFlight, cancelled, stopped>>
        /\ \A v \in Workers : worker'[v].group = worker[v].group
    BY <1>2 DEF TypeOK, Execute
  <2>2. \A g \in Groups : Tasks(g)' = Tasks(g)
    <3>1. \A g \in Groups : {v \in Workers : worker'[v].group = g}
                             = {v \in Workers : worker[v].group = g}
      BY <2>1
    <3>2. QED
      BY <2>1, <3>1, Zenon DEF Tasks
  <2>3. QED
    BY <2>1, <2>2 DEF TaskInv, OneTaskPerGroup
<1>3. CASE Report(w)
  <2> DEFINE h == worker[w].group
             r == [group |-> h, ok |-> worker[w].ok]
  <2>1. /\ done \in Seq(Results) /\ done' = Append(done, r)
        /\ UNCHANGED <<tasks, inFlight, cancelled, stopped>>
        /\ h \in Groups /\ r \in Results /\ worker'[w].group = Absent
        /\ \A v \in Workers \ {w} : worker'[v] = worker[v]
    BY <1>3 DEF TypeOK, Report, TaskInv, Places, Results, IdleWorker
  <2>2. \A g : r \in Of(g) <=> g = h
    BY <2>1 DEF Of
  <2> HIDE DEF r
  <2>3. ASSUME NEW g \in Groups PROVE Tasks(g)' = Tasks(g)
    <3>1. Tasks(g)' = Count(tasks, done', worker', g)
      BY <2>1, CountIsTasksNext
    <3>2. Cardinality(Where(done', Of(g)))
            = Cardinality(Where(done, Of(g))) + (IF g = h THEN 1 ELSE 0)
      <4>1. Cardinality(Where(done', Of(g)))
              = Cardinality(Where(done, Of(g))) + (IF r \in Of(g) THEN 1 ELSE 0)
        BY <2>1, WhereAppend
      <4>2. QED
        BY <2>2, <4>1
    <3>3. Cardinality(Holders(worker, g))
            = Cardinality(Holders(worker', g)) + (IF g = h THEN 1 ELSE 0)
      BY <2>1, HoldersMove
    <3>4. Tasks(g) = Count(tasks, done, worker, g)
      BY CountIsTasks
    <3>5. Cardinality(Holders(worker', g)) \in Nat
      BY HoldersFinite
    <3>6. Count(tasks, done', worker', g) = Count(tasks, done, worker, g)
      BY <3>2, <3>3, <3>5, PartsType DEF Count
    <3>7. QED
      BY <3>1, <3>4, <3>6
  <2>4. QED
    BY <2>1, <2>3 DEF TaskInv, OneTaskPerGroup
<1>4. CASE WorkerExits(w)
  <2>1. /\ UNCHANGED <<tasks, done, inFlight, cancelled, stopped>> /\ cancelled
        /\ worker'[w].group = Absent
        /\ \A v \in Workers \ {w} : worker'[v] = worker[v]
    BY <1>4 DEF TypeOK, WorkerExits, IdleWorker
  <2>2. ASSUME NEW g \in Groups PROVE Tasks(g)' <= Tasks(g) /\ Tasks(g) \in Nat /\ Tasks(g)' \in Nat
    <3>1. Tasks(g)' = Count(tasks, done, worker', g) /\ Tasks(g)' \in Nat
      BY <2>1, CountIsTasksNext
    <3>2. Holders(worker', g) \in SUBSET Holders(worker, g)
      BY <2>1, SchedulerAssumption DEF Holders
    <3>3. Cardinality(Holders(worker', g)) <= Cardinality(Holders(worker, g))
      BY <3>2, HoldersFinite, FS_Subset
    <3>4. Tasks(g) = Count(tasks, done, worker, g) /\ Tasks(g) \in Nat
      BY CountIsTasks
    <3>5. Cardinality(Holders(worker', g)) \in Nat
      BY HoldersFinite
    <3>6. Count(tasks, done, worker', g) <= Count(tasks, done, worker, g)
      BY <3>3, <3>5, PartsType DEF Count
    <3>7. QED
      BY <3>1, <3>4, <3>6
  <2>3. QED
    BY <2>1, <2>2 DEF TypeOK, TaskInv, OneTaskPerGroup
<1>5. QED
  BY <1>1, <1>2, <1>3, <1>4 DEF runWorker

LEMMA TasksPreserved ==
    ASSUME TypeOK, TypeOK', TaskInv, [Next]_vars
    PROVE  TaskInv'
<1>1. OneTaskPerGroup'
  <2>1. CASE \/ Tick \/ MetadataLoop \/ TimerFires \/ TakeWake \/ NextWait \/ ResetTimer
             \/ DispatcherExits \/ Cancel \/ UNCHANGED vars
    <3>1. UNCHANGED <<tasks, done, worker, inFlight, stopped>> /\ (cancelled => cancelled')
      BY <2>1 DEF Tick, MetadataLoop, Notify, ReplaceGroups, TimerFires, TakeWake, NextWait,
                  ResetTimer, DispatcherExits, Cancel, vars
    <3>2. QED
      BY <3>1, CountsKeep
  <2>2. CASE dispatchDue
    <3>1. ASSUME NEW g \in Groups, Enqueue(g) PROVE OneTaskPerGroup'
      BY <3>1, EnqueueCounts
    <3>2. ASSUME NEW g \in Groups, SkipInFlight(g) \/ QueueFull(g) \/ DispatchCancelled(g)
          PROVE  OneTaskPerGroup'
      BY <3>2, CountsKeep DEF SkipInFlight, QueueFull, DispatchCancelled
    <3>3. CASE NothingDue
      BY <3>3, CountsKeep DEF NothingDue
    <3>4. QED
      BY <2>2, <3>1, <3>2, <3>3 DEF dispatchDue
  <2>3. CASE handleDone
    BY <2>3, DoneCounts
  <2>4. ASSUME NEW w \in Workers, runWorker(w) PROVE OneTaskPerGroup'
    BY <2>4, WorkerCounts
  <2>5. CASE Drain
    <3>1. \A g \in Groups : inFlight'[g] = 0
      BY <2>5 DEF Drain
    <3>2. stopped' /\ cancelled'
      BY <2>5 DEF Drain
    <3>3. QED
      BY <3>1, <3>2 DEF OneTaskPerGroup
  <2>6. QED
    BY <2>1, <2>2, <2>3, <2>4, <2>5 DEF Next, Dispatcher
<1>2. Places'
  BY PlacesPreserved DEF TaskInv
<1>3. QED
  BY <1>1, <1>2 DEF TaskInv

LEMMA NextTypes ==
    ASSUME TypeOK, TaskInv, [Next]_vars
    PROVE  TypeOK'
<1>1. CASE MetadataLoop
  BY <1>1, ReplaceTypes, OtherTypes DEF MetadataLoop
<1>2. CASE dispatchDue
  BY <1>2, DispatchTypes
<1>3. CASE handleDone
  BY <1>3, DoneTypes
<1>4. ASSUME NEW w \in Workers, runWorker(w) PROVE TypeOK'
  BY <1>4, WorkerTypes DEF TaskInv, Places
<1>5. CASE \/ Tick \/ TimerFires \/ TakeWake \/ NextWait \/ ResetTimer \/ DispatcherExits
           \/ Cancel \/ Drain \/ UNCHANGED vars
  BY <1>5, OtherTypes
<1>6. QED
  BY <1>1, <1>2, <1>3, <1>4, <1>5 DEF Next, Dispatcher

LEMMA InitTasks ==
    Init => TaskInv
<1> SUFFICES ASSUME Init PROVE TaskInv
  OBVIOUS
<1>1. Places
  BY DEF Init, Places, IdleWorker
<1>2. ASSUME NEW g \in Groups PROVE Tasks(g) = 0
  <2>1. {n \in DOMAIN tasks : tasks[n] = g} = {} /\ {n \in DOMAIN done : done[n].group = g} = {}
    BY DEF Init
  <2>2. {w \in Workers : worker[w].group = g} = {}
    BY SchedulerAssumption DEF Init, IdleWorker
  <2>3. Tasks(g) = 0 + 0 + 0
    BY <2>1, <2>2, FS_EmptySet, Zenon DEF Tasks
  <2>4. QED
    BY <2>3
<1>3. OneTaskPerGroup
  BY <1>2 DEF Init, OneTaskPerGroup
<1>4. QED
  BY <1>1, <1>3 DEF TaskInv

\* Types and tasks hold together: that the channels are typed rests on what the
\* workers hold.
THEOREM TaskInvariant ==
    Spec => [](TypeOK /\ TaskInv)
<1>1. Init => TypeOK /\ TaskInv
  BY InitTypes, InitTasks
<1>2. TypeOK /\ TaskInv /\ [Next]_vars => TypeOK' /\ TaskInv'
  BY NextTypes, TasksPreserved
<1>3. QED
  BY <1>1, <1>2, PTL DEF Spec

\* The scheduler is type-correct: the channels stay within their capacities, and
\* retries, however many, are planned for instants that exist.
THEOREM SchedulerTypes ==
    Spec => []TypeOK
BY TaskInvariant, PTL

\* A group never has two tasks at once, and its count in inFlightIDs is exact until
\* the context ends (scheduler.go:386, :416).
THEOREM OneTaskAtATime ==
    Spec => []OneTaskPerGroup
<1>1. TypeOK /\ TaskInv => OneTaskPerGroup
  BY DEF TaskInv
<1>2. QED
  BY <1>1, TaskInvariant, PTL

-----------------------------------------------------------------------------
(* The sleep of the dispatcher.                                            *)

\* SleepCovered, from the moment nextWait has read the heap.
SleepInv ==
    /\ dispatcher.pc \in {"armed", "select"} /\ ~wake /\ ~metadata.notify =>
         \A g \in Present : dispatcher.timer <= now \/ dispatcher.timer <= entries[g].nextRunAt

LEMMA SleepPreserved ==
    ASSUME TypeOK, SleepInv, [Next]_vars
    PROVE  SleepInv'
<1>1. CASE Tick
  <2>1. /\ now' = now + 1 /\ UNCHANGED <<entries, dispatcher, wake, metadata>>
        /\ now \in Nat /\ dispatcher.timer \in Nat
    BY <1>1 DEF TypeOK, Tick
  <2>2. dispatcher.timer <= now => dispatcher.timer <= now + 1
    BY <2>1
  <2>3. QED
    BY <2>1, <2>2 DEF SleepInv, Present
<1>2. CASE MetadataLoop
  <2>1. CASE Notify
    BY <2>1 DEF SleepInv, Notify, TokenSent
  <2>2. ASSUME NEW desired \in SUBSET Groups, ReplaceGroups(desired) PROVE SleepInv'
    <3>1. metadata'.notify
      BY <2>2 DEF ReplaceGroups
    <3>2. QED
      BY <3>1 DEF SleepInv
  <2>3. QED
    BY <1>2, <2>1, <2>2 DEF MetadataLoop
<1>3. CASE dispatchDue
  <2>1. dispatcher'.pc \notin {"armed", "select"}
    <3>1. ASSUME NEW g \in Groups, Enqueue(g) \/ SkipInFlight(g) \/ QueueFull(g)
          PROVE  dispatcher.pc = "dispatching" /\ dispatcher' = dispatcher
      BY <3>1 DEF Enqueue, SkipInFlight, QueueFull, HeadIsDue
    <3>2. ASSUME NEW g \in Groups, DispatchCancelled(g) PROVE dispatcher' = Arming
      BY <3>2 DEF DispatchCancelled
    <3>3. CASE NothingDue
      BY <3>3 DEF NothingDue, Arming
    <3>4. QED
      BY <1>3, <3>1, <3>2, <3>3 DEF dispatchDue, Arming
  <2>2. QED
    BY <2>1 DEF SleepInv
<1>4. CASE handleDone \/ TakeWake
  BY <1>4 DEF SleepInv, handleDone, TakeWake, Arming
<1>5. CASE TimerFires
  BY <1>5 DEF SleepInv, TimerFires
<1>6. CASE NextWait
  <2>1. dispatcher'.timer = Deadline /\ UNCHANGED <<now, entries>>
    BY <1>6 DEF NextWait
  <2>2. QED
    BY <2>1, DeadlineFact DEF SleepInv, Present
<1>7. CASE ResetTimer
  BY <1>7 DEF TypeOK, SleepInv, Present, ResetTimer
<1>8. CASE DispatcherExits
  BY <1>8 DEF TypeOK, SleepInv, DispatcherExits, Arming
<1>9. CASE (\E w \in Workers : runWorker(w)) \/ Cancel \/ Drain \/ UNCHANGED vars
  <2>1. UNCHANGED <<now, entries, dispatcher, wake, metadata>>
    BY <1>9 DEF runWorker, TakeTask, Execute, Report, WorkerExits, Cancel, Drain, vars
  <2>2. QED
    BY <2>1 DEF SleepInv, Present
<1>10. QED
  BY <1>1, <1>2, <1>3, <1>4, <1>5, <1>6, <1>7, <1>8, <1>9 DEF Next, Dispatcher

\* The dispatcher never sleeps past the earliest run (scheduler.go:353): what changes
\* the heap behind its back leaves a token on wake.
THEOREM NeverOversleeps ==
    Spec => []SleepCovered
<1>1. Init => SleepInv
  BY DEF Init, SleepInv
<1>2. TypeOK /\ SleepInv /\ [Next]_vars => SleepInv'
  BY SleepPreserved
<1>3. SleepInv => SleepCovered
  BY DEF SleepInv, SleepCovered
<1>4. QED
  BY <1>1, <1>2, <1>3, SchedulerTypes, PTL DEF Spec

-----------------------------------------------------------------------------
(* The cadence.                                                            *)

\* Whole periods keep the phase.
LEMMA PhaseKept ==
    ASSUME NEW x \in Nat, NEW k \in Nat, NEW p \in Nat, p > 0, x % p = 0
    PROVE  (x + k * p) % p = 0
<1> DEFINE j == x \div p
<1>1. j \in Nat
  OBVIOUS
<1>2. x = j * p
  OBVIOUS
<1> HIDE DEF j
<1>3. x + k * p = (j + k) * p /\ j + k \in Nat
  BY <1>1, <1>2
<1>4. ASSUME NEW n \in Nat PROVE (n * p) % p = 0
  OBVIOUS
<1>5. QED
  BY <1>3, <1>4

\* The next plan is a whole number of periods on, after at and by at most a period.
LEMMA PlannedFact ==
    ASSUME NEW planned \in Nat, NEW period \in Nat, period > 0, NEW at \in Nat, planned <= at
    PROVE  /\ \E k \in Nat : advancePlanned(planned, period, at) = planned + k * period
           /\ advancePlanned(planned, period, at) <= at + period
           /\ advancePlanned(planned, period, at) >= planned
<1> DEFINE next == planned + period
           n == (at - next) \div period
<1>1. next \in Nat /\ next = planned + 1 * period
  OBVIOUS
<1>2. CASE next > at
  <2>1. advancePlanned(planned, period, at) = next
    BY <1>2 DEF advancePlanned
  <2>2. next <= at + period /\ next >= planned
    OBVIOUS
  <2>3. QED
    BY <1>1, <2>1, <2>2
<1>3. CASE ~(next > at)
  <2>1. at - next \in Nat
    BY <1>1, <1>3
  <2>2. n \in Nat /\ n * period <= at - next
    <3>1. ASSUME NEW x \in Nat PROVE x \div period \in Nat /\ (x \div period) * period <= x
      OBVIOUS
    <3>2. QED
      BY <2>1, <3>1
  <2>3. advancePlanned(planned, period, at) = next + (n + 1) * period
    BY <1>3 DEF advancePlanned
  <2> HIDE DEF n
  <2>4. next + (n + 1) * period = planned + (n + 2) * period /\ n + 2 \in Nat
    BY <1>1, <2>2
  <2>5. n * period \in Nat /\ next + (n + 1) * period = next + n * period + period
    BY <1>1, <2>2
  <2>6. next + n * period + period <= at + period
        /\ next + n * period + period >= planned
    BY <1>1, <2>1, <2>2, <2>5
  <2>7. QED
    BY <2>3, <2>4, <2>5, <2>6
<1>4. QED
  BY <1>2, <1>3

\* A plan of g in its phase, no more than a period ahead.
Phased(g, start, cadence, at) ==
    /\ cadence >= start
    /\ (cadence - start) % Period[g] = 0
    /\ cadence <= at + Period[g]

CadenceInv ==
    /\ dispatcher.pc = "dispatching" => dispatcher.at <= now
    /\ \A g \in Present : /\ Phased(g, first[g], Cadence(entries[g]), now)
                          /\ entries[g].retrying => inFlight[g] = 0

LEMMA PhasedOn ==
    ASSUME NEW g \in Groups, NEW start \in Nat, NEW planned \in Nat, NEW at \in Nat,
           NEW time \in Nat, Phased(g, start, planned, time), planned <= at, at <= time
    PROVE  Phased(g, start, advancePlanned(planned, Period[g], at), time)
<1>1. Period[g] \in Nat /\ Period[g] > 0
  BY Constants
<1>2. PICK k \in Nat : advancePlanned(planned, Period[g], at) = planned + k * Period[g]
  BY <1>1, PlannedFact
<1>3. /\ advancePlanned(planned, Period[g], at) <= at + Period[g]
      /\ advancePlanned(planned, Period[g], at) >= planned
  BY <1>1, PlannedFact
<1> DEFINE x == planned - start
           step == k * Period[g]
<1>4. x \in Nat /\ x % Period[g] = 0 /\ planned >= start
  BY DEF Phased
<1>5. step \in Nat
  BY <1>1
<1>6. (x + step) % Period[g] = 0
  BY <1>1, <1>4, PhaseKept
<1>7. (planned + step) - start = x + step
  BY <1>4, <1>5
<1> HIDE DEF x, step
<1>8. planned + step >= start /\ planned + step <= time + Period[g]
  BY <1>1, <1>2, <1>3, <1>4, <1>5 DEF step
<1>9. QED
  BY <1>2, <1>6, <1>7, <1>8 DEF Phased, step

\* The head goes to its next plan, in its phase.
LEMMA AdvancedPhased ==
    ASSUME TypeOK, CadenceInv, NEW g \in Groups, HeadIsDue(g)
    PROVE  /\ Phased(g, first[g], Advanced(g, dispatcher.at).nextCadence, now)
           /\ Phased(g, first[g], Advanced(g, dispatcher.at).nextRunAt, now)
<1> DEFINE e == entries[g]
           at == dispatcher.at
<1>1. /\ g \in Present /\ e.nextRunAt <= at /\ at <= now /\ at \in Nat /\ now \in Nat
      /\ first[g] \in Nat
  BY DEF TypeOK, CadenceInv, HeadIsDue, Earliest
<1>2. e \in Entry
  BY <1>1, PresentShape
<1>3. e.nextRunAt \in Nat /\ e.nextCadence \in Nat /\ e.retrying \in BOOLEAN
  BY <1>2, EntryShape
<1>4. Phased(g, first[g], Cadence(e), now)
  BY <1>1 DEF CadenceInv
<1> HIDE DEF at, e
<1>5. Advanced(g, at).nextRunAt = Advanced(g, at).nextCadence
      /\ Advanced(g, at).nextCadence
           = IF e.retrying
             THEN IF e.nextCadence > at THEN e.nextCadence
                  ELSE advancePlanned(e.nextCadence, Period[g], at)
             ELSE advancePlanned(e.nextRunAt, Period[g], at)
  BY <1>2 DEF Advanced, Entry, e
<1>6. CASE e.retrying /\ e.nextCadence > at
  BY <1>4, <1>5, <1>6 DEF Cadence, at
<1>7. CASE e.retrying /\ ~(e.nextCadence > at)
  <2>1. Phased(g, first[g], e.nextCadence, now) /\ e.nextCadence <= at
    BY <1>1, <1>3, <1>4, <1>7 DEF Cadence
  <2>2. Phased(g, first[g], advancePlanned(e.nextCadence, Period[g], at), now)
    BY <1>1, <1>3, <2>1, PhasedOn
  <2>3. QED
    BY <1>5, <1>7, <2>2 DEF at
<1>8. CASE ~e.retrying
  <2>1. Phased(g, first[g], e.nextRunAt, now) /\ e.nextRunAt <= at
    BY <1>1, <1>4, <1>8 DEF Cadence
  <2>2. Phased(g, first[g], advancePlanned(e.nextRunAt, Period[g], at), now)
    BY <1>1, <1>3, <2>1, PhasedOn
  <2>3. QED
    BY <1>5, <1>8, <2>2 DEF at
<1>9. QED
  BY <1>3, <1>6, <1>7, <1>8
\* The result the dispatcher takes is of a group that is in flight, and for the
\* last time.
LEMMA DoneIsCounted ==
    ASSUME TypeOK, TaskInv, handleDone
    PROVE  /\ done[1].group \in Groups
           /\ inFlight[done[1].group] = 1
           /\ inFlight' = [inFlight EXCEPT ![done[1].group] = 0]
<1> DEFINE h == done[1].group
<1>1. /\ done \in Seq(Results) /\ done # <<>> /\ ~stopped
      /\ inFlight \in [Groups -> Nat] /\ inFlight' = Uncounted(h)
  BY DEF TypeOK, Results, handleDone, TaskInv, Places
<1>2. done[1] \in Results /\ h \in Groups /\ done[1] \in Of(h)
  <2>1. done[1] \in Results
    BY <1>1, HeadOf
  <2>2. QED
    BY <2>1 DEF Results, Of
<1> HIDE DEF h
<1>3. Cardinality(Where(done, Of(h))) = Cardinality(Where(Tail(done), Of(h))) + 1
  <2>1. Cardinality(Where(done, Of(h)))
          = Cardinality(Where(Tail(done), Of(h))) + (IF done[1] \in Of(h) THEN 1 ELSE 0)
    BY <1>1, WhereTail
  <2>2. QED
    BY <1>2, <2>1
<1>4. Cardinality(Where(Tail(done), Of(h))) \in Nat
  BY <1>1, HeadOf, WhereFinite
<1>5. Tasks(h) >= 1
  <2>1. Tasks(h) = Count(tasks, done, worker, h)
    BY <1>2, CountIsTasks
  <2>2. Count(tasks, done, worker, h) >= 1
    BY <1>2, <1>3, <1>4, PartsType DEF Count
  <2>3. QED
    BY <2>1, <2>2
<1>6. inFlight[h] \in Nat /\ inFlight[h] <= 1 /\ Tasks(h) <= inFlight[h] /\ Tasks(h) \in Nat
  BY <1>1, <1>2, CountIsTasks DEF TaskInv, OneTaskPerGroup
<1>7. inFlight[h] = 1
  BY <1>5, <1>6
<1>8. QED
  BY <1>1, <1>2, <1>7 DEF Uncounted, h

\* What CadenceInv says of one group.
Kept(g) == /\ Phased(g, first[g], Cadence(entries[g]), now)
           /\ entries[g].retrying => inFlight[g] = 0

LEMMA KeptIf ==
    ASSUME TypeOK, CadenceInv, NEW g \in Present,
           entries'[g] = entries[g], first'[g] = first[g], inFlight'[g] = inFlight[g],
           now' = now \/ now' = now + 1
    PROVE  Kept(g)'
<1>1. Kept(g)
  BY DEF CadenceInv, Kept
<1>2. Cadence(entries[g]) \in Nat /\ Period[g] \in Nat /\ now \in Nat
  BY PresentShape, EntryShape, Constants DEF Cadence, TypeOK
<1>3. Cadence(entries'[g]) = Cadence(entries[g])
  BY DEF Cadence
<1>4. Phased(g, first[g], Cadence(entries[g]), now')
  BY <1>1, <1>2 DEF Kept, Phased
<1>5. QED
  BY <1>1, <1>3, <1>4 DEF Kept

LEMMA ReplaceKeeps ==
    ASSUME TypeOK, CadenceInv, NEW desired \in SUBSET Groups, ReplaceGroups(desired)
    PROVE  CadenceInv'
<1>1. UNCHANGED <<now, inFlight, dispatcher>>
  BY DEF ReplaceGroups
<1>2. ASSUME NEW g \in Present' PROVE Kept(g)'
  <2>1. g \in Groups /\ entries'[g] # Absent
    BY DEF Present
  <2>2. g \in desired
    BY <2>1 DEF ReplaceGroups
  <2>3. CASE g \in Present
    <3>1. entries'[g] = entries[g] /\ first'[g] = first[g]
      BY <2>1, <2>2, <2>3 DEF ReplaceGroups
    <3>2. QED
      BY <1>1, <2>3, <3>1, KeptIf
  <2>4. CASE g \notin Present
    <3>1. entries'[g] = NewEntry(g) /\ first'[g] = now + Offset[g]
      BY <2>1, <2>2, <2>4 DEF ReplaceGroups
    <3>2. ~entries'[g].retrying /\ Cadence(entries'[g]) = now + Offset[g]
      BY <3>1 DEF NewEntry, Cadence
    <3>3. /\ now \in Nat /\ Period[g] \in Nat /\ Period[g] > 0 /\ Offset[g] \in Nat
          /\ Offset[g] < Period[g]
      BY <2>1, Constants DEF TypeOK
    <3>4. (now + Offset[g]) - (now + Offset[g]) = 0 /\ 0 % Period[g] = 0
          /\ now + Offset[g] <= now + Period[g] /\ now + Offset[g] >= now + Offset[g]
      BY <3>3
    <3>5. Phased(g, now + Offset[g], now + Offset[g], now)
      BY <3>4 DEF Phased
    <3>6. QED
      BY <1>1, <3>1, <3>2, <3>5 DEF Kept
  <2>5. QED
    BY <2>3, <2>4
<1>3. QED
  BY <1>1, <1>2 DEF CadenceInv, Kept

\* Only the entry, the time of the first run and the count of the group matter.
LEMMA OthersKept ==
    ASSUME TypeOK, CadenceInv, NEW g \in Groups, g \in Present => Kept(g)',
           now' = now, first' = first,
           dispatcher' = dispatcher \/ dispatcher' = Arming,
           \A h \in Groups \ {g} : entries'[h] = entries[h] /\ inFlight'[h] = inFlight[h],
           entries'[g] # Absent => entries[g] # Absent
    PROVE  CadenceInv'
<1>1. dispatcher'.pc = "dispatching" => dispatcher'.at <= now'
  BY DEF CadenceInv, Arming
<1>2. ASSUME NEW h \in Present' PROVE Kept(h)'
  <2>1. h \in Groups /\ entries'[h] # Absent
    BY DEF Present
  <2>2. h \in Present
    BY <2>1 DEF Present
  <2>3. CASE h = g
    BY <2>2, <2>3
  <2>4. CASE h # g
    BY <2>1, <2>2, <2>4, KeptIf
  <2>5. QED
    BY <2>3, <2>4
<1>3. QED
  BY <1>1, <1>2 DEF CadenceInv, Kept
\* Planned, refused or skipped: the head keeps its phase.
LEMMA DispatchKeeps ==
    ASSUME TypeOK, CadenceInv, dispatchDue
    PROVE  CadenceInv'
<1>1. ASSUME NEW g \in Groups, HeadIsDue(g) PROVE
        /\ g \in Present /\ entries \in [Groups -> Entry \cup {Absent}]
        /\ Phased(g, first[g], Advanced(g, dispatcher.at).nextCadence, now)
        /\ Phased(g, first[g], Advanced(g, dispatcher.at).nextRunAt, now)
        /\ Advanced(g, dispatcher.at) \in Entry /\ ~Advanced(g, dispatcher.at).retrying
        /\ dispatcher.at \in Nat
  <2>1. g \in Present /\ dispatcher.at \in Nat
    BY <1>1 DEF HeadIsDue, Earliest, TypeOK
  <2>2. QED
    BY <1>1, <2>1, AdvancedPhased, AdvancedType DEF TypeOK
<1>2. ASSUME NEW g \in Groups, Enqueue(g) \/ SkipInFlight(g) \/ DispatchCancelled(g)
      PROVE  CadenceInv'
  <2>1. HeadIsDue(g)
    BY <1>2 DEF Enqueue, SkipInFlight, DispatchCancelled
  <2>2. /\ entries' = [entries EXCEPT ![g] = Advanced(g, dispatcher.at)]
        /\ now' = now /\ first' = first
        /\ dispatcher' = dispatcher \/ dispatcher' = Arming
        /\ \A h \in Groups \ {g} : inFlight'[h] = inFlight[h]
    BY <1>2 DEF TypeOK, Enqueue, SkipInFlight, DispatchCancelled
  <2>3. entries'[g] = Advanced(g, dispatcher.at)
        /\ \A h \in Groups \ {g} : entries'[h] = entries[h]
    BY <1>1, <2>1, <2>2
  <2>4. Cadence(entries'[g]) = Advanced(g, dispatcher.at).nextRunAt /\ ~entries'[g].retrying
    BY <1>1, <2>1, <2>3 DEF Cadence
  <2>5. Kept(g)'
    BY <1>1, <2>1, <2>2, <2>4 DEF Kept
  <2>6. entries[g] # Absent
    BY <1>1, <2>1 DEF Present
  <2>7. QED
    BY <2>2, <2>3, <2>5, <2>6, OthersKept
<1>3. ASSUME NEW g \in Groups, QueueFull(g) PROVE CadenceInv'
  <2> DEFINE e == [Advanced(g, dispatcher.at) EXCEPT
                     !.nextRunAt = dispatcher.at + RetryBase, !.retrying = TRUE]
  <2>1. HeadIsDue(g) /\ inFlight[g] = 0
    BY <1>3 DEF QueueFull
  <2>2. /\ entries' = [entries EXCEPT ![g] = e]
        /\ now' = now /\ first' = first /\ dispatcher' = dispatcher /\ inFlight' = inFlight
    BY <1>3 DEF QueueFull
  <2>3. e.retrying /\ e.nextCadence = Advanced(g, dispatcher.at).nextCadence
    BY <1>1, <2>1 DEF Entry
  <2> HIDE DEF e
  <2>4. entries'[g] = e /\ \A h \in Groups \ {g} : entries'[h] = entries[h]
    BY <1>1, <2>1, <2>2
  <2>5. Cadence(entries'[g]) = Advanced(g, dispatcher.at).nextCadence
    BY <2>3, <2>4 DEF Cadence
  <2>6. Kept(g)'
    BY <1>1, <2>1, <2>2, <2>5 DEF Kept
  <2>7. entries[g] # Absent
    BY <1>1, <2>1 DEF Present
  <2>8. QED
    BY <2>2, <2>4, <2>6, <2>7, OthersKept
<1>4. CASE NothingDue
  <2>1. UNCHANGED <<now, entries, first, inFlight>> /\ dispatcher' = Arming
    BY <1>4 DEF NothingDue
  <2>2. \A g \in Present' : Kept(g)'
    BY <2>1, KeptIf DEF Present
  <2>3. QED
    BY <2>1, <2>2 DEF CadenceInv, Kept, Arming
<1>5. QED
  BY <1>2, <1>3, <1>4 DEF dispatchDue

\* A result moves the plan aside at most once: the group was not being retried.
LEMMA DoneKeeps ==
    ASSUME TypeOK, TaskInv, CadenceInv, handleDone
    PROVE  CadenceInv'
<1>1. PICK g \in Groups : /\ g = done[1].group /\ inFlight[g] = 1
                          /\ inFlight' = [inFlight EXCEPT ![g] = 0]
  BY DoneIsCounted
<1>2. /\ entries' = [entries EXCEPT ![g] = IF @ = Absent THEN Absent
                                           ELSE IF done[1].ok THEN [@ EXCEPT !.failures = 0]
                                           ELSE Failed(@)]
      /\ now' = now /\ first' = first /\ dispatcher' = Arming
      /\ entries \in [Groups -> Entry \cup {Absent}] /\ inFlight \in [Groups -> Nat]
  BY <1>1 DEF TypeOK, handleDone
<1>3. inFlight'[g] = 0 /\ \A h \in Groups \ {g} : /\ entries'[h] = entries[h]
                                                 /\ inFlight'[h] = inFlight[h]
  BY <1>1, <1>2
<1>4. /\ entries[g] = Absent => entries'[g] = Absent
      /\ entries[g] # Absent => \/ entries'[g] = [entries[g] EXCEPT !.failures = 0]
                                \/ entries'[g] = Failed(entries[g])
  BY <1>1, <1>2
<1>5. ASSUME g \in Present PROVE Kept(g)'
  <2>1. entries[g] \in Entry /\ entries[g] # Absent
    BY <1>5, PresentShape
  <2>2. Kept(g)
    BY <1>5 DEF CadenceInv, Kept
  <2>3. ~entries[g].retrying
    BY <1>1, <2>2 DEF Kept
  <2>4. \A f : Cadence([entries[g] EXCEPT !.failures = f]) = Cadence(entries[g])
    BY <2>1 DEF Cadence, Entry
  <2>5. Cadence(Failed(entries[g])) = Cadence(entries[g])
    BY <2>1, <2>3 DEF Failed, Cadence, Entry
  <2>6. Cadence(entries'[g]) = Cadence(entries[g])
    BY <1>4, <2>1, <2>4, <2>5
  <2>7. now' = now /\ first'[g] = first[g] /\ inFlight'[g] = 0
    BY <1>2, <1>3
  <2>8. Phased(g, first'[g], Cadence(entries'[g]), now')
    BY <2>2, <2>6, <2>7, Zenon DEF Kept
  <2>9. QED
    BY <2>7, <2>8, Zenon DEF Kept
<1>6. /\ now' = now /\ first' = first /\ dispatcher' = Arming
      /\ entries'[g] # Absent => entries[g] # Absent
  BY <1>2, <1>4
<1>7. QED
  BY <1>1, <1>3, <1>5, <1>6, OthersKept, Zenon

LEMMA CadencePreserved ==
    ASSUME TypeOK, TaskInv, CadenceInv, [Next]_vars
    PROVE  CadenceInv'
<1>1. CASE Tick
  <2>1. now' = now + 1 /\ UNCHANGED <<entries, first, inFlight, dispatcher>> /\ now \in Nat
        /\ dispatcher.at \in Nat
    BY <1>1 DEF TypeOK, Tick
  <2>2. \A g \in Present' : Kept(g)'
    BY <2>1, KeptIf DEF Present
  <2>3. dispatcher.pc = "dispatching" => dispatcher.at <= now + 1
    BY <2>1 DEF CadenceInv
  <2>4. QED
    BY <2>1, <2>2, <2>3 DEF CadenceInv, Kept
<1>2. CASE \/ Notify \/ TakeWake \/ NextWait \/ ResetTimer \/ DispatcherExits \/ TimerFires
           \/ Cancel \/ (\E w \in Workers : runWorker(w)) \/ UNCHANGED vars
  <2>1. UNCHANGED <<now, entries, first, inFlight>>
    BY <1>2 DEF Notify, TakeWake, NextWait, ResetTimer, DispatcherExits, TimerFires, Cancel,
                runWorker, TakeTask, Execute, Report, WorkerExits, vars
  <2>2. dispatcher'.pc = "dispatching" => dispatcher'.at <= now
    <3>1. CASE TimerFires
      BY <3>1 DEF TypeOK, TimerFires
    <3>2. CASE NextWait \/ TakeWake \/ ResetTimer \/ DispatcherExits
      BY <3>2 DEF TypeOK, NextWait, TakeWake, ResetTimer, DispatcherExits, Arming
    <3>3. CASE dispatcher' = dispatcher
      BY <3>3 DEF CadenceInv
    <3>4. QED
      BY <1>2, <3>1, <3>2, <3>3 DEF Notify, Cancel, runWorker, TakeTask, Execute, Report,
                                    WorkerExits, vars
  <2>3. \A g \in Present' : Kept(g)'
    BY <2>1, KeptIf DEF Present
  <2>4. QED
    BY <2>1, <2>2, <2>3 DEF CadenceInv, Kept
<1>3. CASE Drain
  <2>1. UNCHANGED <<now, entries, first, dispatcher>> /\ \A g \in Groups : inFlight'[g] = 0
    BY <1>3 DEF Drain
  <2>2. QED
    BY <2>1 DEF CadenceInv, Present
<1>4. ASSUME NEW desired \in SUBSET Groups, ReplaceGroups(desired) PROVE CadenceInv'
  BY <1>4, ReplaceKeeps
<1>5. CASE dispatchDue
  BY <1>5, DispatchKeeps
<1>6. CASE handleDone
  BY <1>6, DoneKeeps
<1>7. QED
  BY <1>1, <1>2, <1>3, <1>4, <1>5, <1>6 DEF Next, MetadataLoop, Dispatcher

\* However often a group is retried, refused by a full queue, skipped or kept by a
\* replacement, its plan stays in the phase of its first run and at most a period
\* ahead (dispatchDue, scheduler.go:374).
THEOREM CadenceHolds ==
    Spec => []CadenceKept
<1>1. Init => CadenceInv
  BY DEF Init, CadenceInv, Present
<1>2. TypeOK /\ TaskInv /\ CadenceInv /\ [Next]_vars => CadenceInv'
  BY CadencePreserved
<1>3. CadenceInv => CadenceKept
  BY DEF CadenceInv, CadenceKept, Phased
<1>4. QED
  BY <1>1, <1>2, <1>3, TaskInvariant, PTL DEF Spec

-----------------------------------------------------------------------------
(* The loop of dispatchDue ends.                                           *)

\* What the loop still has to look at.
DueEntries == {g \in Present : entries[g].nextRunAt <= dispatcher.at}

LoopStep(g) == Enqueue(g) \/ SkipInFlight(g) \/ QueueFull(g)

DispatchShrinks ==
    [][\A g \in Groups : LoopStep(g) =>
          g \in DueEntries /\ DueEntries' = DueEntries \ {g}]_vars

LEMMA PlannedLater ==
    ASSUME NEW planned \in Nat, NEW period \in Nat, period > 0, NEW at \in Nat
    PROVE  advancePlanned(planned, period, at) > at
<1> DEFINE next == planned + period
           n == (at - next) \div period
<1>1. next \in Nat
  OBVIOUS
<1>2. CASE next > at
  BY <1>2 DEF advancePlanned
<1>3. CASE ~(next > at)
  <2>1. at - next \in Nat
    BY <1>1, <1>3
  <2>2. n \in Nat /\ at - next < n * period + period
    <3>1. ASSUME NEW x \in Nat
          PROVE  x \div period \in Nat /\ x < (x \div period) * period + period
      OBVIOUS
    <3>2. QED
      BY <2>1, <3>1
  <2>3. advancePlanned(planned, period, at) = next + (n + 1) * period
    BY <1>3 DEF advancePlanned
  <2> HIDE DEF n
  <2>4. n * period \in Nat /\ next + (n + 1) * period = next + n * period + period
    BY <1>1, <2>2
  <2> HIDE DEF next
  <2>5. next + n * period + period > at
    BY <1>1, <2>2, <2>4
  <2>6. QED
    BY <2>3, <2>4, <2>5
<1>4. QED
  BY <1>2, <1>3

LEMMA AdvancedLater ==
    ASSUME TypeOK, NEW g \in Present, NEW at \in Nat
    PROVE  Advanced(g, at).nextRunAt > at /\ Advanced(g, at).nextRunAt \in Nat
<1> DEFINE e == entries[g]
<1>1. e \in Entry /\ Period[g] \in Nat /\ Period[g] > 0
  BY Constants DEF TypeOK, Present
<1>2. /\ advancePlanned(e.nextCadence, Period[g], at) > at
      /\ advancePlanned(e.nextRunAt, Period[g], at) > at
  BY <1>1, PlannedLater DEF Entry
<1>3. Advanced(g, at) \in Entry
  BY AdvancedType
<1>4. Advanced(g, at).nextRunAt
        = IF e.retrying
          THEN IF e.nextCadence > at THEN e.nextCadence
               ELSE advancePlanned(e.nextCadence, Period[g], at)
          ELSE advancePlanned(e.nextRunAt, Period[g], at)
  BY <1>1 DEF Advanced, Entry
<1>5. QED
  BY <1>2, <1>3, <1>4 DEF Entry

\* dispatchDue has no bound on its loop: it ends because whatever an iteration does
\* with the head (queue it, skip it because its task still runs, or come back to it
\* soon because the channel is full), a first run as well as a retry, the group
\* leaves the due ones and no other one joins them.  So between two replacements a
\* round looks at each group at most once, for any periods, and the dispatcher
\* returns to its select (scheduler.go:359).
THEOREM DispatchEnds ==
    Spec => DispatchShrinks
<1>1. ASSUME TypeOK, NEW g \in Groups, LoopStep(g)
      PROVE  g \in DueEntries /\ DueEntries' = DueEntries \ {g}
  <2>1. g \in Present /\ entries[g].nextRunAt <= dispatcher.at
    BY <1>1 DEF LoopStep, Enqueue, SkipInFlight, QueueFull, HeadIsDue, Earliest
  <2>2. dispatcher.at \in Nat /\ dispatcher' = dispatcher
    BY <1>1 DEF TypeOK, LoopStep, Enqueue, SkipInFlight, QueueFull
  <2> DEFINE advanced == Advanced(g, dispatcher.at)
             soon     == dispatcher.at + RetryBase
             again    == [advanced EXCEPT !.nextRunAt = soon, !.retrying = TRUE]
  <2>3. advanced \in Entry /\ advanced.nextRunAt > dispatcher.at
    BY <1>1, <2>1, <2>2, AdvancedType, AdvancedLater
  <2>4. entries' = [entries EXCEPT ![g] = advanced] \/ entries' = [entries EXCEPT ![g] = again]
    BY <1>1 DEF LoopStep, Enqueue, SkipInFlight, QueueFull
  <2> HIDE DEF advanced
  <2>5. again \in Entry /\ again.nextRunAt > dispatcher.at
    <3>1. soon \in Nat /\ soon > dispatcher.at
      BY <2>2, Constants
    <3> HIDE DEF soon
    <3>2. again \in Entry /\ again.nextRunAt = soon
      BY <2>3, <3>1 DEF Entry
    <3>3. QED
      BY <3>1, <3>2
  <2> HIDE DEF again
  <2>6. PICK new \in Entry : /\ entries' = [entries EXCEPT ![g] = new]
                             /\ new.nextRunAt > dispatcher.at
    BY <2>3, <2>4, <2>5
  <2>7. entries'[g] = new /\ \A h \in Groups : h # g => entries'[h] = entries[h]
    BY <1>1, <2>6 DEF TypeOK
  <2>8. g \notin DueEntries'
    BY <2>2, <2>6, <2>7 DEF DueEntries, Entry
  <2>9. ASSUME NEW h \in Groups, h # g PROVE h \in DueEntries' <=> h \in DueEntries
    BY <2>2, <2>7, <2>9 DEF DueEntries, Present
  <2>10. DueEntries \subseteq Groups /\ DueEntries' \subseteq Groups
    BY DEF DueEntries, Present
  <2>11. QED
    BY <2>1, <2>8, <2>9, <2>10 DEF DueEntries
<1>2. TypeOK /\ [Next]_vars =>
        [\A g \in Groups : LoopStep(g) =>
            g \in DueEntries /\ DueEntries' = DueEntries \ {g}]_vars
  BY <1>1
<1>3. QED
  BY <1>2, SchedulerTypes, PTL DEF Spec, DispatchShrinks
=============================================================================
