---------------------------- MODULE ExpiryWheel ----------------------------
(***************************************************************************)
(* internal/cache/expiry_wheel.go: a sparse wheel of minute buckets.       *)
(* RegisterExpiry appends to a bucket under the wheel's mutex.  ExpireDue  *)
(* walks the due buckets, oldest first, within a budget of entries per     *)
(* round; it gives the mutex up for every DeleteVersioned, so entries are  *)
(* registered in the middle of a round.                                    *)
(*                                                                         *)
(* A bucket that is missing and an empty one are the same: the code        *)
(* removes a bucket, map entry and heap key together, in the critical      *)
(* section that empties it.  The heap is the set of non-empty buckets.     *)
(* lastProcessedBucket and the lag only report and are left out.           *)
(***************************************************************************)
EXTENDS Sublist

CONSTANTS
    Entry,             \* ExpiryEntry: one generation of one value each
    BucketSize,        \* sixty seconds
    MaxEntriesPerRun,  \* entries one round may look at
    DeleteBatchSize,   \* entries one DeleteVersioned may get
    MaxTime            \* bound: the model's last instant

ASSUME WheelAssumption ==
    /\ IsFiniteSet(Entry)
    /\ \A x \in Entry : x.expireAt \in Nat
    /\ BucketSize \in Nat \ {0}
    /\ MaxEntriesPerRun \in Nat \ {0} /\ DeleteBatchSize \in Nat \ {0}
    /\ MaxTime \in Nat

VARIABLES
    now,             \* wall clock
    registered,      \* history: entries registered so far
    buckets,         \* ExpiryWheel.buckets and its heap of keys
    pendingEntries,  \* the counter behind the metric
    round,           \* ExpireDue's locals
    candidates       \* entries given to DeleteVersioned, not deleted yet

vars == <<now, registered, buckets, pendingEntries, round, candidates>>

expiryBucketKey(at) == at \div BucketSize

Keys == {expiryBucketKey(x.expireAt) : x \in Entry}

\* Outside ExpireDue.
Idle == [pc |-> "idle", at |-> 0, processed |-> 0, active |-> FALSE, key |-> 0,
         remaining |-> 0]

Init ==
    /\ now = 0
    /\ registered = {}
    /\ buckets = [k \in Keys |-> <<>>]
    /\ pendingEntries = 0
    /\ round = Idle
    /\ candidates = {}

Tick ==
    /\ now < MaxTime
    /\ now' = now + 1
    /\ UNCHANGED <<registered, buckets, pendingEntries, round, candidates>>

\* A ValueVersion is registered once.  The code appends the entries of a batch in
\* one critical section; one at a time gives its interleavings and more.
RegisterExpiry(x) ==
    /\ x \notin registered
    /\ registered' = registered \cup {x}
    /\ buckets' = [buckets EXCEPT ![expiryBucketKey(x.expireAt)] = Append(@, x)]
    /\ pendingEntries' = pendingEntries + 1
    /\ UNCHANGED <<now, round, candidates>>

-----------------------------------------------------------------------------
(* ExpireDue.                                                              *)

\* The ticker fires; runMu keeps rounds apart.
StartRound ==
    /\ round.pc = "idle"
    /\ round' = [Idle EXCEPT !.pc = "scan", !.at = now]
    /\ UNCHANGED <<now, registered, buckets, pendingEntries, candidates>>

DueBuckets == {k \in Keys : buckets[k] # <<>> /\ k <= expiryBucketKey(round.at)}

\* firstDueBucketLocked
FirstDue(k) == k \in DueBuckets /\ \A j \in DueBuckets : k <= j

AtMost(x, most) == IF x > most THEN most ELSE x

\* How many entries of the bucket this round still has to look at: those it found
\* when it came to the bucket, so that it never looks at one it put back.
Remaining(k) ==
    IF round.active /\ round.key = k THEN round.remaining ELSE Len(buckets[k])

\* Mutant: the budget of the round is forgotten.
BatchSize_NoBudget(k) == AtMost(Remaining(k), DeleteBatchSize)

BatchSize(k) ==
    AtMost(AtMost(AtMost(Remaining(k), MaxEntriesPerRun - round.processed),
                  DeleteBatchSize),
           Len(buckets[k]))

Later(x) == x.expireAt > round.at

Front(k) == SubSeq(buckets[k], 1, BatchSize(k))

Rest(k) == SubSeq(buckets[k], BatchSize(k) + 1, Len(buckets[k]))

PutBack(k) == Sublist(Front(k), {n \in 1..BatchSize(k) : Later(Front(k)[n])})

\* Mutant: what is not due yet goes back to where it was found.
Kept_InPlace(k) == PutBack(k) \o Rest(k)

\* Entries later in the current minute go to the end of their bucket.
Kept(k) == Rest(k) \o PutBack(k)

\* Mutant: a whole bucket is taken once its minute has begun.
Candidates_ByMinute(k) == {Front(k)[n] : n \in 1..BatchSize(k)}

Candidates(k) == {x \in {Front(k)[n] : n \in 1..BatchSize(k)} : ~Later(x)}

\* Mutant: entries that were put back are counted off as well.
CountedOff_Batch(k) == pendingEntries - BatchSize(k)

CountedOff(k) == pendingEntries - Cardinality(Candidates(k))

\* With the bucket gone the round goes on; when what it found there is done but the
\* bucket is not empty, the rest waits for the next tick.
RoundGoesOn(k) == Kept(k) = <<>> \/ Remaining(k) > BatchSize(k)

\* One turn of the loop, up to the unlock.
ScanBatch(k) ==
    /\ round.pc = "scan" /\ candidates = {}
    /\ round.processed < MaxEntriesPerRun
    /\ FirstDue(k)
    /\ buckets' = [buckets EXCEPT ![k] = Kept(k)]
    /\ candidates' = Candidates(k)
    /\ pendingEntries' = CountedOff(k)
    /\ round' = [round EXCEPT
                   !.pc        = IF RoundGoesOn(k) THEN "scan" ELSE "last",
                   !.processed = @ + BatchSize(k),
                   !.active    = Kept(k) # <<>>,
                   !.key       = k,
                   !.remaining = Remaining(k) - BatchSize(k)]
    /\ UNCHANGED <<now, registered>>

\* DeleteVersioned, one shard at a time, without the wheel's mutex.
DeleteVersioned(x) ==
    /\ x \in candidates
    /\ candidates' = candidates \ {x}
    /\ UNCHANGED <<now, registered, buckets, pendingEntries, round>>

EndRound ==
    /\ candidates = {}
    /\ \/ round.pc = "last"
       \/ round.pc = "scan" /\ (round.processed >= MaxEntriesPerRun \/ DueBuckets = {})
    /\ round' = Idle
    /\ UNCHANGED <<now, registered, buckets, pendingEntries, candidates>>

ExpireDue ==
    \/ StartRound
    \/ \E k \in Keys : ScanBatch(k)
    \/ \E x \in candidates : DeleteVersioned(x)
    \/ EndRound

Next ==
    \/ Tick
    \/ \E x \in Entry : RegisterExpiry(x)
    \/ ExpireDue

Spec == Init /\ [][Next]_vars

\* runExpiry's ticker keeps firing and a round is never blocked for good.
Fairness == WF_vars(Tick) /\ WF_vars(ExpireDue)

FairSpec == Spec /\ Fairness

-----------------------------------------------------------------------------
(* Properties.                                                             *)

\* Types; and the work of a round is bounded (DefaultExpiryMaxEntriesPerRun).
TypeOK ==
    /\ now \in Nat
    /\ registered \subseteq Entry
    /\ buckets \in [Keys -> Seq(Entry)]
    /\ pendingEntries \in Nat
    /\ round \in [pc : {"idle", "scan", "last"}, at : Nat,
                  processed : 0 .. MaxEntriesPerRun,
                  active : BOOLEAN, key : Nat, remaining : Nat]
    /\ candidates \subseteq Entry

InBucket(k) == {buckets[k][n] : n \in 1..Len(buckets[k])}

InWheel == UNION {InBucket(k) : k \in Keys}

\* The wheel is the set of entries that ValueCache takes it for: no registration,
\* not even one into the bucket a round is cutting, loses an entry, and a round
\* takes nothing before its time and nothing twice.
Abstract == INSTANCE ExpirySet WITH pending <- InWheel, taken <- candidates

ImplementsExpirySet == Abstract!Spec

\* The counter behind ExpiryBucketEntries never drifts from what the buckets hold,
\* and an entry is in one place only.
PendingExact ==
    /\ pendingEntries = Cardinality(InWheel)
    /\ \A k \in Keys : Len(buckets[k]) = Cardinality(InBucket(k))
    /\ InWheel \cap candidates = {}

\* Entries of the current minute that are not due yet do not stand in the way of
\* those that are, however small the budget: every due entry is deleted.
DueIsDeleted ==
    \A x \in Entry : x \in InWheel /\ x.expireAt <= now ~> x \notin InWheel \cup candidates
=============================================================================
