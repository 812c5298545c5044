----------------------------- MODULE Publisher -----------------------------
(***************************************************************************)
(* internal/promwrap: the streaming Remote Write publisher.  One loop walks *)
(* the publish slots (pipeline/scheduled.go runPublisher) and turns pages   *)
(* of cached values and host series into batches, one worker per lane sends *)
(* them, and StopContext may run at any time.  The four meet in the lane    *)
(* queue, the reservations, the activity counter and the value cache.       *)
(*                                                                         *)
(* A sample is its publishKey: the series, its generation (ValueVersion or  *)
(* HostSeries.Version) and, for the cycle policy, the cycle timestamp.  A   *)
(* source sample's timestamp is determined by its generation, so ts is 0    *)
(* and tells the policy; a host series keeps one generation, its samples    *)
(* differ in their cycle.                                                  *)
(***************************************************************************)
EXTENDS LaneQueue

CONSTANTS
    Items,            \* the items with a cached value, one series each
    Hosts,            \* the host series of a snapshot, in order
    PoliciesOf,       \* PublishPolicyForDelay of the delays an item may be given
    LaneOf,           \* workerLaneForSeries
    SlotOf,           \* publishSlot
    PageSize,         \* exporter.push.page_size
    MaxSamples,       \* exporter.push.max_samples_per_send
    MaxRetries,       \* exporter.push.max_retries
    Outcomes,         \* what an attempt may end in, a subset of AllOutcomes
    None,             \* no value, no batch, no sample
    MaxVersions,      \* bound: writes to the cache
    MaxCycle          \* bound: cycle timestamps, 1..MaxCycle

HostSet == {Hosts[n] : n \in 1..Len(Hosts)}
Series == Items \cup HostSet

\* delivered: 2xx.  lost: the endpoint took the request and the answer did not
\* arrive whole (timeout, connection or body error).  retryable and permanent:
\* not taken (408, 429, 5xx or no connection; any other status).
AllOutcomes == {"delivered", "lost", "retryable", "permanent"}

ASSUME PublisherAssumption ==
    /\ IsFiniteSet(Items) /\ Hosts \in Seq(HostSet) /\ Items \cap HostSet = {}
    /\ PoliciesOf \in [Items -> SUBSET {"source", "cycle"}]
    /\ LaneOf \in [Series -> Lanes] /\ SlotOf \in [Series -> Slots]
    /\ PageSize \in Nat \ {0} /\ MaxSamples \in Nat \ {0} /\ MaxRetries \in Nat
    /\ Outcomes \subseteq AllOutcomes
    /\ MaxVersions \in Nat \ {0} /\ MaxCycle \in Nat

VARIABLES
    store,         \* the values of the cache the publisher can read
    versions,      \* ValueCache.nextValueVersion
    queue,         \* laneQueue
    notify,        \* its one-slot channels: TRUE while a token is in one
    reservations,  \* Publisher.reservations
    pending,       \* publishActivity.pending
    requested,     \* Publisher.lastRequested of each slot
    cycles,        \* Publisher.lastCycle of each slot
    loop,          \* runPublisher / PublishSlot / pageBatcher locals
    worker,        \* runWorker locals of each lane
    stopping,      \* StopContext locals
    cancelled,     \* the publisher's context has ended
    received       \* what the endpoint took, all attempts together

vars == <<store, versions, queue, notify, reservations, pending, requested,
          cycles, loop, worker, stopping, cancelled, received>>

Key == [series : Series, version : 1..MaxVersions, ts : 0..MaxCycle]

\* The policy a sample was made under; cycle timestamps are positive.
Policy(key) == IF key.ts = 0 THEN "source" ELSE "cycle"

Batch == [policy : {"source", "cycle"}, slot : Slots, cycle : Nat, lane : Lanes,
          keys : SUBSET Key]

StoredValue == [version : Nat, sequence : Nat, policy : {"source", "cycle"},
                published : Nat, publishedAt : Nat]

ASSUME NoneAssumption == None \notin Key \cup Batch \cup StoredValue

Builders == Lanes \X {"source", "cycle"}
NoBuilders == [x \in Builders |-> {}]

IdleLoop ==
    [pc |-> "idle", slot |-> None, cycle |-> 0, removed |-> {}, owed |-> FALSE,
     hosts |-> <<>>, cursor |-> 0, done |-> FALSE, page |-> <<>>,
     builders |-> NoBuilders, batch |-> None, sample |-> None]

IdleWorker == [pc |-> "popping", batch |-> None, attempt |-> 1]

Init ==
    /\ store = [i \in Items |-> None]
    /\ versions = 0
    /\ queue = EmptyQueue
    /\ notify = [l \in Lanes |-> FALSE]
    /\ reservations = {}
    /\ pending = 0
    /\ requested = [s \in Slots |-> 0]
    /\ cycles = [s \in Slots |-> 0]
    /\ loop = IdleLoop
    /\ worker = [l \in Lanes |-> IdleWorker]
    /\ stopping = [pc |-> "running", remaining |-> {}, owed |-> FALSE]
    /\ cancelled = FALSE
    /\ received = {}

-----------------------------------------------------------------------------
(* The rest of the program, as far as the publisher can tell.              *)

\* ApplyBatch replaces the state: a new version, nothing published yet, the policy
\* of the delay the item has now (which need not be that of the value before), and
\* the place in scan order kept if the item was cached.
WriteValue(i, policy) ==
    /\ versions < MaxVersions
    /\ versions' = versions + 1
    /\ store' = [store EXCEPT ![i] =
          [version |-> versions + 1, policy |-> policy, published |-> 0,
           publishedAt |-> 0,
           sequence |-> IF store[i] = None THEN versions + 1 ELSE store[i].sequence]]
    /\ UNCHANGED <<queue, notify, reservations, pending, requested, cycles, loop,
                   worker, stopping, cancelled, received>>

\* Deleted, expired or marked invalid: out of the publisher's sight.
DropValue(i) ==
    /\ store[i] # None
    /\ store' = [store EXCEPT ![i] = None]
    /\ UNCHANGED <<versions, queue, notify, reservations, pending, requested,
                   cycles, loop, worker, stopping, cancelled, received>>

\* SIGTERM cancels the context the publisher was started with.
Cancel ==
    /\ ~cancelled
    /\ cancelled' = TRUE
    /\ UNCHANGED <<store, versions, queue, notify, reservations, pending,
                   requested, cycles, loop, worker, stopping, received>>

-----------------------------------------------------------------------------
(* PublishSlot, up to the first page.                                      *)

\* normalizeCycleLocked: the wall clock may stand still or step back, a slot's
\* cycle does not.
Normalized(slot, at) ==
    IF requested[slot] = at THEN cycles[slot]
    ELSE IF at > cycles[slot] THEN at ELSE cycles[slot] + 1

\* ready, then normalizeCycleLocked (only this loop uses the slot's lock).
StartSlot(slot, at) ==
    /\ loop.pc = "idle"
    /\ stopping.pc = "running" /\ ~cancelled
    /\ Normalized(slot, at) <= MaxCycle
    /\ requested' = [requested EXCEPT ![slot] = at]
    /\ cycles' = [cycles EXCEPT ![slot] = Normalized(slot, at)]
    /\ loop' = [IdleLoop EXCEPT !.pc = "started", !.slot = slot,
                                !.cycle = Normalized(slot, at)]
    /\ UNCHANGED <<store, versions, queue, notify, reservations, pending, worker,
                   stopping, cancelled, received>>

HostsOf(slot) == Sublist(Hosts, {n \in 1..Len(Hosts) : SlotOf[Hosts[n]] = slot})

\* beginLongCycle: a closed queue ends the call.
BeginCycle ==
    /\ loop.pc = "started"
    /\ IF IsCurrent(queue, loop.slot, loop.cycle)
       THEN /\ queue' = beginLongCycle(queue, loop.slot, loop.cycle)
            /\ loop' = [loop EXCEPT
                          !.pc = "dropping",
                          !.removed = RemovedBatches(queue, loop.slot, loop.cycle),
                          !.hosts = HostsOf(loop.slot)]
       ELSE /\ loop' = IdleLoop
            /\ UNCHANGED queue
    /\ UNCHANGED <<store, versions, notify, reservations, pending, requested,
                   cycles, worker, stopping, cancelled, received>>

\* releaseBatch of one coalesced batch; activity.done follows.
ReleaseRemoved(b) ==
    /\ loop.pc = "dropping" /\ ~loop.owed
    /\ b \in loop.removed
    /\ reservations' = reservations \ b.keys
    /\ loop' = [loop EXCEPT !.removed = loop.removed \ {b}, !.owed = TRUE]
    /\ UNCHANGED <<store, versions, queue, notify, pending, requested, cycles,
                   worker, stopping, cancelled, received>>

\* Mutant: done is called for refused batches only.
AfterDone_CoalescedForgotten(l) == IF l.pc = "dropping" THEN 0 ELSE 1

\* publishActivity.done.
AfterDone(l) == 1

LoopDone ==
    /\ loop.owed
    /\ pending' = pending - AfterDone(loop)
    /\ loop' = [loop EXCEPT !.owed = FALSE,
                            !.pc = IF loop.pc = "refused" THEN "cleanup" ELSE loop.pc]
    /\ UNCHANGED <<store, versions, queue, notify, reservations, requested, cycles,
                   worker, stopping, cancelled, received>>

StartPaging ==
    /\ loop.pc = "dropping" /\ loop.removed = {} /\ ~loop.owed
    /\ loop' = [loop EXCEPT !.pc = "paging"]
    /\ UNCHANGED <<store, versions, queue, notify, reservations, pending, requested,
                   cycles, worker, stopping, cancelled, received>>

-----------------------------------------------------------------------------
(* Pages.                                                                  *)

AtMost(seq, n) == SubSeq(seq, 1, IF Len(seq) < n THEN Len(seq) ELSE n)

\* processHosts: the slot's host series come first, in pages of their own.
HostPage ==
    /\ loop.pc = "paging" /\ loop.hosts # <<>>
    /\ LET page == AtMost(loop.hosts, PageSize)
           SampleOf(h) == [series |-> h, version |-> 1, ts |-> loop.cycle]
       IN loop' = [loop EXCEPT
            !.pc = "adding",
            !.page = [n \in 1..Len(page) |-> SampleOf(page[n])],
            !.hosts = SubSeq(loop.hosts, Len(page) + 1, Len(loop.hosts))]
    /\ UNCHANGED <<store, versions, queue, notify, reservations, pending, requested,
                   cycles, worker, stopping, cancelled, received>>

\* publishEligible, for a value that is valid and within its TTL.
Eligible(i, cycle) ==
    /\ store[i] # None
    /\ IF store[i].policy = "source" THEN store[i].version > store[i].published
                                     ELSE cycle > store[i].publishedAt

\* ReadPublishPage: the eligible values after the cursor in scan order.
Unread(slot, cycle, cursor) ==
    {i \in Items : /\ SlotOf[i] = slot
                   /\ Eligible(i, cycle)
                   /\ store[i].sequence > cursor}

\* The values of one page, in scan order.
PageOf(slot, cycle, cursor) ==
    LET unread == Unread(slot, cycle, cursor)
        places == {store[i].sequence : i \in unread}
        size == IF Cardinality(places) < PageSize THEN Cardinality(places) ELSE PageSize
    IN [n \in 1..size |-> CHOOSE i \in unread : store[i].sequence = Nth(places, n)]

KeyOf(i, cycle) ==
    [series |-> i, version |-> store[i].version,
     ts |-> IF store[i].policy = "source" THEN 0 ELSE cycle]

ItemPage ==
    /\ loop.pc = "paging" /\ loop.hosts = <<>> /\ ~loop.done
    /\ ~cancelled
    /\ LET page == PageOf(loop.slot, loop.cycle, loop.cursor)
       IN loop' = [loop EXCEPT
            !.pc = "adding",
            !.page = [n \in 1..Len(page) |-> KeyOf(page[n], loop.cycle)],
            !.cursor = IF page = <<>> THEN loop.cursor ELSE store[page[Len(page)]].sequence,
            !.done = Len(page) < PageSize]
    /\ UNCHANGED <<store, versions, queue, notify, reservations, pending, requested,
                   cycles, worker, stopping, cancelled, received>>

\* Done, or the context ended between two pages.
EndSlot ==
    /\ loop.pc = "paging" /\ loop.hosts = <<>>
    /\ loop.done \/ cancelled
    /\ loop' = IdleLoop
    /\ UNCHANGED <<store, versions, queue, notify, reservations, pending, requested,
                   cycles, worker, stopping, cancelled, received>>

\* Not sent: the captured metadata snapshot has another version of the item (or
\* cannot export the host), or the sample is larger than a request may be.
SkipSample ==
    /\ loop.pc = "adding" /\ loop.page # <<>>
    /\ loop' = [loop EXCEPT !.page = Tail(loop.page)]
    /\ UNCHANGED <<store, versions, queue, notify, reservations, pending, requested,
                   cycles, worker, stopping, cancelled, received>>

\* processHosts looks at the context before each host.
HostsCancelled ==
    /\ loop.pc = "adding" /\ loop.page # <<>> /\ cancelled
    /\ Head(loop.page).series \notin Items
    /\ loop' = [loop EXCEPT !.pc = "cleanup"]
    /\ UNCHANGED <<store, versions, queue, notify, reservations, pending, requested,
                   cycles, worker, stopping, cancelled, received>>

BuilderOf(key) == <<LaneOf[key.series], Policy(key)>>

NewBatch(builder) ==
    [policy |-> builder[2], slot |-> loop.slot, cycle |-> loop.cycle,
     lane |-> builder[1], keys |-> loop.builders[builder]]

\* reserve.
Reservable(key) == key \notin reservations

\* pageBatcher.add: reserve, then the builder of the lane and policy.  A full
\* builder is submitted first; the sample then starts the next one.
AddSample ==
    /\ loop.pc = "adding" /\ loop.page # <<>>
    /\ LET key == Head(loop.page)
           builder == BuilderOf(key)
       IN /\ Reservable(key)
          /\ reservations' = reservations \cup {key}
          /\ loop' = IF Cardinality(loop.builders[builder]) < MaxSamples
                     THEN [loop EXCEPT !.page = Tail(loop.page),
                                       !.builders[builder] = loop.builders[builder] \cup {key}]
                     ELSE [loop EXCEPT !.pc = "submitting", !.page = Tail(loop.page),
                                       !.batch = NewBatch(builder),
                                       !.builders[builder] = {}, !.sample = key]
    /\ UNCHANGED <<store, versions, queue, notify, pending, requested, cycles,
                   worker, stopping, cancelled, received>>

\* AlreadyPending.
SkipReserved ==
    /\ loop.pc = "adding" /\ loop.page # <<>>
    /\ ~Reservable(Head(loop.page))
    /\ loop' = [loop EXCEPT !.page = Tail(loop.page)]
    /\ UNCHANGED <<store, versions, queue, notify, reservations, pending, requested,
                   cycles, worker, stopping, cancelled, received>>

\* finish: submit what the page left in its builders, then the next page.
Finish ==
    /\ loop.pc = "adding" /\ loop.page = <<>>
    /\ \/ \E builder \in Builders :
             /\ loop.builders[builder] # {}
             /\ loop' = [loop EXCEPT !.pc = "submitting", !.batch = NewBatch(builder),
                                     !.builders[builder] = {}]
       \/ /\ loop.builders = NoBuilders
          /\ loop' = [loop EXCEPT !.pc = "paging"]
    /\ UNCHANGED <<store, versions, queue, notify, reservations, pending, requested,
                   cycles, worker, stopping, cancelled, received>>

-----------------------------------------------------------------------------
(* submitBatch.                                                            *)

\* activity.add comes before tryEnqueue, whose worker may call done at once.
PendingBeforeEnqueue == pending + 1

CountBatch ==
    /\ loop.pc = "submitting"
    /\ pending' = PendingBeforeEnqueue
    /\ loop' = [loop EXCEPT !.pc = "enqueueing"]
    /\ UNCHANGED <<store, versions, queue, notify, reservations, requested, cycles,
                   worker, stopping, cancelled, received>>

\* Mutant: an unbuffered channel, the token is lost when nobody waits.
Notified_IfWaiting(l) == notify[l] \/ worker[l].pc = "waiting"

\* A send to a channel of capacity one that never blocks.
Notified(l) == TRUE

\* The next step of add (its sample starts a new builder) or of finish.
AfterSubmit ==
    IF loop.sample = None
    THEN [loop EXCEPT !.pc = "adding", !.batch = None]
    ELSE [loop EXCEPT !.pc = "adding", !.batch = None, !.sample = None,
                      !.builders[BuilderOf(loop.sample)] = {loop.sample}]

TryEnqueue ==
    /\ loop.pc = "enqueueing"
    /\ IF Admission(queue, loop.batch) = "accepted"
       THEN /\ queue' = Enqueued(queue, loop.batch)
            /\ notify' = [notify EXCEPT ![loop.batch.lane] = Notified(loop.batch.lane)]
            /\ loop' = AfterSubmit
       ELSE /\ loop' = [loop EXCEPT !.pc = "refused"]
            /\ UNCHANGED <<queue, notify>>
    /\ UNCHANGED <<store, versions, reservations, pending, requested, cycles,
                   worker, stopping, cancelled, received>>

\* Mutant: a refused batch keeps its reservations.
RefusedKeys_None == {}

RefusedKeys == loop.batch.keys

\* queueFull and queueObsolete: releaseBatch; activity.done follows.
ReleaseRefused ==
    /\ loop.pc = "refused" /\ ~loop.owed
    /\ reservations' = reservations \ RefusedKeys
    /\ loop' = [loop EXCEPT !.batch = None, !.owed = TRUE]
    /\ UNCHANGED <<store, versions, queue, notify, pending, requested, cycles,
                   worker, stopping, cancelled, received>>

\* Mutant: the other builders of the page are forgotten.
CleanedKeys_SampleOnly == IF loop.sample = None THEN {} ELSE {loop.sample}

CleanedKeys ==
    (UNION {loop.builders[x] : x \in Builders})
      \cup (IF loop.sample = None THEN {} ELSE {loop.sample})

\* An error ends the slot: the sample in hand and every open builder are
\* released.  The values stay unpublished and are read again next time.
Cleanup ==
    /\ loop.pc = "cleanup"
    /\ reservations' = reservations \ CleanedKeys
    /\ loop' = IdleLoop
    /\ UNCHANGED <<store, versions, queue, notify, pending, requested, cycles,
                   worker, stopping, cancelled, received>>

-----------------------------------------------------------------------------
(* runWorker.                                                              *)

\* pop under the queue's mutex.
Pop(l) ==
    /\ worker[l].pc = "popping"
    /\ queue.lanes[l] # <<>>
    /\ worker' = [worker EXCEPT ![l] = [pc |-> "sending", attempt |-> 1,
                                        batch |-> Head(queue.lanes[l])]]
    /\ queue' = Popped(queue, l)
    /\ notify' = [notify EXCEPT ![l] = IF Len(queue.lanes[l]) > 1 THEN Notified(l)
                                                                   ELSE notify[l]]
    /\ UNCHANGED <<store, versions, reservations, pending, requested, cycles, loop,
                   stopping, cancelled, received>>

\* pop with nothing to take: the mutex is released before the select.
PopEmpty(l) ==
    /\ worker[l].pc = "popping"
    /\ queue.lanes[l] = <<>>
    /\ worker' = [worker EXCEPT ![l].pc = IF queue.closed THEN "exited" ELSE "selecting"]
    /\ UNCHANGED <<store, versions, queue, notify, reservations, pending, requested,
                   cycles, loop, stopping, cancelled, received>>

\* The select of pop finds neither channel ready.
Block(l) ==
    /\ worker[l].pc = "selecting"
    /\ ~notify[l] /\ ~cancelled
    /\ worker' = [worker EXCEPT ![l].pc = "waiting"]
    /\ UNCHANGED <<store, versions, queue, notify, reservations, pending, requested,
                   cycles, loop, stopping, cancelled, received>>

\* The select of pop, at once or after it blocked: either case when both are ready.
Wake(l) ==
    /\ worker[l].pc \in {"selecting", "waiting"}
    /\ \/ /\ notify[l]
          /\ notify' = [notify EXCEPT ![l] = FALSE]
          /\ worker' = [worker EXCEPT ![l].pc = "popping"]
       \/ /\ cancelled
          /\ worker' = [worker EXCEPT ![l].pc = "exited"]
          /\ UNCHANGED notify
    /\ UNCHANGED <<store, versions, queue, reservations, pending, requested, cycles,
                   loop, stopping, cancelled, received>>

\* The attempts of send: a retryable one is repeated with the same body until
\* the retries are used up.
Attempt(l, outcome) ==
    /\ worker[l].pc = "sending"
    /\ received' = IF outcome \in {"delivered", "lost"}
                   THEN received \cup worker[l].batch.keys ELSE received
    /\ worker' = [worker EXCEPT ![l] =
          [@ EXCEPT !.pc = IF outcome = "delivered" THEN "acking"
                           ELSE IF outcome = "permanent" \/ worker[l].attempt > MaxRetries
                           THEN "releasing" ELSE "backoff"]]
    /\ UNCHANGED <<store, versions, queue, notify, reservations, pending, requested,
                   cycles, loop, stopping, cancelled>>

\* waitRetry: the timer, or the context.  An ended context fails the attempts
\* to come as well.
Backoff(l) ==
    /\ worker[l].pc = "backoff"
    /\ worker' = [worker EXCEPT ![l] =
          IF cancelled THEN [@ EXCEPT !.pc = "releasing"]
          ELSE [@ EXCEPT !.pc = "sending", !.attempt = worker[l].attempt + 1]]
    /\ UNCHANGED <<store, versions, queue, notify, reservations, pending, requested,
                   cycles, loop, stopping, cancelled, received>>

\* Mutant: the ack is taken for whatever generation is cached now.
Acked_AnyVersion(i, key) == [store[i] EXCEPT !.published = store[i].version,
                                             !.publishedAt = key.ts]

\* AckPublished of one item: only for the generation that was sent.
Acked(i, key) ==
    IF store[i].version # key.version THEN store[i]
    ELSE [store[i] EXCEPT
            !.published = IF store[i].policy = "source" THEN key.version
                                                        ELSE store[i].published,
            !.publishedAt = IF key.ts > store[i].publishedAt THEN key.ts
                                                             ELSE store[i].publishedAt]

\* One shard after the other; the items of a batch are independent.
Ack(l) ==
    /\ worker[l].pc = "acking"
    /\ LET AcksOf(i) == {key \in worker[l].batch.keys : key.series = i}
       IN store' = [i \in Items |->
                      IF store[i] = None \/ AcksOf(i) = {} THEN store[i]
                      ELSE Acked(i, CHOOSE key \in AcksOf(i) : TRUE)]
    /\ worker' = [worker EXCEPT ![l].pc = "releasing"]
    /\ UNCHANGED <<versions, queue, notify, reservations, pending, requested,
                   cycles, loop, stopping, cancelled, received>>

ReleaseSent(l) ==
    /\ worker[l].pc = "releasing"
    /\ reservations' = reservations \ worker[l].batch.keys
    /\ worker' = [worker EXCEPT ![l].pc = "done", ![l].batch = None]
    /\ UNCHANGED <<store, versions, queue, notify, pending, requested, cycles, loop,
                   stopping, cancelled, received>>

WorkerDone(l) ==
    /\ worker[l].pc = "done"
    /\ pending' = pending - 1
    /\ worker' = [worker EXCEPT ![l] = IdleWorker]
    /\ UNCHANGED <<store, versions, queue, notify, reservations, requested, cycles,
                   loop, stopping, cancelled, received>>

-----------------------------------------------------------------------------
(* StopContext.                                                            *)

\* Mutant: what close returns is dropped.
Remaining_Forgotten(q) == {}

Remaining(q) == Queued(q)

\* stopped, cancel and close under stateMu.
Stop ==
    /\ stopping.pc = "running"
    /\ stopping' = [pc |-> "draining", remaining |-> Remaining(queue), owed |-> FALSE]
    /\ cancelled' = TRUE
    /\ queue' = Closed(queue)
    /\ notify' = [l \in Lanes |-> Notified(l)]
    /\ UNCHANGED <<store, versions, reservations, pending, requested, cycles, loop,
                   worker, received>>

ReleaseRemaining(b) ==
    /\ stopping.pc = "draining" /\ ~stopping.owed
    /\ b \in stopping.remaining
    /\ reservations' = reservations \ b.keys
    /\ stopping' = [stopping EXCEPT !.remaining = @ \ {b}, !.owed = TRUE]
    /\ UNCHANGED <<store, versions, queue, notify, pending, requested, cycles, loop,
                   worker, cancelled, received>>

StopDone ==
    /\ stopping.owed
    /\ pending' = pending - 1
    /\ stopping' = [stopping EXCEPT !.owed = FALSE]
    /\ UNCHANGED <<store, versions, queue, notify, reservations, requested, cycles,
                   loop, worker, cancelled, received>>

\* The last worker's wg.Done closes stopDone.
Stopped ==
    /\ stopping.pc = "draining" /\ stopping.remaining = {} /\ ~stopping.owed
    /\ \A l \in Lanes : worker[l].pc = "exited"
    /\ stopping' = [stopping EXCEPT !.pc = "stopped"]
    /\ UNCHANGED <<store, versions, queue, notify, reservations, pending, requested,
                   cycles, loop, worker, cancelled, received>>

-----------------------------------------------------------------------------
ValueStore ==
    \E i \in Items :
        (\E policy \in PoliciesOf[i] : WriteValue(i, policy)) \/ DropValue(i)

\* Everything PublishSlot does once it has started.
SlotStep ==
    \/ BeginCycle
    \/ \E b \in loop.removed : ReleaseRemoved(b)
    \/ LoopDone \/ StartPaging
    \/ HostPage \/ ItemPage \/ EndSlot
    \/ SkipSample \/ HostsCancelled \/ AddSample \/ SkipReserved \/ Finish
    \/ CountBatch \/ TryEnqueue \/ ReleaseRefused \/ Cleanup

WorkerStep(l) ==
    \/ Pop(l) \/ PopEmpty(l) \/ Block(l) \/ Wake(l)
    \/ \E outcome \in Outcomes : Attempt(l, outcome)
    \/ Backoff(l) \/ Ack(l) \/ ReleaseSent(l) \/ WorkerDone(l)

DrainStep == (\E b \in stopping.remaining : ReleaseRemaining(b)) \/ StopDone \/ Stopped

Next ==
    \/ ValueStore
    \/ Cancel
    \/ \E slot \in Slots, at \in 1..MaxCycle : StartSlot(slot, at)
    \/ SlotStep
    \/ \E l \in Lanes : WorkerStep(l)
    \/ Stop
    \/ DrainStep

Spec == Init /\ [][Next]_vars

(***************************************************************************)
(* Fairness.  Goroutines that can run do run; an attempt ends at the latest *)
(* with its timeout and a back-off with its timer; the program's shutdown   *)
(* calls StopContext after it has cancelled the context (cmd/server run).   *)
(* Nothing obliges the ticker, the cache or the operator to do anything.    *)
(***************************************************************************)
Fairness ==
    /\ WF_vars(SlotStep)
    /\ \A l \in Lanes : WF_vars(WorkerStep(l))
    /\ WF_vars(cancelled /\ Stop)
    /\ WF_vars(DrainStep)

FairSpec == Spec /\ Fairness

-----------------------------------------------------------------------------
(* Properties.                                                             *)

TypeOK ==
    /\ store \in [Items -> StoredValue \cup {None}]
    /\ versions \in Nat
    /\ queue.lanes \in [Lanes -> Seq(Batch)] /\ queue.closed \in BOOLEAN
    /\ queue.latest \in [Slots -> Nat] /\ queue.size \in 0..Capacity
    /\ notify \in [Lanes -> BOOLEAN]
    /\ reservations \subseteq Key
    /\ pending \in Nat
    /\ requested \in [Slots -> Nat] /\ cycles \in [Slots -> Nat]
    /\ loop.pc \in {"idle", "started", "dropping", "paging", "adding", "submitting",
                    "enqueueing", "refused", "cleanup"}
    /\ loop.removed \subseteq Batch /\ loop.batch \in Batch \cup {None}
    /\ loop.builders \in [Builders -> SUBSET Key] /\ loop.sample \in Key \cup {None}
    /\ \A l \in Lanes :
         /\ worker[l].pc \in {"popping", "selecting", "waiting", "sending", "backoff",
                              "acking", "releasing", "done", "exited"}
         /\ worker[l].batch \in Batch \cup {None}
         /\ worker[l].attempt \in 1..MaxRetries + 1
    /\ stopping.pc \in {"running", "draining", "stopped"}
    /\ stopping.remaining \subseteq Batch
    /\ cancelled \in BOOLEAN
    /\ received \subseteq Key

\* The batches that somebody still has to release.
LiveBatches ==
    Queued(queue) \cup loop.removed \cup stopping.remaining
      \cup (({loop.batch} \cup {worker[l].batch : l \in Lanes}) \ {None})

OpenKeys ==
    (UNION {loop.builders[x] : x \in Builders})
      \cup (IF loop.sample = None THEN {} ELSE {loop.sample})

\* Reservations and the work they stand for agree at every moment, through a
\* full queue, a coalesced cycle, an error, a cancellation and a stop: a
\* reservation nobody holds would silence that sample for good, a sample held
\* twice would be sent twice.
ReservationsOwned ==
    /\ reservations = OpenKeys \cup UNION {b.keys : b \in LiveBatches}
    /\ \A b \in LiveBatches : b.keys \cap OpenKeys = {}
    /\ \A a, b \in LiveBatches : a # b => a.keys \cap b.keys = {}

Count(condition) == IF condition THEN 1 ELSE 0

\* WaitIdle returns when the counter is zero, and done panics below zero: the
\* counter is the number of batches between activity.add and activity.done.
ActivityExact ==
    pending = Cardinality(Queued(queue)) + Cardinality(loop.removed)
              + Cardinality(stopping.remaining)
              + Count(loop.pc \in {"enqueueing", "refused"} /\ ~loop.owed)
              + Count(loop.owed) + Count(stopping.owed)
              + Cardinality({l \in Lanes : worker[l].pc \in
                               {"sending", "backoff", "acking", "releasing", "done"}})

\* The global bound counts what the lanes hold, through pops, evictions and close.
SizeExact == queue.size = Cardinality(Queued(queue)) /\ queue.size <= Capacity

\* The two counters that batches share, and with them the type invariant.
CountersExact == TypeOK /\ ActivityExact /\ SizeExact

\* No lost wakeup: a worker that is about to block, or blocks, with a batch in
\* its lane has a token to wake it, although pop lets go of the mutex before it
\* selects on the channel.
NoLostWakeup ==
    \A l \in Lanes :
        worker[l].pc \in {"selecting", "waiting"} /\ queue.lanes[l] # <<>> => notify[l]

\* Coalescing: a queued cycle batch is never older than its slot's newest cycle,
\* and no newer cycle removes a source sample or another slot's batch.  And a wall
\* clock that stands still or steps back never makes the queue turn a slot's whole
\* cycle away: what normalizeCycleLocked hands to beginLongCycle is current unless
\* the queue has been closed.
CoalescedExactly ==
    /\ \A b \in Queued(queue) : b.policy = "cycle" => b.cycle >= queue.latest[b.slot]
    /\ \A b \in loop.removed : b.policy = "cycle" /\ b.slot = loop.slot
    /\ loop.pc = "started" /\ ~queue.closed => IsCurrent(queue, loop.slot, loop.cycle)

\* Not of an older generation and, as long as the policy is the same, not of an
\* older cycle.
NotBefore(a, b) ==
    /\ a.version >= b.version
    /\ Policy(a) = Policy(b) => a.ts >= b.ts

\* "Each lane has exactly one consumer, preserving per-series FIFO order": no
\* attempt sends a sample of an older generation than one the endpoint already has
\* of the same series, nor one of an older cycle under the same policy, across
\* retries, re-reads, a clock that steps back, values that are replaced and
\* policies that change.  Across a change of policy the order of the timestamps is
\* not promised: an item redefined from the cycle to the source policy follows the
\* sample stamped with its last cycle by one stamped with an earlier source clock.
SeriesInOrder ==
    \A l \in Lanes : worker[l].pc = "sending" =>
        \A key \in worker[l].batch.keys, old \in received :
            old.series = key.series => NotBefore(key, old)

\* A value counts as published only if exactly that generation (and, for a cycle
\* value, that cycle) reached the endpoint: an ack that arrives after the value
\* was replaced must not silence the new one.
AckedWasReceived ==
    \A i \in Items : store[i] # None =>
        /\ store[i].published # 0 =>
             [series |-> i, version |-> store[i].version, ts |-> 0] \in received
        /\ store[i].publishedAt # 0 =>
             [series |-> i, version |-> store[i].version, ts |-> store[i].publishedAt]
               \in received

\* value_state.go on PublishSourceTimestamp: "Each ValueVersion is published at
\* its original Zabbix clock/ns at most once."  No first attempt may carry a source
\* sample that the endpoint has already acknowledged (the run's endpoint always
\* answers 2xx, so whatever it received it acknowledged).
PublishedAtMostOnce ==
    \A l \in Lanes : worker[l].pc = "sending" /\ worker[l].attempt = 1 =>
        \A key \in worker[l].batch.keys : key.ts = 0 => key \notin received

\* Every reservation ends, so every sample can be offered again: no wakeup is
\* lost, no batch is forgotten in the queue, also when the context ends first.
ReservationsEnd == \A key \in Key : (key \in reservations) ~> (key \notin reservations)

\* StopContext's drain comes to an end with nothing reserved and nothing counted.
StopDrains ==
    stopping.pc = "draining" ~>
        (stopping.pc = "stopped" /\ reservations = {} /\ pending = 0)
=============================================================================
