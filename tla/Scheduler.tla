----------------------------- MODULE Scheduler -----------------------------
(***************************************************************************)
(* internal/scheduler: one dispatcher goroutine that sleeps on a timer, a  *)
(* fixed pool of workers behind two bounded channels, and the metadata     *)
(* loop that replaces the groups underneath them.                          *)
(*                                                                         *)
(* A group is its id.  The id contains host, value type and delay, so a    *)
(* group that keeps its id keeps its period: the branch of ReplaceGroups   *)
(* for a changed period is never reached from Build and is left out.  What *)
(* a group queries is the collector's business.  The heap is the set of    *)
(* entries: any entry with the earliest nextRunAt may be its head (the     *)
(* code breaks ties by id).                                                *)
(***************************************************************************)
EXTENDS Sequences, FiniteSetsExt

CONSTANTS
    Groups,         \* group ids
    Period,         \* CollectionPeriod of each group's delay
    Offset,         \* StableOffset of each group within the startup spread
    Workers,        \* the worker pool
    QueueCapacity,  \* capacity of the task channel
    RetryBase, RetryMax,
    IdleWait,       \* how long the dispatcher sleeps without groups (24 hours)
    Absent,         \* no entry, no group
    MaxTime,        \* bound: the model's last instant
    MaxReplacements \* bound: metadata refreshes

ASSUME SchedulerAssumption ==
    /\ Period \in [Groups -> Nat \ {0}]
    /\ Offset \in [Groups -> Nat]
    /\ \A g \in Groups : Offset[g] < Period[g]
    /\ QueueCapacity \in Nat \ {0} /\ IdleWait \in Nat
    /\ RetryBase \in Nat \ {0} /\ RetryMax \in Nat /\ RetryBase <= RetryMax
    /\ Absent \notin Groups
    /\ MaxTime \in Nat /\ MaxReplacements \in Nat
    /\ IsFiniteSet(Workers) /\ Workers # {}

VARIABLES
    now,         \* wall clock
    entries,     \* Scheduler.entries, and with them the heap
    first,       \* history: when each present group was first to run
    inFlight,    \* Scheduler.inFlightIDs
    tasks,       \* the task channel
    done,        \* the result channel, as large as the pool
    wake,        \* the wake channel holds a token
    dispatcher,  \* the run loop: where it is, dispatchDue's now, the timer
    worker,      \* each runWorker
    metadata,    \* the metadata loop: replacements made, one without its notify
    cancelled,   \* the context of Start
    stopped      \* StopContext has returned

vars == <<now, entries, first, inFlight, tasks, done, wake, dispatcher, worker,
          metadata, cancelled, stopped>>

Entry == [nextRunAt : Nat, nextCadence : Nat, retrying : BOOLEAN, failures : Nat]

\* Between a case of the run loop and its next select.  Locals that are not read
\* again are reset.
Arming == [pc |-> "arm", at |-> 0, timer |-> 0]

IdleWorker == [pc |-> "idle", group |-> Absent, ok |-> TRUE]

NewEntry(g) == [nextRunAt |-> now + Offset[g], nextCadence |-> now + Offset[g] + Period[g],
                retrying |-> FALSE, failures |-> 0]

\* Start with an empty first snapshot; the groups arrive with the first Replace.
Init ==
    /\ now = 0
    /\ entries = [g \in Groups |-> Absent]
    /\ first = [g \in Groups |-> 0]
    /\ inFlight = [g \in Groups |-> 0]
    /\ tasks = <<>>
    /\ done = <<>>
    /\ wake = TRUE
    /\ dispatcher = [pc |-> "select", at |-> 0, timer |-> IdleWait]
    /\ worker = [w \in Workers |-> IdleWorker]
    /\ metadata = [replaced |-> 0, notify |-> FALSE]
    /\ cancelled = FALSE
    /\ stopped = FALSE

Tick ==
    /\ now < MaxTime
    /\ now' = now + 1
    /\ UNCHANGED <<entries, first, inFlight, tasks, done, wake, dispatcher, worker,
                   metadata, cancelled, stopped>>

Present == {g \in Groups : entries[g] # Absent}

-----------------------------------------------------------------------------
(* ReplaceGroups.                                                          *)

\* Known groups keep their entry, and with it their cadence and their failures.
ReplaceGroups(desired) ==
    /\ ~metadata.notify
    /\ metadata.replaced < MaxReplacements
    /\ entries' = [g \in Groups |-> IF g \notin desired THEN Absent
                                    ELSE IF g \in Present THEN entries[g]
                                    ELSE NewEntry(g)]
    /\ first' = [g \in Groups |-> IF g \in desired \ Present THEN now + Offset[g]
                                  ELSE first[g]]
    /\ metadata' = [replaced |-> metadata.replaced + 1, notify |-> TRUE]
    /\ UNCHANGED <<now, inFlight, tasks, done, wake, dispatcher, worker, cancelled,
                   stopped>>

\* Mutant: the wake channel has no buffer, so a token nobody waits for is gone.
TokenSent_Unbuffered == wake \/ dispatcher.pc = "select"

TokenSent == TRUE

\* The non-blocking send on wake, after the mutex is released.
Notify ==
    /\ metadata.notify
    /\ wake' = TokenSent
    /\ metadata' = [metadata EXCEPT !.notify = FALSE]
    /\ UNCHANGED <<now, entries, first, inFlight, tasks, done, dispatcher, worker,
                   cancelled, stopped>>

-----------------------------------------------------------------------------
(* The dispatcher.                                                         *)

\* The first planned time after at, in the phase of planned.
advancePlanned(planned, period, at) ==
    LET next == planned + period
    IN IF next > at THEN next
       ELSE next + ((at - next) \div period + 1) * period

\* Mutant: a retry is planned like any other run, and the phase drifts with it.
Advanced_FromRetry(g, at) ==
    LET next == advancePlanned(entries[g].nextRunAt, Period[g], at)
    IN [entries[g] EXCEPT !.nextRunAt = next, !.nextCadence = next, !.retrying = FALSE]

\* What dispatchDue makes of the head before it knows whether the task is queued:
\* a retry goes back to the cadence it interrupted.
Advanced(g, at) ==
    LET e    == entries[g]
        next == IF e.retrying
                THEN IF e.nextCadence > at THEN e.nextCadence
                     ELSE advancePlanned(e.nextCadence, Period[g], at)
                ELSE advancePlanned(e.nextRunAt, Period[g], at)
    IN [e EXCEPT !.nextRunAt = next, !.nextCadence = next, !.retrying = FALSE]

Earliest(g) == g \in Present /\ \A h \in Present : entries[g].nextRunAt <= entries[h].nextRunAt

TimerFires ==
    /\ dispatcher.pc = "select" /\ dispatcher.timer <= now
    /\ dispatcher' = [pc |-> "dispatching", at |-> now, timer |-> 0]
    /\ UNCHANGED <<now, entries, first, inFlight, tasks, done, wake, worker, metadata,
                   cancelled, stopped>>

\* The send on the task channel would not block.
HasRoom == Len(tasks) < QueueCapacity

HeadIsDue(g) ==
    /\ dispatcher.pc = "dispatching"
    /\ Earliest(g) /\ entries[g].nextRunAt <= dispatcher.at

\* One iteration of dispatchDue, with the mutex held throughout: the task is
\* queued and counted.
Enqueue(g) ==
    /\ HeadIsDue(g) /\ inFlight[g] = 0 /\ HasRoom
    /\ entries' = [entries EXCEPT ![g] = Advanced(g, dispatcher.at)]
    /\ tasks' = Append(tasks, g)
    /\ inFlight' = [inFlight EXCEPT ![g] = @ + 1]
    /\ UNCHANGED <<now, first, done, wake, dispatcher, worker, metadata, cancelled,
                   stopped>>

\* The previous task of the group is not over: this run is skipped.
SkipInFlight(g) ==
    /\ HeadIsDue(g) /\ inFlight[g] > 0
    /\ entries' = [entries EXCEPT ![g] = Advanced(g, dispatcher.at)]
    /\ UNCHANGED <<now, first, inFlight, tasks, done, wake, dispatcher, worker,
                   metadata, cancelled, stopped>>

\* The task channel is full: try again soon, then return to the cadence.
QueueFull(g) ==
    /\ HeadIsDue(g) /\ inFlight[g] = 0 /\ ~HasRoom /\ ~cancelled
    /\ entries' = [entries EXCEPT ![g] =
                     [Advanced(g, dispatcher.at) EXCEPT
                        !.nextRunAt = dispatcher.at + RetryBase, !.retrying = TRUE]]
    /\ UNCHANGED <<now, first, inFlight, tasks, done, wake, dispatcher, worker,
                   metadata, cancelled, stopped>>

\* The select may see the cancelled context even when the channel has room.
DispatchCancelled(g) ==
    /\ HeadIsDue(g) /\ inFlight[g] = 0 /\ cancelled
    /\ entries' = [entries EXCEPT ![g] = Advanced(g, dispatcher.at)]
    /\ dispatcher' = Arming
    /\ UNCHANGED <<now, first, inFlight, tasks, done, wake, worker, metadata, cancelled,
                   stopped>>

NothingDue ==
    /\ dispatcher.pc = "dispatching"
    /\ \A g \in Present : entries[g].nextRunAt > dispatcher.at
    /\ dispatcher' = Arming
    /\ UNCHANGED <<now, entries, first, inFlight, tasks, done, wake, worker, metadata,
                   cancelled, stopped>>

\* base doubled with every failure after the first, never above the maximum.
doubled[failures \in Nat] ==
    IF failures <= 1 THEN RetryBase
    ELSE LET delay == doubled[failures - 1]
         IN IF delay > RetryMax \div 2 THEN RetryMax ELSE 2 * delay

retryDelay(failures) == IF failures = 0 THEN 0 ELSE doubled[failures]

\* A failed run is repeated before the next planned one, or not at all.
Failed(e) ==
    LET failures == e.failures + 1
        retryAt  == now + retryDelay(failures)
    IN IF retryAt < e.nextRunAt
       THEN [e EXCEPT !.failures = failures, !.nextCadence = e.nextRunAt,
                      !.nextRunAt = retryAt, !.retrying = TRUE]
       ELSE [e EXCEPT !.failures = failures]

\* Mutant: the group that was removed meanwhile is not counted down.
Uncounted_Present(g) == IF g \in Present THEN [inFlight EXCEPT ![g] = 0] ELSE inFlight

Uncounted(g) == [inFlight EXCEPT ![g] = IF @ > 1 THEN @ - 1 ELSE 0]

handleDone ==
    /\ dispatcher.pc = "select" /\ done # <<>>
    /\ LET result == done[1]
       IN /\ inFlight' = Uncounted(result.group)
          /\ entries' = [entries EXCEPT ![result.group] =
                           IF @ = Absent THEN Absent
                           ELSE IF result.ok THEN [@ EXCEPT !.failures = 0]
                           ELSE Failed(@)]
    /\ done' = Tail(done)
    /\ dispatcher' = Arming
    /\ UNCHANGED <<now, first, tasks, wake, worker, metadata, cancelled, stopped>>

TakeWake ==
    /\ dispatcher.pc = "select" /\ wake
    /\ wake' = FALSE
    /\ dispatcher' = Arming
    /\ UNCHANGED <<now, entries, first, inFlight, tasks, done, worker, metadata,
                   cancelled, stopped>>

\* nextWait: until the head is due, or for a day when there is no group.
Deadline ==
    IF Present = {} THEN now + IdleWait
    ELSE Max({now, Min({entries[g].nextRunAt : g \in Present})})

\* nextWait, the end of every turn of the run loop.  What the dispatcher takes with
\* it is the deadline; that it runs late by the time to the next step is left out.
NextWait ==
    /\ dispatcher.pc = "arm"
    /\ dispatcher' = [pc |-> "armed", at |-> 0, timer |-> Deadline]
    /\ UNCHANGED <<now, entries, first, inFlight, tasks, done, wake, worker, metadata,
                   cancelled, stopped>>

\* The mutex is free between nextWait and resetTimer.
ResetTimer ==
    /\ dispatcher.pc = "armed"
    /\ dispatcher' = [dispatcher EXCEPT !.pc = "select"]
    /\ UNCHANGED <<now, entries, first, inFlight, tasks, done, wake, worker, metadata,
                   cancelled, stopped>>

DispatcherExits ==
    /\ dispatcher.pc = "select" /\ cancelled
    /\ dispatcher' = [Arming EXCEPT !.pc = "exited"]
    /\ UNCHANGED <<now, entries, first, inFlight, tasks, done, wake, worker, metadata,
                   cancelled, stopped>>

-----------------------------------------------------------------------------
(* The workers.  Execute may fail, and ends at the latest with its timeout *)
(* or with the context.                                                    *)

TakeTask(w) ==
    /\ worker[w].pc = "idle" /\ tasks # <<>>
    /\ worker' = [worker EXCEPT ![w] = [@ EXCEPT !.pc = "executing", !.group = tasks[1]]]
    /\ tasks' = Tail(tasks)
    /\ UNCHANGED <<now, entries, first, inFlight, done, wake, dispatcher, metadata,
                   cancelled, stopped>>

Execute(w, ok) ==
    /\ worker[w].pc = "executing"
    /\ worker' = [worker EXCEPT ![w] = [@ EXCEPT !.pc = "reporting", !.ok = ok]]
    /\ UNCHANGED <<now, entries, first, inFlight, tasks, done, wake, dispatcher,
                   metadata, cancelled, stopped>>

Report(w) ==
    /\ worker[w].pc = "reporting" /\ Len(done) < Cardinality(Workers)
    /\ done' = Append(done, [group |-> worker[w].group, ok |-> worker[w].ok])
    /\ worker' = [worker EXCEPT ![w] = IdleWorker]
    /\ UNCHANGED <<now, entries, first, inFlight, tasks, wake, dispatcher, metadata,
                   cancelled, stopped>>

\* Mutant: a worker whose result nobody takes does not look at the context.
MayExit_Idle == {"idle"}

\* Where a worker looks at the context: its result is lost in the second case.
MayExit == {"idle", "reporting"}

WorkerExits(w) ==
    /\ worker[w].pc \in MayExit /\ cancelled
    /\ worker' = [worker EXCEPT ![w] = [IdleWorker EXCEPT !.pc = "exited"]]
    /\ UNCHANGED <<now, entries, first, inFlight, tasks, done, wake, dispatcher,
                   metadata, cancelled, stopped>>

-----------------------------------------------------------------------------
Cancel ==
    /\ ~cancelled
    /\ cancelled' = TRUE
    /\ UNCHANGED <<now, entries, first, inFlight, tasks, done, wake, dispatcher, worker,
                   metadata, stopped>>

\* StopContext once all goroutines are gone: drop what is queued.
Drain ==
    /\ cancelled /\ ~stopped
    /\ dispatcher.pc = "exited" /\ \A w \in Workers : worker[w].pc = "exited"
    /\ tasks' = <<>>
    /\ inFlight' = [g \in Groups |-> 0]
    /\ stopped' = TRUE
    /\ UNCHANGED <<now, entries, first, done, wake, dispatcher, worker, metadata,
                   cancelled>>

-----------------------------------------------------------------------------
MetadataLoop == Notify \/ \E desired \in SUBSET Groups : ReplaceGroups(desired)

dispatchDue ==
    \/ \E g \in Groups : \/ Enqueue(g) \/ SkipInFlight(g)
                         \/ QueueFull(g) \/ DispatchCancelled(g)
    \/ NothingDue

Dispatcher ==
    TimerFires \/ dispatchDue \/ handleDone \/ TakeWake \/ NextWait \/ ResetTimer
    \/ DispatcherExits

runWorker(w) ==
    TakeTask(w) \/ (\E ok \in BOOLEAN : Execute(w, ok)) \/ Report(w) \/ WorkerExits(w)

Next ==
    \/ Tick
    \/ MetadataLoop
    \/ Dispatcher
    \/ \E w \in Workers : runWorker(w)
    \/ Cancel
    \/ Drain

Spec == Init /\ [][Next]_vars

(***************************************************************************)
(* Fairness.  The dispatcher and the workers run whenever they can.  Go's  *)
(* select chooses at random among what is ready, so a case that is ready   *)
(* again and again is chosen: strong fairness for a result and for the     *)
(* ended context.  After a cancel the pipeline calls StopContext.  Nothing *)
(* is asked of the clock, the timer, the metadata loop or the wake tokens. *)
(***************************************************************************)
Fairness ==
    /\ WF_vars(Drain)
    /\ WF_vars(dispatchDue \/ NextWait \/ ResetTimer)
    /\ SF_vars(handleDone) /\ SF_vars(DispatcherExits)
    /\ \A w \in Workers : WF_vars(runWorker(w))

FairSpec == Spec /\ Fairness

-----------------------------------------------------------------------------
(* Properties.                                                             *)

TypeOK ==
    /\ now \in Nat
    /\ entries \in [Groups -> Entry \cup {Absent}]
    /\ first \in [Groups -> Nat]
    /\ inFlight \in [Groups -> Nat]
    /\ tasks \in Seq(Groups) /\ Len(tasks) <= QueueCapacity
    /\ done \in Seq([group : Groups, ok : BOOLEAN]) /\ Len(done) <= Cardinality(Workers)
    /\ wake \in BOOLEAN
    /\ dispatcher \in [pc : {"select", "dispatching", "arm", "armed", "exited"},
                       at : Nat, timer : Nat]
    /\ worker \in [Workers -> [pc : {"idle", "executing", "reporting", "exited"},
                               group : Groups \cup {Absent}, ok : BOOLEAN]]
    /\ metadata \in [replaced : Nat, notify : BOOLEAN]
    /\ cancelled \in BOOLEAN /\ stopped \in BOOLEAN

\* How many tasks of g are queued, running or waiting for handleDone.
Tasks(g) ==
    Cardinality({n \in DOMAIN tasks : tasks[n] = g})
      + Cardinality({n \in DOMAIN done : done[n].group = g})
      + Cardinality({w \in Workers : worker[w].group = g})

\* A group never has two tasks at once, not even one that was removed and added
\* again while its task ran, because inFlightIDs outlives the entry; and the count
\* does not drift, which would silence the group for good.
OneTaskPerGroup ==
    \A g \in Groups : /\ inFlight[g] <= 1
                      /\ ~stopped => Tasks(g) <= inFlight[g]
                      /\ ~cancelled => Tasks(g) = inFlight[g]

\* Where an entry's cadence stands: a retry keeps it aside.
Cadence(e) == IF e.retrying THEN e.nextCadence ELSE e.nextRunAt

\* However often a group is retried, refused by a full queue, delayed, skipped or
\* kept by a replacement, its next planned run stays in the phase of its first
\* one and at most a period ahead: no drift, and no run planned away.
CadenceKept ==
    \A g \in Present : LET cadence == Cadence(entries[g])
                       IN /\ cadence >= first[g]
                          /\ (cadence - first[g]) % Period[g] = 0
                          /\ cadence <= now + Period[g]

\* The dispatcher never oversleeps: while it waits with no token on wake and none
\* about to be sent, its timer is set for the earliest run, although
\* ReplaceGroups changes the heap between nextWait and the next select.
SleepCovered ==
    dispatcher.pc = "select" /\ ~wake /\ ~metadata.notify =>
        \A g \in Present : dispatcher.timer <= now \/ dispatcher.timer <= entries[g].nextRunAt

\* Two bounded channels in a circle (tasks to the workers, results back to the
\* only sender of tasks) do not lock up: every task comes to an end.
TasksEnd == \A g \in Groups : inFlight[g] > 0 ~> inFlight[g] = 0

\* StopContext returns, whatever is queued, running or unreported.
StopReturns == cancelled ~> stopped
=============================================================================
