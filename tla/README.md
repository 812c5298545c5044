# Zabbix exporter: specifications and proofs

TLA+ models of the exporter in this repository (`cmd/server`, `internal/…`),
the TLC configurations that check them on small instances, and TLAPS proofs of
the properties that matter most for every instance. Paths below are relative to
`src/`.

## 1. The system

The exporter polls Zabbix, keeps the last value of every item, and offers the
values twice: on `/metrics` (pull) and by Prometheus Remote Write (push).

| Part | State | Operations | Talks to |
|---|---|---|---|
| Metadata refresher and builder (`internal/metadata/refresher.go`, `builder.go`) | request limiter | `Refresh`: hosts, then batched items, then `Build` a candidate | Zabbix API; metadata store |
| Metadata store (`internal/metadata/cache.go`) | one atomic pointer to an immutable snapshot | `Snapshot`, `ApplySnapshot` (clone, version, diff, swap) | read by everybody |
| Metadata loop (`internal/pipeline/scheduled.go` `runMetadata`, `applyMetadata`) | none | swap, delete removed and changed items, hand new groups to the scheduler | store, value cache, scheduler |
| Scheduler (`internal/scheduler`) | heap of groups, in-flight counts, task queue, done queue | `dispatchDue`, `handleDone`, `ReplaceGroups`, `Start`, `StopContext` | collector |
| Group collector (`internal/collector`) | watermark per batch | `CollectGroup`, `collectBatch`, `query` (split and merge), `RetainGroups` | store, Zabbix API, value cache |
| Value cache (`internal/cache/value_cache.go`, `shard.go`) | shards of `ValueState` with a mutex each, scan order, one version counter | `ApplyBatch`, `MarkMiss`, `Delete`, `DeleteVersioned`, `ReadPublishPage`, `ReadScrapePage`, `AckPublished` | expiry wheel |
| Expiry wheel (`internal/cache/expiry_wheel.go`) | buckets of (item, version, TTL) | `RegisterExpiry`, `ExpireDue` | value cache |
| Publisher (`internal/promwrap/publisher.go`) | reservations, cycle of each slot, activity counter | `PublishSlot`, `runWorker`, `StopContext`, `WaitIdle` | value cache, lane queue |
| Lane queue and delivery (`internal/promwrap/push_worker.go`) | lanes, size, latest cycle of each slot, notify channels | `beginLongCycle`, `tryEnqueue`, `pop`, `close`; `send` with retries | Remote Write endpoint |
| Pull exporter (`internal/prometheus/exporter`) | none | `Collect`: a paged scan | value cache, store |
| Token manager (`internal/zabbix/token.go`) | token, refresh goroutine | `Start`, `StopContext`, refresh loop | Zabbix API |
| Pipeline lifecycle (`internal/pipeline`, `cmd/server`) | which stages run | `Start`, `abortStart`, `Stop`, signal handling | all stages |

What is hard about it:

- **A metadata swap against collections in flight.** Snapshots are swapped
  without the cache's locks; an answer is judged against a snapshot captured
  before the query; the cleanup after a swap is one lock at a time.
- **Two life cycles of one value.** The wheel registers a value after the shard
  is unlocked and deletes it after the wheel is unlocked; updates, deletions and
  re-creations fall in between.
- **Answers out of order**, and misses that name an item rather than a
  generation of its value.
- **Push bookkeeping.** Reservations, the activity counter, the queue size, the
  wakeup tokens and the acks are five records of the same batches under four
  locks, and a batch can leave in five ways (sent, failed, refused, coalesced,
  dropped by a stop).
- **Scans that give up their locks.** A scrape pages over shards whose order is
  extended, thinned out and compacted between its pages.
- **Windows.** A collection asks for a window behind a watermark; points come late,
  answers are truncated and split, attempts fail, clocks step back, batches are
  regrouped while their watermark is dropped.
- **All-or-nothing refreshes** by a worker pool whose parts fail, are cancelled and
  still have to be counted.
- **Lifecycle**: a signal, a failing start and several callers of `Stop` meet at any
  stage of a startup; cancellation comes before the stop.
- **Sessions** whose lifetime the client only assumes.

What makes each part correct is the list of properties in section 4.

## 2. The modules

| Module | Models |
|---|---|
| `ValueState` | `value_state.go`: policy, TTL, grace, "newer than" |
| `MetadataStore` | `metadata/cache.go`: snapshots, definition versions, diff |
| `ValueCache` | the value cache with its three concurrent writers: metadata loop, collection workers, expiry loop. EXTENDS the two above |
| `Sublist` | loops that go through a slice and keep some of its elements: `beginLongCycle`, `ExpireDue` |
| `LaneQueue` | `laneQueue`: each method's critical section as an operator. EXTENDS `Sublist` |
| `Publisher` | slot loop, page batcher, workers, stop, and the cache's publish side. EXTENDS `LaneQueue` |
| `Scheduler` | `internal/scheduler`: dispatcher, workers, their two channels, group replacement, stop |
| `ExpirySet` | abstract: what the value cache needs of an expiry registrar, a set of entries |
| `ExpiryWheel` | `expiry_wheel.go`: minute buckets, the round of `ExpireDue`; implements `ExpirySet`. EXTENDS `Sublist` |
| `ShardScan` | `shard.go` (scan order, tombstones, compaction), `ReadScrapePage` and the exporter's `Collect` over a cache that changes. EXTENDS `ValueState` |
| `Collector` | `group_collector.go`: watermarks, windows, limits, splits, misses; Zabbix with late points; `RetainGroups` and redefinitions. EXTENDS `ValueState` |
| `MetadataRefresher` | `refresher.go` with its worker pool and limiter, read through the filters of `app.go` |
| `Lifecycle` | `run` of `cmd/server`, `Scheduled.Start`, `abortStart`, `Stop`, `finishStop`, with every goroutine they start and join |
| `TokenManager` | `token.go`: first login, refresh loop, `StopContext`, against sessions with a lifetime of their own |
| `MC…` | the small instances, one `.cfg` per run |
| `ValueCacheProofs` | theorems about `ValueCache`, its use of `ExpirySet` among them |
| `ShardScanProofs` | theorems about `ShardScan` |
| `SchedulerProofs`, `LifecycleProofs` | theorems about `Scheduler` and `Lifecycle` |
| `ZabbixSideProofs` | theorems about the two components that talk to Zabbix on their own clock, `MetadataRefresher` and `TokenManager` (whose specification is `TMSpec`, so that one module can extend both) |
| `PublisherProofs` | theorems about `Publisher` and its `LaneQueue` |
| `ExpiryWheelProofs` | theorems about `ExpiryWheel`, its refinement of `ExpirySet` among them |
| `CollectorProofs` | theorems about `Collector` |

The components overlap where they interact. `ValueCache` composes metadata loop,
collectors, cache and expiry loop and takes the wheel for the set that `ExpiryWheel`
implements; `Collector` puts one group's windows in front of a sequential cache;
`ShardScan` and `Publisher` see the cache from its two readers; `Lifecycle` has the
goroutines of all of them and their order only.

### ValueCache and the code

Time is in units of 30 s, so the three durations of `value_state.go` (1 min, 90 s,
30 s) are 2, 3 and 1. A source timestamp `(clock, ns)` is one number. A definition
is what `itemDefinitionsEqual` compares, reduced to delay, enabled and a tag.

| Variable | Code |
|---|---|
| `snapshot` | `Store.snapshot` |
| `reconcile` | the locals of `applyMetadata` between the swap and `ApplyMetadataDiff` |
| `groups` | what the scheduler's groups were built from |
| `values`, `lock` | `shard.values`, `shard.mu` (one shard per item: every interleaving of the code's shards and more) |
| `nextValueVersion` | `ValueCache.nextValueVersion` |
| `collector[c]` | locals of worker `c` in `runWorker`, `collectBatch`, `query`, `ApplyBatch` |
| `wheel`, `expiring` | entries in the wheel; candidates `ExpireDue` has taken and not yet tried to delete |

Each action is one critical section or one step between two of them:
`ApplySnapshot`, `ReconcileDelete`, `ReplaceGroups` (metadata loop);
`Dispatch`, `CaptureSnapshot`, `Deliver` or `QueryFailed`, then per record
`LockAndCheck` and `Write`, then `RegisterExpiry` and per missed item `MarkMiss`
(workers); `TakeDue`, `DeleteVersioned` (expiry loop). `LockAndCheck` and `Write`
are two steps because the snapshot can be swapped between them: the swap takes
no shard lock. Zabbix answers with any point whose clock is not after the
window's end, with nothing, or with a value the code rejects.

Worker fields that will not be read again are reset; this merges states that
differ in dead locals only.

### Publisher and the code

| Variable | Code |
|---|---|
| `store`, `versions` | the cache as `ReadPublishPage` and `AckPublished` see it: version, scan sequence, `PublishPolicy`, `LastPublishedVersion`, `LastPublishedTimestamp`. A value that is deleted, expired or invalid is gone: none of the three becomes eligible again |
| `queue`, `notify` | `laneQueue`; a channel of capacity one is a Boolean |
| `reservations`, `pending` | `Publisher.reservations`, `publishActivity.pending` |
| `requested`, `cycles` | `lastRequested`, `lastCycle` |
| `loop` | locals of `runPublisher`, `PublishSlot`, `pageBatcher`, `submitBatch` |
| `worker[l]` | locals of `runWorker` and `send` of lane `l` |
| `stopping`, `cancelled` | locals of `StopContext`; the context |
| `received` | what the endpoint took (history variable) |

The policy belongs to the value, not to the item: `ApplyBatch` takes it from the delay of
the definition the value was fetched under (`value_cache.go:379`), so an item that is
redefined changes between the two (`PoliciesOf` says which policies an item may be given).

A sample is its `publishKey`; `Policy` of a sample is told by its timestamp. A batch is a set of samples. Reads, reservations,
queue operations, counter operations, acks and releases are separate steps, in
the code's order; that order is what most properties are about. `SkipSample` may
drop any sample of a page: it stands for the metadata version check of
`processPage`, for a host that is not exportable and for an oversized sample.
`encode` failing is left out: `batchBuilder.add` has already enforced the limits
`encode` checks.

### Scheduler and the code

| Variable | Code |
|---|---|
| `entries` | `Scheduler.entries` and, because an entry is in the heap exactly when it is in the map, the heap |
| `inFlight` | `inFlightIDs` |
| `tasks`, `done`, `wake` | the three channels; `wake` has capacity one and is a Boolean |
| `dispatcher` | where `run` is, the time `dispatchDue` was called with, what the timer is set for |
| `worker[w]` | locals of `runWorker` |
| `metadata` | whether `ReplaceGroups` has released the mutex and not yet sent its token |
| `cancelled`, `stopped` | the context of `Start`; the return of `StopContext` |
| `first` | history: the first planned run of each present group |

One iteration of `dispatchDue` is one of `Enqueue`, `SkipInFlight`, `QueueFull`,
`DispatchCancelled`, `NothingDue`. The code holds the mutex for the whole of
`dispatchDue`; the model lets other steps in between its iterations, which gives
every behaviour of the code and more. Left out: groups with equal `nextRunAt` are
taken in any order (the code orders them by id); the branch of `ReplaceGroups` for a
group whose period changed (the id contains the delay, so there is none); the
instants between `nextWait` reading the clock and the timer being set (the timer
may fire late by that much). `Start` begins with an empty snapshot: its first groups
arrive with a replacement like all others.

### ExpiryWheel and the code

| Variable | Code |
|---|---|
| `buckets` | `ExpiryWheel.buckets`; a bucket that is missing is empty; `keys`, the heap, is the set of non-empty buckets |
| `pendingEntries` | `pendingEntries` |
| `round` | locals of `ExpireDue`: its time, `Processed`, `activeKey`, `activeRemaining`, `hasActiveBucket` |
| `candidates` | the batch given to `DeleteVersioned`, less what has been tried |
| `registered` | history: a ValueVersion is registered once |

`ScanBatch` is one turn of the loop in `ExpireDue` up to the unlock, `DeleteVersioned`
one candidate without the wheel's mutex, `EndRound` the way out. `RegisterExpiry`
takes one entry; the code takes those of a batch at once, of which every
interleaving is among the model's. A tick that waits in its channel is a
`StartRound` whose next step is late. `lastProcessedBucket`, the lag and `Stats` only report.

`ValueCache` does not contain this module but the set it implements: its `wheel` is
`pending` of `ExpirySet`, its `expiring` is `taken`. That `ExpireDue` takes any due part of
the set there is what `ImplementsExpirySet` allows; that the cache asks nothing else of the
set is a theorem, `CacheUsesExpirySet` (section 6).

### ShardScan and the code

| Variable | Code |
|---|---|
| `values`, `order`, `nextSequence`, `tombstones` | the fields of `valueShard`. `order` is a slice that grows at its end with growing numbers and is filtered in place: it is sorted, and is the set of its keys |
| `snapshot`, `definition`, `changed` | the published snapshot, its items' versions, and what `applyMetadata` has yet to delete |
| `scan` | locals of `Collect` and `ReadScrapePage`: cursor, page so far, the snapshot and the timestamp captured at the start |
| `emitted`, `steady` | the samples of this scrape; history: the items that qualified at every moment of it |

`FullPage` and `ShardExhausted` are the two ways a locked section of a page ends.
Writers do what `ValueCache` shows they may do: `ApplyRecord` writes a current
definition, or the previous one between swap and delete.

### Collector and the code

| Variable | Code |
|---|---|
| `history` | the points Zabbix has; a point is `late` when it became visible further behind its clock than the overlap |
| `snapshot`, `version`, `disabled`, `obsolete`, `groups` | published versions, the items that are not enabled, what the loop has yet to delete, the scheduler's group |
| `watermark` | `states[batchID].lastQueryTill`; a batch is its members, of which `batchID` is a hash |
| `values`, `given_up` | the cache; history: the newest clock of each item that the code gave up (section 5) |
| `task` | locals of `CollectGroup`, `collectBatch` and the recursion of `query`, whose stack is `task.stack` |

An answer and its application are one step (`ValueCache` takes them apart). `Apply` writes
the records of current, enabled items that are numbers (`Writable`); what `ApplyBatch` skips or
rejects (`Dropped`; `NotANumber` says which points) counts as answered and lets the watermark
advance, as in the code. `Reconcile` is `applyMetadata` after the swap: it deletes the obsolete
values and keeps the watermark of a batch whose members stay the same.
`orphan` says that `RetainGroups` dropped the state the running batch holds a
pointer to; between two batches it can drop nothing a collection holds, since
`collectBatch` looks its state up itself. Windows, overlap, bootstrap and query limit are the code's formulas.

### MetadataRefresher and the code

| Variable | Code |
|---|---|
| `zabbix`, `changes`, `seen` | Zabbix; how often it changed in this refresh; history: the states each host had |
| `ahead`, `pause` | `requestLimiter.next` less now; what is left of `Refresh`'s own wait |
| `phase`, `hosts` | where `Refresh` is; the hosts it selected |
| `groupIDs`, `members` | the IDs of `hostgroup.get` that `GetHosts` holds until `host.get`; the groups of the hosts in Zabbix in the meantime |
| `listed`, `blank` | history: the hosts that were in a named group from the first answer to the second; `host.get` had no result |
| `nextJob`, `worker`, `results`, `outcome` | the jobs channel, the goroutines, the results channel, `byBatch` with its errors |
| `cancelled`, `stopped` | `workCtx`; the pipeline's metadata context |
| `snapshot` | what the store publishes |

Zabbix answers a request with an error or with a list; the list of items may repeat one.
With host groups, `hostgroup.get` and `host.get` are two answers about two moments, and
between them hosts are moved (`Move`), changed, added and removed. An answer with neither an
error nor a result is an empty list for `GetHostGroups` and `GetHostsByGroupIDs`
(`client.go:565`, `:540`) and so it is here; without host groups `GetHosts` refuses it
(`:505`), as `GetItemMetadata` does (`:712`): a failure. `host.get` is not ordered, so of two hosts with one address either may be kept.

### Lifecycle and the code

| Variable | Code |
|---|---|
| `main`, `failed` | where `run` is; whether it returns an error |
| `root`, `pipeline`, `cancelled` | the context of `run`; `rootCancel`; each stage's own cancel |
| `start`, `flags` | where `Scheduled.Start` is; `starting`, `started`, `stopping` |
| `thread`, `busy`, `queue`, `dropped` | the stages' goroutines; which are in the middle of a refresh, page or request; batches queued; history: a batch failed because its context had ended |
| `stopper`, `waiting` | `finishStop`; the callers of `Stop` |
| `token` | the token manager's goroutine |

`run` has an action for each of its ways on: `LoginFails`, `LeaveEarly`, `CreateFails`,
`StartFailed`, `ExporterFails`, `RegisterFails` and `Serve` with the shutdown behind it. With a page size that
`config.go:336` validates and a collector without descriptors the exporter and its registration
cannot fail today; the exits are modelled as the code handles them. The one after a failed registration
(`main.go:119-121`) stops nothing: `main` becomes `abandoned`.

A stage is one goroutine or pool that ends when its context has ended and its work
is done. The drain of the publisher waits for `Pending` batches.

### TokenManager and the code

| Variable | Code |
|---|---|
| `usesAPIKey`, `isRunning`, `ended`, `closed` | the client's key; the manager's flag; the context of the run; how often `done` was closed |
| `pc`, `attempt`, `asked`, `ticker`, `due` | where `Start` and then the loop is; logins and time of this round; the ticker and its channel |
| `caller` | the caller of `StopContext` |
| `held`, `localAge`, `sessionAge`, `revoked`, `trouble` | `TokenInfo`; the session in Zabbix; history: ended early; time since logins fail |

A unit of time is longer than a round of attempts, so the clock moves at most once
within a round.

## 3. Runs

| Run | Question | Instance |
|---|---|---|
| `cache_safety` | Is the cache right whatever the three writers do to each other, and does what expires go away? | one item, two workers, three definitions (30 s; the same disabled; 60 s), clocks 0 and 1, 2 refreshes, 3 time units, 2 writes before the last query |
| `publisher_safety` | Do the publisher's five records agree through every way a batch can leave? | a source item and one that is redefined between the policies, in two slots on one lane, capacity 2, no retries (the next run has them), 2 writes, cycles 1 and 2 |
| `publisher_liveness` | Do reservations end and does a stop drain, also when a page fails half-way? | a source item and two hosts in one slot on one lane, pages of 2, one sample per batch, capacity 1, one retry, every outcome |
| `published_once` | Is a source value published at most once, as `value_state.go` says? (violated) | one source item, one write, an endpoint that always answers 2xx |
| `scheduler` | One task per group, cadence, sleep; does every task end, does a stop return? | groups of period 2 and 3, one worker, task channel of one, 2 time units, 3 replacements, retries after 1 to 3 |
| `expiry_wheel` | Is the wheel the set the cache takes it for, and does what is due go away? | five generations in two minutes of 3 instants, budget 3, batches of 2 |
| `scrape_safety` | Does a scrape over a changing cache return what it should, once? | three items in two shards, pages of 2, compaction from 2 tombstones, 3 insertions into the first shard, one redefinition, 3 time units |
| `collector` | Is a punctual point ever lost between windows, a miss ever wrong? | two items in one batch, three points, a limit of 2, two levels of splits, the clock back by 2, one item redefined, disabled, removed or added, the second item's point of the middle instant no number |
| `refresh` | Is a snapshot whole, does a refresh end with its workers? | three hosts, two of which share an address, batches of one, two workers, two host groups with every host in the first when they are asked for, one change or move in Zabbix per refresh |
| `lifecycle` | Is the cleanup complete and honest on every exit, does a signal end the process? | push enabled, a second caller of `Stop`, work in the metadata loop and the publisher, a queue of one |
| `lifecycle_drain` | Does a normal stop drain gracefully, as `scheduled.go` says? (violated) | the same |
| `token` | Is the session always valid, a stop honest, a lost session replaced? | real lifetime 12, assumed 6, advance 2, check every 2, outages up to 2, two attempts |

Why these bounds are enough. In `ValueCache` items share only the version counter
and the metadata, so one item with two workers shows every race on a shard: two
answers for the item need two groups at once, which the change from 30 s to 60 s
gives; a second generation needs two writes; the second refresh changes or
removes an item while an answer of its first definition is in flight. Three
time units are the shortest TTL, so values expire, and delays of 1 make values
overdue before that. No definition changes without a change of delay or status; `FenceHolds`
covers the others, a new label among them. The instance is small because it also checks a liveness
property; the five safety properties are theorems for every instance (section 6).
In `Publisher` two cycles are enough for one to supersede
the other, two versions for an ack to be stale or a policy to change, a lane of two for order. The
queue of that instance is never full, a batch is refused there by a closed queue only; it is full
in the other instance, of capacity one, and in the theorems. There two
hosts and an item on one page open two builders and hold a third sample when the
queue refuses the first batch. In `Scheduler`
two groups and a channel of one fill the channel; three replacements add a
group, remove it and add it again while its old task runs; two time
units are one period of the fast group, with a retry inside it; one worker
and the dispatcher already form the circle of channels, and for more workers the
safety properties are theorems. In `ExpiryWheel` one bucket lies in the past and one is the current
minute, with due and not yet due entries; the budget ends inside a bucket, the
batch inside the budget, and the older bucket may be filled while the younger
one is being worked on. In `ShardScan` a page ends inside the first shard or
at its end, and two deletions there compact the order between two pages.
In `Collector` one point for each item fills an answer, so it is split; the third
can be the one that is lost; two time units let a window slide past the first. Within
these bounds no value is too old at the end of its window, so `Alive` never
filters for age here (it does in `ValueCache` and `ShardScan`). In
`MetadataRefresher` the one change can be the move of a host from a group that was named to
one that was not, before `host.get`; one batch fails while another is being asked for and a third
is still in the channel. In `TokenManager` the lifetime is the smallest that
`AlwaysValid` allows: with 11 TLC finds a violation, and `SessionsStayValid` proves the
bound for all durations.

The bounds on counters (`MaxTime`, `MaxSnapshots`, `MaxVersions`, `MaxCycle`, `MaxReplacements`,
`MaxPoints`, `MaxSequence`, `MaxChanges`, `MaxChanged`) are in the guards of `Tick`, `ApplySnapshot`, `Redefine`,
`Publish`, `Dispatch`, `WriteValue`, `StartSlot`, `ReplaceGroups`, `Arrive`, `ApplyRecord` and `Change`; `Over`,
`Capped` and `Attempts` bound ages and attempts of `TokenManager`.
Runs set `CHECK_DEADLOCK FALSE` where behaviours end at those bounds, or after a
stop; `expiry_wheel` and `token` go on for ever and check for deadlock.

Fairness. `ValueCache`: every goroutine that can run does; a query ends at the
latest with its timeout (`observedHistoryReader`); a step that needs a shard's
mutex is strongly fair, because Go's mutex hands itself to a waiter that has
waited for long (starvation mode) while the shard may be locked and unlocked in
between. No fairness on refreshes or dispatches. `Publisher`: slot loop, workers and
the drain are weakly fair; an attempt ends with its timeout; `cmd/server` calls
the stop after it cancelled the context. No fairness on ticks, writes or signals. `Scheduler`:
Go's `select` chooses at random among its ready cases, so a case that is ready again
and again is taken: strong fairness for a result and for the ended context; weak
fairness for the dispatcher's other steps, for each worker (a task ends with
its timeout) and for the stop after a cancel. None on the clock, the timer,
wake tokens, replacements or the cancel. `ExpiryWheel`: the
ticker fires again and again and nothing blocks a round for good, so weak
fairness of the clock and of `ExpireDue` as a whole; none on registrations.
`MetadataRefresher`: goroutines run, timers fire, requests end with their
timeouts; a refresh need never begin, nothing need change or stop. `Lifecycle`:
weak fairness of `run`, `Start`, `finishStop` and each stage; none on a caller's deadline,
a signal or the beginning of work. `TokenManager`: time, the manager's goroutine
and the return of a stop whose goroutine is gone; strong fairness for the case of
the ended context in the loop's `select`.

## 4. Properties

`ValueCache`

- `MetadataFence`: outside a reconciliation, no value of an obsolete definition is
  cached, except for a disabled item (its value lives until its TTL, by design).
- `ExpiryCovered`: every cached generation has its own expiry entry somewhere: in the wheel,
  in the hands of `ExpireDue`, or in an `ApplyBatch` about to register it.
- `DeletedForCause`: a value disappears only past its own TTL or by reconciliation.
- `SourceNeverRegresses`: under one definition a new version means a newer point.
- `InvalidOnlyWhenOverdue`: a miss invalidates only a value that is itself overdue.
- `ExpiredEventuallyGone`: what has expired goes away.

`Publisher`

- `ReservationsOwned`: reservations are exactly the samples in builders and live
  batches, each held once.
- `CountersExact`: the counter behind `WaitIdle` and the queue's size are exact.
- `NoLostWakeup`: no worker sleeps on a non-empty lane without a token.
- `CoalescedExactly`: coalescing removes what it should, and a clock that steps back does
  not silence a slot.
- `SeriesInOrder`: no generation older than what the endpoint has of a series is sent, and
  under one policy no older timestamp.
- `AckedWasReceived`: a value counts as published only if that generation was received.
- `ReservationsEnd`, `StopDrains`.

`Scheduler`

- `OneTaskPerGroup`: never two tasks of one group, also across removal and return, and
  the in-flight count is exact until a cancel.
- `CadenceKept`: retries, refusals, skips and replacements leave a group in the phase of
  its first run.
- `SleepCovered`: the dispatcher never sleeps past the earliest run.
- `TasksEnd`, `StopReturns`.

`ExpiryWheel`

- `ImplementsExpirySet`: the refinement: nothing lost, taken early or taken twice.
- `PendingExact`: the counter and the buckets agree.
- `TypeOK` includes that a round looks at no more entries than its budget.
- `DueIsDeleted`: entries that are put back do not starve those that are due.

`ShardScan`

- `ScrapeComplete`: an item that qualified for the whole of a scrape has a sample.
- `LifeReadOnce`: between insertion and deletion a value is returned at most once.
- `TombstonesExact`, and as a theorem `OrderBounded`: the dead keys of the order are
  counted exactly and never outweigh the live ones beyond the threshold.

`Collector`

- `NoGap`: a punctual point is in the cache, superseded there, expired, or inside the
  window the batch asks for next, unless it is of one of the three kinds the code gives up.
- `MissesHonest`: a miss is counted only when Zabbix had no point of the item in the
  window.
- `TypeOK` includes that no window runs backwards.

`MetadataRefresher`

- `AllOrNothing`: for each of its hosts a published snapshot holds what Zabbix had at
  some moment of the refresh.
- `AddressesKept`: no eligible address is lost between hosts that share it, or between the
  answers of `hostgroup.get` and `host.get` while its host stays in a group that was named.
- `RefreshEnds`; `TypeOK` includes that no worker outlives its refresh.

`Lifecycle`

- `StopHonest`: when the cleanup is declared done nothing runs or will run, and nothing
  is pending.
- `CleanExit`: a return without an error has joined everything, and one with an error has told
  the token manager and the pipeline to stop, as far as they run (but for a failed registration).
- `SignalEndsRun`: after a signal no join waits for ever.
- `StopDrains` (violated): no batch of a started pipeline fails for the stop's sake
  before the drain is over.

`TokenManager`

- `AlwaysValid`: the client never works with an expired session, outages included.
- `StopHonest`: a stop that succeeds leaves neither `Start` nor the loop running.
- `Recovers`: a session that was lost is replaced.

## 5. What the checks showed

`published_once` is violated: the worker acks and then releases the reservation
(`publisher.go:696-731`), the slot loop reads a page and then reserves
(`publisher.go:390`, `733`). A page read just before the ack is reserved just
after the release, and the same ValueVersion is sent again although its first
delivery was acknowledged. The second sample equals the first, so a Remote Write
receiver normally ignores it; the comment on `PublishSourceTimestamp` promises
more than the code does.

`lifecycle_drain` is violated: `scheduled.go:255` and `:311` describe a graceful
drain in reverse order, but the normal stop is a signal, and on a signal `main.go:67`
cancels the context every stage descends from before `Stop` is called. The
delivery workers see their context ended and give up their batches; the drain
that follows releases their reservations.

What the code can lose, and what the properties therefore except by name:

- A value across a redefinition. The reconciliation's delete has no version
  (`scheduled.go:428-429`), and a batch whose members stay the same keeps its watermark, so
  the next window starts an overlap before it (`group_collector.go:190`). The last point of the old
  definition, or one of the new definition that was written before the delete, is then
  neither cached nor asked for again: the item has no value until its next point. `NoGap`
  calls such points `given_up`: not newer than a value that was deleted or replaced because of
  a redefinition. Stated without this exception it is violated.
- A rejected point. A value that is no finite number, and one of an item that is disabled, is
  counted and passed over by the watermark (`value_cache.go:299-318`); older points of
  the same window, among them numbers, are passed over with it, because only the latest point of an
  item is looked at. These are the other two kinds.
- The order of timestamps across a change of policy. An item whose delay goes from the cycle
  to the source policy has its last sample stamped with a cycle and the next with the source's
  clock, which may be earlier (`value_cache.go:379`). The generations still arrive in order;
  `SeriesInOrder` compares timestamps under one policy only.
- A host that moves while it is asked for. `GetHosts` holds the group IDs of `hostgroup.get`
  until `host.get` (`app.go:110-120`): a host that is moved to a group created in between is
  missing from the snapshot, and its values are deleted until the next refresh, although
  Zabbix had it all the time. `AddressesKept` speaks of hosts that were `listed`.
- All hosts, when Zabbix answers with neither an error nor a result (see `MetadataRefresher`
  in section 2): `hostgroup.get` without a result selects nothing, and so does `host.get`.

Disagreements between code and documents met while modelling, which no run
states:

- `value_cache.go:637` ("every currently valid state exactly once"): a value that is
  deleted by a reconciliation and fetched again with the same point has a new
  sequence number and may be read a second time by the same scrape. `LifeReadOnce`
  is what holds.
- `docs/configuration.md:114` ("Consecutive misses"): an answer that contains the
  item with the cached or an older point takes the early path at
  `value_cache.go:359`, which leaves `ConsecutiveMisses` as it is.
- `docs/configuration.md:105` (hosts with loopback or duplicate addresses are
  filtered): the filter judges the first SNMP or main interface (`app.go:169`), the
  published `host_ip` is that of the main agent interface (`builder.go:163`).
- `docs/configuration.md:74` (minimum interval between metadata requests): with host
  groups, `GetHosts` sends `hostgroup.get` and `host.get` under one reservation
  (`app.go:110`, `120`).
- `docs/operations.md:8` (`/ready` requires a valid token): the handler asks whether
  there is a token (`main.go:191`), which a session ended in Zabbix does not change.

## 6. Proofs

All proofs are checked by tlapm with SMT, Zenon and PTL. They assume what the
modules assume of their constants (`DurationAssumption`, `DefinitionAssumption`,
`AbsentAssumption`, `CacheAssumption`, `NoValueAssumption`, `ScanAssumption`, `NoEntryAssumption`,
`SchedulerAssumption`, `TokenAssumption`, `RefresherAssumption`, `QueueAssumption`, `PublisherAssumption`, `NoneAssumption`,
`LifecycleAssumption`, `WheelAssumption`, `CollectorAssumption`) and, in `SessionsStayValid`,
`Margin`; nothing else. They hold for any number of items, definitions, workers,
lanes, shards, groups, any durations, capacities and limits, and any bound. The assumptions give
constants their types, say that a missing value is none of the values, and state
what the code's constructors validate (`OverlapMin <= OverlapMax`, `RetryBase <= RetryMax`,
limits of at least one). `TokenAssumption` takes the advance to be shorter than the assumed
session lifetime, and that shorter than the server's. One is about two numbers in the code:
`CollectorAssumption` has `MinShortTTL <= MinBootstrap` (90 s in `value_state.go`, five minutes in
`bootstrapWindow`), without which `NoGap` is false, since a batch without a watermark has to
ask as far back as a value lives.

`ValueCacheProofs` proves `TypeCorrect` and `FenceHolds`. `MetadataFence` is not
inductive: a worker that has passed the locked version check is about to write a
version the cache does not hold. `FenceInv` adds `LockedWriteLegitimate` (that write is
legitimate too: it was when the lock was taken, a swap either leaves the
definition alone, disables the item, or puts it on the reconciliation's list,
and the list's Delete waits for the lock), `LockedIsPending` and `PendingIsWritable` (a lock
belongs to a record the worker is about to write) and `QuietWhenIdle` (a new
reconciliation starts with nothing left from the last).

The same module proves `NoGenerationLeaks` (`ExpiryCovered`), `DeletedOnlyForCause`
(`DeletedForCause`) and `SourceMovesForward` (`SourceNeverRegresses`) on top of `FenceInv`. Its
`CoverInv` adds to `ExpiryCovered` that only an applying worker holds unregistered
entries (`ExpiryWhileApplying`), that no entry and no value has a version that has not
been handed out (`VersionsUsed`), so an insertion's version is above all of them,
that an entry with a cached value's version has that value's TTL
(`OneExpiryPerVersion`), and that what `ExpireDue` took was due (`ExpiringAreDue`). The
last two are why a version comparison is enough in `DeleteVersioned`. Every other step
moves entries or touches one worker's record: `CoverFrame` and `WorkerCover` say so
once.

It also proves `InvalidIsOverdue` (`InvalidOnlyWhenOverdue`): `FetchedInPast` says no
worker carries a fetch time that has not come, `ValueStep` what one step can make
of an item's value.

The last theorem there, `CacheUsesExpirySet`, is the other half of the refinement in
`ExpiryWheelProofs`: that module shows that the wheel implements `ExpirySet`, this
one that the cache uses an `ExpirySet` and nothing else. `HistSpec` is `Spec` with a history
variable, `registered`, that collects all that was ever in the wheel and restricts
nothing. The step with content is `RegisterExpiry`: the set accepts only entries
it never had, while the code creates an entry under the shard's lock and registers
it later, in any order with other workers. `FreshInv` carries that from the
insertion on: what a worker holds is not in the history (`HeldIsNew`) nor in another
worker's hands (`HeldByOne`), because its version was above every one in use (`VersionsUsed`,
`RegisteredUsed`). `TakeDue` is `Take`, `DeleteVersioned` is `Handle`, and every other step leaves
the set alone.

`ShardScanProofs` proves `ScanTypes`, `ScrapesAreComplete` and `LivesAreReadOnce`. `OrderInv` says that
keys lie in the shard of their item, with numbers up to the shard's counter
(`KeysInOrder`), and that every cached value has its own key in the order (`LiveNamed`). `ScanInv` adds
`CursorInv`: what has been emitted lies behind the cursor, and a steady item that has
no sample yet lies ahead of it. `PlaceKept` is the reason writers keep it: a cached
item never changes its place. A page that ends at its limit returned a prefix of
what was readable (`FirstOfIsPrefix`), so nothing is passed over.

It also proves `TombstonesAreExact` and `OrderIsBounded`. `CountInv` is `TombstonesExact` with
`CompactionDue`: the threshold test of the last deletion was negative. The
cardinalities rest on `OrderSplit`: live and dead keys partition the order, and live
keys are as many as cached items.

`SchedulerProofs` proves `SchedulerTypes`, `OneTaskAtATime`, `NeverOversleeps` and `CadenceHolds`. The retry delay
is a recursive function; that it is defined and within its limits for every
number of failures (`DoublingDefined`) is proved from finite tables, by an induction
over sets of naturals (`SetInduction`) that needs no operator parameter. `TaskInv` adds
to `OneTaskPerGroup` who holds a task (`Places`: a worker that executes or reports and
no other; goroutines exit only after a cancel, and a stop has seen all of them exit). `SleepInv` covers the two steps
between reading the heap and going to sleep: the deadline the dispatcher carries is
early enough or a token is on its way. `CadenceInv` adds to `CadenceKept` that the
dispatcher's time is not in the future and that a group in retry has no task in
flight. `DispatchEnds` is about the loop of `dispatchDue`, which has no bound of its own: every iteration
takes its group out of the due ones and adds none, because a plan made at some instant lies
after it (`PlannedLater`: the division in `advancePlanned` rounds down by less than a
period). It is the safe half of the dispatcher's part in `TasksEnd`.

`ZabbixSideProofs` proves `TokenTypes`, `StopsAreHonest` and `SessionsStayValid`. The last one is about
durations: `Margin` is `Assumed - Advance + 2 * Interval + MaxOutage + 2 <= Lifetime`.
`SessionInv` bounds the session's age in each place of the loop: until the first
check past the renewal age by `Due`; during an outage by `Due` and the outage's length;
and after it by `Latest`, because the next attempt is already determined. TLC's
instance has equality in `Margin`. The default interval of 300 s keeps the margin; the
configuration's validation does not ask for it, and with a much longer interval it is lost.

The same module proves `RefresherTypes` (`TypeOK`), `PublishesAllOrNothing` (`AllOrNothing`),
`PublishesEveryAddress` (`AddressesKept`) and `NoBatchIsForgotten`, for any hosts, interfaces, filters,
batch size, number of workers and pacing. It begins with the batches: `Rank` numbers
the selected hosts from one to their number without a gap (`RanksNumber`), so the batches are a partition of
them, none empty and none longer than `BatchHosts` (`BatchesPartition`, `BatchSizes`). `AllOrNothing` is
about one step, the publication, and says nothing on the way there. `RefreshInv` has what is
true before it: `Told`, what a worker reports about a batch is only about the batch's hosts, and
for each of them exactly what Zabbix had at some moment of this refresh. That survives
every later change in Zabbix, because the history only grows, and the way through results
to outcomes (`Reported`). With all outcomes in hand the union over the partition is a
snapshot: a host's items come from its own batch and from no other. `Represented` keeps, from the
answer of `host.get` on, that the address of a host that was there all the time is among
those selected, if the host was listed. `Grouped` carries that from one answer to the other: a listed
host is still in a group that was named. Which of several interfaces gives the address does not matter to it, and
`selectedHostIP` stays unexpanded. `NoBatchIsForgotten` is the part of `RefreshEnds` that is a
safety property: when every worker has left and the results have been collected, no batch is
without an outcome, so the refresh never waits for a result that nobody sends. Its
invariant is `Owed`: a batch without an outcome is in the jobs channel, with a worker, or
among the results, and no worker that was needed leaves while jobs are left.

`PublisherProofs` takes the publisher in layers, each an invariant on top of the last.
`Shape` (`PublisherShape`) says what each place of the slot loop, of a worker and of
`StopContext` holds, and that it holds nothing else; `NoLostWakeup` and
`CoalescedExactly` follow with it (`PublisherNoLostWakeup`, `PublisherCoalesced`; the second needs
`LatestPast`: the queue never knows a cycle that the slot has not reached). For
`ReservationsOwned` (`PublisherOwned`), which is about sets, a batch must be in one place only:
`OnePlace`. Every step then does one of five things to batches, open samples and
reservations (`Ownership`): it leaves them, frees one batch, opens one sample,
seals one builder, or cleans up. `CountersExact` (`PublisherCounters`) counts the same
places (`LoopCount`): `activity.add` and `activity.done` are steps apart from the
queue operations they belong to, and each of the terms says who owes one.
`SeriesInOrder` (`PublisherInOrder`) needs the samples' own history: `KeysPast`, no sample
anywhere is newer than the cache and the slot's cycle, and a page has one sample per
series; and `FirstInFirstOut`, along a lane from the endpoint back through the worker and the queue to
the page in hand nothing is older than what is ahead of it, in the sense of `NotBefore`: the
generation always, the timestamp under one policy. `AckedWasReceived` (`PublisherAcked`) rests on
`AckingReceived`: who acks has delivered.

`LifecycleProofs` proves `LifecycleTypeOK`, `LifecycleStopHonest` and `LifecycleCleanExit`. `Starting` ties
the stages that have been started to how far `Start` got; `Cleaning` says that the cleanup passes
a stage only when it does not run, and begins only before `Start` or after it; `Leaving`
says what `run` knows at each of its exits, and whom it has told to stop there. A cleanup that is done has passed all
stages, and a `Start` that comes late finds `stopping` set and starts none.
`EveryWaitIsAnswered` is the safe half of `SignalEndsRun`: `finishStop` joins only what was started and
then cancelled (with an empty queue, in the case of the publisher's workers, who would go on with
it), it waits only for a `Start` that is over or whose context has ended, and nobody waits for a `Stop` or a
token manager that was not told to stop. What TLC adds is that each of these waits
then ends under the fairness above.

`ExpiryWheelProofs` proves `WheelTypeOK`, `WheelPendingExact` and the refinement `WheelImplementsExpirySet`.
`AtHome` says that an entry lies once, in the bucket of its own minute, and is not at the same
time in the hands of a deletion; with it the positions that a round cuts off, puts back and hands
out are a partition (`ScanKeeps`, `ScanTakes`), so `pendingEntries` loses exactly the candidates
(`Counted`). Each step of the wheel maps to a step of `ExpirySet` or to none:
`RegisterExpiry` to `Register`, a scan with candidates to `Take` (all of them due), a deletion to
`Handle`. The lemmas about `Sublist` (`NthExists`, `SublistFacts`) stand in for an induction: the m-th
position is found in a minimal set that has m elements.

`CollectorProofs` proves `CollectorTypeOK`, `CollectorNoGap`, `CollectorMissesHonest` and
`RegularNotTruncated`. `NoGap` speaks of the watermarks of the current batches only; `MarksReach`
has it for every watermark, since a collection still at work on the batches of before a regrouping
can set one that the next regrouping brings back.
While an attempt runs, `WindowReaches` says that no punctual point lies before its window unwanted,
and `AnswersReach`, as long as no part has failed, that the points of all items that
have been answered are dealt with up to the window's end. `Split` keeps it because the
halves cover the segment, `Apply` because an answer that does not fill its limit is the whole window
(`NewestAll`) and a point that is not written is expired or given up, and `FinishBatch` turns it into `MarksReach` of the new mark. That
an arriving point disturbs none of this is the meaning of `late`. For `MissesHonest`, `Working` says
that an item that had a point when the attempt began is not among the misses.
`RegularNotTruncated` is about `queryLimit`: points a delay or more apart fall into different slots
of the window, whose number `ExpectedPerItem` exceeds.

The proof of `NoGap` corrected the model: a regrouping between two batches used to orphan
the next one's state as well, although `collectBatch` looks it up only then.

Only model-checked: all liveness properties, the fairness they need and the parts of specifications
that state it (out of TLAPS's reach: `ExpiredEventuallyGone`, `ReservationsEnd`, the drain of the publisher,
`TasksEnd`, `StopReturns`, `DueIsDeleted`, `RefreshEnds`, `SignalEndsRun`, `Recovers`). Every safety property
of a passing run is stated by a theorem.

## 7. Not modelled, and what is left

Left out for good: parsing of delays and labels, ordering and naming of groups, and
matching names against filter patterns (pure conversions without state);
configuration, logging, metrics registration; JSON, HTTP and protobuf encoding;
metric values and labels on `/metrics`; host series definitions in the metadata store
(same clone rule as items); replacing the credentials of a running client
(nothing in the repository does it). `Start` of the
scheduler reads its snapshot while the metadata loop runs, but the loop's first
tick is a whole refresh interval away; `Lifecycle` starts the loop and the scheduler in
the code's order without that window. `Collect` of the exporter takes its snapshot and its
timestamp in two statements (`exporter.go:50`, `:56`), here in one step. `DeletedForCause`
allows any delete of a reconciliation, also that of a value of the new definition.

What would come next: a composition of `Collector` with the locks of `ValueCache`.
