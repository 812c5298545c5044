------------------------- MODULE MetadataRefresher -------------------------
(***************************************************************************)
(* One metadata refresh after another: metadata.Refresher with its request *)
(* limiter, read through pipeline.filteredAppReader.                       *)
(*                                                                         *)
(* A refresh asks Zabbix for the hosts, splits them into batches and lets  *)
(* WorkerCount goroutines ask for the items of the batches.  Workers take  *)
(* batches from a closed channel, wait for the limiter, ask, and put one   *)
(* result per batch in a channel; the refresh collects as many results as  *)
(* there are batches, joins the workers and then either publishes a whole  *)
(* snapshot or nothing.  Definitions change in Zabbix meanwhile, requests  *)
(* fail or answer nonsense, and the pipeline may be stopped at any moment. *)
(*                                                                         *)
(* Time is relative: ahead is how far the limiter is reserved beyond now,  *)
(* and a sleeping worker keeps what is left of its wait.  An item is       *)
(* identified with its host: each host has at most one, "on" (enabled) or  *)
(* "off", and a host may be "gone".                                        *)
(*                                                                         *)
(* With host groups configured the IDs of the groups the filter keeps are  *)
(* asked for first and held until the hosts of those groups are asked for: *)
(* two answers about two moments.  The groups of the hosts are modelled    *)
(* from the first answer to the second, while they matter.                 *)
(***************************************************************************)
EXTENDS Naturals, FiniteSets, Sequences

CONSTANTS
  Hosts,        \* host IDs, as naturals: the refresh sorts them
  Interfaces,   \* [Hosts -> Seq([type, main, ip])], in the order of the answer
  AllowedIPs,   \* metrics.host_ips; empty: no restriction
  ByGroup,      \* metrics.host_groups is configured
  Groups,       \* host groups whose names ShouldKeepHostGroup keeps
  ItemStates,   \* the states of an item in Zabbix: a subset of {"on", "off"}
  Inventories,  \* bound: what Zabbix may hold when a refresh begins
  Memberships,  \* bound: the groups its hosts may be in when groups are asked for
  BatchHosts,   \* collector.metadata_batch_hosts
  WorkerCount,  \* collector.metadata_workers
  MinGap,       \* collector.metadata_min_request_interval, in ticks
  MaxChanges    \* bound: changes in Zabbix during one refresh

\* A MinGap of 0 is no pacing: NewRefresher turns a negative interval into it.
ASSUME RefresherAssumption ==
  /\ Hosts \subseteq Nat /\ IsFiniteSet(Hosts)
  /\ ItemStates \subseteq {"on", "off"}
  /\ Inventories \subseteq [Hosts -> ItemStates \cup {"gone"}]
  /\ Memberships \subseteq [Hosts -> SUBSET Groups]
  /\ BatchHosts \in Nat \ {0} /\ WorkerCount \in Nat \ {0}
  /\ MinGap \in Nat /\ MaxChanges \in Nat
  /\ ByGroup \in BOOLEAN

VARIABLES
  zabbix,     \* what Zabbix holds: [Hosts -> ItemStates \cup {"gone"}]
  changes,    \* changes since the refresh started
  seen,       \* history: every state a host had since the refresh started
  ahead,      \* requestLimiter.next - now, or 0
  phase,      \* where Refresh is
  pause,      \* what is left of Refresh's own wait for the limiter
  groupIDs,   \* the group IDs that GetHosts holds
  members,    \* the groups of each host while it does: [Hosts -> SUBSET Groups]
  listed,     \* history: the hosts that were in one of these groups all the while
  blank,      \* history: host.get had no result, so it stands for no hosts
  hosts,      \* the hosts selected by this refresh
  nextJob,    \* the head of the jobs channel
  worker,     \* the goroutines of getItemBatches
  results,    \* the results channel
  outcome,    \* byBatch and errorsByBatch
  cancelled,  \* workCtx has been cancelled by a failure
  stopped,    \* the pipeline's metadata context has been cancelled
  snapshot    \* what the store publishes

pool == <<nextJob, worker, results, outcome, cancelled>>
world == <<zabbix, changes, seen>>
grouping == <<groupIDs, members, listed>>
selection == <<grouping, blank, hosts>>
vars == <<world, ahead, phase, pause, selection, pool, stopped, snapshot>>

Workers == 1..WorkerCount
Nowhere == [h \in Hosts |-> {}]
NoIP == ""
Loopback == "127.0.0.1"
States == ItemStates \cup {"gone"}
Item == [host : Hosts, state : ItemStates]
Outcome == [is : {"pending", "failed", "items", "twice"}, items : SUBSET Item]
Pending == [is |-> "pending", items |-> {}]
Failed == [is |-> "failed", items |-> {}]
At(pc, batch, wait) == [pc |-> pc, batch |-> batch, wait |-> wait]
Exited == At("exited", 0, 0)

(***************************************************************************)
(* The address of a host.                                                  *)
(***************************************************************************)

\* The address of the first interface that has one and satisfies P.
FirstAddress(h, P(_)) ==
  LET hits == {i \in DOMAIN Interfaces[h] :
                 P(Interfaces[h][i]) /\ Interfaces[h][i].ip # NoIP}
  IN IF hits = {} THEN NoIP
     ELSE Interfaces[h][CHOOSE i \in hits : \A j \in hits : i <= j].ip

\* app.go: the address the filters look at.
selectedHostIP(h) ==
  LET snmpOrMain == FirstAddress(h, LAMBDA i : i.type = "snmp" \/ i.main)
  IN IF snmpOrMain # NoIP THEN snmpOrMain
     ELSE FirstAddress(h, LAMBDA i : TRUE)

Eligible(h) ==
  /\ selectedHostIP(h) \notin {NoIP, Loopback}
  /\ AllowedIPs # {} => selectedHostIP(h) \in AllowedIPs

\* Mutant: hosts that share an address are all dropped.
Selections_Unshared(answer) ==
  {{h \in answer : /\ Eligible(h)
                    /\ \A g \in answer \ {h} : selectedHostIP(g) # selectedHostIP(h)}}

\* The first host of the answer keeps an address; host.get does not order its
\* answer, so any host of the address may be the first.
Selections(answer) ==
  LET eligible == {h \in answer : Eligible(h)}
  IN {s \in SUBSET eligible :
        \A h \in eligible :
          Cardinality({g \in s : selectedHostIP(g) = selectedHostIP(h)}) = 1}

(***************************************************************************)
(* Batches.                                                                *)
(***************************************************************************)

Rank(h, hs) == Cardinality({g \in hs : g <= h})

BatchCount(hs) == (Cardinality(hs) + BatchHosts - 1) \div BatchHosts
Batch(b, hs) ==
  {h \in hs : Rank(h, hs) > (b - 1) * BatchHosts /\ Rank(h, hs) <= b * BatchHosts}
Batches == 1..BatchCount(hosts)

ItemsOf(hs) == {[host |-> h, state |-> zabbix[h]] :
                  h \in {g \in hs : zabbix[g] # "gone"}}

CtxDone == cancelled \/ stopped
Tally(is) == {b \in DOMAIN outcome : outcome[b].is = is}

(***************************************************************************)
(* Initial state and the world around the refresher.                       *)
(***************************************************************************)

Init ==
  /\ zabbix \in Inventories
  /\ changes = 0
  /\ seen = [h \in Hosts |-> {}]
  /\ ahead = 0
  /\ phase = "idle" /\ pause = 0
  /\ groupIDs = {} /\ members = Nowhere /\ listed = {}
  /\ blank = FALSE /\ hosts = {}
  /\ nextJob = 1
  /\ worker = [w \in Workers |-> Exited]
  /\ results = <<>>
  /\ outcome = <<>>
  /\ cancelled = FALSE /\ stopped = FALSE
  /\ snapshot = [hosts |-> {}, items |-> {}]

\* An administrator changes, removes or adds a host while a refresh runs.
Change(h) ==
  /\ phase # "idle" /\ changes < MaxChanges
  /\ \E s \in States \ {zabbix[h]} :
       /\ zabbix' = [zabbix EXCEPT ![h] = s]
       /\ seen' = [seen EXCEPT ![h] = @ \cup {s}]
  /\ changes' = changes + 1
  /\ UNCHANGED <<ahead, phase, pause, selection, pool, stopped, snapshot>>

\* Or moves it to other groups after hostgroup.get and before host.get.
Move(h) ==
  /\ phase = "hosts" /\ ByGroup /\ changes < MaxChanges
  /\ \E gs \in SUBSET Groups \ {members[h]} :
       /\ members' = [members EXCEPT ![h] = gs]
       /\ listed' = IF gs \cap groupIDs = {} THEN listed \ {h} ELSE listed
  /\ changes' = changes + 1
  /\ UNCHANGED <<zabbix, seen, ahead, phase, pause, groupIDs, blank, hosts, pool,
                 stopped, snapshot>>

Tick ==
  /\ ahead > 0
  /\ ahead' = ahead - 1
  /\ pause' = IF pause = 0 THEN 0 ELSE pause - 1
  /\ worker' = [w \in Workers |->
                  [worker[w] EXCEPT !.wait = IF @ = 0 THEN 0 ELSE @ - 1]]
  /\ UNCHANGED <<world, phase, selection, nextJob, results, outcome,
                 cancelled, stopped, snapshot>>

\* Stop cancels the context of the metadata loop.
Stop ==
  /\ ~stopped
  /\ stopped' = TRUE
  /\ UNCHANGED <<world, ahead, phase, pause, selection, pool,
                 snapshot>>

(***************************************************************************)
(* The host request.                                                       *)
(***************************************************************************)

\* The loop's ticker fires: Refresh starts and getHosts reserves its request.
\* What Zabbix may have been changed to since the last refresh is arbitrary.
BeginRefresh ==
  /\ phase = "idle" /\ ~stopped
  /\ zabbix' \in Inventories
  /\ seen' = [h \in Hosts |-> {zabbix'[h]}]
  /\ changes' = 0
  /\ pause' = ahead
  /\ ahead' = ahead + MinGap
  /\ phase' = "pacing"
  /\ UNCHANGED <<selection, pool, stopped, snapshot>>

EndRefresh ==
  /\ phase' = "idle"
  /\ pause' = 0
  /\ groupIDs' = {} /\ members' = Nowhere /\ listed' = {}
  /\ blank' = FALSE /\ hosts' = {}
  /\ nextJob' = 1 /\ results' = <<>> /\ outcome' = <<>> /\ cancelled' = FALSE
  /\ UNCHANGED worker

\* getHosts gives up: the context ended while it waited or asked, or a request
\* failed.
HostsFail ==
  /\ phase \in {"pacing", "groups", "hosts"}
  /\ phase = "pacing" => stopped
  /\ EndRefresh
  /\ UNCHANGED <<world, ahead, stopped, snapshot>>

\* The wait is over: the first request goes out.
AskHosts ==
  /\ phase = "pacing" /\ pause = 0 /\ ~stopped
  /\ phase' = IF ByGroup THEN "groups" ELSE "hosts"
  /\ UNCHANGED <<world, ahead, pause, selection, pool, stopped,
                 snapshot>>

\* With host groups configured hostgroup.get comes first.  It names every kept group
\* that has a host, and any that have none and exist; GetHostGroups takes an answer
\* without a result for no groups.  host.get follows at once.
AskHostsByGroup ==
  /\ phase = "groups"
  /\ \E m \in Memberships, ids \in SUBSET Groups :
       /\ ids = {} \/ \A h \in Hosts : zabbix[h] # "gone" => m[h] \subseteq ids
       /\ members' = m /\ groupIDs' = ids
       /\ listed' = {h \in Hosts : m[h] \cap ids # {}}
  /\ phase' = "hosts"
  /\ UNCHANGED <<world, ahead, pause, blank, hosts, pool, stopped, snapshot>>

\* What host.get tells: all hosts, or those of the groups that were asked for.
HostsTold ==
  {h \in Hosts : /\ zabbix[h] # "gone"
                 /\ ByGroup => members[h] \cap groupIDs # {}}

\* The hosts arrive, are filtered and split, and the workers start: no more of
\* them than there are batches.  GetHostsByGroupIDs takes an answer without a result
\* for no hosts; it asks nothing when there are no group IDs.
StartBatches ==
  /\ phase = "hosts"
  /\ blank' \in {FALSE, ByGroup /\ groupIDs # {}}
  /\ \E s \in Selections(IF blank' THEN {} ELSE HostsTold) :
       /\ hosts' = s
       /\ worker' = [w \in Workers |-> IF w <= BatchCount(s) THEN At("free", 0, 0)
                                       ELSE Exited]
       /\ outcome' = [b \in 1..BatchCount(s) |-> Pending]
  /\ groupIDs' = {} /\ members' = Nowhere
  /\ phase' = "items"
  /\ UNCHANGED <<world, ahead, pause, listed, nextJob, results, cancelled,
                 stopped, snapshot>>

(***************************************************************************)
(* The workers.                                                            *)
(***************************************************************************)

Become(w, pc, batch, wait) == worker' = [worker EXCEPT ![w] = At(pc, batch, wait)]
Send(batch, answer) == results' = Append(results, [batch |-> batch, answer |-> answer])

TakeJob(w) ==
  /\ worker[w].pc = "free"
  /\ nextJob \in Batches /\ ~CtxDone
  /\ Become(w, "checked", nextJob, 0)
  /\ nextJob' = nextJob + 1
  /\ UNCHANGED <<world, ahead, phase, pause, selection, results,
                 outcome, cancelled, stopped, snapshot>>

\* Mutant: a cancelled worker drops its batch without a result.
Forgo_Silently(batch) == UNCHANGED results

\* What a worker does with a batch it does not ask for any more.
Forgo(batch) == Send(batch, Failed)

\* After a failure the remaining batches are only accounted for.
SkipJob(w) ==
  /\ worker[w].pc = "free"
  /\ nextJob \in Batches /\ CtxDone
  /\ Forgo(nextJob)
  /\ nextJob' = nextJob + 1
  /\ UNCHANGED <<world, ahead, phase, pause, selection, worker,
                 outcome, cancelled, stopped, snapshot>>

ExitWorker(w) ==
  /\ worker[w].pc = "free" /\ nextJob \notin Batches
  /\ worker' = [worker EXCEPT ![w] = Exited]
  /\ UNCHANGED <<world, ahead, phase, pause, selection, nextJob,
                 results, outcome, cancelled, stopped, snapshot>>

\* limiter.Wait: the reservation is made whatever becomes of it.
Reserve(w) ==
  /\ worker[w].pc = "checked"
  /\ ahead' = ahead + MinGap
  /\ Become(w, "waiting", worker[w].batch, ahead)
  /\ UNCHANGED <<world, phase, pause, selection, nextJob,
                 results, outcome, cancelled, stopped, snapshot>>

\* Wait returns the context's error, or the request is sent with a context
\* that has ended: nothing reaches Zabbix.
GiveUp(w) ==
  /\ worker[w].pc = "waiting" /\ CtxDone
  /\ Become(w, "failing", worker[w].batch, 0)
  /\ Send(worker[w].batch, Failed)
  /\ UNCHANGED <<world, ahead, phase, pause, selection, nextJob,
                 outcome, cancelled, stopped, snapshot>>

AskItems(w) ==
  /\ worker[w].pc = "waiting" /\ worker[w].wait = 0 /\ ~CtxDone
  /\ Become(w, "asking", worker[w].batch, 0)
  /\ UNCHANGED <<world, ahead, phase, pause, selection, nextJob,
                 results, outcome, cancelled, stopped, snapshot>>

\* An answer: the items of the batch; or with one of them twice; or with an
\* item of a host that was not asked for.
Answer(w, is) ==
  /\ worker[w].pc = "asking"
  /\ is \in {"items", "twice", "stray"}
  /\ Send(worker[w].batch,
          [is |-> is, items |-> ItemsOf(Batch(worker[w].batch, hosts))])
  /\ Become(w, "free", 0, 0)
  /\ UNCHANGED <<world, ahead, phase, pause, selection, nextJob,
                 outcome, cancelled, stopped, snapshot>>

\* An error, a timeout or a cancelled request.
Fail(w) ==
  /\ worker[w].pc = "asking"
  /\ Send(worker[w].batch, Failed)
  /\ Become(w, "failing", worker[w].batch, 0)
  /\ UNCHANGED <<world, ahead, phase, pause, selection, nextJob,
                 outcome, cancelled, stopped, snapshot>>

\* After a failed result is in the channel, its worker cancels the others.
CancelOthers(w) ==
  /\ worker[w].pc = "failing"
  /\ cancelled' = TRUE
  /\ Become(w, "free", 0, 0)
  /\ UNCHANGED <<world, ahead, phase, pause, selection, nextJob,
                 results, outcome, stopped, snapshot>>

(***************************************************************************)
(* Collecting the results.                                                 *)
(***************************************************************************)

\* One result is received and validated.
Collect ==
  /\ phase = "items" /\ results # <<>>
  /\ LET r == Head(results)
         stray == r.answer.is = "stray"
     IN /\ outcome' = [outcome EXCEPT ![r.batch] = IF stray THEN Failed ELSE r.answer]
        /\ cancelled' = (cancelled \/ stray)
  /\ results' = Tail(results)
  /\ UNCHANGED <<world, ahead, phase, pause, selection, nextJob,
                 worker, stopped, snapshot>>

\* Mutant: workers.Wait is missing.
AllJoined_NotAwaited == TRUE

AllJoined == \A w \in Workers : worker[w] = Exited

Complete == Tally("pending") = {} /\ AllJoined

\* Mutant: the refresh fails only when every batch failed.
Refused_IfAll == Tally("failed") # {} /\ Tally("items") = {}

\* A batch failed, or Build finds an item twice.
Refused == Tally("failed") # {} \/ Tally("twice") # {}

Discard ==
  /\ phase = "items" /\ Complete /\ Refused
  /\ EndRefresh
  /\ UNCHANGED <<world, ahead, stopped, snapshot>>

Publish ==
  /\ phase = "items" /\ Complete /\ ~Refused
  /\ snapshot' = [hosts |-> hosts, items |-> UNION {outcome[b].items : b \in Batches}]
  /\ EndRefresh
  /\ UNCHANGED <<world, ahead, stopped>>

WorkerStep(w) ==
  \/ TakeJob(w) \/ SkipJob(w) \/ ExitWorker(w) \/ Reserve(w) \/ GiveUp(w)
  \/ AskItems(w) \/ Fail(w) \/ CancelOthers(w)
  \/ \E is \in {"items", "twice", "stray"} : Answer(w, is)

RefreshStep ==
  \/ HostsFail \/ AskHosts \/ AskHostsByGroup \/ StartBatches
  \/ Collect \/ Discard \/ Publish

Next ==
  \/ BeginRefresh \/ RefreshStep \/ Tick \/ Stop
  \/ \E w \in Workers : WorkerStep(w)
  \/ \E h \in Hosts : Change(h) \/ Move(h)

\* Goroutines run, timers fire, and every request ends within its timeout.
Fairness ==
  /\ WF_vars(RefreshStep) /\ WF_vars(Tick)
  /\ \A w \in Workers : WF_vars(WorkerStep(w))

Spec == Init /\ [][Next]_vars /\ Fairness

(***************************************************************************)
(* Properties.                                                             *)
(***************************************************************************)

\* Every variable has its type, and with it: the batches of a refresh are a
\* partition of its hosts into non-empty sets of at most BatchHosts
\* (splitStrings), and no worker waits, asks or reports when Refresh has returned,
\* so that no late answer or request competes with the next refresh.
TypeOK ==
  /\ zabbix \in [Hosts -> States]
  /\ groupIDs \subseteq Groups /\ members \in [Hosts -> SUBSET Groups]
  /\ listed \subseteq Hosts /\ blank \in BOOLEAN
  /\ seen \in [Hosts -> SUBSET States]
  /\ ahead \in Nat /\ pause \in 0..ahead
  /\ phase \in {"idle", "pacing", "groups", "hosts", "items"}
  /\ hosts \subseteq Hosts
  /\ nextJob \in 1..(Cardinality(Hosts) + 1)
  /\ \A w \in Workers :
       /\ worker[w].pc \in {"free", "checked", "waiting", "asking", "failing", "exited"}
       /\ worker[w].wait \in 0..ahead
       /\ phase # "items" => worker[w] = Exited
  /\ \A b \in DOMAIN outcome :
       /\ outcome[b] \in Outcome
       /\ Cardinality(Batch(b, hosts)) \in 1..BatchHosts
  /\ UNION {Batch(b, hosts) : b \in DOMAIN outcome} \in {hosts, {}}
  /\ cancelled \in BOOLEAN /\ stopped \in BOOLEAN
  /\ snapshot.hosts \subseteq Hosts /\ snapshot.items \subseteq Item

\* Refresh publishes all or nothing (refresher.go:121): a snapshot replaces
\* the last one only when, for each of its hosts, it holds exactly what Zabbix
\* had at some moment of this refresh.  A failed, skipped or cancelled batch
\* never shows up as hosts without items, which would delete their values.
AllOrNothing ==
  [][snapshot' # snapshot =>
       \A h \in snapshot'.hosts :
         LET items == {i \in snapshot'.items : i.host = h}
         IN \/ items = {} /\ "gone" \in seen[h]
            \/ \E s \in seen[h] : items = {[host |-> h, state |-> s]}]_vars

\* No host is lost on the way (GetHosts, splitStrings): the address of an eligible
\* host that Zabbix had all the time - and, with host groups configured, from
\* hostgroup.get to host.get in one of the groups that were named - is still
\* represented after the refresh, by that host or by one that shares the address,
\* provided that host.get had a result.  Not promised, because the code does not keep
\* it: a host that is moved in between to a group created since (app.go:110-120),
\* and the hosts an answer with neither an error nor a result leaves out.
AddressesKept ==
  [][snapshot' # snapshot /\ ~blank =>
       \A h \in Hosts :
         Eligible(h) /\ "gone" \notin seen[h] /\ (ByGroup => h \in listed) =>
           \E g \in snapshot'.hosts : selectedHostIP(g) = selectedHostIP(h)]_vars

\* Every refresh ends, whatever fails and whenever the pipeline stops: each
\* batch is accounted for exactly once, so the collector never waits for a
\* result nobody sends.
RefreshEnds == phase # "idle" ~> phase = "idle"
=============================================================================
