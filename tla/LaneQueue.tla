----------------------------- MODULE LaneQueue -----------------------------
(***************************************************************************)
(* laneQueue of internal/promwrap/push_worker.go: one bounded queue split  *)
(* into lanes, one consumer per lane.  Each operator below is one method's *)
(* critical section, as a function of the queue.  The notify channels are  *)
(* the Publisher module's, because what they do depends on who waits.      *)
(***************************************************************************)
EXTENDS Sublist

CONSTANTS
    Lanes,     \* one lane per push worker
    Slots,     \* the publish slots
    Capacity   \* exporter.push.queue_capacity, over all lanes

ASSUME QueueAssumption ==
    /\ IsFiniteSet(Lanes) /\ Lanes # {}
    /\ Capacity \in Nat \ {0}

\* newLaneQueue.  Cycle timestamps are positive, so 0 stands for "no cycle yet".
EmptyQueue ==
    [lanes |-> [l \in Lanes |-> <<>>], size |-> 0, closed |-> FALSE,
     latest |-> [s \in Slots |-> 0]]

BatchesIn(lane) == {lane[n] : n \in 1..Len(lane)}

Queued(q) == UNION {BatchesIn(q.lanes[l]) : l \in Lanes}

-----------------------------------------------------------------------------
\* beginLongCycle returns true for the slot's newest cycle only.
IsCurrent(q, slot, cycle) == ~q.closed /\ cycle >= q.latest[slot]

\* Mutant: source batches are evicted like cycle batches.
Superseded_AnyPolicy(q, slot, cycle, b) ==
    b.slot = slot /\ b.cycle < cycle /\ cycle > q.latest[slot]

\* The queued batches a newer cycle of the slot makes pointless.
Superseded(q, slot, cycle, b) ==
    b.policy = "cycle" /\ b.slot = slot /\ b.cycle < cycle /\ cycle > q.latest[slot]

RemovedBatches(q, slot, cycle) ==
    {b \in Queued(q) : Superseded(q, slot, cycle, b)}

SizeWithout(q, removed) == q.size - Cardinality(removed)

beginLongCycle(q, slot, cycle) ==
    LET Kept(l) == {n \in 1..Len(q.lanes[l]) :
                      ~Superseded(q, slot, cycle, q.lanes[l][n])}
    IN [q EXCEPT !.latest[slot] = cycle,
                 !.lanes = [l \in Lanes |-> Sublist(q.lanes[l], Kept(l))],
                 !.size = SizeWithout(q, RemovedBatches(q, slot, cycle))]

\* tryEnqueue.
Admission(q, b) ==
    IF q.closed \/ (b.policy = "cycle" /\ b.cycle < q.latest[b.slot])
    THEN "obsolete"
    ELSE IF q.size >= Capacity THEN "full" ELSE "accepted"

\* Mutant: the newest batch goes first.
Enqueued_First(q, b) ==
    [q EXCEPT !.lanes[b.lane] = <<b>> \o q.lanes[b.lane], !.size = q.size + 1]

Enqueued(q, b) ==
    [q EXCEPT !.lanes[b.lane] = Append(q.lanes[b.lane], b), !.size = q.size + 1]

\* pop, when the lane has a batch.
Popped(q, lane) ==
    [q EXCEPT !.lanes[lane] = Tail(q.lanes[lane]), !.size = q.size - 1]

\* close: what is left belongs to the caller, who releases it.
Closed(q) ==
    [q EXCEPT !.closed = TRUE, !.size = 0, !.lanes = [l \in Lanes |-> <<>>]]
=============================================================================
