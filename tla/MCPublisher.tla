---------------------------- MODULE MCPublisher ----------------------------
(* Small instances of Publisher: a source item, an item that is redefined  *)
(* between the policies, and hosts.                                        *)
EXTENDS Publisher, TLC

CONSTANTS source, cycle, host, otherHost, l1, l2, s1, s2

\* The instance about items: two slots, one lane, no hosts.
MCItemPolicies == (source :> {"source"}) @@ (cycle :> {"cycle", "source"})
MCItemLanes == [x \in {source, cycle} |-> l1]
MCItemSlots == (source :> s2) @@ (cycle :> s1)
MCNoHosts == <<>>

\* The instance about one page that fills several batches: a source item and two
\* hosts share a slot and a lane.
MCTwoHosts == <<host, otherHost>>
MCPageLanes == [x \in {source, host, otherHost} |-> l1]
MCPageSlots == [x \in {source, host, otherHost} |-> s1]

\* The instance that only ever sees an endpoint that answers 2xx.
MCSourcePolicies == source :> {"source"}
MCSourceLanes == source :> l1
MCSourceSlots == source :> s1

MCAllOutcomes == AllOutcomes
MCLossy == {"delivered", "lost", "permanent"}
MCDelivered == {"delivered"}
=============================================================================
