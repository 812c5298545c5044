----------------------------- MODULE ExpirySet -----------------------------
(***************************************************************************)
(* What the value cache relies on when it hands its generations to         *)
(* cache.ExpiryRegistrar: a set of entries, from which entries that are    *)
(* due, and only those, are taken in batches; a batch is dealt with before *)
(* the next one is taken.  ExpiryWheel implements it with minute buckets;  *)
(* the variables wheel and expiring of ValueCache are this state.          *)
(***************************************************************************)
EXTENDS Naturals

CONSTANT Entry   \* records with a field expireAt, a time

VARIABLES
    now,
    registered,   \* history: an entry is registered once
    pending,      \* registered and not taken yet
    taken         \* the batch that is being deleted

vars == <<now, registered, pending, taken>>

Init == now = 0 /\ registered = {} /\ pending = {} /\ taken = {}

Tick == now' = now + 1 /\ UNCHANGED <<registered, pending, taken>>

Register(new) ==
    /\ new \cap registered = {}
    /\ registered' = registered \cup new
    /\ pending' = pending \cup new
    /\ UNCHANGED <<now, taken>>

Take(due) ==
    /\ taken = {}
    /\ due \subseteq {x \in pending : x.expireAt <= now}
    /\ pending' = pending \ due
    /\ taken' = due
    /\ UNCHANGED <<now, registered>>

Handle(x) == taken' = taken \ {x} /\ UNCHANGED <<now, registered, pending>>

Next ==
    \/ Tick
    \/ \E new \in SUBSET Entry : Register(new)
    \/ \E due \in SUBSET pending : Take(due)
    \/ \E x \in taken : Handle(x)

Spec == Init /\ [][Next]_vars
=============================================================================
