----------------------------- MODULE ValueState -----------------------------
(***************************************************************************)
(* The time arithmetic of internal/cache/value_state.go: what the cache     *)
(* derives from an item's configured delay and from the source clock of a  *)
(* history point.  Durations are natural numbers in a unit of the reader's *)
(* choice (the configurations use one unit = 30 seconds), so the three     *)
(* durations the code fixes are parameters here:                           *)
(*                                                                         *)
(*    LongCycleThreshold   one minute                                      *)
(*    MinShortTTL          ninety seconds                                  *)
(*    MinGrace             thirty seconds                                  *)
(*                                                                         *)
(* A source timestamp (clock, ns) is one number: the code orders points    *)
(* lexicographically by clock and ns, and nothing else looks at ns.        *)
(***************************************************************************)
EXTENDS Integers

CONSTANTS LongCycleThreshold, MinShortTTL, MinGrace

ASSUME DurationAssumption ==
    /\ LongCycleThreshold \in Nat
    /\ MinShortTTL \in Nat \ {0}
    /\ MinGrace \in Nat \ {0}

AtLeast(x, least) == IF x < least THEN least ELSE x

Policies == {"source", "cycle"}

PublishPolicyForDelay(delay) ==
    IF delay > LongCycleThreshold THEN "cycle" ELSE "source"

\* delay / 5, never less than thirty seconds.
Grace(delay) == AtLeast(delay \div 5, MinGrace)

\* The hard TTL, a function of the source timestamp and the delay alone.
ValueExpireAt(clock, delay) ==
    IF PublishPolicyForDelay(delay) = "source"
    THEN clock + AtLeast(2 * delay, MinShortTTL)
    ELSE clock + 2 * delay + Grace(delay)

\* A miss may invalidate a value only after this time.
missInvalidAfter(clock, delay) == clock + delay + Grace(delay)

sourceIsNewer(clock, current) == clock > current.clock
=============================================================================
