---------------------------- MODULE MCValueCache ----------------------------
(* Small instances of ValueCache.  One unit of time is 30 seconds.         *)
EXTENDS ValueCache

\* A 30 s item, the same item disabled, and slowed to 60 s.
MCDefinitions ==
    {[delay |-> 1, enabled |-> TRUE,  rev |-> 0],
     [delay |-> 1, enabled |-> FALSE, rev |-> 0],
     [delay |-> 2, enabled |-> TRUE,  rev |-> 0]}

\* Two points in time history points can carry.
MCClocks == {0, 1}
=============================================================================
