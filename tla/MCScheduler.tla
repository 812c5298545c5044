---------------------------- MODULE MCScheduler ----------------------------
(* Small instances of Scheduler: two groups of different period.           *)
EXTENDS Scheduler, TLC

CONSTANTS fast, slow

MCPeriod == (fast :> 2) @@ (slow :> 3)
MCOffset == (fast :> 0) @@ (slow :> 2)
=============================================================================
