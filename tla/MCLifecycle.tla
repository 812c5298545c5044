---------------------------- MODULE MCLifecycle ----------------------------
(* Instances of Lifecycle for TLC: the constants are set in the .cfg files. *)
EXTENDS Lifecycle
=============================================================================
