-------------------------- MODULE MCTokenManager ---------------------------
(* A small instance of TokenManager: the .cfg sets its constants.             *)
EXTENDS TokenManager
=============================================================================
