-------------------------- MODULE MCDisputeGame ---------------------------
(* Small instances of DisputeGame for TLC. *)
EXTENDS DisputeGame
=============================================================================
