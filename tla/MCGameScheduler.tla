-------------------------- MODULE MCGameScheduler ---------------------------
(* Instances of GameScheduler for TLC. *)
EXTENDS GameScheduler
=============================================================================
