--------------------------- MODULE MCEngineQueue ----------------------------
(* Small instances of EngineQueue for TLC. *)
EXTENDS EngineQueue
=============================================================================
