------------------------- MODULE MCBatchSubmitter -------------------------
(* A small instance of BatchSubmitter for TLC. *)
EXTENDS BatchSubmitter
=============================================================================
