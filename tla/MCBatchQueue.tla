---------------------------- MODULE MCBatchQueue ----------------------------
(* The instance of BatchQueue that TLC checks. *)
EXTENDS BatchQueue

MCLedger ==
  <<[ts |-> 0, l1Head |-> 0, tx |-> "none"], [ts |-> 2, l1Head |-> 1, tx |-> "user"],
    [ts |-> 4, l1Head |-> 2, tx |-> "user"], [ts |-> 7, l1Head |-> 2, tx |-> "user"],
    [ts |-> 8, l1Head |-> 3, tx |-> "none"], [ts |-> 10, l1Head |-> 4, tx |-> "user"],
    [ts |-> 12, l1Head |-> 4, tx |-> "user"]>>

MCL1Times == <<0, 3, 4, 9, 11>>
=============================================================================
