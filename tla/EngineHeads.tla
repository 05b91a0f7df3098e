---------------------------- MODULE EngineHeads ----------------------------
(***************************************************************************)
(* What the engine queue promises of the three L2 heads a rollup node      *)
(* reports (eth.SyncStatus: FinalizedL2, SafeL2, UnsafeL2).  A block is    *)
(* the sequence of its ancestors' payloads and its own, so an ancestor is  *)
(* a prefix.  Abstract specification; EngineQueue implements it.           *)
(***************************************************************************)
EXTENDS Naturals, Sequences, SequencesExt

CONSTANT Genesis  \* the L2 genesis block

VARIABLES
  finalized, safe, unsafe,
  settled,   \* the execution engine has agreed to the three heads
  resetting  \* the heads are to be found again from what the engine has

vars == <<finalized, safe, unsafe, settled, resetting>>

Descends(b, a) == IsPrefix(a, b)
Child(b, a) == Descends(b, a) /\ Len(b) = Len(a) + 1

Init ==
  /\ finalized = Genesis /\ safe = Genesis /\ unsafe = Genesis
  /\ settled = FALSE /\ resetting = FALSE

(* The unsafe head moves to another block on top of the safe head. *)
MoveUnsafe ==
  /\ ~resetting
  /\ Descends(unsafe', safe)
  /\ UNCHANGED <<finalized, safe, settled, resetting>>

(* The safe head takes the next block: one of the unsafe chain, or one that replaces it. *)
AdvanceSafe ==
  /\ settled /\ ~resetting
  /\ Child(safe', safe)
  /\ \/ unsafe' = unsafe /\ Len(safe') <= Len(unsafe) /\ settled' = FALSE
     \/ unsafe' = safe' /\ settled' = TRUE
  /\ UNCHANGED <<finalized, resetting>>

(* The finalized head moves forward, never past the safe head. *)
AdvanceFinalized ==
  /\ Descends(finalized', finalized) /\ Descends(safe, finalized')
  /\ settled' = FALSE
  /\ resetting => resetting'
  /\ UNCHANGED <<safe, unsafe>>

(* The engine agrees, which it does to heads that are one chain only. *)
Settle ==
  /\ Descends(safe, finalized) /\ Descends(unsafe, safe)
  /\ settled' = TRUE
  /\ UNCHANGED <<finalized, safe, unsafe, resetting>>

(* An inconsistency is found. *)
Break ==
  /\ resetting' = TRUE
  /\ UNCHANGED <<finalized, safe, unsafe, settled>>

(* Start over from heads of one chain.  Of the finalized blocks only those are given up that the *)
(* engine was never told of.                                                                     *)
Reset ==
  /\ resetting
  /\ Descends(unsafe', safe') /\ Descends(safe', finalized') /\ Descends(finalized, finalized')
  /\ settled => finalized' = finalized
  /\ settled' = FALSE /\ resetting' = FALSE

Next == MoveUnsafe \/ AdvanceSafe \/ AdvanceFinalized \/ Settle \/ Break \/ Reset

Spec == Init /\ [][Next]_vars
=============================================================================
