--------------------------- MODULE EspressoRules ---------------------------
(***************************************************************************)
(* The batch rules of op-node/rollup/derive/batches.go that the sequencer  *)
(* and the derivation pipeline share: the L1 origin an Espresso batch must *)
(* have, when it must be empty, and the verdict on a singular batch.       *)
(*                                                                         *)
(* Data.  The HotShot ledger is a sequence of headers; a header is named   *)
(* by its height, and None is Go's nil.  An L1 chain is a sequence of      *)
(* blocks, the block of number n at index n+1; a block's hash is the pair  *)
(* (number, fork) where fork says during which L1 reorg it was produced.   *)
(* The transactions of a batch are the sequence of heights whose namespace *)
(* bundle was appended, a header's field tx saying what its bundle holds.  *)
(***************************************************************************)
EXTENDS Integers, Sequences

CONSTANTS
  BlockTime,            \* rollup.Config.BlockTime
  MaxSequencerDrift,    \* rollup.Config.MaxSequencerDrift
  SeqWindowSize,        \* rollup.Config.SeqWindowSize
  EspressoL1ConfDepth   \* eth.SystemConfig.EspressoL1ConfDepth

ASSUME ConfigAssumption ==
  /\ BlockTime \in Nat \ {0}
  /\ MaxSequencerDrift \in Nat
  /\ SeqWindowSize \in Nat \ {0}
  /\ EspressoL1ConfDepth \in Nat

None == -1

TxKinds == {"none", "user", "unfit"}

Header == [ts : Nat, l1Head : Nat, tx : TxKinds]

L1Block == [time : Nat, fork : Nat, parentFork : Nat]

L2Ref == [id : Nat, time : Nat, origin : Nat, originFork : Nat]

Heights == Nat \cup {None}

Justification ==
  [prev : Heights, blocks : Seq(Nat), next : Heights, blank : BOOLEAN]

(* A batch of a legacy sequencer has Justification == nil. *)
NoJustification ==
  [prev |-> None, blocks |-> << >>, next |-> None, blank |-> FALSE]

HasBlock(l1, n) == n < Len(l1)

BlockAt(l1, n) == l1[n + 1]

(* L1BlockRefByNumber: None when the node does not have the block. *)
L1BlockRefByNumber(l1, n) == IF HasBlock(l1, n) THEN n ELSE None

(***************************************************************************)
(* EspressoL1Origin, as the number of the block, or None when one of the   *)
(* fetches fails.                                                          *)
(***************************************************************************)
LaggedSuggestion(suggested) ==
  IF suggested > EspressoL1ConfDepth THEN suggested - EspressoL1ConfDepth ELSE 0

EspressoL1Origin(l1, parent, suggested) ==
  LET lagged      == LaggedSuggestion(suggested)
      prev        == parent.origin
      windowStart == parent.time + BlockTime
  IN  CASE lagged > prev + 1 ->
             IF ~HasBlock(l1, prev + 1) THEN None
             ELSE IF BlockAt(l1, prev + 1).time <= windowStart
                  THEN prev + 1
                  ELSE L1BlockRefByNumber(l1, prev)
        [] lagged < prev ->
             L1BlockRefByNumber(l1, prev)
        [] OTHER ->
             IF ~HasBlock(l1, lagged) THEN None
             ELSE IF BlockAt(l1, lagged).time + MaxSequencerDrift < windowStart
                  THEN L1BlockRefByNumber(l1, prev + 1)
             ELSE IF BlockAt(l1, lagged).time > windowStart
                  THEN L1BlockRefByNumber(l1, prev)
             ELSE lagged

EspressoBatchMustBeEmpty(originTime, timestamp) ==
  originTime + MaxSequencerDrift < timestamp

(***************************************************************************)
(* L2BatchJustification.First and .Last: None when the result is nil.      *)
(***************************************************************************)
First(jst) ==
  IF jst.prev # None THEN jst.prev
  ELSE IF jst.blocks # << >> THEN jst.blocks[1]
  ELSE jst.next

Last(jst) ==
  IF jst.next # None THEN jst.next
  ELSE IF jst.blocks # << >> THEN jst.blocks[Len(jst.blocks)]
  ELSE jst.prev

Commitments(jst) ==
  (IF jst.prev # None THEN <<jst.prev>> ELSE << >>) \o Append(jst.blocks, jst.next)

(* A faulty variant: waits for one commitment more than it compares. *)
VerifyCommitmentsOffByOne(published, first, comms) ==
  IF published <= first + Len(comms) THEN "error"
  ELSE IF \A i \in 1..Len(comms) : comms[i] = first + i - 1
       THEN "match" ELSE "mismatch"

(***************************************************************************)
(* VerifyCommitments: "error" while the HotShot contract does not hold all *)
(* the commitments asked for, otherwise whether they all match.            *)
(***************************************************************************)
VerifyCommitments(published, first, comms) ==
  IF published < first + Len(comms) THEN "error"
  ELSE IF \A i \in 1..Len(comms) : comms[i] = first + i - 1
       THEN "match" ELSE "mismatch"

(***************************************************************************)
(* checkBookends for either endpoint of the window, the bookends themselves *)
(* chosen by windowEndpoint.Bookends.                                      *)
(***************************************************************************)
BookendsAround(ledger, jst, prev, next, timestamp) ==
  /\ IF prev = None
     THEN /\ First(jst) = 0
          /\ ledger[First(jst) + 1].ts >= timestamp
     ELSE ledger[prev + 1].ts < timestamp
  /\ ledger[next + 1].ts >= timestamp

CheckBookendsStart(ledger, jst, windowStart) ==
  BookendsAround(ledger, jst, jst.prev,
                 IF jst.blocks # << >> THEN jst.blocks[1] ELSE jst.next,
                 windowStart)

CheckBookendsEnd(ledger, jst, windowEnd) ==
  BookendsAround(ledger, jst,
                 IF jst.blocks # << >> THEN jst.blocks[Len(jst.blocks)] ELSE jst.prev,
                 jst.next, windowEnd)

(* A batch holds no transaction when none of its bundles does. *)
NoTransactions(ledger, txs) == \A i \in 1..Len(txs) : ledger[txs[i] + 1].tx = "none"

(***************************************************************************)
(* nmt.ValidateBatchTransactions (external): the transactions are those of *)
(* the justified blocks, in order, and no block has an empty proof.        *)
(***************************************************************************)
ValidateBatchTransactions(jst, txs) ==
  /\ txs = jst.blocks
  /\ jst.blank => jst.blocks = << >>

CheckBatchEspresso(ledger, published, l1, parent, batch) ==
  LET jst         == batch.jst
      windowStart == parent.time + BlockTime
      verified    == VerifyCommitments(published, First(jst), Commitments(jst))
      origin      == EspressoL1Origin(l1, parent, ledger[jst.next + 1].l1Head)
  IN  IF jst = NoJustification THEN "drop"
      ELSE IF verified = "error" THEN "undecided"
      ELSE IF \/ verified = "mismatch"
              \/ ~CheckBookendsStart(ledger, jst, windowStart)
              \/ ~CheckBookendsEnd(ledger, jst, windowStart + BlockTime)
           THEN "drop"
      ELSE IF origin = None THEN "undecided"
      ELSE IF origin # batch.epoch THEN "drop"
      ELSE IF IF EspressoBatchMustBeEmpty(BlockAt(l1, origin).time, batch.ts)
              THEN NoTransactions(ledger, batch.txs)
              ELSE ValidateBatchTransactions(jst, batch.txs)
           THEN "accept" ELSE "drop"

(***************************************************************************)
(* checkSingularBatch.  The pipeline knows the L1 blocks known[1..], the   *)
(* first of them of number epoch; included is the number of the L1 block   *)
(* that carried the batch, espresso the flag of the safe head's system     *)
(* config.                                                                 *)
(***************************************************************************)
CheckSingularBatch(ledger, published, l1, known, epoch, included, espresso, safe, batch) ==
  LET ahead  == batch.epoch - epoch
      origin == known[ahead + 1]
      late   == batch.ts > origin.time + MaxSequencerDrift
  IN  IF known = << >> THEN "undecided"
      ELSE IF batch.ts > safe.time + BlockTime THEN "future"
      ELSE IF \/ batch.ts < safe.time + BlockTime
              \/ batch.parent # safe
              \/ batch.epoch + SeqWindowSize < included
              \/ ahead \notin {0, 1}
           THEN "drop"
      ELSE IF ahead + 1 > Len(known) THEN "undecided"
      ELSE IF \/ batch.epochFork # origin.fork
              \/ batch.ts < origin.time
              \/ late /\ ~NoTransactions(ledger, batch.txs)
           THEN "drop"
      ELSE IF late /\ ahead = 0 /\ Len(known) < 2 THEN "undecided"
      ELSE IF \/ late /\ ahead = 0 /\ ~espresso /\ batch.ts >= known[2].time
              \/ \E i \in 1..Len(batch.txs) : ledger[batch.txs[i] + 1].tx = "unfit"
           THEN "drop"
      ELSE IF espresso THEN CheckBatchEspresso(ledger, published, l1, safe, batch)
      ELSE "accept"
=============================================================================
