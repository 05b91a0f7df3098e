----------------------------- MODULE BatchQueue -----------------------------
(***************************************************************************)
(* The batch queue of op-node (rollup/derive/batch_queue.go): it orders    *)
(* the batches found on L1, checks them by EspressoRules, and makes empty  *)
(* ones when a sequencing window has passed.  With it AdvanceL1Block, the  *)
(* safe head, which a derived batch moves, and the resets of the pipeline. *)
(*                                                                         *)
(* Two nodes read the same L1.  The prompt one sees every commitment at    *)
(* once and runs ahead of everything else: its chain is what there is to   *)
(* derive.  The other one reads as slowly as it likes, may find the        *)
(* HotShot contract behind or silent at any call, and is reset now and     *)
(* then.  L1 is not reorganised.                                           *)
(*                                                                         *)
(* Data.  The blocks of L1 are numbered from 0 and named by their numbers. *)
(* An L2 block is identified by the epochs and transactions up to it.  All *)
(* batches are singular ones, and the system config says Espresso.         *)
(***************************************************************************)
EXTENDS EspressoRules, FiniteSets

LOCAL SX == INSTANCE SequencesExt

CONSTANTS
  Ledger,          \* the HotShot ledger
  L1Times,         \* the times of the L1 blocks; its length bounds L1
  ChannelTimeout,  \* rollup.Config.ChannelTimeout
  MaxBatches,      \* bound: batches on L1
  MaxResets        \* bound: resets for other reasons than the queue's own

ASSUME QueueAssumption ==
  /\ Ledger \in Seq(Header) /\ L1Times \in Seq(Nat) /\ L1Times # << >>
  /\ ChannelTimeout \in Nat \ {0}
  /\ MaxBatches \in Nat /\ MaxResets \in Nat

VARIABLES
  l1,      \* the L1 chain
  posted,  \* posted[n + 1]: the batches the channels give in L1 block n
  node,    \* the two nodes
  resets

vars == <<l1, posted, node, resets>>

L1BlockOf(n) == [time |-> L1Times[n + 1], fork |-> 0, parentFork |-> 0]

Genesis == [id |-> << >>, time |-> L1Times[1], origin |-> 0, originFork |-> 0]

(* A node after a reset to the chain c and the L1 block base. *)
Fresh(c, base) ==
  [chain    |-> c,         \* the safe chain, genesis first
   at       |-> base,      \* prev.Origin()
   read     |-> 0,         \* how many batches of that L1 block prev has given
   origin   |-> base,      \* BatchQueue.origin
   l1Blocks |-> <<base>>,
   batches  |-> << >>,     \* each with the L1 block it was included in
   failed   |-> FALSE]     \* the queue asks for a reset

Init ==
  /\ l1 = <<L1BlockOf(0)>>
  /\ posted = << << >> >>
  /\ node = [n \in {"prompt", "other"} |-> Fresh(<<Genesis>>, 0)]
  /\ resets = 0

-----------------------------------------------------------------------------
(* The stages.  `published' is the number of commitments the HotShot contract gives. *)

SafeHead(q) == q.chain[Len(q.chain)]

BlockOf(b) ==
  [id |-> Append(b.parent.id, <<b.epoch, b.txs>>), time |-> b.ts, origin |-> b.epoch, originFork |-> 0]

CheckBatch(q, b, published) ==
  CheckSingularBatch(Ledger, published, l1, [i \in DOMAIN q.l1Blocks |-> BlockAt(l1, q.l1Blocks[i])],
                     q.l1Blocks[1], b.included, TRUE, SafeHead(q), b.batch)

OriginBehind(q) == q.at < SafeHead(q).origin

(* NextBatch takes over the origin of the stage before. *)
OriginAdvanced(q) ==
  IF q.origin = q.at THEN q
  ELSE [q EXCEPT !.origin = q.at,
                 !.l1Blocks = IF OriginBehind(q) THEN << >> ELSE Append(@, q.at)]

OutOfData(q) == q.read = Len(posted[q.at + 1])

(* prev.NextBatch, and AddBatch unless the origin is behind. *)
Loaded(q, published) ==
  LET b == [batch |-> posted[q.at + 1][q.read + 1], included |-> q.origin]
  IN  IF OutOfData(q) THEN q
      ELSE [q EXCEPT !.read = @ + 1,
                     !.batches = IF OriginBehind(q) \/ CheckBatch(q, b, published) = "drop" THEN @
                                 ELSE Append(@, b)]

(* The batch b becomes the next safe block, unless the engine refuses its payload.  The epoch *)
(* advances in either case (maybeAdvanceEpoch).                                               *)
Applied(q, b) ==
  [q EXCEPT !.l1Blocks = IF b.epoch = q.l1Blocks[1] + 1 THEN Tail(@) ELSE @,
            !.chain = IF b.refused THEN @ ELSE Append(@, BlockOf(b))]

EmptyBatch(q) ==
  [parent |-> SafeHead(q), ts |-> SafeHead(q).time + BlockTime, epoch |-> q.l1Blocks[1],
   epochFork |-> 0, txs |-> << >>, jst |-> NoJustification, refused |-> FALSE]

(* The sequencing window of the current epoch has passed. *)
ForceEmptyBatches(q, outOfData) ==
  LET expiryEpoch == q.l1Blocks[1] + SeqWindowSize
  IN  (expiryEpoch = q.origin /\ outOfData) \/ expiryEpoch < q.origin

FirstOfEpoch(q) == q.l1Blocks[1] = SafeHead(q).origin + 1

(* A faulty variant: leaves the epoch before L2 time has reached the next L1 block's. *)
FillsEpochOnce(q) == FirstOfEpoch(q)

(* A faulty variant: an epoch may stay without a block. *)
FillsEpochInTime(q) == SafeHead(q).time + BlockTime < BlockAt(l1, q.l1Blocks[2]).time

(* There is a block to make in this epoch before the next one. *)
FillsEpoch(q) ==
  \/ SafeHead(q).time + BlockTime < BlockAt(l1, q.l1Blocks[2]).time
  \/ FirstOfEpoch(q)

(* A batch, or io.EOF. *)
Result(q, got) == [q |-> q, got |-> got]

(* deriveNextBatch without an acceptable batch: one of its own, or on to the next epoch. *)
Generated(q, outOfData) ==
  IF ~ForceEmptyBatches(q, outOfData) \/ Len(q.l1Blocks) < 2 THEN Result(q, FALSE)
  ELSE IF FillsEpoch(q) THEN Result(Applied(q, EmptyBatch(q)), TRUE)
  ELSE Result([q EXCEPT !.l1Blocks = Tail(@)], FALSE)

(* A faulty variant: goes on past a batch it is undecided on, and loses it. *)
DecisiveAccepted(v) == {i \in DOMAIN v : v[i] = "accept"}

(* Where the loop over the batches ends: at the first that is acceptable or undecided. *)
Decisive(v) == {i \in DOMAIN v : v[i] \in {"accept", "undecided"}}

Verdicts(q, published) == [i \in DOMAIN q.batches |-> CheckBatch(q, q.batches[i], published)]

(* What the loop keeps of the first n batches: those for a later block. *)
Remaining(q, v, n) ==
  LET kept[i \in 0..n] == IF i = 0 THEN << >>
                          ELSE IF v[i] = "future" THEN Append(kept[i - 1], q.batches[i])
                          ELSE kept[i - 1]
  IN  kept[n]

DeriveNextBatch(q, published, outOfData) ==
  LET v       == Verdicts(q, published)
      stops   == Decisive(v)
      stop    == CHOOSE i \in stops : \A j \in stops : i <= j
      From(n) == SubSeq(q.batches, n, Len(q.batches))
  IN  IF SafeHead(q).origin \notin {q.l1Blocks[1], q.l1Blocks[1] - 1}
      THEN Result([q EXCEPT !.failed = TRUE], TRUE)
      ELSE IF stops = {}
      THEN Generated([q EXCEPT !.batches = Remaining(q, v, Len(v))], outOfData)
      ELSE IF v[stop] = "undecided"
      THEN Result([q EXCEPT !.batches = Remaining(q, v, stop - 1) \o From(stop)], FALSE)
      ELSE Result(Applied([q EXCEPT !.batches = Remaining(q, v, stop - 1) \o From(stop + 1)],
                          q.batches[stop].batch), TRUE)

(* NextBatch, and AdvanceL1Block when it has returned io.EOF. *)
NextBatch(q, published) ==
  LET eof    == OutOfData(q)
      loaded == Loaded(OriginAdvanced(q), published)
      r      == IF OriginBehind(q) THEN Result(loaded, FALSE)
                ELSE DeriveNextBatch(loaded, published, eof)
  IN  IF eof /\ ~r.got /\ HasBlock(l1, q.at + 1)
      THEN [r.q EXCEPT !.at = @ + 1, !.read = 0]
      ELSE r.q

-----------------------------------------------------------------------------
(* The nodes. *)

AllPublished == Len(Ledger)

Settled == NextBatch(node["prompt"], AllPublished) = node["prompt"]

PromptStep ==
  /\ ~Settled
  /\ node' = [node EXCEPT !["prompt"] = NextBatch(@, AllPublished)]
  /\ UNCHANGED <<l1, posted, resets>>

OtherStep(published) ==
  /\ Settled /\ ~node["other"].failed
  /\ node' = [node EXCEPT !["other"] = NextBatch(@, published)]
  /\ UNCHANGED <<l1, posted, resets>>

(* Where EngineQueue.Reset starts the pipeline for a safe head of this origin. *)
Base(origin) == IF origin > ChannelTimeout THEN origin - ChannelTimeout ELSE 0

(* DerivationPipeline.Reset; FindL2Heads has found a safe head no later than the present one. *)
Reset(n) ==
  LET q == node["other"]
      c == SubSeq(q.chain, 1, n)
  IN  /\ Settled
      /\ q.failed \/ resets < MaxResets
      /\ resets' = IF q.failed THEN resets ELSE resets + 1
      /\ node' = [node EXCEPT !["other"] = Fresh(c, Base(c[n].origin))]
      /\ UNCHANGED <<l1, posted>>

-----------------------------------------------------------------------------
(* L1 and what the batchers put there. *)

PostedBatches == UNION {{posted[i][j] : j \in DOMAIN posted[i]} : i \in DOMAIN posted}

(* The blocks a batcher may take for the parent of its next one. *)
Parents == {SafeHead(node["prompt"])} \cup {BlockOf(b) : b \in PostedBatches}

HeightsBefore(t) == {h \in DOMAIN Ledger : Ledger[h].ts < t}

(* The justification of the HotShot blocks lo..hi - 1 with the one before and the one after. *)
Window(lo, hi) ==
  [prev |-> lo - 1, blocks |-> [i \in 1..(hi - lo) |-> lo + i - 1], next |-> hi, blank |-> FALSE]

(* Batches for the window after parent.  A faulty batcher takes the wrong epoch, puts in what the *)
(* engine refuses, or names HotShot blocks that there never are.                                  *)
BatchesFor(parent) ==
  LET start  == parent.time + BlockTime
      lo     == Cardinality(HeightsBefore(start))
      hi     == Cardinality(HeightsBefore(start + BlockTime))
      right  == Window(lo, hi)
      beyond == Window(Len(Ledger), Len(Ledger))
      epochs == {e \in {parent.origin, parent.origin + 1} : HasBlock(l1, e)}
      empty(e) == EspressoBatchMustBeEmpty(BlockAt(l1, e).time, start)
      Of(e, j, r) == [parent |-> parent, ts |-> start, epoch |-> e, epochFork |-> 0,
                      txs |-> IF empty(e) THEN << >> ELSE right.blocks, jst |-> j, refused |-> r]
  IN  UNION {{Of(e, right, FALSE), Of(e, right, TRUE), Of(e, beyond, FALSE)} : e \in epochs}

(* A new L1 block, with the last frame of a channel of one batch or without.  A batch names the *)
(* hash of its epoch, so that block is older.                                                   *)
L1Grow ==
  /\ Settled
  /\ Len(l1) < Len(L1Times)
  /\ l1' = Append(l1, L1BlockOf(Len(l1)))
  /\ \/ posted' = Append(posted, << >>)
     \/ /\ Cardinality({i \in DOMAIN posted : posted[i] # << >>}) < MaxBatches
        /\ \E p \in Parents : \E b \in BatchesFor(p) : posted' = Append(posted, <<b>>)
  /\ UNCHANGED <<node, resets>>

Next ==
  \/ PromptStep
  \/ \E published \in {0, AllPublished} : OtherStep(published)
  \/ \E n \in 1..Len(node["other"].chain) : Reset(n)
  \/ L1Grow

Spec == Init /\ [][Next]_vars

-----------------------------------------------------------------------------
(* What TLC checks. *)

(* However slowly it reads, whichever calls find the HotShot contract behind, and wherever it *)
(* is reset to, a node derives the chain every other node derives from the same L1: never     *)
(* another block, and all of them once nothing is left for it to do.                          *)
SameChain ==
  LET q == node["other"]
      p == node["prompt"]
  IN  Settled => /\ SX!IsPrefix(q.chain, p.chain)
                 /\ NextBatch(q, AllPublished) = q /\ ~q.failed => q.chain = p.chain

(* Every L1 block is the origin of an L2 block before the next one is, and no L2 block is older *)
(* than its origin, also where sequencing windows pass without a batch.                         *)
EpochsFilled ==
  \A n \in DOMAIN node : \A i \in 2..Len(node[n].chain) :
    LET b == node[n].chain[i]
        p == node[n].chain[i - 1]
    IN  b.origin \in {p.origin, p.origin + 1} /\ b.time >= L1Times[b.origin + 1]

(* The HotShot contract never holds the blocks this batch names. *)
NeverVerified(b) == VerifyCommitments(AllPublished, First(b.jst), Commitments(b.jst)) = "error"

(* Without batches, or with bad ones only, the safe chain still stays within a sequencing window *)
(* of the last L1 block: there is nothing left to do only when it does.  One kind of bad batch   *)
(* stops it, and nothing else does: a batch for the next block whose HotShot blocks the contract *)
(* never holds stays undecided (batches.go:149-156), and the queue waits for it instead of       *)
(* making empty batches (batch_queue.go:275-278).                                                *)
DerivationKeepsUp ==
  LET p == node["prompt"]
  IN  Settled => \/ SafeHead(p).origin + SeqWindowSize >= Len(l1) - 1
                 \/ \E i \in DOMAIN p.batches : LET b == p.batches[i].batch
                                                IN  b.parent = SafeHead(p) /\ NeverVerified(b)
=============================================================================
