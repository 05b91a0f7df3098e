---------------------------- MODULE EngineQueue ----------------------------
(***************************************************************************)
(* The engine queue of op-node (rollup/derive/engine_queue.go with         *)
(* engine_update.go and payloads_queue.go), the last stage of the          *)
(* derivation pipeline: it keeps the three L2 heads, tells the execution   *)
(* engine of them, and takes payloads from gossip, attributes from L1, L1  *)
(* finality signals and the sequencer's blocks.  With it the pipeline's    *)
(* Step and Reset, L1Traversal.AdvanceL1Block and sync.FindL2Heads.        *)
(*                                                                         *)
(* Every handler runs on the driver's one goroutine and is one action.     *)
(* What interleaves is outside: L1 grows, reorganises and finalizes, and   *)
(* a call to the engine may fail, or fail after the engine obeyed it.      *)
(*                                                                         *)
(* Data.  An L1 block is the sequence of the fork labels up to it.  There  *)
(* is one L2 block per L1 block: block n has L1 origin n, and its batch is *)
(* in L1 block n + Delay.  An L2 block is the sequence of <<label of the   *)
(* origin, payload>> up to it; derivation gives payload 1.  Engine P2P     *)
(* sync (EngineSync) is off, so engineSyncTarget is the unsafe head.       *)
(***************************************************************************)
EXTENDS Integers, Sequences, SequencesExt, FiniteSets

CONSTANTS
  Nil,
  Delay,             \* L1 blocks between an L2 block's origin and its batch
  SeqWindowSize, ChannelTimeout,  \* rollup.Config
  FinalityLookback, FinalityDelay, \* the constants of engine_queue.go
  MaxPayloads,       \* maxUnsafePayloadsMemory, in payloads
  MaxFinalityLag,    \* how far L1 grows past its finalized block
  MaxL1,             \* bound: length of the L1 chain
  MaxL1Reorgs,       \* bound: L1 reorganisations
  MaxEvents          \* bound: payloads from gossip and the sequencer, and failing engine calls

ASSUME EngineAssumption ==
  /\ Delay \in Nat /\ SeqWindowSize \in Nat /\ ChannelTimeout \in Nat
  /\ FinalityLookback \in Nat \ {0} /\ FinalityDelay \in Nat /\ MaxPayloads \in Nat \ {0}
  /\ MaxFinalityLag \in Nat /\ MaxL1 \in Nat /\ MaxL1Reorgs \in Nat
  /\ MaxEvents \in Nat

VARIABLES
  finalized, safe, unsafe,  \* the heads
  need,       \* needForkchoiceUpdate
  attrs,      \* safeAttributes: [parent, block] or Nil
  building,   \* buildingOnto, buildingSafe and the block built; Nil when buildingID is zero
  payloads,   \* unsafePayloads
  finalityData, finalizedL1, triedFinalizeAt,
  origin,     \* the L1 block the queue has processed
  traversal,  \* the L1 block L1Traversal is at
  resetting,  \* the pipeline is to be reset
  engine,     \* the execution engine's head, safe and finalized blocks
  l1, l1Finalized,  \* the L1 chain, the number of its finalized block
  l1Reorgs, events

heads == <<finalized, safe, unsafe, need>>
work == <<attrs, building, payloads>>
finality == <<finalityData, finalizedL1, triedFinalizeAt>>
progress == <<origin, traversal, resetting>>
l1vars == <<l1, l1Finalized, l1Reorgs>>
vars == <<heads, work, finality, progress, engine, l1vars, events>>

Genesis == << <<1, 1>> >>

(* The L1 origin of an L2 block. *)
OriginOf(b) == [i \in DOMAIN b |-> b[i][1]]

Init ==
  /\ finalized = Genesis /\ safe = Genesis /\ unsafe = Genesis /\ need = TRUE
  /\ attrs = Nil /\ building = Nil /\ payloads = {}
  /\ finalityData = << >> /\ finalizedL1 = 0 /\ triedFinalizeAt = 0
  /\ origin = <<1>> /\ traversal = <<1>> /\ resetting = FALSE
  /\ engine = [head |-> Genesis, safe |-> Genesis, finalized |-> Genesis]
  /\ l1 = <<1>> /\ l1Finalized = 1 /\ l1Reorgs = 0
  /\ events = 0

-----------------------------------------------------------------------------
(* The execution engine (external). *)

Heads(h, s, f) == [head |-> h, safe |-> s, finalized |-> f]
Consistent(fc) == IsPrefix(fc.finalized, fc.safe) /\ IsPrefix(fc.safe, fc.head)

(* engine_forkchoiceUpdated: the heads are taken, refused, or there is no answer. *)
Taken(fc) == Consistent(fc) /\ engine' = fc
Refused(fc) == ~Consistent(fc) /\ engine' = engine
NoAnswer(fc) ==
  /\ events < MaxEvents /\ events' = events + 1
  /\ engine' \in {engine} \cup {f \in {fc} : Consistent(f)}

(* engine_newPayload: the payload is invalid. *)
Invalid == events < MaxEvents /\ events' = events + 1 /\ engine' = engine

-----------------------------------------------------------------------------
(* Finality. *)

(* A faulty variant: whatever is finalized on L1. *)
FinalizableIgnoringL1(fd, n) == {i \in DOMAIN fd : Len(fd[i].l2) > Len(finalized)}

(* tryFinalizeL2: the blocks of the finality data that are derived from finalized L1. *)
Finalizable(fd, n) == {i \in DOMAIN fd : Len(fd[i].l2) > Len(finalized) /\ fd[i].l1 <= n}

TryFinalizeL2(fd, n) ==
  LET S == Finalizable(fd, n) IN
  /\ triedFinalizeAt' = Len(origin')
  /\ IF S = {} THEN UNCHANGED <<finalized, need>>
     ELSE /\ finalized' = fd[CHOOSE i \in S : \A j \in S : j <= i].l2
          /\ need' = TRUE

(* Finalize: finalize at once if the signal is for a block of the finality data.  (What is       *)
(* finalized on L1 is not reorganised, so the queue is on the chain of the signal if it has      *)
(* derived from the block: fd.hash.)                                                             *)
Finalize ==
  /\ l1Finalized >= finalizedL1
  /\ finalizedL1' = l1Finalized
  /\ IF \E i \in DOMAIN finalityData : finalityData[i].hash = SubSeq(l1, 1, l1Finalized)
     THEN UNCHANGED origin /\ TryFinalizeL2(finalityData, finalizedL1')
     ELSE UNCHANGED <<origin, finalized, need, triedFinalizeAt>>
  /\ UNCHANGED <<safe, unsafe, work, finalityData, traversal, resetting, engine, l1vars, events>>

(* A faulty variant: one entry too many. *)
PrunedLate == IF Len(finalityData) > FinalityLookback THEN Tail(finalityData) ELSE finalityData

(* postProcessSafeL2: the safe head s is derived up to the L1 block at. *)
Pruned == IF Len(finalityData) >= FinalityLookback THEN Tail(finalityData) ELSE finalityData

PostProcessSafeL2(s, at) ==
  LET entry == [l2 |-> s, l1 |-> Len(at), hash |-> at] IN
  IF Pruned = << >> \/ Last(Pruned).l1 < Len(at) THEN Append(Pruned, entry)
  ELSE [Pruned EXCEPT ![Len(Pruned)].l2 = s]

-----------------------------------------------------------------------------
(* Step. *)

(* tryUpdateEngine *)
StepForkchoice ==
  LET fc == Heads(unsafe, safe, finalized) IN
  /\ ~resetting /\ need
  /\ \/ Taken(fc) /\ need' = FALSE /\ UNCHANGED <<resetting, events>>
     \/ NoAnswer(fc) /\ UNCHANGED <<need, resetting>>
     \/ Refused(fc) /\ resetting' = TRUE /\ UNCHANGED <<need, events>>
  /\ UNCHANGED <<finalized, safe, unsafe, work, finality, origin, traversal, l1vars>>

(* The payloads Peek may return. *)
Lowest == {p \in payloads : \A q \in payloads : Len(p) <= Len(q)}

Parent(p) == Front(p)
Old(p) == Len(p) <= Len(unsafe)
Fits(p) == ~Old(p) /\ Parent(p) = unsafe

(* tryNextUnsafePayload: an old payload is dropped, one that fits is executed.  (Its branch for a *)
(* refusal is out of reach: the engine has agreed to the heads the payload extends.)             *)
StepUnsafe ==
  /\ ~resetting /\ ~need
  /\ \E p \in Lowest :
       LET fc == Heads(p, safe, finalized) IN
       \/ /\ Old(p)
          /\ payloads' = payloads \ {p}
          /\ UNCHANGED <<unsafe, engine, events>>
       \/ /\ Fits(p)
          /\ \/ Taken(fc) /\ unsafe' = p /\ payloads' = payloads \ {p} /\ UNCHANGED events
             \/ NoAnswer(fc) /\ UNCHANGED <<unsafe, payloads>>
             \/ Invalid /\ payloads' = payloads \ {p} /\ UNCHANGED unsafe
  /\ UNCHANGED <<finalized, safe, need, attrs, building, finality, progress, l1vars>>

(* A faulty variant: a payload that cannot be processed yet keeps Step from the next stage. *)
PastPayloadsWaiting == ~resetting /\ ~need /\ payloads = {} /\ payloads' = {}

(* No payload can be processed: Step goes on, without a payload p that conflicts with the head. *)
PastPayloads ==
  /\ ~resetting /\ ~need
  /\ \/ payloads = {} /\ payloads' = {}
     \/ \E p \in Lowest :
          /\ ~Old(p) /\ ~Fits(p)
          /\ payloads' = IF Len(p) = Len(unsafe) + 1 THEN payloads \ {p} ELSE payloads

(* consolidateNextSafeAttributes: the engine's next block is the one derived. *)
NextInEngine == SubSeq(engine.head, 1, Len(safe) + 1)

StepConsolidate ==
  /\ PastPayloads /\ attrs # Nil /\ Len(safe) < Len(unsafe)
  /\ Len(engine.head) > Len(safe) /\ NextInEngine = attrs.block
  /\ safe' = attrs.block /\ need' = TRUE
  /\ attrs' = Nil
  /\ finalityData' = PostProcessSafeL2(safe', origin)
  /\ UNCHANGED <<finalized, unsafe, building, finalizedL1, triedFinalizeAt, progress, engine, l1vars,
                 events>>

(* The engine lacks the block: reset. *)
StepConsolidateNotFound ==
  /\ PastPayloads /\ attrs # Nil /\ Len(safe) < Len(unsafe)
  /\ Len(engine.head) <= Len(safe)
  /\ resetting' = TRUE
  /\ UNCHANGED <<heads, attrs, building, finality, origin, traversal, engine, l1vars, events>>

Forces ==
  /\ attrs # Nil
  /\ Len(safe) < Len(unsafe) => Len(engine.head) > Len(safe) /\ NextInEngine # attrs.block

(* forceNextSafeAttributes: StartPayload on the safe head and ConfirmPayload. *)
StepForce ==
  LET block == attrs.block IN
  /\ PastPayloads /\ Forces
  /\ Taken(Heads(block, block, finalized))
  /\ safe' = block /\ unsafe' = block
  /\ attrs' = Nil /\ building' = Nil
  /\ finalityData' = PostProcessSafeL2(block, origin)
  /\ UNCHANGED <<finalized, need, finalizedL1, triedFinalizeAt, progress, l1vars, events>>

(* A call of it fails: the first forkchoice update, or one after it, which leaves the payload started *)
(* and the engine on the safe head, or already on the new block.                                      *)
StepForceFails ==
  /\ PastPayloads /\ Forces
  /\ \/ NoAnswer(Heads(safe, safe, finalized)) /\ UNCHANGED building
     \/ /\ events < MaxEvents /\ events' = events + 1
        /\ engine' \in {Heads(safe, safe, finalized), Heads(attrs.block, attrs.block, finalized)}
        /\ building' = [onto |-> safe, safe |-> TRUE, block |-> attrs.block]
  /\ UNCHANGED <<heads, attrs, finality, progress, l1vars>>

(* One of the two updates is answered with an unexpected error code (BlockInsertPrestateErr): reset. *)
StepForceReset ==
  /\ PastPayloads /\ Forces
  /\ events < MaxEvents /\ events' = events + 1
  /\ engine' \in {engine, Heads(safe, safe, finalized)}
  /\ building' = Nil /\ resetting' = TRUE
  /\ UNCHANGED <<heads, attrs, finality, origin, traversal, l1vars>>

(* The payload is refused (BlockInsertPayloadErr): the attributes are dropped. *)
StepForceInvalid ==
  /\ PastPayloads /\ Forces
  /\ events < MaxEvents /\ events' = events + 1
  /\ attrs' = Nil /\ building' = Nil
  /\ engine' = Heads(safe, safe, finalized)
  /\ UNCHANGED <<heads, finality, progress, l1vars>>

(* verifyNewL1Origin: the L1 block known at the number of the unsafe head's origin is another. *)
OriginConflict ==
  LET u == OriginOf(unsafe) IN
  /\ traversal # origin
  /\ \/ Len(traversal) = Len(u) /\ traversal # u
     \/ Len(traversal) = Len(u) + 1 /\ Front(traversal) # u
     \/ Len(traversal) > Len(u) + 1 /\ Len(l1) >= Len(u) /\ SubSeq(l1, 1, Len(u)) # u

(* The origin of the unsafe head cannot be had by number: a temporary error, Step is tried again. *)
OriginUnknown ==
  traversal # origin /\ Len(traversal) > Len(unsafe) + 1 /\ Len(l1) < Len(unsafe)

(* tryFinalizePastL2Blocks goes on to tryFinalizeL2. *)
TriesFinalize ==
  /\ finalizedL1 # 0 /\ finalizedL1 >= Len(traversal)
  /\ triedFinalizeAt = 0 \/ Len(traversal) > triedFinalizeAt + FinalityDelay

OnL1(b) == Len(b) <= Len(l1) /\ SubSeq(l1, 1, Len(b)) = b

(* Step with neither payloads nor attributes: the new origin, and what it finalizes. *)
TrackOrigin ==
  /\ PastPayloads /\ attrs = Nil
  /\ ~OriginConflict /\ ~OriginUnknown
  /\ origin' = traversal
  /\ finalityData' = PostProcessSafeL2(safe, origin')
  /\ IF TriesFinalize /\ OnL1(traversal) THEN TryFinalizeL2(finalityData', finalizedL1)
     ELSE UNCHANGED <<finalized, need, triedFinalizeAt>>
  /\ UNCHANGED <<safe, unsafe, building, finalizedL1, engine, l1vars, events>>

(* NextAttributes has the batch of the next block. *)
BatchRead == Len(traversal) > Len(safe) + Delay

StepAttributes ==
  /\ TrackOrigin
  /\ TriesFinalize => OnL1(traversal)
  /\ BatchRead /\ IsPrefix(OriginOf(safe), traversal)
  /\ attrs' = [parent |-> safe, block |-> Append(safe, <<traversal[Len(safe) + 1], 1>>)]
  /\ UNCHANGED <<traversal, resetting>>

(* NextAttributes needs more of L1: AdvanceL1Block. *)
StepAdvance ==
  /\ TrackOrigin
  /\ TriesFinalize => OnL1(traversal)
  /\ ~BatchRead
  /\ IF Len(l1) <= Len(traversal) THEN UNCHANGED <<traversal, resetting>>
     ELSE IF OnL1(traversal) THEN traversal' = SubSeq(l1, 1, Len(traversal) + 1) /\ UNCHANGED resetting
     ELSE resetting' = TRUE /\ UNCHANGED traversal
  /\ UNCHANGED attrs

(* The queue is not on the finalizing chain, or the batch does not follow the safe head. *)
StepConflict ==
  /\ TrackOrigin
  /\ \/ TriesFinalize /\ ~OnL1(traversal)
     \/ BatchRead /\ ~IsPrefix(OriginOf(safe), traversal)
  /\ resetting' = TRUE
  /\ UNCHANGED <<attrs, traversal>>

StepOriginConflict ==
  /\ PastPayloads /\ attrs = Nil /\ OriginConflict
  /\ resetting' = TRUE
  /\ UNCHANGED <<heads, attrs, building, finality, origin, traversal, engine, l1vars, events>>

-----------------------------------------------------------------------------
(* Reset. *)

(* FindL2Heads on the engine's chain: block n's origin is canonical; L1 does not reach it yet. *)
Canonical(n) == OnL1(SubSeq(OriginOf(engine.head), 1, n))
Ahead(n) == n > Len(l1)

HighestCanonical ==
  CHOOSE n \in DOMAIN engine.head : Canonical(n) /\ \A m \in DOMAIN engine.head : Canonical(m) => m <= n

(* The highest plausible block. *)
ResetUnsafe ==
  IF \A n \in DOMAIN engine.head : Ahead(n) \/ Canonical(n) THEN engine.head
  ELSE SubSeq(engine.head, 1, HighestCanonical)

(* A faulty variant: the search goes on past the finalized block. *)
ResetSafePastFinalized ==
  LET found == {n \in DOMAIN engine.safe : n + SeqWindowSize < HighestCanonical /\ n > 1}
  IN IF found = {} THEN Genesis
     ELSE SubSeq(engine.head, 1, (CHOOSE n \in found : \A m \in found : m <= n) - 1)

(* The parent of the highest safe block that is a sequencing window behind; at least finalized. *)
ResetSafe ==
  LET found == {n \in DOMAIN engine.safe : n + SeqWindowSize < HighestCanonical /\ n > Len(engine.finalized)}
  IN IF found = {} THEN engine.finalized
     ELSE SubSeq(engine.head, 1, (CHOOSE n \in found : \A m \in found : m <= n) - 1)

(* Where channel data is read again from. *)
ResetOrigin(s) ==
  SubSeq(OriginOf(s), 1, IF Len(s) > ChannelTimeout THEN Len(s) - ChannelTimeout ELSE 1)

Reset ==
  /\ resetting
  /\ unsafe' = ResetUnsafe /\ safe' = ResetSafe /\ finalized' = engine.finalized /\ need' = TRUE
  /\ attrs' = Nil /\ building' = Nil
  /\ finalityData' = << >>
  /\ origin' = ResetOrigin(safe') /\ traversal' = origin' /\ resetting' = FALSE
  /\ UNCHANGED <<payloads, finalizedL1, triedFinalizeAt, engine, l1vars, events>>

-----------------------------------------------------------------------------
(* Payloads from gossip and from the sequencer. *)

(* Extensions of the unsafe head by k blocks, with an origin on L1. *)
Extensions(k) ==
  {unsafe \o [i \in 1..k |-> <<l1[Len(unsafe) + i], v>>] : v \in {1, 2}}

Extendable(k) ==
  /\ events < MaxEvents
  /\ Len(unsafe) + k <= Len(l1) /\ OnL1(OriginOf(unsafe))

(* AddUnsafePayload, PayloadsQueue.Push: over the limit the lowest payload goes, perhaps this one. *)
AddUnsafePayload ==
  /\ events' = events + 1
  /\ \E k \in {1, 2} :
       /\ Extendable(k)
       /\ \E p \in Extensions(k) :
            LET all == payloads \cup {p} IN
            IF Cardinality(all) <= MaxPayloads THEN payloads' = all
            ELSE \E q \in {x \in all : \A y \in all : Len(x) <= Len(y)} : payloads' = all \ {q}
  /\ UNCHANGED <<heads, attrs, building, finality, progress, engine, l1vars>>

(* The sequencer's StartPayload on the unsafe head, unless the queue builds a safe block. *)
StartPayload ==
  LET fc == Heads(unsafe, safe, finalized) IN
  /\ ~resetting /\ building = Nil
  /\ Extendable(1)
  /\ \/ /\ Taken(fc) /\ events' = events + 1
        /\ \E p \in Extensions(1) : building' = [onto |-> unsafe, safe |-> FALSE, block |-> p]
     \/ NoAnswer(fc) /\ UNCHANGED building
  /\ UNCHANGED <<heads, attrs, payloads, finality, progress, l1vars>>

(* ConfirmPayload: the block becomes the head, is refused, or there is no answer, after which the *)
(* sequencer tries again (legacy mode) or cancels (Espresso mode).                               *)
ConfirmPayload ==
  LET fc == Heads(building.block, safe, finalized) IN
  /\ ~resetting /\ building # Nil /\ ~building.safe
  /\ \/ Taken(fc) /\ unsafe' = building.block /\ building' = Nil /\ UNCHANGED events
     \/ Refused(fc) /\ building' = Nil /\ UNCHANGED <<unsafe, events>>
     \/ NoAnswer(fc) /\ building' \in {building, Nil} /\ UNCHANGED unsafe
  /\ UNCHANGED <<finalized, safe, need, attrs, payloads, finality, progress, l1vars>>

-----------------------------------------------------------------------------
(* L1 (external). *)

L1Grow ==
  /\ Len(l1) < MaxL1 /\ Len(l1) - l1Finalized < MaxFinalityLag
  /\ l1' = Append(l1, 1)
  /\ UNCHANGED <<heads, work, finality, progress, engine, l1Finalized, l1Reorgs, events>>

L1Finalize ==
  /\ l1Finalized < Len(l1)
  /\ l1Finalized' = l1Finalized + 1
  /\ UNCHANGED <<heads, work, finality, progress, engine, l1, l1Reorgs, events>>

L1Reorg ==
  /\ l1Reorgs < MaxL1Reorgs /\ l1Reorgs' = l1Reorgs + 1
  /\ \E n \in l1Finalized..Len(l1) - 1 : l1' = Append(SubSeq(l1, 1, n), l1Reorgs + 2)
  /\ UNCHANGED <<heads, work, finality, progress, engine, l1Finalized, events>>

Step ==
  \/ StepForkchoice \/ StepUnsafe
  \/ StepConsolidate \/ StepConsolidateNotFound
  \/ StepForce \/ StepForceFails \/ StepForceReset \/ StepForceInvalid
  \/ StepAttributes \/ StepAdvance \/ StepConflict \/ StepOriginConflict
  \/ Reset

Next ==
  \/ Step \/ Finalize
  \/ AddUnsafePayload \/ StartPayload \/ ConfirmPayload
  \/ L1Grow \/ L1Finalize \/ L1Reorg

Spec == Init /\ [][Next]_vars

(* The driver steps the pipeline as long as it makes progress; L1 goes on. *)
FairSpec == Spec /\ WF_vars(Step) /\ WF_vars(L1Grow) /\ WF_vars(L1Finalize)

-----------------------------------------------------------------------------
(* Types and limits; and queued attributes are always for the safe head's child, so the branches *)
(* of tryNextSafeAttributes for stale attributes are for states the queue never reaches.         *)
TypeOK ==
  /\ Consistent(engine) /\ need \in BOOLEAN /\ resetting \in BOOLEAN
  /\ Len(finalityData) <= FinalityLookback /\ Cardinality(payloads) <= MaxPayloads
  /\ attrs # Nil => attrs.parent = safe

(* What the engine queue promises of its heads. *)
Promised == INSTANCE EngineHeads WITH settled <- ~need

(* The engine queue implements EngineHeads. *)
HeadsAsPromised == Promised!Spec

(* L1 finalizes in time: FindL2Heads never gives as safe a block whose batch is in an L1 block that *)
(* is not final.                                                                                 *)
FinalityInTime == MaxFinalityLag + Delay <= SeqWindowSize + 2

(* A finalized L2 block "is known to be fully derived from finalized L1 block data" (start.go):   *)
(* the L1 block with its batch is finalized, whatever resets came before (postProcessSafeL2).    *)
(* It needs FinalityInTime: a reset's safe head is entered as derived from the L1 block derivation *)
(* starts again at.                                                                              *)
FinalizedIsDerived ==
  Len(finalized) > 1 => Len(finalized) + Delay <= l1Finalized /\ OnL1(OriginOf(finalized))

(* A reorganisation of L1 that is seen with the next L1 block only. *)
Unseen == Len(l1) <= Len(traversal) /\ ~OnL1(traversal)

(* All batches on L1 become safe blocks, whatever gossip and the sequencer put in the way, calls *)
(* fail and heads are given up: no reset, refused payload or waiting payload blocks derivation.  *)
SafeCatchesUp == <>[](Unseen \/ (Len(safe) + Delay >= Len(l1) /\ IsPrefix(OriginOf(safe), l1)))
=============================================================================
