# TLA+ model of op-espresso-integration

This directory holds a formal model of the parts of the OP stack, as adapted
for the Espresso sequencing network, that decide which L2 blocks exist, how
they reach the L1 and how they are read back and disputed: the Espresso-mode
sequencer and the derivation rules that judge its batches; the batcher with its
loop, its channel manager and the transaction manager it sends with; the
derivation pipeline's channel bank, batch queue and engine queue; the
challenger's scheduler, and its solver playing the dispute game contract. The
modules are checked by TLC on small instances; most safety properties, and the
refinement, are proved by TLAPS for every value of the constants (section 4).

All paths are relative to the repository root; `src/` stands for it in
`PROJECT.json`, which lists, for every definition, the source lines it models.

## 1. The system

```
  HotShot (Espresso)            L1 chain                 L2 execution engine
      | headers, bundles          |  blocks, deposits            ^
      v                           v                              | attributes, forkchoice
  +-----------------------------------------------------------+  |
  | op-node                                                   |--+
  |  driver loop -- sequencer (Espresso | legacy mode)        |
  |      |                                                    |
  |      +-- derivation: L1 traversal > retrieval > frame     |
  |          queue > channel bank > channel reader > batch    |
  |          queue (batch rules) > attributes > engine queue  |
  |  p2p gossip, alt-sync                                     |
  +-----------------------------------------------------------+
      | unsafe blocks (RPC)             ^ frames in L1 transactions
      v                                 |
  op-batcher: driver loop > channel manager > tx queue > tx manager
  op-proposer, op-challenger, indexer: readers of L2/L1 that post or index
```

### Inventory

| Component | State | Operations | What is hard | What makes it correct |
|---|---|---|---|---|
| Batch rules (`op-node/rollup/derive/batches.go`, `op-service/eth/types.go`) | none (pure, reads L1 and HotShot contract) | `EspressoL1Origin`, `EspressoBatchMustBeEmpty`, `CheckBatchEspresso`, `checkSingularBatch`, `checkSpanBatch` | four interacting origin constraints; missing data is "undecided", not "drop" | sequencer and pipeline agree on every batch |
| Espresso sequencer (`op-node/rollup/driver/sequencer.go`) | `espressoBatch` (parent, window, justification, transactions), mode, next action time | start, update, poll, seal, cancel | every call may fail half way; HotShot, L1 and head move in between; HotShot timestamps may decrease | sealed batches are accepted by derivation; no HotShot block skipped or repeated; progress |
| Legacy sequencer, mode detection, origin selection (`sequencer.go`, `origin_selector.go`) | engine's building payload, mode | start, complete, cancel, detect | mode may be stale; L1 origin race | a block never builds on an orphaned origin |
| Channel manager, channel, channel builder (`op-batcher/batcher`) | block queue, tip, channels with frames and pending/confirmed transactions, queue of channels | `AddL2Block`, `TxData`, `TxConfirmed`, `TxFailed`, `Close`, `Clear` | receipts in any order, after removal, after close; timeouts of several kinds | no frame lost or sent twice at once; no block lost; the drain can finish |
| Batch submitter loop (`op-batcher/batcher/driver.go`) | `lastStoredBlock`, `lastL1Tip`, running flag | load blocks, publish, handle receipt, stop | L2 reorg during publication, shutdown with transactions in flight | the L1 gets every L2 block, in order; stop ends |
| Transaction queue and manager (`op-service/txmgr`) | nonce, pending group, per-send state | `Send`, resubmission, fee bumps, cancellation | mined although cancelled; nonce reset | each send ends in one receipt or one error |
| Frame queue, channel bank, channel reader (`op-node/rollup/derive`) | frames, channels in FIFO order, sizes | ingest, prune, read, reset | size accounting, timeouts, duplicates, frames out of order | same channels from the same L1, in order of first frame |
| Batch queue (`batch_queue.go`) | `l1Blocks`, batches, `nextSpan` | add, derive next, reset | undecided Espresso batches, window expiry, future batches | safe chain is a function of the L1 |
| Attributes builder and queue (`attributes.go`, `attributes_queue.go`) | one batch | prepare, next | origin changes under the batch | attributes match parent and origin |
| Engine queue (`engine_queue.go`, `engine_update.go`, `payloads_queue.go`) | unsafe/safe/finalized heads, building job, finality data, unsafe payloads | step, force/consolidate, insert unsafe, finalize, reset | bounded finality memory, memory-limited payload queue, conflict of safe and unsafe building | finalized <= safe <= unsafe, safe only from L1 data |
| Pipeline reset, L1 traversal and retrieval (`pipeline.go`, `l1_traversal.go`) | per-stage origin, resetting index | step, reset | stages reset one at a time with different origins | every stage restarts from a consistent point |
| Driver loop (`driver/state.go`) | step backoff, sequencer timer, queues | events | starvation, reset in the middle of sequencing | progress after every error |
| Sync start (`rollup/sync/start.go`) | none (walks back) | `FindL2Heads` | L1 and L2 walked back together | heads on the canonical L1 |
| P2P gossip and alt-sync (`op-node/p2p`) | quarantine, in-flight requests | request, receive, promote | out of order and untrusted results | only linked payloads are promoted |
| Game scheduler (`op-challenger/game`) | state per game, bounded job and result queues, data directories | schedule, enqueue, play, process result, close | two queues filled from both ends, games leaving and returning, players that cannot be created | no game played twice at once, no file of a live game deleted, no mutual wait |
| Fault game (`op-challenger/game/fault`, `contracts-bedrock/src/dispute`) | claims, subgames, calculated answers | act, move, step, resolve | answers from a stale list, others moving in between, positions in a binary tree | the honest side wins, every game ends |
| Proposer, indexer, cannon, other contracts, service scaffolding | see `PROJECT.json` | | | |

`PROJECT.json` lists the components with what is modelled of each, and, under
`hazards`, the places where the code is hard to test, with the properties that
cover them; two (`sequencer.go:178` and `txmgr.go:474`) have no property, and a
note that says why.

## 2. Modules

| Module | Models | Kind |
|---|---|---|
| `EspressoRules` | the batch rules shared by sequencer and pipeline | pure operators |
| `EspressoSequencer` | the Espresso mode of `sequencer.go`, cut at its external calls, with HotShot, the L1 and derivation's head changes as its surroundings | state machine |
| `EspressoSequencerProofs` | type correctness, the blocks of a window, hand-over between windows; sequencer and batch rules agree on what is sealed | proofs |
| `ChannelManager` | `channel_manager.go`, `channel.go`, `channel_builder.go` | state machine |
| `ChannelManagerProofs` | type correctness, frames, blocks, drain, submitted channels kept by `Close` | proofs |
| `ChannelBank` | `frame_queue.go`, `channel_bank.go`, `channel.go` of `op-node/rollup/derive` | state machine |
| `ChannelBankProofs` | type correctness, whole channels, timed out channels, sizes | proofs |
| `ChannelBankReplay` | a bank rebuilt after `EngineQueue.Reset` beside one that was never reset, over `ChannelBank` | composition |
| `BatchQueue` | `batch_queue.go` over `EspressoRules`, two nodes reading one L1 | state machine, composition |
| `BatchQueueProofs` | filled epochs, derivation that keeps up with L1 | proofs |
| `EngineHeads` | what the engine queue promises of the three heads | abstract specification |
| `EngineQueue` | `engine_queue.go`, `engine_update.go`, `payloads_queue.go`, `FindL2Heads`; implements `EngineHeads` | state machine |
| `EngineQueueProofs` | type correctness, finality, the refinement of `EngineHeads` | proofs |
| `BatchSubmitter` | the driver loop of `op-batcher`, its publisher and what is in flight | state machine |
| `BatchSubmitterProofs` | drained transactions, covered blocks | proofs |
| `TxManager` | `op-service/txmgr` with a transaction pool and L1 | state machine |
| `TxManagerProofs` | type correctness, receipts, nonces, fee bumps | proofs |
| `GameScheduler` | monitor, coordinator and workers of `op-challenger/game` | state machine |
| `DisputeGame` | `FaultDisputeGame.sol` and `LibPosition.sol` with `op-challenger/game/fault` as one player | composition |
| `ChallengerProofs` | the honest side wins `DisputeGame` if it is in time and nothing is resolved early; one job per game and kept files in `GameScheduler`; extends both | proofs |
| `MC...` | the instance of each of these that TLC checks | MC |

### EspressoRules and EspressoSequencer

A HotShot header is named by its height in `ledger` and an L1 block by its
number and the reorg (`fork`) that produced it, which together stand for its
hash. The transactions of a batch are the heights whose namespace bundle was
appended; a header says whether its bundle is empty, holds ordinary
transactions, or holds one that derivation refuses in any batch (`"unfit"`:
empty bytes or a deposit).

`RunNextSequencerAction` runs inside the driver's event loop, so the L2 head
moves only between two runs; HotShot and the L1 move at any time. A run is
therefore split at its external calls, `pc` naming the call it is at:

| Action | Code |
|---|---|
| `StartBuildingEspressoBatch`, `StartFails` | reorg check of `buildEspressoBatch`, `startBuildingEspressoBatch` with the reply of `FetchHeadersForWindow` |
| `AppendHeader`, `InconsistentHeader`, `FinishUpdate` | the loop of `updateEspressoBatch` and its end |
| `FetchRemaining`, `Panic`, `Complete` | `tryToSealEspressoBatch`: poll, nil `Last()`, already complete |
| `ChooseOrigin` | `sealEspressoBatch` up to `EspressoL1Origin` and the emptying of the batch |
| `PreparePayloadAttributes`, `PrepareNeedsReset` | the origin checks of `attributes.go` |
| `InsertPayload` | `StartPayload` and `ConfirmPayload` succeed |
| `CallFails` | the call the run is at returns an error |
| `CancelBuildingBlock`, `Restart` | `StopSequencer`; a process restart |
| `HeadReset`, `DerivedBlock`, `HotShotDecides`, `L1Grows`, `L1Reorg` | surroundings |

The query service is external. It answers with the headers it has, as its mock
in `sequencer_test.go` does, or with a window running past its end, which
`updateEspressoBatch` treats as inconsistent data.

Abstractions: the fetches of one `EspressoL1Origin` call read one L1 view; a
restart keeps the engine's head; `nextAction` (the delay before a retry) is
left out, as a retry may come at any time.

### ChannelManager

Every operation holds the manager's mutex, so each is one action; receipts
arrive in any order and as late as they like. `channels` lists every channel
ever created, its index standing for the random ID. What compression decides
(how many blocks fit, when a channel is full, how many frames come out) is
nondeterministic within what the code enforces: the first block fits unless it is
`Oversized` (`ErrTooManyRLPBytes`, which makes the channel full without a block),
a block left over means the compressor is full, a full channel has at least one
more frame. Blocks convert without error. `Close` ranges over the slice that
`removePendingChannel` shifts in place, and so skips channels; `CloseLoop`
executes that loop step by step.

| Action | Code |
|---|---|
| `AddL2Block` | `AddL2Block`; `ErrReorg` changes nothing |
| `TxDataPending` | `TxData` when a queued channel has a frame |
| `TxDataBuild` | `TxData` otherwise: `ensureChannelWithSpace`, `processBlocks`, `registerL1Block`, `outputFrames`, `nextTxData` |
| `TxConfirmed`, `TxFailed` | the same, with `channel.TxConfirmed`/`TxFailed` and `removePendingChannel` |
| `Close`, `Clear` | the same |
| `L1Advances` | the L1 (external) |

Abstractions: `append(blocks, s.blocks...)` in `TxConfirmed` may write into the
array of a channel that was put back; the content of a removed channel's block
slice is not followed after that.

### ChannelBank and ChannelBankReplay

The stages are pulled by one goroutine, so a call of `NextData` is one action;
an L1 block is left only once `NextData` has nothing more to give. A frame is
its channel, number, last flag and size. The map of a channel's inputs is the
set of its frames. L1 transactions hold any frames at all; one that does not
parse changes nothing and is left out.

| Action | Code |
|---|---|
| `ReadTimedOut` | `Read` drops the first channel, timed out |
| `ReadChannel` | `Read` gives the first channel (before Canyon) or the first that is ready (after) |
| `NextFrame` | `FrameQueue.NextFrame` and `IngestFrame`, with `AddFrame` and `prune` |
| `AdvanceL1Block`, `Reset` | the L1 traversal moves on; the stages are reset |

`ChannelBankReplay` reads one L1 with two banks: one of a pipeline running
since genesis, one that starts empty at the base `EngineQueue.Reset` computes
from the safe head's L1 origin. `outputs` and `reoutputs` are what they give,
of which `BatchQueue.NextBatch` takes what comes from the safe head's origin on
(`Taken`). The L1 holds what a batcher posts, frames `0..lastOf[id]` of each
channel in any order; `RepeatedFrames` says whether one may be there twice, as
when a transaction is mined although its send was reported as failed.

### BatchQueue

`NextBatch(q, published)` is one call of `BatchQueue.NextBatch` on the queue
`q`, with `AdvanceL1Block` when it ends in `io.EOF` and the earlier stages have
nothing left. A derived batch becomes the safe head at once, unless its payload
is refused (`refused`), in which case the epoch advances all the same
(`maybeAdvanceEpoch` runs before the engine is asked).

Two nodes read the same L1. The prompt one sees every HotShot commitment at
once and steps ahead of everything else, so its chain is what there is to
derive. The other one reads as slowly as it likes, finds the HotShot contract
empty at any call (`OtherStep(0)`, which makes batches undecided), and is reset
at any time to a safe head at or before its own (`Reset`), with the base
`EngineQueue.Reset` computes for it.

| Action | Code |
|---|---|
| `PromptStep`, `OtherStep` | `DerivationPipeline.Step`: `NextBatch`, `AddBatch`, `deriveNextBatch`, `maybeAdvanceEpoch` |
| `Reset` | `BatchQueue.Reset` with the base of `EngineQueue.Reset` |
| `L1Grow` | a new L1 block, with a batch for any known parent or without; the batch has the right or the wrong epoch, a payload the engine takes or refuses, or names HotShot heights the contract never holds |

Abstractions: all batches are singular and the system config is Espresso's; L1
is not reorganised; a node at the tip of L1 steps on, where the driver waits for
its next event.

### EngineQueue and EngineHeads

All handlers run on the driver's goroutine, so each is one action; the outcome
of an engine call is chosen in it: taken, refused for heads that are no chain,
or without an answer, obeyed or not (`NoAnswer`). An L2 block is the sequence of
its ancestors' `<<label of the L1 origin, payload>>`, so that an ancestor is a
prefix; there is one L2 block per L1 block, and the batch of block `n` is in L1
block `n + Delay`.

| Action | Code |
|---|---|
| `StepForkchoice` | `tryUpdateEngine` |
| `StepUnsafe` | `tryNextUnsafePayload`; what it does with a payload that does not fit is part of `PastPayloads` in the actions below |
| `StepConsolidate`, `StepConsolidateNotFound` | `consolidateNextSafeAttributes` |
| `StepForce`, `StepForceFails`, `StepForceReset`, `StepForceInvalid` | `forceNextSafeAttributes` with `StartPayload` and `ConfirmPayload`, each of which can fail after the engine obeyed; an unexpected error code asks for a reset |
| `StepAttributes`, `StepAdvance`, `StepConflict`, `StepOriginConflict` | the rest of `Step`: `verifyNewL1Origin`, `postProcessSafeL2`, `tryFinalizePastL2Blocks`, `NextAttributes`, `AdvanceL1Block` |
| `Finalize` | `Finalize` |
| `Reset` | `Reset` with `FindL2Heads`, stated by what it finds |
| `AddUnsafePayload` | the same with `PayloadsQueue.Push` |
| `StartPayload`, `ConfirmPayload` | the sequencer's calls, with `CancelPayload` |
| `L1Grow`, `L1Finalize`, `L1Reorg` | L1 (external) |

`EngineHeads` is the promise: finalized, safe and unsafe heads that move by
single kinds of steps; only consistent heads are ever agreed with the engine;
the safe head grows block by block and is given up only by a reset; the
finalized head grows along the safe chain, and a reset gives up only a finality
the engine was never told of. `Promised == INSTANCE EngineHeads WITH settled <-
~need` is the refinement mapping.

Abstractions: `EngineSync` is off; the limits and error returns of the walk in
`FindL2Heads` (`MaxReorgSeqWindows`, `SkipSyncStartCheck`) are left out; the
stale hash `PayloadsQueue` keeps of a payload it drops in `Push` is left out.

### BatchSubmitter

The loop, the publisher goroutine of `publishStateToL1`, the calls of start and
stop, and the transactions in flight interleave. The channel manager is
abstracted to the blocks it holds that no transaction carries: those still to be
added to a channel, those in the open channel (`open`) and those with frames to
send (`ready`); `ChannelManager` is its own module. Frames that an open channel
has ahead of its end carry no whole block and are left out. Transactions confirm,
confirm too late for their channel, or fail, mined or not, as `TxManager` allows.
The error of `IntrinsicGas` (`driver.go:343-347`), which only an overflow of
`uint64` gives, is left out.

| Action | Code |
|---|---|
| `StartBatchSubmitting`, `StopBatchSubmitting`, `StopCtxDone`, `StopReturns` | the same; the two contexts of a stop |
| `Tick`, `TickFails` | the ticker case of `loop`, `calculateL2BlockRangeToStore` |
| `LoadBlock`, `LoadReorg`, `LoadFails` | `loadBlocksIntoState`, `loadBlockIntoState`, `ErrReorg` in `loop` |
| `Shutdown`, `PublishReturns` | the shutdown case; the end of `publishStateToL1` |
| `PublishFrames`, `PublishFull`, `PublishBuffers` | `publishTxToL1` with `TxData`: frames are there; blocks to add fill the channel; blocks to add do not fill it, `io.EOF` |
| `QueueSend`, `PublishEnds`, `WaitEnds` | `queue.Send` once there is a free slot; nothing to send; `queue.Wait` |
| `HandleReceipt` | `handleReceipt` with `TxConfirmed`, `TxFailed` |
| `TxConfirms`, `TxFails` | what the transaction manager reports |
| `Derive` | op-node's engine queue makes the next block safe |
| `NewBlock`, `L2Reorg`, `L1Reorg` | L2 and L1 (external) |

### TxManager

Every send is a goroutine of the queue's error group with its own select loop
(`pc`) and a set of `waitForTx` goroutines (`waiters`), each between the two
calls of `queryReceipt` or before them. The pool takes one transaction per
nonce and replaces it by go-ethereum's rule; L1 mines in nonce order and
reorganises less than `NumConfirmations` deep. Deadlines are nondeterministic:
`txInMempoolDeadline` may pass at any time, and `TxSendTimeout` is a fault
(`CtxDone`), one of those that `MaxFaults` bounds. The gas estimate of a fee bump
may be refused every time (`IncreaseGasPrice`). `Queue.TrySend`, which nothing
calls outside tests, is not modelled.

| Action | Code |
|---|---|
| `Send`, `GroupGo`, `Report`, `Kill` | `Queue.Send`, `groupContext`, `group.Go`, `sendTx` of the queue |
| `CraftTx`, `SignFails`, `CraftFails` | `craftTx`, `signWithNextNonce`, `resetNonce` |
| `Published`, `Refused`, `Underpriced`, `SkipPublish`, `SendTransactionFails` | `publishTx`, `increaseGasPrice`, `SendState.ProcessSendError` |
| `TickPublish`, `TickAbort`, `CtxDone`, `TakeReceipt` | the select of `sendTx` |
| `QueryReceipt`, `QueryTip` | `waitMined`, `queryReceipt`, `TxMined`, `TxNotMined` |
| `MineBlock`, `Reorg`, `Evict` | L1 and its pool (external) |

`NonceBits` keeps the width of the nonce: `*m.nonce--` after a failed signature
wraps when the nonce was just fetched as zero.

### GameScheduler and DisputeGame

`GameScheduler` has the monitor, the coordinator's loop (`Schedule`,
`EnqueueJob`, `ProcessResult`), the workers (`TakeJob`, `Play`, `GiveResult`)
and `Close`; its specification is `SchedulerSpec`. `Schedule` is `coordinator.schedule` up to sending the jobs, which
go one by one through the bounded queue while results are read (`enqueueJob`).

`DisputeGame` has one game on the contract (`DoMove`, `DoStep`, `ResolveClaim`,
`Resolve`, positions as generalised indices computed as `LibPosition` does), the
honest challenger (`Act` reads the claims and calculates the answers of
`GameSolver`; `PerformMove`, `PerformStep`, `PerformFails` send them one by one,
later) and others who post any claim, right or wrong, and any step the contract
takes. A claim is abstracted to whether it is the honest trace's value at its
position. The solver computes positions in Go and the contract in Solidity, each
its own way; both are modelled, and a value sent for another position than the
contract puts it at is a wrong claim.

Each claim has its clock, and `Tick` passes the time. As in the contract, a move
is in time by the clock of the claim's parent (`NextDuration`, `MoveInTime`) and a
claim is resolved by its own (`ClockExpired`), so that some claims are resolved
while others still move. Two history variables say what happened to the
challenger: `late`, that it let the clock of a claim it disputes run out, and
`early`, that a resolution came while it could still have answered. `Act`
resolves only a game the challenger wins (`ShouldResolve`).

## 3. What TLC checks

| Run | Property | What it says |
|---|---|---|
| `espresso_sequencer` | `SealedNeverDropped` | a sealed batch that reaches the L1 in time is never dropped by `checkSingularBatch`, however far the pipeline and the contract are |
| | `SealedAcceptedOnceVisible` | it is accepted as soon as the contract holds the commitments and the pipeline the next L1 block |
| | `WindowsAbut` | consecutive batches take consecutive HotShot blocks |
| | `TypeOK` | types, and a run in progress always has a batch |
| `espresso_liveness` | `CoveredWindowIsSealed` | once HotShot covers the next window and the L1 blocks exist, the head moves, unless an L1 reorg takes the blocks away again |
| | `WindowInv` | the inductive invariant behind `WindowsAbut`: each batch, in progress or sealed, holds exactly the blocks of its window, under L1 reorgs |
| `channel_manager` | `FramesAccounted` | each frame is queued, in flight or confirmed, exactly one of these, once |
| | `NoBlockLost` | until `Close`, each loaded block is queued, in a queued channel, or confirmed within the channel timeout |
| | `ClosedQueueIsFull` | after `Close` each queued channel is full, so the drain can finish it |
| | `SubmittedNotAbandoned` | a channel with a transaction in flight or on L1 is not given up before all of it is on L1 or it has timed out, also through `Close` and failures after it |
| | `TypeOK` | types |
| `channel_bank` | `ReadIsComplete` | what the bank gives is a whole channel, frames `0..end` with one closing frame, from any order, repetition or contradiction of frames |
| | `NoTimedOutLeft` | between reads no channel of the queue is timed out, though only the first is looked at |
| | `SizeNeverUnderflows` | a channel's size is between zero and what it holds |
| | `TypeOK` | types; map and queue hold the same channels |
| `channel_bank_replay` | `SameOutputs` | after a reset the batch queue gets the same channels in the same order and L1 blocks as without it |
| `batch_queue` | `SameChain` | a node that reads slowly, finds the HotShot contract behind and is reset derives the prompt node's chain: never another block, and all of it in the end |
| | `EpochsFilled` | every L1 block is the origin of an L2 block before the next one is, and no L2 block is older than its origin |
| | `DerivationKeepsUp` | with bad batches or none the safe chain stays within a sequencing window of L1, unless a batch for the next block names HotShot blocks the contract never holds |
| `engine_queue` | `HeadsAsPromised` | `EngineQueue` implements `EngineHeads` |
| | `FinalizedIsDerived` | a finalized L2 block's batch is in a finalized L1 block, on its fork, whatever resets and reorgs came before |
| | `SafeCatchesUp` | in the end all batches of L1 are safe: no waiting payload, refused block, failed call or reset holds derivation up |
| | `TypeOK` | types and limits; queued attributes are always for the safe head's child |
| `batch_submitter` | `NoBlockLeftOut` | every block up to the last one stored is safe, held, in flight or on L1, through reorgs, failed loads and failed transactions |
| | `NoTxOutlivesState` | no transaction is in flight when its state is cleared or the loop has ended |
| | `EveryStopReturns` | `StopBatchSubmitting` returns |
| | `EverythingSafe` | a submitter that keeps running gets every block safe, except what waits in an open channel while L2 rests |
| `tx_manager` | `ConfirmedStays` | a receipt stands for a transaction that stays on L1 |
| | `BumpReplaces` | every fee bump satisfies the pool's replacement rule |
| | `EverySendReported` | every send returns a receipt or an error |
| `tx_nonces` | `SharedNonceOnlyWhenFailing` | two live sends share a nonce only in a group that is being cancelled |
| | `NoNonceGap` | every nonce below the manager's is on L1, held by a live send, or of a transaction that left L1 unnoticed, also while sends fail |
| | `TypeOK` | types; no nonce beyond the number of candidates is ever signed |
| `game_scheduler` | `OneJobPerGame` | a game has at most one job, and one with a job is known to be in flight |
| | `FilesKept` | the data of a listed, unresolved game is never deleted |
| | `EveryJobProcessed` | coordinator and workers never wait for each other |
| `dispute_game` | `HonestWins` | if the challenger is in time and no claim is resolved before its answer's time is over, the game ends as the root claim deserves, whatever the others post |
| | `OurStepsCount` | the contract refuses no step that supports the challenger's own moves |
| | `AncestorExists` | `findTraceAncestor` finds a claim for every step, as its comment promises |
| | `EveryGameResolves` | every game is resolved, except one lost by a late answer or an early resolution, which the challenger leaves to others |

Each property has a mutant in `PROJECT.json`: a plausible fault of the code under
which TLC finds it violated.

### Conditions

The properties hold under these conditions, each of them what the code really
does and a reader of it should know. Where constants are named, changing the
run's cfg to them shows it.

Sequencer and batch rules
- A batch started before HotShot has any block of its window, with no block
  before it either, has no header: `jst.Last()` is nil and polling dereferences
  it (`sequencer.go:178`). `Panic` is that step and stops the process; the
  properties hold through it and the restart after it.
- A batch emptied for one L1 origin stays emptied when a retry picks another
  after an L1 reorg (`sequencer.go:215`), and derivation then drops it:
  `SealedNeverDropped` is violated with `MaxReorgs = 1`, `L1Gaps = {1, 3, 6}` and
  `MaxSequencerDrift = 2`. The passing run has no L1 reorg.
- A bundle with an empty or deposit-typed transaction makes derivation drop the
  batch (`BundleKinds = {"unfit"}`).
- Constraint 3 of `EspressoL1Origin` (`batches.go:108`) returns the block after
  the parent's origin without comparing its time with the L2 block's, so L1
  gaps must be within `MaxSequencerDrift`.

Batcher
- A late confirmation of a timed-out channel can put its blocks back twice
  (`channel_manager.go:100`): blocks are never lost, but may be queued again.
- `Close` skips a channel after one it removes (`channel_manager.go:351`), so
  channels of which nothing was sent may stay; they are full, so the drain ends.
- `TxData` returns `io.EOF` before it looks at the open channel when no block is
  pending (`channel_manager.go:169`): what is in that channel waits for the next
  L2 block, timeouts included. This is the exception of `EverythingSafe`.
- A confirmed batch that L1 loses is sent again only after a restart or an L2
  reorg: `NoBlockLeftOut` and `EverythingSafe` exclude that time (`rewound`).
- A replaced block is noticed only when a longer chain is loaded
  (`ChainOutgrows`), and after an L1 reorg a first load into an empty state
  accepts a block whose parent was never stored.

Transaction manager
- `BumpReplaces` needs fees of 10 wei or more: below, a tenth is rounded away.
- The two calls of `queryReceipt` see different chains when the block is
  replaced in between; such a transaction, and one mined for a send that was
  already aborted, may leave the chain unnoticed (`unseen`), the second leaving
  a nonce nobody fills.
- A fee bump passes the tip as fee cap and the fee cap as tip to `EstimateGas`
  (`txmgr.go:539-540`), which a node may refuse; a send then goes on with its old
  fees. No property needs a bump to succeed.
- `EverySendReported` needs a pool that keeps what it took (`Lossy = FALSE`): at
  the fee limit, a `SendTransaction` that timed out or a transaction that is
  evicted leaves a send that neither publishes nor aborts.

Derivation
- A closing frame that prunes subtracts the kept frames' size too
  (`channel.go:79`), so a channel's size is a lower bound of what it holds.
- `SameOutputs` needs Canyon (before it, an incomplete channel opened before the
  base holds up those behind it in one bank and is unknown to the other), no
  pruning (the banks hold different channels, so they prune different ones) and
  no frame twice on L1 (a frame repeated within the timeout opens its channel
  later for a pipeline reset in between, which may complete a channel that has
  timed out for a full derivation).
- `SameChain` needs a reset base two L1 blocks or more before the safe head's
  origin, or genesis. With `ChannelTimeout = 1`, the queue is at the base when it
  becomes no longer behind; `l1Blocks` then still holds the base, although the
  comment of `Reset` says that it is thrown out, and `deriveNextBatch` fails with a
  reset error, again after every reset.
- A batch for the next L2 block that names HotShot heights the contract never
  holds stays undecided (`batches.go:149-156`), and an undecided batch holds up the
  empty batches an expired window would force (`batch_queue.go:275-278`).
  `DerivationKeepsUp` shows that nothing else holds derivation up.
- `l1Blocks` grows beyond `SequencerWindowSize` while a batch is undecided,
  unlike its comment says.
- `FinalizedIsDerived` needs an L1 finality that lags less than a sequencing
  window (`FinalityInTime`): hours, where it normally lags minutes. `Reset` empties the finality data and takes the safe head from
  `FindL2Heads`, a window behind L1, and the origin a `ChannelTimeout` before
  that; the next `Step` calls `postProcessSafeL2`, which records that safe head as
  derived from the origin (`engine_queue.go:393`), although its batch is in a
  later L1 block. If that one is not final yet, a finality signal for an earlier
  one finalizes the L2 block too soon, against the comment of `FinalityData`
  ("When this L1 block is finalized, the L2 chain up to this block can be fully
  reproduced from finalized L1 data", `engine_queue.go:93`). With
  `MaxFinalityLag = 3` TLC shows it: L1 has five blocks, two of them final, a reset
  makes L2 block 2 safe, whose batch is in L1 block 3, and the next step
  finalizes it. The proof found this: the entry of the safe head is the one case
  of the invariant that a reset does not establish by itself.

Challenger
- `createJob` marks a game as in flight before it looks at its status
  (`coordinator.go:118`): a game that is resolved when it is first seen stays in
  flight for ever, and so does its directory.
- `Close` can wait for ever for a worker whose result nobody takes: it is sent
  without watching the context (`worker.go:20`), while the coordinator's loop
  has returned. `EveryJobProcessed` ends with `closed`.
- `move` tests the clock that answers the claim, `resolveClaim` the clock of the
  claim itself (`FaultDisputeGame.sol:382-387`); `specs/fault-dispute-game.md:252-253`
  says that a claim is resolved once "the potential opponent's chess clock has run
  out". The two differ: a claim can be resolved while the challenger's time to
  answer a challenge of it is not over. Without `~early` TLC finds `HonestWins`
  violated; with it the theorem says that this, and an answer the challenger does
  not give in time itself, are the only ways to a wrong outcome.
- The agent resolves only games it wins (`agent.go:126`).
- A step that supports a right-valued but misplaced claim of somebody else is
  refused by the contract and tried again by every `Act` (`reverted`).

### Bounds

Sequencer: three HotShot blocks, three L1 blocks and three L2 blocks (genesis
and two more) are what two consecutive windows need, each with a predecessor, a
content and a successor; a time step of HotShot may be negative, within a
window, or beyond one; the L1 gaps include one within and one at
`MaxSequencerDrift`; `L1Heads` reaches one behind and one ahead of what the node
has. `MaxTime` stops new batches once the ledger cannot cover them. The liveness
run has one window, which one L1 reorg and any number of restarts can disturb.

Channel manager: three L2 blocks, three channels of up to two frames and four
L1 blocks allow a channel to time out with a transaction still in flight
while another is being filled; `ChannelTimeout = MaxChannelDuration = 2`, so
both kinds of timeout happen before the bound on the L1. The last block is
`Oversized`, which ends the filling of channels with a full one without blocks.
Three queued channels are enough for the loop of `Close` to skip one and go on
removing.

Channel bank: two channels, frames numbered up to two (a closing frame can keep
one frame and prune another), a size limit that two channels exceed, and Canyon
activating half way through five L1 blocks. The replay has `ChannelTimeout = 2`
and seven L1 blocks, so that a channel can be opened before the base and be
completed before, at and after the safe head's origin.

Batch queue: five L1 blocks with gaps shorter, equal to and longer than the
block time, one of them beyond the drift of its window, a sequencing window of
two, three batches (a good one, one that conflicts with it or is never decided,
one after it) and seven HotShot blocks; one reset besides those the queue asks for, to any
earlier safe head.

Engine queue: five L1 blocks with batches one block late, finality at most two
blocks behind, a sequencing window of one (so that a reset can find a safe head
that is neither genesis nor finalized), three entries of finality data, one queued payload, one L1 reorg of any
depth down to the finalized block, and two events among gossiped payloads,
sequenced blocks and failing calls: enough for a gap in the payload queue, a
safe block against an unsafe one, a reset on the way, and a prune of the
finality data.

Batch submitter: three L2 blocks, one reorg of L2 or L1, one transaction in
flight, two starts: a reorg can meet a load, a publication, a drain or a stop.
Transaction manager: two sends with two fee markets and one fault under
fairness; three sends, two at a time, with a lossy pool and one fault for the
nonces. One fault can be a failing call, a reorg, an eviction or a kill.
Scheduler: four games, one worker and queues of one, where both queues are full
with jobs left to send; two lists, so that games leave and come back. Dispute
game: depth three, which has every shape of position (leftmost, right child,
an ancestor two levels up), clocks of two units (so that a claim can be posted at,
before and after the time a parent's clock runs out) and two moves of others: a
move and one against the answer to it.

In `EspressoSequencer`, `ChannelManager`, `ChannelBank` and `BatchQueue` a
restart, clear, reset or new block stays possible, and deadlock is checked. The
others end: every send returned, the scheduler closed, the game resolved, the
submitter stopped for the last time, L1 at its bound and derived. Their runs say
`CHECK_DEADLOCK FALSE`, and each has a liveness property (`tx_nonces`, a safety
run beside `tx_manager`, excepted), so being stuck before the end is found.

### Fairness

- `EspressoSequencer`: the driver schedules `RunNextSequencerAction` again after
  every error, so a call that is retried for ever succeeds eventually (strong
  fairness, `RetriesSucceed`), and a run that has its reply goes on (weak
  fairness, `RunsProceed`). Nothing is assumed of HotShot, the L1 or the head.
- `EngineQueue`: the driver steps the pipeline as long as it makes progress
  (weak fairness of `Step`), and L1 grows and finalizes up to the bound. Failing
  calls are bounded by `MaxEvents`.
- `BatchSubmitter`: goroutines run (weak); the ticker, the loads, the call of
  `TxData` and a confirmation happen if they are possible again and again (strong),
  because a failed try is retried by the next tick. Nothing is assumed of what
  `TxData` finds: the open channel need never become full.
- `TxManager`: goroutines and the miner go on (weak); the cases of the `select`
  that are ready again and again are chosen some time (strong). Faults are
  bounded, none is assumed to happen. No fee bump need ever be tried or succeed
  (`TickPublish` has no fairness).
- `GameScheduler`: the same for the coordinator's `select`; nobody is forced to
  list games or to close.
- `DisputeGame`: time passes, and the game loop calls `Act` at every block, which
  resolves claims it can and games it wins (strong fairness of `ShouldResolve /\
  Resolve`); a transaction does not fail for ever (strong fairness of sending). The
  others need not do anything.
- `ChannelManager`, `ChannelBank`, `BatchQueue`: safety only. In `BatchQueue` each
  step moves a node forward through finitely many positions, so that "nothing is
  left to do" states what liveness would (`SameChain`, `DerivationKeepsUp`).

## 4. What is proved

The theorems hold for every value of the constants: every configuration, ledger,
L1, number of channels, frames, sends, games and events. Each module's constants
have a named assumption, which TLC evaluates on every run. Most of it is types;
what goes beyond them is

- `SubSafetyMargin <= ChannelTimeout`, which `ChannelConfig.Check` enforces, and
  `SubSafetyMargin < SeqWindowSize`, without which a timeout would be at or before
  the epoch of its block (`ChannelConfigAssumption`);
- `Nil` is no block (`NilAssumption`), `NoBatch` no batch, `NoTip` no tip;
- `2 ^ NonceBits > N`: a nonce is wide enough for the sends (`TxManagerAssumption`);
- `HalfDuration` is a number (`DurationAssumption`), which may be zero;
- `2 ^ (k + 1) = 2 * 2 ^ k` as far as the game is deep (`PowersOfTwo`): arithmetic
  the provers do not have.

Where a theorem needs more it says so itself, as `ASSUME ... PROVE`.

| Theorem | Statement | Its own hypothesis |
|---|---|---|
| `EspressoSequencerProofs!TypeCorrect` | `[]TypeOK` | |
| `EspressoSequencerProofs!WindowInvariant` | `[]WindowInv` | |
| `EspressoSequencerProofs!NoBlockSkippedOrRepeated` | `[]WindowsAbut` | |
| `EspressoSequencerProofs!SealedBatchesKept` | `[](view = 0 => SealedNeverDropped)` | no bundle is `"unfit"` |
| `EspressoSequencerProofs!SealedBatchesAccepted` | `[](view = 0 => SealedAcceptedOnceVisible)` | no bundle is `"unfit"` |
| `ChannelManagerProofs!TypeCorrect` | `[]TypeOK` | |
| `ChannelManagerProofs!EveryFrameAccounted` | `[]FramesAccounted` | |
| `ChannelManagerProofs!EveryBlockKept` | `[]NoBlockLost` | |
| `ChannelManagerProofs!DrainHasOnlyFullChannels` | `[]ClosedQueueIsFull` | |
| `ChannelManagerProofs!NoSubmittedChannelAbandoned` | `[]SubmittedNotAbandoned` | |
| `BatchSubmitterProofs!TransactionsDrained` | `[]NoTxOutlivesState` | |
| `BatchSubmitterProofs!BlocksCovered` | `[]NoBlockLeftOut` | |
| `TxManagerProofs!TypeCorrectness` | `[]TypeOK` | |
| `TxManagerProofs!ReceiptsLast` | `[]ConfirmedStays` | |
| `TxManagerProofs!NoncesDistinct` | `[]SharedNonceOnlyWhenFailing` | |
| `TxManagerProofs!NoncesGapless` | `[]NoNonceGap` | |
| `TxManagerProofs!ResubmissionsReplace` | `[]BumpReplaces` | L1 suggests tips of 10 wei or more |
| `ChannelBankProofs!TypeCorrect` | `[]TypeOK` | |
| `ChannelBankProofs!TimedOutChannelsGo` | `[]NoTimedOutLeft` | |
| `ChannelBankProofs!ChannelsReadWhole` | `[]ReadIsComplete` | |
| `ChannelBankProofs!SizesNeverUnderflow` | `[]SizeNeverUnderflows` | |
| `BatchQueueProofs!EpochsAreFilled` | `[]EpochsFilled` | |
| `BatchQueueProofs!DerivationAlwaysKeepsUp` | `[]DerivationKeepsUp` | |
| `EngineQueueProofs!TypeCorrectness` | `[]TypeOK` | `FinalityInTime` |
| `EngineQueueProofs!FinalizedFromFinalL1` | `[]FinalizedIsDerived` | `FinalityInTime` |
| `EngineQueueProofs!Refinement` | `HeadsAsPromised` | `FinalityInTime` |
| `ChallengerProofs!GameIsWon` | `[]HonestWins` | |
| `ChallengerProofs!OurStepsAccepted` | `[]OurStepsCount` | |
| `ChallengerProofs!AncestorsAlwaysFound` | `[]AncestorExists` | |
| `ChallengerProofs!OneJob` | `[]OneJobPerGame` | |
| `ChallengerProofs!FilesAreKept` | `FilesKept`, an action property | |

`BatchSubmitterProofs` and `ChallengerProofs` also prove the typing of their
modules, which no run checks by itself.

### The arguments

Each module's properties follow from one inductive invariant, which was checked
by TLC on the run's instance before it was proved.

- `WindowInv`: `WindowsAbut` says nothing about a batch in progress. `WindowInv`
  adds that of every batch, in progress or sealed, the headers up to `Prev` are
  before the window and the next one is not, that `Blocks` are contiguous from
  there and before the end of the window, and that `Next` is their successor and
  past it (`JustificationSound`); and that a pending reply continues the batch
  (`ReplySound`). Two justifications that are sound for abutting windows then
  join exactly.
- `ContentInv`, until an L1 reorg: the transactions of a batch in progress are
  those of its headers, or none if the origin chosen for it demands that; the
  origin of a sealed batch is the one `EspressoL1Origin` gives. The step that
  matters is that `EspressoL1Origin`, once its fetches succeed, gives the same
  answer on every longer L1 (`OriginStable`), so that derivation, reading later,
  finds what the sequencer found. After a reorg a batch emptied under the old L1
  stays empty, which is why the theorems say `view = 0`.
- `ManagerInv`: each transaction in flight is pending in its channel, once
  (`TxTracked`; so a receipt never meets a frame it does not know); a full
  channel has a frame (`FullHasFrames`; so a fully submitted channel is really
  on L1); the open channel is queued and all other queued channels are full
  (`QueueSound`; so `Close` needs to close only `currentChannel`).
- `BatchSubmitterProofs!Inv`: a publisher that drains leaves no transaction
  (`Drained`); the safe blocks are on L1, a submitter with an empty state starts
  from a safe block, and every block up to the last stored one and up to the
  manager's tip is held, in flight or on L1 (`Covered`).
- `TxManagerProofs!Inv`: a send owns its transactions and has one nonce
  (`Owned`, `OneNonce`); L1 holds one transaction for each nonce up to the
  account's (`ChainInOrder`); no more nonces are given than there are sends, so
  that the decrement cannot wrap for good (`Counted`); what a waiter has seen is
  on L1 or left it unnoticed, and what was reported is too deep to leave
  (`Lasting`); each nonce from the account's to the manager's is held
  (`Gapless`); in a healthy group nonces are given in turn (`InTurn`). `NoNonceGap`
  was first stated for healthy groups only; the proof does not need that, and the
  property no longer says it.
- `ChannelBankProofs!Inv`: a channel never has two frames of one number, a second
  closing frame or a frame above the closing one (`OKChannel`), and the queue is
  in the order the channels were opened in (`OKBank`), which reading from
  anywhere in it and pruning keep. Until a channel is closed its size is the sum of
  its frames' (`OKSize`), so that the one frame that can prune it, the closing one,
  takes off no more than was added; afterwards the size can only be too small.
- `BatchQueueProofs!Inv`: the L1 blocks a node knows are consecutive, end with its
  origin, and begin at most one ahead of the safe head's origin, and then at one that
  is old enough for the next L2 block (`KnownOK`); so whichever batch is accepted or
  made, its origin is the head's or the next, and not younger than it. A batch on L1
  names heights the contract never holds (`NeverVerified`), or it can be verified
  once the contract has caught up and L1 has the origin its justification leads to
  (`BatchOK`); so the prompt node leaves a batch of the second kind undecided only
  while it lacks the next L1 block. A node that was never reset knows a block
  and has not passed the head's epoch (`PromptOK`). When nothing is left to do, it has
  therefore read all of L1 and either knows one block only or is within the window
  of the first (`NothingLeft`). Only a node that was reset to a base before its
  head's origin may know no block yet.
- `EngineQueueProofs!Inv`: a block is final when its batch is in a finalized L1
  block, and derived by an L1 block when its batch is in an ancestor of that. The
  safe head and each entry of the finality data are one or the other (`SafeHead`,
  `Entries`), and entries are about ancestors of the safe head and of the origin;
  the engine knows the finalized head, unless it is to be told (`Told`). A reset
  needs `FinalityInTime` for the safe head it finds (section 3, Conditions).
- `ChallengerProofs!GameInv`: a claim is ours when every claim on its way up that is
  our side's is what the honest challenger would have posted (`OurPath`). The
  contract's moves build a tree of positions in which the trace ancestors of a bottom
  claim are on its way up (`HasAncestors`), and on our way up they are right exactly
  on our side (`HonestAncestors`); so a step against our bottom claims never counts
  (`BottomStands`) and one of ours always does. As long as the challenger was not
  late and nothing was taken from it (`FairlyPlayed`), a claim of ours with nothing
  open against it stands (`Standing`); one that disputes ours has our answer when
  the time for it is over, and either all moves against it are still to be looked
  at or it was resolved then, and lost (`Disputed`). Neither says when claims are
  resolved or in which order: the clocks decide that. `RootDone` is their
  consequence at the root. A resolution that is not `ResolvedEarly` keeps all of
  it, which is what makes `early` the exact condition.
- `SubmittedNotAbandoned` is part of `ManagerInv`. The case that needs an argument
  is `Close`: after each visit of the loop, what is live of the array is the old
  queue without some channels of which nothing was sent, each once, however the
  slots were shifted; so no channel with a transaction in flight or on L1 is
  dropped, and what is kept is as full as it was.
- `ChallengerProofs!SchedulerInv`: no place holds a game twice and no game is in two
  places (`OncePerPlace`, `OnePlace`), a game with a job is in flight as far as the
  coordinator knows (`Expected`), and nobody takes a game for resolved that is not
  (`StatusTrue`, without which `FilesKept` would not follow).

### Only model-checked

- Liveness under fairness, which the prover does not do: `CoveredWindowIsSealed`,
  `EverySendReported`, `EveryJobProcessed`, `EveryGameResolves`,
  `EveryStopReturns`, `EverythingSafe`, `SafeCatchesUp`.
- `SameChain` and `SameOutputs`, which compare two pipelines that read one L1 at
  their own pace, one of them reset on the way. An invariant would have to say which
  earlier state of the prompt pipeline the other one stands for, up to batches and
  frames that no longer matter, and so needs the prompt pipeline's history in the
  state; the models keep only its present.

Induction is replaced by the least counterexample throughout (`LeastNat`): the loop
of `Close`, the way up in the tree of claims, the sum over the frames of a channel
and the batches that `deriveNextBatch` keeps are all treated so, as functions on an
interval or on a finite set whose existence is proved first.

## 5. Not modelled

`PROJECT.json` lists every component with what is left out of it. The larger
parts:

- Generated Go bindings, which are most of the repository's Go lines, genesis
  and migration tools, the MIPS emulator and `op-program`: data, not control.
- RPC, metrics, flags, service life cycle, the indexer's database: I/O.
- The contracts other than the dispute game (the HotShot contract is modelled
  from how `VerifyCommitments` reads it), the trace providers and preimage
  oracle.
- Span batches, which are of a later fork than the one Espresso mode runs, and
  the legacy sequencing mode with origin selection and mode detection.
  `BatchQueue` is therefore for an Espresso chain; a legacy chain differs in that,
  after an epoch advanced without a block, a batch two epochs ahead of the safe
  head passes `checkSingularBatch` and is refused only by the attributes stage.
- The reset of the pipeline stage by stage, the driver's event loop, P2P and
  alt-sync, engine P2P sync, and the proposer.
- `Queue.TrySend` of the transaction queue, which only tests call.
- Compression, and the errors of converting a block to a batch, after which
  `processBlocks` keeps the blocks it has already added in the queue
  (`channel_manager.go:240`).

## 6. Plan

Done: all modules of section 2, and the proofs of section 4.

Theorems left: the relation between the two pipelines behind `SameChain` and
`SameOutputs`, with a history of the prompt one.

Models left: the driver loop with the stage-by-stage reset; the legacy sequencer
with origin selection; the proposer; the alt-sync client.
