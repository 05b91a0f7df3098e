--------------------------- MODULE BatchSubmitter ---------------------------
(***************************************************************************)
(* The batch submitter of op-batcher (batcher/driver.go): StartBatchSub-   *)
(* mitting and StopBatchSubmitting, the loop that loads L2 blocks and      *)
(* publishes them, the publisher goroutine publishStateToL1 starts, and    *)
(* the transactions in flight, against an L2 chain that reorganises and an *)
(* L1 chain that may lose a confirmed transaction.                         *)
(*                                                                         *)
(* A block is its chain of fork labels up to itself, so the parent hash of *)
(* a block is its front and its number its length.  The channel manager    *)
(* (module ChannelManager) is abstracted to the blocks it holds that no    *)
(* transaction carries: those still to be added to a channel, those in the *)
(* open channel, and those with frames to send.  A transaction carries     *)
(* whole blocks of channels that are full; frames that an open channel has *)
(* ahead of its end carry none, and are left out.                          *)
(***************************************************************************)
EXTENDS Integers, Sequences, SequencesExt, FiniteSets

CONSTANTS
  MaxPending,  \* Cfg.MaxPendingTransactions
  Nil,         \* eth.BlockID{}, common.Hash{}
  MaxL2,       \* bound: length of the L2 chain
  MaxReorgs,   \* bound: reorganisations of L2 (by the sequencer) and of L1
  MaxStarts    \* bound: calls of StartBatchSubmitting

ASSUME SubmitterAssumption ==
  /\ MaxPending \in Nat \ {0} /\ MaxStarts \in Nat
  /\ MaxL2 \in Nat \ {0} /\ MaxReorgs \in Nat

(* The blocks there can be; Nil is none of them. *)
Blocks == UNION {[1..n -> 1..MaxReorgs + 1] : n \in 1..MaxL2}

ASSUME NilAssumption == Nil \notin Blocks

VARIABLES
  running, shutdown, kill,  \* BatchSubmitter.running, shutdownCtx and killCtx done
  stopping,     \* a call of StopBatchSubmitting waits, holding the mutex
  loop,         \* where the loop is: off, select, load, publish
  why,          \* what it publishes for: tick, reorg, stop; the last two drain
  publisher,    \* the goroutine of publishStateToL1: run, send, wait, done
  lastStored,   \* lastStoredBlock
  end,          \* last block number of the range being loaded
  tip, closed, pend, \* the channel manager: tip, closed, blocks held,
  open, ready,  \* those of them in the open channel, those with frames to send
  flight,       \* transactions made and not reported yet
  chain, safe,  \* L2: the unsafe chain, the number of the safe head
  onL1,         \* blocks whose batch is on L1
  rewound,      \* history: L1 has lost a batch since the submitter's state was last cleared
  reorgs, starts

submitter == <<running, shutdown, kill, stopping, starts>>
manager == <<tip, pend, open, ready, closed>>
world == <<chain, safe, onL1, reorgs>>
vars == <<submitter, loop, why, publisher, lastStored, end, manager, flight, world, rewound>>

BlockAt(n) == SubSeq(chain, 1, n)

Init ==
  /\ running = FALSE /\ shutdown = TRUE /\ kill = TRUE /\ stopping = FALSE /\ starts = 0
  /\ loop = "off" /\ why = "tick" /\ publisher = "done"
  /\ lastStored = Nil /\ end = 0
  /\ tip = Nil /\ pend = {} /\ open = {} /\ ready = {} /\ closed = FALSE
  /\ flight = {}
  /\ chain = <<1>> /\ safe = 1 /\ onL1 = {<<1>>}
  /\ rewound = FALSE /\ reorgs = 0

-----------------------------------------------------------------------------
(* Start and stop. *)

(* channelManager.Clear *)
Clear ==
  /\ tip' = Nil /\ pend' = {} /\ open' = {} /\ ready' = {} /\ closed' = FALSE
  /\ rewound' = FALSE

StartBatchSubmitting ==
  /\ ~stopping /\ ~running
  /\ starts < MaxStarts /\ starts' = starts + 1
  /\ running' = TRUE /\ shutdown' = FALSE /\ kill' = FALSE
  /\ Clear
  /\ lastStored' = Nil
  /\ loop' = "select"
  /\ UNCHANGED <<stopping, why, publisher, end, flight, world>>

(* StopBatchSubmitting up to wg.Wait. *)
StopBatchSubmitting ==
  /\ ~stopping /\ running
  /\ running' = FALSE /\ shutdown' = TRUE /\ stopping' = TRUE
  /\ UNCHANGED <<kill, starts, loop, why, publisher, lastStored, end, manager, flight, world, rewound>>

(* The context of the call is done: kill. *)
StopCtxDone ==
  /\ stopping /\ ~kill
  /\ kill' = TRUE
  /\ UNCHANGED <<running, shutdown, stopping, starts, loop, why, publisher, lastStored, end,
                 manager, flight, world, rewound>>

StopReturns ==
  /\ stopping /\ loop = "off"
  /\ stopping' = FALSE /\ kill' = TRUE
  /\ UNCHANGED <<running, shutdown, starts, loop, why, publisher, lastStored, end,
                 manager, flight, world, rewound>>

-----------------------------------------------------------------------------
(* The loop. *)

(* publishStateToL1 starts its goroutine. *)
Publish(reason) == loop' = "publish" /\ why' = reason /\ publisher' = "run" /\ end' = 0

(* The blocks no channel has yet. *)
Fresh == pend \ (open \cup ready)

(* channelManager.Close: channels of which nothing was sent are dropped; the open channel, if   *)
(* kept, gets its last frames.                                                                  *)
CloseManager ==
  /\ closed' = TRUE
  /\ ready' \in SUBSET (open \cup ready)
  /\ pend' = Fresh \cup ready' /\ open' = {}
  /\ UNCHANGED tip

(* calculateL2BlockRangeToStore: from where to load. *)
RangeStart(last) ==
  IF last = Nil \/ Len(last) < safe THEN BlockAt(safe) ELSE last

(* The ticker: the range to load from the sync status. *)
Tick ==
  /\ loop = "select" /\ ~shutdown
  /\ lastStored' = RangeStart(lastStored)
  /\ IF safe >= Len(chain) \/ Len(lastStored') >= Len(chain)
     THEN Publish("tick")
     ELSE loop' = "load" /\ end' = Len(chain) /\ UNCHANGED <<why, publisher>>
  /\ UNCHANGED <<submitter, manager, flight, world, rewound>>

(* The sync status cannot be had; shutdownCtx may be done already. *)
TickFails ==
  /\ loop = "select"
  /\ Publish("tick")
  /\ UNCHANGED <<submitter, lastStored, manager, flight, world, rewound>>

(* loadBlockIntoState of the next block of the range. *)
Loading == BlockAt(Len(lastStored) + 1)

LoadBlock ==
  /\ loop = "load"
  /\ Len(lastStored) < Len(chain)
  /\ tip \in {Nil, Front(Loading)}
  /\ pend' = pend \cup {Loading} /\ tip' = Loading
  /\ lastStored' = Loading
  /\ IF Len(Loading) = end THEN Publish("tick") ELSE UNCHANGED <<loop, why, publisher, end>>
  /\ UNCHANGED <<submitter, open, ready, closed, flight, world, rewound>>

(* ErrReorg: the state is closed and drained. *)
AfterReorgKept(last) == last
AfterReorg(last) == Nil

LoadReorg ==
  /\ loop = "load"
  /\ Len(lastStored) < Len(chain)
  /\ tip \notin {Nil, Front(Loading)}
  /\ lastStored' = AfterReorg(lastStored)
  /\ CloseManager
  /\ Publish("reorg")
  /\ UNCHANGED <<submitter, flight, world, rewound>>

(* The block cannot be had, for instance because the chain has become shorter. *)
LoadFails ==
  /\ loop = "load"
  /\ Publish("tick")
  /\ UNCHANGED <<submitter, lastStored, manager, flight, world, rewound>>

Shutdown ==
  /\ loop = "select" /\ shutdown
  /\ CloseManager
  /\ Publish("stop")
  /\ UNCHANGED <<submitter, lastStored, flight, world, rewound>>

(* handleReceipt, TxConfirmed, TxFailed: the loop reads a receipt at its select and while the   *)
(* publisher runs.  What failed has its frames to send again, unless a closed manager drops its *)
(* channel; a channel confirmed too late gives its blocks back.                                 *)
ReadsReceiptsLate == loop = "select" \/ (loop = "publish" /\ publisher = "done")

ReadsReceipts == loop \in {"select", "publish"}

HandleReceipt ==
  /\ ReadsReceipts
  /\ \E tx \in flight :
       /\ flight' = flight \ {tx}
       /\ \/ tx.result = "confirmed" /\ UNCHANGED <<pend, ready>>
          \/ /\ tx.result = "failed"
             /\ \E dropped \in SUBSET (ready \cup tx.blocks) :
                  /\ dropped # {} => closed
                  /\ pend' = (pend \cup tx.blocks) \ dropped
                  /\ ready' = (ready \cup tx.blocks) \ dropped
          \/ /\ tx.result = "late"
             /\ pend' = pend \cup tx.blocks
             /\ ready' \in SUBSET ready
  /\ UNCHANGED <<submitter, loop, why, publisher, lastStored, end, tip, open, closed, world, rewound>>

PublishReturnsUncleared ==
  /\ loop = "publish" /\ publisher = "done"
  /\ loop' = IF why = "stop" THEN "off" ELSE "select"
  /\ why' = "tick"
  /\ UNCHANGED <<manager, rewound, submitter, publisher, lastStored, end, flight, world>>

(* publishStateToL1 returns: after a reorg the state is cleared; after a shutdown the loop ends. *)
PublishReturns ==
  /\ loop = "publish" /\ publisher = "done"
  /\ loop' = IF why = "stop" THEN "off" ELSE "select"
  /\ why' = "tick"
  /\ IF why = "reorg" THEN Clear ELSE UNCHANGED <<manager, rewound>>
  /\ UNCHANGED <<submitter, publisher, lastStored, end, flight, world>>

-----------------------------------------------------------------------------
(* The publisher goroutine and the transaction queue. *)

(* publishTxToL1: the first frames to send, which stand for the oldest blocks, make a transaction. *)
Takes(frames) ==
  /\ publisher = "run" /\ ~kill /\ publisher' = "send"
  /\ \E n \in 1..MaxL2 :
       LET sent == {b \in frames : Len(b) <= n} IN
       /\ sent # {}
       /\ pend' = pend \ sent /\ ready' = frames \ sent
       /\ flight' = flight \cup {[blocks |-> sent, result |-> "queued"]}
  /\ UNCHANGED <<submitter, loop, why, lastStored, end, tip, closed, world, rewound>>

(* TxData has frames. *)
PublishFrames == ready # {} /\ Takes(ready) /\ UNCHANGED open

(* TxData has none, but blocks to add, which fill the open channel. *)
FullAfter(n) == open \cup {b \in Fresh : Len(b) <= n}

PublishFull ==
  /\ ready = {} /\ Fresh # {} /\ ~closed
  /\ \E n \in 0..MaxL2 : Takes(FullAfter(n))
  /\ open' = {}

AfterLastUndrained == "done"
AfterLast == IF why = "tick" THEN "done" ELSE "wait"

(* The blocks do not fill the open channel: io.EOF, and they wait in it until there is another *)
(* block to add.                                                                               *)
PublishBuffers ==
  /\ publisher = "run" /\ ~kill /\ publisher' = AfterLast
  /\ ready = {} /\ Fresh # {} /\ ~closed
  /\ open' = pend
  /\ UNCHANGED <<submitter, loop, why, lastStored, end, tip, pend, ready, closed, flight, world, rewound>>

(* queue.Send waits for a free slot. *)
InQueue == {tx \in flight : tx.result # "queued"}

QueueSend ==
  /\ publisher = "send" /\ publisher' = "run"
  /\ Cardinality(InQueue) < MaxPending
  /\ \E tx \in flight :
       /\ tx.result = "queued"
       /\ flight' = (flight \ {tx}) \cup {[tx EXCEPT !.result = "sent"]}
  /\ UNCHANGED <<submitter, loop, why, lastStored, end, manager, world, rewound>>

(* publishTxToL1 has nothing to send (yet), or the L1 tip cannot be had. *)
PublishEnds ==
  /\ publisher = "run"
  /\ publisher' = AfterLast
  /\ UNCHANGED <<submitter, loop, why, lastStored, end, manager, flight, world, rewound>>

(* queue.Wait *)
WaitEnds ==
  /\ publisher = "wait" /\ flight = {}
  /\ publisher' = "done"
  /\ UNCHANGED <<submitter, loop, why, lastStored, end, manager, flight, world, rewound>>

(* The transaction manager confirms a transaction (module TxManager); its channel may have      *)
(* timed out on L1, and then its batches are not read.                                          *)
TxConfirms(result) ==
  /\ \E tx \in flight :
       /\ tx.result = "sent"
       /\ flight' = (flight \ {tx}) \cup {[tx EXCEPT !.result = result]}
       /\ onL1' = IF result = "confirmed" THEN onL1 \cup tx.blocks ELSE onL1
  /\ UNCHANGED <<submitter, loop, why, publisher, lastStored, end, manager, chain, safe,
                 reorgs, rewound>>

(* It gives up, or is cancelled; the transaction may be mined all the same. *)
TxFails ==
  /\ \E tx \in flight, mined \in BOOLEAN :
       /\ tx.result = "sent"
       /\ flight' = (flight \ {tx}) \cup {[tx EXCEPT !.result = "failed"]}
       /\ onL1' = IF mined THEN onL1 \cup tx.blocks ELSE onL1
  /\ UNCHANGED <<submitter, loop, why, publisher, lastStored, end, manager, chain, safe,
                 reorgs, rewound>>

-----------------------------------------------------------------------------
(* L2 and L1 (external). *)

NewBlock ==
  /\ Len(chain) < MaxL2
  /\ chain' = Append(chain, 1)
  /\ UNCHANGED <<submitter, loop, why, publisher, lastStored, end, manager, flight, safe, onL1,
                 reorgs, rewound>>

(* The sequencer replaces unsafe blocks. *)
L2Reorg ==
  /\ reorgs < MaxReorgs /\ reorgs' = reorgs + 1
  /\ \E n \in safe..Len(chain) - 1 : chain' = Append(BlockAt(n), reorgs + 2)
  /\ UNCHANGED <<submitter, loop, why, publisher, lastStored, end, manager, flight, safe, onL1,
                 rewound>>

(* The node derives the next safe block from L1; one that differs from the unsafe block replaces it. *)
Derive ==
  /\ \E b \in onL1 :
       /\ Len(b) = safe + 1 /\ Front(b) = BlockAt(safe)
       /\ safe' = safe + 1
       /\ chain' = IF IsPrefix(b, chain) THEN chain ELSE b
  /\ UNCHANGED <<submitter, loop, why, publisher, lastStored, end, manager, flight, onL1,
                 reorgs, rewound>>

(* L1 loses a batch, and the safe head goes back. *)
L1Reorg ==
  /\ reorgs < MaxReorgs /\ reorgs' = reorgs + 1
  /\ \E b \in onL1 \ {<<1>>} :
       /\ onL1' = onL1 \ {b}
       /\ safe' = IF IsPrefix(b, BlockAt(safe)) THEN Len(b) - 1 ELSE safe
  /\ rewound' = TRUE
  /\ UNCHANGED <<submitter, loop, why, publisher, lastStored, end, manager, flight, chain>>

Next ==
  \/ StartBatchSubmitting \/ StopBatchSubmitting \/ StopCtxDone \/ StopReturns
  \/ Tick \/ TickFails \/ LoadBlock \/ LoadReorg \/ LoadFails \/ Shutdown
  \/ HandleReceipt \/ PublishReturns
  \/ PublishFrames \/ PublishFull \/ PublishBuffers \/ QueueSend \/ PublishEnds \/ WaitEnds
  \/ \E result \in {"confirmed", "late"} : TxConfirms(result)
  \/ TxFails
  \/ NewBlock \/ L2Reorg \/ Derive \/ L1Reorg

Spec == Init /\ [][Next]_vars

(* The ticker ticks, the goroutines run, and calls and transactions do not fail for ever: the   *)
(* L1 tip can be had and TxData is called again and again.  Whether it finds the open channel   *)
(* full is not up to it.                                                                        *)
TxDataCalled == PublishFrames \/ PublishFull \/ PublishBuffers

PublisherRuns == QueueSend \/ PublishEnds \/ WaitEnds

Fairness ==
  /\ SF_vars(Tick \/ Shutdown) /\ SF_vars(LoadBlock \/ LoadReorg) /\ WF_vars(LoadFails \/ PublishReturns)
  /\ WF_vars(HandleReceipt) /\ WF_vars(StopReturns)
  /\ SF_vars(TxDataCalled) /\ WF_vars(PublisherRuns)
  /\ WF_vars(TxFails) /\ SF_vars(TxConfirms("confirmed"))
  /\ WF_vars(Derive)

FairSpec == Spec /\ Fairness

-----------------------------------------------------------------------------
(* Types. *)
TypeOK ==
  /\ lastStored \in Blocks \cup {Nil} /\ tip \in Blocks \cup {Nil} /\ pend \subseteq Blocks
  /\ chain \in Blocks /\ safe \in 1..Len(chain) /\ onL1 \subseteq Blocks
  /\ loop = "load" => lastStored # Nil
  /\ open \cup ready \subseteq Blocks
  /\ Cardinality(InQueue) <= MaxPending

(* As long as L1 has lost no batch, no block of the L2 chain up to the last one stored has been *)
(* left out: it is safe, held, in a transaction or on L1.  (calculateL2BlockRangeToStore,       *)
(* loadBlocksIntoState, with reorgs, failed loads and failed transactions in between.)          *)
NoBlockLeftOut ==
  (~rewound /\ ~closed /\ running /\ lastStored # Nil /\ IsPrefix(lastStored, chain)) =>
     \A n \in safe + 1..Len(lastStored) :
        BlockAt(n) \in pend \cup onL1 \cup UNION {tx.blocks : tx \in flight}

(* A transaction never outlives the state that made it: none is in flight when the state is     *)
(* cleared or the loop has ended, so no receipt is for an unknown channel (TxConfirmed,         *)
(* TxFailed) and none is left unread (publishStateToL1 with drain).                             *)
NoTxOutlivesState == flight # {} => tip # Nil /\ loop # "off"

(* StopBatchSubmitting returns. *)
EveryStopReturns == stopping ~> ~stopping

(* A replaced block is noticed when a longer chain is loaded; the bound on the chain may stop it. *)
ChainOutgrows == lastStored # Nil /\ Len(chain) <= Len(lastStored) => IsPrefix(lastStored, chain)

(* Once the submitter keeps running and the chain outgrows what it has stored, every block      *)
(* becomes safe; when L1 loses a batch, only once the state is cleared (by a restart or an L2   *)
(* reorg).  The exception is what TxData leaves in an open channel: with no other block to add  *)
(* it does not look at that channel again (channel_manager.go:169), so while L2 rests the first *)
(* block that is not safe may be in it; it is nowhere else.                                     *)
EverythingSafe ==
  <>[](running /\ ~rewound /\ ChainOutgrows) =>
    <>[](safe = Len(chain) \/ BlockAt(safe + 1) \in open)
=============================================================================
