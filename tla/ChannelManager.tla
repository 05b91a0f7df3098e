--------------------------- MODULE ChannelManager ---------------------------
(***************************************************************************)
(* The channel manager of op-batcher (batcher/channel_manager.go with      *)
(* channel.go and channel_builder.go): L2 blocks are queued, packed into   *)
(* channels, cut into frames, handed out one frame per L1 transaction, and *)
(* accounted for when the transaction is confirmed or has failed.  Every   *)
(* operation holds the manager's mutex, so each is one action; receipts    *)
(* arrive in any order.                                                    *)
(*                                                                         *)
(* Data.  Compression is nondeterministic in what it decides: how many     *)
(* blocks fit, whether the channel is full, how many frames are ready.     *)
(* Block conversion does not fail (the blocks come from the L2 node).      *)
(* channels lists every channel ever created; its index is the channel's   *)
(* random ID, so Clear does not free it.                                   *)
(***************************************************************************)
EXTENDS Integers, Sequences, SequencesExt, FiniteSets

CONSTANTS
  ChannelTimeout,      \* ChannelConfig.ChannelTimeout
  MaxChannelDuration,  \* ChannelConfig.MaxChannelDuration, 0 for none
  SubSafetyMargin,     \* ChannelConfig.SubSafetyMargin
  SeqWindowSize,       \* ChannelConfig.SeqWindowSize
  L2Blocks,            \* the L2 blocks the driver may load
  Oversized,           \* those with too many RLP bytes for any channel
  NoTip,               \* tip = common.Hash{}
  MaxLoaded,           \* bound: length of the block queue when loading
  MaxChannels,         \* bound: channels created
  MaxFrames,           \* bound: frames of one channel
  MaxL1                \* bound: L1 head

Block == [number : Nat, fork : Nat, parentFork : Nat, epoch : Nat]

(* ChannelConfig.Check, and the window it is silent about. *)
ASSUME ChannelConfigAssumption ==
  /\ ChannelTimeout \in Nat /\ MaxChannelDuration \in Nat
  /\ SubSafetyMargin \in 0..ChannelTimeout
  /\ SeqWindowSize \in Nat /\ SubSafetyMargin < SeqWindowSize

ASSUME BatcherAssumption ==
  /\ L2Blocks \subseteq Block
  /\ NoTip \notin Nat \X Nat
  /\ MaxLoaded \in Nat /\ MaxChannels \in Nat /\ MaxFrames \in Nat /\ MaxL1 \in Nat

VARIABLES
  blocks,      \* channelManager.blocks
  tip,         \* hash of the last block loaded
  channels,    \* the channels ever created
  current,     \* currentChannel, 0 for nil
  queue,       \* channelQueue
  txChannels,  \* transactions in flight, with the L1 head they were made at
  closed,      \* channelManager.closed
  l1,          \* number of the L1 head
  loaded       \* history: the blocks loaded since Clear

vars == <<blocks, tip, channels, current, queue, txChannels, closed, l1, loaded>>

Channel ==
  [blocks : Seq(Block), timeout : Nat, full : BOOLEAN, frames : Seq(Nat),
   numFrames : Nat, pending : SUBSET Nat, confirmed : SUBSET [frame : Nat, at : Nat]]

Tx == [ch : Nat, frame : Nat, head : Nat]

NewChannel ==
  [blocks |-> << >>, timeout |-> 0, full |-> FALSE, frames |-> << >>,
   numFrames |-> 0, pending |-> {}, confirmed |-> {}]

Hash(b) == <<b.number, b.fork>>

ParentHash(b) == <<b.number - 1, b.parentFork>>

Init ==
  /\ blocks = << >>
  /\ tip = NoTip
  /\ channels = << >>
  /\ current = 0
  /\ queue = << >>
  /\ txChannels = {}
  /\ closed = FALSE
  /\ l1 = 1
  /\ loaded = {}

-----------------------------------------------------------------------------
(***************************************************************************)
(* channel and channelBuilder.                                             *)
(***************************************************************************)

HasFrame(ch) == ch.frames # << >>

NoneSubmitted(ch) == ch.confirmed = {} /\ ch.pending = {}

IsTimedOut(ch) == \E a, b \in ch.confirmed : a.at - b.at >= ChannelTimeout

IsFullySubmitted(ch) == ch.full /\ ch.pending = {} /\ ch.frames = << >>

UpdateTimeout(timeout, n) == IF timeout = 0 \/ timeout > n THEN n ELSE timeout

(* A faulty variant: the timeout counts backwards. *)
FramePublishedBackwards(ch, at) ==
  [ch EXCEPT !.timeout = UpdateTimeout(@, at - ChannelTimeout - SubSafetyMargin)]

FramePublished(ch, at) ==
  [ch EXCEPT !.timeout = UpdateTimeout(@, at + ChannelTimeout - SubSafetyMargin)]

(***************************************************************************)
(* updateSwTimeout for every block added and updateDurationTimeout for the *)
(* L1 head: the earliest of the candidates, 0 while there is none.         *)
(***************************************************************************)
TimeoutCandidates(ch, added, n) ==
  (IF ch.timeout = 0 THEN {} ELSE {ch.timeout})
    \cup {added[i].epoch + SeqWindowSize - SubSafetyMargin : i \in 1..Len(added)}
    \cup (IF MaxChannelDuration = 0 THEN {} ELSE {n + MaxChannelDuration})

IsEarliestTimeout(t, candidates) ==
  IF candidates = {} THEN t = 0
  ELSE t \in candidates /\ \A u \in candidates : t <= u

TimedOut(timeout, n) == timeout # 0 /\ n >= timeout

(* OutputFrames: nf new frames, at least the last one when the channel is full. *)
NewFrames(ch, nf) == [i \in 1..nf |-> ch.numFrames + i - 1]

(* The bound on frames leaves room for the last one. *)
FrameCounts(ch, full) ==
  IF full THEN 1..(MaxFrames - ch.numFrames) ELSE 0..(MaxFrames - ch.numFrames - 1)

-----------------------------------------------------------------------------
(***************************************************************************)
(* channelManager.                                                         *)
(***************************************************************************)

(* AddL2Block; a block that does not extend the tip is ErrReorg, no change. *)
AddL2Block(b) ==
  /\ tip \in {NoTip, ParentHash(b)}
  /\ Len(blocks) < MaxLoaded
  /\ blocks' = Append(blocks, b)
  /\ tip' = Hash(b)
  /\ loaded' = loaded \cup {b}
  /\ UNCHANGED <<channels, current, queue, txChannels, closed, l1>>

(* nextTxData: the channel's next frame goes out in a transaction. *)
NextTx(c, ch) == [ch |-> c, frame |-> Head(ch.frames), head |-> l1]

NextTxData(ch) ==
  [ch EXCEPT !.frames = Tail(@), !.pending = @ \cup {Head(ch.frames)}]

NoFrameQueued == \A i \in 1..Len(queue) : ~HasFrame(channels[queue[i]])

(* TxData while a queued channel has a frame: the first such channel's next one. *)
TxDataPending ==
  /\ \E i \in 1..Len(queue) :
       LET c == queue[i]
       IN  /\ HasFrame(channels[c])
           /\ \A j \in 1..(i - 1) : ~HasFrame(channels[queue[j]])
           /\ txChannels' = txChannels \cup {NextTx(c, channels[c])}
           /\ channels' = [channels EXCEPT ![c] = NextTxData(channels[c])]
  /\ UNCHANGED <<blocks, tip, current, queue, closed, l1, loaded>>

(* ensureChannelWithSpace: the channels, and which of them takes the blocks. *)
NeedsChannel == current = 0 \/ channels[current].full

WithSpace == IF NeedsChannel THEN Append(channels, NewChannel) ELSE channels

Filling == IF NeedsChannel THEN Len(channels) + 1 ELSE current

(***************************************************************************)
(* processBlocks, registerL1Block and outputFrames on the channel ch: k    *)
(* blocks are added and nf frames come out.                                *)
(***************************************************************************)
Packed(ch, k, timeout, full, nf) ==
  [ch EXCEPT !.blocks = @ \o SubSeq(blocks, 1, k),
             !.timeout = timeout,
             !.full = full,
             !.frames = @ \o NewFrames(ch, nf),
             !.numFrames = @ + nf]

(* processBlocks: what is left in the block queue. *)
Remaining(k) == SubSeq(blocks, k + 1, Len(blocks))

BuildTimeouts(k) == TimeoutCandidates(WithSpace[Filling], SubSeq(blocks, 1, k), l1)

(* outputFrames and nextTxData on the channel being filled. *)
Output(k, timeout, full, nf) ==
  LET ch == Packed(WithSpace[Filling], k, timeout, full, nf)
  IN  /\ nf \in FrameCounts(WithSpace[Filling], full)
      /\ txChannels' = txChannels \cup (IF nf = 0 THEN {} ELSE {NextTx(Filling, ch)})
      /\ channels' = [WithSpace EXCEPT ![Filling] = IF nf = 0 THEN ch ELSE NextTxData(ch)]

(***************************************************************************)
(* TxData without a frame to send: build one from the queued blocks.  The  *)
(* compressor takes the first block of a channel whatever its size; the    *)
(* channel is full when it leaves a block over, and full and without       *)
(* blocks when its first one is oversized (ErrTooManyRLPBytes).            *)
(***************************************************************************)
TxDataBuild ==
  /\ ~closed
  /\ NoFrameQueued
  /\ blocks # << >>
  /\ NeedsChannel => Len(channels) < MaxChannels
  /\ current' = Filling
  /\ queue' = IF NeedsChannel THEN Append(queue, Filling) ELSE queue
  /\ \E k \in 0..Len(blocks), compressorFull \in BOOLEAN :
       /\ \A i \in 1..k : blocks[i] \notin Oversized
       /\ NeedsChannel /\ k = 0 => Head(blocks) \in Oversized
       /\ k < Len(blocks) => compressorFull
       /\ blocks' = Remaining(k)
       /\ \E timeout \in {0} \cup BuildTimeouts(k), nf \in 0..MaxFrames :
            /\ IsEarliestTimeout(timeout, BuildTimeouts(k))
            /\ Output(k, timeout, compressorFull \/ TimedOut(timeout, l1), nf)
  /\ UNCHANGED <<tip, closed, l1, loaded>>

(* removePendingChannel. *)
RemovePendingChannel(c) ==
  /\ current' = IF current = c THEN 0 ELSE current
  /\ \/ \E i \in 1..Len(queue) :
          /\ queue[i] = c
          /\ \A j \in 1..(i - 1) : queue[j] # c
          /\ queue' = RemoveAt(queue, i)
     \/ /\ \A i \in 1..Len(queue) : queue[i] # c
        /\ queue' = queue

Confirmed(ch, frame, at) ==
  FramePublished([ch EXCEPT !.pending = @ \ {frame},
                            !.confirmed = @ \cup {[frame |-> frame, at |-> at]}], at)

(* A faulty variant: the blocks of a timed out channel are not put back. *)
RequeuedNever(ch) == blocks

(***************************************************************************)
(* TxConfirmed: the blocks of a channel that turns out to have timed out   *)
(* are put back in front.  (The returned slice is the channel's own, so a  *)
(* later load may write into the array of a channel that was put back; its *)
(* content is not followed any further.)                                   *)
(***************************************************************************)
Requeued(ch) == IF IsTimedOut(ch) THEN ch.blocks \o blocks ELSE blocks

TxConfirmed(tx, at) ==
  /\ at \in (tx.head + 1)..l1
  /\ LET ch == Confirmed(channels[tx.ch], tx.frame, at)
     IN  /\ channels' = [channels EXCEPT ![tx.ch] = ch]
         /\ blocks' = Requeued(ch)
         /\ IF IsTimedOut(ch) \/ IsFullySubmitted(ch)
            THEN RemovePendingChannel(tx.ch)
            ELSE UNCHANGED <<current, queue>>
  /\ txChannels' = txChannels \ {tx}
  /\ UNCHANGED <<tip, closed, l1, loaded>>

(* A faulty variant: the frame is not queued again. *)
FailedDropFrame(ch, frame) == [ch EXCEPT !.pending = @ \ {frame}]

Failed(ch, frame) ==
  [ch EXCEPT !.pending = @ \ {frame}, !.frames = Append(@, frame)]

(* TxFailed: the frame is queued again, after the channel's other frames. *)
TxFailed(tx) ==
  /\ LET ch == Failed(channels[tx.ch], tx.frame)
     IN  /\ channels' = [channels EXCEPT ![tx.ch] = ch]
         /\ IF closed /\ NoneSubmitted(ch)
            THEN RemovePendingChannel(tx.ch)
            ELSE UNCHANGED <<current, queue>>
  /\ txChannels' = txChannels \ {tx}
  /\ UNCHANGED <<blocks, tip, closed, l1, loaded>>

(* A faulty variant: the loop takes the positions it removes at from before it. *)
CloseLoopByPosition ==
  LET step[i \in 0..Len(queue)] ==
        IF i = 0 THEN queue
        ELSE IF ~NoneSubmitted(channels[queue[i]]) \/ i > Len(step[i - 1]) THEN step[i - 1]
        ELSE RemoveAt(step[i - 1], i)
  IN  step[Len(queue)]

(***************************************************************************)
(* The queue after the loop of Close.  The loop ranges over the array that *)
(* removePendingChannel shifts in place, so the channel after a removed    *)
(* one moves into the slot just visited and is skipped, except the last,   *)
(* which stays visible in the vacated slot.                                *)
(***************************************************************************)
CloseLoop ==
  LET step[i \in 0..Len(queue)] ==
        IF i = 0 THEN [array |-> queue, live |-> Len(queue)]
        ELSE LET s     == step[i - 1]
                 found == {p \in 1..s.live : s.array[p] = s.array[i]}
             IN  IF found = {} \/ ~NoneSubmitted(channels[s.array[i]]) THEN s
                 ELSE [array |-> [p \in 1..Len(queue) |->
                                    IF p \in Min(found)..(s.live - 1)
                                    THEN s.array[p + 1] ELSE s.array[p]],
                       live |-> s.live - 1]
      last == step[Len(queue)]
  IN  SubSeq(last.array, 1, last.live)

(* A faulty variant: the open channel is left as it is. *)
CloseCurrentNever(c) == channels' = channels

(* Close, on what is left of currentChannel: no more blocks, all frames out. *)
CloseCurrent(c) ==
  IF c # 0 /\ ~channels[c].full
  THEN \E nf \in FrameCounts(channels[c], TRUE) :
         channels' = [channels EXCEPT ![c] = Packed(channels[c], 0, channels[c].timeout, TRUE, nf)]
  ELSE channels' = channels

Close ==
  /\ ~closed
  /\ closed' = TRUE
  /\ queue' = CloseLoop
  /\ current' = IF current \in Range(queue) \ Range(CloseLoop) THEN 0 ELSE current
  /\ CloseCurrent(current')
  /\ UNCHANGED <<blocks, tip, txChannels, l1, loaded>>

(* Clear: on start and after an L2 reorg has been drained.  Nothing refers to *)
(* a channel afterwards, so only its ID stays taken.                         *)
Clear ==
  /\ blocks' = << >>
  /\ tip' = NoTip
  /\ closed' = FALSE
  /\ current' = 0
  /\ queue' = << >>
  /\ txChannels' = {}
  /\ loaded' = {}
  /\ channels' = [c \in 1..Len(channels) |-> NewChannel]
  /\ UNCHANGED l1

(* The L1 (external). *)
L1Advances ==
  /\ l1 < MaxL1
  /\ l1' = l1 + 1
  /\ UNCHANGED <<blocks, tip, channels, current, queue, txChannels, closed, loaded>>

TxData == TxDataPending \/ TxDataBuild

Next ==
  \/ \E b \in L2Blocks : b.epoch <= l1 /\ AddL2Block(b)
  \/ TxData
  \/ \E tx \in txChannels, at \in 2..l1 : TxConfirmed(tx, at)
  \/ \E tx \in txChannels : TxFailed(tx)
  \/ Close
  \/ Clear
  \/ L1Advances

Spec == Init /\ [][Next]_vars

-----------------------------------------------------------------------------
(***************************************************************************)
(* Properties.                                                             *)
(***************************************************************************)

TypeOK ==
  /\ blocks \in Seq(Block)
  /\ tip \in {NoTip} \cup (Nat \X Nat)
  /\ channels \in Seq(Channel)
  /\ current \in 0..Len(channels)
  /\ queue \in Seq(1..Len(channels))
  /\ txChannels \subseteq [ch : 1..Len(channels), frame : Nat, head : Nat]
  /\ closed \in BOOLEAN
  /\ l1 \in Nat
  /\ loaded \subseteq Block

(***************************************************************************)
(* Each frame a channelBuilder has put out is in exactly one place: queued *)
(* once, in one pending transaction, or confirmed once.  No interleaving   *)
(* of TxData, TxConfirmed and TxFailed loses a frame or sends it twice at  *)
(* the same time.                                                          *)
(***************************************************************************)
FramesAccountedIn(ch) ==
  /\ Range(ch.frames) \cup ch.pending \cup {r.frame : r \in ch.confirmed} = 0..(ch.numFrames - 1)
  /\ IsInjective(ch.frames)
  /\ Range(ch.frames) \cap ch.pending = {}
  /\ \A r \in ch.confirmed : r.frame \notin Range(ch.frames) \cup ch.pending
  /\ \A r, s \in ch.confirmed : r.frame = s.frame => r = s

FramesAccounted == \A c \in 1..Len(channels) : FramesAccountedIn(channels[c])

(* All of the channel is on L1, its frames close enough together. *)
Delivered(ch) ==
  /\ ch.full /\ ch.numFrames > 0
  /\ \A f \in 0..(ch.numFrames - 1) : \E r \in ch.confirmed : r.frame = f
  /\ ~IsTimedOut(ch)

(***************************************************************************)
(* Until Close, every block AddL2Block took is still in the block queue,   *)
(* in a queued channel, or in a channel all of whose frames TxConfirmed    *)
(* has seen on L1 within ChannelTimeout: a timed out channel gives its     *)
(* blocks back, whatever confirmations and failures are outstanding.       *)
(***************************************************************************)
NoBlockLost ==
  ~closed =>
    \A b \in loaded :
      \/ b \in Range(blocks)
      \/ \E c \in 1..Len(channels) :
           /\ b \in Range(channels[c].blocks)
           /\ c \in Range(queue) \/ Delivered(channels[c])

(***************************************************************************)
(* Close only closes currentChannel; that is enough for the drain that     *)
(* follows it: every channel still queued is then full, so its last frame  *)
(* exists and will be handed out by TxData.                                *)
(***************************************************************************)
ClosedQueueIsFull == closed => \A i \in 1..Len(queue) : channels[queue[i]].full

(***************************************************************************)
(* A channel of which a transaction is in flight or on L1 is never given   *)
(* up half-way: it stays queued, so that the rest of it is sent, until all *)
(* of it is on L1 or it has timed out.  This holds through Close, whose    *)
(* loop over the shifting queue drops channels of which nothing was sent,  *)
(* and through failures reported after it.                                 *)
(***************************************************************************)
SubmittedNotAbandoned ==
  \A c \in 1..Len(channels) :
    channels[c].confirmed # {} \/ channels[c].pending # {} =>
      c \in Range(queue) \/ Delivered(channels[c]) \/ IsTimedOut(channels[c])

-----------------------------------------------------------------------------
(***************************************************************************)
(* What makes the properties inductive.                                    *)
(***************************************************************************)

(* A transaction the manager looks up is pending in its channel, once: the *)
(* "unknown transaction" branches of channel.go are never taken.           *)
TxTracked ==
  /\ \A tx \in txChannels : tx.frame \in channels[tx.ch].pending
  /\ \A s, t \in txChannels : s.ch = t.ch /\ s.frame = t.frame => s = t

FullHasFrames == \A c \in 1..Len(channels) : channels[c].full => channels[c].numFrames > 0

(* The open channel, if there is one, is queued; the other queued ones are full. *)
QueueSound ==
  /\ IsInjective(queue)
  /\ current # 0 => current \in Range(queue)
  /\ \A i \in 1..Len(queue) : ~channels[queue[i]].full => queue[i] = current

ManagerInv ==
  /\ TypeOK
  /\ FramesAccounted
  /\ TxTracked
  /\ FullHasFrames
  /\ QueueSound
  /\ NoBlockLost
  /\ ClosedQueueIsFull
  /\ SubmittedNotAbandoned
=============================================================================
