---------------------------- MODULE ChannelBank ----------------------------
(***************************************************************************)
(* The channel bank of the derivation pipeline (op-node/rollup/derive,     *)
(* channel_bank.go and channel.go) with the frame queue it pulls from:     *)
(* frames found in L1 transactions are collected into channels, and a      *)
(* channel is handed to the next stage when it is complete.                *)
(*                                                                         *)
(* The stage is pulled by one goroutine: a call of NextData is one action, *)
(* and the L1 block only advances once NextData has nothing more to give.  *)
(*                                                                         *)
(* Data.  A frame is its channel, number, last flag and size (data and     *)
(* overhead, frameSize).  L1 blocks are their numbers; Canyon is active    *)
(* from block CanyonBlock on, as L1 timestamps increase with the number.   *)
(***************************************************************************)
EXTENDS Integers, Sequences, SequencesExt, FiniteSets, FiniteSetsExt

CONSTANTS
  ChannelTimeout,      \* rollup.Config.ChannelTimeout
  MaxChannelBankSize,  \* params.go MaxChannelBankSize
  CanyonBlock,         \* the first L1 block at or after rollup.Config.CanyonTime
  ChannelIDs,          \* the channel IDs used on L1
  MaxFrameNumber,      \* largest frame number, a uint16
  FrameSizes,          \* possible values of frameSize
  MaxTxFrames,         \* bound: frames in one L1 transaction
  MaxL1                \* bound: L1 blocks

ASSUME ChannelBankAssumption ==
  /\ ChannelTimeout \in Nat /\ MaxChannelBankSize \in Nat /\ CanyonBlock \in Nat
  /\ MaxFrameNumber \in Nat /\ FrameSizes \subseteq Nat /\ MaxTxFrames \in Nat
  /\ MaxL1 \in Nat

Frame ==
  [id : ChannelIDs, number : 0..MaxFrameNumber, last : BOOLEAN, size : FrameSizes]

(* The inputs of a channel, a map from frame number to frame, are the set  *)
(* of its frames.                                                          *)
Channel ==
  [open : Nat, size : Int, closed : BOOLEAN, highest : Nat, end : Nat,
   inputs : SUBSET Frame]

NewChannel(origin) ==
  [open |-> origin, size |-> 0, closed |-> FALSE, highest |-> 0, end |-> 0,
   inputs |-> {}]

-----------------------------------------------------------------------------
(***************************************************************************)
(* Channel.                                                                *)
(***************************************************************************)

InputSize(ch) == MapThenSumSet(LAMBDA g : g.size, ch.inputs)

Numbers(ch) == {g.number : g \in ch.inputs}

(* The checks of AddFrame. *)
Refused(ch, f) ==
  \/ f.last /\ ch.closed
  \/ f.number \in Numbers(ch)
  \/ ch.closed /\ f.number >= ch.end

(* A closing frame below the highest one seen prunes the frames above it. *)
Prunes(ch, f) == f.last /\ f.number < ch.highest

KeptInputs(ch, f) == {g \in ch.inputs : Prunes(ch, f) => g.number < f.number}

(* A faulty variant: the pruned frames stay in the size. *)
AddFrameKeepsSize(ch, f) ==
  [ch EXCEPT !.end     = IF f.last THEN f.number ELSE @,
             !.closed  = @ \/ f.last,
             !.highest = IF Prunes(ch, f) \/ f.number > @ THEN f.number ELSE @,
             !.size    = @ + f.size,
             !.inputs  = KeptInputs(ch, f) \cup {f}]

(***************************************************************************)
(* AddFrame, on a frame it does not refuse.  The pruning loop takes the    *)
(* size of every input off the channel's size, also of those it keeps.     *)
(***************************************************************************)
AddFrame(ch, f) ==
  [ch EXCEPT !.end     = IF f.last THEN f.number ELSE @,
             !.closed  = @ \/ f.last,
             !.highest = IF Prunes(ch, f) \/ f.number > @ THEN f.number ELSE @,
             !.size    = (IF Prunes(ch, f) THEN @ - InputSize(ch) ELSE @) + f.size,
             !.inputs  = KeptInputs(ch, f) \cup {f}]

(* A faulty variant: the closing frame is enough. *)
IsReadyOnClose(ch) == ch.closed

IsReady(ch) == ch.closed /\ Numbers(ch) = 0..ch.end

TimedOut(ch, origin) == ch.open + ChannelTimeout < origin

-----------------------------------------------------------------------------
(***************************************************************************)
(* ChannelBank: a bank is the map of channels and the queue of their IDs.  *)
(***************************************************************************)

EmptyBank == [channels |-> << >>, queue |-> << >>]

(* delete(cb.channels, id) for the IDs that are not kept. *)
Keep(channels, ids) == [id \in ids |-> channels[id]]

TotalSize(bank, from) ==
  MapThenSumSet(LAMBDA i : bank.channels[bank.queue[i]].size, from..Len(bank.queue))

(* prune: channels are dropped from the front until the rest is small enough. *)
Pruned(bank) ==
  {[channels |-> Keep(bank.channels, {bank.queue[i] : i \in k..Len(bank.queue)}),
    queue    |-> SubSeq(bank.queue, k, Len(bank.queue))] :
     k \in {n \in 1..(Len(bank.queue) + 1) :
              /\ TotalSize(bank, n) <= MaxChannelBankSize
              /\ \A j \in 1..(n - 1) : TotalSize(bank, j) > MaxChannelBankSize}}

(* A faulty variant: a new channel goes to the front of the queue. *)
OpenedInFront(bank, id, origin) ==
  IF id \in DOMAIN bank.channels THEN bank
  ELSE [channels |-> [c \in DOMAIN bank.channels \cup {id} |->
                        IF c = id THEN NewChannel(origin) ELSE bank.channels[c]],
        queue    |-> <<id>> \o bank.queue]

Opened(bank, id, origin) ==
  IF id \in DOMAIN bank.channels THEN bank
  ELSE [channels |-> [c \in DOMAIN bank.channels \cup {id} |->
                        IF c = id THEN NewChannel(origin) ELSE bank.channels[c]],
        queue    |-> Append(bank.queue, id)]

(* IngestFrame: the bank that results, as a singleton. *)
IngestFrame(bank, f, origin) ==
  LET opened == Opened(bank, f.id, origin)
      ch     == opened.channels[f.id]
  IN  IF TimedOut(ch, origin) \/ Refused(ch, f) THEN {opened}
      ELSE Pruned([opened EXCEPT !.channels[f.id] = AddFrame(ch, f)])

HeadTimedOut(bank, origin) ==
  bank.queue # << >> /\ TimedOut(bank.channels[bank.queue[1]], origin)

(* tryReadChannelAtIndex succeeds. *)
Readable(bank, i, origin) ==
  /\ ~TimedOut(bank.channels[bank.queue[i]], origin)
  /\ IsReady(bank.channels[bank.queue[i]])

(* Read: only the first channel before Canyon, the first readable one after. *)
ReadIndex(bank, origin) ==
  {i \in 1..Len(bank.queue) :
     /\ Readable(bank, i, origin)
     /\ IF origin >= CanyonBlock
        THEN \A j \in 1..(i - 1) : ~Readable(bank, j, origin)
        ELSE i = 1}

NothingToRead(bank, origin) ==
  ~HeadTimedOut(bank, origin) /\ ReadIndex(bank, origin) = {}

(* A faulty variant: the channel stays in the map. *)
RemovedFromQueue(bank, i) == [bank EXCEPT !.queue = RemoveAt(@, i)]

Removed(bank, i) ==
  [channels |-> Keep(bank.channels, DOMAIN bank.channels \ {bank.queue[i]}),
   queue    |-> RemoveAt(bank.queue, i)]

-----------------------------------------------------------------------------
VARIABLES
  bank,    \* channels and channelQueue
  frames,  \* FrameQueue.frames
  origin   \* number of the L1 block being read

vars == <<bank, frames, origin>>

Init ==
  /\ bank = EmptyBank
  /\ frames = << >>
  /\ origin = 0

(* NextData when the first channel is timed out: no data, without an error. *)
ReadTimedOut ==
  /\ HeadTimedOut(bank, origin)
  /\ bank' = Removed(bank, 1)
  /\ UNCHANGED <<frames, origin>>

(* NextData when a channel can be read. *)
ReadChannel ==
  /\ ~HeadTimedOut(bank, origin)
  /\ \E i \in ReadIndex(bank, origin) : bank' = Removed(bank, i)
  /\ UNCHANGED <<frames, origin>>

(***************************************************************************)
(* NextData otherwise: FrameQueue.NextFrame, which parses the next L1      *)
(* transaction when it has no frame left, and IngestFrame.                 *)
(***************************************************************************)
LoadFrame(queued) ==
  /\ bank' \in IngestFrame(bank, queued[1], origin)
  /\ frames' = Tail(queued)

NextFrame ==
  /\ NothingToRead(bank, origin)
  /\ \/ frames # << >> /\ LoadFrame(frames)
     \/ /\ frames = << >>
        /\ \E n \in 1..MaxTxFrames : \E tx \in [1..n -> Frame] : LoadFrame(tx)
  /\ UNCHANGED origin

(* The L1 block has no transaction left (external): AdvanceL1Block. *)
AdvanceL1Block ==
  /\ NothingToRead(bank, origin)
  /\ frames = << >>
  /\ origin < MaxL1
  /\ origin' = origin + 1
  /\ UNCHANGED <<bank, frames>>

(* Reset of both stages, the traversal going back to some base. *)
Reset ==
  /\ bank' = EmptyBank
  /\ frames' = << >>
  /\ origin' \in 0..origin

Next == ReadTimedOut \/ ReadChannel \/ NextFrame \/ AdvanceL1Block \/ Reset

Spec == Init /\ [][Next]_vars

-----------------------------------------------------------------------------
(***************************************************************************)
(* Properties.                                                             *)
(***************************************************************************)

(* The map and the queue hold the same channels, each once: prune and Read *)
(* look up in the map what they find in the queue.                         *)
TypeOK ==
  /\ bank.queue \in Seq(ChannelIDs) /\ IsInjective(bank.queue)
  /\ bank.channels \in [Range(bank.queue) -> Channel]
  /\ frames \in Seq(Frame)
  /\ origin \in Nat

(***************************************************************************)
(* When Read has nothing to give, no channel of the bank is timed out,     *)
(* although Read only ever removes the first one: "channel is timed out,   *)
(* ignore frame" of IngestFrame is never reached, and a channel ID whose   *)
(* channel timed out can be used again.                                    *)
(***************************************************************************)
NoTimedOutLeft ==
  NothingToRead(bank, origin) =>
    \A id \in DOMAIN bank.channels : ~TimedOut(bank.channels[id], origin)

(***************************************************************************)
(* What Read hands out is a whole channel: its frames 0 to the closing     *)
(* one, which is the only closing frame, however the frames were ordered,  *)
(* repeated or contradictory on L1.                                        *)
(***************************************************************************)
ReadIsComplete ==
  \A i \in ReadIndex(bank, origin) :
    LET ch == bank.channels[bank.queue[i]]
    IN  \A n \in 0..ch.end : \E g \in ch.inputs :
          /\ g.number = n /\ (g.last <=> n = ch.end)
          /\ \A h \in ch.inputs : h.number = n => h = g

(***************************************************************************)
(* The size of a channel, an unsigned number that AddFrame subtracts from, *)
(* never underflows and never exceeds what the channel holds, so prune     *)
(* drops a channel only when the bank is really too large.                 *)
(***************************************************************************)
SizeNeverUnderflows ==
  \A id \in DOMAIN bank.channels :
    bank.channels[id].size \in 0..InputSize(bank.channels[id])
=============================================================================
