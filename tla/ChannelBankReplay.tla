------------------------- MODULE ChannelBankReplay -------------------------
(***************************************************************************)
(* Two channel banks reading the same L1: that of a pipeline that has been *)
(* running since genesis, and that of a pipeline reset while the L1 origin *)
(* of the safe head was safeOrigin.  EngineQueue.Reset sends the second    *)
(* one back to a base from which it has to buffer channel data; until the  *)
(* L1 traversal reaches safeOrigin again BatchQueue.NextBatch throws away  *)
(* what the bank gives.                                                    *)
(*                                                                         *)
(* A pipeline's reading of the L1 is deterministic, so the second one may  *)
(* as well read each frame together with the first.                        *)
(*                                                                         *)
(* The L1 holds what a batcher with unique channel IDs posts: the frames   *)
(* 0 to lastOf[id] of each channel, in any order, spread over any number   *)
(* of blocks, each at most once unless RepeatedFrames.                     *)
(***************************************************************************)
EXTENDS ChannelBank

CONSTANT RepeatedFrames  \* may a frame be on L1 twice?

ASSUME ReplayAssumption == RepeatedFrames \in BOOLEAN

VARIABLES
  replay,      \* the bank of the pipeline that was reset
  safeOrigin,  \* L1 origin of the safe head at the reset
  lastOf,      \* number of the last frame of each channel
  posted,      \* frames on L1 so far
  outputs,     \* channels the first bank gave, with the L1 block of the reading
  reoutputs    \* ... and the second

replayVars == <<bank, frames, origin, replay, safeOrigin, lastOf, posted, outputs, reoutputs>>

(* A faulty variant: one block too late. *)
BaseTooLate(safe) == IF safe > ChannelTimeout THEN safe - ChannelTimeout + 1 ELSE 0

(***************************************************************************)
(* EngineQueue.Reset walks back the L2 chain, whose L1 origins have no     *)
(* gaps, to the first block with origin + ChannelTimeout <= safeOrigin, or *)
(* to genesis.                                                             *)
(***************************************************************************)
Base(safe) == IF safe > ChannelTimeout THEN safe - ChannelTimeout ELSE 0

Replaying == origin >= Base(safeOrigin)

Output(b, i) ==
  [id |-> b.queue[i], inputs |-> b.channels[b.queue[i]].inputs, at |-> origin]

(* BatchQueue.NextBatch drops what it gets while originBehind. *)
Taken(out) == SelectSeq(out, LAMBDA o : o.at >= safeOrigin)

ReplayInit ==
  /\ Init
  /\ replay = EmptyBank
  /\ safeOrigin \in 0..MaxL1
  /\ lastOf \in [ChannelIDs -> 0..MaxFrameNumber]
  /\ posted = {}
  /\ outputs = << >>
  /\ reoutputs = << >>

(* NextData of each bank while it has something to read or to time out. *)
FirstReads ==
  /\ \/ ReadTimedOut /\ UNCHANGED outputs
     \/ /\ ReadChannel
        /\ \E i \in ReadIndex(bank, origin) : outputs' = Append(outputs, Output(bank, i))
  /\ UNCHANGED <<replay, safeOrigin, lastOf, posted, reoutputs>>

SecondReads ==
  /\ \/ /\ HeadTimedOut(replay, origin)
        /\ replay' = Removed(replay, 1)
        /\ UNCHANGED reoutputs
     \/ /\ ~HeadTimedOut(replay, origin)
        /\ \E i \in ReadIndex(replay, origin) :
             /\ replay' = Removed(replay, i)
             /\ reoutputs' = Append(reoutputs, Output(replay, i))
  /\ UNCHANGED <<bank, frames, origin, safeOrigin, lastOf, posted, outputs>>

BothDrained == NothingToRead(bank, origin) /\ NothingToRead(replay, origin)

(* The next frame of the L1 block, for both. *)
BothLoad ==
  /\ BothDrained
  /\ \E f \in Frame :
       /\ f.number <= lastOf[f.id] /\ (f.last <=> f.number = lastOf[f.id])
       /\ RepeatedFrames \/ f \notin posted
       /\ posted' = posted \cup {f}
       /\ bank' \in IngestFrame(bank, f, origin)
       /\ IF Replaying THEN replay' \in IngestFrame(replay, f, origin) ELSE UNCHANGED replay
  /\ UNCHANGED <<frames, origin, safeOrigin, lastOf, outputs, reoutputs>>

BothAdvance ==
  /\ BothDrained
  /\ AdvanceL1Block
  /\ UNCHANGED <<replay, safeOrigin, lastOf, posted, outputs, reoutputs>>

(* All of the L1 has been read. *)
Finished ==
  /\ origin = MaxL1 /\ BothDrained
  /\ UNCHANGED replayVars

ReplayNext == FirstReads \/ SecondReads \/ BothLoad \/ BothAdvance \/ Finished

ReplaySpec == ReplayInit /\ [][ReplayNext]_replayVars

-----------------------------------------------------------------------------
(***************************************************************************)
(* EngineQueue.Reset goes back far enough, so that resetting "will recover *)
(* the pipeline into a state that produces the same outputs as a full L2   *)
(* derivation process": the batch queues of the two pipelines get the same *)
(* channels, in the same order and L1 blocks.                              *)
(***************************************************************************)
SameOutputs == BothDrained => Taken(outputs) = Taken(reoutputs)
=============================================================================
