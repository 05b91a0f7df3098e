------------------------- MODULE EspressoSequencer -------------------------
(***************************************************************************)
(* The Espresso mode of op-node/rollup/driver/sequencer.go: how the        *)
(* sequencer turns the HotShot blocks of one time window into one L2       *)
(* batch, calls to the query service, the L1 and the engine included.      *)
(*                                                                         *)
(* RunNextSequencerAction runs in the driver's event loop, so the L2 head  *)
(* moves only between two runs.  The HotShot ledger and the L1 move at any *)
(* time, so a run is cut into steps at its external calls (variable pc),   *)
(* each of which may fail.  An error leaves the in-progress batch as it is *)
(* and ends the run (nextAction and the logging are left out); a run that  *)
(* RunNextSequencerAction refuses because the engine is building a safe    *)
(* block changes nothing and is a stutter.                                 *)
(*                                                                         *)
(* External and modelled from their use: the query service answers with    *)
(* the headers it has (as its mock in sequencer_test.go does); the L1 and  *)
(* HotShot grow by the actions at the end of the module.                   *)
(***************************************************************************)
EXTENDS EspressoRules, FiniteSets

CONSTANTS
  NoBatch,       \* espressoBatch = nil
  BundleKinds,   \* what the namespace bundle of a HotShot block may hold
  L1Gaps,        \* possible time between two L1 blocks
  L1Heads,       \* L1 block numbers a HotShot block may reference
  TsSteps,       \* possible time between two HotShot blocks, maybe negative
  MaxLedger,     \* bound: HotShot blocks
  MaxL1,         \* bound: L1 blocks
  MaxReorgs,     \* bound: L1 reorgs
  MaxL2,         \* bound: L2 blocks
  MaxTime        \* bound: L2 time up to which batches are started

VARIABLES
  ledger,         \* HotShot headers, append-only
  l1,             \* canonical L1 chain
  view,           \* number of L1 reorgs so far
  l2,             \* L2 blocks the engine knows
  head,           \* engine.UnsafeL2Head()
  espressoBatch,  \* the InProgressBatch, or NoBatch
  pc,             \* the external call the run is at
  reply,          \* headers received and not yet appended
  origin,         \* the L1 origin chosen by sealEspressoBatch
  sealed          \* history: the batches of the payloads returned

vars == <<ledger, l1, view, l2, head, espressoBatch, pc, reply, origin, sealed>>
envVars == <<ledger, l1, view>>
engineVars == <<l2, head, sealed>>

InProgressBatch ==
  [onto : L2Ref, jst : Justification, txs : Seq(Nat), windowStart : Nat, windowEnd : Nat]

ASSUME SequencerAssumption ==
  /\ NoBatch \notin InProgressBatch
  /\ BundleKinds \subseteq TxKinds
  /\ L1Gaps \subseteq Nat /\ L1Heads \subseteq Nat
  /\ TsSteps \subseteq Int
  /\ MaxLedger \in Nat /\ MaxL1 \in Nat /\ MaxReorgs \in Nat /\ MaxL2 \in Nat
  /\ MaxTime \in Nat

Reply == [window : Seq(Nat), next : Heights]

NoReply == [window |-> << >>, next |-> None]

Origin == [number : Nat, time : Nat, fork : Nat, parentFork : Nat, view : Nat]

NoOrigin == [number |-> 0, time |-> 0, fork |-> 0, parentFork |-> 0, view |-> 0]

SealedBatch ==
  [parent : L2Ref, ts : Nat, epoch : Nat, epochFork : Nat, txs : Seq(Nat),
   jst : Justification, view : Nat, block : L2Ref]

Genesis == [id |-> 0, time |-> BlockTime, origin |-> 0, originFork |-> 0]

Init ==
  /\ ledger = << >>
  /\ l1 = <<[time |-> 0, fork |-> 0, parentFork |-> 0]>>
  /\ view = 0
  /\ l2 = {Genesis}
  /\ head = Genesis
  /\ espressoBatch = NoBatch
  /\ pc = "idle"
  /\ reply = NoReply
  /\ origin = NoOrigin
  /\ sealed = {}

-----------------------------------------------------------------------------
(***************************************************************************)
(* Query service (external).                                               *)
(***************************************************************************)

Ts(h) == ledger[h + 1].ts

HeightRange(from, to) == [i \in 1..(to - from + 1) |-> from + i - 1]

(***************************************************************************)
(* FetchRemainingHeadersForWindow: the known headers from `from' up to the *)
(* first one at or after the end of the window, which is Next.             *)
(***************************************************************************)
RemainingHeaders(from, end) ==
  {[window |-> HeightRange(from, to),
    next   |-> IF to + 1 < Len(ledger) THEN to + 1 ELSE None] :
     to \in {t \in (from - 1)..(Len(ledger) - 1) :
               /\ \A h \in from..t : Ts(h) < end
               /\ t + 1 < Len(ledger) => Ts(t + 1) >= end}}

(***************************************************************************)
(* A reply whose window runs past its end, which updateEspressoBatch calls *)
(* inconsistent data.                                                      *)
(***************************************************************************)
OvershootingHeaders(from, end) ==
  {[window |-> HeightRange(from, to), next |-> None] :
     to \in {t \in from..(Len(ledger) - 1) : Ts(t) >= end}}

HeadersForWindow(from, end) ==
  RemainingHeaders(from, end) \cup OvershootingHeaders(from, end)

FirstInWindow(first, start) ==
  /\ Ts(first) >= start
  /\ \A h \in 0..(first - 1) : Ts(h) < start

-----------------------------------------------------------------------------
(***************************************************************************)
(* The sequencer.                                                          *)
(***************************************************************************)

(* A run begins a batch when there is none for the current head. *)
MustStart == espressoBatch # NoBatch => espressoBatch.onto # head

(* A faulty variant: the window is twice as long as the block. *)
NewBatchLongWindow(prev) ==
  LET windowStart == head.time + BlockTime
  IN  [onto |-> head,
       jst |-> [prev |-> prev, blocks |-> << >>, next |-> None, blank |-> FALSE],
       txs |-> << >>,
       windowStart |-> windowStart,
       windowEnd |-> windowStart + 2 * BlockTime]

NewBatch(prev) ==
  LET windowStart == head.time + BlockTime
  IN  [onto |-> head,
       jst |-> [prev |-> prev, blocks |-> << >>, next |-> None, blank |-> FALSE],
       txs |-> << >>,
       windowStart |-> windowStart,
       windowEnd |-> windowStart + BlockTime]

(***************************************************************************)
(* startBuildingEspressoBatch: FetchHeadersForWindow answers.  Prev is the *)
(* header before the first one of the window, nil if that one is genesis.  *)
(* While no header reaches the window the answer is empty.                 *)
(***************************************************************************)
StartBuildingEspressoBatch ==
  /\ pc = "idle"
  /\ MustStart
  /\ head.time < MaxTime
  /\ LET start == head.time + BlockTime
     IN  \/ \E first \in 0..(Len(ledger) - 1) :
              /\ FirstInWindow(first, start)
              /\ reply' \in HeadersForWindow(first, start + BlockTime)
              /\ espressoBatch' = NewBatch(first - 1)
         \/ /\ \A h \in 0..(Len(ledger) - 1) : Ts(h) < start
            /\ reply' = NoReply
            /\ espressoBatch' = NewBatch(None)
  /\ pc' = "start"
  /\ UNCHANGED <<envVars, engineVars, origin>>

(* FetchHeadersForWindow fails; a batch for another head is already gone. *)
StartFails ==
  /\ pc = "idle"
  /\ MustStart
  /\ espressoBatch' = NoBatch
  /\ UNCHANGED <<envVars, engineVars, pc, reply, origin>>

(***************************************************************************)
(* updateEspressoBatch, one header of newHeaders: check it, fetch its      *)
(* transactions, append both.                                              *)
(***************************************************************************)
AppendHeader ==
  /\ pc \in {"start", "more"}
  /\ reply.window # << >>
  /\ Ts(Head(reply.window)) < espressoBatch.windowEnd
  /\ espressoBatch' =
       [espressoBatch EXCEPT !.jst.blocks = Append(@, Head(reply.window)),
                             !.txs = Append(@, Head(reply.window))]
  /\ reply' = [reply EXCEPT !.window = Tail(@)]
  /\ UNCHANGED <<envVars, engineVars, pc, origin>>

(* A header past the end of the window is a critical error: the driver stops. *)
InconsistentHeader ==
  /\ pc \in {"start", "more"}
  /\ reply.window # << >>
  /\ Ts(Head(reply.window)) >= espressoBatch.windowEnd
  /\ pc' = "halted"
  /\ UNCHANGED <<envVars, engineVars, espressoBatch, reply, origin>>

(* updateEspressoBatch is done with the headers and stores Next. *)
FinishUpdate ==
  /\ pc \in {"start", "more"}
  /\ reply.window = << >>
  /\ espressoBatch' = [espressoBatch EXCEPT !.jst.next = reply.next]
  /\ pc' = IF reply.next # None THEN "seal"
           ELSE IF pc = "start" THEN "poll" ELSE "idle"
  /\ reply' = NoReply
  /\ UNCHANGED <<envVars, engineVars, origin>>

(* tryToSealEspressoBatch runs on a new batch, or first thing on an old one. *)
AtPoll == pc = "poll" \/ (pc = "idle" /\ ~MustStart)

(* A faulty variant: asks again for the last header it has. *)
FetchRemainingFromLast ==
  /\ AtPoll
  /\ espressoBatch.jst.next = None
  /\ Last(espressoBatch.jst) # None
  /\ reply' \in HeadersForWindow(Last(espressoBatch.jst), espressoBatch.windowEnd)
  /\ pc' = "more"
  /\ UNCHANGED <<envVars, engineVars, espressoBatch, origin>>

(***************************************************************************)
(* tryToSealEspressoBatch: an incomplete batch asks for the headers after  *)
(* the last one it has ...                                                 *)
(***************************************************************************)
FetchRemaining ==
  /\ AtPoll
  /\ espressoBatch.jst.next = None
  /\ Last(espressoBatch.jst) # None
  /\ reply' \in HeadersForWindow(Last(espressoBatch.jst) + 1, espressoBatch.windowEnd)
  /\ pc' = "more"
  /\ UNCHANGED <<envVars, engineVars, espressoBatch, origin>>

(* ... and jst.Last() is nil for a batch without any header: a nil dereference. *)
LastIsNil ==
  /\ AtPoll
  /\ espressoBatch.jst.next = None
  /\ Last(espressoBatch.jst) = None

Panic ==
  /\ LastIsNil
  /\ pc' = "halted"
  /\ UNCHANGED <<envVars, engineVars, espressoBatch, reply, origin>>

(* A faulty variant: a batch is sealed only in the run that completed it. *)
CompleteNewOnly ==
  /\ pc = "poll"
  /\ espressoBatch.jst.next # None
  /\ pc' = "seal"
  /\ UNCHANGED <<envVars, engineVars, espressoBatch, reply, origin>>

(* ... a complete batch is sealed. *)
Complete ==
  /\ AtPoll
  /\ espressoBatch.jst.next # None
  /\ pc' = "seal"
  /\ UNCHANGED <<envVars, engineVars, espressoBatch, reply, origin>>

(* A faulty variant: the batch is never emptied. *)
ChooseOriginKeepTxs ==
  /\ pc = "seal"
  /\ LET n   == EspressoL1Origin(l1, espressoBatch.onto,
                                 ledger[espressoBatch.jst.next + 1].l1Head)
         blk == BlockAt(l1, n)
     IN  /\ n # None
         /\ origin' = [number |-> n, time |-> blk.time, fork |-> blk.fork,
                       parentFork |-> blk.parentFork, view |-> view]
  /\ pc' = "prepare"
  /\ UNCHANGED <<envVars, engineVars, espressoBatch, reply>>

(***************************************************************************)
(* sealEspressoBatch, to the fetches of EspressoL1Origin: choose the       *)
(* origin, and empty the batch if it must be.                              *)
(***************************************************************************)
ChooseOrigin ==
  /\ pc = "seal"
  /\ LET b   == espressoBatch
         n   == EspressoL1Origin(l1, b.onto, ledger[b.jst.next + 1].l1Head)
         blk == BlockAt(l1, n)
     IN  /\ n # None
         /\ origin' = [number |-> n, time |-> blk.time, fork |-> blk.fork,
                       parentFork |-> blk.parentFork, view |-> view]
         /\ espressoBatch' =
              IF EspressoBatchMustBeEmpty(blk.time, b.windowStart)
              THEN [b EXCEPT !.txs = << >>, !.jst.blank = TRUE]
              ELSE b
  /\ pc' = "prepare"
  /\ UNCHANGED <<envVars, engineVars, reply>>

(***************************************************************************)
(* PreparePayloadAttributes: the origin must follow the parent's origin or *)
(* be it, and must not be later than the block; otherwise a reset error.   *)
(***************************************************************************)
OriginFits ==
  LET onto == espressoBatch.onto
  IN  /\ IF origin.number # onto.origin
         THEN origin.number = onto.origin + 1 /\ origin.parentFork = onto.originFork
         ELSE origin.fork = onto.originFork
      /\ onto.time + BlockTime >= origin.time

PreparePayloadAttributes ==
  /\ pc = "prepare"
  /\ OriginFits
  /\ pc' = "insert"
  /\ UNCHANGED <<envVars, engineVars, espressoBatch, reply, origin>>

PrepareNeedsReset ==
  /\ pc = "prepare"
  /\ ~OriginFits
  /\ pc' = "idle"
  /\ origin' = NoOrigin
  /\ UNCHANGED <<envVars, engineVars, espressoBatch, reply>>

(***************************************************************************)
(* StartPayload and ConfirmPayload succeed: the payload is the new head    *)
(* and the batch, as BlockToSingularBatch will read it back, is final.     *)
(***************************************************************************)
InsertPayload ==
  /\ pc = "insert"
  /\ Cardinality(l2) < MaxL2
  /\ LET b     == espressoBatch
         block == [id |-> Cardinality(l2), time |-> b.onto.time + BlockTime,
                   origin |-> origin.number, originFork |-> origin.fork]
     IN  /\ head' = block
         /\ l2' = l2 \cup {block}
         /\ sealed' = sealed \cup
              {[parent |-> b.onto, ts |-> b.onto.time + BlockTime, epoch |-> origin.number,
                epochFork |-> origin.fork, txs |-> b.txs, jst |-> b.jst,
                view |-> origin.view, block |-> block]}
  /\ espressoBatch' = NoBatch
  /\ pc' = "idle"
  /\ origin' = NoOrigin
  /\ UNCHANGED <<envVars, reply>>

(* The call the run is at fails: the run ends, the batch stays as it is. *)
CallFails ==
  /\ \/ pc \in {"start", "more"} /\ reply.window # << >>
     \/ pc = "poll" /\ Last(espressoBatch.jst) # None
     \/ pc \in {"seal", "prepare", "insert"}
  /\ pc' = "idle"
  /\ reply' = NoReply
  /\ origin' = NoOrigin
  /\ UNCHANGED <<envVars, engineVars, espressoBatch>>

(* A faulty variant: the batch is forgotten while a run is using it. *)
CancelDuringRun ==
  /\ espressoBatch # NoBatch
  /\ espressoBatch' = NoBatch
  /\ UNCHANGED <<envVars, engineVars, pc, reply, origin>>

(* StopSequencer: CancelBuildingBlock forgets the batch between two runs. *)
CancelBuildingBlock ==
  /\ pc = "idle"
  /\ espressoBatch # NoBatch
  /\ espressoBatch' = NoBatch
  /\ UNCHANGED <<envVars, engineVars, pc, reply, origin>>

(* The process stops, by itself or not, and starts over on the engine's head. *)
Restart ==
  /\ espressoBatch' = NoBatch
  /\ pc' = "idle"
  /\ reply' = NoReply
  /\ origin' = NoOrigin
  /\ UNCHANGED <<envVars, engineVars>>

SequencerStep ==
  \/ StartBuildingEspressoBatch \/ StartFails
  \/ AppendHeader \/ InconsistentHeader \/ FinishUpdate
  \/ FetchRemaining \/ Panic \/ Complete
  \/ ChooseOrigin \/ PreparePayloadAttributes \/ PrepareNeedsReset \/ InsertPayload
  \/ CallFails \/ CancelBuildingBlock \/ Restart

-----------------------------------------------------------------------------
(***************************************************************************)
(* The surroundings (external).                                            *)
(***************************************************************************)

sequencerVars == <<espressoBatch, pc, reply, origin>>

(* Derivation resets the unsafe head to another block the engine has ... *)
HeadReset ==
  /\ pc = "idle"
  /\ head' \in l2 \ {head}
  /\ UNCHANGED <<envVars, sequencerVars, l2, sealed>>

(* ... or inserts a block of its own, on the same L1 origin or the next one. *)
DerivedBlock ==
  /\ pc = "idle"
  /\ Cardinality(l2) < MaxL2
  /\ \E n \in 0..(Len(l1) - 1) :
       /\ n \in {head.origin, head.origin + 1}
       /\ BlockAt(l1, n).time <= head.time + BlockTime
       /\ head' = [id |-> Cardinality(l2), time |-> head.time + BlockTime,
                   origin |-> n, originFork |-> BlockAt(l1, n).fork]
  /\ l2' = l2 \cup {head'}
  /\ UNCHANGED <<envVars, sequencerVars, sealed>>

(***************************************************************************)
(* HotShot decides a block.  Its timestamp may be before its predecessor's *)
(* and its L1 head may be behind, or ahead of what this node has seen.     *)
(***************************************************************************)
HotShotDecides ==
  /\ Len(ledger) < MaxLedger
  /\ \E d \in TsSteps, n \in L1Heads, k \in BundleKinds :
       LET ts == (IF ledger = << >> THEN BlockTime ELSE ledger[Len(ledger)].ts) + d
       IN  /\ ts >= 0
           /\ ledger' = Append(ledger, [ts |-> ts, l1Head |-> n, tx |-> k])
  /\ UNCHANGED <<l1, view, sequencerVars, engineVars>>

L1Grows ==
  /\ Len(l1) < MaxL1
  /\ \E d \in L1Gaps :
       l1' = Append(l1, [time |-> l1[Len(l1)].time + d, fork |-> view,
                         parentFork |-> l1[Len(l1)].fork])
  /\ UNCHANGED <<ledger, view, sequencerVars, engineVars>>

(* An L1 reorg replaces the blocks from some number on. *)
L1Reorg ==
  /\ view < MaxReorgs
  /\ \E n \in 1..(Len(l1) - 1), d \in L1Gaps :
       l1' = Append(SubSeq(l1, 1, n), [time |-> l1[n].time + d, fork |-> view + 1,
                                       parentFork |-> l1[n].fork])
  /\ view' = view + 1
  /\ UNCHANGED <<ledger, sequencerVars, engineVars>>

EnvironmentStep ==
  \/ HeadReset \/ DerivedBlock
  \/ HotShotDecides \/ L1Grows \/ L1Reorg

Next == SequencerStep \/ EnvironmentStep

Spec == Init /\ [][Next]_vars

(***************************************************************************)
(* Fairness: buildEspressoBatch is retried for ever, and a call that is    *)
(* retried for ever does not fail for ever, nor is the sequencer stopped   *)
(* or the service inconsistent before the same point every time; a stopped *)
(* process is started again.  Nothing is assumed of HotShot, the L1 or the *)
(* head.                                                                   *)
(***************************************************************************)
ConsistentReply == \A i \in 1..Len(reply.window) : Ts(reply.window[i]) < espressoBatch.windowEnd

RetriesSucceed ==
  /\ SF_vars(StartBuildingEspressoBatch /\ ConsistentReply')
  /\ SF_vars(FetchRemaining /\ ConsistentReply')
  /\ SF_vars(ConsistentReply /\ AppendHeader)
  /\ SF_vars(FinishUpdate)
  /\ SF_vars(Complete)
  /\ SF_vars(ChooseOrigin)
  /\ SF_vars(PreparePayloadAttributes)
  /\ SF_vars(InsertPayload)

RunsProceed ==
  /\ WF_vars(AppendHeader \/ InconsistentHeader)
  /\ WF_vars(Panic)
  /\ WF_vars(pc = "halted" /\ Restart)

FairSpec == Spec /\ RetriesSucceed /\ RunsProceed

-----------------------------------------------------------------------------
(***************************************************************************)
(* Properties.                                                             *)
(***************************************************************************)

TypeOK ==
  /\ ledger \in Seq(Header)
  /\ l1 \in Seq(L1Block) /\ l1 # << >>
  /\ view \in Nat
  /\ head \in L2Ref /\ l2 \subseteq L2Ref /\ IsFiniteSet(l2)
  /\ espressoBatch \in InProgressBatch \cup {NoBatch}
  /\ pc \in {"idle", "start", "poll", "more", "seal", "prepare", "insert", "halted"}
  /\ pc \notin {"idle", "halted"} => espressoBatch # NoBatch
  /\ reply \in Reply
  /\ origin \in Origin
  /\ sealed \subseteq SealedBatch

(***************************************************************************)
(* The verdict of checkSingularBatch on a sealed batch, on top of its      *)
(* parent, by a pipeline that has read the L1 up to block `upTo', found    *)
(* the batch in L1 block `included', and sees the first `published' HotShot *)
(* commitments in the contract.                                            *)
(***************************************************************************)
Verdict(b, upTo, included, published) ==
  CheckSingularBatch(ledger, published, l1, SubSeq(l1, b.parent.origin + 1, upTo + 1),
                     b.parent.origin, included, TRUE, b.parent, b)

(***************************************************************************)
(* Batches sealed by sealEspressoBatch under the current L1 view are never *)
(* dropped by checkSingularBatch when they reach the L1 in time, however   *)
(* the ledger, the L1 and the contract grew in the meantime.               *)
(***************************************************************************)
SealedNeverDropped ==
  \A b \in sealed :
    b.view = view =>
      \A upTo \in b.parent.origin..(Len(l1) - 1), included \in 0..(b.epoch + SeqWindowSize),
         published \in 0..Len(ledger) :
        Verdict(b, upTo, included, published) \in {"accept", "undecided"}

(***************************************************************************)
(* ... and CheckBatchEspresso accepts them as soon as the HotShot contract *)
(* has the commitment of Next and the pipeline the L1 block after the      *)
(* parent's origin: the sequencer and the pipeline agree on the window,    *)
(* the origin and the transactions.                                        *)
(***************************************************************************)
SealedAcceptedOnceVisible ==
  \A b \in sealed :
    b.view = view =>
      \A upTo \in (b.parent.origin + 1)..(Len(l1) - 1), published \in (b.jst.next + 1)..Len(ledger) :
        Verdict(b, upTo, b.epoch + SeqWindowSize, published) = "accept"

(***************************************************************************)
(* updateEspressoBatch and FetchHeadersForWindow hand over cleanly from    *)
(* one L2 block to the next: the first HotShot block a batch accounts for  *)
(* is the Next of the batch it builds on, so none is skipped or included   *)
(* twice, even though timestamps may decrease.                             *)
(***************************************************************************)
WindowsAbut ==
  \A a, b \in sealed : b.parent = a.block => b.jst.prev + 1 = a.jst.next

(***************************************************************************)
(* Once HotShot has a block past the window of the next L2 block and the   *)
(* L1 blocks its origin may need exist, the sequencer seals a batch on the *)
(* head, unless the head moves or an L1 reorg takes those blocks away: no  *)
(* failed call, restart, cancellation or half-built batch stops            *)
(* RunNextSequencerAction for good.                                        *)
(***************************************************************************)
WindowCovered(id) ==
  /\ head.id = id
  /\ head.time < MaxTime /\ Cardinality(l2) < MaxL2
  /\ \E h \in 0..(Len(ledger) - 1) : Ts(h) >= head.time + 2 * BlockTime
  /\ head.origin + 1 < Len(l1)
  /\ \A i \in 1..Len(ledger) : ledger[i].l1Head < Len(l1)

CoveredWindowIsSealed ==
  \A id \in 0..MaxL2 : WindowCovered(id) ~> ~WindowCovered(id)

-----------------------------------------------------------------------------
(***************************************************************************)
(* The inductive invariants.  WindowInv is about the HotShot blocks of a   *)
(* batch and holds however the L1 moves; ContentInv adds the origin and    *)
(* the transactions, for an L1 without reorgs.                             *)
(***************************************************************************)

(* Every header up to Prev is before the window and Prev's successor is    *)
(* not; Blocks are contiguous from there and before the end of the window; *)
(* Next is their successor and past it.                                    *)
JustificationSound(led, jst, windowStart) ==
  LET lo == jst.prev + 1
      n  == Len(jst.blocks)
  IN  /\ \A h \in 0..jst.prev : h < Len(led) /\ led[h + 1].ts < windowStart
      /\ (jst.prev # None \/ jst.next # None \/ n > 0) =>
            lo < Len(led) /\ led[lo + 1].ts >= windowStart
      /\ \A i \in 1..n : /\ jst.blocks[i] = lo + i - 1
                         /\ jst.blocks[i] < Len(led)
                         /\ led[jst.blocks[i] + 1].ts < windowStart + BlockTime
      /\ jst.next # None => /\ jst.next = lo + n
                            /\ jst.next < Len(led)
                            /\ led[jst.next + 1].ts >= windowStart + BlockTime

BatchWindowSound ==
  espressoBatch # NoBatch =>
    LET b == espressoBatch
    IN  /\ b.windowStart = b.onto.time + BlockTime
        /\ b.windowEnd = b.windowStart + BlockTime
        /\ JustificationSound(ledger, b.jst, b.windowStart)

ReplySound ==
  pc \in {"start", "more"} =>
    LET jst  == espressoBatch.jst
        lo   == jst.prev + 1
        from == lo + Len(jst.blocks)
        n    == Len(reply.window)
    IN  /\ jst.next = None
        /\ \A i \in 1..n : reply.window[i] = from + i - 1 /\ reply.window[i] < Len(ledger)
        /\ (n > 0 \/ reply.next # None) => lo < Len(ledger) /\ Ts(lo) >= espressoBatch.windowStart
        /\ reply.next # None => /\ reply.next = from + n
                                /\ reply.next < Len(ledger)
                                /\ Ts(reply.next) >= espressoBatch.windowEnd

SealHasNext == pc \in {"seal", "prepare", "insert"} => espressoBatch.jst.next # None

SealedWindowSound(b) ==
  /\ b.ts = b.parent.time + BlockTime
  /\ b.block.time = b.ts
  /\ b.jst.next # None
  /\ JustificationSound(ledger, b.jst, b.ts)

WindowInv ==
  /\ TypeOK
  /\ BatchWindowSound
  /\ ReplySound
  /\ SealHasNext
  /\ \A b \in sealed : SealedWindowSound(b)

(* The origin the rules give a batch on `parent'. *)
RequiredOrigin(chain, led, parent, jst) ==
  EspressoL1Origin(chain, parent, led[jst.next + 1].l1Head)

(* A batch is emptied only for an origin that demands it. *)
ContentSound(chain, led, parent, jst, txs, windowStart) ==
  IF jst.blank
  THEN /\ txs = << >>
       /\ jst.next # None
       /\ RequiredOrigin(chain, led, parent, jst) # None
       /\ EspressoBatchMustBeEmpty(
            BlockAt(chain, RequiredOrigin(chain, led, parent, jst)).time, windowStart)
  ELSE txs = jst.blocks

BatchContentSound ==
  espressoBatch # NoBatch =>
    ContentSound(l1, ledger, espressoBatch.onto, espressoBatch.jst, espressoBatch.txs,
                 espressoBatch.windowStart)

OriginSound ==
  pc \in {"prepare", "insert"} =>
    LET b == espressoBatch
    IN  /\ origin.number = RequiredOrigin(l1, ledger, b.onto, b.jst)
        /\ origin.number < Len(l1)
        /\ origin.time = BlockAt(l1, origin.number).time
        /\ origin.fork = BlockAt(l1, origin.number).fork
        /\ EspressoBatchMustBeEmpty(origin.time, b.windowStart) => b.jst.blank
        /\ pc = "insert" => origin.time <= b.windowStart

SealedContentSound(b) ==
  /\ ContentSound(l1, ledger, b.parent, b.jst, b.txs, b.ts)
  /\ b.epoch = RequiredOrigin(l1, ledger, b.parent, b.jst)
  /\ b.epoch < Len(l1)
  /\ b.epochFork = BlockAt(l1, b.epoch).fork
  /\ BlockAt(l1, b.epoch).time <= b.ts
  /\ EspressoBatchMustBeEmpty(BlockAt(l1, b.epoch).time, b.ts) => b.jst.blank

ContentInv ==
  /\ \A i \in 1..Len(ledger) : ledger[i].tx \in BundleKinds
  /\ BatchContentSound
  /\ OriginSound
  /\ \A b \in sealed : SealedContentSound(b)
=============================================================================
