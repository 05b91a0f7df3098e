---------------------- MODULE EspressoSequencerProofs ----------------------
(* Theorems about EspressoSequencer, checked by TLAPS. *)
EXTENDS EspressoSequencer, FiniteSetTheorems, SequenceTheorems, TLAPS

(***************************************************************************)
(* A range of heights is the sequence of its members in order.             *)
(***************************************************************************)
LEMMA HeightRangeFacts ==
  ASSUME NEW from \in Nat, NEW to \in Int, to >= from - 1
  PROVE  /\ HeightRange(from, to) \in Seq(Nat)
         /\ Len(HeightRange(from, to)) = to - from + 1
         /\ \A i \in 1..(to - from + 1) : HeightRange(from, to)[i] = from + i - 1
<1> DEFINE n == to - from + 1
           s == HeightRange(from, to)
<1>1. n \in Nat
  OBVIOUS
<1>2. s = [i \in 1..n |-> from + i - 1]
  BY DEF HeightRange
<1>3. \A i \in 1..n : from + i - 1 \in Nat
  OBVIOUS
<1>4. s \in [1..n -> Nat]
  BY <1>2, <1>3
<1>5. s \in Seq(Nat)
  BY <1>1, <1>4, SeqDef
<1>6. Len(s) = n
  BY <1>1, <1>4, <1>5, LenProperties
<1>7. QED
  BY <1>2, <1>5, <1>6

(***************************************************************************)
(* What a reply of the query service may be: the heights from `from' on,   *)
(* and for Next the height after them, past the end of the window.         *)
(***************************************************************************)
LEMMA ReplyFacts ==
  ASSUME ledger \in Seq(Header), NEW from \in Nat,
         NEW end \in Nat, NEW r \in HeadersForWindow(from, end)
  PROVE  /\ r \in Reply
         /\ \A i \in 1..Len(r.window) :
              r.window[i] = from + i - 1 /\ r.window[i] < Len(ledger)
         /\ r.next # None => /\ r.next = from + Len(r.window)
                             /\ r.next < Len(ledger)
                             /\ Ts(r.next) >= end
<1>1. Len(ledger) \in Nat
  OBVIOUS
<1>2. CASE r \in RemainingHeaders(from, end)
  <2>1. PICK to \in (from - 1)..(Len(ledger) - 1) :
           /\ to + 1 < Len(ledger) => Ts(to + 1) >= end
           /\ r = [window |-> HeightRange(from, to),
                   next   |-> IF to + 1 < Len(ledger) THEN to + 1 ELSE None]
    BY <1>2 DEF RemainingHeaders
  <2>0. to \in Int /\ to >= from - 1 /\ r.window = HeightRange(from, to)
    BY <1>1, <2>1
  <2>2. /\ r.window \in Seq(Nat) /\ Len(r.window) = to - from + 1
        /\ \A i \in 1..(to - from + 1) : r.window[i] = from + i - 1
    BY <2>0, HeightRangeFacts
  <2>3. r \in Reply
    BY <1>1, <2>1, <2>2 DEF Reply, Heights, None
  <2>4. QED
    BY <1>1, <2>1, <2>2, <2>3 DEF None
<1>3. CASE r \in OvershootingHeaders(from, end)
  <2>1. PICK to \in from..(Len(ledger) - 1) :
           r = [window |-> HeightRange(from, to), next |-> None]
    BY <1>3 DEF OvershootingHeaders
  <2>0. to \in Int /\ to >= from - 1 /\ r.window = HeightRange(from, to)
    BY <1>1, <2>1
  <2>2. /\ r.window \in Seq(Nat) /\ Len(r.window) = to - from + 1
        /\ \A i \in 1..(to - from + 1) : r.window[i] = from + i - 1
    BY <2>0, HeightRangeFacts
  <2>3. r \in Reply
    BY <1>1, <2>1, <2>2 DEF Reply, Heights, None
  <2>4. QED
    BY <1>1, <2>1, <2>2, <2>3
<1>4. QED
  BY <1>2, <1>3 DEF HeadersForWindow

-----------------------------------------------------------------------------
(***************************************************************************)
(* EspressoL1Origin answers with an L1 block the node has, the parent's    *)
(* origin or the one after it.                                             *)
(***************************************************************************)
LEMMA OriginFound ==
  ASSUME NEW c \in Seq(L1Block), NEW parent \in L2Ref, NEW suggested,
         EspressoL1Origin(c, parent, suggested) # None,
         suggested \in Nat
  PROVE  LET n == EspressoL1Origin(c, parent, suggested)
         IN  n \in {parent.origin, parent.origin + 1} /\ n \in Nat /\ n < Len(c)
<1>1. parent.origin \in Nat /\ LaggedSuggestion(suggested) \in Nat
  BY ConfigAssumption DEF L2Ref, LaggedSuggestion
<1>2. QED
  BY <1>1 DEF EspressoL1Origin, L1BlockRefByNumber, HasBlock, None

-----------------------------------------------------------------------------
(***************************************************************************)
(* The variables have their types, and a run past its first call has a     *)
(* batch.                                                                  *)
(***************************************************************************)
LEMMA TypeInit == Init => TypeOK
<1> SUFFICES ASSUME Init PROVE TypeOK
  OBVIOUS
<1>1. Genesis \in L2Ref
  BY ConfigAssumption DEF Genesis, L2Ref
<1>2. l2 \subseteq L2Ref /\ IsFiniteSet(l2) /\ head \in L2Ref
  BY <1>1, FS_Singleton DEF Init
<1>3. l1 \in Seq(L1Block) /\ l1 # << >>
  BY DEF Init, L1Block
<1>4. ledger \in Seq(Header) /\ view \in Nat /\ sealed \subseteq SealedBatch
  BY DEF Init
<1>5. reply \in Reply /\ origin \in Origin
  BY DEF Init, NoReply, NoOrigin, Reply, Origin, Heights, None
<1>6. QED
  BY <1>2, <1>3, <1>4, <1>5 DEF TypeOK, Init

(* The next block's identifier is a number. *)
LEMMA FreshId == ASSUME TypeOK PROVE Cardinality(l2) \in Nat
  BY FS_CardinalityType DEF TypeOK

(* An update of the batch in progress is a batch. *)
LEMMA BatchUpdateType ==
  ASSUME NEW b \in InProgressBatch, NEW j \in Justification, NEW t \in Seq(Nat)
  PROVE  [b EXCEPT !.jst = j, !.txs = t] \in InProgressBatch
  BY DEF InProgressBatch

(* A batch just started is a batch. *)
LEMMA NewBatchType ==
  ASSUME TypeOK, NEW prev \in Heights
  PROVE  NewBatch(prev) \in InProgressBatch
<1>1. head \in L2Ref /\ head.time \in Nat
  BY DEF TypeOK, L2Ref
<1>2. [prev |-> prev, blocks |-> << >>, next |-> None, blank |-> FALSE] \in Justification
  BY DEF Justification, Heights
<1>3. QED
  BY <1>1, <1>2, ConfigAssumption DEF NewBatch, InProgressBatch

(* Sealing finds its Next in the ledger. *)
NextKnown == pc = "seal" => espressoBatch.jst.next \in 0..(Len(ledger) - 1)

(* Every step preserves the typing. *)
LEMMA TypeStep ==
  ASSUME TypeOK, NextKnown, [Next]_vars
  PROVE  TypeOK'
<1> USE SequencerAssumption, ConfigAssumption
<1>0. NoReply \in Reply /\ NoOrigin \in Origin
  BY DEF NoReply, NoOrigin, Reply, Origin, Heights, None
<1>1. CASE StartBuildingEspressoBatch
  <2>1. head.time + BlockTime \in Nat /\ head.time + BlockTime + BlockTime \in Nat
    BY DEF TypeOK, L2Ref
  <2>2. CASE \E first \in 0..(Len(ledger) - 1) :
               /\ FirstInWindow(first, head.time + BlockTime)
               /\ reply' \in HeadersForWindow(first, head.time + BlockTime + BlockTime)
               /\ espressoBatch' = NewBatch(first - 1)
    <3>1. PICK first \in 0..(Len(ledger) - 1) :
               /\ reply' \in HeadersForWindow(first, head.time + BlockTime + BlockTime)
               /\ espressoBatch' = NewBatch(first - 1)
      BY <2>2
    <3>2. first \in Nat /\ first - 1 \in Heights
      BY <3>1 DEF Heights, None, TypeOK
    <3>3. reply' \in Reply
      BY <2>1, <3>1, <3>2, ReplyFacts DEF TypeOK
    <3>4. espressoBatch' \in InProgressBatch
      BY <3>1, <3>2, NewBatchType
    <3>5. QED
      BY <1>1, <3>3, <3>4 DEF StartBuildingEspressoBatch, TypeOK, envVars, engineVars
  <2>3. CASE reply' = NoReply /\ espressoBatch' = NewBatch(None)
    <3>1. espressoBatch' \in InProgressBatch
      BY <2>3, NewBatchType DEF Heights
    <3>2. QED
      BY <1>0, <1>1, <2>3, <3>1 DEF StartBuildingEspressoBatch, TypeOK, envVars, engineVars
  <2>4. QED
    BY <1>1, <2>2, <2>3 DEF StartBuildingEspressoBatch
<1>2. CASE StartFails
  BY <1>2 DEF StartFails, TypeOK, envVars, engineVars
<1>3. CASE AppendHeader
  <2>1. /\ espressoBatch \in InProgressBatch
        /\ reply.window \in Seq(Nat) /\ reply.window # << >>
    BY <1>3 DEF AppendHeader, TypeOK, Reply
  <2>2. Head(reply.window) \in Nat /\ Tail(reply.window) \in Seq(Nat)
    BY <2>1, HeadTailProperties
  <2>3. reply' \in Reply
    BY <1>3, <2>2 DEF AppendHeader, TypeOK, Reply
  <2>4. espressoBatch' \in InProgressBatch
    <3> DEFINE h == Head(reply.window)
               j == [espressoBatch.jst EXCEPT !.blocks = Append(espressoBatch.jst.blocks, h)]
               t == Append(espressoBatch.txs, h)
    <3>1. espressoBatch.jst \in Justification /\ espressoBatch.txs \in Seq(Nat)
      BY <2>1 DEF InProgressBatch
    <3>2. t \in Seq(Nat)
      BY <2>2, <3>1, AppendProperties
    <3>3. Append(espressoBatch.jst.blocks, h) \in Seq(Nat)
      BY <2>2, <3>1, AppendProperties DEF Justification
    <3>4. j \in Justification
      BY <3>1, <3>3 DEF Justification
    <3>5. espressoBatch' = [espressoBatch EXCEPT !.jst = j, !.txs = t]
      BY <1>3 DEF AppendHeader
    <3> HIDE DEF j, t
    <3>6. QED
      BY <2>1, <3>2, <3>4, <3>5, BatchUpdateType
  <2>5. QED
    BY <1>3, <2>3, <2>4 DEF AppendHeader, TypeOK, envVars, engineVars
<1>4. CASE InconsistentHeader
  BY <1>4 DEF InconsistentHeader, TypeOK, envVars, engineVars
<1>5. CASE FinishUpdate
  <2>1. espressoBatch \in InProgressBatch /\ reply.next \in Heights
    BY <1>5 DEF FinishUpdate, TypeOK, Reply
  <2>2. espressoBatch' \in InProgressBatch
    <3>1. [espressoBatch.jst EXCEPT !.next = reply.next] \in Justification
      BY <2>1 DEF InProgressBatch, Justification
    <3>2. espressoBatch' = [espressoBatch EXCEPT
                              !.jst = [espressoBatch.jst EXCEPT !.next = reply.next]]
      BY <1>5, <2>1 DEF FinishUpdate, InProgressBatch
    <3>3. QED
      BY <2>1, <3>1, <3>2 DEF InProgressBatch
  <2>3. QED
    BY <1>0, <1>5, <2>2 DEF FinishUpdate, TypeOK, envVars, engineVars
<1>6. CASE FetchRemaining
  <2>1. espressoBatch \in InProgressBatch
    BY <1>6 DEF FetchRemaining, AtPoll, MustStart, TypeOK
  <2>2. Last(espressoBatch.jst) + 1 \in Nat /\ espressoBatch.windowEnd \in Nat
    BY <1>6, <2>1 DEF FetchRemaining, Last, InProgressBatch, Justification, Heights, None
  <2>3. reply' \in Reply
    BY <1>6, <2>2, ReplyFacts DEF FetchRemaining, TypeOK
  <2>4. QED
    BY <1>6, <2>1, <2>3 DEF FetchRemaining, TypeOK, envVars, engineVars
<1>7. CASE Panic
  BY <1>7 DEF Panic, TypeOK, envVars, engineVars
<1>8. CASE Complete
  BY <1>8 DEF Complete, AtPoll, MustStart, TypeOK, envVars, engineVars
<1>9. CASE ChooseOrigin
  <2>1. espressoBatch \in InProgressBatch
    BY <1>9 DEF ChooseOrigin, TypeOK
  <2>2. espressoBatch' \in InProgressBatch
    <3>1. [espressoBatch.jst EXCEPT !.blank = TRUE] \in Justification
      BY <2>1 DEF InProgressBatch, Justification
    <3>2. \/ espressoBatch' = espressoBatch
          \/ espressoBatch' = [espressoBatch EXCEPT
                !.jst = [espressoBatch.jst EXCEPT !.blank = TRUE], !.txs = << >>]
      BY <1>9, <2>1 DEF ChooseOrigin, InProgressBatch
    <3>3. << >> \in Seq(Nat)
      OBVIOUS
    <3>4. QED
      BY <2>1, <3>1, <3>2, <3>3, BatchUpdateType
  <2>3. origin' \in Origin
    <3>1. PICK n : /\ n # None
                   /\ n = EspressoL1Origin(l1, espressoBatch.onto,
                                           ledger[espressoBatch.jst.next + 1].l1Head)
                   /\ origin' = [number |-> n, time |-> BlockAt(l1, n).time,
                                 fork |-> BlockAt(l1, n).fork,
                                 parentFork |-> BlockAt(l1, n).parentFork, view |-> view]
      BY <1>9 DEF ChooseOrigin
    <3>0. ledger[espressoBatch.jst.next + 1].l1Head \in Nat
      <4>1. espressoBatch.jst.next + 1 \in 1..Len(ledger)
        <5>1. pc = "seal"
          BY <1>9 DEF ChooseOrigin
        <5>2. espressoBatch.jst.next \in 0..(Len(ledger) - 1)
          BY <5>1 DEF NextKnown
        <5>3. Len(ledger) \in Nat
          BY DEF TypeOK
        <5>4. QED
          BY <5>2, <5>3
      <4>2. ledger[espressoBatch.jst.next + 1] \in Header
        BY <4>1 DEF TypeOK
      <4>3. QED
        BY <4>2 DEF Header
    <3>2. n \in Nat /\ n < Len(l1)
      BY <2>1, <3>0, <3>1, OriginFound DEF TypeOK, InProgressBatch
    <3>3. BlockAt(l1, n) \in L1Block
      BY <3>2 DEF BlockAt, TypeOK
    <3>4. QED
      BY <3>1, <3>2, <3>3 DEF Origin, L1Block, TypeOK
  <2>4. QED
    BY <1>9, <2>2, <2>3 DEF ChooseOrigin, TypeOK, envVars, engineVars
<1>10. CASE PreparePayloadAttributes
  BY <1>10 DEF PreparePayloadAttributes, TypeOK, envVars, engineVars
<1>11. CASE PrepareNeedsReset
  BY <1>0, <1>11 DEF PrepareNeedsReset, TypeOK, envVars, engineVars
<1>12. CASE InsertPayload
  <2>1. espressoBatch \in InProgressBatch /\ origin \in Origin
    BY <1>12 DEF InsertPayload, TypeOK
  <2> DEFINE b     == espressoBatch
             block == [id |-> Cardinality(l2), time |-> b.onto.time + BlockTime,
                       origin |-> origin.number, originFork |-> origin.fork]
             batch == [parent |-> b.onto, ts |-> b.onto.time + BlockTime,
                       epoch |-> origin.number, epochFork |-> origin.fork, txs |-> b.txs,
                       jst |-> b.jst, view |-> origin.view, block |-> block]
  <2>2. block \in L2Ref
    BY <2>1, FreshId DEF InProgressBatch, L2Ref, Origin
  <2>3. batch \in SealedBatch
    BY <2>1, <2>2 DEF InProgressBatch, L2Ref, Origin, SealedBatch
  <2>4. head' = block /\ l2' = l2 \cup {block} /\ sealed' = sealed \cup {batch}
    BY <1>12 DEF InsertPayload
  <2>5. IsFiniteSet(l2')
    BY <2>4, FS_AddElement DEF TypeOK
  <2> HIDE DEF block, batch
  <2>6. QED
    BY <1>0, <1>12, <2>2, <2>3, <2>4, <2>5 DEF InsertPayload, TypeOK, envVars
<1>13. CASE CallFails
  BY <1>0, <1>13 DEF CallFails, TypeOK, envVars, engineVars
<1>14. CASE CancelBuildingBlock
  BY <1>14 DEF CancelBuildingBlock, TypeOK, envVars, engineVars
<1>15. CASE Restart
  BY <1>0, <1>15 DEF Restart, TypeOK, envVars, engineVars
<1>16. CASE HeadReset
  BY <1>16 DEF HeadReset, TypeOK, envVars, sequencerVars
<1>17. CASE DerivedBlock
  <2>1. PICK n \in 0..(Len(l1) - 1) :
           head' = [id |-> Cardinality(l2), time |-> head.time + BlockTime,
                    origin |-> n, originFork |-> BlockAt(l1, n).fork]
    BY <1>17 DEF DerivedBlock
  <2>2. n \in Nat /\ BlockAt(l1, n) \in L1Block
    BY <2>1 DEF BlockAt, TypeOK
  <2>3. head' \in L2Ref
    <3>1. Cardinality(l2) \in Nat
      BY FreshId
    <3>3. BlockAt(l1, n).fork \in Nat
      BY <2>2 DEF L1Block
    <3>4. head.time + BlockTime \in Nat
      BY DEF L2Ref, TypeOK
    <3>2. QED
      BY <2>1, <2>2, <3>1, <3>3, <3>4 DEF L2Ref
  <2>4. l2' \subseteq L2Ref /\ IsFiniteSet(l2')
    BY <1>17, <2>3, FS_AddElement DEF DerivedBlock, TypeOK
  <2>5. QED
    BY <1>17, <2>3, <2>4 DEF DerivedBlock, TypeOK, envVars, sequencerVars
<1>18. CASE HotShotDecides
  <2>1. PICK d \in TsSteps, n \in L1Heads, k \in BundleKinds :
          LET ts == (IF ledger = << >> THEN BlockTime ELSE ledger[Len(ledger)].ts) + d
          IN  /\ ts >= 0
              /\ ledger' = Append(ledger, [ts |-> ts, l1Head |-> n, tx |-> k])
    BY <1>18 DEF HotShotDecides
  <2> DEFINE ts == (IF ledger = << >> THEN BlockTime ELSE ledger[Len(ledger)].ts) + d
  <2>2. ledger # << >> => ledger[Len(ledger)] \in Header
    BY DEF TypeOK
  <2>3. ts \in Nat
    BY <2>1, <2>2 DEF Header
  <2>4. [ts |-> ts, l1Head |-> n, tx |-> k] \in Header
    BY <2>3 DEF Header
  <2>5. ledger' \in Seq(Header)
    BY <2>1, <2>4 DEF TypeOK
  <2>6. QED
    BY <1>18, <2>5 DEF HotShotDecides, TypeOK, sequencerVars, engineVars
<1>19. CASE L1Grows
  <2>1. PICK d \in L1Gaps :
          l1' = Append(l1, [time |-> l1[Len(l1)].time + d, fork |-> view,
                            parentFork |-> l1[Len(l1)].fork])
    BY <1>19 DEF L1Grows
  <2>2. l1[Len(l1)] \in L1Block
    BY DEF TypeOK
  <2>3. l1' \in Seq(L1Block) /\ l1' # << >>
    <3>1. d \in Nat /\ l1[Len(l1)].time + d \in Nat /\ view \in Nat /\ l1[Len(l1)].fork \in Nat
      BY <2>1, <2>2 DEF L1Block, TypeOK
    <3>2. [time |-> l1[Len(l1)].time + d, fork |-> view, parentFork |-> l1[Len(l1)].fork]
             \in L1Block
      BY <3>1 DEF L1Block
    <3>3. QED
      BY <2>1, <3>2, AppendProperties DEF TypeOK
  <2>4. QED
    BY <1>19, <2>3 DEF L1Grows, TypeOK, sequencerVars, engineVars
<1>20. CASE L1Reorg
  <2>1. PICK n \in 1..(Len(l1) - 1), d \in L1Gaps :
          l1' = Append(SubSeq(l1, 1, n), [time |-> l1[n].time + d, fork |-> view + 1,
                                          parentFork |-> l1[n].fork])
    BY <1>20 DEF L1Reorg
  <2>2. l1[n] \in L1Block /\ SubSeq(l1, 1, n) \in Seq(L1Block)
    <3>1. n \in 1..Len(l1) /\ n \in Nat
      BY <2>1 DEF TypeOK
    <3>2. \A i \in 1..n : l1[i] \in L1Block
      BY <3>1 DEF TypeOK
    <3>3. QED
      BY <3>1, <3>2, SubSeqProperties DEF TypeOK
  <2>3. l1' \in Seq(L1Block) /\ l1' # << >>
    <3>0. d \in Nat /\ l1[n].time \in Nat /\ l1[n].fork \in Nat
      BY <2>1, <2>2 DEF L1Block
    <3>1. l1[n].time + d \in Nat /\ view + 1 \in Nat /\ l1[n].fork \in Nat
      BY <3>0 DEF TypeOK
    <3>2. [time |-> l1[n].time + d, fork |-> view + 1, parentFork |-> l1[n].fork] \in L1Block
      BY <3>1 DEF L1Block
    <3>3. QED
      BY <2>1, <2>2, <3>2, AppendProperties
  <2>5. view' \in Nat
    BY <1>20 DEF L1Reorg, TypeOK
  <2>4. QED
    BY <1>20, <2>3, <2>5 DEF L1Reorg, TypeOK, sequencerVars, engineVars
<1>21. CASE UNCHANGED vars
  BY <1>21 DEF vars, TypeOK
<1>22. QED
  BY <1>1, <1>2, <1>3, <1>4, <1>5, <1>6, <1>7, <1>8, <1>9, <1>10, <1>11, <1>12, <1>13,
     <1>14, <1>15, <1>16, <1>17, <1>18, <1>19, <1>20, <1>21
     DEF Next, SequencerStep, EnvironmentStep


-----------------------------------------------------------------------------
(***************************************************************************)
(* The ledger only grows, so what a justification says stays true.         *)
(***************************************************************************)
LedgerGrows ==
  /\ ledger' \in Seq(Header)
  /\ Len(ledger) <= Len(ledger')
  /\ \A i \in 1..Len(ledger) : ledger'[i] = ledger[i]

(* HotShot only grows. *)
LEMMA LedgerStep ==
  ASSUME TypeOK, TypeOK', [Next]_vars
  PROVE  LedgerGrows
<1>1. CASE HotShotDecides
  <2>1. PICK x : ledger' = Append(ledger, x)
    BY <1>1 DEF HotShotDecides
  <2>2. QED
    BY <2>1 DEF LedgerGrows, TypeOK
<1>2. CASE ledger' = ledger
  BY <1>2 DEF LedgerGrows, TypeOK
<1>3. ledger' = ledger \/ HotShotDecides
  BY DEF Next, SequencerStep, EnvironmentStep, vars, envVars, StartBuildingEspressoBatch,
         StartFails, AppendHeader, InconsistentHeader, FinishUpdate, FetchRemaining, Panic,
         Complete, ChooseOrigin, PreparePayloadAttributes, PrepareNeedsReset, InsertPayload,
         CallFails, CancelBuildingBlock, Restart, HeadReset, DerivedBlock, L1Grows, L1Reorg
<1>4. QED
  BY <1>1, <1>2, <1>3

(* A justification stays true of a longer HotShot chain. *)
LEMMA JustificationStable ==
  ASSUME ledger \in Seq(Header), LedgerGrows,
         NEW j \in Justification, NEW w \in Nat, JustificationSound(ledger, j, w)
  PROVE  JustificationSound(ledger', j, w)
<1>1. /\ j.prev \in Int /\ j.prev >= -1 /\ j.next \in Int /\ j.next >= -1
      /\ j.blocks \in Seq(Nat) /\ Len(j.blocks) \in Nat
  BY DEF Justification, Heights, None
<1>2. Len(ledger) \in Nat /\ Len(ledger') \in Nat
  BY DEF LedgerGrows
<1>3. \A h \in 0..(Len(ledger) - 1) : ledger'[h + 1] = ledger[h + 1]
  BY <1>2 DEF LedgerGrows
<1>4. \A i \in 1..Len(j.blocks) : j.blocks[i] \in Nat
  BY <1>1
<1> DEFINE lo == j.prev + 1
           n  == Len(j.blocks)
<1>5. \A h \in 0..j.prev : h < Len(ledger') /\ ledger'[h + 1].ts < w
  <2> SUFFICES ASSUME NEW h \in 0..j.prev
               PROVE  h < Len(ledger') /\ ledger'[h + 1].ts < w
    OBVIOUS
  <2>1. h < Len(ledger) /\ ledger[h + 1].ts < w
    BY DEF JustificationSound
  <2>2. h \in 0..(Len(ledger) - 1)
    BY <1>1, <1>2, <2>1
  <2>3. QED
    BY <1>2, <1>3, <2>1, <2>2 DEF LedgerGrows
<1>6. (j.prev # None \/ j.next # None \/ n > 0) =>
        lo < Len(ledger') /\ ledger'[lo + 1].ts >= w
  <2> SUFFICES ASSUME j.prev # None \/ j.next # None \/ n > 0
               PROVE  lo < Len(ledger') /\ ledger'[lo + 1].ts >= w
    OBVIOUS
  <2>1. lo < Len(ledger) /\ ledger[lo + 1].ts >= w
    BY DEF JustificationSound, Ts
  <2>2. lo \in 0..(Len(ledger) - 1)
    BY <1>1, <1>2, <2>1
  <2>3. QED
    BY <1>2, <1>3, <2>1, <2>2 DEF LedgerGrows
<1>7. \A i \in 1..n : /\ j.blocks[i] = lo + i - 1
                     /\ j.blocks[i] < Len(ledger')
                     /\ ledger'[j.blocks[i] + 1].ts < w + BlockTime
  <2> SUFFICES ASSUME NEW i \in 1..n
               PROVE  /\ j.blocks[i] = lo + i - 1
                      /\ j.blocks[i] < Len(ledger')
                      /\ ledger'[j.blocks[i] + 1].ts < w + BlockTime
    OBVIOUS
  <2>1. /\ j.blocks[i] = lo + i - 1 /\ j.blocks[i] < Len(ledger)
        /\ ledger[j.blocks[i] + 1].ts < w + BlockTime
    BY <1>1 DEF JustificationSound, Ts
  <2>2. j.blocks[i] \in 0..(Len(ledger) - 1)
    BY <1>2, <1>4, <2>1
  <2>3. QED
    BY <1>2, <1>3, <2>1, <2>2 DEF LedgerGrows
<1>8. j.next # None => /\ j.next = lo + n
                       /\ j.next < Len(ledger')
                       /\ ledger'[j.next + 1].ts >= w + BlockTime
  <2> SUFFICES ASSUME j.next # None
               PROVE  /\ j.next = lo + n /\ j.next < Len(ledger')
                      /\ ledger'[j.next + 1].ts >= w + BlockTime
    OBVIOUS
  <2>1. /\ j.next = lo + n /\ j.next < Len(ledger)
        /\ ledger[j.next + 1].ts >= w + BlockTime
    BY DEF JustificationSound, Ts
  <2>2. j.next \in 0..(Len(ledger) - 1)
    BY <1>1, <1>2, <2>1 DEF None
  <2>3. QED
    BY <1>2, <1>3, <2>1, <2>2 DEF LedgerGrows
<1>9. QED
  BY <1>5, <1>6, <1>7, <1>8 DEF JustificationSound, Ts

(* Sealed windows stay exact when HotShot grows. *)
LEMMA SealedWindowStable ==
  ASSUME WindowInv, LedgerGrows, NEW b \in sealed
  PROVE  SealedWindowSound(b)'
<1>1. b \in SealedBatch /\ SealedWindowSound(b) /\ ledger \in Seq(Header)
  BY DEF WindowInv, TypeOK
<1>2. b.jst \in Justification /\ b.ts \in Nat
  BY <1>1 DEF SealedBatch
<1>3. JustificationSound(ledger', b.jst, b.ts)
  BY <1>1, <1>2, JustificationStable DEF SealedWindowSound
<1>4. QED
  BY <1>1, <1>3 DEF SealedWindowSound

(* So does the window collected so far. *)
LEMMA BatchWindowStable ==
  ASSUME WindowInv, LedgerGrows, espressoBatch # NoBatch
  PROVE  JustificationSound(ledger, espressoBatch.jst, espressoBatch.windowStart)
         /\ \A j, w : j = espressoBatch.jst /\ w = espressoBatch.windowStart =>
              JustificationSound(ledger', j, w)
<1>1. /\ espressoBatch.jst \in Justification /\ espressoBatch.windowStart \in Nat
      /\ ledger \in Seq(Header)
      /\ JustificationSound(ledger, espressoBatch.jst, espressoBatch.windowStart)
  BY DEF WindowInv, TypeOK, BatchWindowSound, InProgressBatch
<1>2. QED
  BY <1>1, JustificationStable

(* A step that leaves the batch and the reply alone keeps them sound. *)
LEMMA IdleWindowStep ==
  ASSUME WindowInv, TypeOK', LedgerGrows,
         espressoBatch' = espressoBatch, reply' = reply, pc' = pc
  PROVE  BatchWindowSound' /\ ReplySound' /\ SealHasNext'
<1>1. BatchWindowSound'
  BY BatchWindowStable DEF BatchWindowSound, WindowInv
<1>2. SealHasNext'
  BY DEF SealHasNext, WindowInv
<1>3. ReplySound'
  <2> SUFFICES ASSUME pc \in {"start", "more"} PROVE ReplySound'
    BY DEF ReplySound
  <2> DEFINE jst  == espressoBatch.jst
             lo   == jst.prev + 1
             from == lo + Len(jst.blocks)
             n    == Len(reply.window)
  <2>1. espressoBatch \in InProgressBatch /\ reply \in Reply /\ ledger \in Seq(Header)
    BY DEF WindowInv, TypeOK
  <2>2. /\ lo \in Nat /\ n \in Nat /\ from \in Nat /\ reply.next \in Int /\ reply.next >= -1
        /\ \A i \in 1..n : reply.window[i] \in Nat
    BY <2>1, SMTT(30) DEF InProgressBatch, Justification, Reply, Heights, None
  <2>3. /\ jst.next = None
        /\ \A i \in 1..n : reply.window[i] = from + i - 1 /\ reply.window[i] < Len(ledger)
        /\ (n > 0 \/ reply.next # None) =>
              lo < Len(ledger) /\ ledger[lo + 1].ts >= espressoBatch.windowStart
        /\ reply.next # None => /\ reply.next = from + n
                                /\ reply.next < Len(ledger)
                                /\ ledger[reply.next + 1].ts >= espressoBatch.windowEnd
    BY DEF WindowInv, ReplySound, Ts
  <2>4. Len(ledger) \in Nat /\ Len(ledger') \in Nat /\ Len(ledger) <= Len(ledger')
    BY <2>1 DEF LedgerGrows
  <2> HIDE DEF jst, lo, from, n
  <2>5. lo < Len(ledger) => ledger'[lo + 1] = ledger[lo + 1]
    BY <2>2, <2>4 DEF LedgerGrows
  <2>6. reply.next # None /\ reply.next < Len(ledger) =>
          ledger'[reply.next + 1] = ledger[reply.next + 1]
    BY <2>2, <2>4 DEF LedgerGrows, None
  <2>7. \A i \in 1..n : reply.window[i] = from + i - 1 /\ reply.window[i] < Len(ledger')
    BY <2>2, <2>3, <2>4, SMTT(30)
  <2>8. (n > 0 \/ reply.next # None) =>
          lo < Len(ledger') /\ ledger'[lo + 1].ts >= espressoBatch.windowStart
    BY <2>2, <2>3, <2>4, <2>5
  <2>9. reply.next # None => /\ reply.next = from + n
                             /\ reply.next < Len(ledger')
                             /\ ledger'[reply.next + 1].ts >= espressoBatch.windowEnd
    BY <2>2, <2>3, <2>4, <2>6
  <2>10. QED
    BY <2>3, <2>7, <2>8, <2>9 DEF ReplySound, Ts, jst, lo, from, n
<1>4. QED
  BY <1>1, <1>2, <1>3

(* So does a step that ends the run and keeps or forgets the batch. *)
LEMMA EndRunWindowStep ==
  ASSUME WindowInv, TypeOK', LedgerGrows,
         espressoBatch' \in {espressoBatch, NoBatch}, pc' \in {"idle", "halted"}
  PROVE  BatchWindowSound' /\ ReplySound' /\ SealHasNext'
<1>1. BatchWindowSound'
  BY BatchWindowStable DEF BatchWindowSound, WindowInv
<1>2. QED
  BY <1>1 DEF ReplySound, SealHasNext

(* What JustificationSound says depends on the headers only. *)
LEMMA JustificationSame ==
  ASSUME NEW j, NEW k, NEW w, JustificationSound(ledger, j, w), ledger' = ledger,
         k.prev = j.prev, k.blocks = j.blocks, k.next = j.next
  PROVE  JustificationSound(ledger', k, w)
  BY DEF JustificationSound, Ts

(* startBuildingEspressoBatch keeps the window exact. *)
LEMMA StartWindowStep ==
  ASSUME WindowInv, TypeOK', StartBuildingEspressoBatch
  PROVE  BatchWindowSound' /\ ReplySound' /\ SealHasNext'
<1> USE ConfigAssumption
<1> DEFINE start == head.time + BlockTime
<1>1. /\ ledger' = ledger /\ pc' = "start" /\ ledger \in Seq(Header)
      /\ head \in L2Ref /\ head.time \in Nat /\ start \in Nat
  BY DEF StartBuildingEspressoBatch, envVars, WindowInv, TypeOK, L2Ref
<1>2. SealHasNext'
  BY <1>1 DEF SealHasNext
<1>3. CASE \E first \in 0..(Len(ledger) - 1) :
             /\ FirstInWindow(first, start)
             /\ reply' \in HeadersForWindow(first, start + BlockTime)
             /\ espressoBatch' = NewBatch(first - 1)
  <2>1. PICK first \in 0..(Len(ledger) - 1) :
             /\ FirstInWindow(first, start)
             /\ reply' \in HeadersForWindow(first, start + BlockTime)
             /\ espressoBatch' = NewBatch(first - 1)
    BY <1>3
  <2>2. first \in Nat /\ first < Len(ledger) /\ Len(ledger) \in Nat
    BY <1>1, <2>1
  <2>3. /\ espressoBatch'.onto = head
        /\ espressoBatch'.windowStart = start
        /\ espressoBatch'.windowEnd = start + BlockTime
        /\ espressoBatch'.jst = [prev |-> first - 1, blocks |-> << >>, next |-> None, blank |-> FALSE]
    BY <2>1 DEF NewBatch
  <2>4. Ts(first) >= start /\ \A h \in 0..(first - 1) : Ts(h) < start
    BY <2>1 DEF FirstInWindow
  <2>5. /\ \A i \in 1..Len(reply'.window) :
             reply'.window[i] = first + i - 1 /\ reply'.window[i] < Len(ledger)
        /\ reply'.next # None => /\ reply'.next = first + Len(reply'.window)
                                 /\ reply'.next < Len(ledger)
                                 /\ Ts(reply'.next) >= start + BlockTime
    BY <1>1, <2>1, <2>2, ReplyFacts
  <2>6. JustificationSound(ledger', espressoBatch'.jst, start)
    BY <1>1, <2>2, <2>3, <2>4 DEF JustificationSound, Ts, None
  <2>7. BatchWindowSound'
    BY <2>3, <2>6 DEF BatchWindowSound
  <2>8. ReplySound'
    BY <1>1, <2>2, <2>3, <2>4, <2>5 DEF ReplySound, Ts
  <2>9. QED
    BY <1>2, <2>7, <2>8
<1>4. CASE reply' = NoReply /\ espressoBatch' = NewBatch(None)
  <2>1. /\ espressoBatch'.onto = head
        /\ espressoBatch'.windowStart = start
        /\ espressoBatch'.windowEnd = start + BlockTime
        /\ espressoBatch'.jst = [prev |-> None, blocks |-> << >>, next |-> None, blank |-> FALSE]
    BY <1>4 DEF NewBatch
  <2>2. JustificationSound(ledger', espressoBatch'.jst, start)
    BY <1>1, <2>1 DEF JustificationSound, Ts, None
  <2>3. BatchWindowSound'
    BY <2>1, <2>2 DEF BatchWindowSound
  <2>4. ReplySound'
    BY <1>1, <1>4, <2>1 DEF ReplySound, NoReply
  <2>5. QED
    BY <1>2, <2>3, <2>4
<1>5. QED
  BY <1>3, <1>4 DEF StartBuildingEspressoBatch

(* Appending the next header of the window to a justification. *)
LEMMA JustificationAppend ==
  ASSUME NEW led, NEW j \in Justification, NEW k \in Justification, NEW w \in Nat,
         NEW h \in Nat, JustificationSound(led, j, w), Len(led) \in Nat,
         j.next = None, k.prev = j.prev, k.next = None, k.blocks = Append(j.blocks, h),
         h = j.prev + 1 + Len(j.blocks), h < Len(led), led[h + 1].ts < w + BlockTime,
         j.prev + 1 < Len(led), led[j.prev + 2].ts >= w
  PROVE  JustificationSound(led, k, w)
<1>1. j.prev \in Int /\ j.blocks \in Seq(Nat) /\ Len(j.blocks) \in Nat
  BY DEF Justification, Heights, None
<1>2. /\ Len(k.blocks) = Len(j.blocks) + 1
      /\ \A i \in 1..Len(j.blocks) : k.blocks[i] = j.blocks[i]
      /\ k.blocks[Len(j.blocks) + 1] = h
  BY <1>1, AppendProperties, SMTT(30)
<1>3. \A i \in 1..Len(k.blocks) : /\ k.blocks[i] = k.prev + 1 + i - 1
                                  /\ k.blocks[i] < Len(led)
                                  /\ led[k.blocks[i] + 1].ts < w + BlockTime
  <2> SUFFICES ASSUME NEW i \in 1..(Len(j.blocks) + 1)
               PROVE  /\ k.blocks[i] = j.prev + 1 + i - 1
                      /\ k.blocks[i] < Len(led)
                      /\ led[k.blocks[i] + 1].ts < w + BlockTime
    BY <1>2
  <2>1. CASE i = Len(j.blocks) + 1
    <3>1. k.blocks[i] = h
      BY <1>2, <2>1
    <3>2. h = j.prev + 1 + i - 1
      BY <1>1, <2>1
    <3>3. QED
      BY <3>1, <3>2
  <2>2. CASE i \in 1..Len(j.blocks)
    BY <1>1, <1>2, <2>2 DEF JustificationSound
  <2>3. i = Len(j.blocks) + 1 \/ i \in 1..Len(j.blocks)
    BY <1>1, SMTT(30)
  <2>4. QED
    BY <2>1, <2>2, <2>3
<1>4. k.prev + 1 + 1 = j.prev + 2
  BY <1>1
<1>5. \A g \in 0..k.prev : g < Len(led) /\ led[g + 1].ts < w
  BY DEF JustificationSound
<1>6. QED
  BY <1>3, <1>4, <1>5 DEF JustificationSound

(* Storing the header after the window as Next. *)
LEMMA JustificationNext ==
  ASSUME NEW led, NEW j \in Justification, NEW k \in Justification, NEW w \in Nat,
         JustificationSound(led, j, w), k.prev = j.prev, k.blocks = j.blocks,
         k.next # None =>
           /\ k.next = j.prev + 1 + Len(j.blocks)
           /\ k.next < Len(led)
           /\ led[k.next + 1].ts >= w + BlockTime
           /\ j.prev + 1 < Len(led)
           /\ led[j.prev + 2].ts >= w
  PROVE  JustificationSound(led, k, w)
<1>1. j.prev \in Int /\ k.prev + 1 + 1 = j.prev + 2
  BY DEF Justification, Heights, None
<1>2. (k.prev # None \/ Len(k.blocks) > 0) => led[j.prev + 2].ts >= w /\ j.prev + 1 < Len(led)
  BY <1>1 DEF JustificationSound
<1>3. \A i \in 1..Len(k.blocks) : /\ k.blocks[i] = k.prev + 1 + i - 1
                                  /\ k.blocks[i] < Len(led)
                                  /\ led[k.blocks[i] + 1].ts < w + BlockTime
  BY DEF JustificationSound
<1>4. \A g \in 0..k.prev : g < Len(led) /\ led[g + 1].ts < w
  BY DEF JustificationSound
<1>5. QED
  BY <1>1, <1>2, <1>3, <1>4 DEF JustificationSound

(* What WindowInv says of a run that has headers to append. *)
LEMMA UpdateFacts ==
  ASSUME WindowInv, pc \in {"start", "more"}
  PROVE  /\ espressoBatch \in InProgressBatch /\ espressoBatch # NoBatch
         /\ espressoBatch.jst \in Justification
         /\ espressoBatch.jst.prev \in Int /\ espressoBatch.jst.prev >= -1
         /\ espressoBatch.jst.blocks \in Seq(Nat) /\ Len(espressoBatch.jst.blocks) \in Nat
         /\ espressoBatch.windowStart \in Nat
         /\ espressoBatch.windowEnd = espressoBatch.windowStart + BlockTime
         /\ espressoBatch.jst.next = None
         /\ JustificationSound(ledger, espressoBatch.jst, espressoBatch.windowStart)
         /\ ledger \in Seq(Header) /\ Len(ledger) \in Nat
         /\ reply \in Reply /\ reply.window \in Seq(Nat) /\ Len(reply.window) \in Nat
         /\ reply.next \in Int
<1>1. /\ espressoBatch \in InProgressBatch /\ espressoBatch # NoBatch
      /\ ledger \in Seq(Header) /\ Len(ledger) \in Nat /\ reply \in Reply
  BY DEF WindowInv, TypeOK
<1>2. /\ espressoBatch.jst \in Justification /\ espressoBatch.windowStart \in Nat
      /\ reply.window \in Seq(Nat) /\ reply.next \in Int
  BY <1>1 DEF InProgressBatch, Reply, Heights, None
<1>3. /\ espressoBatch.jst.prev \in Int /\ espressoBatch.jst.prev >= -1
      /\ espressoBatch.jst.blocks \in Seq(Nat)
  BY <1>2 DEF Justification, Heights, None
<1>4. /\ espressoBatch.windowEnd = espressoBatch.windowStart + BlockTime
      /\ JustificationSound(ledger, espressoBatch.jst, espressoBatch.windowStart)
  BY <1>1 DEF WindowInv, BatchWindowSound
<1>5. espressoBatch.jst.next = None
  BY DEF WindowInv, ReplySound
<1>6. QED
  BY <1>1, <1>2, <1>3, <1>4, <1>5, LenProperties

(* So does each block updateEspressoBatch appends, *)
LEMMA AppendWindowStep ==
  ASSUME WindowInv, TypeOK', AppendHeader
  PROVE  BatchWindowSound' /\ ReplySound' /\ SealHasNext'
<1> USE ConfigAssumption
<1> DEFINE lo  == espressoBatch.jst.prev + 1
           m   == Len(espressoBatch.jst.blocks)
           n   == Len(reply.window)
           h   == Head(reply.window)
           ws  == espressoBatch.windowStart
<1>1. /\ pc \in {"start", "more"} /\ pc' = pc /\ ledger' = ledger /\ reply.window # << >>
      /\ ledger[h + 1].ts < espressoBatch.windowEnd
  BY DEF AppendHeader, envVars, Ts
<1>2. /\ lo \in Nat /\ m \in Nat /\ n \in Nat /\ ws \in Nat /\ Len(ledger) \in Nat
      /\ reply.window \in Seq(Nat) /\ reply.next \in Int
  BY <1>1, UpdateFacts, SMTT(30)
<1>3. n > 0 /\ h = reply.window[1]
  BY <1>1, <1>2
<1>4. /\ \A i \in 1..n : reply.window[i] = lo + m + i - 1 /\ reply.window[i] < Len(ledger)
      /\ lo < Len(ledger) /\ ledger[lo + 1].ts >= ws
      /\ reply.next # None => /\ reply.next = lo + m + n
                              /\ reply.next < Len(ledger)
                              /\ ledger[reply.next + 1].ts >= espressoBatch.windowEnd
  BY <1>1, <1>3 DEF WindowInv, ReplySound, Ts
<1>5. h = lo + m /\ h < Len(ledger) /\ h \in Nat
  <2>1. 1 \in 1..n
    BY <1>2, <1>3
  <2>2. reply.window[1] = lo + m + 1 - 1 /\ reply.window[1] < Len(ledger)
    BY <1>4, <2>1
  <2>3. lo + m + 1 - 1 = lo + m /\ lo + m \in Nat
    BY <1>2, SMTT(30)
  <2>4. QED
    BY <1>3, <2>2, <2>3
<1>6. /\ espressoBatch'.onto = espressoBatch.onto /\ espressoBatch'.windowStart = ws
      /\ espressoBatch'.windowEnd = espressoBatch.windowEnd
      /\ espressoBatch'.jst.prev = espressoBatch.jst.prev /\ espressoBatch'.jst.next = None
      /\ espressoBatch'.jst.blocks = Append(espressoBatch.jst.blocks, h)
  BY <1>1, UpdateFacts DEF AppendHeader, InProgressBatch, Justification
<1>7. espressoBatch'.jst \in Justification
  BY <1>1 DEF TypeOK, InProgressBatch
<1>8. JustificationSound(ledger', espressoBatch'.jst, ws)
  <2>1. lo + 1 = espressoBatch.jst.prev + 2
    BY <1>1, UpdateFacts
  <2> HIDE DEF h
  <2>2. QED
    BY <1>1, <1>2, <1>4, <1>5, <1>6, <1>7, <2>1, UpdateFacts, JustificationAppend
<1>9. BatchWindowSound'
  BY <1>1, <1>6, <1>8, UpdateFacts DEF BatchWindowSound, WindowInv
<1>10. ReplySound'
  <2>1. reply'.window = Tail(reply.window) /\ reply'.next = reply.next
    BY <1>1, UpdateFacts DEF AppendHeader, Reply
  <2>2. /\ Len(reply'.window) = n - 1
        /\ \A i \in 1..(n - 1) : reply'.window[i] = reply.window[i + 1]
    BY <1>1, <1>2, <2>1, HeadTailProperties
  <2>3. Len(espressoBatch'.jst.blocks) = m + 1
    BY <1>1, <1>5, <1>6, UpdateFacts, AppendProperties
  <2> HIDE DEF h, m, n, lo
  <2>4. \A i \in 1..(n - 1) :
           reply'.window[i] = lo + (m + 1) + i - 1 /\ reply'.window[i] < Len(ledger)
    <3> SUFFICES ASSUME NEW i \in 1..(n - 1)
                 PROVE  reply.window[i + 1] = lo + (m + 1) + i - 1 /\ reply.window[i + 1] < Len(ledger)
      BY <2>2
    <3>1. i + 1 \in 1..n /\ lo + (m + 1) + i - 1 = lo + m + (i + 1) - 1
      BY <1>2
    <3>2. QED
      BY <1>4, <3>1
  <2>5. reply'.next # None => /\ reply'.next = lo + (m + 1) + Len(reply'.window)
                              /\ reply'.next < Len(ledger)
                              /\ ledger[reply'.next + 1].ts >= espressoBatch.windowEnd
    <3>1. lo + (m + 1) + (n - 1) = lo + m + n
      BY <1>2
    <3>2. QED
      BY <1>4, <2>1, <2>2, <3>1
  <2>6. espressoBatch'.jst.prev + 1 = lo
    BY <1>6 DEF lo
  <2>7. QED
    BY <1>1, <1>4, <1>6, <2>2, <2>3, <2>4, <2>5, <2>6 DEF ReplySound, Ts
<1>11. QED
  BY <1>1, <1>9, <1>10 DEF SealHasNext

(* the block that closes the window, when it is known, *)
LEMMA FinishWindowStep ==
  ASSUME WindowInv, TypeOK', FinishUpdate
  PROVE  BatchWindowSound' /\ ReplySound' /\ SealHasNext'
<1>1. /\ pc \in {"start", "more"} /\ ledger' = ledger /\ reply.window = << >>
      /\ pc' \in {"seal", "poll", "idle"} /\ (pc' = "seal" => reply.next # None)
  BY DEF FinishUpdate, envVars
<1>2. /\ espressoBatch'.onto = espressoBatch.onto
      /\ espressoBatch'.windowStart = espressoBatch.windowStart
      /\ espressoBatch'.windowEnd = espressoBatch.windowEnd
      /\ espressoBatch'.jst.prev = espressoBatch.jst.prev
      /\ espressoBatch'.jst.blocks = espressoBatch.jst.blocks
      /\ espressoBatch'.jst.next = reply.next
  BY <1>1, UpdateFacts DEF FinishUpdate, InProgressBatch, Justification
<1>3. espressoBatch'.jst \in Justification
  BY <1>1, <1>2, UpdateFacts DEF FinishUpdate, InProgressBatch, Justification, Reply
<1>4. reply.next # None =>
        /\ reply.next = espressoBatch.jst.prev + 1 + Len(espressoBatch.jst.blocks)
        /\ reply.next < Len(ledger)
        /\ ledger[reply.next + 1].ts >= espressoBatch.windowStart + BlockTime
        /\ espressoBatch.jst.prev + 1 < Len(ledger)
        /\ ledger[espressoBatch.jst.prev + 2].ts >= espressoBatch.windowStart
  <2> SUFFICES ASSUME reply.next # None
               PROVE  /\ reply.next = espressoBatch.jst.prev + 1 + Len(espressoBatch.jst.blocks)
                      /\ reply.next < Len(ledger)
                      /\ ledger[reply.next + 1].ts >= espressoBatch.windowStart + BlockTime
                      /\ espressoBatch.jst.prev + 1 < Len(ledger)
                      /\ ledger[espressoBatch.jst.prev + 2].ts >= espressoBatch.windowStart
    OBVIOUS
  <2>1. Len(reply.window) = 0
    BY <1>1
  <2>2. /\ reply.next = espressoBatch.jst.prev + 1 + Len(espressoBatch.jst.blocks) + 0
        /\ reply.next < Len(ledger)
        /\ ledger[reply.next + 1].ts >= espressoBatch.windowEnd
        /\ espressoBatch.jst.prev + 1 < Len(ledger)
        /\ ledger[espressoBatch.jst.prev + 1 + 1].ts >= espressoBatch.windowStart
    BY <1>1, <2>1 DEF WindowInv, ReplySound, Ts
  <2>3. /\ espressoBatch.jst.prev + 1 + 1 = espressoBatch.jst.prev + 2
        /\ espressoBatch.jst.prev + 1 + Len(espressoBatch.jst.blocks) + 0
             = espressoBatch.jst.prev + 1 + Len(espressoBatch.jst.blocks)
    BY <1>1, UpdateFacts
  <2>4. QED
    BY <1>1, <2>2, <2>3, UpdateFacts
<1>5. JustificationSound(ledger', espressoBatch'.jst, espressoBatch.windowStart)
  BY <1>1, <1>2, <1>3, <1>4, UpdateFacts, JustificationNext
<1>6. BatchWindowSound'
  BY <1>1, <1>2, <1>5, UpdateFacts DEF BatchWindowSound, WindowInv
<1>7. QED
  BY <1>1, <1>2, <1>6 DEF ReplySound, SealHasNext

(* The last header of an incomplete batch is the one before the next to ask for. *)
LEMMA LastFacts ==
  ASSUME NEW j \in Justification, NEW led, NEW w \in Nat, JustificationSound(led, j, w),
         j.next = None, Last(j) # None
  PROVE  /\ Last(j) + 1 = j.prev + 1 + Len(j.blocks) /\ Last(j) + 1 \in Nat
         /\ j.prev + 1 < Len(led) /\ led[j.prev + 2].ts >= w
<1>1. /\ j.prev \in Int /\ j.prev >= -1 /\ j.blocks \in Seq(Nat) /\ Len(j.blocks) \in Nat
      /\ (j.prev = -1 \/ j.prev \in Nat)
  BY DEF Justification, Heights, None
<1>2. CASE j.blocks = << >>
  <2>1. Last(j) = j.prev /\ j.prev # None /\ Len(j.blocks) = 0
    BY <1>2 DEF Last
  <2>2. j.prev + 1 + 0 = j.prev + 1 /\ j.prev + 1 + 1 = j.prev + 2 /\ j.prev + 1 \in Nat
    BY <1>1
  <2>3. QED
    BY <2>1, <2>2 DEF JustificationSound
<1>3. CASE j.blocks # << >>
  <2>1. Last(j) = j.blocks[Len(j.blocks)] /\ Len(j.blocks) > 0
    BY <1>1, <1>3 DEF Last
  <2>2. Len(j.blocks) \in 1..Len(j.blocks)
    BY <1>1, <2>1
  <2>3. j.blocks[Len(j.blocks)] = j.prev + 1 + Len(j.blocks) - 1
    BY <2>2 DEF JustificationSound
  <2>4. j.prev + 1 + 1 = j.prev + 2
    BY <1>1
  <2>5. j.prev + 1 < Len(led) /\ led[j.prev + 2].ts >= w
    BY <2>1, <2>4 DEF JustificationSound
  <2>6. Last(j) + 1 = j.prev + 1 + Len(j.blocks) /\ Last(j) + 1 \in Nat
    <3> DEFINE p == j.prev
               m == Len(j.blocks)
    <3>1. p \in Int /\ p >= -1 /\ m \in Nat /\ Last(j) = p + 1 + m - 1
      BY <1>1, <2>1, <2>3
    <3> HIDE DEF p, m
    <3>2. Last(j) + 1 = p + 1 + m /\ p + 1 + m \in Nat
      BY <3>1
    <3>3. QED
      BY <3>2 DEF p, m
  <2>7. QED
    BY <2>5, <2>6
<1>4. QED
  BY <1>2, <1>3

(* the fetch of the remaining headers, *)
LEMMA FetchWindowStep ==
  ASSUME WindowInv, TypeOK', FetchRemaining
  PROVE  BatchWindowSound' /\ ReplySound' /\ SealHasNext'
<1> USE ConfigAssumption
<1> DEFINE jst  == espressoBatch.jst
           from == Last(jst) + 1
<1>1. /\ ledger' = ledger /\ pc' = "more" /\ espressoBatch' = espressoBatch
      /\ jst.next = None /\ Last(jst) # None
      /\ reply' \in HeadersForWindow(from, espressoBatch.windowEnd)
  BY DEF FetchRemaining, envVars
<1>2. espressoBatch \in InProgressBatch /\ espressoBatch # NoBatch /\ ledger \in Seq(Header)
  BY <1>1 DEF TypeOK, WindowInv
<1>3. /\ jst \in Justification /\ espressoBatch.windowStart \in Nat
      /\ espressoBatch.windowEnd \in Nat /\ jst.prev \in Int
  BY <1>2 DEF InProgressBatch, Justification, Heights, None
<1>4. JustificationSound(ledger, jst, espressoBatch.windowStart)
  BY <1>2 DEF WindowInv, BatchWindowSound
<1>5. /\ from = jst.prev + 1 + Len(jst.blocks) /\ from \in Nat
      /\ jst.prev + 1 < Len(ledger) /\ ledger[jst.prev + 2].ts >= espressoBatch.windowStart
  BY <1>1, <1>3, <1>4, LastFacts
<1>6. jst.prev + 2 = jst.prev + 1 + 1
  BY <1>3
<1> HIDE DEF from
<1>7. /\ \A i \in 1..Len(reply'.window) :
           reply'.window[i] = from + i - 1 /\ reply'.window[i] < Len(ledger)
      /\ reply'.next # None => /\ reply'.next = from + Len(reply'.window)
                               /\ reply'.next < Len(ledger)
                               /\ Ts(reply'.next) >= espressoBatch.windowEnd
  BY <1>1, <1>2, <1>3, <1>5, ReplyFacts, ZenonT(40)
<1>8. ReplySound'
  BY <1>1, <1>5, <1>6, <1>7 DEF ReplySound, Ts
<1>9. BatchWindowSound'
  BY <1>1 DEF WindowInv, BatchWindowSound
<1>10. QED
  BY <1>1, <1>8, <1>9 DEF SealHasNext

(* the choice of the L1 origin (which only rewrites the transactions), *)
LEMMA ChooseWindowStep ==
  ASSUME WindowInv, TypeOK', ChooseOrigin
  PROVE  BatchWindowSound' /\ ReplySound' /\ SealHasNext'
<1>1. ledger' = ledger /\ pc = "seal" /\ pc' = "prepare"
  BY DEF ChooseOrigin, envVars
<1>2. espressoBatch \in InProgressBatch /\ espressoBatch # NoBatch
  BY <1>1 DEF WindowInv, TypeOK
<1>3. /\ espressoBatch'.onto = espressoBatch.onto
      /\ espressoBatch'.windowStart = espressoBatch.windowStart
      /\ espressoBatch'.windowEnd = espressoBatch.windowEnd
      /\ espressoBatch'.jst.prev = espressoBatch.jst.prev
      /\ espressoBatch'.jst.blocks = espressoBatch.jst.blocks
      /\ espressoBatch'.jst.next = espressoBatch.jst.next
  BY <1>2 DEF ChooseOrigin, InProgressBatch, Justification
<1>4. JustificationSound(ledger, espressoBatch.jst, espressoBatch.windowStart)
  BY <1>2 DEF WindowInv, BatchWindowSound
<1>5. JustificationSound(ledger', espressoBatch'.jst, espressoBatch.windowStart)
  BY <1>1, <1>3, <1>4, JustificationSame
<1>6. BatchWindowSound'
  BY <1>2, <1>3, <1>5 DEF WindowInv, BatchWindowSound
<1>7. QED
  BY <1>1, <1>3, <1>6 DEF ReplySound, SealHasNext, WindowInv

(* The steps of a run that leave the batch alone and receive no headers. *)
LEMMA SealingWindowStep ==
  ASSUME WindowInv, TypeOK', Complete \/ PreparePayloadAttributes
  PROVE  BatchWindowSound' /\ ReplySound' /\ SealHasNext'
<1>1. ledger' = ledger /\ espressoBatch' = espressoBatch /\ pc' \in {"seal", "insert"}
  BY DEF Complete, PreparePayloadAttributes, envVars
<1>2. espressoBatch.jst.next # None
  BY DEF Complete, PreparePayloadAttributes, WindowInv, SealHasNext
<1>3. QED
  BY <1>1, <1>2 DEF BatchWindowSound, ReplySound, SealHasNext, WindowInv

(* and the insertion of the block. *)
LEMMA InsertWindowStep ==
  ASSUME WindowInv, TypeOK', LedgerGrows, InsertPayload
  PROVE  \A b \in sealed' : SealedWindowSound(b)'
<1> USE ConfigAssumption
<1>1. ledger' = ledger /\ pc = "insert"
  BY DEF InsertPayload, envVars
<1>2. espressoBatch \in InProgressBatch /\ espressoBatch # NoBatch
  BY <1>1 DEF WindowInv, TypeOK
<1>3. PICK new \in sealed' :
        /\ sealed' = sealed \cup {new}
        /\ new.parent = espressoBatch.onto
        /\ new.ts = espressoBatch.onto.time + BlockTime
        /\ new.block.time = new.ts
        /\ new.jst = espressoBatch.jst
  <2> DEFINE blk == [id |-> Cardinality(l2), time |-> espressoBatch.onto.time + BlockTime,
                     origin |-> origin.number, originFork |-> origin.fork]
             new == [parent |-> espressoBatch.onto, ts |-> espressoBatch.onto.time + BlockTime,
                     epoch |-> origin.number, epochFork |-> origin.fork,
                     txs |-> espressoBatch.txs, jst |-> espressoBatch.jst,
                     view |-> origin.view, block |-> blk]
  <2>1. sealed' = sealed \cup {new}
    BY DEF InsertPayload
  <2>2. /\ new.parent = espressoBatch.onto
        /\ new.ts = espressoBatch.onto.time + BlockTime
        /\ new.block.time = new.ts
        /\ new.jst = espressoBatch.jst
    OBVIOUS
  <2> HIDE DEF new
  <2>3. new \in sealed'
    BY <2>1
  <2>4. QED
    BY <2>1, <2>2, <2>3
<1>4. SealedWindowSound(new)'
  <2>1. new.jst.next # None
    BY <1>1, <1>3 DEF WindowInv, SealHasNext
  <2>2. JustificationSound(ledger, new.jst, new.ts)
    BY <1>2, <1>3 DEF WindowInv, BatchWindowSound
  <2>3. QED
    BY <1>1, <1>3, <2>1, <2>2 DEF SealedWindowSound
<1>5. QED
  BY <1>3, <1>4, SealedWindowStable

(* A batch about to be sealed has a block after its window, and HotShot has it. *)
LEMMA NextIsKnown ==
  ASSUME WindowInv PROVE NextKnown
<1> SUFFICES ASSUME pc = "seal" PROVE espressoBatch.jst.next \in 0..(Len(ledger) - 1)
  BY DEF NextKnown
<1>1. espressoBatch \in InProgressBatch /\ espressoBatch # NoBatch /\ Len(ledger) \in Nat
  BY DEF WindowInv, TypeOK
<1>2. espressoBatch.jst.next # None /\ espressoBatch.jst.next < Len(ledger)
  BY <1>1 DEF WindowInv, SealHasNext, BatchWindowSound, JustificationSound
<1>3. QED
  BY <1>1, <1>2 DEF InProgressBatch, Justification, Heights

(***************************************************************************)
(* WindowInv is inductive.                                                 *)
(***************************************************************************)
LEMMA WindowStep ==
  ASSUME WindowInv, [Next]_vars
  PROVE  WindowInv'
<1>1. TypeOK'
  BY NextIsKnown, TypeStep DEF WindowInv
<1>2. LedgerGrows
  BY <1>1, LedgerStep DEF WindowInv
<1>3. BatchWindowSound' /\ ReplySound' /\ SealHasNext'
  <2>1. CASE StartBuildingEspressoBatch
    BY <1>1, <2>1, StartWindowStep
  <2>2. CASE AppendHeader
    BY <1>1, <2>2, AppendWindowStep
  <2>3. CASE FinishUpdate
    BY <1>1, <2>3, FinishWindowStep
  <2>4. CASE FetchRemaining
    BY <1>1, <2>4, FetchWindowStep
  <2>5. CASE ChooseOrigin
    BY <1>1, <2>5, ChooseWindowStep
  <2>6. CASE Complete \/ PreparePayloadAttributes
    BY <1>1, <2>6, SealingWindowStep
  <2>7. CASE \/ StartFails \/ InconsistentHeader \/ Panic \/ PrepareNeedsReset \/ InsertPayload
             \/ CallFails \/ CancelBuildingBlock \/ Restart
    <3>1. espressoBatch' \in {espressoBatch, NoBatch} /\ pc' \in {"idle", "halted"}
      BY <2>7 DEF StartFails, InconsistentHeader, Panic, PrepareNeedsReset, InsertPayload,
                  CallFails, CancelBuildingBlock, Restart
    <3>2. QED
      BY <1>1, <1>2, <3>1, EndRunWindowStep
  <2>8. CASE EnvironmentStep \/ UNCHANGED vars
    <3>1. espressoBatch' = espressoBatch /\ reply' = reply /\ pc' = pc
      BY <2>8 DEF EnvironmentStep, HeadReset, DerivedBlock, HotShotDecides, L1Grows, L1Reorg,
                  sequencerVars, vars
    <3>2. QED
      BY <1>1, <1>2, <3>1, IdleWindowStep
  <2>9. QED
    BY <2>1, <2>2, <2>3, <2>4, <2>5, <2>6, <2>7, <2>8 DEF Next, SequencerStep
<1>4. \A b \in sealed' : SealedWindowSound(b)'
  <2>1. CASE InsertPayload
    BY <1>1, <1>2, <2>1, InsertWindowStep
  <2>2. CASE sealed' = sealed
    BY <1>2, <2>2, SealedWindowStable
  <2>3. sealed' = sealed \/ InsertPayload
    BY DEF Next, SequencerStep, EnvironmentStep, vars, engineVars, StartBuildingEspressoBatch,
           StartFails, AppendHeader, InconsistentHeader, FinishUpdate, FetchRemaining, Panic,
           Complete, ChooseOrigin, PreparePayloadAttributes, PrepareNeedsReset,
           CallFails, CancelBuildingBlock, Restart, HeadReset, DerivedBlock, HotShotDecides,
           L1Grows, L1Reorg
  <2>4. QED
    BY <2>1, <2>2, <2>3
<1>5. QED
  BY <1>1, <1>3, <1>4 DEF WindowInv

(* The window invariant holds initially. *)
LEMMA WindowInit == Init => WindowInv
<1> SUFFICES ASSUME Init PROVE WindowInv
  OBVIOUS
<1>1. TypeOK
  BY TypeInit
<1>2. QED
  BY <1>1 DEF Init, WindowInv, BatchWindowSound, ReplySound, SealHasNext

(***************************************************************************)
(* What updateEspressoBatch and startBuildingEspressoBatch collect is the  *)
(* window exactly: Prev is before it, the blocks are contiguous and in it, *)
(* Next is past it, and every reply in hand goes on from there, whatever   *)
(* HotShot decides, the L1 does and calls fail in between.                 *)
(***************************************************************************)
THEOREM WindowInvariant == Spec => []WindowInv
<1>1. Init => WindowInv
  BY WindowInit
<1>2. WindowInv /\ [Next]_vars => WindowInv'
  BY WindowStep
<1>3. QED
  BY <1>1, <1>2, PTL DEF Spec

(***************************************************************************)
(* The state of sequencer.go stays well-typed: in particular a run past    *)
(* its first call has a batch, and sealEspressoBatch finds a Next header   *)
(* to take the L1 head from.                                               *)
(***************************************************************************)
THEOREM TypeCorrect == Spec => []TypeOK
<1>1. WindowInv => TypeOK
  BY DEF WindowInv
<1>2. QED
  BY <1>1, WindowInvariant, PTL

(***************************************************************************)
(* The windows of a batch and of the batch built on it leave no HotShot    *)
(* block out and share none.                                               *)
(***************************************************************************)
LEMMA AdjacentWindows ==
  ASSUME WindowInv, NEW a \in sealed, NEW b \in sealed, b.parent = a.block
  PROVE  b.jst.prev + 1 = a.jst.next
<1> USE ConfigAssumption
<1> DEFINE la == a.jst.prev + 1
           na == Len(a.jst.blocks)
           lb == b.jst.prev + 1
           nx == a.jst.next
           w  == a.ts
<1>1. a \in SealedBatch /\ b \in SealedBatch /\ ledger \in Seq(Header)
      /\ SealedWindowSound(a) /\ SealedWindowSound(b)
  BY DEF WindowInv, TypeOK
<1>2. a.jst \in Justification /\ b.jst \in Justification /\ w \in Nat /\ b.ts = w + BlockTime
  BY <1>1 DEF SealedBatch, SealedWindowSound
<1>3. /\ la \in Nat /\ na \in Nat /\ lb \in Nat /\ nx \in Nat /\ Len(ledger) \in Nat
      /\ a.jst.prev = la - 1 /\ b.jst.prev = lb - 1
  <2>1. /\ a.jst.prev \in Nat \cup {-1} /\ b.jst.prev \in Nat \cup {-1}
        /\ a.jst.blocks \in Seq(Nat) /\ a.jst.next \in Nat \cup {-1}
    BY <1>2 DEF Justification, Heights, None
  <2>2. a.jst.next # -1
    BY <1>1 DEF None, SealedWindowSound
  <2>3. na \in Nat /\ Len(ledger) \in Nat
    BY <1>1, <2>1
  <2>4. nx \in Nat
    BY <2>1, <2>2
  <2>5. la \in Nat /\ lb \in Nat /\ a.jst.prev = la - 1 /\ b.jst.prev = lb - 1
    BY <2>1
  <2>6. QED
    BY <2>3, <2>4, <2>5
<1>4. /\ nx = la + na /\ nx < Len(ledger) /\ ledger[nx + 1].ts >= w + BlockTime
      /\ lb < Len(ledger) /\ ledger[lb + 1].ts >= w + BlockTime
  <2>1. JustificationSound(ledger, a.jst, w) /\ JustificationSound(ledger, b.jst, w + BlockTime)
    BY <1>1, <1>2 DEF SealedWindowSound
  <2>2. a.jst.next # None /\ b.jst.next # None
    BY <1>1 DEF SealedWindowSound
  <2>3. nx = la + na /\ nx < Len(ledger) /\ ledger[nx + 1].ts >= w + BlockTime
    BY <2>1, <2>2 DEF JustificationSound
  <2>4. lb < Len(ledger) /\ ledger[lb + 1].ts >= w + BlockTime
    BY <2>1, <2>2 DEF JustificationSound
  <2>5. QED
    BY <2>3, <2>4
<1>5. /\ \A h \in 0..(la - 1) : ledger[h + 1].ts < w
      /\ \A i \in 1..na : ledger[la + i - 1 + 1].ts < w + BlockTime
      /\ \A h \in 0..(lb - 1) : ledger[h + 1].ts < w + BlockTime
  <2>1. JustificationSound(ledger, a.jst, w) /\ JustificationSound(ledger, b.jst, w + BlockTime)
    BY <1>1, <1>2 DEF SealedWindowSound
  <2>2. \A h \in 0..(la - 1) : ledger[h + 1].ts < w
    BY <1>3, <2>1 DEF JustificationSound
  <2>3. \A i \in 1..na : /\ a.jst.blocks[i] = la + i - 1
                         /\ ledger[a.jst.blocks[i] + 1].ts < w + BlockTime
    BY <2>1 DEF JustificationSound
  <2>4. \A h \in 0..(lb - 1) : ledger[h + 1].ts < w + BlockTime
    BY <1>3, <2>1 DEF JustificationSound
  <2>5. QED
    BY <2>2, <2>3, <2>4
<1>6. \A h \in 0..(Len(ledger) - 1) : ledger[h + 1].ts \in Nat
  <2> SUFFICES ASSUME NEW h \in 0..(Len(ledger) - 1) PROVE ledger[h + 1].ts \in Nat
    OBVIOUS
  <2>1. h + 1 \in 1..Len(ledger)
    BY <1>3
  <2>2. ledger[h + 1] \in Header
    BY <1>1, <2>1
  <2>3. QED
    BY <2>2 DEF Header
<1> HIDE DEF la, na, lb, nx, w
<1>7. ~(nx < lb)
  <2> SUFFICES ASSUME nx < lb PROVE FALSE
    OBVIOUS
  <2>1. nx \in 0..(lb - 1) /\ nx \in 0..(Len(ledger) - 1)
    BY <1>3, <1>4
  <2>2. ledger[nx + 1].ts < w + BlockTime /\ ledger[nx + 1].ts \in Nat
    BY <1>5, <1>6, <2>1
  <2>3. QED
    BY <1>2, <1>4, <2>2
<1>8. ~(lb < nx)
  <2> SUFFICES ASSUME lb < nx PROVE FALSE
    OBVIOUS
  <2>1. lb \in 0..(Len(ledger) - 1) /\ ledger[lb + 1].ts \in Nat
    BY <1>3, <1>4, <1>6
  <2>2. CASE lb < la
    <3>1. lb \in 0..(la - 1)
      BY <1>3, <2>2
    <3>2. ledger[lb + 1].ts < w
      BY <1>5, <3>1
    <3>3. QED
      BY <1>2, <1>4, <2>1, <3>2
  <2>3. CASE ~(lb < la)
    <3>1. lb - la + 1 \in 1..na /\ la + (lb - la + 1) - 1 + 1 = lb + 1
      BY <1>3, <1>4, <2>3
    <3>2. ledger[lb + 1].ts < w + BlockTime
      BY <1>5, <3>1
    <3>3. QED
      BY <1>2, <1>4, <2>1, <3>2
  <2>4. QED
    BY <2>2, <2>3
<1>9. QED
  BY <1>3, <1>7, <1>8 DEF lb, nx

(***************************************************************************)
(* startBuildingEspressoBatch and updateEspressoBatch hand over from one   *)
(* L2 block to the next without skipping or repeating a HotShot block, for *)
(* any timestamps, L1 reorgs, head changes, failed calls and restarts.     *)
(***************************************************************************)
THEOREM NoBlockSkippedOrRepeated == Spec => []WindowsAbut
<1>1. WindowInv => WindowsAbut
  BY AdjacentWindows DEF WindowsAbut
<1>2. QED
  BY <1>1, WindowInvariant, PTL

-----------------------------------------------------------------------------
(***************************************************************************)
(* The sequencer and the derivation pipeline agree: as long as the L1 has  *)
(* not been reorganised, a batch that sealEspressoBatch produced is never  *)
(* dropped by checkSingularBatch, and accepted as soon as the commitments  *)
(* and L1 blocks it refers to are visible.  For every configuration.       *)
(***************************************************************************)

(* ContentInv for as long as no L1 block was replaced. *)
ContentUntilReorg == view = 0 => ContentInv

(* The L1 chain d goes on from c. *)
GoesOn(c, d) == Len(c) <= Len(d) /\ \A i \in 1..Len(c) : d[i] = c[i]

-----------------------------------------------------------------------------
(* EspressoL1Origin. *)

(* Once its fetches succeed, more L1 blocks do not change the answer. *)
LEMMA OriginStable ==
  ASSUME NEW c \in Seq(L1Block), NEW d \in Seq(L1Block), GoesOn(c, d),
         NEW parent \in L2Ref, NEW suggested \in Nat,
         EspressoL1Origin(c, parent, suggested) # None
  PROVE  EspressoL1Origin(d, parent, suggested) = EspressoL1Origin(c, parent, suggested)
<1> DEFINE lagged == LaggedSuggestion(suggested)
           prev == parent.origin
           start == parent.time + BlockTime
<1>1. prev \in Nat /\ lagged \in Nat /\ Len(c) \in Nat /\ Len(d) \in Nat
  BY ConfigAssumption DEF L2Ref, LaggedSuggestion
<1>2. \A n \in Nat : HasBlock(c, n) => HasBlock(d, n) /\ BlockAt(d, n) = BlockAt(c, n)
  <2> SUFFICES ASSUME NEW n \in Nat, HasBlock(c, n)
               PROVE  HasBlock(d, n) /\ BlockAt(d, n) = BlockAt(c, n)
    OBVIOUS
  <2>1. n + 1 \in 1..Len(c)
    BY <1>1 DEF HasBlock
  <2> QED BY <1>1, <2>1 DEF GoesOn, HasBlock, BlockAt
<1>3. \A e : EspressoL1Origin(e, parent, suggested) =
        CASE lagged > prev + 1 ->
               IF ~HasBlock(e, prev + 1) THEN None
               ELSE IF BlockAt(e, prev + 1).time <= start
                    THEN prev + 1
                    ELSE L1BlockRefByNumber(e, prev)
          [] lagged < prev ->
               L1BlockRefByNumber(e, prev)
          [] OTHER ->
               IF ~HasBlock(e, lagged) THEN None
               ELSE IF BlockAt(e, lagged).time + MaxSequencerDrift < start
                    THEN L1BlockRefByNumber(e, prev + 1)
               ELSE IF BlockAt(e, lagged).time > start
                    THEN L1BlockRefByNumber(e, prev)
               ELSE lagged
  BY DEF EspressoL1Origin
<1>4. \A n \in Nat : L1BlockRefByNumber(c, n) # None =>
        L1BlockRefByNumber(d, n) = L1BlockRefByNumber(c, n)
  BY <1>2 DEF L1BlockRefByNumber
<1>5. prev + 1 \in Nat
  BY <1>1
<1> HIDE DEF lagged, prev, start
<1>6. CASE lagged > prev + 1
  BY <1>1, <1>2, <1>3, <1>4, <1>5, <1>6
<1>7. CASE ~(lagged > prev + 1) /\ lagged < prev
  BY <1>1, <1>2, <1>3, <1>4, <1>5, <1>7
<1>8. CASE ~(lagged > prev + 1) /\ ~(lagged < prev)
  BY <1>1, <1>2, <1>3, <1>4, <1>5, <1>8
<1> QED BY <1>6, <1>7, <1>8

(* The block the origin names is the same on the longer chain. *)
LEMMA BlockStable ==
  ASSUME NEW c \in Seq(L1Block), NEW d \in Seq(L1Block), GoesOn(c, d),
         NEW n \in Nat, n < Len(c)
  PROVE  BlockAt(d, n) = BlockAt(c, n) /\ n < Len(d)
<1>1. n + 1 \in 1..Len(c) /\ Len(d) \in Nat /\ Len(c) \in Nat
  OBVIOUS
<1> QED BY <1>1 DEF GoesOn, BlockAt

-----------------------------------------------------------------------------
(* What a step without an L1 reorg leaves as it is. *)

(* The L1 chain goes on as long as there is no reorg. *)
LEMMA ChainStep ==
  ASSUME TypeOK, TypeOK', [Next]_vars, view' = 0
  PROVE  view = 0 /\ GoesOn(l1, l1')
<1>1. CASE L1Reorg
  BY <1>1 DEF L1Reorg, TypeOK
<1>2. CASE L1Grows
  <2>1. PICK x : l1' = Append(l1, x)
    BY <1>2 DEF L1Grows
  <2>2. view' = view
    BY <1>2 DEF L1Grows
  <2> QED BY <2>1, <2>2 DEF GoesOn, TypeOK
<1>3. CASE l1' = l1 /\ view' = view
  BY <1>3 DEF GoesOn, TypeOK
<1>4. (l1' = l1 /\ view' = view) \/ L1Reorg \/ L1Grows
  BY DEF Next, SequencerStep, EnvironmentStep, vars, envVars, StartBuildingEspressoBatch,
         StartFails, AppendHeader, InconsistentHeader, FinishUpdate, FetchRemaining, Panic,
         Complete, ChooseOrigin, PreparePayloadAttributes, PrepareNeedsReset, InsertPayload,
         CallFails, CancelBuildingBlock, Restart, HeadReset, DerivedBlock, HotShotDecides
<1> QED BY <1>1, <1>2, <1>3, <1>4

(* So the origin a complete justification requires stays the same. *)
LEMMA RequiredStable ==
  ASSUME TypeOK, TypeOK', LedgerGrows, GoesOn(l1, l1'),
         NEW parent \in L2Ref, NEW j \in Justification,
         j.next # None, j.next < Len(ledger),
         RequiredOrigin(l1, ledger, parent, j) # None
  PROVE  /\ RequiredOrigin(l1', ledger', parent, j) = RequiredOrigin(l1, ledger, parent, j)
         /\ RequiredOrigin(l1, ledger, parent, j) \in {parent.origin, parent.origin + 1}
         /\ RequiredOrigin(l1, ledger, parent, j) \in Nat
         /\ RequiredOrigin(l1, ledger, parent, j) < Len(l1)
<1>1. /\ ledger \in Seq(Header) /\ Len(ledger) \in Nat
      /\ l1 \in Seq(L1Block) /\ l1' \in Seq(L1Block)
  BY DEF TypeOK
<1>2. j.next + 1 \in 1..Len(ledger)
  BY <1>1 DEF Justification, Heights, None
<1>3. ledger'[j.next + 1] = ledger[j.next + 1] /\ ledger[j.next + 1].l1Head \in Nat
  <2>1. ledger[j.next + 1] \in Header
    BY <1>1, <1>2
  <2> QED BY <1>2, <2>1 DEF LedgerGrows, Header
<1> QED BY <1>1, <1>3, OriginStable, OriginFound DEF RequiredOrigin

(* The content of a batch stays sound when HotShot and the L1 grow. *)
LEMMA ContentStable ==
  ASSUME TypeOK, TypeOK', LedgerGrows, GoesOn(l1, l1'),
         NEW parent \in L2Ref, NEW j \in Justification, NEW txs, NEW w \in Nat,
         j.next # None => j.next < Len(ledger),
         ContentSound(l1, ledger, parent, j, txs, w)
  PROVE  ContentSound(l1', ledger', parent, j, txs, w)
<1>1. CASE j.blank
  <2>1. /\ txs = << >> /\ j.next # None /\ RequiredOrigin(l1, ledger, parent, j) # None
        /\ EspressoBatchMustBeEmpty(BlockAt(l1, RequiredOrigin(l1, ledger, parent, j)).time, w)
    BY <1>1 DEF ContentSound
  <2>2. /\ RequiredOrigin(l1', ledger', parent, j) = RequiredOrigin(l1, ledger, parent, j)
        /\ RequiredOrigin(l1, ledger, parent, j) \in Nat
        /\ RequiredOrigin(l1, ledger, parent, j) < Len(l1)
    BY <2>1, RequiredStable
  <2>3. BlockAt(l1', RequiredOrigin(l1, ledger, parent, j))
          = BlockAt(l1, RequiredOrigin(l1, ledger, parent, j))
    BY <2>2, BlockStable DEF TypeOK
  <2> QED BY <1>1, <2>1, <2>2, <2>3 DEF ContentSound
<1>2. CASE ~j.blank
  BY <1>2 DEF ContentSound
<1> QED BY <1>1, <1>2

(* What WindowInv says of the batch in progress. *)
LEMMA BatchFacts ==
  ASSUME WindowInv, espressoBatch # NoBatch
  PROVE  /\ espressoBatch \in InProgressBatch
         /\ espressoBatch.onto \in L2Ref /\ espressoBatch.jst \in Justification
         /\ espressoBatch.windowStart \in Nat
         /\ espressoBatch.windowStart = espressoBatch.onto.time + BlockTime
         /\ espressoBatch.jst.next # None => espressoBatch.jst.next < Len(ledger)
<1>1. espressoBatch \in InProgressBatch
  BY DEF WindowInv, TypeOK
<1>2. /\ espressoBatch.windowStart = espressoBatch.onto.time + BlockTime
      /\ espressoBatch.jst.next # None => espressoBatch.jst.next < Len(ledger)
  BY DEF WindowInv, BatchWindowSound, JustificationSound
<1> QED BY <1>1, <1>2 DEF InProgressBatch

(* A step that leaves the batch alone or forgets it. *)
LEMMA BatchContentStable ==
  ASSUME WindowInv, ContentInv, TypeOK', LedgerGrows, GoesOn(l1, l1'),
         espressoBatch' \in {espressoBatch, NoBatch}
  PROVE  BatchContentSound'
<1>1. CASE espressoBatch' = NoBatch
  BY <1>1 DEF BatchContentSound
<1>2. CASE espressoBatch' = espressoBatch /\ espressoBatch # NoBatch
  <2>1. ContentSound(l1, ledger, espressoBatch.onto, espressoBatch.jst, espressoBatch.txs,
                     espressoBatch.windowStart)
    BY <1>2 DEF ContentInv, BatchContentSound
  <2>2. ContentSound(l1', ledger', espressoBatch.onto, espressoBatch.jst, espressoBatch.txs,
                     espressoBatch.windowStart)
    BY <1>2, <2>1, BatchFacts, ContentStable DEF WindowInv
  <2> QED BY <1>2, <2>2 DEF BatchContentSound
<1> QED BY <1>1, <1>2

(* Nor does it disturb a chosen origin. *)
LEMMA OriginSoundStable ==
  ASSUME WindowInv, ContentInv, TypeOK', LedgerGrows, GoesOn(l1, l1'),
         espressoBatch' = espressoBatch, origin' = origin, pc' = pc
  PROVE  OriginSound'
<1> SUFFICES ASSUME pc \in {"prepare", "insert"}
             PROVE  OriginSound'
  BY DEF OriginSound
<1> DEFINE b == espressoBatch
           n == RequiredOrigin(l1, ledger, b.onto, b.jst)
<1>1. b # NoBatch /\ b.jst.next # None
  BY DEF WindowInv, TypeOK, SealHasNext
<1>2. /\ origin.number = n /\ origin.number < Len(l1)
      /\ origin.time = BlockAt(l1, origin.number).time
      /\ origin.fork = BlockAt(l1, origin.number).fork
      /\ EspressoBatchMustBeEmpty(origin.time, b.windowStart) => b.jst.blank
      /\ pc = "insert" => origin.time <= b.windowStart
  BY DEF ContentInv, OriginSound
<1>3. origin.number \in Nat
  BY DEF WindowInv, TypeOK, Origin
<1>4. RequiredOrigin(l1', ledger', b.onto, b.jst) = n
  <2>1. n # None
    BY <1>2, <1>3 DEF None
  <2> QED BY <1>1, <2>1, BatchFacts, RequiredStable DEF WindowInv
<1>5. BlockAt(l1', origin.number) = BlockAt(l1, origin.number) /\ origin.number < Len(l1')
  BY <1>2, <1>3, BlockStable DEF WindowInv, TypeOK
<1> QED BY <1>2, <1>4, <1>5 DEF OriginSound

(* The batches already sealed stay sound. *)
LEMMA SealedContentStable ==
  ASSUME WindowInv, ContentInv, TypeOK', LedgerGrows, GoesOn(l1, l1'), NEW b \in sealed
  PROVE  SealedContentSound(b)'
<1> DEFINE n == RequiredOrigin(l1, ledger, b.parent, b.jst)
<1>1. b \in SealedBatch /\ SealedWindowSound(b) /\ SealedContentSound(b)
  BY DEF WindowInv, TypeOK, ContentInv
<1>2. b.parent \in L2Ref /\ b.jst \in Justification /\ b.ts \in Nat /\ b.epoch \in Nat
  BY <1>1 DEF SealedBatch
<1>3. b.jst.next # None /\ b.jst.next < Len(ledger)
  BY <1>1 DEF SealedWindowSound, JustificationSound
<1>4. b.epoch = n /\ n # None /\ n < Len(l1)
  BY <1>1, <1>2 DEF SealedContentSound, None
<1>5. ContentSound(l1', ledger', b.parent, b.jst, b.txs, b.ts)
  BY <1>1, <1>2, <1>3, ContentStable DEF SealedContentSound, WindowInv
<1>6. RequiredOrigin(l1', ledger', b.parent, b.jst) = n
  BY <1>2, <1>3, <1>4, RequiredStable DEF WindowInv
<1>7. BlockAt(l1', b.epoch) = BlockAt(l1, b.epoch) /\ b.epoch < Len(l1')
  BY <1>2, <1>4, BlockStable DEF WindowInv, TypeOK
<1> QED BY <1>1, <1>4, <1>5, <1>6, <1>7 DEF SealedContentSound

-----------------------------------------------------------------------------
(* The actions that touch the batch, the origin or the sealed batches. *)

(* Starting, appending and finishing an update keep the transactions those of the blocks. *)
LEMMA CollectContent ==
  ASSUME WindowInv, ContentInv,
         StartBuildingEspressoBatch \/ AppendHeader \/ FinishUpdate
  PROVE  BatchContentSound' /\ OriginSound'
<1>1. CASE StartBuildingEspressoBatch
  <2>1. PICK prev : espressoBatch' = NewBatch(prev)
    BY <1>1 DEF StartBuildingEspressoBatch
  <2>2. pc' = "start"
    BY <1>1 DEF StartBuildingEspressoBatch
  <2>3. ~espressoBatch'.jst.blank /\ espressoBatch'.txs = espressoBatch'.jst.blocks
    BY <2>1 DEF NewBatch
  <2> QED BY <2>2, <2>3 DEF BatchContentSound, ContentSound, OriginSound
<1>2. ASSUME pc \in {"start", "more"}
      PROVE  /\ espressoBatch # NoBatch /\ espressoBatch \in InProgressBatch
             /\ ~espressoBatch.jst.blank /\ espressoBatch.txs = espressoBatch.jst.blocks
  <2>1. espressoBatch # NoBatch /\ espressoBatch.jst.next = None
    BY <1>2 DEF WindowInv, TypeOK, ReplySound
  <2> QED BY <2>1, BatchFacts DEF ContentInv, BatchContentSound, ContentSound
<1>3. CASE AppendHeader
  <2>1. /\ pc \in {"start", "more"} /\ pc' = pc
        /\ espressoBatch' = [espressoBatch EXCEPT !.jst.blocks = Append(@, Head(reply.window)),
                                                  !.txs = Append(@, Head(reply.window))]
    BY <1>3 DEF AppendHeader
  <2>2. ~espressoBatch'.jst.blank /\ espressoBatch'.txs = espressoBatch'.jst.blocks
    BY <1>2, <2>1 DEF InProgressBatch, Justification
  <2> QED BY <2>1, <2>2 DEF BatchContentSound, ContentSound, OriginSound
<1>4. CASE FinishUpdate
  <2>1. /\ pc \in {"start", "more"} /\ pc' \in {"seal", "poll", "idle"}
        /\ espressoBatch' = [espressoBatch EXCEPT !.jst.next = reply.next]
    BY <1>4 DEF FinishUpdate
  <2>2. ~espressoBatch'.jst.blank /\ espressoBatch'.txs = espressoBatch'.jst.blocks
    BY <1>2, <2>1 DEF InProgressBatch, Justification
  <2> QED BY <2>1, <2>2 DEF BatchContentSound, ContentSound, OriginSound
<1> QED BY <1>1, <1>3, <1>4

(* sealEspressoBatch empties the batch exactly when the origin demands it. *)
LEMMA ChooseContent ==
  ASSUME WindowInv, ContentInv, ChooseOrigin
  PROVE  BatchContentSound' /\ OriginSound'
<1> DEFINE b == espressoBatch
           n == EspressoL1Origin(l1, b.onto, ledger[b.jst.next + 1].l1Head)
           blk == BlockAt(l1, n)
<1>1. /\ pc = "seal" /\ pc' = "prepare" /\ n # None
      /\ origin' = [number |-> n, time |-> blk.time, fork |-> blk.fork,
                    parentFork |-> blk.parentFork, view |-> view]
      /\ espressoBatch' = IF EspressoBatchMustBeEmpty(blk.time, b.windowStart)
                          THEN [b EXCEPT !.txs = << >>, !.jst.blank = TRUE]
                          ELSE b
      /\ l1' = l1 /\ ledger' = ledger
  BY DEF ChooseOrigin, envVars
<1>2. b # NoBatch /\ b.jst.next # None
  BY <1>1 DEF WindowInv, TypeOK, SealHasNext
<1>3. /\ b \in InProgressBatch /\ b.onto \in L2Ref /\ b.jst \in Justification
      /\ b.windowStart \in Nat /\ b.jst.next < Len(ledger)
  BY <1>2, BatchFacts
<1>4. n = RequiredOrigin(l1, ledger, b.onto, b.jst)
  BY DEF RequiredOrigin
<1>5. n < Len(l1)
  <2>1. ledger[b.jst.next + 1].l1Head \in Nat
    <3>1. ledger \in Seq(Header) /\ b.jst.next + 1 \in 1..Len(ledger)
      BY <1>2, <1>3 DEF WindowInv, TypeOK, Justification, Heights, None
    <3>2. ledger[b.jst.next + 1] \in Header
      BY <3>1
    <3> QED BY <3>2 DEF Header
  <2>2. l1 \in Seq(L1Block)
    BY DEF WindowInv, TypeOK
  <2> QED BY <1>1, <1>3, <2>1, <2>2, OriginFound
<1>6. ContentSound(l1, ledger, b.onto, b.jst, b.txs, b.windowStart)
  BY <1>2 DEF ContentInv, BatchContentSound
<1> HIDE DEF n, blk
<1>7. CASE EspressoBatchMustBeEmpty(blk.time, b.windowStart)
  <2>1. espressoBatch' = [b EXCEPT !.txs = << >>, !.jst.blank = TRUE]
    BY <1>1, <1>7
  <2>2. /\ espressoBatch'.onto = b.onto /\ espressoBatch'.windowStart = b.windowStart
        /\ espressoBatch'.jst.next = b.jst.next /\ espressoBatch'.jst.blank
        /\ espressoBatch'.txs = << >>
    BY <1>3, <2>1 DEF InProgressBatch, Justification
  <2>3. RequiredOrigin(l1', ledger', espressoBatch'.onto, espressoBatch'.jst) = n
    BY <1>1, <1>4, <2>2 DEF RequiredOrigin
  <2>4. BatchContentSound'
    BY <1>1, <1>2, <1>7, <2>2, <2>3 DEF BatchContentSound, ContentSound, blk
  <2>5. OriginSound'
    BY <1>1, <1>5, <2>2, <2>3 DEF OriginSound, blk
  <2> QED BY <2>4, <2>5
<1>8. CASE ~EspressoBatchMustBeEmpty(blk.time, b.windowStart)
  <2>1. espressoBatch' = b
    BY <1>1, <1>8
  <2>2. BatchContentSound'
    BY <1>1, <1>6, <2>1 DEF BatchContentSound
  <2>3. OriginSound'
    BY <1>1, <1>4, <1>5, <1>8, <2>1 DEF OriginSound, blk
  <2> QED BY <2>2, <2>3
<1> QED BY <1>7, <1>8

(* PreparePayloadAttributes refuses an origin later than the block. *)
LEMMA PrepareContent ==
  ASSUME WindowInv, ContentInv, PreparePayloadAttributes
  PROVE  OriginSound'
<1>1. /\ pc = "prepare" /\ pc' = "insert" /\ OriginFits
      /\ espressoBatch' = espressoBatch /\ origin' = origin /\ l1' = l1 /\ ledger' = ledger
  BY DEF PreparePayloadAttributes, envVars
<1>2. espressoBatch # NoBatch
  BY <1>1 DEF WindowInv, TypeOK
<1>3. espressoBatch.windowStart = espressoBatch.onto.time + BlockTime
  BY <1>2, BatchFacts
<1>4. origin.time <= espressoBatch.windowStart
  <2>1. origin.time \in Nat /\ espressoBatch.windowStart \in Nat
    BY <1>2, BatchFacts DEF WindowInv, TypeOK, Origin
  <2> QED BY <1>1, <1>3, <2>1 DEF OriginFits
<1> QED BY <1>1, <1>4 DEF ContentInv, OriginSound

(* The payload inserted carries the batch and the origin as they are. *)
LEMMA InsertContent ==
  ASSUME WindowInv, ContentInv, InsertPayload, NEW s \in sealed' \ sealed
  PROVE  SealedContentSound(s)'
<1> DEFINE b == espressoBatch
<1>1. /\ pc = "insert" /\ l1' = l1 /\ ledger' = ledger
      /\ s.parent = b.onto /\ s.ts = b.onto.time + BlockTime
      /\ s.epoch = origin.number /\ s.epochFork = origin.fork
      /\ s.txs = b.txs /\ s.jst = b.jst
  BY DEF InsertPayload, envVars
<1>2. b # NoBatch
  BY <1>1 DEF WindowInv, TypeOK
<1>3. b.windowStart = s.ts
  BY <1>1, <1>2, BatchFacts
<1>4. ContentSound(l1, ledger, b.onto, b.jst, b.txs, b.windowStart)
  BY <1>2 DEF ContentInv, BatchContentSound
<1>5. /\ origin.number = RequiredOrigin(l1, ledger, b.onto, b.jst)
      /\ origin.number < Len(l1)
      /\ origin.time = BlockAt(l1, origin.number).time
      /\ origin.fork = BlockAt(l1, origin.number).fork
      /\ EspressoBatchMustBeEmpty(origin.time, b.windowStart) => b.jst.blank
      /\ origin.time <= b.windowStart
  BY <1>1 DEF ContentInv, OriginSound
<1> QED BY <1>1, <1>3, <1>4, <1>5 DEF SealedContentSound

(* The bundles of HotShot blocks are of the kinds they are assumed to be. *)
LEMMA BundlesStep ==
  ASSUME TypeOK, ContentInv, [Next]_vars
  PROVE  \A i \in 1..Len(ledger') : ledger'[i].tx \in BundleKinds
<1>1. CASE HotShotDecides
  <2>1. PICK k \in BundleKinds :
          \E t, n : ledger' = Append(ledger, [ts |-> t, l1Head |-> n, tx |-> k])
    BY <1>1 DEF HotShotDecides
  <2>2. ledger \in Seq(Header) /\ Len(ledger) \in Nat
    BY DEF TypeOK
  <2>3. /\ Len(ledger') = Len(ledger) + 1
        /\ \A i \in 1..Len(ledger) : ledger'[i] = ledger[i]
        /\ ledger'[Len(ledger) + 1].tx = k
    BY <2>1, <2>2
  <2> QED BY <2>1, <2>2, <2>3 DEF ContentInv
<1>2. CASE ledger' = ledger
  BY <1>2 DEF ContentInv
<1>3. ledger' = ledger \/ HotShotDecides
  BY DEF Next, SequencerStep, EnvironmentStep, vars, envVars, StartBuildingEspressoBatch,
         StartFails, AppendHeader, InconsistentHeader, FinishUpdate, FetchRemaining, Panic,
         Complete, ChooseOrigin, PreparePayloadAttributes, PrepareNeedsReset, InsertPayload,
         CallFails, CancelBuildingBlock, Restart, HeadReset, DerivedBlock, L1Grows, L1Reorg
<1> QED BY <1>1, <1>2, <1>3

(* Until the L1 is reorganised, every step keeps the content sound. *)
LEMMA ContentStep ==
  ASSUME WindowInv, WindowInv', ContentUntilReorg, [Next]_vars
  PROVE  ContentUntilReorg'
<1> SUFFICES ASSUME view' = 0
             PROVE  ContentInv'
  BY DEF ContentUntilReorg
<1>1. TypeOK /\ TypeOK'
  BY DEF WindowInv
<1>2. view = 0 /\ GoesOn(l1, l1') /\ LedgerGrows
  BY <1>1, ChainStep, LedgerStep
<1>3. ContentInv
  BY <1>2 DEF ContentUntilReorg
<1>4. \A i \in 1..Len(ledger') : ledger'[i].tx \in BundleKinds
  BY <1>1, <1>3, BundlesStep
<1>5. BatchContentSound' /\ OriginSound'
  <2>1. CASE StartBuildingEspressoBatch \/ AppendHeader \/ FinishUpdate
    BY <1>3, <2>1, CollectContent
  <2>2. CASE ChooseOrigin
    BY <1>3, <2>2, ChooseContent
  <2>3. CASE PreparePayloadAttributes
    <3>1. espressoBatch' = espressoBatch
      BY <2>3 DEF PreparePayloadAttributes
    <3> QED BY <1>1, <1>2, <1>3, <2>3, <3>1, PrepareContent, BatchContentStable
  <2>4. CASE \/ StartFails \/ InconsistentHeader \/ FetchRemaining \/ Panic \/ Complete
             \/ PrepareNeedsReset \/ InsertPayload \/ CallFails \/ CancelBuildingBlock \/ Restart
    <3>1. espressoBatch' \in {espressoBatch, NoBatch} /\ pc' \notin {"prepare", "insert"}
      BY <2>4 DEF StartFails, InconsistentHeader, FetchRemaining, Panic, Complete,
                  PrepareNeedsReset, InsertPayload, CallFails, CancelBuildingBlock, Restart
    <3> QED BY <1>1, <1>2, <1>3, <3>1, BatchContentStable DEF OriginSound
  <2>5. CASE EnvironmentStep \/ UNCHANGED vars
    <3>1. espressoBatch' = espressoBatch /\ origin' = origin /\ pc' = pc
      BY <2>5 DEF EnvironmentStep, HeadReset, DerivedBlock, HotShotDecides, L1Grows, L1Reorg,
                  sequencerVars, vars
    <3> QED BY <1>1, <1>2, <1>3, <3>1, BatchContentStable, OriginSoundStable
  <2> QED BY <2>1, <2>2, <2>3, <2>4, <2>5 DEF Next, SequencerStep
<1>6. \A s \in sealed' : SealedContentSound(s)'
  <2>1. \A s \in sealed : SealedContentSound(s)'
    BY <1>1, <1>2, <1>3, SealedContentStable
  <2>2. CASE InsertPayload
    BY <1>3, <2>1, <2>2, InsertContent
  <2>3. CASE sealed' = sealed
    BY <2>1, <2>3
  <2>4. sealed' = sealed \/ InsertPayload
    BY DEF Next, SequencerStep, EnvironmentStep, vars, engineVars, StartBuildingEspressoBatch,
           StartFails, AppendHeader, InconsistentHeader, FinishUpdate, FetchRemaining, Panic,
           Complete, ChooseOrigin, PreparePayloadAttributes, PrepareNeedsReset,
           CallFails, CancelBuildingBlock, Restart, HeadReset, DerivedBlock, HotShotDecides,
           L1Grows, L1Reorg
  <2> QED BY <2>2, <2>3, <2>4
<1> QED BY <1>4, <1>5, <1>6 DEF ContentInv

(* The content invariant, for every behaviour up to the first L1 reorg. *)
LEMMA ContentInvariant == Spec => []ContentUntilReorg
<1>1. Init => ContentUntilReorg
  BY DEF Init, ContentUntilReorg, ContentInv, BatchContentSound, OriginSound
<1>2. WindowInv /\ WindowInv' /\ ContentUntilReorg /\ [Next]_vars => ContentUntilReorg'
  BY ContentStep
<1> QED BY <1>1, <1>2, WindowInvariant, PTL DEF Spec

-----------------------------------------------------------------------------
(* The rules of derivation on a sound batch. *)

(* The commitments of a complete justification are those of consecutive HotShot blocks. *)
LEMMA CommitmentsMatch ==
  ASSUME NEW led \in Seq(Header), NEW j \in Justification, NEW w \in Nat,
         j.next # None, JustificationSound(led, j, w)
  PROVE  /\ First(j) \in Nat
         /\ Len(Commitments(j)) \in Nat
         /\ First(j) + Len(Commitments(j)) = j.next + 1
         /\ \A i \in 1..Len(Commitments(j)) : Commitments(j)[i] = First(j) + i - 1
<1> DEFINE lo == j.prev + 1
           n == Len(j.blocks)
           tail == Append(j.blocks, j.next)
<1>1. /\ j.prev \in Int /\ j.prev >= -1 /\ j.next \in Nat
      /\ j.blocks \in Seq(Nat) /\ n \in Nat /\ lo \in Nat
  BY DEF Justification, Heights, None
<1>2. /\ \A i \in 1..n : j.blocks[i] = lo + i - 1
      /\ j.next = lo + n
  BY <1>1 DEF JustificationSound
<1>3. /\ tail \in Seq(Nat) /\ Len(tail) = n + 1
      /\ \A i \in 1..n + 1 : tail[i] = lo + i - 1
  <2>1. /\ tail \in Seq(Nat) /\ Len(tail) = n + 1 /\ tail[n + 1] = j.next
        /\ \A i \in 1..n : tail[i] = j.blocks[i]
    BY <1>1
  <2> HIDE DEF tail, lo, n
  <2>2. \A i \in 1..n + 1 : i \in 1..n \/ i = n + 1
    BY <1>1
  <2>3. j.next = lo + (n + 1) - 1
    BY <1>1, <1>2
  <2> QED BY <1>2, <2>1, <2>2, <2>3
<1>0. j.prev \in Int /\ lo \in Nat /\ n \in Nat /\ j.next = lo + n
  BY <1>1, <1>2
<1> HIDE DEF lo, n
<1>4. CASE j.prev # None
  <2>1. First(j) = j.prev /\ j.prev \in Nat /\ lo = j.prev + 1
    BY <1>1, <1>4 DEF First, None, lo
  <2>0. Commitments(j) = <<j.prev>> \o tail
    BY <1>4, Zenon DEF Commitments
  <2> HIDE DEF tail
  <2>2. /\ Len(<<j.prev>> \o tail) = n + 2
        /\ \A i \in 1..n + 2 : (<<j.prev>> \o tail)[i] = IF i <= 1 THEN j.prev ELSE tail[i - 1]
    <3>1. <<j.prev>> \in Seq(Nat) /\ Len(<<j.prev>>) = 1 /\ <<j.prev>>[1] = j.prev
      BY <2>1
    <3>2. /\ Len(<<j.prev>> \o tail) = Len(<<j.prev>>) + Len(tail)
          /\ \A i \in 1..Len(<<j.prev>>) + Len(tail) :
               (<<j.prev>> \o tail)[i] = IF i <= Len(<<j.prev>>) THEN <<j.prev>>[i]
                                         ELSE tail[i - Len(<<j.prev>>)]
      BY <1>3, <3>1, ConcatProperties
    <3> QED BY <1>1, <1>3, <3>1, <3>2
  <2> DEFINE c == <<j.prev>> \o tail
  <2>3. /\ Commitments(j) = c /\ Len(c) = n + 2
        /\ \A i \in 1..n + 2 : c[i] = IF i <= 1 THEN j.prev ELSE tail[i - 1]
    BY <2>0, <2>2
  <2> HIDE DEF c
  <2>4. \A i \in 1..n + 2 : c[i] = j.prev + i - 1
    <3> SUFFICES ASSUME NEW i \in 1..n + 2
                 PROVE  c[i] = j.prev + i - 1
      OBVIOUS
    <3>1. CASE i <= 1
      BY <1>1, <2>3, <3>1
    <3>2. CASE i > 1
      <4>1. i - 1 \in 1..n + 1
        BY <1>1, <3>2
      <4>2. lo + (i - 1) - 1 = j.prev + (i - 1)
        BY <1>0, <2>1, <4>1, SMTT(30)
      <4>3. ~(i <= 1) /\ j.prev + (i - 1) = j.prev + i - 1
        BY <1>0, <3>2
      <4> QED BY <1>3, <2>3, <4>1, <4>2, <4>3
    <3> QED BY <1>1, <3>1, <3>2
  <2>5. j.prev + (n + 2) = j.next + 1 /\ n + 2 \in Nat
    <3>1. lo = j.prev + 1
      BY <2>1
    <3> QED BY <1>0, <3>1
  <2> QED BY <2>1, <2>3, <2>4, <2>5
<1>5. CASE j.prev = None
  <2>1. lo = 0
    BY <1>5 DEF None, lo
  <2>2. Commitments(j) = << >> \o tail
    BY <1>5 DEF Commitments
  <2>3. << >> \o tail = tail
    BY <1>3
  <2>4. First(j) = 0
    <3>1. CASE n = 0
      <4>1. j.blocks = << >>
        BY <1>1, <3>1 DEF n
      <4> QED BY <1>2, <1>5, <2>1, <3>1, <4>1 DEF First
    <3>2. CASE n # 0
      <4>1. j.blocks # << >> /\ 1 \in 1..n
        BY <1>1, <3>2 DEF n
      <4> QED BY <1>2, <1>5, <2>1, <4>1 DEF First
    <3> QED BY <3>1, <3>2
  <2> HIDE DEF tail
  <2> QED BY <1>1, <1>2, <1>3, <2>1, <2>2, <2>3, <2>4
<1> QED BY <1>4, <1>5

(* Both ends of the window are where the justification says. *)
LEMMA BookendsHold ==
  ASSUME NEW led \in Seq(Header), NEW j \in Justification, NEW w \in Nat,
         j.next # None, JustificationSound(led, j, w)
  PROVE  CheckBookendsStart(led, j, w) /\ CheckBookendsEnd(led, j, w + BlockTime)
<1> DEFINE lo == j.prev + 1
           n == Len(j.blocks)
<1>1. /\ j.prev \in Int /\ j.prev >= -1 /\ j.next \in Nat
      /\ j.blocks \in Seq(Nat) /\ n \in Nat /\ lo \in Nat /\ BlockTime \in Nat \ {0}
      /\ j.blocks # << >> <=> n # 0
  BY ConfigAssumption DEF Justification, Heights, None
<1>2. /\ \A h \in 0..j.prev : led[h + 1].ts < w
      /\ led[lo + 1].ts >= w
      /\ \A i \in 1..n : j.blocks[i] = lo + i - 1 /\ led[j.blocks[i] + 1].ts < w + BlockTime
      /\ j.next = lo + n /\ led[j.next + 1].ts >= w + BlockTime
      /\ j.next < Len(led)
  BY <1>1 DEF JustificationSound
<1>3. j.prev # None => j.prev \in Nat /\ j.prev \in 0..j.prev
  BY <1>1 DEF None
<1>4. j.prev # None => led[j.prev + 1].ts \in Nat
  <2> SUFFICES ASSUME j.prev # None PROVE led[j.prev + 1].ts \in Nat
    OBVIOUS
  <2>1. j.prev + 1 \in 1..Len(led)
    BY <1>1, <1>2, <1>3, SMTT(30)
  <2>2. led[j.prev + 1] \in Header
    BY <2>1
  <2> QED BY <2>2 DEF Header
<1>5. First(j) = IF j.prev # None THEN j.prev ELSE lo
  <2>1. CASE j.prev # None
    BY <2>1 DEF First
  <2>2. CASE j.prev = None /\ n # 0
    <3>1. 1 \in 1..n
      BY <1>1, <2>2
    <3>2. j.blocks[1] = lo
      BY <1>1, <1>2, <3>1
    <3> QED BY <1>1, <2>2, <3>2 DEF First
  <2>3. CASE j.prev = None /\ n = 0
    BY <1>1, <1>2, <2>3 DEF First
  <2> QED BY <2>1, <2>2, <2>3
<1>6. j.prev = None => lo = 0
  BY DEF None
<1>7. (IF j.blocks # << >> THEN j.blocks[1] ELSE j.next) = lo
  <2>1. CASE n # 0
    <3>1. 1 \in 1..n
      BY <1>1, <2>1
    <3> QED BY <1>1, <1>2, <2>1, <3>1
  <2>2. CASE n = 0
    BY <1>1, <1>2, <2>2
  <2> QED BY <2>1, <2>2
<1>8. CheckBookendsStart(led, j, w)
  <2> HIDE DEF lo, n
  <2>1. BookendsAround(led, j, j.prev, lo, w)
    BY <1>2, <1>3, <1>5, <1>6 DEF BookendsAround
  <2> QED BY <1>7, <2>1 DEF CheckBookendsStart
<1>9. CheckBookendsEnd(led, j, w + BlockTime)
  <2>1. CASE n # 0
    <3> HIDE DEF lo, n
    <3>0. n \in 1..n
      BY <1>1, <2>1
    <3>1. j.blocks[n] = lo + n - 1 /\ j.blocks[n] # None
      BY <1>1, <1>2, <3>0, SMTT(30) DEF None
    <3>2. BookendsAround(led, j, j.blocks[n], j.next, w + BlockTime)
      BY <1>2, <3>0, <3>1 DEF BookendsAround
    <3> QED BY <1>1, <2>1, <3>2 DEF CheckBookendsEnd, n
  <2>2. CASE n = 0
    <3>1. j.next = lo
      BY <1>1, <1>2, <2>2
    <3>2. j.prev # None => led[j.prev + 1].ts < w + BlockTime
      BY <1>1, <1>2, <1>3, <1>4, SMTT(30)
    <3> HIDE DEF lo
    <3>3. BookendsAround(led, j, j.prev, j.next, w + BlockTime)
      BY <1>2, <1>5, <1>6, <3>1, <3>2 DEF BookendsAround
    <3> QED BY <1>1, <2>2, <3>3 DEF CheckBookendsEnd
  <2> QED BY <2>1, <2>2
<1> QED BY <1>8, <1>9

(* CheckBatchEspresso accepts a sound batch once its commitments are published. *)
LEMMA EspressoVerdict ==
  ASSUME WindowInv, ContentInv, NEW b \in sealed, NEW published \in Nat
  PROVE  /\ CheckBatchEspresso(ledger, published, l1, b.parent, b) \in {"accept", "undecided"}
         /\ published > b.jst.next =>
              CheckBatchEspresso(ledger, published, l1, b.parent, b) = "accept"
<1> DEFINE j == b.jst
           w == b.parent.time + BlockTime
           n == RequiredOrigin(l1, ledger, b.parent, b.jst)
           verified == VerifyCommitments(published, First(j), Commitments(j))
<1>1. b \in SealedBatch /\ SealedWindowSound(b) /\ SealedContentSound(b) /\ ledger \in Seq(Header)
  BY DEF WindowInv, TypeOK, ContentInv
<1>2. b.parent \in L2Ref /\ j \in Justification /\ b.ts \in Nat /\ b.epoch \in Nat
  BY <1>1 DEF SealedBatch
<1>3. b.ts = w /\ j.next # None /\ JustificationSound(ledger, j, w)
  BY <1>1 DEF SealedWindowSound
<1>4. j # NoJustification
  BY <1>3 DEF NoJustification
<1>5. /\ verified \in {"error", "match"}
      /\ published > j.next => verified = "match"
  <2>1. /\ First(j) \in Nat /\ Len(Commitments(j)) \in Nat
        /\ First(j) + Len(Commitments(j)) = j.next + 1
        /\ \A i \in 1..Len(Commitments(j)) : Commitments(j)[i] = First(j) + i - 1
    BY <1>1, <1>2, <1>3, CommitmentsMatch
  <2>2. j.next \in Nat
    BY <1>2, <1>3 DEF Justification, Heights
  <2> QED BY <2>1, <2>2 DEF VerifyCommitments
<1>6. CheckBookendsStart(ledger, j, w) /\ CheckBookendsEnd(ledger, j, w + BlockTime)
  BY <1>1, <1>2, <1>3, BookendsHold
<1>7. EspressoL1Origin(l1, b.parent, ledger[j.next + 1].l1Head) = n /\ n = b.epoch /\ n # None
  BY <1>1, <1>2 DEF RequiredOrigin, SealedContentSound, None
<1>8. IF EspressoBatchMustBeEmpty(BlockAt(l1, n).time, b.ts)
      THEN NoTransactions(ledger, b.txs)
      ELSE ValidateBatchTransactions(j, b.txs)
  <2>1. ContentSound(l1, ledger, b.parent, j, b.txs, b.ts)
    BY <1>1 DEF SealedContentSound
  <2>2. CASE EspressoBatchMustBeEmpty(BlockAt(l1, n).time, b.ts)
    <3>1. j.blank
      BY <1>1, <1>7, <2>2 DEF SealedContentSound
    <3>2. b.txs = << >>
      BY <2>1, <3>1 DEF ContentSound
    <3> QED BY <2>2, <3>2 DEF NoTransactions
  <2>3. CASE ~EspressoBatchMustBeEmpty(BlockAt(l1, n).time, b.ts)
    <3>1. ~j.blank /\ b.txs = j.blocks
      BY <2>1, <2>3 DEF ContentSound
    <3> QED BY <2>3, <3>1 DEF ValidateBatchTransactions
  <2> QED BY <2>2, <2>3
<1>9. CheckBatchEspresso(ledger, published, l1, b.parent, b) =
        IF verified = "error" THEN "undecided" ELSE "accept"
  <2> HIDE DEF verified
  <2>1. verified # "mismatch"
    BY <1>5
  <2> QED BY <1>4, <1>6, <1>7, <1>8, <2>1 DEF CheckBatchEspresso, verified
<1> HIDE DEF verified
<1> QED BY <1>5, <1>9

(* The blocks of L1 that the pipeline has read. *)
LEMMA KnownBlocks ==
  ASSUME l1 \in Seq(L1Block), NEW o \in Nat, NEW upTo \in o..(Len(l1) - 1)
  PROVE  LET known == SubSeq(l1, o + 1, upTo + 1)
         IN  /\ known # << >> /\ Len(known) = upTo + 1 - o
             /\ \A a \in Nat : a + 1 <= Len(known) => known[a + 1] = BlockAt(l1, o + a)
<1> DEFINE known == SubSeq(l1, o + 1, upTo + 1)
<1>1. Len(l1) \in Nat
  OBVIOUS
<1>2. o + 1 \in 1..Len(l1) + 1 /\ upTo + 1 \in (o + 1) - 1..Len(l1)
  BY <1>1
<1>3. /\ Len(known) = upTo + 1 - (o + 1) + 1
      /\ \A i \in 1..(upTo + 1 - (o + 1) + 1) : known[i] = l1[o + 1 + i - 1]
  BY <1>2, SubSeqProperties, SMTT(30)
<1>4. Len(known) = upTo + 1 - o /\ upTo + 1 - o \in Nat \ {0}
  BY <1>1, <1>3
<1>5. known # << >>
  BY <1>4
<1> HIDE DEF known
<1>6. ASSUME NEW a \in Nat, a + 1 <= Len(known)
      PROVE  known[a + 1] = BlockAt(l1, o + a)
  <2>1. a + 1 \in 1..(upTo + 1 - (o + 1) + 1) /\ o + 1 + (a + 1) - 1 = o + a + 1
    BY <1>1, <1>4, <1>6
  <2> QED BY <1>3, <2>1 DEF BlockAt
<1> QED BY <1>4, <1>5, <1>6 DEF known

(***************************************************************************)
(* checkSingularBatch on a sealed batch: never "drop", "future" only for a *)
(* batch that is not next, "accept" once everything is visible.            *)
(***************************************************************************)
LEMMA SealedVerdict ==
  ASSUME WindowInv, ContentInv, "unfit" \notin BundleKinds, NEW b \in sealed,
         NEW upTo \in b.parent.origin..(Len(l1) - 1),
         NEW included \in 0..(b.epoch + SeqWindowSize), NEW published \in Nat
  PROVE  /\ Verdict(b, upTo, included, published) \in {"accept", "undecided"}
         /\ upTo > b.parent.origin /\ published > b.jst.next =>
              Verdict(b, upTo, included, published) = "accept"
<1> DEFINE o == b.parent.origin
           known == SubSeq(l1, o + 1, upTo + 1)
           ahead == b.epoch - o
           blk == known[ahead + 1]
           late == b.ts > blk.time + MaxSequencerDrift
           espresso == CheckBatchEspresso(ledger, published, l1, b.parent, b)
<1>1. /\ b \in SealedBatch /\ SealedWindowSound(b) /\ SealedContentSound(b)
      /\ ledger \in Seq(Header) /\ l1 \in Seq(L1Block)
  BY DEF WindowInv, TypeOK, ContentInv
<1>2. /\ b.parent \in L2Ref /\ b.jst \in Justification /\ b.ts \in Nat /\ b.epoch \in Nat
      /\ o \in Nat /\ b.parent.time \in Nat /\ b.txs \in Seq(Nat) /\ b.jst.blocks \in Seq(Nat)
  BY <1>1 DEF SealedBatch, L2Ref, Justification
<1>3. b.ts = b.parent.time + BlockTime
  BY <1>1 DEF SealedWindowSound
<1>4. ahead \in {0, 1} /\ o + ahead = b.epoch
  <2>1. b.jst.next # None /\ b.jst.next < Len(ledger)
    BY <1>1 DEF SealedWindowSound, JustificationSound
  <2>2. b.epoch = RequiredOrigin(l1, ledger, b.parent, b.jst) /\ b.epoch # None
    BY <1>1, <1>2 DEF SealedContentSound, None
  <2>3. ledger[b.jst.next + 1].l1Head \in Nat
    <3>1. b.jst.next + 1 \in 1..Len(ledger)
      BY <1>1, <1>2, <2>1, SMTT(30) DEF Justification, Heights, None
    <3>2. ledger[b.jst.next + 1] \in Header
      BY <1>1, <3>1
    <3> QED BY <3>2 DEF Header
  <2>4. b.epoch \in {o, o + 1}
    BY <1>1, <1>2, <2>2, <2>3, OriginFound DEF RequiredOrigin
  <2> QED BY <1>2, <2>4, SMTT(30)
<1>5. /\ known # << >> /\ Len(known) = upTo + 1 - o
      /\ \A a \in Nat : a + 1 <= Len(known) => known[a + 1] = BlockAt(l1, o + a)
  BY <1>1, <1>2, KnownBlocks
<1>6. ahead + 1 <= Len(known) => blk = BlockAt(l1, b.epoch)
  <2>1. ahead \in Nat
    BY <1>4
  <2> HIDE DEF ahead, known
  <2> QED BY <1>4, <1>5, <2>1
<1>7. ahead + 1 <= Len(known) =>
        /\ b.epochFork = blk.fork /\ ~(b.ts < blk.time)
        /\ late => b.txs = << >>
  <2> SUFFICES ASSUME ahead + 1 <= Len(known)
               PROVE  /\ b.epochFork = blk.fork /\ ~(b.ts < blk.time)
                      /\ late => b.txs = << >>
    OBVIOUS
  <2>1. blk = BlockAt(l1, b.epoch)
    BY <1>6
  <2>2. blk.time \in Nat
    <3>1. b.epoch + 1 \in 1..Len(l1)
      <4>1. Len(l1) \in Nat /\ b.epoch < Len(l1)
        BY <1>1 DEF SealedContentSound
      <4> HIDE DEF known, ahead, blk, o
      <4> QED BY <1>2, <4>1
    <3>2. BlockAt(l1, b.epoch) \in L1Block
      BY <1>1, <3>1 DEF BlockAt
    <3> QED BY <2>1, <3>2 DEF L1Block
  <2> HIDE DEF blk
  <2>3. b.epochFork = blk.fork /\ blk.time <= b.ts
    BY <1>1, <2>1 DEF SealedContentSound
  <2>4. late => b.jst.blank
    <3> SUFFICES ASSUME late PROVE b.jst.blank
      OBVIOUS
    <3>1. EspressoBatchMustBeEmpty(blk.time, b.ts)
      BY <1>2, <2>2, ConfigAssumption DEF EspressoBatchMustBeEmpty
    <3> QED BY <1>1, <2>1, <3>1 DEF SealedContentSound
  <2>5. b.jst.blank => b.txs = << >>
    BY <1>1 DEF SealedContentSound, ContentSound
  <2> QED BY <1>2, <2>2, <2>3, <2>4, <2>5
<1>8. ~\E i \in 1..Len(b.txs) : ledger[b.txs[i] + 1].tx = "unfit"
  <2> SUFFICES ASSUME NEW i \in 1..Len(b.txs), ledger[b.txs[i] + 1].tx = "unfit"
               PROVE  FALSE
    OBVIOUS
  <2>1. b.txs # << >>
    BY <1>2
  <2>2. b.txs = b.jst.blocks
    BY <1>1, <2>1 DEF SealedContentSound, ContentSound
  <2>3. b.jst.blocks[i] < Len(ledger) /\ b.jst.blocks[i] \in Nat
    <3>1. \A k \in 1..Len(b.jst.blocks) : b.jst.blocks[k] < Len(ledger)
      BY <1>1 DEF SealedWindowSound, JustificationSound
    <3>2. i \in 1..Len(b.jst.blocks)
      BY <2>2
    <3>3. b.jst.blocks \in Seq(Nat)
      BY <1>2
    <3>4. b.jst.blocks[i] \in Nat
      BY <3>2, <3>3, SMTT(30)
    <3> QED BY <3>1, <3>2, <3>4
  <2>4. b.txs[i] + 1 \in 1..Len(ledger)
    BY <1>1, <2>2, <2>3
  <2> QED BY <2>4 DEF ContentInv
<1>9. /\ espresso \in {"accept", "undecided"}
      /\ published > b.jst.next => espresso = "accept"
  BY EspressoVerdict
<1>10. ~(b.epoch + SeqWindowSize < included)
  BY <1>2, ConfigAssumption
<1>11. ~(b.ts > b.parent.time + BlockTime) /\ ~(b.ts < b.parent.time + BlockTime)
  BY <1>2, <1>3
<1>12. late /\ ahead + 1 <= Len(known) => NoTransactions(ledger, b.txs)
  <2> HIDE DEF late, ahead, known
  <2>1. late /\ ahead + 1 <= Len(known) => b.txs = << >>
    BY <1>7
  <2>2. b.txs = << >> => NoTransactions(ledger, b.txs)
    BY DEF NoTransactions
  <2> QED BY <2>1, <2>2
<1>13. Verdict(b, upTo, included, published) =
         IF ahead + 1 > Len(known) THEN "undecided"
         ELSE IF late /\ ahead = 0 /\ Len(known) < 2 THEN "undecided"
         ELSE espresso
  <2>1. (ahead + 1 > Len(known)) <=> ~(ahead + 1 <= Len(known))
    <3> HIDE DEF known, ahead
    <3>0. Len(l1) \in Nat
      BY <1>1
    <3>3. upTo \in Int /\ o \in Int
      BY <1>2, <3>0
    <3>1. Len(known) \in Int /\ ahead \in Int
      <4> HIDE DEF o
      <4> QED BY <1>4, <1>5, <3>3
    <3> QED BY <3>1
  <2>2. Verdict(b, upTo, included, published) =
          CheckSingularBatch(ledger, published, l1, known, o, included, TRUE, b.parent, b)
    BY DEF Verdict
  <2> HIDE DEF espresso, known, o
  <2> QED BY <1>4, <1>5, <1>7, <1>8, <1>10, <1>11, <1>12, <2>1, <2>2 DEF CheckSingularBatch, espresso
<1>14. upTo > o => Len(known) >= 2
  BY <1>1, <1>2, <1>5, SMTT(30)
<1> HIDE DEF espresso, known, late
<1> QED BY <1>4, <1>5, <1>9, <1>13, <1>14

-----------------------------------------------------------------------------
(***************************************************************************)
(* As long as the L1 has not been reorganised and bundles hold only what   *)
(* may be in a batch, checkSingularBatch never drops a batch that          *)
(* sealEspressoBatch produced: for every configuration, HotShot chain, L1  *)
(* growth, failed call, head change and restart.                           *)
(***************************************************************************)
THEOREM SealedBatchesKept ==
  ASSUME "unfit" \notin BundleKinds
  PROVE  Spec => [](view = 0 => SealedNeverDropped)
<1>1. ASSUME WindowInv, ContentInv
      PROVE  SealedNeverDropped
  <2> SUFFICES ASSUME NEW b \in sealed, NEW upTo \in b.parent.origin..(Len(l1) - 1),
                      NEW included \in 0..(b.epoch + SeqWindowSize),
                      NEW published \in 0..Len(ledger)
               PROVE  Verdict(b, upTo, included, published) \in {"accept", "undecided"}
    BY DEF SealedNeverDropped
  <2>1. published \in Nat
    BY <1>1 DEF WindowInv, TypeOK
  <2> QED BY <1>1, <2>1, SealedVerdict
<1>2. WindowInv /\ ContentUntilReorg => (view = 0 => SealedNeverDropped)
  BY <1>1 DEF ContentUntilReorg
<1> QED BY <1>2, WindowInvariant, ContentInvariant, PTL

(***************************************************************************)
(* Under the same conditions it accepts the batch as soon as the HotShot   *)
(* contract has the commitment of Next and the pipeline the L1 block after *)
(* the parent's origin.                                                    *)
(***************************************************************************)
THEOREM SealedBatchesAccepted ==
  ASSUME "unfit" \notin BundleKinds
  PROVE  Spec => [](view = 0 => SealedAcceptedOnceVisible)
<1>1. ASSUME WindowInv, ContentInv
      PROVE  SealedAcceptedOnceVisible
  <2> SUFFICES ASSUME NEW b \in sealed, NEW upTo \in (b.parent.origin + 1)..(Len(l1) - 1),
                      NEW published \in (b.jst.next + 1)..Len(ledger)
               PROVE  Verdict(b, upTo, b.epoch + SeqWindowSize, published) = "accept"
    BY DEF SealedAcceptedOnceVisible
  <2>1. /\ b.parent.origin \in Nat /\ b.epoch \in Nat /\ b.jst.next \in Nat
        /\ Len(l1) \in Nat /\ Len(ledger) \in Nat
    <3>1. b \in SealedBatch /\ SealedWindowSound(b) /\ l1 \in Seq(L1Block) /\ ledger \in Seq(Header)
      BY <1>1 DEF WindowInv, TypeOK
    <3>2. b.parent \in L2Ref /\ b.jst \in Justification /\ b.epoch \in Nat
      BY <3>1 DEF SealedBatch
    <3>3. b.jst.next # None
      BY <3>1 DEF SealedWindowSound
    <3> QED BY <3>1, <3>2, <3>3 DEF L2Ref, Justification, Heights
  <2>2. published \in Nat /\ published > b.jst.next
    BY <2>1
  <2>3. upTo \in b.parent.origin..(Len(l1) - 1) /\ upTo > b.parent.origin
    BY <2>1
  <2>4. b.epoch + SeqWindowSize \in 0..(b.epoch + SeqWindowSize)
    <3>1. SeqWindowSize \in Nat /\ b.epoch \in Nat
      BY <2>1, ConfigAssumption
    <3> QED BY <3>1
  <2> QED BY <1>1, <2>2, <2>3, <2>4, SealedVerdict
<1>2. WindowInv /\ ContentUntilReorg => (view = 0 => SealedAcceptedOnceVisible)
  BY <1>1 DEF ContentUntilReorg
<1> QED BY <1>2, WindowInvariant, ContentInvariant, PTL
=============================================================================
