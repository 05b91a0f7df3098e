-------------------------- MODULE BatchQueueProofs --------------------------
(***************************************************************************)
(* Theorems about BatchQueue, checked by TLAPS, for every L1 chain, every  *)
(* Espresso ledger, and every setting of the block time, the confirmation  *)
(* depth and the sequencing window: the safe chain has a block in every    *)
(* epoch, and a verifier that has read all of L1 is no more than a         *)
(* sequencing window behind it.                                            *)
(***************************************************************************)
EXTENDS BatchQueue, SequenceTheorems, FiniteSetTheorems, WellFoundedInduction, TLAPS

-----------------------------------------------------------------------------
(* The inductive invariant. *)

(* s is a sequence, of whatever it holds. *)
IsSeq(s) == s \in Seq({s[i] : i \in 1..Len(s)})

(* The L1 chain is a prefix of the one L1Times describes. *)
L1OK(l) ==
  /\ l \in Seq(L1Block)
  /\ Len(l) \in 1..Len(L1Times)
  /\ \A i \in 1..Len(l) : l[i] = L1BlockOf(i - 1)

(* The L1 head that the header after a batch's window suggests. *)
SuggestedBy(b) == Ledger[b.jst.next + 1].l1Head

(* What holds of every batch on L1: the header after its window suggests an L1 *)
(* head, unless the HotShot contract never has its commitments.                *)
BatchOK(b) ==
  /\ b.epoch \in Nat /\ b.ts \in Nat
  /\ b.parent.time \in Nat /\ b.parent.origin \in Nat
  /\ First(b.jst) + Len(Commitments(b.jst)) \in Nat
  /\ SuggestedBy(b) \in Nat \/ AllPublished < First(b.jst) + Len(Commitments(b.jst))

PostedOK(l, ps) ==
  /\ IsSeq(ps) /\ Len(ps) = Len(l)
  /\ \A i \in 1..Len(ps) : ps[i] = << >> \/ \E b : ps[i] = <<b>> /\ BatchOK(b)

IsNode(q) ==
  q = [chain |-> q.chain, at |-> q.at, read |-> q.read, origin |-> q.origin,
       l1Blocks |-> q.l1Blocks, batches |-> q.batches, failed |-> q.failed]

(* A block of the chain: no older than its origin, which L1 has. *)
BlockOK(l, b) ==
  /\ b.time \in Nat /\ b.origin \in Nat
  /\ b.origin < Len(l) /\ b.time >= L1Times[b.origin + 1]

ChainOK(l, c) ==
  /\ IsSeq(c) /\ c # << >>
  /\ \A i \in 1..Len(c) : BlockOK(l, c[i])
  /\ \A i \in 2..Len(c) : c[i].origin \in {c[i - 1].origin, c[i - 1].origin + 1}

(* The L1 blocks a node knows, against its safe head: they are consecutive and *)
(* end with its origin; the first is at most one ahead of the head's origin,   *)
(* and then it is old enough for the next L2 block.                            *)
KnownOK(q, known) ==
  /\ IsSeq(known)
  /\ \A i \in 1..Len(known) : known[i] \in Nat /\ known[i] = q.origin - Len(known) + i
  /\ known = << >> => q.origin < SafeHead(q).origin
  /\ known # << >> =>
       /\ known[1] <= SafeHead(q).origin + 1
       /\ known[1] = SafeHead(q).origin + 1 =>
            SafeHead(q).time + BlockTime >= L1Times[known[1] + 1]

BatchesOK(bs) == IsSeq(bs) /\ \A i \in 1..Len(bs) : BatchOK(bs[i].batch)

NodeOK(l, ps, q) ==
  /\ IsNode(q)
  /\ q.at \in Nat /\ q.at < Len(l) /\ q.read \in 0..Len(ps[q.at + 1])
  /\ q.origin \in Nat /\ (q.origin = q.at \/ q.at = q.origin + 1)
  /\ ChainOK(l, q.chain)
  /\ KnownOK(q, q.l1Blocks)
  /\ BatchesOK(q.batches)

(* A node that has never been reset has not lost track of its epoch. *)
PromptOK(q) ==
  /\ q.failed = FALSE
  /\ q.l1Blocks # << >>
  /\ SafeHead(q).origin <= q.l1Blocks[1]

Inv ==
  /\ L1OK(l1)
  /\ PostedOK(l1, posted)
  /\ node = [n \in {"prompt", "other"} |-> node[n]]
  /\ NodeOK(l1, posted, node["prompt"]) /\ PromptOK(node["prompt"])
  /\ NodeOK(l1, posted, node["other"])

-----------------------------------------------------------------------------
(* A set of numbers that is not empty has a least element. *)
LEMMA LeastNat ==
  ASSUME NEW S \in SUBSET Nat, S # {}
  PROVE  \E n \in S : \A m \in S : n <= m
<1>1. PICK n \in S : \A m \in S : ~(<<m, n>> \in OpToRel(<, Nat))
  BY NatLessThanWellFounded, WFMin, Zenon
<1>2. \A m \in S : ~(m < n)
  BY <1>1 DEF OpToRel
<1>3. \A m \in S : n <= m
  BY <1>2
<1> QED BY <1>3, Zenon
-----------------------------------------------------------------------------
(* Sequences of anything. *)

(* A sequence over some set is one over its own elements. *)
LEMMA SeqIsSeq ==
  ASSUME NEW S, NEW s \in Seq(S)
  PROVE  IsSeq(s) /\ Len(s) \in Nat /\ DOMAIN s = 1..Len(s) /\ (s # << >> <=> Len(s) >= 1)
<1>1. Len(s) \in Nat /\ s = [i \in 1..Len(s) |-> s[i]] /\ (s # << >> <=> Len(s) >= 1)
  OBVIOUS
<1> DEFINE T == {s[i] : i \in 1..Len(s)}
<1>2. \A i \in 1..Len(s) : s[i] \in T
  OBVIOUS
<1> HIDE DEF T
<1>3. s \in [1..Len(s) -> T]
  BY <1>1, <1>2
<1>4. s \in Seq(T)
  BY <1>1, <1>3, SeqDef
<1> QED BY <1>1, <1>4 DEF IsSeq, T

(* What it is to be a sequence, without its set of elements. *)
LEMMA SeqFacts ==
  ASSUME NEW s, IsSeq(s)
  PROVE  /\ Len(s) \in Nat /\ DOMAIN s = 1..Len(s) /\ (s # << >> <=> Len(s) >= 1)
         /\ s = [i \in 1..Len(s) |-> s[i]]
BY DEF IsSeq

(* The empty sequence, one element, append, tail, concatenation. *)
LEMMA SeqEmpty == IsSeq(<< >>) /\ Len(<< >>) = 0 /\ DOMAIN << >> = {}
<1>1. << >> \in Seq({})
  OBVIOUS
<1>2. IsSeq(<< >>)
  BY <1>1, SeqIsSeq
<1> QED BY <1>2

LEMMA SeqOne ==
  ASSUME NEW x
  PROVE  IsSeq(<<x>>) /\ Len(<<x>>) = 1 /\ <<x>>[1] = x /\ <<x>> # << >>
<1>1. <<x>> \in Seq({x})
  OBVIOUS
<1>2. IsSeq(<<x>>)
  BY <1>1, SeqIsSeq
<1> QED BY <1>2

LEMMA SeqAppend ==
  ASSUME NEW s, IsSeq(s), NEW x
  PROVE  /\ IsSeq(Append(s, x)) /\ Len(Append(s, x)) = Len(s) + 1 /\ Append(s, x) # << >>
         /\ \A i \in 1..Len(s) : Append(s, x)[i] = s[i]
         /\ Append(s, x)[Len(s) + 1] = x
<1> DEFINE T == {s[i] : i \in 1..Len(s)}
           U == T \cup {x}
<1>1. s \in Seq(T)
  BY DEF IsSeq
<1> HIDE DEF T
<1>2. s \in Seq(U) /\ x \in U
  BY <1>1, SeqMonotonic
<1> HIDE DEF U
<1>3. /\ Append(s, x) \in Seq(U) /\ Len(Append(s, x)) = Len(s) + 1 /\ Append(s, x) # << >>
      /\ \A i \in 1..Len(s) : Append(s, x)[i] = s[i]
      /\ Append(s, x)[Len(s) + 1] = x
  BY <1>2
<1> QED BY <1>3, SeqIsSeq

LEMMA SeqTail ==
  ASSUME NEW s, IsSeq(s), s # << >>
  PROVE  /\ IsSeq(Tail(s)) /\ Len(Tail(s)) = Len(s) - 1
         /\ \A i \in 1..(Len(s) - 1) : Tail(s)[i] = s[i + 1]
<1> DEFINE T == {s[i] : i \in 1..Len(s)}
<1>1. s \in Seq(T)
  BY DEF IsSeq
<1> HIDE DEF T
<1>2. /\ Tail(s) \in Seq(T) /\ Len(Tail(s)) = Len(s) - 1
      /\ \A i \in 1..(Len(s) - 1) : Tail(s)[i] = s[i + 1]
  BY <1>1
<1> QED BY <1>2, SeqIsSeq

(* A stretch of a sequence. *)
LEMMA SeqSub ==
  ASSUME NEW s, IsSeq(s), NEW m \in 1..(Len(s) + 1), NEW n \in 0..Len(s), m <= n + 1
  PROVE  /\ IsSeq(SubSeq(s, m, n)) /\ Len(SubSeq(s, m, n)) = n - m + 1
         /\ \A i \in 1..(n - m + 1) : SubSeq(s, m, n)[i] = s[m + i - 1] /\ m + i - 1 \in 1..Len(s)
<1> DEFINE T == {s[i] : i \in 1..Len(s)}
<1>1. Len(s) \in Nat
  BY SeqFacts
<1>2. \A i \in m..n : i \in 1..Len(s) /\ s[i] \in T
  BY <1>1
<1> HIDE DEF T
<1>3. /\ SubSeq(s, m, n) \in Seq(T)
      /\ Len(SubSeq(s, m, n)) = IF m <= n THEN n - m + 1 ELSE 0
      /\ \A i \in 1..(n - m + 1) : SubSeq(s, m, n)[i] = s[m + i - 1]
  BY <1>1, <1>2, SubSeqProperties
<1>4. Len(SubSeq(s, m, n)) = n - m + 1
  BY <1>1, <1>3
<1>5. \A i \in 1..(n - m + 1) : m + i - 1 \in 1..Len(s)
  BY <1>1
<1> QED BY <1>3, <1>4, <1>5, SeqIsSeq

LEMMA SeqConcat ==
  ASSUME NEW s, IsSeq(s), NEW t, IsSeq(t)
  PROVE  /\ IsSeq(s \o t) /\ Len(s \o t) = Len(s) + Len(t)
         /\ \A i \in 1..(Len(s) + Len(t)) :
              (s \o t)[i] = IF i <= Len(s) THEN s[i] ELSE t[i - Len(s)]
<1> DEFINE S == {s[i] : i \in 1..Len(s)}
           T == {t[i] : i \in 1..Len(t)}
<1>1. s \in Seq(S) /\ t \in Seq(T)
  BY DEF IsSeq
<1> HIDE DEF S, T
<1>2. s \in Seq(S \cup T) /\ t \in Seq(S \cup T)
  BY <1>1, SeqMonotonic
<1>3. /\ s \o t \in Seq(S \cup T) /\ Len(s \o t) = Len(s) + Len(t)
      /\ \A i \in 1..(Len(s) + Len(t)) :
           (s \o t)[i] = IF i <= Len(s) THEN s[i] ELSE t[i - Len(s)]
  BY <1>2, ConcatProperties
<1> QED BY <1>3, SeqIsSeq

-----------------------------------------------------------------------------
(* The batch rules. *)

(* EspressoL1Origin keeps the parent's origin or takes the next one. *)
LEMMA OriginRange ==
  ASSUME NEW l, Len(l) \in Nat, NEW parent, parent.origin \in Nat, NEW suggested \in Nat,
         EspressoL1Origin(l, parent, suggested) # None, EspressoL1ConfDepth \in Nat
  PROVE  /\ EspressoL1Origin(l, parent, suggested) \in {parent.origin, parent.origin + 1}
         /\ EspressoL1Origin(l, parent, suggested) < Len(l)
<1> DEFINE e == EspressoL1Origin(l, parent, suggested)
           lagged == LaggedSuggestion(suggested)
           prev == parent.origin
<1>1. lagged \in Nat /\ prev \in Nat
  BY DEF LaggedSuggestion
<1> HIDE DEF lagged
<1>2. \A n \in Nat : L1BlockRefByNumber(l, n) # None => L1BlockRefByNumber(l, n) = n /\ n < Len(l)
  BY DEF L1BlockRefByNumber, HasBlock
<1>3. CASE lagged > prev + 1
  <2>1. e = IF ~HasBlock(l, prev + 1) THEN None
            ELSE IF BlockAt(l, prev + 1).time <= parent.time + BlockTime THEN prev + 1
            ELSE L1BlockRefByNumber(l, prev)
    BY <1>1, <1>3 DEF EspressoL1Origin, lagged
  <2> QED BY <1>1, <1>2, <2>1 DEF HasBlock
<1>4. CASE lagged < prev
  <2>1. e = L1BlockRefByNumber(l, prev)
    BY <1>1, <1>4 DEF EspressoL1Origin, lagged
  <2> QED BY <1>1, <1>2, <2>1
<1>5. CASE ~(lagged > prev + 1) /\ ~(lagged < prev)
  <2>1. e = IF ~HasBlock(l, lagged) THEN None
            ELSE IF BlockAt(l, lagged).time + MaxSequencerDrift < parent.time + BlockTime
                 THEN L1BlockRefByNumber(l, prev + 1)
            ELSE IF BlockAt(l, lagged).time > parent.time + BlockTime
                 THEN L1BlockRefByNumber(l, prev)
            ELSE lagged
    BY <1>5 DEF EspressoL1Origin, lagged
  <2>2. lagged = prev \/ lagged = prev + 1
    BY <1>1, <1>5
  <2> QED BY <1>1, <1>2, <2>1, <2>2 DEF HasBlock
<1> QED BY <1>3, <1>4, <1>5

(* EspressoL1Origin asks for no L1 block after the next one. *)
LEMMA OriginMissing ==
  ASSUME NEW l, Len(l) \in Nat, NEW parent, parent.origin \in Nat, NEW suggested \in Nat,
         EspressoL1Origin(l, parent, suggested) = None, EspressoL1ConfDepth \in Nat
  PROVE  parent.origin + 1 >= Len(l)
<1> DEFINE e == EspressoL1Origin(l, parent, suggested)
           lagged == LaggedSuggestion(suggested)
           prev == parent.origin
<1>1. lagged \in Nat /\ prev \in Nat
  BY DEF LaggedSuggestion
<1> HIDE DEF lagged
<1> SUFFICES ASSUME ~(prev + 1 >= Len(l)) PROVE FALSE
  OBVIOUS
<1>2. /\ HasBlock(l, prev) /\ HasBlock(l, prev + 1)
      /\ L1BlockRefByNumber(l, prev) = prev /\ L1BlockRefByNumber(l, prev + 1) = prev + 1
      /\ prev # None /\ prev + 1 # None
  BY <1>1 DEF L1BlockRefByNumber, HasBlock, None
<1>3. CASE lagged > prev + 1
  <2>1. e = IF ~HasBlock(l, prev + 1) THEN None
            ELSE IF BlockAt(l, prev + 1).time <= parent.time + BlockTime THEN prev + 1
            ELSE L1BlockRefByNumber(l, prev)
    BY <1>1, <1>3 DEF EspressoL1Origin, lagged
  <2> QED BY <1>2, <2>1
<1>4. CASE lagged < prev
  <2>1. e = L1BlockRefByNumber(l, prev)
    BY <1>1, <1>4 DEF EspressoL1Origin, lagged
  <2> QED BY <1>2, <2>1
<1>5. CASE ~(lagged > prev + 1) /\ ~(lagged < prev)
  <2>1. e = IF ~HasBlock(l, lagged) THEN None
            ELSE IF BlockAt(l, lagged).time + MaxSequencerDrift < parent.time + BlockTime
                 THEN L1BlockRefByNumber(l, prev + 1)
            ELSE IF BlockAt(l, lagged).time > parent.time + BlockTime
                 THEN L1BlockRefByNumber(l, prev)
            ELSE lagged
    BY <1>5 DEF EspressoL1Origin, lagged
  <2>2. lagged = prev \/ lagged = prev + 1
    BY <1>1, <1>5
  <2> QED BY <1>2, <2>1, <2>2
<1> QED BY <1>3, <1>4, <1>5

(* What an acceptable batch has passed. *)
Passed(ledger, published, l, known, epoch, safe, batch) ==
  /\ known # << >>
  /\ ~(batch.ts > safe.time + BlockTime) /\ ~(batch.ts < safe.time + BlockTime)
  /\ batch.parent = safe
  /\ batch.epoch - epoch \in {0, 1}
  /\ ~(batch.epoch - epoch + 1 > Len(known))
  /\ ~(batch.ts < known[batch.epoch - epoch + 1].time)
  /\ CheckBatchEspresso(ledger, published, l, safe, batch) = "accept"

(* A batch that checkSingularBatch accepts has passed each of its checks. *)
LEMMA AcceptedPassed ==
  ASSUME NEW ledger, NEW published, NEW l, NEW known, NEW epoch, NEW included, NEW safe, NEW batch,
         CheckSingularBatch(ledger, published, l, known, epoch, included, TRUE, safe, batch) = "accept"
  PROVE  Passed(ledger, published, l, known, epoch, safe, batch)
BY DEF CheckSingularBatch, Passed

(* The Espresso rules accept a batch only with the origin that they compute, and *)
(* when the contract has its commitments.                                        *)
LEMMA EspressoAccepts ==
  ASSUME NEW ledger, NEW published, NEW l, NEW safe, NEW batch,
         CheckBatchEspresso(ledger, published, l, safe, batch) = "accept"
  PROVE  LET origin == EspressoL1Origin(l, safe, ledger[batch.jst.next + 1].l1Head)
         IN  /\ origin # None /\ origin = batch.epoch
             /\ ~(published < First(batch.jst) + Len(Commitments(batch.jst)))
<1> DEFINE origin == EspressoL1Origin(l, safe, ledger[batch.jst.next + 1].l1Head)
<1> HIDE DEF origin
<1>1. origin # None /\ origin = batch.epoch
  BY DEF CheckBatchEspresso, origin
<1>2. VerifyCommitments(published, First(batch.jst), Commitments(batch.jst)) # "error"
  BY DEF CheckBatchEspresso
<1>3. ~(published < First(batch.jst) + Len(Commitments(batch.jst)))
  BY <1>2 DEF VerifyCommitments
<1> QED BY <1>1, <1>3 DEF origin

(* Why a batch is undecided on: too little of L1, or of the HotShot contract. *)
Unclear(ledger, published, l, known, safe, batch) ==
  \/ Len(known) < 2
  \/ batch.parent = safe /\ CheckBatchEspresso(ledger, published, l, safe, batch) = "undecided"

(* Why checkSingularBatch may leave a batch undecided. *)
LEMMA UndecidedBecause ==
  ASSUME NEW ledger, NEW published, NEW l, NEW known, NEW epoch, NEW included, NEW safe, NEW batch,
         CheckSingularBatch(ledger, published, l, known, epoch, included, TRUE, safe, batch) = "undecided",
         Len(known) \in Nat, known # << >>
  PROVE  Unclear(ledger, published, l, known, safe, batch)
<1> SUFFICES ASSUME ~(Len(known) < 2)
             PROVE  batch.parent = safe /\ CheckBatchEspresso(ledger, published, l, safe, batch) = "undecided"
  BY DEF Unclear
<1>1. batch.epoch - epoch \in {0, 1} => ~(batch.epoch - epoch + 1 > Len(known))
  OBVIOUS
<1> QED BY <1>1 DEF CheckSingularBatch

(* The Espresso rules leave a batch undecided only for what the contract or L1 lacks. *)
LEMMA EspressoUndecided ==
  ASSUME NEW ledger, NEW published, NEW l, NEW safe, NEW batch,
         CheckBatchEspresso(ledger, published, l, safe, batch) = "undecided"
  PROVE  \/ VerifyCommitments(published, First(batch.jst), Commitments(batch.jst)) = "error"
         \/ EspressoL1Origin(l, safe, ledger[batch.jst.next + 1].l1Head) = None
BY DEF CheckBatchEspresso


-----------------------------------------------------------------------------
(* Changing the fields of a node. *)

WithOrigin(q, o, k) == [q EXCEPT !.origin = o, !.l1Blocks = k]

(* The fields of a queue that NextBatch has changed. *)
LEMMA SetOrigin ==
  ASSUME NEW q, IsNode(q), NEW o, NEW k
  PROVE  LET r == WithOrigin(q, o, k)
         IN  /\ IsNode(r) /\ r.chain = q.chain /\ r.at = q.at /\ r.read = q.read /\ r.origin = o
             /\ r.l1Blocks = k /\ r.batches = q.batches /\ r.failed = q.failed
<1> DEFINE r == WithOrigin(q, o, k)
<1> HIDE DEF r
<1>1. PICK f1, f2, f3, f4, f5, f6, f7 :
        q = [chain |-> f1, at |-> f2, read |-> f3, origin |-> f4, l1Blocks |-> f5, batches |-> f6, failed |-> f7]
  BY Zenon DEF IsNode
<1>2. r = [q EXCEPT !.origin = o, !.l1Blocks = k]
  BY DEF r, WithOrigin
<1>3. r =
            [chain |-> q.chain, at |-> q.at, read |-> q.read, origin |-> o,
             l1Blocks |-> k, batches |-> q.batches, failed |-> q.failed]
  BY <1>1, <1>2
<1>4. /\ IsNode(r) /\ r.chain = q.chain /\ r.at = q.at /\ r.read = q.read /\ r.origin = o
      /\ r.l1Blocks = k /\ r.batches = q.batches /\ r.failed = q.failed
  BY <1>3 DEF IsNode
<1> QED BY <1>4 DEF r

WithRead(q, n, bs) == [q EXCEPT !.read = n, !.batches = bs]

LEMMA SetRead ==
  ASSUME NEW q, IsNode(q), NEW n, NEW bs
  PROVE  LET r == WithRead(q, n, bs)
         IN  /\ IsNode(r) /\ r.chain = q.chain /\ r.at = q.at /\ r.read = n /\ r.origin = q.origin
             /\ r.l1Blocks = q.l1Blocks /\ r.batches = bs /\ r.failed = q.failed
<1> DEFINE r == WithRead(q, n, bs)
<1> HIDE DEF r
<1>1. PICK f1, f2, f3, f4, f5, f6, f7 :
        q = [chain |-> f1, at |-> f2, read |-> f3, origin |-> f4, l1Blocks |-> f5, batches |-> f6, failed |-> f7]
  BY Zenon DEF IsNode
<1>2. r = [q EXCEPT !.read = n, !.batches = bs]
  BY DEF r, WithRead
<1>3. r =
            [chain |-> q.chain, at |-> q.at, read |-> n, origin |-> q.origin,
             l1Blocks |-> q.l1Blocks, batches |-> bs, failed |-> q.failed]
  BY <1>1, <1>2
<1>4. /\ IsNode(r) /\ r.chain = q.chain /\ r.at = q.at /\ r.read = n /\ r.origin = q.origin
      /\ r.l1Blocks = q.l1Blocks /\ r.batches = bs /\ r.failed = q.failed
  BY <1>3 DEF IsNode
<1> QED BY <1>4 DEF r

WithChain(q, k, c) == [q EXCEPT !.l1Blocks = k, !.chain = c]

LEMMA SetChain ==
  ASSUME NEW q, IsNode(q), NEW k, NEW c
  PROVE  LET r == WithChain(q, k, c)
         IN  /\ IsNode(r) /\ r.chain = c /\ r.at = q.at /\ r.read = q.read /\ r.origin = q.origin
             /\ r.l1Blocks = k /\ r.batches = q.batches /\ r.failed = q.failed
<1> DEFINE r == WithChain(q, k, c)
<1> HIDE DEF r
<1>1. PICK f1, f2, f3, f4, f5, f6, f7 :
        q = [chain |-> f1, at |-> f2, read |-> f3, origin |-> f4, l1Blocks |-> f5, batches |-> f6, failed |-> f7]
  BY Zenon DEF IsNode
<1>2. r = [q EXCEPT !.l1Blocks = k, !.chain = c]
  BY DEF r, WithChain
<1>3. r =
            [chain |-> c, at |-> q.at, read |-> q.read, origin |-> q.origin,
             l1Blocks |-> k, batches |-> q.batches, failed |-> q.failed]
  BY <1>1, <1>2
<1>4. /\ IsNode(r) /\ r.chain = c /\ r.at = q.at /\ r.read = q.read /\ r.origin = q.origin
      /\ r.l1Blocks = k /\ r.batches = q.batches /\ r.failed = q.failed
  BY <1>3 DEF IsNode
<1> QED BY <1>4 DEF r

WithKnown(q, k) == [q EXCEPT !.l1Blocks = k]

LEMMA SetKnown ==
  ASSUME NEW q, IsNode(q), NEW k
  PROVE  LET r == WithKnown(q, k)
         IN  /\ IsNode(r) /\ r.chain = q.chain /\ r.at = q.at /\ r.read = q.read /\ r.origin = q.origin
             /\ r.l1Blocks = k /\ r.batches = q.batches /\ r.failed = q.failed
BY DEF IsNode, WithKnown

WithBatches(q, bs) == [q EXCEPT !.batches = bs]

LEMMA SetBatches ==
  ASSUME NEW q, IsNode(q), NEW bs
  PROVE  LET r == WithBatches(q, bs)
         IN  /\ IsNode(r) /\ r.chain = q.chain /\ r.at = q.at /\ r.read = q.read /\ r.origin = q.origin
             /\ r.l1Blocks = q.l1Blocks /\ r.batches = bs /\ r.failed = q.failed
BY DEF IsNode, WithBatches

WithFailed(q) == [q EXCEPT !.failed = TRUE]

LEMMA SetFailed ==
  ASSUME NEW q, IsNode(q)
  PROVE  LET r == WithFailed(q)
         IN  /\ IsNode(r) /\ r.chain = q.chain /\ r.at = q.at /\ r.read = q.read /\ r.origin = q.origin
             /\ r.l1Blocks = q.l1Blocks /\ r.batches = q.batches /\ r.failed = TRUE
<1> DEFINE r == WithFailed(q)
<1> HIDE DEF r
<1>1. PICK f : f = TRUE
  OBVIOUS
<1>2. r = [q EXCEPT !.failed = f]
  BY <1>1 DEF r, WithFailed
<1>3. /\ IsNode(r) /\ r.chain = q.chain /\ r.at = q.at /\ r.read = q.read /\ r.origin = q.origin
      /\ r.l1Blocks = q.l1Blocks /\ r.batches = q.batches /\ r.failed = f
  BY <1>2 DEF IsNode
<1> QED BY <1>1, <1>3 DEF r

WithAt(q, a, n) == [q EXCEPT !.at = a, !.read = n]

LEMMA SetAt ==
  ASSUME NEW q, IsNode(q), NEW a, NEW n
  PROVE  LET r == WithAt(q, a, n)
         IN  /\ IsNode(r) /\ r.chain = q.chain /\ r.at = a /\ r.read = n /\ r.origin = q.origin
             /\ r.l1Blocks = q.l1Blocks /\ r.batches = q.batches /\ r.failed = q.failed
<1> DEFINE r == WithAt(q, a, n)
<1> HIDE DEF r
<1>1. PICK f1, f2, f3, f4, f5, f6, f7 :
        q = [chain |-> f1, at |-> f2, read |-> f3, origin |-> f4, l1Blocks |-> f5, batches |-> f6, failed |-> f7]
  BY Zenon DEF IsNode
<1>2. r = [q EXCEPT !.at = a, !.read = n]
  BY DEF r, WithAt
<1>3. r =
            [chain |-> q.chain, at |-> a, read |-> n, origin |-> q.origin,
             l1Blocks |-> q.l1Blocks, batches |-> q.batches, failed |-> q.failed]
  BY <1>1, <1>2
<1>4. /\ IsNode(r) /\ r.chain = q.chain /\ r.at = a /\ r.read = n /\ r.origin = q.origin
      /\ r.l1Blocks = q.l1Blocks /\ r.batches = q.batches /\ r.failed = q.failed
  BY <1>3 DEF IsNode
<1> QED BY <1>4 DEF r

(* The safe head of a node is a block of its chain. *)
LEMMA HeadOK ==
  ASSUME NEW l, NEW ps, NEW q, NodeOK(l, ps, q)
  PROVE  BlockOK(l, SafeHead(q)) /\ Len(q.chain) \in Nat /\ Len(q.chain) >= 1
<1>1. IsSeq(q.chain) /\ q.chain # << >> /\ \A i \in 1..Len(q.chain) : BlockOK(l, q.chain[i])
  BY DEF NodeOK, ChainOK
<1>2. Len(q.chain) \in Nat /\ Len(q.chain) >= 1
  BY <1>1, SeqFacts
<1> QED BY <1>1, <1>2 DEF SafeHead

-----------------------------------------------------------------------------
(* The stages of NextBatch. *)

(* What a change of the known blocks has to keep. *)
LEMMA OriginAdvancedOK ==
  ASSUME NEW l, NEW ps, NEW q, NodeOK(l, ps, q)
  PROVE  LET r == OriginAdvanced(q)
         IN  /\ NodeOK(l, ps, r) /\ r.origin = q.at /\ r.at = q.at /\ r.read = q.read
             /\ r.chain = q.chain /\ r.failed = q.failed
             /\ ~OriginBehind(q) => r.l1Blocks # << >>
             /\ PromptOK(q) => ~OriginBehind(q) /\ PromptOK(r)
<1> DEFINE k == IF OriginBehind(q) THEN << >> ELSE Append(q.l1Blocks, q.at)
           known == q.l1Blocks
           head == SafeHead(q)
<1>1. /\ IsNode(q) /\ q.at \in Nat /\ q.at < Len(l) /\ q.read \in 0..Len(ps[q.at + 1])
      /\ q.origin \in Nat /\ (q.origin = q.at \/ q.at = q.origin + 1)
      /\ ChainOK(l, q.chain) /\ KnownOK(q, known) /\ BatchesOK(q.batches)
  BY DEF NodeOK
<1>2. head.origin \in Nat
  BY HeadOK DEF BlockOK
<1>3. /\ IsSeq(known) /\ Len(known) \in Nat /\ (known # << >> <=> Len(known) >= 1)
      /\ \A i \in 1..Len(known) : known[i] \in Nat /\ known[i] = q.origin - Len(known) + i
      /\ known = << >> => q.origin < head.origin
      /\ known # << >> =>
           /\ known[1] <= head.origin + 1
           /\ known[1] = head.origin + 1 => head.time + BlockTime >= L1Times[known[1] + 1]
  BY <1>1, SeqFacts DEF KnownOK
<1>4. PromptOK(q) => known # << >> /\ head.origin <= known[1] /\ q.failed = FALSE
  BY DEF PromptOK
<1>5. known # << >> => known[1] \in Nat /\ known[1] <= q.origin
  BY <1>1, <1>3
<1>6. OriginBehind(q) <=> q.at < head.origin
  BY DEF OriginBehind
<1>7. PromptOK(q) => ~OriginBehind(q)
  BY <1>1, <1>2, <1>4, <1>5, <1>6
<1>8. CASE q.origin = q.at
  <2>1. OriginAdvanced(q) = q
    BY <1>8 DEF OriginAdvanced
  <2>2. ~OriginBehind(q) => known # << >>
    BY <1>1, <1>2, <1>3, <1>6, <1>8
  <2> QED BY <1>7, <1>8, <2>1, <2>2
<1>9. CASE q.origin # q.at
  <2>1. q.at = q.origin + 1
    BY <1>1, <1>9
  <2>2. OriginAdvanced(q) = [q EXCEPT !.origin = q.at, !.l1Blocks = k]
    BY <1>9 DEF OriginAdvanced
  <2> DEFINE r == OriginAdvanced(q)
  <2> HIDE DEF k
  <2>8. r = WithOrigin(q, q.at, k)
    BY <2>2 DEF WithOrigin
  <2> HIDE DEF r
  <2>3. /\ IsNode(r) /\ r.chain = q.chain /\ r.at = q.at /\ r.read = q.read /\ r.origin = q.at
        /\ r.l1Blocks = k /\ r.batches = q.batches /\ r.failed = q.failed
    BY <1>1, <2>8, SetOrigin
  <2>4. SafeHead(r) = head
    BY <2>3 DEF SafeHead
  <2> HIDE DEF head
  <2>5. CASE OriginBehind(q)
    <3>1. k = << >>
      BY <2>5 DEF k
    <3>2. KnownOK(r, k)
      BY <1>6, <2>3, <2>4, <2>5, <3>1, SeqEmpty DEF KnownOK
    <3>3. NodeOK(l, ps, r)
      BY <1>1, <2>3, <3>2 DEF NodeOK
    <3> QED BY <1>7, <2>3, <2>5, <3>3 DEF r
  <2>6. CASE ~OriginBehind(q)
    <3>1. k = Append(known, q.at)
      BY <2>6 DEF k
    <3> HIDE DEF known
    <3>2. /\ IsSeq(k) /\ Len(k) = Len(known) + 1 /\ k # << >>
          /\ \A i \in 1..Len(known) : k[i] = known[i]
          /\ k[Len(known) + 1] = q.at
      BY <1>3, <3>1, SeqAppend
    <3>3. \A i \in 1..Len(k) : k[i] \in Nat /\ k[i] = q.at - Len(k) + i
      <4> SUFFICES ASSUME NEW i \in 1..Len(k)
                   PROVE  k[i] \in Nat /\ k[i] = q.at - Len(k) + i
        OBVIOUS
      <4>1. CASE i = Len(known) + 1
        BY <1>1, <1>3, <3>2, <4>1
      <4>2. CASE i # Len(known) + 1
        <5>1. i \in 1..Len(known)
          BY <1>3, <3>2, <4>2
        <5>2. k[i] = known[i] /\ known[i] \in Nat /\ known[i] = q.origin - Len(known) + i
          BY <1>3, <3>2, <5>1
        <5>3. q.origin - Len(known) + i = q.at - Len(k) + i
          <6> DEFINE a == q.origin
                     m == Len(known)
                     v == q.at
                     z == Len(k)
          <6>1. a \in Nat /\ m \in Nat /\ v = a + 1 /\ z = m + 1 /\ i \in Nat
            BY <1>1, <1>3, <2>1, <3>2, <5>1
          <6> HIDE DEF a, m, v, z
          <6>2. a - m + i = v - z + i
            BY <6>1
          <6> QED BY <6>2 DEF a, m, v, z
        <5> QED BY <5>2, <5>3
      <4> QED BY <4>1, <4>2
    <3>4. CASE known = << >>
      <4>1. q.at = head.origin
        BY <1>1, <1>2, <1>3, <1>6, <2>1, <2>6, <3>4
      <4>2. k[1] = head.origin
        BY <1>3, <3>2, <3>4, <4>1
      <4>3. head.origin <= head.origin + 1 /\ head.origin # head.origin + 1
        BY <1>2
      <4>4. KnownOK(r, k)
        BY <2>3, <2>4, <3>2, <3>3, <4>2, <4>3 DEF KnownOK
      <4>5. NodeOK(l, ps, r)
        BY <1>1, <2>3, <4>4 DEF NodeOK
      <4> QED BY <1>4, <2>3, <2>6, <3>2, <3>4, <4>5 DEF r
    <3>5. CASE known # << >>
      <4>1. k[1] = known[1]
        BY <1>3, <3>2, <3>5
      <4>2. KnownOK(r, k)
        BY <1>3, <2>3, <2>4, <3>2, <3>3, <3>5, <4>1 DEF KnownOK
      <4>3. NodeOK(l, ps, r)
        BY <1>1, <2>3, <4>2 DEF NodeOK
      <4>4. PromptOK(q) => PromptOK(r)
        BY <1>4, <2>3, <2>4, <3>2, <4>1 DEF PromptOK
      <4> QED BY <2>3, <2>6, <3>2, <4>3, <4>4 DEF r
    <3> QED BY <3>4, <3>5
  <2> QED BY <2>5, <2>6
<1> QED BY <1>8, <1>9

(* A batch that is found on L1 is one of those posted. *)
LEMMA LoadedOK ==
  ASSUME NEW q, NEW published, NodeOK(l1, posted, q), PostedOK(l1, posted)
  PROVE  LET r == Loaded(q, published)
         IN  /\ NodeOK(l1, posted, r) /\ r.origin = q.origin /\ r.at = q.at
             /\ r.chain = q.chain /\ r.failed = q.failed /\ r.l1Blocks = q.l1Blocks
             /\ r.read = IF OutOfData(q) THEN q.read ELSE q.read + 1
<1>1. /\ IsNode(q) /\ q.at \in Nat /\ q.at < Len(l1) /\ q.read \in 0..Len(posted[q.at + 1])
      /\ q.origin \in Nat /\ (q.origin = q.at \/ q.at = q.origin + 1)
      /\ ChainOK(l1, q.chain) /\ KnownOK(q, q.l1Blocks) /\ BatchesOK(q.batches)
  BY DEF NodeOK
<1>2. CASE OutOfData(q)
  <2>1. Loaded(q, published) = q
    BY <1>2 DEF Loaded
  <2> QED BY <1>2, <2>1
<1>3. CASE ~OutOfData(q)
  <2> DEFINE b == [batch |-> posted[q.at + 1][q.read + 1], included |-> q.origin]
             bs == IF OriginBehind(q) \/ CheckBatch(q, b, published) = "drop" THEN q.batches
                   ELSE Append(q.batches, b)
             r == Loaded(q, published)
             n == q.read + 1
  <2>1. r = WithRead(q, n, bs)
    BY <1>3 DEF Loaded, WithRead
  <2>2. Len(l1) \in Nat /\ Len(posted) = Len(l1)
    BY SeqFacts DEF PostedOK
  <2>3. posted[q.at + 1] = << >> \/ \E c : posted[q.at + 1] = <<c>> /\ BatchOK(c)
    <3>1. q.at + 1 \in 1..Len(posted)
      BY <1>1, <2>2
    <3> QED BY <3>1 DEF PostedOK
  <2>4. q.read # Len(posted[q.at + 1])
    BY <1>3 DEF OutOfData
  <2>5. PICK c : posted[q.at + 1] = <<c>> /\ BatchOK(c)
    BY <1>1, <2>3, <2>4
  <2>6. q.read = 0 /\ n = 1 /\ Len(posted[q.at + 1]) = 1
    BY <1>1, <2>4, <2>5
  <2>7. b.batch = c
    BY <2>5, <2>6
  <2>8. IsSeq(q.batches) /\ \A i \in 1..Len(q.batches) : BatchOK(q.batches[i].batch)
    BY <1>1 DEF BatchesOK
  <2> HIDE DEF b, n
  <2>9. BatchesOK(bs)
    <3>1. CASE bs = q.batches
      BY <1>1, <3>1
    <3>2. CASE bs = Append(q.batches, b)
      <4> HIDE DEF bs
      <4>1. /\ IsSeq(bs) /\ Len(bs) = Len(q.batches) + 1
            /\ \A i \in 1..Len(q.batches) : bs[i] = q.batches[i]
            /\ bs[Len(q.batches) + 1] = b /\ Len(q.batches) \in Nat
        BY <2>8, <3>2, SeqAppend, SeqFacts
      <4>2. \A i \in 1..Len(bs) : i \in 1..Len(q.batches) \/ i = Len(q.batches) + 1
        BY <4>1
      <4> QED BY <2>5, <2>7, <2>8, <4>1, <4>2 DEF BatchesOK
    <3> QED BY <3>1, <3>2
  <2> HIDE DEF bs, r
  <2>10. /\ IsNode(r) /\ r.chain = q.chain /\ r.at = q.at /\ r.read = n /\ r.origin = q.origin
         /\ r.l1Blocks = q.l1Blocks /\ r.batches = bs /\ r.failed = q.failed
    BY <1>1, <2>1, SetRead
  <2>11. KnownOK(r, r.l1Blocks)
    BY <1>1, <2>10 DEF KnownOK, SafeHead
  <2>12. n \in 0..Len(posted[q.at + 1]) /\ n = q.read + 1
    BY <2>6
  <2>13. NodeOK(l1, posted, r)
    BY <1>1, <2>9, <2>10, <2>11, <2>12 DEF NodeOK
  <2> QED BY <1>3, <2>10, <2>12, <2>13 DEF r
<1> QED BY <1>2, <1>3

-----------------------------------------------------------------------------
(* The next safe block. *)

(* What the batch b needs to be the next block of the node q. *)
Applicable(l, q, b) ==
  /\ b.epoch \in Nat /\ b.epoch < Len(l)
  /\ b.ts = SafeHead(q).time + BlockTime /\ b.ts >= L1Times[b.epoch + 1]
  /\ b.epoch \in {SafeHead(q).origin, SafeHead(q).origin + 1}
  /\ b.epoch \in {q.l1Blocks[1], q.l1Blocks[1] + 1}
  /\ b.epoch = q.l1Blocks[1] + 1 => Len(q.l1Blocks) >= 2

(* A chain goes on with a block of the same or of the next epoch. *)
LEMMA ChainGrows ==
  ASSUME NEW l, NEW c, ChainOK(l, c), NEW b, BlockOK(l, b),
         b.origin \in {c[Len(c)].origin, c[Len(c)].origin + 1}
  PROVE  LET d == Append(c, b)
         IN  ChainOK(l, d) /\ Len(d) = Len(c) + 1 /\ d[Len(d)] = b
<1> DEFINE d == Append(c, b)
<1>1. /\ IsSeq(c) /\ c # << >> /\ \A i \in 1..Len(c) : BlockOK(l, c[i])
      /\ \A i \in 2..Len(c) : c[i].origin \in {c[i - 1].origin, c[i - 1].origin + 1}
  BY DEF ChainOK
<1>2. Len(c) \in Nat /\ Len(c) >= 1
  BY <1>1, SeqFacts
<1>3. /\ IsSeq(d) /\ Len(d) = Len(c) + 1 /\ d # << >>
      /\ \A i \in 1..Len(c) : d[i] = c[i]
      /\ d[Len(c) + 1] = b
  BY <1>1, SeqAppend
<1> HIDE DEF d
<1>4. \A i \in 1..Len(d) : BlockOK(l, d[i])
  <2>1. \A i \in 1..Len(d) : i \in 1..Len(c) \/ i = Len(c) + 1
    BY <1>2, <1>3
  <2> QED BY <1>1, <1>3, <2>1
<1>5. ASSUME NEW i \in 2..Len(d)
      PROVE  d[i].origin \in {d[i - 1].origin, d[i - 1].origin + 1}
  <2>1. i - 1 \in 1..Len(c) /\ (i \in 2..Len(c) \/ i = Len(c) + 1)
    BY <1>2, <1>3
  <2>2. d[i - 1] = c[i - 1]
    BY <1>3, <2>1
  <2>3. CASE i \in 2..Len(c)
    <3>1. d[i] = c[i]
      BY <1>2, <1>3, <2>3
    <3> QED BY <1>1, <2>2, <2>3, <3>1
  <2>4. CASE i = Len(c) + 1
    <3>1. i - 1 = Len(c) /\ d[i] = b
      BY <1>2, <1>3, <2>4
    <3> QED BY <2>2, <3>1
  <2> QED BY <2>1, <2>3, <2>4
<1>6. ChainOK(l, d)
  BY <1>3, <1>4, <1>5 DEF ChainOK
<1> QED BY <1>3, <1>6 DEF d

(* The known blocks from the second on. *)
TailOK(q, known) ==
  /\ IsSeq(Tail(known)) /\ Tail(known) # << >> /\ Tail(known)[1] = known[1] + 1
  /\ known[2] = known[1] + 1 /\ known[1] \in Nat
  /\ \A i \in 1..Len(Tail(known)) :
       Tail(known)[i] \in Nat /\ Tail(known)[i] = q.origin - Len(Tail(known)) + i

(* Without the first of them the known blocks are still consecutive. *)
LEMMA KnownTail ==
  ASSUME NEW q, NEW known, KnownOK(q, known), Len(known) >= 2, q.origin \in Nat
  PROVE  TailOK(q, known)
<1> DEFINE t == Tail(known)
<1>1. /\ IsSeq(known)
      /\ \A i \in 1..Len(known) : known[i] \in Nat /\ known[i] = q.origin - Len(known) + i
  BY DEF KnownOK
<1>2. Len(known) \in Nat /\ known # << >>
  BY <1>1, SeqFacts
<1>3. /\ IsSeq(t) /\ Len(t) = Len(known) - 1
      /\ \A i \in 1..(Len(known) - 1) : t[i] = known[i + 1]
  BY <1>1, <1>2, SeqTail
<1> HIDE DEF t
<1>4. t # << >>
  BY <1>2, <1>3, SeqFacts
<1>5. ASSUME NEW i \in 1..Len(t)
      PROVE  t[i] \in Nat /\ t[i] = q.origin - Len(t) + i
  <2>1. i + 1 \in 1..Len(known) /\ t[i] = known[i + 1]
    BY <1>2, <1>3
  <2> QED BY <1>1, <1>2, <1>3, <2>1
<1>6. known[1] \in Nat /\ known[1] = q.origin - Len(known) + 1 /\ known[2] = q.origin - Len(known) + 2
  BY <1>1, <1>2
<1>7. t[1] = known[2] /\ known[2] = known[1] + 1
  BY <1>2, <1>3, <1>6
<1> QED BY <1>3, <1>4, <1>5, <1>6, <1>7 DEF TailOK, t

(* What each way on from q keeps. *)
Onward(q, r) ==
  /\ NodeOK(l1, posted, r) /\ r.at = q.at /\ r.origin = q.origin /\ r.read = q.read
  /\ PromptOK(q) => PromptOK(r)

(* The epoch of the head is the first known block or the one before it. *)
OnTrack(q) == SafeHead(q).origin \in {q.l1Blocks[1], q.l1Blocks[1] - 1}

(* maybeAdvanceEpoch and the new safe head keep the queue well formed. *)
LEMMA AppliedOK ==
  ASSUME NEW q, NodeOK(l1, posted, q), NEW b, Applicable(l1, q, b), q.l1Blocks # << >>, BlockTime \in Nat
  PROVE  Onward(q, Applied(q, b))
<1> DEFINE known == q.l1Blocks
           head == SafeHead(q)
           k == IF b.epoch = known[1] + 1 THEN Tail(known) ELSE known
           c == IF b.refused THEN q.chain ELSE Append(q.chain, BlockOf(b))
           new == IF b.refused THEN head ELSE BlockOf(b)
           r == Applied(q, b)
<1>1. /\ IsNode(q) /\ q.at \in Nat /\ q.at < Len(l1) /\ q.read \in 0..Len(posted[q.at + 1])
      /\ q.origin \in Nat /\ (q.origin = q.at \/ q.at = q.origin + 1)
      /\ ChainOK(l1, q.chain) /\ KnownOK(q, known) /\ BatchesOK(q.batches)
  BY DEF NodeOK
<1>2. head.origin \in Nat /\ head.time \in Nat
  BY HeadOK DEF BlockOK
<1>3. /\ IsSeq(known) /\ Len(known) \in Nat /\ Len(known) >= 1
      /\ \A i \in 1..Len(known) : known[i] \in Nat /\ known[i] = q.origin - Len(known) + i
      /\ known[1] <= head.origin + 1
      /\ known[1] = head.origin + 1 => head.time + BlockTime >= L1Times[known[1] + 1]
  BY <1>1, SeqFacts DEF KnownOK
<1>4. known[1] \in Nat
  BY <1>3
<1>5. /\ b.epoch \in Nat /\ b.epoch < Len(l1)
      /\ b.ts = head.time + BlockTime /\ b.ts >= L1Times[b.epoch + 1]
      /\ b.epoch \in {head.origin, head.origin + 1}
      /\ b.epoch \in {known[1], known[1] + 1}
      /\ b.epoch = known[1] + 1 => Len(known) >= 2
  BY DEF Applicable
<1>6. r = WithChain(q, k, c)
  BY DEF Applied, WithChain
<1>7. /\ BlockOf(b).time = b.ts /\ BlockOf(b).origin = b.epoch
  BY DEF BlockOf
<1>8. BlockOK(l1, BlockOf(b))
  BY <1>2, <1>5, <1>7 DEF BlockOK
<1>9. ChainOK(l1, c) /\ c[Len(c)] = new
  <2>1. BlockOf(b).origin \in {q.chain[Len(q.chain)].origin, q.chain[Len(q.chain)].origin + 1}
    BY <1>5, <1>7 DEF SafeHead
  <2>2. CASE b.refused
    BY <1>1, <2>2 DEF SafeHead
  <2>3. CASE ~b.refused
    <3>1. c = Append(q.chain, BlockOf(b)) /\ new = BlockOf(b)
      BY <2>3
    <3> HIDE DEF c, new
    <3> QED BY <1>1, <1>8, <2>1, <3>1, ChainGrows
  <2> QED BY <2>2, <2>3
<1>10. /\ new.origin \in Nat
       /\ b.epoch <= new.origin + 1
       /\ b.epoch = new.origin + 1 => new.time + BlockTime >= L1Times[b.epoch + 1]
       /\ new = head \/ new.origin = b.epoch
  <2>1. CASE b.refused
    BY <1>2, <1>5, <2>1
  <2>2. CASE ~b.refused
    BY <1>2, <1>5, <1>7, <2>2
  <2> QED BY <2>1, <2>2
<1>11. /\ IsSeq(k) /\ k # << >> /\ k[1] = b.epoch
       /\ \A i \in 1..Len(k) : k[i] \in Nat /\ k[i] = q.origin - Len(k) + i
  <2>1. CASE b.epoch = known[1] + 1
    <3>1. k = Tail(known) /\ Len(known) >= 2
      BY <1>5, <2>1
    <3> HIDE DEF k, known
    <3>2. /\ IsSeq(Tail(known)) /\ Tail(known) # << >> /\ Tail(known)[1] = known[1] + 1
          /\ \A i \in 1..Len(Tail(known)) :
               Tail(known)[i] \in Nat /\ Tail(known)[i] = q.origin - Len(Tail(known)) + i
      <4>1. TailOK(q, known)
        BY <1>1, <3>1, KnownTail
      <4> QED BY <4>1, Zenon DEF TailOK
    <3> QED BY <2>1, <3>1, <3>2, Zenon
  <2>2. CASE b.epoch = known[1]
    <3>1. k = known
      BY <1>4, <2>2
    <3> QED BY <1>3, <2>2, <3>1
  <2> QED BY <1>5, <2>1, <2>2
<1> HIDE DEF k, c, r, new
<1>12. /\ IsNode(r) /\ r.chain = c /\ r.at = q.at /\ r.read = q.read /\ r.origin = q.origin
       /\ r.l1Blocks = k /\ r.batches = q.batches /\ r.failed = q.failed
  BY <1>1, <1>6, SetChain
<1>13. SafeHead(r) = new
  BY <1>9, <1>12 DEF SafeHead
<1>14. KnownOK(r, k)
  BY <1>10, <1>11, <1>12, <1>13 DEF KnownOK
<1>15. NodeOK(l1, posted, r)
  BY <1>1, <1>9, <1>12, <1>14 DEF NodeOK
<1>16. ASSUME PromptOK(q) PROVE PromptOK(r)
  <2>1. q.failed = FALSE /\ head.origin <= known[1]
    BY <1>16 DEF PromptOK
  <2>2. new.origin <= b.epoch
    BY <1>2, <1>4, <1>5, <1>10, <2>1
  <2> QED BY <1>11, <1>12, <1>13, <2>1, <2>2 DEF PromptOK
<1> QED BY <1>12, <1>15, <1>16 DEF Onward, r

(* A batch of the current epoch or of the next one has a known origin. *)
LEMMA Ahead ==
  ASSUME NEW e \in Nat, NEW k \in Nat, NEW n \in Nat, e - k \in {0, 1}, ~(e - k + 1 > n)
  PROVE  e - k + 1 \in 1..n /\ (e = k \/ e = k + 1) /\ (e = k + 1 => e - k + 1 = 2)
OBVIOUS

(* An acceptable batch is one. *)
LEMMA AcceptedApplicable ==
  ASSUME NEW q, NodeOK(l1, posted, q), L1OK(l1), NEW x, BatchOK(x.batch), NEW published \in {0, AllPublished},
         CheckBatch(q, x, published) = "accept", BlockTime \in Nat, EspressoL1ConfDepth \in Nat
  PROVE  Applicable(l1, q, x.batch)
<1> DEFINE b == x.batch
           known == [i \in DOMAIN q.l1Blocks |-> BlockAt(l1, q.l1Blocks[i])]
           ks == q.l1Blocks
           head == SafeHead(q)
<1>1. CheckSingularBatch(Ledger, published, l1, known, ks[1], x.included, TRUE, head, b) = "accept"
  BY DEF CheckBatch
<1> HIDE DEF known, b, head
<1>2. Passed(Ledger, published, l1, known, ks[1], head, b)
  BY <1>1, AcceptedPassed
<1>3. /\ IsSeq(ks) /\ q.origin \in Nat /\ q.at \in Nat /\ q.at < Len(l1) /\ q.origin <= q.at
      /\ \A i \in 1..Len(ks) : ks[i] \in Nat /\ ks[i] = q.origin - Len(ks) + i
  BY DEF NodeOK, KnownOK
<1>4. DOMAIN ks = 1..Len(ks) /\ Len(ks) \in Nat /\ (ks # << >> <=> Len(ks) >= 1)
  BY <1>3, SeqFacts
<1>5. known \in [1..Len(ks) -> {BlockAt(l1, ks[i]) : i \in 1..Len(ks)}]
  BY <1>4 DEF known
<1>6. Len(known) = Len(ks) /\ (known # << >> <=> ks # << >>)
  <2>1. known \in Seq({BlockAt(l1, ks[i]) : i \in 1..Len(ks)})
    BY <1>4, <1>5, SeqDef
  <2>2. DOMAIN known = 1..Len(ks)
    BY <1>5
  <2> HIDE DEF ks
  <2>3. Len(known) = Len(ks)
    BY <1>4, <2>1, <2>2
  <2> QED BY <1>4, <2>1, <2>3, SeqIsSeq
<1>7. /\ b.epoch \in Nat /\ b.ts \in Nat
  BY DEF BatchOK, b
<1>8. BlockOK(l1, head)
  BY HeadOK DEF head
<1>9. /\ ks # << >> /\ b.ts = head.time + BlockTime /\ b.parent = head
      /\ b.epoch - ks[1] \in {0, 1}
      /\ ~(b.epoch - ks[1] + 1 > Len(ks))
      /\ ~(b.ts < known[b.epoch - ks[1] + 1].time)
      /\ CheckBatchEspresso(Ledger, published, l1, head, b) = "accept"
  <2>1. /\ known # << >> /\ ~(b.ts > head.time + BlockTime) /\ ~(b.ts < head.time + BlockTime)
        /\ b.parent = head /\ b.epoch - ks[1] \in {0, 1}
        /\ ~(b.epoch - ks[1] + 1 > Len(known)) /\ ~(b.ts < known[b.epoch - ks[1] + 1].time)
        /\ CheckBatchEspresso(Ledger, published, l1, head, b) = "accept"
    BY <1>2 DEF Passed
  <2>2. b.ts = head.time + BlockTime
    <3> DEFINE t == b.ts
               h == head.time
    <3>1. t \in Nat /\ h \in Nat /\ ~(t > h + BlockTime) /\ ~(t < h + BlockTime)
      BY <1>7, <1>8, <2>1 DEF BlockOK
    <3> HIDE DEF t, h
    <3>2. t = h + BlockTime
      BY <3>1
    <3> QED BY <3>2 DEF t, h
  <2> HIDE DEF ks
  <2>3. ks # << >> /\ ~(b.epoch - ks[1] + 1 > Len(ks))
    BY <1>6, <2>1
  <2> QED BY <2>1, <2>2, <2>3
<1>10. /\ EspressoL1Origin(l1, head, SuggestedBy(b)) # None
       /\ EspressoL1Origin(l1, head, SuggestedBy(b)) = b.epoch
  BY <1>9, EspressoAccepts DEF SuggestedBy
<1>11. Len(l1) \in Nat /\ SuggestedBy(b) \in Nat
  <2> DEFINE n == First(b.jst) + Len(Commitments(b.jst))
  <2>1. n \in Nat /\ (SuggestedBy(b) \in Nat \/ AllPublished < n)
    BY DEF BatchOK, b
  <2>2. ~(published < n)
    BY <1>9, EspressoAccepts
  <2>3. published \in Nat /\ published <= AllPublished /\ AllPublished \in Nat
    BY QueueAssumption DEF AllPublished
  <2> HIDE DEF n
  <2>4. ~(AllPublished < n)
    BY <2>1, <2>2, <2>3
  <2> QED BY <2>1, <2>4 DEF L1OK
<1>12. b.epoch \in {head.origin, head.origin + 1} /\ b.epoch < Len(l1)
  BY <1>7, <1>8, <1>10, <1>11, OriginRange DEF BlockOK
<1> DEFINE j == b.epoch - ks[1] + 1
<1>13. ks[1] \in Nat /\ ks[1] = q.origin - Len(ks) + 1
  BY <1>3, <1>4, <1>9
<1>14. j \in 1..Len(ks) /\ (b.epoch = ks[1] \/ b.epoch = ks[1] + 1) /\ (b.epoch = ks[1] + 1 => j = 2)
  <2> HIDE DEF ks
  <2>1. /\ b.epoch \in Nat /\ ks[1] \in Nat /\ Len(ks) \in Nat
        /\ b.epoch - ks[1] \in {0, 1} /\ ~(b.epoch - ks[1] + 1 > Len(ks))
    BY <1>4, <1>7, <1>9, <1>13, Zenon
  <2> QED BY <2>1, Ahead, Zenon
<1>15. ks[j] = b.epoch
  <2>1. ks[j] = q.origin - Len(ks) + j
    BY <1>3, <1>14
  <2> DEFINE o == q.origin
             n == Len(ks)
             k == ks[1]
             e == b.epoch
  <2>2. /\ o \in Nat /\ n \in Nat /\ k \in Nat /\ e \in Nat /\ k = o - n + 1
    BY <1>3, <1>4, <1>7, <1>13
  <2>3. o - n + (e - k + 1) = e
    <3> HIDE DEF o, n, k, e
    <3> QED BY <2>2
  <2> QED BY <2>1, <2>3
<1>16. ~(b.ts < known[j].time)
  BY <1>9
<1> HIDE DEF j
<1>17. known[j] = BlockAt(l1, b.epoch)
  BY <1>4, <1>14, <1>15 DEF known
<1>18. BlockAt(l1, b.epoch).time = L1Times[b.epoch + 1]
  <2>1. b.epoch + 1 \in 1..Len(l1) /\ (b.epoch + 1) - 1 = b.epoch
    BY <1>7, <1>11, <1>12
  <2>2. l1[b.epoch + 1] = L1BlockOf(b.epoch)
    BY <2>1 DEF L1OK
  <2> QED BY <2>2 DEF BlockAt, L1BlockOf
<1>19. L1Times[b.epoch + 1] \in Nat
  <2>1. b.epoch + 1 \in 1..Len(l1)
    BY <1>7, <1>11, <1>12
  <2>2. l1[b.epoch + 1] \in L1Block
    BY <2>1 DEF L1OK
  <2> QED BY <1>18, <2>2 DEF BlockAt, L1Block
<1>20. b.ts >= L1Times[b.epoch + 1]
  BY <1>7, <1>16, <1>17, <1>18, <1>19
<1>21. b.epoch = ks[1] + 1 => Len(ks) >= 2
  BY <1>4, <1>14
<1> QED BY <1>7, <1>9, <1>12, <1>14, <1>20, <1>21 DEF Applicable, b, head

(* So is the empty batch for the current epoch. *)
LEMMA EmptyApplicable ==
  ASSUME NEW q, NodeOK(l1, posted, q), L1OK(l1), q.l1Blocks # << >>, BlockTime \in Nat,
         OnTrack(q)
  PROVE  Applicable(l1, q, EmptyBatch(q))
<1> DEFINE b == EmptyBatch(q)
           ks == q.l1Blocks
           head == SafeHead(q)
<1>1. b.epoch = ks[1] /\ b.ts = head.time + BlockTime
  BY DEF EmptyBatch
<1>2. /\ IsSeq(ks) /\ q.origin \in Nat /\ q.at \in Nat /\ q.at < Len(l1) /\ q.origin <= q.at
      /\ \A i \in 1..Len(ks) : ks[i] \in Nat /\ ks[i] = q.origin - Len(ks) + i
      /\ ks[1] = head.origin + 1 => head.time + BlockTime >= L1Times[ks[1] + 1]
  BY DEF NodeOK, KnownOK
<1>3. Len(ks) \in Nat /\ Len(ks) >= 1 /\ Len(l1) \in Nat
  BY <1>2, SeqFacts DEF L1OK
<1>4. ks[1] \in Nat /\ ks[1] <= q.origin
  BY <1>2, <1>3
<1>5. head.time \in Nat /\ head.origin \in Nat /\ head.time >= L1Times[head.origin + 1]
  BY HeadOK DEF BlockOK
<1>6. head.origin = ks[1] \/ ks[1] = head.origin + 1
  BY <1>4, <1>5 DEF OnTrack
<1>7. L1Times[ks[1] + 1] \in Nat
  <2> DEFINE k == ks[1]
  <2>1. k \in Nat /\ k < Len(l1)
    BY <1>2, <1>3, <1>4
  <2> HIDE DEF k
  <2>3. k + 1 \in 1..Len(l1) /\ (k + 1) - 1 = k
    BY <1>3, <2>1
  <2>4. l1[k + 1] = L1BlockOf((k + 1) - 1) /\ l1[k + 1] \in L1Block
    BY <2>3 DEF L1OK
  <2>2. l1[ks[1] + 1] = L1BlockOf(ks[1]) /\ l1[ks[1] + 1] \in L1Block
    BY <2>3, <2>4 DEF k
  <2> QED BY <2>2 DEF L1BlockOf, L1Block
<1> HIDE DEF b, ks, head
<1>8. b.ts >= L1Times[b.epoch + 1]
  BY <1>1, <1>2, <1>5, <1>6, <1>7
<1>9. b.epoch < Len(l1) /\ ks[1] # ks[1] + 1 /\ b.epoch \in {head.origin, head.origin + 1}
  BY <1>1, <1>2, <1>3, <1>4, <1>6
<1> QED BY <1>1, <1>4, <1>8, <1>9 DEF Applicable, b, ks, head

-----------------------------------------------------------------------------
(* The loop over the batches. *)

KeptStep(q, v, s, i) == IF v[i] = "future" THEN Append(s, q.batches[i]) ELSE s

KeptValue(q, v, g, i) == IF i = 0 THEN << >> ELSE KeptStep(q, v, g[i - 1], i)

(* g is the function Remaining defines. *)
IsKept(q, v, n, g) == g = [i \in 0..n |-> KeptValue(q, v, g, i)]

(* The queue after a round, as a function by recursion on the batches. *)
LEMMA RemainingIs ==
  ASSUME NEW q, NEW v, NEW n
  PROVE  Remaining(q, v, n) = (CHOOSE g : IsKept(q, v, n, g))[n]
BY DEF Remaining, IsKept, KeptValue, KeptStep

(* There is such a function: one right up to m is extended to m + 1. *)
LEMMA KeptExists ==
  ASSUME NEW q, NEW v, NEW n \in Nat
  PROVE  \E g : IsKept(q, v, n, g)
<1> DEFINE D == 0..n
           Val(g, i) == KeptValue(q, v, g, i)
           Right(g, m) == /\ g = [i \in D |-> g[i]]
                          /\ \A i \in D : i <= m => g[i] = Val(g, i)
           Bad == {m \in Nat : ~\E g : Right(g, m)}
<1>1. ASSUME NEW m \in Nat, NEW g, \A i \in D : i < m => g[i] = Val(g, i)
      PROVE  \E h : Right(h, m)
  <2> DEFINE h == [i \in D |-> Val(g, i)]
  <2>1. ASSUME NEW i \in D, i <= m PROVE h[i] = Val(h, i)
    <3>1. CASE i = 0
      BY <3>1 DEF KeptValue
    <3>2. CASE i # 0
      <4>1. i - 1 \in D /\ i - 1 < m
        BY <2>1, <3>2
      <4>2. h[i - 1] = g[i - 1]
        BY <1>1, <4>1
      <4>3. /\ Val(h, i) = KeptStep(q, v, h[i - 1], i)
            /\ Val(g, i) = KeptStep(q, v, g[i - 1], i)
        BY <3>2 DEF KeptValue
      <4>4. h[i] = Val(g, i)
        OBVIOUS
      <4> HIDE DEF h
      <4> QED BY <4>2, <4>3, <4>4
    <3> QED BY <3>1, <3>2
  <2>2. h = [i \in D |-> h[i]]
    OBVIOUS
  <2>3. Right(h, m)
    BY <2>1, <2>2
  <2> QED BY <2>3
<1>2. Bad = {}
  <2> SUFFICES ASSUME Bad # {} PROVE FALSE
    OBVIOUS
  <2>1. PICK m \in Bad : \A k \in Bad : m <= k
    BY LeastNat
  <2>2. m \in Nat /\ ~\E g : Right(g, m)
    OBVIOUS
  <2>3. CASE m = 0
    <3>1. \A i \in D : ~(i < m)
      BY <2>3
    <3> QED BY <1>1, <2>2, <3>1
  <2>4. CASE m # 0
    <3>1. m - 1 \in Nat /\ m - 1 \notin Bad
      <4> HIDE DEF Bad
      <4> QED BY <2>1, <2>2, <2>4
    <3>2. PICK g : Right(g, m - 1)
      BY <3>1
    <3>3. ASSUME NEW i \in D, i < m PROVE g[i] = Val(g, i)
      <4>1. i <= m - 1
        BY <2>2, <3>3
      <4> QED BY <3>2, <4>1
    <3> QED BY <1>1, <2>2, <3>3
  <2> QED BY <2>3, <2>4
<1>3. PICK g : Right(g, n)
  BY <1>2
<1>4. \A i \in D : i <= n
  OBVIOUS
<1>5. g = [i \in D |-> Val(g, i)]
  BY <1>3, <1>4
<1> QED BY <1>5 DEF IsKept

(* s holds at most n batches, all of them in order. *)
Kept(l, s, n) == BatchesOK(s) /\ Len(s) <= n

(* A batch is put back. *)
LEMMA KeptGrows ==
  ASSUME NEW l, NEW s, BatchesOK(s), NEW x, BatchOK(x.batch)
  PROVE  BatchesOK(Append(s, x)) /\ Len(Append(s, x)) = Len(s) + 1
<1> DEFINE t == Append(s, x)
<1>1. IsSeq(s) /\ \A i \in 1..Len(s) : BatchOK(s[i].batch)
  BY DEF BatchesOK
<1>2. /\ IsSeq(t) /\ Len(t) = Len(s) + 1 /\ Len(s) \in Nat
      /\ \A i \in 1..Len(s) : t[i] = s[i]
      /\ t[Len(s) + 1] = x
  BY <1>1, SeqAppend, SeqFacts
<1> HIDE DEF t
<1>3. \A i \in 1..Len(t) : i \in 1..Len(s) \/ i = Len(s) + 1
  BY <1>2
<1>4. BatchesOK(t)
  BY <1>1, <1>2, <1>3 DEF BatchesOK
<1> QED BY <1>2, <1>4 DEF t

(* What the loop keeps are some of the batches it has gone through. *)
LEMMA RemainingOK ==
  ASSUME NEW l, NEW q, BatchesOK(q.batches), NEW v, NEW n \in 0..Len(q.batches)
  PROVE  Kept(l, Remaining(q, v, n), n)
<1>1. Len(q.batches) \in Nat /\ \A i \in 1..Len(q.batches) : BatchOK(q.batches[i].batch)
  BY SeqFacts DEF BatchesOK
<1>2. n \in Nat
  BY <1>1
<1> DEFINE g == CHOOSE h : IsKept(q, v, n, h)
           D == 0..n
           Bad == {i \in D : ~Kept(l, g[i], i)}
<1>3. IsKept(q, v, n, g)
  BY <1>2, KeptExists
<1> HIDE DEF g
<1>4. \A i \in D : g[i] = KeptValue(q, v, g, i)
  BY <1>3 DEF IsKept
<1>5. Bad = {}
  <2> SUFFICES ASSUME Bad # {} PROVE FALSE
    OBVIOUS
  <2>1. Bad \in SUBSET Nat
    BY <1>2
  <2>2. PICK i \in Bad : \A j \in Bad : i <= j
    BY <2>1, LeastNat
  <2>3. i \in D /\ ~Kept(l, g[i], i)
    OBVIOUS
  <2>4. CASE i = 0
    <3>1. g[i] = << >>
      BY <1>4, <2>3, <2>4 DEF KeptValue
    <3>2. Kept(l, << >>, 0)
      BY SeqEmpty DEF Kept, BatchesOK
    <3> QED BY <2>3, <2>4, <3>1, <3>2
  <2>5. CASE i # 0
    <3>1. i - 1 \in D /\ i \in 1..Len(q.batches) /\ i \in Nat
      BY <1>1, <1>2, <2>3, <2>5
    <3>2. i - 1 \notin Bad
      <4> HIDE DEF Bad
      <4> QED BY <2>2, <3>1
    <3>3. Kept(l, g[i - 1], i - 1)
      BY <3>1, <3>2
    <3> DEFINE s == g[i - 1]
               x == q.batches[i]
    <3>4. g[i] = IF v[i] = "future" THEN Append(s, x) ELSE s
      BY <1>4, <2>3, <2>5 DEF KeptValue, KeptStep
    <3>5. BatchesOK(s) /\ Len(s) <= i - 1 /\ Len(s) \in Nat
      BY <3>3, SeqFacts DEF Kept, BatchesOK
    <3>6. BatchOK(x.batch)
      BY <1>1, <3>1
    <3> HIDE DEF s, x
    <3>7. CASE v[i] = "future"
      <4>1. BatchesOK(Append(s, x)) /\ Len(Append(s, x)) = Len(s) + 1
        BY <3>5, <3>6, KeptGrows
      <4>2. Len(s) + 1 <= i
        BY <3>1, <3>5
      <4> QED BY <2>3, <3>4, <3>7, <4>1, <4>2 DEF Kept
    <3>8. CASE v[i] # "future"
      <4>1. Len(s) <= i
        BY <3>1, <3>5
      <4> QED BY <2>3, <3>4, <3>5, <3>8, <4>1 DEF Kept
    <3> QED BY <3>7, <3>8
  <2> QED BY <2>4, <2>5
<1>6. Kept(l, g[n], n)
  BY <1>2, <1>5
<1> QED BY <1>6, RemainingIs DEF g

(* With the batches from m on behind them. *)
LEMMA RejoinedOK ==
  ASSUME NEW l, NEW q, BatchesOK(q.batches), NEW v, NEW n \in 0..Len(q.batches),
         NEW m \in 1..(Len(q.batches) + 1), n < m
  PROVE  LET bs == Remaining(q, v, n) \o SubSeq(q.batches, m, Len(q.batches))
         IN  BatchesOK(bs) /\ Len(bs) <= n + Len(q.batches) - m + 1
<1> DEFINE s == Remaining(q, v, n)
           t == SubSeq(q.batches, m, Len(q.batches))
           bs == s \o t
           N == Len(q.batches)
<1>1. N \in Nat /\ IsSeq(q.batches) /\ \A i \in 1..N : BatchOK(q.batches[i].batch)
  BY SeqFacts DEF BatchesOK
<1>2. /\ IsSeq(t) /\ Len(t) = N - m + 1
      /\ \A i \in 1..(N - m + 1) : t[i] = q.batches[m + i - 1] /\ m + i - 1 \in 1..N
  <2>1. m <= N + 1 /\ N \in 0..N
    BY <1>1
  <2> QED BY <1>1, <2>1, SeqSub
<1>3. /\ IsSeq(s) /\ Len(s) \in Nat /\ Len(s) <= n
      /\ \A i \in 1..Len(s) : BatchOK(s[i].batch)
  BY RemainingOK, SeqFacts DEF Kept, BatchesOK
<1> HIDE DEF s, t
<1>4. /\ IsSeq(bs) /\ Len(bs) = Len(s) + Len(t)
      /\ \A i \in 1..(Len(s) + Len(t)) : bs[i] = IF i <= Len(s) THEN s[i] ELSE t[i - Len(s)]
  BY <1>2, <1>3, SeqConcat
<1> HIDE DEF bs
<1>5. ASSUME NEW i \in 1..Len(bs) PROVE BatchOK(bs[i].batch)
  <2>1. CASE i <= Len(s)
    <3>1. i \in 1..Len(s) /\ bs[i] = s[i]
      BY <1>3, <1>4, <2>1
    <3> QED BY <1>3, <3>1
  <2>2. CASE ~(i <= Len(s))
    <3> DEFINE j == i - Len(s)
    <3>1. j \in 1..(N - m + 1) /\ bs[i] = t[j]
      <4>1. i \in 1..(Len(s) + Len(t))
        BY <1>4
      <4>2. bs[i] = t[i - Len(s)]
        BY <1>4, <2>2, <4>1
      <4> HIDE DEF N
      <4>3. i - Len(s) \in 1..(N - m + 1)
        BY <1>1, <1>2, <1>3, <2>2, <4>1
      <4> QED BY <4>2, <4>3
    <3> HIDE DEF j
    <3>2. t[j] = q.batches[m + j - 1] /\ m + j - 1 \in 1..N
      BY <1>2, <3>1
    <3> QED BY <1>1, <3>1, <3>2
  <2> QED BY <2>1, <2>2
<1>6. Len(bs) <= n + N - m + 1
  BY <1>1, <1>2, <1>3, <1>4
<1> QED BY <1>4, <1>5, <1>6 DEF BatchesOK, bs, s, t

(* What deriveNextBatch comes to: a reset; or, with bs left of the batches, an epoch without *)
(* a batch, a batch it is undecided on, or the first acceptable batch.                       *)
DerivedAs(q, published, outOfData, r) ==
  IF ~OnTrack(q)
  THEN r = Result(WithFailed(q), TRUE)
  ELSE \E bs : /\ BatchesOK(bs)
               /\ \/ r = Generated(WithBatches(q, bs), outOfData)
                  \/ /\ r = Result(WithBatches(q, bs), FALSE)
                     /\ \E i \in 1..Len(q.batches) : CheckBatch(q, q.batches[i], published) = "undecided"
                  \/ /\ Len(bs) < Len(q.batches)
                     /\ \E x : /\ BatchOK(x.batch) /\ CheckBatch(q, x, published) = "accept"
                               /\ r = Result(Applied(WithBatches(q, bs), x.batch), TRUE)

(* deriveNextBatch accepts a batch, makes an empty one, or waits. *)
LEMMA Derivation ==
  ASSUME NEW q, NodeOK(l1, posted, q), NEW published, NEW outOfData
  PROVE  DerivedAs(q, published, outOfData, DeriveNextBatch(q, published, outOfData))
<1> DEFINE v == Verdicts(q, published)
           stops == Decisive(v)
           stop == CHOOSE i \in stops : \A j \in stops : i <= j
           N == Len(q.batches)
           From(n) == SubSeq(q.batches, n, N)
           r == DeriveNextBatch(q, published, outOfData)
           lost == ~OnTrack(q)
           b1 == Remaining(q, v, Len(v))
           b2 == Remaining(q, v, stop - 1) \o From(stop)
           b3 == Remaining(q, v, stop - 1) \o From(stop + 1)
<1>1. BatchesOK(q.batches)
  BY DEF NodeOK
<1>2. /\ N \in Nat /\ DOMAIN q.batches = 1..N
      /\ \A i \in 1..N : BatchOK(q.batches[i].batch)
  BY <1>1, SeqFacts DEF BatchesOK
<1>3. r = IF lost THEN Result(WithFailed(q), TRUE)
          ELSE IF stops = {} THEN Generated(WithBatches(q, b1), outOfData)
          ELSE IF v[stop] = "undecided" THEN Result(WithBatches(q, b2), FALSE)
          ELSE Result(Applied(WithBatches(q, b3), q.batches[stop].batch), TRUE)
  BY DEF DeriveNextBatch, WithFailed, WithBatches, OnTrack
<1>4. DOMAIN v = 1..N /\ \A i \in 1..N : v[i] = CheckBatch(q, q.batches[i], published)
  BY <1>2 DEF Verdicts
<1>5. Len(v) = N
  <2>1. v \in [1..N -> {CheckBatch(q, q.batches[i], published) : i \in 1..N}]
    BY <1>2 DEF Verdicts
  <2>2. v \in Seq({CheckBatch(q, q.batches[i], published) : i \in 1..N})
    BY <1>2, <2>1, SeqDef
  <2> HIDE DEF v, N
  <2> QED BY <1>2, <1>4, <2>2
<1>6. stops = {i \in 1..N : v[i] \in {"accept", "undecided"}}
  BY <1>4 DEF Decisive
<1>7. stops # {} => stop \in stops
  <2>1. stops \in SUBSET Nat
    BY <1>2, <1>6
  <2> HIDE DEF stops
  <2>2. stops # {} => \E i \in stops : \A j \in stops : i <= j
    BY <2>1, LeastNat
  <2> QED BY <2>2
<1>8. BatchesOK(b1)
  <2>1. N \in 0..N
    BY <1>2
  <2>2. Kept(l1, Remaining(q, v, N), N)
    BY <1>1, <2>1, RemainingOK
  <2> QED BY <1>5, <2>2 DEF Kept
<1> HIDE DEF stop
<1>9. ASSUME stops # {}
      PROVE  /\ stop \in 1..N /\ (v[stop] = "undecided" \/ v[stop] = "accept")
             /\ BatchesOK(b2) /\ BatchesOK(b3) /\ Len(b3) < N
  <2>1. stop \in 1..N /\ (v[stop] = "undecided" \/ v[stop] = "accept")
    BY <1>6, <1>7, <1>9
  <2> HIDE DEF v, stops
  <2>2. /\ stop - 1 \in 0..N /\ stop \in 1..(N + 1) /\ stop + 1 \in 1..(N + 1)
        /\ stop - 1 < stop /\ stop - 1 < stop + 1
    BY <1>2, <2>1
  <2>3. BatchesOK(b2)
    BY <1>1, <2>2, RejoinedOK
  <2>4. BatchesOK(b3) /\ Len(b3) <= (stop - 1) + N - (stop + 1) + 1
    BY <1>1, <2>2, RejoinedOK
  <2>5. IsSeq(b3)
    BY <2>4 DEF BatchesOK
  <2>6. Len(b3) \in Nat
    BY <2>5, SeqFacts
  <2> HIDE DEF b3
  <2>7. Len(b3) < N
    BY <1>2, <2>1, <2>4, <2>6
  <2> QED BY <2>1, <2>3, <2>4, <2>7
<1> HIDE DEF v, stops, b1, b2, b3, r
<1>10. CASE lost
  BY <1>3, <1>10 DEF DerivedAs, r
<1>11. CASE ~lost /\ stops = {}
  BY <1>3, <1>8, <1>11 DEF DerivedAs, r
<1>12. CASE ~lost /\ stops # {} /\ v[stop] = "undecided"
  <2>1. r = Result(WithBatches(q, b2), FALSE)
    BY <1>3, <1>12
  <2>2. stop \in 1..N /\ CheckBatch(q, q.batches[stop], published) = "undecided"
    BY <1>2, <1>4, <1>9, <1>12
  <2> QED BY <1>9, <1>12, <2>1, <2>2 DEF DerivedAs, r
<1>13. CASE ~lost /\ stops # {} /\ v[stop] # "undecided"
  <2>1. r = Result(Applied(WithBatches(q, b3), q.batches[stop].batch), TRUE)
    BY <1>3, <1>13
  <2>2. BatchOK(q.batches[stop].batch) /\ CheckBatch(q, q.batches[stop], published) = "accept"
    BY <1>2, <1>4, <1>9, <1>13
  <2> QED BY <1>9, <1>13, <2>1, <2>2 DEF DerivedAs, r
<1> QED BY <1>10, <1>11, <1>12, <1>13

(* Dropping batches changes nothing else. *)
LEMMA BatchesDropped ==
  ASSUME NEW l, NEW ps, NEW q, NodeOK(l, ps, q), NEW bs, BatchesOK(bs)
  PROVE  LET r == WithBatches(q, bs)
         IN  /\ NodeOK(l, ps, r) /\ r.at = q.at /\ r.origin = q.origin /\ r.read = q.read
             /\ r.l1Blocks = q.l1Blocks /\ r.batches = bs /\ r.chain = q.chain /\ r.failed = q.failed
             /\ SafeHead(r) = SafeHead(q)
             /\ PromptOK(q) => PromptOK(r)
<1> DEFINE r == WithBatches(q, bs)
<1>1. /\ IsNode(q) /\ q.at \in Nat /\ q.at < Len(l) /\ q.read \in 0..Len(ps[q.at + 1])
      /\ q.origin \in Nat /\ (q.origin = q.at \/ q.at = q.origin + 1)
      /\ ChainOK(l, q.chain) /\ KnownOK(q, q.l1Blocks)
  BY DEF NodeOK
<1> HIDE DEF r
<1>2. /\ IsNode(r) /\ r.chain = q.chain /\ r.at = q.at /\ r.read = q.read /\ r.origin = q.origin
      /\ r.l1Blocks = q.l1Blocks /\ r.batches = bs /\ r.failed = q.failed
  BY <1>1, SetBatches DEF r
<1>3. SafeHead(r) = SafeHead(q)
  BY <1>2 DEF SafeHead
<1>4. KnownOK(r, r.l1Blocks)
  BY <1>1, <1>2, <1>3 DEF KnownOK
<1>5. NodeOK(l, ps, r)
  BY <1>1, <1>2, <1>4 DEF NodeOK
<1>6. PromptOK(q) => PromptOK(r)
  BY <1>2, <1>3 DEF PromptOK
<1> QED BY <1>2, <1>3, <1>5, <1>6 DEF r

(* The two parts of what deriveNextBatch gives. *)
LEMMA ResultIs ==
  ASSUME NEW q, NEW got
  PROVE  Result(q, got).q = q /\ Result(q, got).got = got
BY DEF Result

(* Out of an epoch without a batch. *)
LEMMA GeneratedOK ==
  ASSUME NEW q, NodeOK(l1, posted, q), L1OK(l1), q.l1Blocks # << >>, BlockTime \in Nat, NEW outOfData, OnTrack(q)
  PROVE  Onward(q, Generated(q, outOfData).q)
<1> DEFINE r == Generated(q, outOfData)
           ks == q.l1Blocks
           head == SafeHead(q)
<1>1. /\ IsNode(q) /\ q.at \in Nat /\ q.at < Len(l1) /\ q.read \in 0..Len(posted[q.at + 1])
      /\ q.origin \in Nat /\ (q.origin = q.at \/ q.at = q.origin + 1)
      /\ ChainOK(l1, q.chain) /\ KnownOK(q, ks) /\ BatchesOK(q.batches)
  BY DEF NodeOK
<1>2. CASE ~ForceEmptyBatches(q, outOfData) \/ Len(ks) < 2
  <2>1. r.q = q
    BY <1>2, ResultIs DEF Generated
  <2> QED BY <1>1, <2>1 DEF Onward
<1>3. CASE ForceEmptyBatches(q, outOfData) /\ ~(Len(ks) < 2) /\ FillsEpoch(q)
  <2>1. r.q = Applied(q, EmptyBatch(q))
    BY <1>3, ResultIs DEF Generated
  <2>2. Applicable(l1, q, EmptyBatch(q))
    BY EmptyApplicable
  <2> HIDE DEF r
  <2>3. Onward(q, Applied(q, EmptyBatch(q)))
    BY <2>2, AppliedOK, Zenon
  <2> QED BY <2>1, <2>3 DEF r
<1>4. CASE ForceEmptyBatches(q, outOfData) /\ ~(Len(ks) < 2) /\ ~FillsEpoch(q)
  <2> DEFINE t == WithKnown(q, Tail(ks))
  <2>1. r.q = t
    <3>1. r = Result(t, FALSE)
      BY <1>4 DEF Generated, WithKnown
    <3> HIDE DEF r, t
    <3> QED BY <3>1, ResultIs
  <2> HIDE DEF r, t
  <2>2. /\ IsNode(t) /\ t.chain = q.chain /\ t.at = q.at /\ t.read = q.read /\ t.origin = q.origin
        /\ t.l1Blocks = Tail(ks) /\ t.batches = q.batches /\ t.failed = q.failed
    BY <1>1, SetKnown DEF t
  <2>3. SafeHead(t) = head
    BY <2>2 DEF SafeHead
  <2>4. head.origin \in Nat /\ head.time \in Nat
    BY HeadOK DEF BlockOK
  <2>5. Len(ks) \in Nat /\ Len(ks) >= 2
    <3>1. IsSeq(ks)
      BY <1>1 DEF KnownOK
    <3>2. Len(ks) \in Nat
      BY <3>1, SeqFacts
    <3> QED BY <1>4, <3>2
  <2> HIDE DEF ks
  <2>6. /\ IsSeq(Tail(ks)) /\ Tail(ks) # << >> /\ Tail(ks)[1] = ks[1] + 1
        /\ ks[2] = ks[1] + 1 /\ ks[1] \in Nat
        /\ \A i \in 1..Len(Tail(ks)) :
             Tail(ks)[i] \in Nat /\ Tail(ks)[i] = q.origin - Len(Tail(ks)) + i
    <3>1. KnownOK(q, ks) /\ q.origin \in Nat
      BY <1>1
    <3>2. TailOK(q, ks)
      BY <2>5, <3>1, KnownTail
    <3> QED BY <3>2, Zenon DEF TailOK
  <2>7. ~(head.time + BlockTime < BlockAt(l1, ks[2]).time) /\ ks[1] # head.origin + 1
    BY <1>4 DEF FillsEpoch, FirstOfEpoch, ks
  <2>8. head.origin = ks[1]
    BY <2>4, <2>6, <2>7 DEF ks, OnTrack
  <2>9. ks[2] \in Nat /\ ks[2] < Len(l1) /\ Len(l1) \in Nat
    <3>1. 2 \in 1..Len(ks)
      BY <2>5
    <3>2. ks[2] = q.origin - Len(ks) + 2
      BY <1>1, <3>1 DEF KnownOK
    <3>3. Len(l1) \in Nat /\ q.origin < Len(l1)
      BY <1>1 DEF L1OK
    <3>4. ks[2] \in Nat
      BY <2>6
    <3> QED BY <1>1, <2>5, <3>2, <3>3, <3>4
  <2>10. BlockAt(l1, ks[2]).time = L1Times[ks[2] + 1] /\ L1Times[ks[2] + 1] \in Nat
    <3>1. ks[2] + 1 \in 1..Len(l1) /\ (ks[2] + 1) - 1 = ks[2]
      BY <2>9
    <3>2. l1[ks[2] + 1] = L1BlockOf(ks[2]) /\ l1[ks[2] + 1] \in L1Block
      BY <3>1 DEF L1OK
    <3> QED BY <3>2 DEF BlockAt, L1BlockOf, L1Block
  <2>11. head.time + BlockTime >= L1Times[Tail(ks)[1] + 1]
    <3>1. Tail(ks)[1] = ks[2]
      BY <2>6
    <3> DEFINE u == L1Times[ks[2] + 1]
               w == head.time
    <3>2. w \in Nat /\ u \in Nat /\ ~(w + BlockTime < u)
      BY <2>4, <2>7, <2>10
    <3> HIDE DEF u, w
    <3>3. w + BlockTime >= u
      BY <3>2
    <3> QED BY <3>1, <3>3 DEF u, w
  <2>12. KnownOK(t, Tail(ks))
    <3>1. Tail(ks)[1] <= head.origin + 1
      BY <2>4, <2>6, <2>8
    <3> QED BY <2>2, <2>3, <2>6, <2>11, <3>1 DEF KnownOK
  <2>13. NodeOK(l1, posted, t)
    BY <1>1, <2>2, <2>12 DEF NodeOK
  <2>14. PromptOK(q) => PromptOK(t)
    <3>1. head.origin <= Tail(ks)[1]
      BY <2>4, <2>6, <2>8
    <3> QED BY <2>2, <2>3, <2>6, <3>1 DEF PromptOK
  <2> QED BY <2>1, <2>2, <2>13, <2>14 DEF Onward, r
<1> QED BY <1>2, <1>3, <1>4

(* deriveNextBatch keeps the queue well formed and the chain growing. *)
LEMMA DeriveNextBatchOK ==
  ASSUME NEW q, NodeOK(l1, posted, q), L1OK(l1), q.l1Blocks # << >>, BlockTime \in Nat,
         EspressoL1ConfDepth \in Nat, NEW published \in {0, AllPublished}, NEW outOfData
  PROVE  Onward(q, DeriveNextBatch(q, published, outOfData).q)
<1> DEFINE r == DeriveNextBatch(q, published, outOfData)
           ks == q.l1Blocks
           head == SafeHead(q)
<1>1. DerivedAs(q, published, outOfData, r)
  BY Derivation
<1> HIDE DEF r
<1>2. /\ IsNode(q) /\ q.at \in Nat /\ q.at < Len(l1) /\ q.read \in 0..Len(posted[q.at + 1])
      /\ q.origin \in Nat /\ (q.origin = q.at \/ q.at = q.origin + 1)
      /\ ChainOK(l1, q.chain) /\ KnownOK(q, ks) /\ BatchesOK(q.batches)
  BY DEF NodeOK
<1>3. CASE ~OnTrack(q)
  <2> DEFINE f == WithFailed(q)
  <2>1. r.q = f
    <3>1. r = Result(f, TRUE)
      BY <1>1, <1>3 DEF DerivedAs
    <3> HIDE DEF f
    <3> QED BY <3>1, ResultIs
  <2> HIDE DEF f
  <2>2. /\ IsNode(f) /\ f.chain = q.chain /\ f.at = q.at /\ f.read = q.read /\ f.origin = q.origin
        /\ f.l1Blocks = ks /\ f.batches = q.batches
    <3>1. IsNode(q)
      BY <1>2
    <3> QED BY <3>1, SetFailed DEF f
  <2>3. NodeOK(l1, posted, f)
    BY <1>2, <2>2 DEF NodeOK, KnownOK, SafeHead
  <2>4. ~PromptOK(q)
    <3> SUFFICES ASSUME PromptOK(q) PROVE FALSE
      OBVIOUS
    <3>1. head.origin \in Nat /\ head.origin <= ks[1]
      BY HeadOK DEF BlockOK, PromptOK
    <3>2. Len(ks) \in Nat /\ Len(ks) >= 1
      BY <1>2, SeqFacts DEF KnownOK
    <3>3. ks[1] \in Nat /\ ks[1] <= head.origin + 1
      BY <1>2, <3>2 DEF KnownOK
    <3>4. head.origin \notin {ks[1], ks[1] - 1}
      BY <1>3 DEF OnTrack
    <3> HIDE DEF ks, head
    <3> QED BY <3>1, <3>3, <3>4
  <2> QED BY <2>1, <2>2, <2>3, <2>4 DEF Onward, r
<1>4. CASE OnTrack(q)
  <2>1. PICK bs : /\ BatchesOK(bs)
                  /\ \/ r = Generated(WithBatches(q, bs), outOfData)
                     \/ r = Result(WithBatches(q, bs), FALSE)
                     \/ \E x : /\ BatchOK(x.batch) /\ CheckBatch(q, x, published) = "accept"
                               /\ r = Result(Applied(WithBatches(q, bs), x.batch), TRUE)
    BY <1>1, <1>4 DEF DerivedAs
  <2> DEFINE w == WithBatches(q, bs)
  <2> HIDE DEF w
  <2>2. /\ NodeOK(l1, posted, w) /\ w.at = q.at /\ w.origin = q.origin /\ w.read = q.read
        /\ w.l1Blocks = ks /\ SafeHead(w) = head
        /\ PromptOK(q) => PromptOK(w)
    BY <2>1, BatchesDropped DEF w
  <2>7. w.l1Blocks # << >> /\ OnTrack(w)
    BY <1>4, <2>2 DEF OnTrack
  <2>3. ASSUME NEW y, Onward(w, y) PROVE Onward(q, y)
    BY <2>2, <2>3 DEF Onward
  <2>4. CASE r = Generated(w, outOfData)
    <3>1. Onward(w, Generated(w, outOfData).q)
      BY <2>2, <2>7, GeneratedOK
    <3> QED BY <2>3, <2>4, <3>1 DEF r
  <2>5. CASE r = Result(w, FALSE)
    <3>1. r.q = w
      BY <2>5, ResultIs
    <3> QED BY <2>2, <3>1 DEF Onward, r
  <2>6. ASSUME NEW x, BatchOK(x.batch), CheckBatch(q, x, published) = "accept",
               r = Result(Applied(w, x.batch), TRUE)
        PROVE  Onward(q, r.q)
    <3>1. r.q = Applied(w, x.batch)
      BY <2>6, ResultIs
    <3>2. Applicable(l1, q, x.batch)
      BY <2>6, AcceptedApplicable
    <3>3. Applicable(l1, w, x.batch)
      BY <2>2, <3>2 DEF Applicable
    <3>4. Onward(w, Applied(w, x.batch))
      BY <2>2, <2>7, <3>3, AppliedOK, Zenon
    <3> QED BY <2>3, <3>1, <3>4
  <2> QED BY <2>1, <2>4, <2>5, <2>6 DEF w, r
<1> QED BY <1>3, <1>4

(* A call of NextBatch, with AdvanceL1Block. *)
LEMMA NextBatchOK ==
  ASSUME NEW q, NodeOK(l1, posted, q), PostedOK(l1, posted), L1OK(l1), NEW published \in {0, AllPublished},
         BlockTime \in Nat, EspressoL1ConfDepth \in Nat
  PROVE  /\ NodeOK(l1, posted, NextBatch(q, published))
         /\ PromptOK(q) => PromptOK(NextBatch(q, published))
<1> DEFINE o == OriginAdvanced(q)
           w == Loaded(o, published)
           eof == OutOfData(q)
           d == DeriveNextBatch(w, published, eof)
           r == IF OriginBehind(q) THEN Result(w, FALSE) ELSE d
           moves == eof /\ ~r.got /\ HasBlock(l1, q.at + 1)
           s == WithAt(r.q, r.q.at + 1, 0)
<1>1. NextBatch(q, published) = IF moves THEN s ELSE r.q
  BY DEF NextBatch, WithAt
<1>2. /\ NodeOK(l1, posted, o) /\ o.origin = q.at /\ o.at = q.at
      /\ ~OriginBehind(q) => o.l1Blocks # << >>
      /\ PromptOK(q) => ~OriginBehind(q) /\ PromptOK(o)
  BY OriginAdvancedOK
<1> HIDE DEF o
<1>3. /\ NodeOK(l1, posted, w) /\ w.origin = o.origin /\ w.at = o.at
      /\ w.chain = o.chain /\ w.failed = o.failed /\ w.l1Blocks = o.l1Blocks
  BY <1>2, LoadedOK
<1> HIDE DEF w
<1>4. PromptOK(o) => PromptOK(w)
  BY <1>3 DEF PromptOK, SafeHead
<1>5. NodeOK(l1, posted, r.q) /\ r.q.at = q.at /\ r.q.origin = q.at /\ (PromptOK(q) => PromptOK(r.q))
  <2>1. CASE OriginBehind(q)
    <3>1. r = Result(w, FALSE)
      BY <2>1
    <3> HIDE DEF r
    <3>2. r.q = w
      BY <3>1, ResultIs
    <3> QED BY <1>2, <1>3, <2>1, <3>2
  <2>2. CASE ~OriginBehind(q)
    <3>1. r = d
      BY <2>2
    <3>2. w.l1Blocks # << >>
      BY <1>2, <1>3, <2>2
    <3>3. Onward(w, d.q)
      BY <1>3, <3>2, DeriveNextBatchOK, Zenon
    <3> HIDE DEF r, d
    <3> QED BY <1>2, <1>3, <1>4, <3>1, <3>3 DEF Onward
  <2> QED BY <2>1, <2>2
<1> HIDE DEF r, d, eof
<1>6. CASE ~moves
  BY <1>1, <1>5, <1>6
<1>7. CASE moves
  <2> DEFINE p == r.q
  <2>1. /\ IsNode(p) /\ p.at = q.at /\ p.origin = q.at /\ q.at \in Nat
        /\ ChainOK(l1, p.chain) /\ KnownOK(p, p.l1Blocks) /\ BatchesOK(p.batches)
    BY <1>5 DEF NodeOK
  <2>2. q.at + 1 < Len(l1) /\ Len(l1) \in Nat /\ Len(posted) = Len(l1)
    BY <1>7 DEF HasBlock, L1OK, PostedOK
  <2>3. 0 \in 0..Len(posted[(q.at + 1) + 1])
    <3>1. (q.at + 1) + 1 \in 1..Len(posted)
      BY <2>1, <2>2
    <3>2. posted[(q.at + 1) + 1] = << >> \/ \E c : posted[(q.at + 1) + 1] = <<c>>
      BY <3>1 DEF PostedOK
    <3> QED BY <3>2
  <2> HIDE DEF p
  <2> DEFINE t == WithAt(p, p.at + 1, 0)
  <2> HIDE DEF t
  <2>4. /\ IsNode(t) /\ t.chain = p.chain /\ t.at = p.at + 1 /\ t.read = 0 /\ t.origin = p.origin
        /\ t.l1Blocks = p.l1Blocks /\ t.batches = p.batches /\ t.failed = p.failed
    BY <2>1, SetAt DEF t
  <2>5. SafeHead(t) = SafeHead(p)
    BY <2>4 DEF SafeHead
  <2>6. KnownOK(t, t.l1Blocks)
    BY <2>1, <2>4, <2>5 DEF KnownOK
  <2>7. NodeOK(l1, posted, t)
    BY <2>1, <2>2, <2>3, <2>4, <2>6 DEF NodeOK
  <2>8. PromptOK(p) => PromptOK(t)
    BY <2>4, <2>5 DEF PromptOK
  <2>9. NextBatch(q, published) = t
    BY <1>1, <1>7 DEF t, p
  <2> QED BY <1>5, <2>7, <2>8, <2>9 DEF p
<1> QED BY <1>6, <1>7

-----------------------------------------------------------------------------
(* The nodes. *)

(* A queue that Reset leaves behind is well formed. *)
LEMMA FreshOK ==
  ASSUME NEW l, NEW ps, NEW c, NEW base \in Nat, Len(l) \in Nat, Len(ps[base + 1]) \in Nat,
         ChainOK(l, c), base <= c[Len(c)].origin
  PROVE  /\ NodeOK(l, ps, Fresh(c, base))
         /\ base = c[Len(c)].origin => PromptOK(Fresh(c, base))
<1> DEFINE q == Fresh(c, base)
           head == c[Len(c)]
<1>1. /\ IsNode(q) /\ q.chain = c /\ q.at = base /\ q.read = 0 /\ q.origin = base
      /\ q.l1Blocks = <<base>> /\ q.batches = << >> /\ q.failed = FALSE
  BY DEF Fresh, IsNode
<1> HIDE DEF q
<1>2. SafeHead(q) = head
  BY <1>1 DEF SafeHead
<1>3. BlockOK(l, head)
  <2>1. IsSeq(c) /\ c # << >> /\ \A i \in 1..Len(c) : BlockOK(l, c[i])
    BY DEF ChainOK
  <2>2. Len(c) \in Nat /\ Len(c) >= 1
    BY <2>1, SeqFacts
  <2>3. Len(c) \in 1..Len(c)
    BY <2>2
  <2> QED BY <2>1, <2>3
<1>4. head.origin \in Nat /\ head.origin < Len(l) /\ base <= head.origin
  BY <1>3 DEF BlockOK
<1> HIDE DEF head
<1>5. KnownOK(q, q.l1Blocks)
  <2> DEFINE k == <<base>>
  <2>1. IsSeq(k) /\ Len(k) = 1 /\ k[1] = base /\ k # << >>
    BY SeqOne
  <2> HIDE DEF k
  <2>2. \A i \in 1..Len(k) : k[i] \in Nat /\ k[i] = q.origin - Len(k) + i
    BY <1>1, <2>1
  <2>3. k[1] <= head.origin + 1 /\ k[1] # head.origin + 1
    BY <1>4, <2>1
  <2>4. KnownOK(q, k)
    BY <1>2, <2>1, <2>2, <2>3 DEF KnownOK
  <2> QED BY <1>1, <2>4 DEF k
<1>6. BatchesOK(q.batches)
  BY <1>1, SeqEmpty DEF BatchesOK
<1>7. q.at < Len(l) /\ q.read \in 0..Len(ps[q.at + 1])
  BY <1>1, <1>4
<1>8. NodeOK(l, ps, q)
  BY <1>1, <1>5, <1>6, <1>7 DEF NodeOK
<1>9. base = head.origin => PromptOK(q)
  <2>1. <<base>>[1] = base /\ <<base>> # << >> /\ base <= base
    BY SeqOne
  <2> QED BY <1>1, <1>2, <2>1 DEF PromptOK
<1> QED BY <1>8, <1>9 DEF q, head

(* A well formed queue stays so when L1 grows. *)
LEMMA NodeStays ==
  ASSUME NEW l, Len(l) \in Nat, NEW m, Len(m) \in Nat, Len(l) <= Len(m),
         \A i \in 1..Len(l) : m[i] = l[i],
         NEW ps, NEW pt, \A i \in 1..Len(l) : pt[i] = ps[i],
         NEW q, NodeOK(l, ps, q), EspressoL1ConfDepth \in Nat
  PROVE  NodeOK(m, pt, q)
<1>1. /\ IsNode(q) /\ q.at \in Nat /\ q.at < Len(l) /\ q.read \in 0..Len(ps[q.at + 1])
      /\ q.origin \in Nat /\ (q.origin = q.at \/ q.at = q.origin + 1)
      /\ ChainOK(l, q.chain) /\ KnownOK(q, q.l1Blocks) /\ BatchesOK(q.batches)
  BY DEF NodeOK
<1>2. q.at < Len(m) /\ pt[q.at + 1] = ps[q.at + 1]
  BY <1>1
<1>3. ASSUME NEW b, BlockOK(l, b) PROVE BlockOK(m, b)
  <2>1. b.origin < Len(m)
    BY <1>3 DEF BlockOK
  <2> QED BY <1>3, <2>1 DEF BlockOK
<1>4. ChainOK(m, q.chain)
  BY <1>1, <1>3 DEF ChainOK
<1>5. BatchesOK(q.batches)
  BY <1>1 DEF BatchesOK
<1> QED BY <1>1, <1>2, <1>4, <1>5 DEF NodeOK

-----------------------------------------------------------------------------
(* What the batchers post. *)

(* The ledger's heights before a time: more of them before a later one. *)
LEMMA HeightsCount ==
  ASSUME NEW t \in Nat, NEW u \in Nat, t <= u
  PROVE  /\ Cardinality(HeightsBefore(t)) \in Nat /\ Cardinality(HeightsBefore(u)) \in Nat
         /\ Cardinality(HeightsBefore(t)) <= Cardinality(HeightsBefore(u))
         /\ Cardinality(HeightsBefore(u)) <= Len(Ledger) /\ Len(Ledger) \in Nat
<1>1. Ledger \in Seq(Header)
  BY QueueAssumption
<1>2. DOMAIN Ledger = 1..Len(Ledger) /\ Len(Ledger) \in Nat
  BY <1>1
<1>3. \A h \in 1..Len(Ledger) : Ledger[h].ts \in Nat
  <2>1. \A h \in 1..Len(Ledger) : Ledger[h] \in Header
    BY <1>1, <1>2
  <2> QED BY <2>1 DEF Header
<1>4. IsFiniteSet(1..Len(Ledger)) /\ Cardinality(1..Len(Ledger)) = Len(Ledger)
  <2>1. /\ IsFiniteSet(1..Len(Ledger))
        /\ Cardinality(1..Len(Ledger)) = IF 1 > Len(Ledger) THEN 0 ELSE Len(Ledger) - 1 + 1
    <3> DEFINE n == Len(Ledger)
               one == 1
    <3>1. n \in Int /\ one \in Int
      BY <1>2
    <3> HIDE DEF n, one
    <3>2. IsFiniteSet(one..n) /\ Cardinality(one..n) = IF one > n THEN 0 ELSE n - one + 1
      BY <3>1, FS_Interval
    <3> QED BY <3>2 DEF n, one
  <2> QED BY <1>2, <2>1
<1>5. HeightsBefore(u) \subseteq 1..Len(Ledger)
  BY <1>2 DEF HeightsBefore
<1>6. HeightsBefore(t) \subseteq HeightsBefore(u)
  BY <1>2, <1>3 DEF HeightsBefore
<1>7. IsFiniteSet(HeightsBefore(u)) /\ Cardinality(HeightsBefore(u)) <= Cardinality(1..Len(Ledger))
  BY <1>4, <1>5, FS_Subset
<1>8. IsFiniteSet(HeightsBefore(t)) /\ Cardinality(HeightsBefore(t)) <= Cardinality(HeightsBefore(u))
  BY <1>6, <1>7, FS_Subset
<1>9. Cardinality(HeightsBefore(t)) \in Nat /\ Cardinality(HeightsBefore(u)) \in Nat
  BY <1>7, <1>8, FS_CardinalityType
<1> QED BY <1>2, <1>4, <1>7, <1>8, <1>9

(* The commitments of a window end where its next header begins. *)
LEMMA WindowComms ==
  ASSUME NEW lo \in Nat, NEW hi \in Nat, lo <= hi
  PROVE  First(Window(lo, hi)) + Len(Commitments(Window(lo, hi))) = hi + 1
<1> DEFINE j == Window(lo, hi)
           bl == [i \in 1..(hi - lo) |-> lo + i - 1]
<1>1. j.prev = lo - 1 /\ j.blocks = bl /\ j.next = hi
  BY DEF Window
<1>2. hi - lo \in Nat
  OBVIOUS
<1>3. bl \in Seq(Nat) /\ Len(bl) = hi - lo
  <2>1. \A i \in 1..(hi - lo) : lo + i - 1 \in Nat
    OBVIOUS
  <2>2. bl \in [1..(hi - lo) -> Nat]
    BY <2>1
  <2>3. bl \in Seq(Nat) /\ DOMAIN bl = 1..(hi - lo)
    BY <1>2, <2>2, SeqDef
  <2> HIDE DEF bl
  <2> QED BY <1>2, <2>3
<1>4. hi - lo >= 1 => bl[1] = lo
  OBVIOUS
<1> HIDE DEF j, bl
<1>5. Append(bl, hi) \in Seq(Nat) /\ Len(Append(bl, hi)) = hi - lo + 1
  BY <1>3
<1>6. CASE lo = 0
  <2>1. j.prev = None
    BY <1>1, <1>6 DEF None
  <2>2. Commitments(j) = << >> \o Append(bl, hi)
    BY <1>1, <2>1 DEF Commitments
  <2>3. << >> \in Seq(Nat) /\ Len(<< >>) = 0
    OBVIOUS
  <2>4. Len(Commitments(j)) = hi + 1
    BY <1>5, <1>6, <2>2, <2>3, ConcatProperties
  <2>5. First(j) = IF bl # << >> THEN bl[1] ELSE hi
    BY <1>1, <2>1 DEF First
  <2>6. First(j) = 0
    BY <1>3, <1>4, <1>6, <2>5
  <2> QED BY <2>4, <2>6 DEF j
<1>7. CASE lo # 0
  <2>1. j.prev # None /\ lo - 1 \in Nat
    BY <1>1, <1>7 DEF None
  <2>2. Commitments(j) = <<lo - 1>> \o Append(bl, hi) /\ First(j) = lo - 1
    BY <1>1, <2>1 DEF Commitments, First
  <2>3. <<lo - 1>> \in Seq(Nat) /\ Len(<<lo - 1>>) = 1
    BY <2>1
  <2>4. Len(Commitments(j)) = 1 + (hi - lo + 1)
    <3> DEFINE a == <<lo - 1>>
               z == Append(bl, hi)
    <3>1. a \in Seq(Nat) /\ z \in Seq(Nat) /\ Len(a) = 1 /\ Len(z) = hi - lo + 1
      BY <1>5, <2>3
    <3> HIDE DEF a, z
    <3>2. Len(a \o z) = Len(a) + Len(z)
      BY <3>1, ConcatProperties
    <3>3. Len(a \o z) = 1 + (hi - lo + 1)
      BY <3>1, <3>2
    <3> QED BY <2>2, <3>3 DEF a, z
  <2> QED BY <2>2, <2>4 DEF j
<1> QED BY <1>6, <1>7

(* A window that ends with a header of the ledger has one to suggest an L1 head; a *)
(* window that does not is never verified.                                         *)
LEMMA WindowOK ==
  ASSUME NEW lo \in Nat, NEW hi \in Nat, lo <= hi, hi <= Len(Ledger), NEW b, b.jst = Window(lo, hi)
  PROVE  /\ First(b.jst) + Len(Commitments(b.jst)) \in Nat
         /\ SuggestedBy(b) \in Nat \/ AllPublished < First(b.jst) + Len(Commitments(b.jst))
<1>1. First(b.jst) + Len(Commitments(b.jst)) = hi + 1
  BY WindowComms
<1>2. b.jst.next = hi
  BY DEF Window
<1>3. Len(Ledger) \in Nat
  BY QueueAssumption
<1>4. CASE hi < Len(Ledger)
  <2>1. hi + 1 \in 1..Len(Ledger)
    BY <1>3, <1>4
  <2>2. Ledger[hi + 1] \in Header
    BY <2>1, QueueAssumption
  <2> QED BY <1>1, <1>2, <2>2 DEF Header, SuggestedBy
<1>5. CASE hi = Len(Ledger)
  BY <1>1, <1>3, <1>5 DEF AllPublished
<1> QED BY <1>3, <1>4, <1>5

(* What a batcher posts: a window of the ledger, or one that the ledger never has. *)
LEMMA BatchesForOK ==
  ASSUME NEW p, p.time \in Nat, p.origin \in Nat, NEW b \in BatchesFor(p)
  PROVE  BatchOK(b)
<1> DEFINE start == p.time + BlockTime
           lo == Cardinality(HeightsBefore(start))
           hi == Cardinality(HeightsBefore(start + BlockTime))
           N == Len(Ledger)
           right == Window(lo, hi)
           beyond == Window(N, N)
           empty(e) == EspressoBatchMustBeEmpty(BlockAt(l1, e).time, start)
           epochs == {e \in {p.origin, p.origin + 1} : HasBlock(l1, e)}
           Of(e, j, r) == [parent |-> p, ts |-> start, epoch |-> e, epochFork |-> 0,
                           txs |-> IF empty(e) THEN << >> ELSE right.blocks, jst |-> j, refused |-> r]
           Posts(e) == {Of(e, right, FALSE), Of(e, right, TRUE), Of(e, beyond, FALSE)}
<1>1. PICK e \in epochs : b \in Posts(e)
  <2>1. BatchesFor(p) = UNION {Posts(e) : e \in epochs}
    BY DEF BatchesFor
  <2> HIDE DEF Posts, epochs
  <2> QED BY <2>1
<1>2. start \in Nat /\ start + BlockTime \in Nat /\ start <= start + BlockTime
  BY ConfigAssumption
<1>3. lo \in Nat /\ hi \in Nat /\ lo <= hi /\ hi <= N /\ N \in Nat
  BY <1>2, HeightsCount
<1>4. e \in Nat
  BY <1>1
<1> HIDE DEF lo, hi, start, right, beyond, epochs, empty, N
<1>5. PICK j, r : b = Of(e, j, r) /\ (j = right \/ j = beyond)
  <2>1. b = Of(e, right, FALSE) \/ b = Of(e, right, TRUE) \/ b = Of(e, beyond, FALSE)
    BY <1>1
  <2> HIDE DEF Of
  <2> QED BY <2>1
<1>6. b.parent = p /\ b.ts = start /\ b.epoch = e /\ b.jst = j
  BY <1>5
<1>7. /\ First(b.jst) + Len(Commitments(b.jst)) \in Nat
      /\ SuggestedBy(b) \in Nat \/ AllPublished < First(b.jst) + Len(Commitments(b.jst))
  <2>1. CASE j = right
    BY <1>3, <1>6, <2>1, WindowOK DEF right, N
  <2>2. CASE j = beyond
    <3>1. N \in Nat /\ N <= N /\ N <= Len(Ledger)
      BY <1>3 DEF N
    <3> QED BY <1>6, <2>2, <3>1, WindowOK DEF beyond
  <2> QED BY <1>5, <2>1, <2>2
<1> QED BY <1>2, <1>4, <1>6, <1>7 DEF BatchOK

(* The blocks a batcher builds on have a time and an origin. *)
LEMMA ParentsOK ==
  ASSUME Inv, NEW p \in Parents
  PROVE  p.time \in Nat /\ p.origin \in Nat
<1>1. CASE p = SafeHead(node["prompt"])
  <2>1. BlockOK(l1, SafeHead(node["prompt"]))
    BY HeadOK DEF Inv
  <2> QED BY <1>1, <2>1 DEF BlockOK
<1>2. CASE p # SafeHead(node["prompt"])
  <2>1. PICK b \in PostedBatches : p = BlockOf(b)
    BY <1>2 DEF Parents
  <2>2. PICK i \in DOMAIN posted : \E j \in DOMAIN posted[i] : b = posted[i][j]
    BY DEF PostedBatches
  <2>3. i \in 1..Len(posted)
    BY SeqFacts DEF Inv, PostedOK
  <2>4. posted[i] = << >> \/ \E c : posted[i] = <<c>> /\ BatchOK(c)
    BY <2>3 DEF Inv, PostedOK
  <2>5. PICK c : posted[i] = <<c>> /\ BatchOK(c)
    BY <2>2, <2>4, SeqEmpty
  <2>6. b = c
    <3>1. DOMAIN <<c>> = 1..1 /\ <<c>>[1] = c
      OBVIOUS
    <3> QED BY <2>2, <2>5, <3>1
  <2>7. b.ts \in Nat /\ b.epoch \in Nat
    BY <2>5, <2>6 DEF BatchOK
  <2> QED BY <2>1, <2>7 DEF BlockOf
<1> QED BY <1>1, <1>2

-----------------------------------------------------------------------------
(* The invariant. *)

(* The invariant is inductive: one lemma for each action. *)
LEMMA InitInv ==
  ASSUME Init
  PROVE  Inv
<1>1. L1Times \in Seq(Nat) /\ Len(L1Times) \in Nat /\ Len(L1Times) >= 1
  BY QueueAssumption
<1>2. L1Times[1] \in Nat
  BY <1>1
<1>3. /\ l1 = <<L1BlockOf(0)>> /\ posted = << << >> >>
      /\ node = [n \in {"prompt", "other"} |-> Fresh(<<Genesis>>, 0)]
  BY DEF Init
<1>4. L1BlockOf(0) \in L1Block
  BY <1>2 DEF L1BlockOf, L1Block
<1>5. L1OK(l1) /\ Len(l1) = 1
  <2> DEFINE x == L1BlockOf(0)
  <2> HIDE DEF x
  <2>1. <<x>> \in Seq(L1Block) /\ Len(<<x>>) = 1 /\ <<x>>[1] = x
    BY <1>4 DEF x
  <2>2. \A i \in 1..1 : i = 1 /\ i - 1 = 0
    OBVIOUS
  <2> QED BY <1>1, <1>3, <2>1, <2>2 DEF L1OK, x
<1>6. PostedOK(l1, posted) /\ posted[1] = << >>
  <2>1. IsSeq(posted) /\ Len(posted) = 1 /\ posted[1] = << >>
    BY <1>3, SeqOne
  <2>2. \A i \in 1..1 : i = 1
    OBVIOUS
  <2> QED BY <1>5, <2>1, <2>2 DEF PostedOK
<1>7. Genesis.time = L1Times[1] /\ Genesis.origin = 0
  BY DEF Genesis
<1>8. ChainOK(l1, <<Genesis>>) /\ <<Genesis>>[Len(<<Genesis>>)] = Genesis
  <2> DEFINE c == <<Genesis>>
  <2>1. IsSeq(c) /\ Len(c) = 1 /\ c[1] = Genesis /\ c # << >>
    BY SeqOne
  <2> HIDE DEF c
  <2>2. BlockOK(l1, Genesis)
    BY <1>2, <1>5, <1>7 DEF BlockOK
  <2>3. (\A i \in 1..1 : i = 1) /\ 2..1 = {}
    OBVIOUS
  <2>4. ChainOK(l1, c)
    BY <2>1, <2>2, <2>3 DEF ChainOK
  <2> QED BY <2>1, <2>4 DEF c
<1>9. NodeOK(l1, posted, Fresh(<<Genesis>>, 0)) /\ PromptOK(Fresh(<<Genesis>>, 0))
  <2> DEFINE c == <<Genesis>>
             z == 0
  <2>1. ChainOK(l1, c) /\ c[Len(c)].origin = 0
    BY <1>7, <1>8
  <2>2. Len(l1) \in Nat /\ Len(posted[z + 1]) \in Nat /\ z \in Nat /\ z <= c[Len(c)].origin /\ z = c[Len(c)].origin
    BY <1>5, <1>6, <2>1
  <2> HIDE DEF c, z
  <2>3. NodeOK(l1, posted, Fresh(c, z)) /\ PromptOK(Fresh(c, z))
    BY <2>1, <2>2, FreshOK
  <2> QED BY <2>3 DEF c, z
<1> DEFINE f == Fresh(<<Genesis>>, 0)
<1>10. node["prompt"] = f /\ node["other"] = f /\ node = [n \in {"prompt", "other"} |-> node[n]]
  <2> HIDE DEF f
  <2>1. node = [n \in {"prompt", "other"} |-> f]
    BY <1>3 DEF f
  <2> QED BY <2>1
<1> HIDE DEF f
<1>11. NodeOK(l1, posted, f) /\ PromptOK(f)
  BY <1>9 DEF f
<1> QED BY <1>5, <1>6, <1>10, <1>11 DEF Inv

LEMMA PromptStepInv ==
  ASSUME Inv, PromptStep
  PROVE  Inv'
<1> DEFINE p == node["prompt"]
           r == NextBatch(p, AllPublished)
<1>1. /\ L1OK(l1) /\ PostedOK(l1, posted) /\ node = [n \in {"prompt", "other"} |-> node[n]]
      /\ NodeOK(l1, posted, p) /\ PromptOK(p) /\ NodeOK(l1, posted, node["other"])
  BY DEF Inv
<1>2. node' = [node EXCEPT !["prompt"] = r] /\ l1' = l1 /\ posted' = posted
  BY DEF PromptStep
<1>3. BlockTime \in Nat /\ EspressoL1ConfDepth \in Nat
  BY ConfigAssumption
<1>4. NodeOK(l1, posted, r) /\ PromptOK(r)
  BY <1>1, <1>3, NextBatchOK
<1> HIDE DEF r
<1>5. /\ node'["prompt"] = r /\ node'["other"] = node["other"]
      /\ node' = [n \in {"prompt", "other"} |-> node'[n]]
  BY <1>1, <1>2
<1>6. /\ L1OK(l1') /\ PostedOK(l1', posted')
      /\ NodeOK(l1', posted', node'["prompt"]) /\ PromptOK(node'["prompt"])
      /\ NodeOK(l1', posted', node'["other"])
  BY <1>1, <1>2, <1>4, <1>5
<1> QED BY <1>5, <1>6 DEF Inv

(* A step of the other node that leaves its queue well formed. *)
LEMMA OtherReplaced ==
  ASSUME Inv, NEW r, NodeOK(l1, posted, r), node' = [node EXCEPT !["other"] = r],
         UNCHANGED <<l1, posted>>
  PROVE  Inv'
<1>1. /\ L1OK(l1) /\ PostedOK(l1, posted) /\ node = [n \in {"prompt", "other"} |-> node[n]]
      /\ NodeOK(l1, posted, node["prompt"]) /\ PromptOK(node["prompt"])
  BY DEF Inv
<1>2. /\ node'["prompt"] = node["prompt"] /\ node'["other"] = r
      /\ node' = [n \in {"prompt", "other"} |-> node'[n]]
  BY <1>1
<1>3. /\ L1OK(l1') /\ PostedOK(l1', posted')
      /\ NodeOK(l1', posted', node'["prompt"]) /\ PromptOK(node'["prompt"])
      /\ NodeOK(l1', posted', node'["other"])
  BY <1>1, <1>2
<1> QED BY <1>2, <1>3 DEF Inv

LEMMA OtherStepInv ==
  ASSUME Inv, NEW published \in {0, AllPublished}, OtherStep(published)
  PROVE  Inv'
<1> DEFINE q == node["other"]
           r == NextBatch(q, published)
<1>1. L1OK(l1) /\ PostedOK(l1, posted) /\ NodeOK(l1, posted, q)
  BY DEF Inv
<1>2. node' = [node EXCEPT !["other"] = r] /\ UNCHANGED <<l1, posted>>
  BY DEF OtherStep
<1>3. BlockTime \in Nat /\ EspressoL1ConfDepth \in Nat
  BY ConfigAssumption
<1>4. NodeOK(l1, posted, r)
  BY <1>1, <1>3, NextBatchOK
<1> HIDE DEF r
<1> QED BY <1>2, <1>4, OtherReplaced

LEMMA ResetInv ==
  ASSUME Inv, NEW n \in 1..Len(node["other"].chain), Reset(n)
  PROVE  Inv'
<1> DEFINE q == node["other"]
           c == SubSeq(q.chain, 1, n)
           base == Base(c[n].origin)
           r == Fresh(c, base)
<1>1. L1OK(l1) /\ PostedOK(l1, posted) /\ NodeOK(l1, posted, q)
  BY DEF Inv
<1>2. node' = [node EXCEPT !["other"] = r] /\ UNCHANGED <<l1, posted>>
  BY DEF Reset
<1>3. /\ IsSeq(q.chain) /\ \A i \in 1..Len(q.chain) : BlockOK(l1, q.chain[i])
      /\ \A i \in 2..Len(q.chain) : q.chain[i].origin \in {q.chain[i - 1].origin, q.chain[i - 1].origin + 1}
  BY <1>1 DEF NodeOK, ChainOK
<1>4. Len(q.chain) \in Nat /\ n \in Nat /\ n >= 1 /\ n <= Len(q.chain)
  BY <1>3, SeqFacts
<1>5. IsSeq(c) /\ Len(c) = n /\ \A i \in 1..n : c[i] = q.chain[i]
  <2> DEFINE one == 1
  <2>1. one \in 1..(Len(q.chain) + 1) /\ n \in 0..Len(q.chain) /\ one <= n + 1
    BY <1>4
  <2>2. /\ IsSeq(SubSeq(q.chain, one, n)) /\ Len(SubSeq(q.chain, one, n)) = n - one + 1
        /\ \A i \in 1..(n - one + 1) : SubSeq(q.chain, one, n)[i] = q.chain[one + i - 1]
    <3> HIDE DEF one
    <3> QED BY <1>3, <2>1, SeqSub
  <2>3. n - one + 1 = n /\ \A i \in 1..n : one + i - 1 = i
    BY <1>4
  <2> QED BY <2>2, <2>3
<1> HIDE DEF c
<1>6. ChainOK(l1, c)
  <2>1. c # << >>
    BY <1>4, <1>5, SeqFacts
  <2>2. \A i \in 1..n : i \in 1..Len(q.chain)
    BY <1>4
  <2>3. \A i \in 2..n : i \in 2..Len(q.chain) /\ i \in 1..n /\ i - 1 \in 1..n
    BY <1>4
  <2> QED BY <1>3, <1>5, <2>1, <2>2, <2>3 DEF ChainOK
<1>7. BlockOK(l1, c[n])
  BY <1>3, <1>4, <1>5
<1>8. base \in Nat /\ base <= c[n].origin /\ base < Len(l1) /\ Len(l1) \in Nat
  <2>1. c[n].origin \in Nat /\ c[n].origin < Len(l1) /\ Len(l1) \in Nat
    BY <1>1, <1>7 DEF BlockOK, L1OK
  <2> DEFINE o == c[n].origin
  <2> HIDE DEF o
  <2>2. o \in Nat /\ ChannelTimeout \in Nat
    BY <2>1, QueueAssumption DEF o
  <2>3. Base(o) \in Nat /\ Base(o) <= o
    BY <2>2 DEF Base
  <2> QED BY <2>1, <2>3 DEF o
<1>9. Len(posted[base + 1]) \in Nat
  <2>1. base + 1 \in 1..Len(posted)
    BY <1>1, <1>8 DEF PostedOK
  <2>2. posted[base + 1] = << >> \/ \E b : posted[base + 1] = <<b>>
    BY <1>1, <2>1 DEF PostedOK
  <2> QED BY <2>2
<1> HIDE DEF base
<1>10. NodeOK(l1, posted, r)
  BY <1>5, <1>6, <1>8, <1>9, FreshOK
<1> HIDE DEF r
<1> QED BY <1>2, <1>10, OtherReplaced

(* A new L1 block, with the batch b or without one. *)
LEMMA Extended ==
  ASSUME Inv, Len(l1) < Len(L1Times), NEW e,
         e = << >> \/ \E b : e = <<b>> /\ BatchOK(b),
         l1' = Append(l1, L1BlockOf(Len(l1))), posted' = Append(posted, e), UNCHANGED node
  PROVE  Inv'
<1> DEFINE x == L1BlockOf(Len(l1))
           N == Len(l1)
<1>1. /\ L1OK(l1) /\ PostedOK(l1, posted) /\ node = [n \in {"prompt", "other"} |-> node[n]]
      /\ NodeOK(l1, posted, node["prompt"]) /\ PromptOK(node["prompt"])
      /\ NodeOK(l1, posted, node["other"])
  BY DEF Inv
<1>2. /\ l1 \in Seq(L1Block) /\ N \in Nat /\ N >= 1 /\ Len(L1Times) \in Nat
      /\ \A i \in 1..N : l1[i] = L1BlockOf(i - 1)
  BY <1>1, QueueAssumption DEF L1OK
<1>3. x \in L1Block
  <2>1. N + 1 \in 1..Len(L1Times)
    BY <1>2
  <2>2. L1Times[N + 1] \in Nat
    BY <2>1, QueueAssumption
  <2> QED BY <2>2 DEF L1BlockOf, L1Block
<1> HIDE DEF x
<1>4. /\ l1' \in Seq(L1Block) /\ Len(l1') = N + 1
      /\ (\A i \in 1..N : l1'[i] = l1[i]) /\ l1'[N + 1] = x
  <2>1. l1' = Append(l1, x)
    BY DEF x
  <2> QED BY <1>2, <1>3, <2>1
<1>5. L1OK(l1')
  <2>1. ASSUME NEW i \in 1..Len(l1') PROVE l1'[i] = L1BlockOf(i - 1)
    <3>1. CASE i = N + 1
      <4>1. i - 1 = N
        BY <1>2, <3>1
      <4> QED BY <1>4, <3>1, <4>1 DEF x
    <3>2. CASE i # N + 1
      <4>1. i \in 1..N
        BY <1>2, <1>4, <3>2
      <4> QED BY <1>2, <1>4, <4>1
    <3> QED BY <3>1, <3>2
  <2>2. Len(l1') \in 1..Len(L1Times)
    BY <1>2, <1>4
  <2> QED BY <1>4, <2>1, <2>2 DEF L1OK
<1>6. EspressoL1ConfDepth \in Nat /\ Len(l1') \in Nat /\ Len(l1) <= Len(l1')
  BY <1>2, <1>4, ConfigAssumption
<1>8. /\ IsSeq(posted) /\ Len(posted) = N
      /\ \A i \in 1..N : posted[i] = << >> \/ \E b : posted[i] = <<b>> /\ BatchOK(b)
  BY <1>1 DEF PostedOK
<1>9. /\ IsSeq(posted') /\ Len(posted') = N + 1
      /\ (\A i \in 1..N : posted'[i] = posted[i]) /\ posted'[N + 1] = e
  BY <1>8, SeqAppend
<1>10. PostedOK(l1', posted')
  <2>1. ASSUME NEW i \in 1..Len(posted')
        PROVE  posted'[i] = << >> \/ \E b : posted'[i] = <<b>> /\ BatchOK(b)
    <3>1. i \in 1..N \/ i = N + 1
      BY <1>2, <1>9
    <3> QED BY <1>8, <1>9, <3>1
  <2> QED BY <1>4, <1>9, <2>1 DEF PostedOK
<1>11. ASSUME NEW q, NodeOK(l1, posted, q) PROVE NodeOK(l1', posted', q)
  BY <1>2, <1>4, <1>6, <1>9, <1>11, NodeStays
<1>12. NodeOK(l1', posted', node["prompt"]) /\ NodeOK(l1', posted', node["other"])
  BY <1>1, <1>11
<1> QED BY <1>1, <1>5, <1>10, <1>12 DEF Inv

(* L1 grows, with or without a batch in the new block. *)
LEMMA L1GrowInv ==
  ASSUME Inv, L1Grow
  PROVE  Inv'
<1>1. Len(l1) < Len(L1Times) /\ l1' = Append(l1, L1BlockOf(Len(l1))) /\ UNCHANGED node
  BY DEF L1Grow
<1>2. PICK e : posted' = Append(posted, e) /\ (e = << >> \/ \E b : e = <<b>> /\ BatchOK(b))
  <2>1. CASE posted' = Append(posted, << >>)
    BY <2>1
  <2>2. ASSUME NEW p \in Parents, NEW b \in BatchesFor(p), posted' = Append(posted, <<b>>)
        PROVE  \E e : posted' = Append(posted, e) /\ (e = << >> \/ \E c : e = <<c>> /\ BatchOK(c))
    <3>1. p.time \in Nat /\ p.origin \in Nat
      BY ParentsOK
    <3>2. Len(l1) \in Nat
      BY DEF Inv, L1OK
    <3>3. BatchOK(b)
      BY <3>1, <3>2, BatchesForOK
    <3> QED BY <2>2, <3>3
  <2> QED BY <2>1, <2>2 DEF L1Grow
<1> QED BY <1>1, <1>2, Extended

(* The invariant is inductive. *)
LEMMA NextInv ==
  ASSUME Inv, [Next]_vars
  PROVE  Inv'
<1>1. CASE PromptStep
  BY <1>1, PromptStepInv
<1>2. ASSUME NEW published \in {0, AllPublished}, OtherStep(published) PROVE Inv'
  BY <1>2, OtherStepInv
<1>3. ASSUME NEW n \in 1..Len(node["other"].chain), Reset(n) PROVE Inv'
  BY <1>3, ResetInv
<1>4. CASE L1Grow
  BY <1>4, L1GrowInv
<1>5. CASE UNCHANGED vars
  BY <1>5 DEF vars, Inv
<1> QED BY <1>1, <1>2, <1>3, <1>4, <1>5 DEF Next

(* In every reachable state the two verifiers' queues are well formed and every batch on L1 can *)
(* be verified (BatchQueue.NextBatch, deriveNextBatch, Reset; the sequencer's batches).           *)
THEOREM QueueInvariant == Spec => []Inv
<1>1. Init => Inv
  BY InitInv
<1>2. Inv /\ [Next]_vars => Inv'
  BY NextInv
<1> QED BY <1>1, <1>2, PTL DEF Spec

(* The invariant has what is to be shown of the chains, ... *)
LEMMA InvFilled ==
  ASSUME Inv
  PROVE  EpochsFilled
<1> SUFFICES ASSUME NEW n \in DOMAIN node, NEW i \in 2..Len(node[n].chain)
             PROVE  LET b == node[n].chain[i]
                        p == node[n].chain[i - 1]
                    IN  b.origin \in {p.origin, p.origin + 1} /\ b.time >= L1Times[b.origin + 1]
  BY DEF EpochsFilled
<1>1. n = "prompt" \/ n = "other"
  BY DEF Inv
<1>2. NodeOK(l1, posted, node[n])
  BY <1>1 DEF Inv
<1> DEFINE c == node[n].chain
<1>3. /\ IsSeq(c) /\ \A j \in 1..Len(c) : BlockOK(l1, c[j])
      /\ \A j \in 2..Len(c) : c[j].origin \in {c[j - 1].origin, c[j - 1].origin + 1}
  BY <1>2 DEF NodeOK, ChainOK
<1>4. Len(c) \in Nat
  BY <1>3, SeqFacts
<1>5. i \in 1..Len(c)
  BY <1>4
<1>6. BlockOK(l1, c[i])
  BY <1>3, <1>5
<1> QED BY <1>3, <1>6 DEF BlockOK

(* Along the safe chain of either verifier the origin stays or moves to the next L1 block, and  *)
(* no L2 block is older than its origin, whichever of posted batches, forced empty batches,     *)
(* restarts and late answers of the contract deriveNextBatch went through.                      *)
THEOREM EpochsAreFilled == Spec => []EpochsFilled
<1>1. Inv => EpochsFilled
  BY InvFilled
<1> QED BY <1>1, QueueInvariant, PTL

-----------------------------------------------------------------------------
(* When the node that reads everything has nothing left to do. *)

(* Making a block lengthens the chain. *)
LEMMA AppliedFields ==
  ASSUME NEW q, IsNode(q), NEW b
  PROVE  LET r == Applied(q, b)
         IN  /\ r.batches = q.batches
             /\ r.chain = IF b.refused THEN q.chain ELSE Append(q.chain, BlockOf(b))
<1> DEFINE k == IF b.epoch = q.l1Blocks[1] + 1 THEN Tail(q.l1Blocks) ELSE q.l1Blocks
           c == IF b.refused THEN q.chain ELSE Append(q.chain, BlockOf(b))
           r == Applied(q, b)
<1>1. r = WithChain(q, k, c)
  BY DEF Applied, WithChain
<1> HIDE DEF r, k, c
<1>2. r.batches = q.batches /\ r.chain = c
  BY <1>1, SetChain
<1> QED BY <1>2 DEF r, c

(* A batch for the next block that the node never decides on. *)
Blocks(q, b) == b.parent = SafeHead(q) /\ NeverVerified(b)

(* With the whole HotShot ledger at hand a batch is undecided for want of L1 blocks, or for ever. *)
LEMMA OnlyShort ==
  ASSUME NEW q, NodeOK(l1, posted, q), q.l1Blocks # << >>, NEW x, BatchOK(x.batch),
         CheckBatch(q, x, AllPublished) = "undecided", L1OK(l1)
  PROVE  Len(q.l1Blocks) < 2 \/ SafeHead(q).origin + 1 >= Len(l1) \/ Blocks(q, x.batch)
<1> DEFINE b == x.batch
           known == [i \in DOMAIN q.l1Blocks |-> BlockAt(l1, q.l1Blocks[i])]
           ks == q.l1Blocks
           head == SafeHead(q)
<1>1. CheckSingularBatch(Ledger, AllPublished, l1, known, ks[1], x.included, TRUE, head, b) = "undecided"
  BY DEF CheckBatch
<1>2. IsSeq(ks)
  BY DEF NodeOK, KnownOK
<1>3. DOMAIN ks = 1..Len(ks) /\ Len(ks) \in Nat /\ Len(ks) >= 1
  BY <1>2, SeqFacts
<1>4. known \in [1..Len(ks) -> {BlockAt(l1, ks[i]) : i \in 1..Len(ks)}]
  BY <1>3
<1> HIDE DEF known, b, head
<1>5. Len(known) = Len(ks) /\ known # << >>
  <2>1. known \in Seq({BlockAt(l1, ks[i]) : i \in 1..Len(ks)})
    BY <1>3, <1>4, SeqDef
  <2>2. DOMAIN known = 1..Len(ks)
    BY <1>4
  <2> HIDE DEF ks
  <2>3. Len(known) = Len(ks)
    BY <1>3, <2>1, <2>2
  <2> QED BY <1>3, <2>1, <2>3, SeqIsSeq
<1>6. \/ Len(known) < 2
      \/ b.parent = head /\ CheckBatchEspresso(Ledger, AllPublished, l1, head, b) = "undecided"
  <2>1. Len(known) \in Nat /\ known # << >>
    BY <1>3, <1>5
  <2>2. Unclear(Ledger, AllPublished, l1, known, head, b)
    BY <1>1, <2>1, UndecidedBecause
  <2> QED BY <2>2 DEF Unclear
<1>7. ASSUME b.parent = head, CheckBatchEspresso(Ledger, AllPublished, l1, head, b) = "undecided",
             ~NeverVerified(b)
      PROVE  head.origin + 1 >= Len(l1)
  <2>1. \/ VerifyCommitments(AllPublished, First(b.jst), Commitments(b.jst)) = "error"
        \/ EspressoL1Origin(l1, head, SuggestedBy(b)) = None
    BY <1>7, EspressoUndecided DEF SuggestedBy
  <2>2. EspressoL1Origin(l1, head, SuggestedBy(b)) = None
    BY <1>7, <2>1 DEF NeverVerified
  <2>3. ~(AllPublished < First(b.jst) + Len(Commitments(b.jst)))
    BY <1>7 DEF NeverVerified, VerifyCommitments
  <2>4. SuggestedBy(b) \in Nat /\ head.origin \in Nat
    BY <1>7, <2>3 DEF BatchOK, b
  <2>5. Len(l1) \in Nat /\ EspressoL1ConfDepth \in Nat
    BY ConfigAssumption DEF L1OK
  <2> QED BY <2>2, <2>4, <2>5, OriginMissing
<1> QED BY <1>5, <1>6, <1>7 DEF Blocks, b, head

(* The node q has seen all of L1, and the epoch it is in is not over; or a batch it *)
(* never decides on is in its way.                                                  *)
CaughtUp(q) ==
  \/ Len(q.l1Blocks) < 2
  \/ SafeHead(q).origin + 1 >= Len(l1)
  \/ ~ForceEmptyBatches(q, TRUE)
  \/ \E i \in 1..Len(q.batches) : Blocks(q, q.batches[i].batch)

(* A call of deriveNextBatch that changes nothing. *)
LEMMA DerivedNothing ==
  ASSUME NEW q, NodeOK(l1, posted, q), L1OK(l1), PromptOK(q),
         DeriveNextBatch(q, AllPublished, TRUE).q = q
  PROVE  DeriveNextBatch(q, AllPublished, TRUE).got = FALSE /\ CaughtUp(q)
<1> DEFINE r == DeriveNextBatch(q, AllPublished, TRUE)
           ks == q.l1Blocks
<1>1. DerivedAs(q, AllPublished, TRUE, r)
  BY Derivation
<1>2. r.q = q
  OBVIOUS
<1> HIDE DEF r
<1>3. /\ IsNode(q) /\ KnownOK(q, ks) /\ ks # << >> /\ q.failed = FALSE
      /\ IsSeq(q.batches) /\ IsSeq(q.chain) /\ IsSeq(ks)
  BY DEF NodeOK, PromptOK, BatchesOK, ChainOK, KnownOK
<1>4. Len(q.batches) \in Nat /\ Len(q.chain) \in Nat /\ Len(ks) \in Nat
  BY <1>3, SeqFacts
<1>5. OnTrack(q)
  <2> SUFFICES ASSUME ~OnTrack(q) PROVE FALSE
    OBVIOUS
  <2>1. r = Result(WithFailed(q), TRUE)
    BY <1>1 DEF DerivedAs
  <2>2. r.q = WithFailed(q)
    BY <2>1, ResultIs
  <2>3. WithFailed(q).failed = TRUE
    BY <1>3, SetFailed
  <2> QED BY <1>2, <1>3, <2>2, <2>3
<1>6. PICK bs : /\ BatchesOK(bs)
                /\ \/ r = Generated(WithBatches(q, bs), TRUE)
                   \/ /\ r = Result(WithBatches(q, bs), FALSE)
                      /\ \E i \in 1..Len(q.batches) : CheckBatch(q, q.batches[i], AllPublished) = "undecided"
                   \/ /\ Len(bs) < Len(q.batches)
                      /\ \E x : /\ BatchOK(x.batch) /\ CheckBatch(q, x, AllPublished) = "accept"
                                /\ r = Result(Applied(WithBatches(q, bs), x.batch), TRUE)
  BY <1>1, <1>5 DEF DerivedAs
<1> DEFINE w == WithBatches(q, bs)
<1> HIDE DEF w
<1>7. /\ IsNode(w) /\ w.origin = q.origin /\ w.l1Blocks = ks /\ w.batches = bs /\ w.chain = q.chain
  BY <1>3, SetBatches DEF w
<1>8. ASSUME r = Result(w, FALSE), NEW i \in 1..Len(q.batches),
             CheckBatch(q, q.batches[i], AllPublished) = "undecided"
      PROVE  r.got = FALSE /\ CaughtUp(q)
  <2>1. r.got = FALSE
    BY <1>8, ResultIs
  <2>2. BatchOK(q.batches[i].batch)
    BY DEF NodeOK, BatchesOK
  <2>3. Len(ks) < 2 \/ SafeHead(q).origin + 1 >= Len(l1) \/ Blocks(q, q.batches[i].batch)
    BY <1>3, <1>8, <2>2, OnlyShort
  <2> QED BY <2>1, <2>3 DEF CaughtUp
<1>9. ASSUME Len(bs) < Len(q.batches), NEW x, r = Result(Applied(w, x.batch), TRUE) PROVE FALSE
  <2>1. r.q = Applied(w, x.batch)
    BY <1>9, ResultIs
  <2>2. Applied(w, x.batch).batches = bs
    BY <1>7, AppliedFields
  <2>3. q.batches = bs
    BY <1>2, <2>1, <2>2
  <2> QED BY <1>4, <1>9, <2>3
<1>10. CASE r = Generated(w, TRUE)
  <2>1. ForceEmptyBatches(w, TRUE) <=> ForceEmptyBatches(q, TRUE)
    BY <1>7 DEF ForceEmptyBatches
  <2>2. CASE ~ForceEmptyBatches(w, TRUE) \/ Len(w.l1Blocks) < 2
    <3>1. r = Result(w, FALSE)
      BY <1>10, <2>2 DEF Generated
    <3>2. r.got = FALSE
      BY <3>1, ResultIs
    <3> QED BY <1>7, <2>1, <2>2, <3>2 DEF CaughtUp, r
  <2>3. CASE ForceEmptyBatches(w, TRUE) /\ ~(Len(w.l1Blocks) < 2) /\ FillsEpoch(w)
    <3> DEFINE e == EmptyBatch(w)
    <3>1. r = Result(Applied(w, e), TRUE)
      BY <1>10, <2>3 DEF Generated
    <3>2. e.refused = FALSE
      BY DEF EmptyBatch
    <3> HIDE DEF e
    <3>3. r.q = Applied(w, e)
      BY <3>1, ResultIs
    <3>4. Applied(w, e).chain = Append(q.chain, BlockOf(e))
      <4>1. Applied(w, e).chain = IF e.refused THEN w.chain ELSE Append(w.chain, BlockOf(e))
        BY <1>7, AppliedFields
      <4> QED BY <1>7, <3>2, <4>1
    <3>5. Len(Append(q.chain, BlockOf(e))) = Len(q.chain) + 1
      BY <1>3, SeqAppend
    <3>6. Len(q.chain) = Len(q.chain) + 1
      BY <1>2, <3>3, <3>4, <3>5
    <3> QED BY <1>4, <3>6
  <2>4. CASE ForceEmptyBatches(w, TRUE) /\ ~(Len(w.l1Blocks) < 2) /\ ~FillsEpoch(w)
    <3> DEFINE t == WithKnown(w, Tail(w.l1Blocks))
    <3>1. r = Result(t, FALSE)
      BY <1>10, <2>4 DEF Generated, WithKnown
    <3>6. r.q = t
      <4> HIDE DEF t
      <4> QED BY <3>1, ResultIs
    <3>2. r.q = WithKnown(w, Tail(ks))
      BY <1>7, <3>6
    <3>3. WithKnown(w, Tail(ks)).l1Blocks = Tail(ks)
      BY <1>7, SetKnown
    <3>4. Len(Tail(ks)) = Len(ks) - 1
      BY <1>3, SeqTail
    <3>5. Len(ks) = Len(ks) - 1
      BY <1>2, <3>2, <3>3, <3>4
    <3> QED BY <1>4, <3>5
  <2> QED BY <2>2, <2>3, <2>4
<1> QED BY <1>6, <1>8, <1>9, <1>10 DEF w, r

(* A call of NextBatch that changes nothing. *)
LEMMA NothingLeft ==
  ASSUME NEW q, NodeOK(l1, posted, q), PostedOK(l1, posted), L1OK(l1), PromptOK(q),
         BlockTime \in Nat, EspressoL1ConfDepth \in Nat, NextBatch(q, AllPublished) = q
  PROVE  q.origin = q.at /\ q.at = Len(l1) - 1 /\ CaughtUp(q)
<1> DEFINE o == OriginAdvanced(q)
           w == Loaded(o, AllPublished)
           eof == OutOfData(q)
           d == DeriveNextBatch(w, AllPublished, eof)
           moves == eof /\ ~d.got /\ HasBlock(l1, q.at + 1)
           s == WithAt(d.q, d.q.at + 1, 0)
<1>1. /\ NodeOK(l1, posted, o) /\ o.origin = q.at /\ o.at = q.at /\ o.read = q.read
      /\ ~OriginBehind(q) => o.l1Blocks # << >>
      /\ PromptOK(q) => ~OriginBehind(q) /\ PromptOK(o)
  BY OriginAdvancedOK
<1>2. q = IF moves THEN s ELSE d.q
  BY <1>1 DEF NextBatch, WithAt
<1> HIDE DEF o
<1>3. /\ NodeOK(l1, posted, w) /\ w.origin = o.origin /\ w.at = o.at /\ w.l1Blocks = o.l1Blocks
      /\ w.read = IF OutOfData(o) THEN o.read ELSE o.read + 1
  BY <1>1, LoadedOK
<1>4. OutOfData(o) <=> OutOfData(q)
  BY <1>1 DEF OutOfData
<1> HIDE DEF w
<1>5. Onward(w, d.q)
  <2>1. w.l1Blocks # << >>
    BY <1>1, <1>3
  <2> HIDE DEF eof
  <2> QED BY <1>3, <2>1, DeriveNextBatchOK, Zenon
<1>6. /\ IsNode(d.q) /\ d.q.at = q.at /\ d.q.origin = q.at /\ d.q.read = w.read
      /\ q.at \in Nat /\ q.read \in Nat
  <2>1. q.at \in Nat /\ q.read \in 0..Len(posted[q.at + 1])
    BY DEF NodeOK
  <2> QED BY <1>1, <1>3, <1>5, <2>1 DEF Onward, NodeOK
<1> HIDE DEF d
<1>7. eof
  <2> SUFFICES ASSUME ~eof PROVE FALSE
    OBVIOUS
  <2>1. q = d.q
    BY <1>2
  <2>2. q.read = q.read + 1
    BY <1>1, <1>3, <1>4, <1>6, <2>1
  <2> QED BY <1>6, <2>2
<1>8. ~moves
  <2> SUFFICES ASSUME moves PROVE FALSE
    OBVIOUS
  <2> DEFINE p == d.q
             t == WithAt(p, p.at + 1, 0)
  <2>1. q = t
    BY <1>2
  <2> HIDE DEF p, t
  <2>2. t.at = p.at + 1
    BY <1>6, SetAt DEF t, p
  <2>3. q.at = q.at + 1
    BY <1>6, <2>1, <2>2 DEF p
  <2> QED BY <1>6, <2>3
<1>9. d.q = q
  BY <1>2, <1>8
<1>10. q.origin = q.at
  BY <1>6, <1>9
<1>11. w = q
  <2>1. o = q
    BY <1>10 DEF o, OriginAdvanced
  <2>2. OutOfData(o)
    BY <1>4, <1>7
  <2>3. Loaded(o, AllPublished) = o
    BY <2>2 DEF Loaded
  <2> QED BY <2>1, <2>3 DEF w
<1>12. d = DeriveNextBatch(q, AllPublished, eof)
  BY <1>11 DEF d
<1>13. eof = TRUE
  BY <1>7 DEF OutOfData
<1>14. d = DeriveNextBatch(q, AllPublished, TRUE)
  BY <1>12, <1>13
<1> HIDE DEF eof
<1>15. d.got = FALSE /\ CaughtUp(q)
  BY <1>9, <1>14, DerivedNothing
<1>16. ~HasBlock(l1, q.at + 1)
  BY <1>7, <1>8, <1>15
<1>17. q.at = Len(l1) - 1
  <2>1. q.at < Len(l1) /\ Len(l1) \in Nat /\ ~(q.at + 1 < Len(l1))
    BY <1>16 DEF HasBlock, NodeOK, L1OK
  <2> QED BY <1>6, <2>1
<1> QED BY <1>10, <1>15, <1>17

(* ... and what is to be shown of a node that has nothing left to do. *)
LEMMA InvKeepsUp ==
  ASSUME Inv
  PROVE  DerivationKeepsUp
<1> DEFINE q == node["prompt"]
           ks == q.l1Blocks
           head == SafeHead(q)
<1> SUFFICES ASSUME Settled, ~\E i \in DOMAIN q.batches : Blocks(q, q.batches[i].batch)
             PROVE  head.origin + SeqWindowSize >= Len(l1) - 1
  BY DEF DerivationKeepsUp, Blocks
<1>1. /\ L1OK(l1) /\ PostedOK(l1, posted) /\ NodeOK(l1, posted, q) /\ PromptOK(q)
  BY DEF Inv
<1>2. BlockTime \in Nat /\ EspressoL1ConfDepth \in Nat /\ SeqWindowSize \in Nat /\ SeqWindowSize >= 1
  BY ConfigAssumption
<1>3. NextBatch(q, AllPublished) = q
  BY DEF Settled
<1>4. q.origin = q.at /\ q.at = Len(l1) - 1 /\ CaughtUp(q)
  BY <1>1, <1>2, <1>3, NothingLeft
<1>5. Len(l1) \in Nat /\ q.at \in Nat /\ head.origin \in Nat
  <2>1. BlockOK(l1, head)
    BY <1>1, HeadOK
  <2> HIDE DEF head
  <2> QED BY <1>1, <2>1 DEF L1OK, NodeOK, BlockOK
<1>6. /\ IsSeq(ks) /\ ks # << >> /\ ks[1] <= head.origin + 1
      /\ \A i \in 1..Len(ks) : ks[i] \in Nat /\ ks[i] = q.origin - Len(ks) + i
  BY <1>1 DEF NodeOK, KnownOK, PromptOK
<1>7. Len(ks) \in Nat /\ Len(ks) >= 1
  BY <1>6, SeqFacts
<1>8. ks[1] \in Nat /\ ks[1] = q.origin - Len(ks) + 1
  BY <1>6, <1>7
<1>9. CASE Len(ks) < 2
  <2>1. ks[1] = Len(l1) - 1
    BY <1>4, <1>5, <1>7, <1>8, <1>9
  <2> DEFINE k == ks[1]
             h == head.origin
             n == Len(l1)
  <2>2. k \in Nat /\ h \in Nat /\ n \in Nat /\ k = n - 1 /\ k <= h + 1
    BY <1>5, <1>6, <1>8, <2>1
  <2> HIDE DEF k, h, n
  <2>3. h + SeqWindowSize >= n - 1
    BY <1>2, <2>2
  <2> QED BY <2>3 DEF h, n
<1>10. CASE ~ForceEmptyBatches(q, TRUE)
  <2>1. ~(ks[1] + SeqWindowSize = q.origin) /\ ~(ks[1] + SeqWindowSize < q.origin)
    BY <1>10 DEF ForceEmptyBatches
  <2> DEFINE k == ks[1]
             h == head.origin
             n == Len(l1)
  <2>2. /\ k \in Nat /\ h \in Nat /\ n \in Nat /\ k <= h + 1
        /\ ~(k + SeqWindowSize = n - 1) /\ ~(k + SeqWindowSize < n - 1)
    BY <1>4, <1>5, <1>6, <1>8, <2>1
  <2> HIDE DEF k, h, n
  <2>3. h + SeqWindowSize >= n - 1
    BY <1>2, <2>2
  <2> QED BY <2>3 DEF h, n
<1>11. CASE head.origin + 1 >= Len(l1)
  <2> HIDE DEF head
  <2> QED BY <1>2, <1>5, <1>11
<1>12. DOMAIN q.batches = 1..Len(q.batches)
  BY <1>1, SeqFacts DEF NodeOK, BatchesOK
<1> QED BY <1>4, <1>9, <1>10, <1>11, <1>12 DEF CaughtUp

(* A verifier that has nothing left to derive has a safe head whose origin is within the        *)
(* sequencing window of the L1 head, with batches or without, since deriveNextBatch fills the   *)
(* epochs of an expired window itself; or it waits for a batch for its next block whose HotShot *)
(* blocks the contract never holds.  Nothing else makes it wait for ever.                       *)
THEOREM DerivationAlwaysKeepsUp == Spec => []DerivationKeepsUp
<1>1. Inv => DerivationKeepsUp
  BY InvKeepsUp
<1> QED BY <1>1, QueueInvariant, PTL
=============================================================================
