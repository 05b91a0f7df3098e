------------------------- MODULE EngineQueueProofs -------------------------
(***************************************************************************)
(* Proofs about EngineQueue: the heads are those EngineHeads promises, and *)
(* a finalized L2 block is derived from finalized L1 blocks, for any       *)
(* delays, windows and limits under which L1 finalizes in time.            *)
(*                                                                         *)
(* The argument.  A block is Final when its batch is in a finalized L1     *)
(* block, which no reorganisation takes back, and Derived by an L1 block   *)
(* when its batch is in an ancestor of that block.  The safe head and      *)
(* every entry of the finality data are one or the other, and the entries  *)
(* are all about ancestors of the safe head and of the queue's origin; so  *)
(* once an L1 block is final, on the chain of the queue, what the entries  *)
(* up to it say is Final.  A reset makes the safe head a block the engine  *)
(* knows to be finalized, or one that is Final because L1 finalizes in     *)
(* time.                                                                   *)
(***************************************************************************)
EXTENDS EngineQueue, FiniteSetTheorems, SequenceTheorems, WellFoundedInduction, TLAPS

Block == Seq(Nat \X Nat) \ {<< >>}
L1Block == Seq(Nat) \ {<< >>}
Entry == [l2 : Block, l1 : Nat, hash : L1Block]

(* The batch of b is in an L1 block that is final. *)
Final(b) ==
  /\ OnL1(OriginOf(b))
  /\ Len(b) <= l1Finalized
  /\ Len(b) > 1 => Len(b) + Delay <= l1Finalized

(* The batch of b is in the chain of the L1 block at. *)
Derived(b, at) == IsPrefix(OriginOf(b), at) /\ Len(b) + Delay <= Len(at)

(* The inductive invariant, in parts. *)
Types ==
  /\ finalized \in Block /\ safe \in Block /\ unsafe \in Block /\ need \in BOOLEAN
  /\ attrs # Nil => attrs \in [parent : Block, block : Block]
  /\ building # Nil => building \in [onto : Block, safe : BOOLEAN, block : Block]
  /\ payloads \subseteq Block /\ IsFiniteSet(payloads)
  /\ finalityData \in Seq(Entry) /\ finalizedL1 \in Nat /\ triedFinalizeAt \in Nat
  /\ origin \in L1Block /\ traversal \in L1Block /\ resetting \in BOOLEAN
  /\ engine \in [head : Block, safe : Block, finalized : Block]
  /\ l1 \in L1Block /\ l1Finalized \in 1..Len(l1) /\ l1Reorgs \in Nat /\ events \in Nat

(* The engine's heads are one chain; it knows of the finalized head, unless it is to be told. *)
Told ==
  /\ Consistent(engine)
  /\ IsPrefix(engine.finalized, finalized)
  /\ ~need => engine.finalized = finalized

(* The finalized head is an ancestor of the safe head. *)
Below == IsPrefix(finalized, safe) /\ Final(finalized)

SafeHead == Final(safe) \/ Derived(safe, origin)

Queued ==
  attrs # Nil =>
    /\ attrs.parent = safe
    /\ IsPrefix(safe, attrs.block) /\ Len(attrs.block) = Len(safe) + 1
    /\ Derived(attrs.block, origin)

EntryOK(e) ==
  /\ IsPrefix(e.l2, safe)
  /\ e.l1 = Len(e.hash) /\ IsPrefix(e.hash, origin)
  /\ Final(e.l2) \/ Derived(e.l2, e.hash)

Entries == \A i \in DOMAIN finalityData : EntryOK(finalityData[i])

Limits == Len(finalityData) <= FinalityLookback /\ Cardinality(payloads) <= MaxPayloads

OnL1Chain == IsPrefix(origin, traversal)

InTime == finalizedL1 <= l1Finalized /\ Len(l1) - l1Finalized <= MaxFinalityLag

Inv ==
  /\ Types /\ Told /\ Below /\ SafeHead /\ Queued /\ Entries /\ Limits /\ OnL1Chain /\ InTime

USE EngineAssumption

-----------------------------------------------------------------------------
(* Prefixes. *)

(* What IsPrefix says of sequences, element by element. *)
LEMMA PrefixDef ==
  ASSUME NEW S, NEW s \in Seq(S), NEW t \in Seq(S)
  PROVE  IsPrefix(s, t) <=> Len(s) <= Len(t) /\ \A i \in 1..Len(s) : s[i] = t[i]
<1>1. SubSeq(s, 1, Len(s)) = s
  BY SubSeqFull
<1>2. ASSUME Len(s) <= Len(t)
      PROVE  /\ SubSeq(t, 1, Len(s)) \in Seq(S)
             /\ Len(SubSeq(t, 1, Len(s))) = Len(s)
             /\ \A i \in 1..Len(s) : SubSeq(t, 1, Len(s))[i] = t[i]
  <2> DEFINE k == Len(s)
  <2>1. k \in Nat /\ 1 \in Int /\ k \in Int /\ Len(t) \in Nat /\ k <= Len(t)
    BY <1>2
  <2>2. \A i \in 1..k : t[i] \in S
    BY <2>1
  <2> HIDE DEF k
  <2>3. /\ SubSeq(t, 1, k) \in Seq(S)
        /\ Len(SubSeq(t, 1, k)) = IF 1 <= k THEN k - 1 + 1 ELSE 0
        /\ \A i \in 1..(k - 1 + 1) : SubSeq(t, 1, k)[i] = t[1 + i - 1]
    BY <2>1, <2>2, SubSeqProperties
  <2>4. Len(SubSeq(t, 1, k)) = k /\ \A i \in 1..k : SubSeq(t, 1, k)[i] = t[i]
    BY <2>1, <2>3
  <2> QED BY <2>3, <2>4 DEF k
<1>3. ASSUME IsPrefix(s, t) PROVE Len(s) <= Len(t) /\ \A i \in 1..Len(s) : s[i] = t[i]
  BY <1>1, <1>2, <1>3 DEF IsPrefix
<1>4. ASSUME Len(s) <= Len(t), \A i \in 1..Len(s) : s[i] = t[i] PROVE IsPrefix(s, t)
  <2>1. s = SubSeq(t, 1, Len(s))
    BY <1>2, <1>4, SeqEqual
  <2> QED BY <1>1, <1>4, <2>1 DEF IsPrefix
<1> QED BY <1>3, <1>4

LEMMA PrefixItself ==
  ASSUME NEW S, NEW s \in Seq(S) PROVE IsPrefix(s, s)
BY PrefixDef

LEMMA PrefixTrans ==
  ASSUME NEW S, NEW s \in Seq(S), NEW t \in Seq(S), NEW u \in Seq(S),
         IsPrefix(s, t), IsPrefix(t, u)
  PROVE  IsPrefix(s, u)
<1>1. Len(s) <= Len(t) /\ \A i \in 1..Len(s) : s[i] = t[i]
  BY PrefixDef
<1>2. Len(t) <= Len(u) /\ \A i \in 1..Len(t) : t[i] = u[i]
  BY PrefixDef
<1>3. Len(s) <= Len(u) /\ \A i \in 1..Len(s) : s[i] = u[i]
  BY <1>1, <1>2
<1> QED BY <1>3, PrefixDef

(* Of two ancestors of a block the shorter is an ancestor of the longer. *)
LEMMA PrefixesCompare ==
  ASSUME NEW S, NEW s \in Seq(S), NEW t \in Seq(S), NEW u \in Seq(S),
         IsPrefix(s, u), IsPrefix(t, u), Len(s) <= Len(t)
  PROVE  IsPrefix(s, t)
<1>1. Len(s) <= Len(u) /\ \A i \in 1..Len(s) : s[i] = u[i]
  BY PrefixDef
<1>2. Len(t) <= Len(u) /\ \A i \in 1..Len(t) : t[i] = u[i]
  BY PrefixDef
<1>3. \A i \in 1..Len(s) : s[i] = t[i]
  BY <1>1, <1>2
<1> QED BY <1>3, PrefixDef

LEMMA PrefixEqual ==
  ASSUME NEW S, NEW s \in Seq(S), NEW t \in Seq(S), IsPrefix(s, t), Len(s) >= Len(t)
  PROVE  s = t
<1>1. Len(s) <= Len(t) /\ \A i \in 1..Len(s) : s[i] = t[i]
  BY PrefixDef
<1>2. Len(s) = Len(t)
  BY <1>1
<1> QED BY <1>1, <1>2, SeqEqual

LEMMA PrefixOf ==
  ASSUME NEW S, NEW s \in Seq(S), NEW n \in 0..Len(s)
  PROVE  /\ SubSeq(s, 1, n) \in Seq(S)
         /\ Len(SubSeq(s, 1, n)) = n
         /\ \A i \in 1..n : SubSeq(s, 1, n)[i] = s[i]
         /\ IsPrefix(SubSeq(s, 1, n), s)
<1>1. n \in Int /\ 1 \in Int /\ \A i \in 1..n : s[i] \in S
  OBVIOUS
<1>2. /\ SubSeq(s, 1, n) \in Seq(S)
      /\ Len(SubSeq(s, 1, n)) = IF 1 <= n THEN n - 1 + 1 ELSE 0
      /\ \A i \in 1..(n - 1 + 1) : SubSeq(s, 1, n)[i] = s[1 + i - 1]
  BY <1>1, SubSeqProperties
<1>3. Len(SubSeq(s, 1, n)) = n /\ \A i \in 1..n : SubSeq(s, 1, n)[i] = s[i]
  BY <1>2
<1> DEFINE t == SubSeq(s, 1, n)
<1> HIDE DEF t
<1>4. t \in Seq(S) /\ Len(t) <= Len(s) /\ \A i \in 1..Len(t) : t[i] = s[i]
  BY <1>2, <1>3 DEF t
<1>5. IsPrefix(t, s)
  BY <1>4, PrefixDef
<1> QED BY <1>2, <1>3, <1>5 DEF t

LEMMA PrefixAppend ==
  ASSUME NEW S, NEW s \in Seq(S), NEW e \in S
  PROVE  /\ Append(s, e) \in Seq(S) /\ Append(s, e) # << >>
         /\ Len(Append(s, e)) = Len(s) + 1
         /\ IsPrefix(s, Append(s, e))
<1> DEFINE t == Append(s, e)
<1>1. /\ t \in Seq(S) /\ t # << >> /\ Len(t) = Len(s) + 1
      /\ \A i \in 1..Len(s) : t[i] = s[i]
  BY AppendProperties
<1> HIDE DEF t
<1>2. Len(s) <= Len(t) /\ \A i \in 1..Len(s) : s[i] = t[i]
  BY <1>1
<1>3. IsPrefix(s, t)
  BY <1>1, <1>2, PrefixDef
<1> QED BY <1>1, <1>3 DEF t

(* A non-empty set of numbers with a bound has a largest one. *)
LEMMA Largest ==
  ASSUME NEW S \in SUBSET Nat, S # {}, NEW m \in Nat, \A x \in S : x <= m
  PROVE  \E x \in S : \A y \in S : y <= x
<1> DEFINE T == {m - x : x \in S}
<1>1. T \subseteq Nat /\ T # {}
  <2>1. \A x \in S : m - x \in Nat
    OBVIOUS
  <2>2. PICK x \in S : TRUE
    OBVIOUS
  <2>3. m - x \in T
    BY <2>2
  <2> QED BY <2>1, <2>3
<1>2. PICK n \in T : \A k \in T : n <= k
  <2> HIDE DEF T
  <2>1. \E n \in T : \A k \in T : ~(<<k, n>> \in OpToRel(<, Nat))
    BY <1>1, NatLessThanWellFounded, WFMin
  <2>2. PICK n \in T : \A k \in T : ~(<<k, n>> \in OpToRel(<, Nat))
    BY <2>1
  <2>3. \A k \in T : ~(k < n)
    BY <1>1, <2>2 DEF OpToRel
  <2> QED BY <1>1, <2>3
<1>3. PICK x \in S : n = m - x
  BY <1>2
<1>4. \A y \in S : n <= m - y
  BY <1>2
<1>5. \A y \in S : y <= x
  BY <1>3, <1>4
<1> QED BY <1>5

-----------------------------------------------------------------------------
(* Blocks on L1. *)

LEMMA BlockFacts ==
  ASSUME NEW b \in Block
  PROVE  b \in Seq(Nat \X Nat) /\ Len(b) \in Nat \ {0} /\ DOMAIN b = 1..Len(b)
<1>1. b \in Seq(Nat \X Nat) /\ b # << >>
  BY DEF Block
<1> QED BY <1>1, EmptySeq, LenProperties

LEMMA L1BlockFacts ==
  ASSUME NEW c \in L1Block
  PROVE  c \in Seq(Nat) /\ Len(c) \in Nat \ {0}
<1>1. c \in Seq(Nat) /\ c # << >>
  BY DEF L1Block
<1> QED BY <1>1, EmptySeq, LenProperties

LEMMA OriginFacts ==
  ASSUME NEW b \in Block
  PROVE  /\ OriginOf(b) \in L1Block /\ Len(OriginOf(b)) = Len(b)
         /\ \A i \in 1..Len(b) : OriginOf(b)[i] = b[i][1]
<1>1. b \in Seq(Nat \X Nat) /\ Len(b) \in Nat \ {0} /\ DOMAIN b = 1..Len(b)
  BY BlockFacts
<1> DEFINE k == Len(b)
           o == [i \in 1..k |-> b[i][1]]
<1>2. \A i \in 1..k : b[i] \in Nat \X Nat
  BY <1>1
<1>3. \A i \in 1..k : b[i][1] \in Nat
  BY <1>2
<1> HIDE DEF k
<1>4. k \in Nat \ {0}
  BY <1>1 DEF k
<1>5. o \in [1..k -> Nat]
  BY <1>3
<1>6. o \in Seq(Nat) /\ Len(o) = k
  BY <1>4, <1>5
<1>7. o # << >>
  BY <1>4, <1>6, EmptySeq
<1>8. OriginOf(b) = o
  BY <1>1 DEF OriginOf, k
<1> HIDE DEF o
<1>9. OriginOf(b) \in L1Block /\ Len(OriginOf(b)) = Len(b)
  BY <1>6, <1>7, <1>8 DEF L1Block, k
<1> QED BY <1>1, <1>9 DEF OriginOf

LEMMA OriginPrefix ==
  ASSUME NEW a \in Block, NEW b \in Block, IsPrefix(a, b)
  PROVE  IsPrefix(OriginOf(a), OriginOf(b))
<1>1. Len(a) <= Len(b) /\ \A i \in 1..Len(a) : a[i] = b[i]
  BY BlockFacts, PrefixDef
<1>2. /\ OriginOf(a) \in Seq(Nat) /\ Len(OriginOf(a)) = Len(a)
      /\ OriginOf(b) \in Seq(Nat) /\ Len(OriginOf(b)) = Len(b)
      /\ \A i \in 1..Len(a) : OriginOf(a)[i] = a[i][1]
      /\ \A i \in 1..Len(b) : OriginOf(b)[i] = b[i][1]
  BY OriginFacts, L1BlockFacts
<1>3. Len(a) \in Nat /\ Len(b) \in Nat
  BY BlockFacts
<1>4. \A i \in 1..Len(a) : OriginOf(a)[i] = OriginOf(b)[i]
  BY <1>1, <1>2, <1>3, SMTT(30)
<1> QED BY <1>1, <1>2, <1>4, PrefixDef

LEMMA OnL1IsPrefix ==
  ASSUME NEW c \in Seq(Nat), l1 \in L1Block
  PROVE  OnL1(c) <=> IsPrefix(c, l1)
<1>1. SubSeq(c, 1, Len(c)) = c
  BY SubSeqFull
<1> QED BY <1>1 DEF OnL1, IsPrefix

(* An ancestor of what is on L1 is on L1. *)
LEMMA OnL1Below ==
  ASSUME NEW c \in Seq(Nat), NEW d \in Seq(Nat), l1 \in L1Block, IsPrefix(c, d), OnL1(d)
  PROVE  OnL1(c)
BY OnL1IsPrefix, L1BlockFacts, PrefixTrans

LEMMA FinalBelow ==
  ASSUME NEW a \in Block, NEW b \in Block, IsPrefix(a, b), Final(b), l1 \in L1Block,
         l1Finalized \in Nat
  PROVE  Final(a)
<1>1. OriginOf(a) \in Seq(Nat) /\ OriginOf(b) \in Seq(Nat)
  BY OriginFacts, L1BlockFacts
<1>2. IsPrefix(OriginOf(a), OriginOf(b))
  BY OriginPrefix
<1>3. OnL1(OriginOf(a))
  BY <1>1, <1>2, OnL1Below DEF Final
<1>4. Len(a) \in Nat \ {0} /\ Len(b) \in Nat \ {0} /\ Len(a) <= Len(b)
  BY BlockFacts, PrefixDef
<1> QED BY <1>3, <1>4 DEF Final

LEMMA DerivedLonger ==
  ASSUME NEW b \in Block, NEW at \in L1Block, NEW on \in L1Block, Derived(b, at), IsPrefix(at, on)
  PROVE  Derived(b, on)
<1>1. OriginOf(b) \in Seq(Nat) /\ at \in Seq(Nat) /\ on \in Seq(Nat)
  BY OriginFacts, L1BlockFacts
<1>2. IsPrefix(OriginOf(b), on)
  BY <1>1, PrefixTrans DEF Derived
<1>3. Len(b) \in Nat /\ Len(at) \in Nat /\ Len(on) \in Nat /\ Len(at) <= Len(on)
  BY <1>1, BlockFacts, PrefixDef
<1> QED BY <1>2, <1>3 DEF Derived

(* What is derived from a final L1 block is final. *)
LEMMA DerivedIsFinal ==
  ASSUME NEW b \in Block, NEW at \in L1Block, Derived(b, at), OnL1(at), l1 \in L1Block,
         l1Finalized \in Nat, Len(at) <= l1Finalized
  PROVE  Final(b)
<1>1. OriginOf(b) \in Seq(Nat) /\ at \in Seq(Nat)
  BY OriginFacts, L1BlockFacts
<1>2. OnL1(OriginOf(b))
  BY <1>1, OnL1Below DEF Derived
<1>3. Len(b) \in Nat /\ Len(at) \in Nat
  BY BlockFacts, L1BlockFacts
<1> QED BY <1>2, <1>3 DEF Derived, Final

(* What is final stays final: L1 keeps its final blocks. *)
LEMMA FinalStays ==
  ASSUME l1 \in L1Block, l1' \in L1Block, l1Finalized \in 1..Len(l1), l1Finalized' \in Nat,
         l1Finalized <= l1Finalized', l1Finalized <= Len(l1'),
         \A i \in 1..l1Finalized : l1'[i] = l1[i],
         NEW b \in Block, Final(b)
  PROVE  Final(b)'
<1> DEFINE o == OriginOf(b)
<1>1. o \in Seq(Nat) /\ Len(o) = Len(b) /\ Len(b) \in Nat
  BY OriginFacts, L1BlockFacts, BlockFacts
<1>2. l1 \in Seq(Nat) /\ l1' \in Seq(Nat) /\ Len(l1) \in Nat /\ Len(l1') \in Nat
  BY L1BlockFacts
<1>3. OnL1(o) /\ Len(b) <= l1Finalized
  BY DEF Final
<1> HIDE DEF o
<1>4. Len(o) <= Len(l1) /\ \A i \in 1..Len(o) : o[i] = l1[i]
  BY <1>1, <1>2, <1>3, OnL1IsPrefix, PrefixDef
<1>5. Len(o) <= Len(l1') /\ \A i \in 1..Len(o) : o[i] = l1'[i]
  <2>1. Len(o) \in Nat /\ Len(o) <= l1Finalized /\ l1Finalized \in Nat
    BY <1>1, <1>2, <1>3
  <2>2. \A i \in 1..Len(o) : i \in 1..l1Finalized
    BY <2>1
  <2>3. \A i \in 1..Len(o) : o[i] = l1'[i]
    BY <1>4, <2>2
  <2>4. Len(o) <= Len(l1')
    BY <1>2, <2>1
  <2> QED BY <2>3, <2>4
<1>6. IsPrefix(o, l1')
  BY <1>1, <1>2, <1>5, PrefixDef
<1>7. OnL1(o)'
  <2>1. SubSeq(o, 1, Len(o)) = o
    BY <1>1, SubSeqFull
  <2> QED BY <1>6, <2>1 DEF OnL1, IsPrefix, o
<1> QED BY <1>1, <1>7 DEF Final, o

-----------------------------------------------------------------------------
(* Steps that leave the safe head and what is known of L1 alone. *)

(* The engine has obeyed a call or not; it only obeys one with heads of one chain. *)
LEMMA Answers ==
  ASSUME NEW fc, Taken(fc) \/ Refused(fc) \/ NoAnswer(fc) \/ Invalid
  PROVE  engine' = engine \/ (engine' = fc /\ Consistent(fc))
BY DEF Taken, Refused, NoAnswer, Invalid

LEMMA HeadsFacts ==
  ASSUME NEW h \in Block, NEW s \in Block, NEW f \in Block
  PROVE  /\ Heads(h, s, f) \in [head : Block, safe : Block, finalized : Block]
         /\ Heads(h, s, f).head = h /\ Heads(h, s, f).safe = s /\ Heads(h, s, f).finalized = f
BY DEF Heads

LEMMA ToldKept ==
  ASSUME Inv, NEW h \in Block, NEW s \in Block,
         engine' = engine \/ (engine' = Heads(h, s, finalized) /\ Consistent(Heads(h, s, finalized))),
         finalized' = finalized,
         need' = need \/ engine' = Heads(h, s, finalized)
  PROVE  Told' /\ engine' \in [head : Block, safe : Block, finalized : Block]
<1>1. finalized \in Block /\ engine \in [head : Block, safe : Block, finalized : Block] /\ need \in BOOLEAN
  BY DEF Inv, Types
<1>2. IsPrefix(finalized, finalized)
  BY <1>1, BlockFacts, PrefixItself
<1>3. CASE engine' = engine /\ need' = need
  BY <1>1, <1>3 DEF Inv, Told, Consistent
<1>4. CASE engine' = Heads(h, s, finalized) /\ Consistent(Heads(h, s, finalized))
  <2>1. engine'.finalized = finalized
    BY <1>1, <1>4, HeadsFacts
  <2>2. Consistent(engine)'
    BY <1>4 DEF Consistent
  <2>3. engine' \in [head : Block, safe : Block, finalized : Block]
    BY <1>1, <1>4, HeadsFacts
  <2> QED BY <1>2, <2>1, <2>2, <2>3 DEF Told
<1>5. CASE engine' = engine /\ need' # need
  <2>1. engine' = Heads(h, s, finalized) /\ Consistent(engine)
    BY <1>5 DEF Inv, Told
  <2> QED BY <1>4, <1>5, <2>1
<1> QED BY <1>3, <1>4, <1>5

LEMMA EngineKeepsInv ==
  ASSUME Inv, UNCHANGED <<finalized, safe, finality, origin, traversal, l1vars>>,
         attrs' \in {attrs, Nil}, Types', Told', Cardinality(payloads') <= MaxPayloads
  PROVE  Inv'
<1>1. UNCHANGED <<finalized, safe, finalityData, finalizedL1, origin, traversal, l1, l1Finalized>>
  BY DEF finality, l1vars
<1>2. \A b : Final(b)' <=> Final(b)
  BY <1>1 DEF Final, OnL1
<1>3. Below' /\ SafeHead' /\ Entries' /\ OnL1Chain' /\ InTime'
  BY <1>1, <1>2 DEF Inv, Below, SafeHead, Entries, EntryOK, OnL1Chain, InTime, Derived
<1>4. Queued'
  BY <1>1 DEF Inv, Queued, Derived
<1>5. Limits'
  BY <1>1 DEF Inv, Limits
<1> QED BY <1>3, <1>4, <1>5 DEF Inv

LEMMA PayloadRemoved ==
  ASSUME Inv, NEW p \in payloads, payloads' \in {payloads, payloads \ {p}}
  PROVE  payloads' \subseteq Block /\ IsFiniteSet(payloads') /\ Cardinality(payloads') <= MaxPayloads
<1>1. payloads \subseteq Block /\ IsFiniteSet(payloads) /\ Cardinality(payloads) <= MaxPayloads
  BY DEF Inv, Types, Limits
<1>2. Cardinality(payloads) \in Nat
  BY <1>1, FS_CardinalityType
<1>3. IsFiniteSet(payloads \ {p}) /\ Cardinality(payloads \ {p}) = Cardinality(payloads) - 1
  BY <1>1, FS_RemoveElement
<1>4. Cardinality(payloads \ {p}) <= MaxPayloads
  BY <1>1, <1>2, <1>3
<1> QED BY <1>1, <1>3, <1>4

LEMMA PastPayloadsFacts ==
  ASSUME Inv, PastPayloads
  PROVE  /\ ~resetting /\ ~need
         /\ payloads' \subseteq Block /\ IsFiniteSet(payloads') /\ Cardinality(payloads') <= MaxPayloads
<1>1. CASE payloads' = payloads
  BY <1>1 DEF PastPayloads, Inv, Types, Limits
<1>2. CASE \E p \in Lowest : payloads' \in {payloads, payloads \ {p}}
  BY <1>2, PayloadRemoved DEF PastPayloads, Lowest
<1> QED BY <1>1, <1>2 DEF PastPayloads

LEMMA StepForkchoiceKeepsInv == Inv /\ StepForkchoice => Inv'
<1> SUFFICES ASSUME Inv, StepForkchoice PROVE Inv'
  OBVIOUS
<1>1. UNCHANGED <<finalized, safe, unsafe, work, finality, origin, traversal, l1vars>>
  BY DEF StepForkchoice
<1>2. UNCHANGED <<attrs, building, payloads, finalityData, finalizedL1, triedFinalizeAt, l1, l1Finalized, l1Reorgs>>
  BY <1>1 DEF work, finality, l1vars
<1>3. finalized \in Block /\ safe \in Block /\ unsafe \in Block /\ events \in Nat
  BY DEF Inv, Types
<1> DEFINE fc == Heads(unsafe, safe, finalized)
<1>4. /\ need' \in BOOLEAN /\ resetting' \in BOOLEAN /\ events' \in Nat
      /\ need' = need \/ (engine' = fc /\ Consistent(fc))
      /\ engine' = engine \/ (engine' = fc /\ Consistent(fc))
  <2>1. need \in BOOLEAN /\ resetting \in BOOLEAN
    BY DEF Inv, Types
  <2>2. CASE Taken(fc) /\ need' = FALSE /\ UNCHANGED <<resetting, events>>
    BY <1>3, <2>1, <2>2 DEF Taken
  <2>3. CASE NoAnswer(fc) /\ UNCHANGED <<need, resetting>>
    <3>1. events' \in Nat
      BY <1>3, <2>3 DEF NoAnswer
    <3> QED BY <2>1, <2>3, <3>1, Answers
  <2>4. CASE Refused(fc) /\ resetting' = TRUE /\ UNCHANGED <<need, events>>
    BY <1>3, <2>1, <2>4 DEF Refused
  <2> QED BY <2>2, <2>3, <2>4 DEF StepForkchoice
<1> HIDE DEF fc
<1>5. Told' /\ engine' \in [head : Block, safe : Block, finalized : Block]
  BY <1>1, <1>3, <1>4, ToldKept DEF fc
<1>6. Types'
  BY <1>1, <1>2, <1>4, <1>5 DEF Inv, Types
<1> QED BY <1>1, <1>2, <1>5, <1>6, EngineKeepsInv DEF Inv, Limits

LEMMA StepUnsafeKeepsInv == Inv /\ StepUnsafe => Inv'
<1> SUFFICES ASSUME Inv, StepUnsafe PROVE Inv'
  OBVIOUS
<1>1. UNCHANGED <<finalized, safe, need, attrs, building, finality, progress, l1vars>>
  BY DEF StepUnsafe
<1>2. UNCHANGED <<finalityData, finalizedL1, triedFinalizeAt, origin, traversal, resetting, l1, l1Finalized, l1Reorgs>>
  BY <1>1 DEF finality, progress, l1vars
<1>3. finalized \in Block /\ safe \in Block /\ unsafe \in Block /\ events \in Nat /\ payloads \subseteq Block
  BY DEF Inv, Types
<1>4. PICK p \in Lowest :
        \/ /\ Old(p)
           /\ payloads' = payloads \ {p}
           /\ UNCHANGED <<unsafe, engine, events>>
        \/ /\ Fits(p)
           /\ \/ Taken(Heads(p, safe, finalized)) /\ unsafe' = p /\ payloads' = payloads \ {p} /\ UNCHANGED events
              \/ NoAnswer(Heads(p, safe, finalized)) /\ UNCHANGED <<unsafe, payloads>>
              \/ Invalid /\ payloads' = payloads \ {p} /\ UNCHANGED unsafe
  BY DEF StepUnsafe
<1>5. p \in payloads /\ p \in Block
  BY <1>3 DEF Lowest
<1>6. payloads' \subseteq Block /\ IsFiniteSet(payloads') /\ Cardinality(payloads') <= MaxPayloads
  BY <1>4, <1>5, PayloadRemoved
<1>7. unsafe' \in Block /\ events' \in Nat
  BY <1>3, <1>4, <1>5 DEF NoAnswer, Invalid
<1>8. engine' = engine \/ (engine' = Heads(p, safe, finalized) /\ Consistent(Heads(p, safe, finalized)))
  BY <1>4, Answers
<1>9. Told' /\ engine' \in [head : Block, safe : Block, finalized : Block]
  BY <1>1, <1>3, <1>5, <1>8, ToldKept
<1>10. Types'
  BY <1>1, <1>2, <1>6, <1>7, <1>9 DEF Inv, Types
<1> QED BY <1>1, <1>2, <1>6, <1>9, <1>10, EngineKeepsInv

LEMMA ResettingKeepsInv == Inv /\ (StepConsolidateNotFound \/ StepOriginConflict) => Inv'
<1> SUFFICES ASSUME Inv, StepConsolidateNotFound \/ StepOriginConflict PROVE Inv'
  OBVIOUS
<1>1. /\ PastPayloads /\ resetting' = TRUE
      /\ UNCHANGED <<heads, attrs, building, finality, origin, traversal, engine, l1vars, events>>
  BY DEF StepConsolidateNotFound, StepOriginConflict
<1>2. UNCHANGED <<finalized, safe, unsafe, need, finalityData, finalizedL1, triedFinalizeAt, l1, l1Finalized, l1Reorgs>>
  BY <1>1 DEF heads, finality, l1vars
<1>3. payloads' \subseteq Block /\ IsFiniteSet(payloads') /\ Cardinality(payloads') <= MaxPayloads
  BY <1>1, PastPayloadsFacts
<1>4. Told'
  BY <1>1, <1>2 DEF Inv, Told, Consistent
<1>5. Types'
  BY <1>1, <1>2, <1>3 DEF Inv, Types
<1> QED BY <1>1, <1>2, <1>3, <1>4, <1>5, EngineKeepsInv

LEMMA AttrsFacts ==
  ASSUME Inv, attrs # Nil
  PROVE  /\ attrs.block \in Block /\ attrs.parent = safe
         /\ IsPrefix(safe, attrs.block) /\ Len(attrs.block) = Len(safe) + 1
         /\ Derived(attrs.block, origin)
BY DEF Inv, Types, Queued

(* What StartPayload and ConfirmPayload ask of the engine is always one chain. *)
LEMMA ForcedHeadsFacts ==
  ASSUME Inv, attrs # Nil, NEW b \in {safe, attrs.block}
  PROVE  b \in Block /\ Consistent(Heads(b, b, finalized))
<1>1. finalized \in Block /\ safe \in Block /\ attrs.block \in Block /\ IsPrefix(finalized, safe)
  BY AttrsFacts DEF Inv, Types, Below
<1>2. IsPrefix(safe, attrs.block)
  BY AttrsFacts
<1>3. b \in Block /\ IsPrefix(b, b)
  BY <1>1, BlockFacts, PrefixItself
<1>4. IsPrefix(finalized, b)
  BY <1>1, <1>2, BlockFacts, PrefixTrans
<1> QED BY <1>1, <1>3, <1>4, HeadsFacts DEF Consistent

LEMMA StepForceFailsKeepsInv == Inv /\ (StepForceFails \/ StepForceReset) => Inv'
<1> SUFFICES ASSUME Inv, StepForceFails \/ StepForceReset PROVE Inv'
  OBVIOUS
<1> DEFINE started == [onto |-> safe, safe |-> TRUE, block |-> attrs.block]
<1>1. /\ PastPayloads /\ attrs # Nil /\ resetting' \in {resetting, TRUE}
      /\ UNCHANGED <<heads, attrs, finality, origin, traversal, l1vars>>
  BY DEF StepForceFails, StepForceReset, Forces, progress
<1>2. UNCHANGED <<finalized, safe, unsafe, need, finalityData, finalizedL1, triedFinalizeAt,
                  origin, traversal, l1, l1Finalized, l1Reorgs>>
  BY <1>1 DEF heads, finality, l1vars
<1>3. payloads' \subseteq Block /\ IsFiniteSet(payloads') /\ Cardinality(payloads') <= MaxPayloads
  BY <1>1, PastPayloadsFacts
<1>4. safe \in Block /\ attrs.block \in Block /\ events \in Nat /\ resetting \in BOOLEAN
  BY <1>1, AttrsFacts DEF Inv, Types
<1>5. /\ engine' = engine \/ \E b \in {safe, attrs.block} : engine' = Heads(b, b, finalized)
      /\ building' \in {building, started, Nil}
      /\ events' = events + 1
  BY DEF StepForceFails, StepForceReset, NoAnswer
<1>6. Told' /\ engine' \in [head : Block, safe : Block, finalized : Block]
  <2>1. CASE engine' = engine
    BY <1>2, <1>4, <2>1, ToldKept
  <2>2. ASSUME NEW b \in {safe, attrs.block}, engine' = Heads(b, b, finalized)
        PROVE  Told' /\ engine' \in [head : Block, safe : Block, finalized : Block]
    BY <1>1, <1>2, <2>2, ForcedHeadsFacts, ToldKept
  <2> QED BY <1>5, <2>1, <2>2
<1>7. building' # Nil => building' \in [onto : Block, safe : BOOLEAN, block : Block]
  <2>1. CASE building' = building
    BY <2>1 DEF Inv, Types
  <2>2. CASE building' = started
    BY <1>4, <2>2
  <2> QED BY <1>5, <2>1, <2>2
<1>8. events' \in Nat /\ resetting' \in BOOLEAN
  <2>1. events' \in Nat
    BY <1>4, <1>5
  <2>2. resetting' \in BOOLEAN
    BY <1>1, <1>4, Zenon
  <2> QED BY <2>1, <2>2
<1>9. Types'
  BY <1>1, <1>2, <1>3, <1>6, <1>7, <1>8 DEF Inv, Types
<1> QED BY <1>1, <1>2, <1>3, <1>6, <1>9, EngineKeepsInv

LEMMA StepForceInvalidKeepsInv == Inv /\ StepForceInvalid => Inv'
<1> SUFFICES ASSUME Inv, StepForceInvalid PROVE Inv'
  OBVIOUS
<1>1. /\ PastPayloads /\ events' = events + 1 /\ attrs' = Nil /\ building' = Nil
      /\ engine' = Heads(safe, safe, finalized)
      /\ UNCHANGED <<heads, finality, progress, l1vars>>
  BY DEF StepForceInvalid
<1>2. UNCHANGED <<finalized, safe, unsafe, need, finalityData, finalizedL1, triedFinalizeAt,
                  origin, traversal, resetting, l1, l1Finalized, l1Reorgs>>
  BY <1>1 DEF heads, finality, progress, l1vars
<1>3. payloads' \subseteq Block /\ IsFiniteSet(payloads') /\ Cardinality(payloads') <= MaxPayloads
  BY <1>1, PastPayloadsFacts
<1>4. finalized \in Block /\ safe \in Block /\ events \in Nat
  BY DEF Inv, Types
<1>5. Consistent(Heads(safe, safe, finalized))
  <2>1. IsPrefix(safe, safe)
    BY <1>4, BlockFacts, PrefixItself
  <2> QED BY <1>4, <2>1, HeadsFacts DEF Consistent, Inv, Below
<1>6. Told' /\ engine' \in [head : Block, safe : Block, finalized : Block]
  BY <1>1, <1>2, <1>4, <1>5, ToldKept
<1>7. Types'
  BY <1>1, <1>2, <1>3, <1>4, <1>6 DEF Inv, Types
<1> QED BY <1>1, <1>2, <1>3, <1>6, <1>7, EngineKeepsInv

LEMMA ExtensionFacts ==
  ASSUME Inv, NEW k \in {1, 2}, Extendable(k), NEW p \in Extensions(k)
  PROVE  p \in Block
<1>1. unsafe \in Seq(Nat \X Nat) /\ Len(unsafe) \in Nat \ {0}
  BY BlockFacts DEF Inv, Types
<1>2. l1 \in Seq(Nat) /\ Len(l1) \in Nat /\ Len(unsafe) + k <= Len(l1)
  BY L1BlockFacts DEF Inv, Types, Extendable
<1>3. PICK v \in {1, 2} : p = unsafe \o [i \in 1..k |-> <<l1[Len(unsafe) + i], v>>]
  BY DEF Extensions
<1> DEFINE t == [i \in 1..k |-> <<l1[Len(unsafe) + i], v>>]
<1>4. \A i \in 1..k : l1[Len(unsafe) + i] \in Nat
  BY <1>1, <1>2, SMTT(30)
<1>5. t \in [1..k -> Nat \X Nat]
  <2>1. v \in Nat
    BY <1>3
  <2>2. ASSUME NEW i \in 1..k PROVE <<l1[Len(unsafe) + i], v>> \in Nat \X Nat
    <3>1. l1[Len(unsafe) + i] \in Nat
      BY <1>4
    <3> QED BY <2>1, <3>1
  <2> QED BY <2>2
<1> HIDE DEF t
<1>6. t \in Seq(Nat \X Nat)
  BY <1>5
<1>7. unsafe \o t \in Seq(Nat \X Nat) /\ Len(unsafe \o t) = Len(unsafe) + Len(t)
  BY <1>1, <1>6, ConcatProperties
<1>8. Len(t) \in Nat
  BY <1>6
<1>9. unsafe \o t # << >>
  BY <1>1, <1>7, <1>8, EmptySeq
<1> QED BY <1>3, <1>7, <1>9 DEF Block, t

LEMMA AddUnsafePayloadKeepsInv == Inv /\ AddUnsafePayload => Inv'
<1> SUFFICES ASSUME Inv, AddUnsafePayload PROVE Inv'
  OBVIOUS
<1>1. events' = events + 1 /\ UNCHANGED <<heads, attrs, building, finality, progress, engine, l1vars>>
  BY DEF AddUnsafePayload
<1>2. UNCHANGED <<finalized, safe, unsafe, need, finalityData, finalizedL1, triedFinalizeAt,
                  origin, traversal, resetting, l1, l1Finalized, l1Reorgs>>
  BY <1>1 DEF heads, finality, progress, l1vars
<1>3. PICK k \in {1, 2} : Extendable(k) /\ \E p \in Extensions(k) :
        IF Cardinality(payloads \cup {p}) <= MaxPayloads THEN payloads' = payloads \cup {p}
        ELSE \E q \in {x \in payloads \cup {p} : \A y \in payloads \cup {p} : Len(x) <= Len(y)} :
               payloads' = (payloads \cup {p}) \ {q}
  BY DEF AddUnsafePayload
<1>4. PICK p \in Extensions(k) :
        \/ Cardinality(payloads \cup {p}) <= MaxPayloads /\ payloads' = payloads \cup {p}
        \/ \E q \in payloads \cup {p} : payloads' = (payloads \cup {p}) \ {q}
  BY <1>3
<1>5. p \in Block
  BY <1>3, ExtensionFacts
<1>6. payloads' \subseteq Block /\ IsFiniteSet(payloads') /\ Cardinality(payloads') <= MaxPayloads
  <2> DEFINE all == payloads \cup {p}
  <2>1. payloads \subseteq Block /\ IsFiniteSet(payloads) /\ Cardinality(payloads) <= MaxPayloads
    BY DEF Inv, Types, Limits
  <2>2. IsFiniteSet(all) /\ Cardinality(all) \in {Cardinality(payloads), Cardinality(payloads) + 1}
    BY <2>1, FS_AddElement
  <2>3. Cardinality(payloads) \in Nat
    BY <2>1, FS_CardinalityType
  <2>4. ASSUME NEW q \in all
        PROVE  IsFiniteSet(all \ {q}) /\ Cardinality(all \ {q}) = Cardinality(all) - 1
    BY <2>2, FS_RemoveElement
  <2> HIDE DEF all
  <2>5. ASSUME NEW q \in all PROVE Cardinality(all \ {q}) <= MaxPayloads
    <3>1. Cardinality(all \ {q}) = Cardinality(all) - 1
      BY <2>4
    <3>2. Cardinality(all) = Cardinality(payloads) \/ Cardinality(all) = Cardinality(payloads) + 1
      BY <2>2
    <3> QED BY <2>1, <2>3, <3>1, <3>2
  <2> QED BY <1>4, <1>5, <2>1, <2>2, <2>4, <2>5 DEF all
<1>7. Told'
  BY <1>1, <1>2 DEF Inv, Told, Consistent
<1>8. events' \in Nat
  BY <1>1 DEF Inv, Types
<1>9. Types'
  BY <1>1, <1>2, <1>6, <1>8 DEF Inv, Types
<1> QED BY <1>1, <1>2, <1>6, <1>7, <1>9, EngineKeepsInv

LEMMA StartPayloadKeepsInv == Inv /\ StartPayload => Inv'
<1> SUFFICES ASSUME Inv, StartPayload PROVE Inv'
  OBVIOUS
<1> DEFINE fc == Heads(unsafe, safe, finalized)
<1>1. UNCHANGED <<heads, attrs, payloads, finality, progress, l1vars>> /\ Extendable(1)
  BY DEF StartPayload
<1>2. UNCHANGED <<finalized, safe, unsafe, need, finalityData, finalizedL1, triedFinalizeAt,
                  origin, traversal, resetting, l1, l1Finalized, l1Reorgs>>
  BY <1>1 DEF heads, finality, progress, l1vars
<1>3. finalized \in Block /\ safe \in Block /\ unsafe \in Block /\ events \in Nat
  BY DEF Inv, Types
<1>4. \/ /\ Taken(fc) /\ events' = events + 1
         /\ \E p \in Extensions(1) : building' = [onto |-> unsafe, safe |-> FALSE, block |-> p]
      \/ NoAnswer(fc) /\ UNCHANGED building
  BY DEF StartPayload
<1> HIDE DEF fc
<1>5. engine' = engine \/ (engine' = fc /\ Consistent(fc))
  BY <1>4, Answers
<1>6. Told' /\ engine' \in [head : Block, safe : Block, finalized : Block]
  BY <1>2, <1>3, <1>5, ToldKept DEF fc
<1>7. events' \in Nat
  BY <1>3, <1>4 DEF NoAnswer
<1>8. building' # Nil => building' \in [onto : Block, safe : BOOLEAN, block : Block]
  <2>1. CASE building' = building
    BY <2>1 DEF Inv, Types
  <2>2. ASSUME NEW p \in Extensions(1), building' = [onto |-> unsafe, safe |-> FALSE, block |-> p]
        PROVE  building' \in [onto : Block, safe : BOOLEAN, block : Block]
    <3>1. p \in Block
      BY <1>1, ExtensionFacts
    <3> QED BY <1>3, <2>2, <3>1
  <2> QED BY <1>4, <2>1, <2>2
<1>9. Types'
  BY <1>1, <1>2, <1>6, <1>7, <1>8 DEF Inv, Types
<1> QED BY <1>1, <1>2, <1>6, <1>9, EngineKeepsInv DEF Inv, Limits

LEMMA ConfirmPayloadKeepsInv == Inv /\ ConfirmPayload => Inv'
<1> SUFFICES ASSUME Inv, ConfirmPayload PROVE Inv'
  OBVIOUS
<1> DEFINE b == building.block
           fc == Heads(b, safe, finalized)
<1>1. UNCHANGED <<finalized, safe, need, attrs, payloads, finality, progress, l1vars>> /\ building # Nil
  BY DEF ConfirmPayload
<1>2. UNCHANGED <<finalityData, finalizedL1, triedFinalizeAt,
                  origin, traversal, resetting, l1, l1Finalized, l1Reorgs>>
  BY <1>1 DEF finality, progress, l1vars
<1>3. finalized \in Block /\ safe \in Block /\ unsafe \in Block /\ b \in Block /\ events \in Nat
  BY <1>1 DEF Inv, Types
<1>4. \/ Taken(fc) /\ unsafe' = b /\ building' = Nil /\ UNCHANGED events
      \/ Refused(fc) /\ building' = Nil /\ UNCHANGED <<unsafe, events>>
      \/ NoAnswer(fc) /\ building' \in {building, Nil} /\ UNCHANGED unsafe
  BY DEF ConfirmPayload
<1> HIDE DEF fc, b
<1>5. engine' = engine \/ (engine' = fc /\ Consistent(fc))
  BY <1>4, Answers
<1>6. Told' /\ engine' \in [head : Block, safe : Block, finalized : Block]
  BY <1>1, <1>3, <1>5, ToldKept DEF fc
<1>7. unsafe' \in Block /\ events' \in Nat
  BY <1>3, <1>4 DEF NoAnswer
<1>8. building' # Nil => building' \in [onto : Block, safe : BOOLEAN, block : Block]
  BY <1>4 DEF Inv, Types
<1>9. Types'
  BY <1>1, <1>2, <1>6, <1>7, <1>8 DEF Inv, Types
<1> QED BY <1>1, <1>2, <1>6, <1>9, EngineKeepsInv DEF Inv, Limits

-----------------------------------------------------------------------------
(* L1. *)

LEMMA EntryTypes ==
  ASSUME Types, NEW i \in DOMAIN finalityData
  PROVE  /\ finalityData[i] \in Entry
         /\ finalityData[i].l2 \in Block /\ finalityData[i].l1 \in Nat /\ finalityData[i].hash \in L1Block
<1>1. finalityData[i] \in Entry
  BY DEF Types
<1> QED BY <1>1 DEF Entry

LEMMA L1KeepsInv ==
  ASSUME Inv, UNCHANGED <<heads, work, finality, progress, engine, events>>,
         l1' \in L1Block, l1Finalized' \in 1..Len(l1'), l1Reorgs' \in Nat,
         l1Finalized <= l1Finalized', l1Finalized <= Len(l1'),
         \A i \in 1..l1Finalized : l1'[i] = l1[i],
         Len(l1') - l1Finalized' <= MaxFinalityLag
  PROVE  Inv'
<1>1. UNCHANGED <<finalized, safe, unsafe, need, attrs, building, payloads, finalityData, finalizedL1,
                  triedFinalizeAt, origin, traversal, resetting, engine, events>>
  BY DEF heads, work, finality, progress
<1>2. l1 \in L1Block /\ l1Finalized \in 1..Len(l1) /\ Len(l1) \in Nat /\ Len(l1') \in Nat /\ finalizedL1 \in Nat
  BY L1BlockFacts DEF Inv, Types
<1>3. l1Finalized' \in Nat
  BY <1>2
<1>4. \A b \in Block : Final(b) => Final(b)'
  BY <1>2, <1>3, FinalStays
<1>5. /\ finalized \in Block /\ safe \in Block
      /\ \A i \in DOMAIN finalityData : finalityData[i].l2 \in Block
  BY EntryTypes DEF Inv, Types
<1>6. Types'
  BY <1>1 DEF Inv, Types
<1>7. Told' /\ Queued' /\ Limits' /\ OnL1Chain'
  BY <1>1 DEF Inv, Told, Consistent, Queued, Derived, Limits, OnL1Chain
<1>8. Below' /\ SafeHead'
  BY <1>1, <1>4, <1>5 DEF Inv, Below, SafeHead, Derived
<1>9. Entries'
  BY <1>1, <1>4, <1>5 DEF Inv, Entries, EntryOK, Derived
<1>10. InTime'
  BY <1>1, <1>2, <1>3 DEF Inv, InTime
<1> QED BY <1>6, <1>7, <1>8, <1>9, <1>10 DEF Inv

LEMMA L1ActionsKeepInv == Inv /\ (L1Grow \/ L1Finalize \/ L1Reorg) => Inv'
<1> SUFFICES ASSUME Inv, L1Grow \/ L1Finalize \/ L1Reorg PROVE Inv'
  OBVIOUS
<1>1. /\ l1 \in L1Block /\ l1 \in Seq(Nat) /\ Len(l1) \in Nat \ {0} /\ l1Finalized \in 1..Len(l1) /\ l1Reorgs \in Nat
      /\ Len(l1) - l1Finalized <= MaxFinalityLag
  BY L1BlockFacts DEF Inv, Types, InTime
<1>2. CASE L1Grow
  <2>1. l1' = Append(l1, 1) /\ Len(l1) - l1Finalized < MaxFinalityLag
        /\ UNCHANGED <<heads, work, finality, progress, engine, l1Finalized, l1Reorgs, events>>
    BY <1>2 DEF L1Grow
  <2>2. /\ l1' \in Seq(Nat) /\ l1' # << >> /\ Len(l1') = Len(l1) + 1
        /\ \A i \in 1..Len(l1) : l1'[i] = l1[i]
    BY <1>1, <2>1, AppendProperties
  <2>3. l1' \in L1Block
    BY <2>2 DEF L1Block
  <2>4. /\ l1Finalized' \in 1..Len(l1') /\ l1Finalized <= l1Finalized' /\ l1Finalized <= Len(l1')
        /\ Len(l1') - l1Finalized' <= MaxFinalityLag
        /\ \A i \in 1..l1Finalized : l1'[i] = l1[i]
    BY <1>1, <2>1, <2>2
  <2> QED BY <1>1, <2>1, <2>3, <2>4, L1KeepsInv
<1>3. CASE L1Finalize
  <2>1. l1Finalized < Len(l1) /\ l1Finalized' = l1Finalized + 1
        /\ UNCHANGED <<heads, work, finality, progress, engine, l1, l1Reorgs, events>>
    BY <1>3 DEF L1Finalize
  <2>2. /\ l1Finalized' \in 1..Len(l1') /\ l1Finalized <= l1Finalized' /\ l1Finalized <= Len(l1')
        /\ Len(l1') - l1Finalized' <= MaxFinalityLag
        /\ \A i \in 1..l1Finalized : l1'[i] = l1[i]
    BY <1>1, <2>1
  <2> QED BY <1>1, <2>1, <2>2, L1KeepsInv
<1>4. CASE L1Reorg
  <2>1. l1Reorgs' = l1Reorgs + 1
        /\ UNCHANGED <<heads, work, finality, progress, engine, l1Finalized, events>>
    BY <1>4 DEF L1Reorg
  <2>2. PICK n \in l1Finalized..Len(l1) - 1 : l1' = Append(SubSeq(l1, 1, n), l1Reorgs + 2)
    BY <1>4 DEF L1Reorg
  <2>3. n \in 0..Len(l1) /\ l1Reorgs + 2 \in Nat
    BY <1>1
  <2> DEFINE p == SubSeq(l1, 1, n)
  <2>4. p \in Seq(Nat) /\ Len(p) = n /\ \A i \in 1..n : p[i] = l1[i]
    BY <1>1, <2>3, PrefixOf
  <2> HIDE DEF p
  <2>5. /\ l1' \in Seq(Nat) /\ l1' # << >> /\ Len(l1') = n + 1
        /\ \A i \in 1..n : l1'[i] = p[i]
    BY <2>2, <2>3, <2>4, AppendProperties DEF p
  <2>6. l1' \in L1Block
    BY <2>5 DEF L1Block
  <2>7. /\ l1Finalized' \in 1..Len(l1') /\ l1Finalized <= l1Finalized' /\ l1Finalized <= Len(l1')
        /\ Len(l1') - l1Finalized' <= MaxFinalityLag /\ l1Reorgs' \in Nat
    BY <1>1, <2>1, <2>5
  <2>8. \A i \in 1..l1Finalized : l1'[i] = l1[i]
    <3>1. \A i \in 1..l1Finalized : i \in 1..n
      BY <1>1
    <3> QED BY <2>4, <2>5, <3>1
  <2> QED BY <1>1, <2>1, <2>6, <2>7, <2>8, L1KeepsInv
<1> QED BY <1>2, <1>3, <1>4

-----------------------------------------------------------------------------
(* The safe head and the finality data. *)

LEMMA PrunedFacts ==
  ASSUME Inv
  PROVE  /\ Pruned \in Seq(Entry) /\ Len(Pruned) < FinalityLookback
         /\ \A i \in 1..Len(Pruned) : \E j \in DOMAIN finalityData : Pruned[i] = finalityData[j]
<1>1. /\ finalityData \in Seq(Entry) /\ Len(finalityData) \in Nat
      /\ DOMAIN finalityData = 1..Len(finalityData) /\ Len(finalityData) <= FinalityLookback
  BY LenProperties DEF Inv, Types, Limits
<1>2. CASE Len(finalityData) >= FinalityLookback
  <2>1. finalityData # << >>
    BY <1>1, <1>2
  <2>2. /\ Tail(finalityData) \in Seq(Entry) /\ Len(Tail(finalityData)) = Len(finalityData) - 1
        /\ \A i \in 1..Len(Tail(finalityData)) : Tail(finalityData)[i] = finalityData[i + 1]
    BY <1>1, <2>1, HeadTailProperties
  <2>3. Pruned = Tail(finalityData)
    BY <1>2 DEF Pruned
  <2>4. \A i \in 1..Len(Pruned) : i + 1 \in DOMAIN finalityData
    BY <1>1, <2>2, <2>3
  <2>5. Len(Pruned) < FinalityLookback
    BY <1>1, <2>2, <2>3
  <2> QED BY <2>2, <2>3, <2>4, <2>5
<1>3. CASE ~(Len(finalityData) >= FinalityLookback)
  <2>1. Pruned = finalityData
    BY <1>3 DEF Pruned
  <2>2. Len(Pruned) < FinalityLookback
    BY <1>1, <1>3, <2>1
  <2> QED BY <1>1, <2>1, <2>2
<1> QED BY <1>2, <1>3

(* The finality data after the safe head s is derived by at, an L1 block at or after the origin. *)
LEMMA PostProcessFacts ==
  ASSUME Inv, NEW s \in Block, NEW at \in L1Block, IsPrefix(origin, at)
  PROVE  /\ PostProcessSafeL2(s, at) \in Seq(Entry)
         /\ Len(PostProcessSafeL2(s, at)) <= FinalityLookback
         /\ \A i \in DOMAIN PostProcessSafeL2(s, at) :
              \/ PostProcessSafeL2(s, at)[i] = [l2 |-> s, l1 |-> Len(at), hash |-> at]
              \/ \E j \in DOMAIN finalityData : PostProcessSafeL2(s, at)[i] = finalityData[j]
<1> DEFINE P == Pruned
           k == Len(P)
           entry == [l2 |-> s, l1 |-> Len(at), hash |-> at]
           D == PostProcessSafeL2(s, at)
<1>1. /\ P \in Seq(Entry) /\ k \in Nat /\ k < FinalityLookback
      /\ \A i \in 1..k : \E j \in DOMAIN finalityData : P[i] = finalityData[j]
  BY PrunedFacts
<1>2. entry \in Entry
  BY L1BlockFacts DEF Entry
<1>3. CASE P = << >> \/ Last(P).l1 < Len(at)
  <2>1. D = Append(P, entry)
    BY <1>3 DEF PostProcessSafeL2
  <2> HIDE DEF P, D, entry
  <2>2. /\ D \in Seq(Entry) /\ Len(D) = k + 1
        /\ \A i \in 1..k : D[i] = P[i]
        /\ D[k + 1] = entry
    BY <1>1, <1>2, <2>1, AppendProperties
  <2>3. \A i \in DOMAIN D : i \in 1..k \/ i = k + 1
    <3> HIDE DEF k
    <3> QED BY <1>1, <2>2
  <2>4. Len(D) <= FinalityLookback
    <3> HIDE DEF k
    <3> QED BY <1>1, <2>2
  <2>5. \A i \in DOMAIN D : D[i] = entry \/ \E j \in DOMAIN finalityData : D[i] = finalityData[j]
    BY <1>1, <2>2, <2>3
  <2> QED BY <2>2, <2>4, <2>5 DEF D, entry
<1>4. CASE ~(P = << >> \/ Last(P).l1 < Len(at))
  <2>1. k \in 1..k
    BY <1>1, <1>4
  <2>2. PICK j \in DOMAIN finalityData : P[k] = finalityData[j]
    BY <1>1, <2>1
  <2>3. finalityData[j] \in Entry /\ EntryOK(finalityData[j])
    BY EntryTypes DEF Inv, Entries
  <2>4. P[k].hash = at /\ P[k].l1 = Len(at)
    <3>1. P[k].hash \in L1Block /\ P[k].l1 = Len(P[k].hash) /\ IsPrefix(P[k].hash, origin)
      BY <2>2, <2>3 DEF Entry, EntryOK
    <3>2. P[k].hash \in Seq(Nat) /\ origin \in Seq(Nat) /\ at \in Seq(Nat)
      BY <3>1, L1BlockFacts DEF Inv, Types
    <3>3. IsPrefix(P[k].hash, at)
      BY <3>1, <3>2, PrefixTrans
    <3>4. Len(P[k].hash) >= Len(at)
      <4>1. ~(P[k].l1 < Len(at))
        BY <1>4 DEF Last
      <4>2. Len(at) \in Nat /\ Len(P[k].hash) \in Nat
        BY <3>2
      <4> QED BY <3>1, <4>1, <4>2
    <3> QED BY <3>1, <3>2, <3>3, <3>4, PrefixEqual
  <2>5. [P[k] EXCEPT !.l2 = s] = entry
    BY <2>2, <2>3, <2>4, SMTT(30) DEF Entry
  <2>6. D = [P EXCEPT ![k] = [P[k] EXCEPT !.l2 = s]]
    BY <1>4 DEF PostProcessSafeL2
  <2>7. D = [P EXCEPT ![k] = entry]
    BY <2>5, <2>6
  <2> HIDE DEF P, D, entry
  <2>8. /\ D \in Seq(Entry) /\ Len(D) = k
        /\ \A i \in 1..k : D[i] = IF i = k THEN entry ELSE P[i]
    BY <1>1, <1>2, <2>1, <2>7, ExceptSeq
  <2>9. Len(D) <= FinalityLookback
    BY <1>1, <2>8
  <2>10. \A i \in DOMAIN D : D[i] = entry \/ \E m \in DOMAIN finalityData : D[i] = finalityData[m]
    BY <1>1, <2>8
  <2> QED BY <2>8, <2>9, <2>10 DEF D, entry
<1> QED BY <1>3, <1>4

(* The next block, whose attributes are queued, becomes the safe head. *)
LEMMA SafeAdvanceKeepsInv ==
  ASSUME Inv, attrs # Nil, safe' = attrs.block, attrs' = Nil,
         finalityData' = PostProcessSafeL2(safe', origin),
         UNCHANGED <<finalized, finalizedL1, origin, traversal, l1, l1Finalized>>,
         Types', Told', Cardinality(payloads') <= MaxPayloads
  PROVE  Inv'
<1>1. /\ attrs.block \in Block /\ IsPrefix(safe, attrs.block) /\ Derived(attrs.block, origin)
  BY AttrsFacts
<1>2. finalized \in Block /\ safe \in Block /\ origin \in L1Block /\ safe' \in Block
  BY <1>1 DEF Inv, Types
<1>3. finalized \in Seq(Nat \X Nat) /\ safe \in Seq(Nat \X Nat) /\ safe' \in Seq(Nat \X Nat) /\ origin \in Seq(Nat)
  BY <1>2, BlockFacts, L1BlockFacts
<1>4. IsPrefix(origin, origin) /\ IsPrefix(safe', safe')
  BY <1>3, PrefixItself
<1>5. \A b : (Final(b)' <=> Final(b)) /\ \A at : Derived(b, at)' <=> Derived(b, at)
  BY DEF Final, OnL1, Derived
<1>6. Below'
  <2>1. IsPrefix(finalized, safe')
    BY <1>1, <1>3, PrefixTrans DEF Inv, Below
  <2> QED BY <1>5, <2>1 DEF Inv, Below
<1>7. SafeHead'
  BY <1>1, <1>5 DEF SafeHead, Derived
<1>8. ASSUME NEW e \in Entry, EntryOK(e) PROVE EntryOK(e)'
  <2>1. e.l2 \in Seq(Nat \X Nat)
    BY BlockFacts DEF Entry
  <2>2. IsPrefix(e.l2, safe')
    BY <1>1, <1>3, <1>8, <2>1, PrefixTrans DEF EntryOK
  <2> QED BY <1>5, <1>8, <2>2 DEF EntryOK, Derived
<1> DEFINE new == [l2 |-> safe', l1 |-> Len(origin), hash |-> origin]
<1>9. Derived(safe', origin)
  BY <1>1
<1>10. IsPrefix(safe', safe') /\ IsPrefix(new.hash, origin) /\ new.l1 = Len(new.hash) /\ Derived(new.l2, new.hash)
  BY <1>4, <1>9
<1>11. /\ finalityData' \in Seq(Entry) /\ Len(finalityData') <= FinalityLookback
       /\ \A i \in DOMAIN finalityData' :
            finalityData'[i] = new \/ \E j \in DOMAIN finalityData : finalityData'[i] = finalityData[j]
  BY <1>2, <1>4, PostProcessFacts
<1>12. Entries'
  <2> SUFFICES ASSUME NEW i \in DOMAIN finalityData' PROVE EntryOK(finalityData[i])'
    BY DEF Entries
  <2>1. CASE finalityData'[i] = new
    BY <1>5, <1>10, <2>1 DEF EntryOK, Derived
  <2>2. ASSUME NEW j \in DOMAIN finalityData, finalityData'[i] = finalityData[j]
        PROVE  EntryOK(finalityData[i])'
    <3>1. PICK e : e = finalityData[j]
      OBVIOUS
    <3>2. e \in Entry /\ EntryOK(e)
      BY <3>1, EntryTypes DEF Inv, Entries
    <3>3. EntryOK(e)'
      BY <1>8, <3>2
    <3> QED BY <2>2, <3>1, <3>3 DEF EntryOK
  <2> QED BY <1>11, <2>1, <2>2
<1>13. Queued' /\ OnL1Chain' /\ InTime' /\ Limits'
  BY <1>11 DEF Inv, Queued, OnL1Chain, InTime, Limits
<1> QED BY <1>6, <1>7, <1>12, <1>13 DEF Inv

LEMMA StepConsolidateKeepsInv == Inv /\ StepConsolidate => Inv'
<1> SUFFICES ASSUME Inv, StepConsolidate PROVE Inv'
  OBVIOUS
<1>1. /\ PastPayloads /\ attrs # Nil /\ safe' = attrs.block /\ need' = TRUE /\ attrs' = Nil
      /\ finalityData' = PostProcessSafeL2(safe', origin)
      /\ UNCHANGED <<finalized, unsafe, building, finalizedL1, triedFinalizeAt, progress, engine, l1vars, events>>
  BY DEF StepConsolidate
<1>2. UNCHANGED <<origin, traversal, resetting, l1, l1Finalized, l1Reorgs>>
  BY <1>1 DEF progress, l1vars
<1>3. payloads' \subseteq Block /\ IsFiniteSet(payloads') /\ Cardinality(payloads') <= MaxPayloads
  BY <1>1, PastPayloadsFacts
<1>4. safe' \in Block /\ origin \in L1Block
  BY <1>1, AttrsFacts DEF Inv, Types
<1>5. finalityData' \in Seq(Entry)
  <2>1. IsPrefix(origin, origin)
    BY <1>4, L1BlockFacts, PrefixItself
  <2> QED BY <1>1, <1>4, <2>1, PostProcessFacts
<1>6. Told'
  BY <1>1 DEF Inv, Told, Consistent
<1>7. Types'
  BY <1>1, <1>2, <1>3, <1>4, <1>5 DEF Inv, Types
<1> QED BY <1>1, <1>2, <1>3, <1>6, <1>7, SafeAdvanceKeepsInv

LEMMA StepForceKeepsInv == Inv /\ StepForce => Inv'
<1> SUFFICES ASSUME Inv, StepForce PROVE Inv'
  OBVIOUS
<1>1. /\ PastPayloads /\ attrs # Nil /\ safe' = attrs.block /\ unsafe' = attrs.block /\ attrs' = Nil
      /\ building' = Nil
      /\ Taken(Heads(attrs.block, attrs.block, finalized))
      /\ finalityData' = PostProcessSafeL2(attrs.block, origin)
      /\ UNCHANGED <<finalized, need, finalizedL1, triedFinalizeAt, progress, l1vars, events>>
  BY DEF StepForce, Forces
<1>2. UNCHANGED <<origin, traversal, resetting, l1, l1Finalized, l1Reorgs>>
  BY <1>1 DEF progress, l1vars
<1>3. payloads' \subseteq Block /\ IsFiniteSet(payloads') /\ Cardinality(payloads') <= MaxPayloads
  BY <1>1, PastPayloadsFacts
<1>4. attrs.block \in Block /\ origin \in L1Block
  BY <1>1, AttrsFacts DEF Inv, Types
<1>5. finalityData' \in Seq(Entry)
  <2>1. IsPrefix(origin, origin)
    BY <1>4, L1BlockFacts, PrefixItself
  <2> QED BY <1>1, <1>4, <2>1, PostProcessFacts
<1>6. Told' /\ engine' \in [head : Block, safe : Block, finalized : Block]
  BY <1>1, <1>4, ToldKept DEF Taken
<1>7. Types'
  BY <1>1, <1>2, <1>3, <1>4, <1>5, <1>6 DEF Inv, Types
<1> QED BY <1>1, <1>2, <1>3, <1>6, <1>7, SafeAdvanceKeepsInv

-----------------------------------------------------------------------------
(* Finality. *)

(* tryFinalizeL2 on finality data that only says what is so moves the finalized head forward, to  *)
(* a block at or below the safe head.                                                            *)
LEMMA TryFinalizeFacts ==
  ASSUME Inv, NEW fd \in Seq(Entry), NEW n \in Nat, TryFinalizeL2(fd, n),
         \A i \in DOMAIN fd : IsPrefix(fd[i].l2, safe) /\ (fd[i].l1 <= n => Final(fd[i].l2))
  PROVE  /\ finalized' \in Block /\ IsPrefix(finalized, finalized') /\ IsPrefix(finalized', safe)
         /\ Final(finalized')
         /\ \/ need' = TRUE
            \/ need' = need /\ finalized' = finalized
         /\ triedFinalizeAt' = Len(origin')
<1>1. finalized \in Block /\ safe \in Block /\ IsPrefix(finalized, safe) /\ Final(finalized)
  BY DEF Inv, Types, Below
<1>2. finalized \in Seq(Nat \X Nat) /\ safe \in Seq(Nat \X Nat)
  BY <1>1, BlockFacts
<1> DEFINE S == Finalizable(fd, n)
<1>3. triedFinalizeAt' = Len(origin')
  BY DEF TryFinalizeL2
<1>4. CASE S = {}
  <2>1. finalized' = finalized /\ need' = need
    BY <1>4 DEF TryFinalizeL2
  <2>2. IsPrefix(finalized, finalized)
    BY <1>2, PrefixItself
  <2> QED BY <1>1, <1>3, <2>1, <2>2
<1>5. CASE S # {}
  <2> DEFINE m == CHOOSE i \in S : \A j \in S : j <= i
  <2>1. finalized' = fd[m].l2 /\ need' = TRUE
    BY <1>5 DEF TryFinalizeL2
  <2>2. m \in S
    <3>1. S \subseteq 1..Len(fd) /\ Len(fd) \in Nat
      BY LenProperties DEF Finalizable
    <3>2. S \in SUBSET Nat /\ \A x \in S : x <= Len(fd)
      BY <3>1
    <3> HIDE DEF S
    <3>3. \E i \in S : \A j \in S : j <= i
      BY <1>5, <3>1, <3>2, Largest
    <3> QED BY <3>3
  <2> HIDE DEF m
  <2>3. m \in DOMAIN fd /\ Len(fd[m].l2) > Len(finalized) /\ fd[m].l1 <= n
    BY <2>2 DEF Finalizable
  <2>4. fd[m] \in Entry
    BY <2>3
  <2>5. fd[m].l2 \in Block
    BY <2>4 DEF Entry
  <2>6. IsPrefix(fd[m].l2, safe) /\ Final(fd[m].l2)
    BY <2>3
  <2>7. fd[m].l2 \in Seq(Nat \X Nat) /\ Len(finalized) <= Len(fd[m].l2)
    <3>1. fd[m].l2 \in Seq(Nat \X Nat) /\ Len(fd[m].l2) \in Nat
      BY <2>5, BlockFacts
    <3>2. Len(finalized) \in Nat
      BY <1>1, BlockFacts
    <3> QED BY <2>3, <3>1, <3>2
  <2>8. IsPrefix(finalized, fd[m].l2)
    BY <1>1, <1>2, <2>6, <2>7, PrefixesCompare
  <2> QED BY <1>3, <2>1, <2>5, <2>6, <2>8
<1> QED BY <1>4, <1>5

(* The engine is to be told of a finalized head that has moved forward. *)
LEMMA FinalizedTold ==
  ASSUME Inv, engine' = engine, finalized' \in Block, IsPrefix(finalized, finalized'),
         need' = TRUE \/ (need' = need /\ finalized' = finalized)
  PROVE  Told'
<1>1. finalized \in Block /\ engine.finalized \in Block /\ need \in BOOLEAN
  BY DEF Inv, Types
<1>2. /\ finalized \in Seq(Nat \X Nat) /\ engine.finalized \in Seq(Nat \X Nat)
      /\ finalized' \in Seq(Nat \X Nat)
  BY <1>1, BlockFacts
<1>3. IsPrefix(engine.finalized, finalized')
  BY <1>2, PrefixTrans DEF Inv, Told
<1>4. ~need' => engine.finalized = finalized'
  BY DEF Inv, Told
<1> QED BY <1>3, <1>4 DEF Inv, Told, Consistent

(* The entries of the finality data are about ancestors of the queue's origin: when one with the  *)
(* final L1 block is among them, what the entries up to it say is final.                         *)
LEMMA FinalizeFacts ==
  ASSUME Inv, Finalize
  PROVE  /\ origin' = origin /\ finalized' \in Block
         /\ IsPrefix(finalized, finalized') /\ IsPrefix(finalized', safe) /\ Final(finalized')
         /\ need' = TRUE \/ (need' = need /\ finalized' = finalized)
         /\ triedFinalizeAt' \in Nat
<1>1. /\ finalizedL1' = l1Finalized
      /\ UNCHANGED <<safe, unsafe, work, finalityData, traversal, resetting, engine, l1vars, events>>
  BY DEF Finalize
<1>2. UNCHANGED <<attrs, building, payloads, l1, l1Finalized, l1Reorgs>>
  BY <1>1 DEF work, l1vars
<1>3. /\ l1 \in L1Block /\ l1 \in Seq(Nat) /\ Len(l1) \in Nat /\ l1Finalized \in 1..Len(l1)
      /\ l1Finalized \in Nat /\ l1Finalized \in 0..Len(l1)
      /\ finalized \in Block /\ origin \in L1Block /\ origin \in Seq(Nat) /\ Len(origin) \in Nat
  BY L1BlockFacts DEF Inv, Types
<1>4. CASE \E i \in DOMAIN finalityData : finalityData[i].hash = SubSeq(l1, 1, l1Finalized)
  <2>1. origin' = origin /\ TryFinalizeL2(finalityData, l1Finalized)
    BY <1>1, <1>4 DEF Finalize
  <2>2. PICK k \in DOMAIN finalityData : finalityData[k].hash = SubSeq(l1, 1, l1Finalized)
    BY <1>4
  <2> DEFINE top == finalityData[k].hash
  <2>3. top \in Seq(Nat) /\ Len(top) = l1Finalized /\ IsPrefix(top, l1)
    BY <1>3, <2>2, PrefixOf
  <2>4. IsPrefix(top, origin)
    BY DEF Inv, Entries, EntryOK
  <2> HIDE DEF top
  <2>5. ASSUME NEW i \in DOMAIN finalityData
        PROVE  /\ IsPrefix(finalityData[i].l2, safe)
               /\ finalityData[i].l1 <= l1Finalized => Final(finalityData[i].l2)
    <3> DEFINE b == finalityData[i].l2
               h == finalityData[i].hash
    <3>1. b \in Block /\ h \in L1Block /\ h \in Seq(Nat) /\ Len(h) \in Nat
      BY EntryTypes, L1BlockFacts DEF Inv
    <3>2. IsPrefix(b, safe) /\ finalityData[i].l1 = Len(h) /\ IsPrefix(h, origin) /\ (Final(b) \/ Derived(b, h))
      BY DEF Inv, Entries, EntryOK
    <3> HIDE DEF b, h
    <3>3. ASSUME Len(h) <= l1Finalized, Derived(b, h) PROVE Final(b)
      <4>1. IsPrefix(h, top)
        BY <1>3, <2>3, <2>4, <3>1, <3>2, <3>3, PrefixesCompare
      <4>2. IsPrefix(h, l1)
        BY <1>3, <2>3, <3>1, <4>1, PrefixTrans
      <4>3. OnL1(h)
        BY <1>3, <3>1, <4>2, OnL1IsPrefix
      <4> QED BY <1>3, <3>1, <3>3, <4>3, DerivedIsFinal
    <3> QED BY <3>2, <3>3 DEF b
  <2>6. finalityData \in Seq(Entry)
    BY DEF Inv, Types
  <2>7. /\ finalized' \in Block /\ IsPrefix(finalized, finalized') /\ IsPrefix(finalized', safe)
        /\ Final(finalized')
        /\ need' = TRUE \/ (need' = need /\ finalized' = finalized)
        /\ triedFinalizeAt' = Len(origin')
    BY <1>3, <2>1, <2>5, <2>6, TryFinalizeFacts
  <2> QED BY <1>3, <2>1, <2>7
<1>5. CASE ~\E i \in DOMAIN finalityData : finalityData[i].hash = SubSeq(l1, 1, l1Finalized)
  <2>1. UNCHANGED <<origin, finalized, need, triedFinalizeAt>>
    BY <1>5 DEF Finalize
  <2>2. IsPrefix(finalized, finalized)
    BY <1>3, BlockFacts, PrefixItself
  <2> QED BY <1>3, <2>1, <2>2 DEF Inv, Below, Types
<1> QED BY <1>4, <1>5

LEMMA FinalizeKeepsInv == Inv /\ Finalize => Inv'
<1> SUFFICES ASSUME Inv, Finalize PROVE Inv'
  OBVIOUS
<1>1. /\ finalizedL1' = l1Finalized
      /\ UNCHANGED <<safe, unsafe, work, finalityData, traversal, resetting, engine, l1vars, events>>
  BY DEF Finalize
<1>2. UNCHANGED <<attrs, building, payloads, l1, l1Finalized, l1Reorgs>>
  BY <1>1 DEF work, l1vars
<1>3. /\ l1 \in L1Block /\ l1 \in Seq(Nat) /\ Len(l1) \in Nat /\ l1Finalized \in 1..Len(l1)
      /\ l1Finalized \in Nat /\ l1Finalized \in 0..Len(l1)
      /\ finalized \in Block /\ origin \in L1Block /\ origin \in Seq(Nat) /\ Len(origin) \in Nat
  BY L1BlockFacts DEF Inv, Types
<1>4. /\ origin' = origin /\ finalized' \in Block
      /\ IsPrefix(finalized, finalized') /\ IsPrefix(finalized', safe) /\ Final(finalized')
      /\ need' = TRUE \/ (need' = need /\ finalized' = finalized)
      /\ triedFinalizeAt' \in Nat
  BY FinalizeFacts
<1>5. need' \in BOOLEAN
  BY <1>4 DEF Inv, Types
<1>6. Types'
  BY <1>1, <1>2, <1>3, <1>4, <1>5 DEF Inv, Types
<1>7. \A b : (Final(b)' <=> Final(b)) /\ \A at : Derived(b, at)' <=> Derived(b, at)
  BY <1>2 DEF Final, OnL1, Derived
<1>8. Below'
  BY <1>1, <1>2, <1>4 DEF Below, Final, OnL1
<1>9. Told'
  BY <1>1, <1>3, <1>4, FinalizedTold
<1>10. SafeHead' /\ Queued' /\ Entries'
  BY <1>1, <1>2, <1>4, <1>7 DEF Inv, SafeHead, Queued, Entries, EntryOK, Derived
<1>11. Limits' /\ OnL1Chain'
  BY <1>1, <1>2, <1>4 DEF Inv, Limits, OnL1Chain
<1>12. InTime'
  BY <1>1, <1>2, <1>3 DEF Inv, InTime
<1> QED BY <1>6, <1>8, <1>9, <1>10, <1>11, <1>12 DEF Inv

(* Step without payloads and attributes: the queue moves on to the L1 block of the traversal. *)
LEMMA TrackFacts ==
  ASSUME Inv, TrackOrigin
  PROVE  /\ ~resetting /\ ~need /\ attrs = Nil
         /\ payloads' \subseteq Block /\ IsFiniteSet(payloads') /\ Cardinality(payloads') <= MaxPayloads
         /\ origin' = traversal
         /\ UNCHANGED <<safe, unsafe, building, finalizedL1, engine, l1, l1Finalized, l1Reorgs, events>>
         /\ finalityData' \in Seq(Entry) /\ Len(finalityData') <= FinalityLookback
         /\ \A i \in DOMAIN finalityData' :
              /\ finalityData'[i] \in Entry /\ IsPrefix(finalityData'[i].l2, safe)
              /\ finalityData'[i].l1 = Len(finalityData'[i].hash)
              /\ IsPrefix(finalityData'[i].hash, traversal)
              /\ Final(finalityData'[i].l2) \/ Derived(finalityData'[i].l2, finalityData'[i].hash)
         /\ Final(safe) \/ Derived(safe, traversal)
         /\ finalized' \in Block /\ IsPrefix(finalized, finalized') /\ IsPrefix(finalized', safe)
         /\ Final(finalized')
         /\ need' = TRUE \/ (need' = need /\ finalized' = finalized)
         /\ triedFinalizeAt' \in Nat
<1>1. /\ PastPayloads /\ attrs = Nil /\ origin' = traversal
      /\ finalityData' = PostProcessSafeL2(safe, traversal)
      /\ UNCHANGED <<safe, unsafe, building, finalizedL1, engine, l1vars, events>>
  BY DEF TrackOrigin
<1>2. UNCHANGED <<l1, l1Finalized, l1Reorgs>>
  BY <1>1 DEF l1vars
<1>3. /\ ~resetting /\ ~need
      /\ payloads' \subseteq Block /\ IsFiniteSet(payloads') /\ Cardinality(payloads') <= MaxPayloads
  BY <1>1, PastPayloadsFacts
<1>4. /\ safe \in Block /\ origin \in L1Block /\ traversal \in L1Block /\ l1 \in L1Block
      /\ finalized \in Block /\ l1Finalized \in 1..Len(l1) /\ Len(l1) \in Nat /\ finalizedL1 \in Nat
      /\ l1Finalized \in Nat /\ finalizedL1 <= l1Finalized
      /\ origin \in Seq(Nat) /\ traversal \in Seq(Nat) /\ Len(traversal) \in Nat
      /\ IsPrefix(origin, traversal) /\ triedFinalizeAt \in Nat
  BY L1BlockFacts DEF Inv, Types, OnL1Chain, InTime
<1>5. IsPrefix(traversal, traversal) /\ IsPrefix(safe, safe)
  BY <1>4, BlockFacts, PrefixItself
<1>6. Final(safe) \/ Derived(safe, traversal)
  BY <1>4, DerivedLonger DEF Inv, SafeHead
<1>7. /\ finalityData' \in Seq(Entry) /\ Len(finalityData') <= FinalityLookback
      /\ \A i \in DOMAIN finalityData' :
           \/ finalityData'[i] = [l2 |-> safe, l1 |-> Len(traversal), hash |-> traversal]
           \/ \E j \in DOMAIN finalityData : finalityData'[i] = finalityData[j]
  BY <1>1, <1>4, PostProcessFacts
<1>8. ASSUME NEW i \in DOMAIN finalityData'
      PROVE  /\ finalityData'[i] \in Entry /\ IsPrefix(finalityData'[i].l2, safe)
             /\ finalityData'[i].l1 = Len(finalityData'[i].hash)
             /\ IsPrefix(finalityData'[i].hash, traversal)
             /\ Final(finalityData'[i].l2) \/ Derived(finalityData'[i].l2, finalityData'[i].hash)
  <2>1. finalityData'[i] \in Entry
    BY <1>7
  <2>2. CASE finalityData'[i] = [l2 |-> safe, l1 |-> Len(traversal), hash |-> traversal]
    BY <1>5, <1>6, <2>1, <2>2
  <2>3. ASSUME NEW j \in DOMAIN finalityData, finalityData'[i] = finalityData[j]
        PROVE  /\ IsPrefix(finalityData'[i].l2, safe)
               /\ finalityData'[i].l1 = Len(finalityData'[i].hash)
               /\ IsPrefix(finalityData'[i].hash, traversal)
               /\ Final(finalityData'[i].l2) \/ Derived(finalityData'[i].l2, finalityData'[i].hash)
    <3>1. EntryOK(finalityData[j])
      BY DEF Inv, Entries
    <3>2. finalityData[j].hash \in Seq(Nat)
      BY EntryTypes, L1BlockFacts DEF Inv
    <3>3. IsPrefix(finalityData[j].hash, traversal)
      BY <1>4, <3>1, <3>2, PrefixTrans DEF EntryOK
    <3> QED BY <2>3, <3>1, <3>3 DEF EntryOK
  <2> QED BY <1>7, <2>1, <2>2, <2>3
<1>9. /\ finalized' \in Block /\ IsPrefix(finalized, finalized') /\ IsPrefix(finalized', safe)
      /\ Final(finalized')
      /\ need' = TRUE \/ (need' = need /\ finalized' = finalized)
      /\ triedFinalizeAt' \in Nat
  <2>1. CASE TriesFinalize /\ OnL1(traversal)
    <3>1. TryFinalizeL2(finalityData', finalizedL1)
      BY <2>1 DEF TrackOrigin
    <3>2. ASSUME NEW i \in DOMAIN finalityData'
          PROVE  /\ IsPrefix(finalityData'[i].l2, safe)
                 /\ finalityData'[i].l1 <= finalizedL1 => Final(finalityData'[i].l2)
      <4> DEFINE b == finalityData'[i].l2
                 h == finalityData'[i].hash
      <4>1. b \in Block /\ h \in L1Block
        BY <1>8 DEF Entry
      <4>2. h \in Seq(Nat) /\ Len(h) \in Nat
        BY <4>1, L1BlockFacts
      <4>3. IsPrefix(b, safe) /\ finalityData'[i].l1 = Len(h) /\ IsPrefix(h, traversal) /\ (Final(b) \/ Derived(b, h))
        BY <1>8
      <4> HIDE DEF b, h
      <4>4. ASSUME Len(h) <= finalizedL1, Derived(b, h) PROVE Final(b)
        <5>1. OnL1(h)
          BY <1>4, <2>1, <4>2, <4>3, OnL1Below
        <5>2. Len(h) <= l1Finalized
          BY <1>4, <4>2, <4>4
        <5> QED BY <1>4, <4>1, <4>4, <5>1, <5>2, DerivedIsFinal
      <4> QED BY <4>3, <4>4 DEF b
    <3>3. PICK fd : fd = finalityData'
      OBVIOUS
    <3>4. /\ fd \in Seq(Entry) /\ TryFinalizeL2(fd, finalizedL1)
          /\ \A i \in DOMAIN fd : IsPrefix(fd[i].l2, safe) /\ (fd[i].l1 <= finalizedL1 => Final(fd[i].l2))
      BY <1>7, <3>1, <3>2, <3>3
    <3>5. /\ finalized' \in Block /\ IsPrefix(finalized, finalized') /\ IsPrefix(finalized', safe)
          /\ Final(finalized')
          /\ need' = TRUE \/ (need' = need /\ finalized' = finalized)
          /\ triedFinalizeAt' = Len(origin')
      BY <1>4, <3>4, TryFinalizeFacts
    <3> QED BY <1>1, <1>4, <3>5
  <2>2. CASE ~(TriesFinalize /\ OnL1(traversal))
    <3>1. UNCHANGED <<finalized, need, triedFinalizeAt>>
      BY <2>2 DEF TrackOrigin
    <3>2. IsPrefix(finalized, finalized)
      BY <1>4, BlockFacts, PrefixItself
    <3> QED BY <1>4, <3>1, <3>2 DEF Inv, Below
  <2> QED BY <2>1, <2>2
<1> QED BY <1>1, <1>2, <1>3, <1>6, <1>7, <1>8, <1>9

LEMMA TrackKeepsInv ==
  ASSUME Inv, TrackOrigin, traversal' \in L1Block, IsPrefix(traversal, traversal'), resetting' \in BOOLEAN,
         \/ attrs' = Nil
         \/ \E b \in Block : /\ attrs' = [parent |-> safe, block |-> b]
                             /\ IsPrefix(safe, b) /\ Len(b) = Len(safe) + 1 /\ Derived(b, traversal)
  PROVE  Inv'
<1>1. /\ attrs = Nil
      /\ payloads' \subseteq Block /\ IsFiniteSet(payloads') /\ Cardinality(payloads') <= MaxPayloads
      /\ origin' = traversal
      /\ UNCHANGED <<safe, unsafe, building, finalizedL1, engine, l1, l1Finalized, l1Reorgs, events>>
      /\ finalityData' \in Seq(Entry) /\ Len(finalityData') <= FinalityLookback
      /\ Final(safe) \/ Derived(safe, traversal)
      /\ finalized' \in Block /\ IsPrefix(finalized, finalized') /\ IsPrefix(finalized', safe)
      /\ Final(finalized')
      /\ need' = TRUE \/ (need' = need /\ finalized' = finalized)
      /\ triedFinalizeAt' \in Nat
  BY TrackFacts
<1>2. \A i \in DOMAIN finalityData' :
        /\ finalityData'[i] \in Entry /\ IsPrefix(finalityData'[i].l2, safe)
        /\ finalityData'[i].l1 = Len(finalityData'[i].hash)
        /\ IsPrefix(finalityData'[i].hash, traversal)
        /\ Final(finalityData'[i].l2) \/ Derived(finalityData'[i].l2, finalityData'[i].hash)
  BY TrackFacts
<1>3. Told'
  BY <1>1, FinalizedTold
<1>4. need' \in BOOLEAN /\ origin' \in L1Block
  BY <1>1 DEF Inv, Types
<1>5. safe \in Block
  BY DEF Inv, Types
<1>6. attrs' # Nil => attrs' \in [parent : Block, block : Block]
  BY <1>5
<1>7. Types'
  BY <1>1, <1>4, <1>6 DEF Inv, Types
<1>8. Below' /\ SafeHead'
  BY <1>1 DEF Below, SafeHead, Final, OnL1, Derived
<1>9. Entries'
  BY <1>1, <1>2 DEF Entries, EntryOK, Final, OnL1, Derived
<1>10. Queued'
  BY <1>1, SMTT(30) DEF Queued, Derived
<1>11. Limits' /\ OnL1Chain'
  BY <1>1 DEF Limits, OnL1Chain
<1>12. InTime'
  BY <1>1 DEF Inv, InTime
<1> QED BY <1>3, <1>7, <1>8, <1>9, <1>10, <1>11, <1>12 DEF Inv

LEMMA StepAttributesKeepsInv == Inv /\ StepAttributes => Inv'
<1> SUFFICES ASSUME Inv, StepAttributes PROVE Inv'
  OBVIOUS
<1> DEFINE e == <<traversal[Len(safe) + 1], 1>>
           b == Append(safe, e)
<1>1. /\ TrackOrigin /\ Len(traversal) > Len(safe) + Delay /\ IsPrefix(OriginOf(safe), traversal)
      /\ attrs' = [parent |-> safe, block |-> b]
      /\ UNCHANGED <<traversal, resetting>>
  BY DEF StepAttributes, BatchRead
<1>2. /\ safe \in Block /\ safe \in Seq(Nat \X Nat) /\ Len(safe) \in Nat
      /\ traversal \in L1Block /\ traversal \in Seq(Nat) /\ Len(traversal) \in Nat
      /\ resetting \in BOOLEAN
  BY BlockFacts, L1BlockFacts DEF Inv, Types
<1>3. Len(safe) + 1 \in 1..Len(traversal) /\ Len(safe) + 1 + Delay <= Len(traversal)
  BY <1>1, <1>2
<1>4. traversal[Len(safe) + 1] \in Nat
  BY <1>2, <1>3
<1>5. e \in Nat \X Nat /\ e[1] = traversal[Len(safe) + 1]
  BY <1>4
<1> HIDE DEF e
<1>6. /\ b \in Seq(Nat \X Nat) /\ b # << >> /\ Len(b) = Len(safe) + 1
      /\ IsPrefix(safe, b)
  BY <1>2, <1>5, PrefixAppend
<1>7. \A i \in 1..Len(safe) : b[i] = safe[i]
  BY <1>2, <1>5, AppendProperties
<1>8. b[Len(safe) + 1] = e
  BY <1>2, <1>5, AppendProperties
<1> HIDE DEF b
<1>9. b \in Block
  BY <1>6 DEF Block
<1>10. Derived(b, traversal)
  <2>1. OriginOf(b) \in Seq(Nat) /\ Len(OriginOf(b)) = Len(b) /\ \A i \in 1..Len(b) : OriginOf(b)[i] = b[i][1]
    BY <1>9, OriginFacts, L1BlockFacts
  <2>2. OriginOf(safe) \in Seq(Nat) /\ Len(OriginOf(safe)) = Len(safe)
        /\ \A i \in 1..Len(safe) : OriginOf(safe)[i] = safe[i][1]
    BY <1>2, OriginFacts, L1BlockFacts
  <2>3. \A i \in 1..Len(safe) : OriginOf(safe)[i] = traversal[i]
    BY <1>1, <1>2, <2>2, PrefixDef, SMTT(30)
  <2>4. \A i \in 1..Len(b) : OriginOf(b)[i] = traversal[i]
    <3> SUFFICES ASSUME NEW i \in 1..Len(b) PROVE b[i][1] = traversal[i]
      BY <2>1
    <3>1. i \in 1..Len(safe) \/ i = Len(safe) + 1
      BY <1>2, <1>6
    <3>2. CASE i \in 1..Len(safe)
      BY <1>7, <2>2, <2>3, <3>2
    <3>3. CASE i = Len(safe) + 1
      BY <1>5, <1>8, <3>3
    <3> QED BY <3>1, <3>2, <3>3
  <2>5. Len(OriginOf(b)) <= Len(traversal)
    BY <1>2, <1>3, <1>6, <2>1
  <2>6. IsPrefix(OriginOf(b), traversal)
    BY <1>2, <2>1, <2>4, <2>5, PrefixDef
  <2> QED BY <1>3, <1>6, <2>6 DEF Derived
<1>11. IsPrefix(traversal, traversal')
  BY <1>1, <1>2, PrefixItself
<1> QED BY <1>1, <1>2, <1>6, <1>9, <1>10, <1>11, TrackKeepsInv

LEMMA TraverseKeepsInv == Inv /\ (StepAdvance \/ StepConflict) => Inv'
<1> SUFFICES ASSUME Inv, StepAdvance \/ StepConflict PROVE Inv'
  OBVIOUS
<1>1. TrackOrigin /\ attrs' = attrs
  BY DEF StepAdvance, StepConflict
<1>2. attrs' = Nil
  BY <1>1, TrackFacts
<1>3. /\ traversal \in L1Block /\ traversal \in Seq(Nat) /\ Len(traversal) \in Nat /\ resetting \in BOOLEAN
      /\ l1 \in L1Block /\ l1 \in Seq(Nat) /\ Len(l1) \in Nat
  BY L1BlockFacts DEF Inv, Types
<1>4. \/ traversal' = traversal /\ resetting' \in BOOLEAN
      \/ /\ OnL1(traversal) /\ Len(l1) > Len(traversal)
         /\ traversal' = SubSeq(l1, 1, Len(traversal) + 1) /\ resetting' = resetting
  <2>1. CASE StepConflict
    BY <2>1 DEF StepConflict
  <2>2. CASE StepAdvance
    <3>1. CASE Len(l1) <= Len(traversal)
      BY <1>3, <2>2, <3>1 DEF StepAdvance
    <3>2. CASE ~(Len(l1) <= Len(traversal)) /\ ~OnL1(traversal)
      BY <2>2, <3>2 DEF StepAdvance
    <3>3. CASE ~(Len(l1) <= Len(traversal)) /\ OnL1(traversal)
      <4>1. Len(l1) > Len(traversal)
        BY <1>3, <3>3
      <4> QED BY <2>2, <3>3, <4>1 DEF StepAdvance
    <3> QED BY <3>1, <3>2, <3>3
  <2> QED BY <2>1, <2>2
<1>5. CASE traversal' = traversal /\ resetting' \in BOOLEAN
  <2>1. IsPrefix(traversal, traversal')
    BY <1>3, <1>5, PrefixItself
  <2> QED BY <1>1, <1>2, <1>3, <1>5, <2>1, TrackKeepsInv
<1>6. CASE /\ OnL1(traversal) /\ Len(l1) > Len(traversal)
           /\ traversal' = SubSeq(l1, 1, Len(traversal) + 1) /\ resetting' = resetting
  <2>1. Len(traversal) + 1 \in 0..Len(l1)
    BY <1>3, <1>6
  <2>2. traversal' \in Seq(Nat) /\ Len(traversal') = Len(traversal) + 1 /\ IsPrefix(traversal', l1)
    BY <1>3, <1>6, <2>1, PrefixOf
  <2>3. traversal' # << >>
    BY <1>3, <2>2, EmptySeq
  <2>4. traversal' \in L1Block
    BY <2>2, <2>3 DEF L1Block
  <2>5. IsPrefix(traversal, l1)
    BY <1>3, <1>6, OnL1IsPrefix
  <2>6. Len(traversal) <= Len(traversal')
    BY <1>3, <2>2
  <2>7. IsPrefix(traversal, traversal')
    BY <1>3, <2>2, <2>5, <2>6, PrefixesCompare
  <2> QED BY <1>1, <1>2, <1>3, <1>6, <2>4, <2>7, TrackKeepsInv
<1> QED BY <1>4, <1>5, <1>6

-----------------------------------------------------------------------------
(* Reset. *)

(* The n-th ancestor on the engine's chain, and its origin. *)
LEMMA Ancestor ==
  ASSUME NEW b \in Block, NEW n \in 1..Len(b)
  PROVE  /\ SubSeq(b, 1, n) \in Block /\ Len(SubSeq(b, 1, n)) = n /\ IsPrefix(SubSeq(b, 1, n), b)
         /\ OriginOf(SubSeq(b, 1, n)) = SubSeq(OriginOf(b), 1, n)
<1>1. b \in Seq(Nat \X Nat) /\ Len(b) \in Nat /\ n \in 0..Len(b)
  BY BlockFacts
<1> DEFINE a == SubSeq(b, 1, n)
           o == SubSeq(OriginOf(b), 1, n)
<1>2. a \in Seq(Nat \X Nat) /\ Len(a) = n /\ (\A i \in 1..n : a[i] = b[i]) /\ IsPrefix(a, b)
  BY <1>1, PrefixOf
<1>3. OriginOf(b) \in Seq(Nat) /\ Len(OriginOf(b)) = Len(b) /\ \A i \in 1..Len(b) : OriginOf(b)[i] = b[i][1]
  BY OriginFacts, L1BlockFacts
<1>4. o \in Seq(Nat) /\ Len(o) = n /\ \A i \in 1..n : o[i] = OriginOf(b)[i]
  BY <1>1, <1>3, PrefixOf, SMTT(30)
<1> HIDE DEF a, o
<1>5. a # << >>
  BY <1>2, EmptySeq
<1>6. a \in Block
  BY <1>2, <1>5 DEF Block
<1>7. OriginOf(a) \in Seq(Nat) /\ Len(OriginOf(a)) = n /\ \A i \in 1..n : OriginOf(a)[i] = a[i][1]
  BY <1>2, <1>6, OriginFacts, L1BlockFacts
<1>8. \A i \in 1..n : OriginOf(a)[i] = o[i]
  <2>1. \A i \in 1..n : i \in 1..Len(b)
    BY <1>1
  <2> SUFFICES ASSUME NEW i \in 1..n PROVE OriginOf(a)[i] = o[i]
    OBVIOUS
  <2>2. OriginOf(a)[i] = b[i][1]
    BY <1>2, <1>7
  <2>3. o[i] = b[i][1]
    BY <1>3, <1>4, <2>1
  <2> QED BY <2>2, <2>3
<1>9. OriginOf(a) = o
  BY <1>4, <1>7, <1>8, SeqEqual
<1> QED BY <1>2, <1>6, <1>9 DEF a, o

(* The engine's finalized block is on L1, so that the walk back finds a canonical block above it. *)
LEMMA HighestCanonicalFacts ==
  ASSUME Inv
  PROVE  /\ HighestCanonical \in 1..Len(engine.head) /\ Len(engine.finalized) <= HighestCanonical
         /\ OnL1(OriginOf(SubSeq(engine.head, 1, HighestCanonical)))
<1> DEFINE head == engine.head
           fin == engine.finalized
           k == Len(fin)
           S == {n \in DOMAIN head : Canonical(n)}
<1>1. /\ head \in Block /\ fin \in Block /\ engine.safe \in Block /\ finalized \in Block
      /\ l1 \in L1Block /\ l1Finalized \in Nat
  BY L1BlockFacts DEF Inv, Types
<1>2. /\ head \in Seq(Nat \X Nat) /\ Len(head) \in Nat /\ DOMAIN head = 1..Len(head)
      /\ fin \in Seq(Nat \X Nat) /\ k \in Nat \ {0} /\ engine.safe \in Seq(Nat \X Nat)
  BY <1>1, BlockFacts
<1>3. IsPrefix(fin, head)
  BY <1>2, PrefixTrans DEF Inv, Told, Consistent
<1>4. k <= Len(head) /\ \A i \in 1..k : fin[i] = head[i]
  <2> HIDE DEF head, fin
  <2> QED BY <1>2, <1>3, PrefixDef, SMTT(30)
<1>5. Final(fin)
  BY <1>1, FinalBelow DEF Inv, Told, Below
<1>6. fin = SubSeq(head, 1, k)
  <2>1. k \in 0..Len(head)
    BY <1>2, <1>4
  <2>2. SubSeq(head, 1, k) \in Seq(Nat \X Nat) /\ Len(SubSeq(head, 1, k)) = k
        /\ \A i \in 1..k : SubSeq(head, 1, k)[i] = head[i]
    <3> HIDE DEF head, fin, k
    <3> QED BY <1>2, <2>1, PrefixOf, Zenon
  <2>3. \A i \in 1..k : fin[i] = SubSeq(head, 1, k)[i]
    BY <1>4, <2>2
  <2> QED BY <1>2, <2>2, <2>3, SeqEqual
<1>7. \A n \in 1..Len(head) : Canonical(n) <=> OnL1(OriginOf(SubSeq(head, 1, n)))
  BY <1>1, Ancestor DEF Canonical
<1>8. k \in S
  <2>1. k \in 1..Len(head)
    BY <1>2, <1>4
  <2> QED BY <1>2, <1>5, <1>6, <1>7, <2>1 DEF Final
<1>9. \E n \in S : \A m \in S : m <= n
  <2>1. S \in SUBSET Nat /\ \A x \in S : x <= Len(head)
    BY <1>2
  <2> HIDE DEF S
  <2> QED BY <1>2, <1>8, <2>1, Largest
<1>10. PICK n \in S : \A m \in S : m <= n
  BY <1>9
<1>11. n \in DOMAIN head /\ Canonical(n) /\ \A m \in DOMAIN head : Canonical(m) => m <= n
  BY <1>10
<1>12. /\ HighestCanonical \in DOMAIN head /\ Canonical(HighestCanonical)
       /\ \A m \in DOMAIN head : Canonical(m) => m <= HighestCanonical
  BY <1>11 DEF HighestCanonical
<1> HIDE DEF k
<1>13. k <= HighestCanonical
  BY <1>8, <1>12
<1> QED BY <1>2, <1>7, <1>12, <1>13 DEF k

(* A reset's heads are one chain, on top of the engine's finalized block, and its safe head is     *)
(* derived from final L1 blocks.                                                                 *)
LEMMA ResetFacts ==
  ASSUME Inv, FinalityInTime
  PROVE  /\ ResetSafe \in Block /\ ResetUnsafe \in Block
         /\ IsPrefix(engine.finalized, ResetSafe) /\ IsPrefix(ResetSafe, ResetUnsafe)
         /\ Final(ResetSafe)
<1> DEFINE head == engine.head
           fin == engine.finalized
           H == HighestCanonical
           top == SubSeq(head, 1, H)
<1>1. /\ head \in Block /\ fin \in Block /\ engine.safe \in Block /\ finalized \in Block
      /\ l1 \in L1Block /\ l1 \in Seq(Nat) /\ Len(l1) \in Nat
      /\ l1Finalized \in Nat /\ Len(l1) - l1Finalized <= MaxFinalityLag
  BY L1BlockFacts DEF Inv, Types, InTime
<1>2. /\ head \in Seq(Nat \X Nat) /\ Len(head) \in Nat /\ fin \in Seq(Nat \X Nat) /\ Len(fin) \in Nat \ {0}
      /\ engine.safe \in Seq(Nat \X Nat) /\ Len(engine.safe) \in Nat /\ DOMAIN engine.safe = 1..Len(engine.safe)
  BY <1>1, BlockFacts
<1>3. /\ IsPrefix(fin, engine.safe) /\ IsPrefix(engine.safe, head)
  BY DEF Inv, Told, Consistent
<1>4. IsPrefix(fin, head) /\ Len(fin) <= Len(head) /\ Len(engine.safe) <= Len(head)
  BY <1>2, <1>3, PrefixTrans, PrefixDef
<1>5. H \in 1..Len(head) /\ Len(fin) <= H /\ OnL1(OriginOf(top))
  BY HighestCanonicalFacts
<1> HIDE DEF H
<1>6. top \in Block /\ Len(top) = H /\ IsPrefix(top, head)
  BY <1>1, <1>5, Ancestor
<1> HIDE DEF top
<1>7. top \in Seq(Nat \X Nat)
  BY <1>6, BlockFacts
<1>8. H <= Len(l1)
  <2>1. Len(OriginOf(top)) = H
    BY <1>6, OriginFacts
  <2> QED BY <1>5, <2>1 DEF OnL1
<1>9. Final(fin)
  BY <1>1, FinalBelow DEF Inv, Told, Below
<1>10. /\ ResetSafe \in Block /\ IsPrefix(fin, ResetSafe) /\ IsPrefix(ResetSafe, head)
       /\ Len(ResetSafe) <= H /\ Final(ResetSafe)
  <2> DEFINE found == {n \in DOMAIN engine.safe : n + SeqWindowSize < H /\ n > Len(fin)}
             m == CHOOSE n \in found : \A j \in found : j <= n
             r == SubSeq(head, 1, m - 1)
  <2>1. ResetSafe = IF found = {} THEN fin ELSE r
    BY DEF ResetSafe, H
  <2>2. CASE found = {}
    <3>1. IsPrefix(fin, fin)
      BY <1>2, PrefixItself
    <3> QED BY <1>1, <1>4, <1>5, <1>9, <2>1, <2>2, <3>1
  <2>3. CASE found # {}
    <3>1. m \in found
      <4>1. found \in SUBSET Nat /\ \A x \in found : x <= Len(engine.safe)
        BY <1>2
      <4> HIDE DEF found
      <4>2. \E n \in found : \A j \in found : j <= n
        BY <1>2, <2>3, <4>1, Largest
      <4> QED BY <4>2
    <3>2. m \in 1..Len(engine.safe) /\ m + SeqWindowSize < H /\ m > Len(fin)
      BY <1>2, <3>1
    <3> HIDE DEF m
    <3>3. m - 1 \in 1..Len(head) /\ Len(fin) <= m - 1 /\ m - 1 <= H
      <4>1. m \in Nat /\ m <= Len(engine.safe) /\ H \in Nat /\ SeqWindowSize \in Nat
        BY <1>2, <1>5, <3>2
      <4>2. m - 1 <= H /\ Len(fin) <= m - 1
        BY <1>2, <3>2, <4>1
      <4>3. 1 <= m - 1 /\ m - 1 \in Int
        BY <1>2, <4>1, <4>2
      <4>4. Len(engine.safe) <= Len(head) /\ Len(head) \in Nat /\ Len(engine.safe) \in Nat
        BY <1>2, <1>4
      <4>5. m - 1 <= Len(head)
        <5> HIDE DEF head
        <5> QED BY <4>1, <4>4
      <4> QED BY <1>2, <4>2, <4>3, <4>5
    <3>4. r \in Block /\ Len(r) = m - 1 /\ IsPrefix(r, head)
      BY <1>1, <3>3, Ancestor
    <3> HIDE DEF r
    <3>5. r \in Seq(Nat \X Nat)
      BY <3>4, BlockFacts
    <3>6. IsPrefix(fin, r)
      BY <1>2, <1>4, <3>3, <3>4, <3>5, PrefixesCompare
    <3>7. IsPrefix(r, top)
      <4>1. Len(r) <= Len(top)
        BY <1>6, <3>3, <3>4
      <4> QED BY <1>2, <1>6, <1>7, <3>4, <3>5, <4>1, PrefixesCompare
    <3>8. OnL1(OriginOf(r))
      <4>1. OriginOf(r) \in Seq(Nat) /\ OriginOf(top) \in Seq(Nat)
        BY <1>6, <3>4, OriginFacts, L1BlockFacts
      <4>2. IsPrefix(OriginOf(r), OriginOf(top))
        BY <1>6, <3>4, <3>7, OriginPrefix
      <4> QED BY <1>1, <1>5, <4>1, <4>2, OnL1Below
    <3>9. m - 1 + Delay <= l1Finalized
      BY <1>1, <1>5, <1>8, <3>2 DEF FinalityInTime
    <3>10. Final(r)
      BY <1>1, <3>3, <3>4, <3>8, <3>9 DEF Final
    <3> QED BY <2>1, <2>3, <3>3, <3>4, <3>6, <3>10
  <2> QED BY <2>2, <2>3
<1>11. ResetUnsafe \in {head, top}
  BY DEF ResetUnsafe, top, H
<1>12. IsPrefix(ResetSafe, top)
  <2>1. ResetSafe \in Seq(Nat \X Nat)
    BY <1>10, BlockFacts
  <2> QED BY <1>2, <1>6, <1>7, <1>10, <2>1, PrefixesCompare
<1> QED BY <1>1, <1>6, <1>10, <1>11, <1>12

LEMMA ResetKeepsInv ==
  ASSUME FinalityInTime, Inv, Reset
  PROVE  Inv'
<1>1. /\ unsafe' = ResetUnsafe /\ safe' = ResetSafe /\ finalized' = engine.finalized /\ need' = TRUE
      /\ attrs' = Nil /\ building' = Nil /\ finalityData' = << >>
      /\ origin' = ResetOrigin(safe') /\ traversal' = origin' /\ resetting' = FALSE
      /\ UNCHANGED <<payloads, finalizedL1, triedFinalizeAt, engine, l1vars, events>>
  BY DEF Reset
<1>2. UNCHANGED <<l1, l1Finalized, l1Reorgs>>
  BY <1>1 DEF l1vars
<1>3. /\ safe' \in Block /\ unsafe' \in Block /\ IsPrefix(finalized', safe') /\ Final(safe')
  BY <1>1, ResetFacts
<1>4. finalized' \in Block /\ finalized \in Block /\ l1 \in L1Block /\ l1Finalized \in Nat
  BY <1>1, L1BlockFacts DEF Inv, Types
<1>5. origin' \in L1Block
  <2> DEFINE o == OriginOf(safe')
             k == IF Len(safe') > ChannelTimeout THEN Len(safe') - ChannelTimeout ELSE 1
  <2>1. o \in Seq(Nat) /\ Len(o) = Len(safe') /\ Len(safe') \in Nat \ {0}
    BY <1>3, OriginFacts, L1BlockFacts, BlockFacts
  <2>2. origin' = SubSeq(o, 1, k)
    BY <1>1 DEF ResetOrigin
  <2> HIDE DEF o
  <2>3. k \in 1..Len(o) /\ k \in 0..Len(o)
    BY <2>1
  <2> HIDE DEF k
  <2>4. SubSeq(o, 1, k) \in Seq(Nat) /\ Len(SubSeq(o, 1, k)) = k
    BY <2>1, <2>3, PrefixOf
  <2>5. SubSeq(o, 1, k) # << >>
    BY <2>3, <2>4, EmptySeq
  <2> QED BY <2>2, <2>4, <2>5 DEF L1Block
<1>6. finalityData' \in Seq(Entry) /\ Len(finalityData') = 0 /\ DOMAIN finalityData' = {}
  BY <1>1, EmptySeq
<1>7. Types'
  BY <1>1, <1>2, <1>3, <1>4, <1>5, <1>6 DEF Inv, Types
<1>8. Told'
  <2>1. IsPrefix(finalized', finalized')
    BY <1>4, BlockFacts, PrefixItself
  <2> QED BY <1>1, <2>1 DEF Inv, Told, Consistent
<1>9. Below' /\ SafeHead'
  <2>1. Final(finalized')
    BY <1>3, <1>4, FinalBelow
  <2> QED BY <1>2, <1>3, <2>1 DEF Below, SafeHead, Final, OnL1
<1>10. Queued' /\ Entries'
  BY <1>1, <1>6 DEF Queued, Entries
<1>11. Limits'
  BY <1>1, <1>6 DEF Inv, Limits
<1>12. OnL1Chain'
  BY <1>1, <1>5, L1BlockFacts, PrefixItself DEF OnL1Chain
<1>13. InTime'
  BY <1>1, <1>2 DEF Inv, InTime
<1> QED BY <1>7, <1>8, <1>9, <1>10, <1>11, <1>12, <1>13 DEF Inv

-----------------------------------------------------------------------------
(* The theorems. *)

LEMMA InitInv == Init => Inv
<1> SUFFICES ASSUME Init PROVE Inv
  OBVIOUS
<1> USE DEF Init
<1>1. Genesis \in Block /\ Len(Genesis) = 1
  BY DEF Genesis, Block
<1>2. <<1>> \in L1Block /\ Len(<<1>>) = 1
  BY DEF L1Block
<1>3. IsPrefix(Genesis, Genesis) /\ IsPrefix(<<1>>, <<1>>)
  BY <1>1, <1>2, BlockFacts, L1BlockFacts, PrefixItself
<1>4. << >> \in Seq(Entry) /\ Len(<< >>) = 0 /\ DOMAIN << >> = {}
  BY EmptySeq
<1>5. IsFiniteSet({}) /\ Cardinality({}) = 0
  BY FS_EmptySet
<1>6. engine \in [head : Block, safe : Block, finalized : Block]
  BY <1>1
<1>7. Types
  <2>1. finalized \in Block /\ safe \in Block /\ unsafe \in Block /\ need \in BOOLEAN /\ resetting \in BOOLEAN
    BY <1>1
  <2>2. payloads \subseteq Block /\ IsFiniteSet(payloads) /\ attrs = Nil /\ building = Nil
    BY <1>5
  <2>3. finalityData \in Seq(Entry)
    BY <1>4
  <2>4. origin \in L1Block /\ traversal \in L1Block /\ l1 \in L1Block /\ l1Finalized \in 1..Len(l1)
    BY <1>2
  <2>5. finalizedL1 \in Nat /\ triedFinalizeAt \in Nat /\ l1Reorgs \in Nat /\ events \in Nat
    OBVIOUS
  <2> QED BY <1>6, <2>1, <2>2, <2>3, <2>4, <2>5 DEF Types
<1>8. Told
  BY <1>3 DEF Told, Consistent
<1>9. Final(Genesis)
  <2>1. OriginOf(Genesis) = <<1>>
    BY DEF OriginOf, Genesis
  <2>2. OnL1(<<1>>)
    BY <1>2, <1>3, L1BlockFacts, OnL1IsPrefix
  <2> QED BY <1>1, <2>1, <2>2 DEF Final
<1>10. Below /\ SafeHead
  BY <1>3, <1>9 DEF Below, SafeHead
<1>11. Queued /\ Entries /\ Limits /\ OnL1Chain
  BY <1>3, <1>4, <1>5 DEF Queued, Entries, Limits, OnL1Chain
<1>12. InTime
  BY <1>2 DEF InTime
<1> QED BY <1>7, <1>8, <1>10, <1>11, <1>12 DEF Inv

LEMMA NextKeepsInv ==
  ASSUME FinalityInTime, Inv, [Next]_vars
  PROVE  Inv'
<1>1. CASE Step
  <2>1. CASE StepForkchoice
    BY <2>1, StepForkchoiceKeepsInv
  <2>2. CASE StepUnsafe
    BY <2>2, StepUnsafeKeepsInv
  <2>3. CASE StepConsolidate
    BY <2>3, StepConsolidateKeepsInv
  <2>4. CASE StepConsolidateNotFound \/ StepOriginConflict
    BY <2>4, ResettingKeepsInv
  <2>5. CASE StepForce
    BY <2>5, StepForceKeepsInv
  <2>6. CASE StepForceFails \/ StepForceReset
    BY <2>6, StepForceFailsKeepsInv
  <2>7. CASE StepForceInvalid
    BY <2>7, StepForceInvalidKeepsInv
  <2>8. CASE StepAttributes
    BY <2>8, StepAttributesKeepsInv
  <2>9. CASE StepAdvance \/ StepConflict
    BY <2>9, TraverseKeepsInv
  <2>10. CASE Reset
    BY <2>10, ResetKeepsInv
  <2> QED BY <1>1, <2>1, <2>2, <2>3, <2>4, <2>5, <2>6, <2>7, <2>8, <2>9, <2>10 DEF Step
<1>2. CASE Finalize
  BY <1>2, FinalizeKeepsInv
<1>3. CASE AddUnsafePayload
  BY <1>3, AddUnsafePayloadKeepsInv
<1>4. CASE StartPayload
  BY <1>4, StartPayloadKeepsInv
<1>5. CASE ConfirmPayload
  BY <1>5, ConfirmPayloadKeepsInv
<1>6. CASE L1Grow \/ L1Finalize \/ L1Reorg
  BY <1>6, L1ActionsKeepInv
<1>7. CASE UNCHANGED vars
  <2>1. UNCHANGED <<heads, work, finality, progress, engine, l1vars, events>>
    BY <1>7 DEF vars
  <2>2. UNCHANGED <<l1, l1Finalized, l1Reorgs>>
    BY <2>1 DEF l1vars
  <2>3. l1 \in L1Block /\ l1Finalized \in 1..Len(l1) /\ l1Reorgs \in Nat /\ Len(l1) - l1Finalized <= MaxFinalityLag
        /\ Len(l1) \in Nat
    BY L1BlockFacts DEF Inv, Types, InTime
  <2>4. l1Finalized <= Len(l1) /\ l1Finalized <= l1Finalized
    BY <2>3
  <2> QED BY <2>1, <2>2, <2>3, <2>4, L1KeepsInv
<1> QED BY <1>1, <1>2, <1>3, <1>4, <1>5, <1>6, <1>7 DEF Next

(* Through every step of Step, Finalize, Reset and the engine's answers, the safe head and the    *)
(* finality data stay derived from the L1 blocks they are recorded with.                         *)
THEOREM Invariance ==
  ASSUME FinalityInTime
  PROVE  Spec => []Inv
<1>1. Init => Inv
  BY InitInv
<1>2. Inv /\ [Next]_vars => Inv'
  BY NextKeepsInv
<1> QED BY <1>1, <1>2, PTL DEF Spec

(* The engine is only ever given heads of one chain, finality data and queued payloads stay within *)
(* their limits, and the attributes in the queue are for the child of the safe head.             *)
THEOREM TypeCorrectness ==
  ASSUME FinalityInTime
  PROVE  Spec => []TypeOK
<1>1. Inv => TypeOK
  BY DEF Inv, Types, Told, Queued, Limits, TypeOK
<1> QED BY <1>1, Invariance, PTL

(* No L2 block is finalized before the L1 block with its batch is, nor on another fork of L1,     *)
(* through resets, reorganisations of L1 and engine calls that fail.                             *)
THEOREM FinalizedFromFinalL1 ==
  ASSUME FinalityInTime
  PROVE  Spec => []FinalizedIsDerived
<1>1. Inv => FinalizedIsDerived
  BY DEF Inv, Below, Final, FinalizedIsDerived
<1> QED BY <1>1, Invariance, PTL

-----------------------------------------------------------------------------
(* The engine queue implements EngineHeads. *)

LEMMA DescendsDef == \A a, b : Promised!Descends(b, a) <=> IsPrefix(a, b)
BY DEF Promised!Descends, Promised!IsPrefix, IsPrefix

LEMMA InitRefines == Init => Promised!Init
BY DEF Init, Promised!Init

LEMMA Stutters ==
  ASSUME UNCHANGED <<finalized, safe, unsafe, need, resetting>>
  PROVE  UNCHANGED Promised!vars
BY DEF Promised!vars

LEMMA HeadsStepsRefine ==
  ASSUME Inv, StepForkchoice \/ StepUnsafe \/ ConfirmPayload
  PROVE  [Promised!Next]_(Promised!vars)
<1>0. finalized \in Block /\ safe \in Block /\ unsafe \in Block
  BY DEF Inv, Types
<1>1. CASE StepForkchoice
  <2>1. UNCHANGED <<finalized, safe, unsafe>>
    BY <1>1 DEF StepForkchoice
  <2>2. CASE Taken(Heads(unsafe, safe, finalized)) /\ need' = FALSE /\ UNCHANGED <<resetting, events>>
    <3>1. IsPrefix(finalized, safe) /\ IsPrefix(safe, unsafe)
      BY <1>0, <2>2, HeadsFacts DEF Taken, Consistent
    <3>2. Promised!Settle
      BY <2>1, <2>2, <3>1, DescendsDef DEF Promised!Settle
    <3> QED BY <3>2 DEF Promised!Next
  <2>3. CASE UNCHANGED <<need, resetting>>
    BY <2>1, <2>3, Stutters
  <2>4. CASE resetting' = TRUE /\ UNCHANGED need
    <3>1. Promised!Break
      BY <2>1, <2>4 DEF Promised!Break
    <3> QED BY <3>1 DEF Promised!Next
  <2> QED BY <1>1, <2>2, <2>3, <2>4 DEF StepForkchoice
<1>2. ASSUME NEW p \in Block, unsafe' = p, Taken(Heads(p, safe, finalized)), ~resetting,
             UNCHANGED <<finalized, safe, need, resetting>>
      PROVE  Promised!Next
  <2>1. IsPrefix(safe, p)
    BY <1>0, <1>2, HeadsFacts DEF Taken, Consistent
  <2>2. Promised!MoveUnsafe
    BY <1>2, <2>1, DescendsDef DEF Promised!MoveUnsafe
  <2> QED BY <2>2 DEF Promised!Next
<1>3. CASE StepUnsafe
  <2>1. ~resetting /\ UNCHANGED <<finalized, safe, need, resetting>>
    BY <1>3 DEF StepUnsafe, progress
  <2>2. CASE UNCHANGED unsafe
    BY <2>1, <2>2, Stutters
  <2>3. ASSUME NEW p \in Lowest, Taken(Heads(p, safe, finalized)), unsafe' = p
        PROVE  Promised!Next
    <3>1. p \in Block
      BY DEF Lowest, Inv, Types
    <3> QED BY <1>2, <2>1, <2>3, <3>1
  <2> QED BY <1>3, <2>2, <2>3 DEF StepUnsafe
<1>4. CASE ConfirmPayload
  <2>1. ~resetting /\ building # Nil /\ UNCHANGED <<finalized, safe, need, resetting>>
    BY <1>4 DEF ConfirmPayload, progress
  <2>2. CASE UNCHANGED unsafe
    BY <2>1, <2>2, Stutters
  <2>3. CASE Taken(Heads(building.block, safe, finalized)) /\ unsafe' = building.block
    <3>1. building.block \in Block
      BY <2>1 DEF Inv, Types
    <3> QED BY <1>2, <2>1, <2>3, <3>1
  <2> QED BY <1>4, <2>2, <2>3 DEF ConfirmPayload
<1> QED BY <1>1, <1>3, <1>4

LEMMA SafeStepsRefine ==
  ASSUME Inv, StepConsolidate \/ StepForce
  PROVE  Promised!Next
<1>1. PastPayloads /\ attrs # Nil /\ safe' = attrs.block /\ UNCHANGED <<finalized, resetting>>
  BY DEF StepConsolidate, StepForce, Forces, progress
<1>2. ~resetting /\ ~need
  BY <1>1, PastPayloadsFacts
<1>3. IsPrefix(safe, safe') /\ Len(safe') = Len(safe) + 1
  BY <1>1, AttrsFacts
<1>4. CASE StepConsolidate
  <2>1. need' = TRUE /\ UNCHANGED unsafe /\ Len(safe) < Len(unsafe)
    BY <1>4 DEF StepConsolidate
  <2>2. Len(safe') <= Len(unsafe)
    <3>1. Len(safe) \in Nat /\ Len(unsafe) \in Nat
      BY BlockFacts DEF Inv, Types
    <3> QED BY <1>3, <2>1, <3>1
  <2>3. Promised!AdvanceSafe
    BY <1>1, <1>2, <1>3, <2>1, <2>2, DescendsDef DEF Promised!AdvanceSafe, Promised!Child
  <2> QED BY <2>3 DEF Promised!Next
<1>5. CASE StepForce
  <2>1. unsafe' = safe' /\ need' = need
    BY <1>5 DEF StepForce
  <2>2. Promised!AdvanceSafe
    BY <1>1, <1>2, <1>3, <2>1, DescendsDef DEF Promised!AdvanceSafe, Promised!Child
  <2> QED BY <2>2 DEF Promised!Next
<1> QED BY <1>4, <1>5

LEMMA TrackStepsRefine ==
  ASSUME Inv, StepAttributes \/ StepAdvance \/ StepConflict
  PROVE  [Promised!Next]_(Promised!vars)
<1>1. TrackOrigin
  BY DEF StepAttributes, StepAdvance, StepConflict
<1>2. /\ ~resetting /\ ~need /\ UNCHANGED <<safe, unsafe>>
      /\ IsPrefix(finalized, finalized') /\ IsPrefix(finalized', safe)
      /\ need' = TRUE \/ (need' = need /\ finalized' = finalized)
  BY <1>1, TrackFacts
<1>3. resetting' = resetting \/ resetting' = TRUE
  BY DEF StepAttributes, StepAdvance, StepConflict
<1>4. CASE need' = TRUE
  <2>1. Promised!AdvanceFinalized
    BY <1>2, <1>3, <1>4, DescendsDef DEF Promised!AdvanceFinalized
  <2> QED BY <2>1 DEF Promised!Next
<1>5. CASE need' = need /\ finalized' = finalized /\ resetting' = resetting
  BY <1>2, <1>5, Stutters
<1>6. CASE need' = need /\ finalized' = finalized /\ resetting' = TRUE
  <2>1. Promised!Break
    BY <1>2, <1>6 DEF Promised!Break
  <2> QED BY <2>1 DEF Promised!Next
<1> QED BY <1>2, <1>3, <1>4, <1>5, <1>6

LEMMA ResetRefines ==
  ASSUME FinalityInTime, Inv, Reset
  PROVE  Promised!Next
<1>1. /\ resetting /\ unsafe' = ResetUnsafe /\ safe' = ResetSafe /\ finalized' = engine.finalized
      /\ need' = TRUE /\ resetting' = FALSE
  BY DEF Reset
<1>2. IsPrefix(safe', unsafe') /\ IsPrefix(finalized', safe')
  BY <1>1, ResetFacts
<1>3. IsPrefix(finalized', finalized) /\ (~need => finalized' = finalized)
  BY <1>1 DEF Inv, Told
<1>4. Promised!Reset
  BY <1>1, <1>2, <1>3, DescendsDef DEF Promised!Reset
<1> QED BY <1>4 DEF Promised!Next

LEMMA FinalizeRefines ==
  ASSUME Inv, Finalize
  PROVE  [Promised!Next]_(Promised!vars)
<1>1. UNCHANGED <<safe, unsafe, resetting>>
  BY DEF Finalize
<1>2. /\ IsPrefix(finalized, finalized') /\ IsPrefix(finalized', safe)
      /\ need' = TRUE \/ (need' = need /\ finalized' = finalized)
  BY FinalizeFacts
<1>3. CASE need' = TRUE
  <2>1. Promised!AdvanceFinalized
    BY <1>1, <1>2, <1>3, DescendsDef DEF Promised!AdvanceFinalized
  <2> QED BY <2>1 DEF Promised!Next
<1>4. CASE need' = need /\ finalized' = finalized
  BY <1>1, <1>4, Stutters
<1> QED BY <1>2, <1>3, <1>4

LEMMA NextRefines ==
  ASSUME FinalityInTime, Inv, [Next]_vars
  PROVE  [Promised!Next]_(Promised!vars)
<1>1. CASE StepForkchoice \/ StepUnsafe \/ ConfirmPayload
  BY <1>1, HeadsStepsRefine
<1>2. CASE StepConsolidate \/ StepForce
  BY <1>2, SafeStepsRefine
<1>3. CASE StepAttributes \/ StepAdvance \/ StepConflict
  BY <1>3, TrackStepsRefine
<1>4. CASE StepConsolidateNotFound \/ StepOriginConflict \/ StepForceReset
  <2>1. resetting' = TRUE /\ UNCHANGED <<finalized, safe, unsafe, need>>
    BY <1>4 DEF StepConsolidateNotFound, StepOriginConflict, StepForceReset, heads
  <2>2. Promised!Break
    BY <2>1 DEF Promised!Break
  <2> QED BY <2>2 DEF Promised!Next
<1>5. CASE StepForceFails \/ StepForceInvalid \/ AddUnsafePayload \/ StartPayload
  <2>1. UNCHANGED <<heads, progress>>
    BY <1>5 DEF StepForceFails, StepForceInvalid, AddUnsafePayload, StartPayload
  <2>2. UNCHANGED <<finalized, safe, unsafe, need, resetting>>
    BY <2>1 DEF heads, progress
  <2> QED BY <2>2, Stutters
<1>6. CASE L1Grow \/ L1Finalize \/ L1Reorg \/ UNCHANGED vars
  <2>1. UNCHANGED <<heads, progress>>
    BY <1>6 DEF L1Grow, L1Finalize, L1Reorg, vars
  <2>2. UNCHANGED <<finalized, safe, unsafe, need, resetting>>
    BY <2>1 DEF heads, progress
  <2> QED BY <2>2, Stutters
<1>7. CASE Reset
  BY <1>7, ResetRefines
<1>8. CASE Finalize
  BY <1>8, FinalizeRefines
<1> QED BY <1>1, <1>2, <1>3, <1>4, <1>5, <1>6, <1>7, <1>8 DEF Next, Step

(* The heads are what EngineHeads promises: finalized, safe and unsafe are moved forward one chain *)
(* by one block of it at a time, a reset gives up no finalized block the engine knows of, and the *)
(* engine only ever agrees to heads of one chain.                                                *)
THEOREM Refinement ==
  ASSUME FinalityInTime
  PROVE  Spec => HeadsAsPromised
<1>1. Init => Promised!Init
  BY InitRefines
<1>2. Inv /\ [Next]_vars => [Promised!Next]_(Promised!vars)
  BY NextRefines
<1> QED BY <1>1, <1>2, Invariance, PTL DEF Spec, HeadsAsPromised, Promised!Spec
=============================================================================
