----------------------- MODULE BatchSubmitterProofs -------------------------
(***************************************************************************)
(* Proofs about BatchSubmitter, for every number of transactions in        *)
(* flight, chain length and number of reorganisations and restarts: its    *)
(* typing, that no transaction outlives the state it was made from, and    *)
(* that no block is left out.                                              *)
(***************************************************************************)
EXTENDS BatchSubmitter, SequenceTheorems, FiniteSetTheorems, TLAPS

-----------------------------------------------------------------------------
(* The inductive invariant. *)

Transactions == [blocks : SUBSET Blocks, result : {"queued", "sent", "confirmed", "late", "failed"}]

Types ==
  /\ running \in BOOLEAN /\ shutdown \in BOOLEAN /\ kill \in BOOLEAN /\ stopping \in BOOLEAN
  /\ closed \in BOOLEAN /\ rewound \in BOOLEAN
  /\ loop \in {"off", "select", "load", "publish"} /\ why \in {"tick", "reorg", "stop"}
  /\ publisher \in {"run", "send", "wait", "done"}
  /\ lastStored \in Blocks \cup {Nil} /\ tip \in Blocks \cup {Nil} /\ pend \in SUBSET Blocks
  /\ loop = "load" => lastStored # Nil
  /\ chain \in Blocks /\ chain[1] = 1 /\ safe \in 1..Len(chain) /\ onL1 \in SUBSET Blocks
  /\ reorgs \in 0..MaxReorgs
  /\ open \in SUBSET Blocks /\ ready \in SUBSET Blocks
  /\ flight \in SUBSET Transactions /\ IsFiniteSet(flight) /\ Cardinality(InQueue) <= MaxPending

(* The submitter only rests when its loop has ended; the publisher only works for a loop that   *)
(* waits for it; and a publisher that drains leaves no transaction behind.                      *)
Drained ==
  /\ ~running /\ ~stopping => loop = "off"
  /\ publisher # "done" => loop = "publish"
  /\ loop = "publish" /\ publisher = "done" /\ why # "tick" => flight = {}
  /\ loop = "off" => flight = {}
  /\ pend # {} \/ open # {} \/ ready # {} \/ flight # {} => tip # Nil
  /\ loop = "publish" /\ why = "reorg" => lastStored = Nil

(* What is not lost: held, in a transaction, or on L1. *)
Held == pend \cup onL1 \cup UNION {t.blocks : t \in flight}

(* Every block up to b is held. *)
HeldUpTo(b) == \A n \in 1..Len(b) : SubSeq(b, 1, n) \in Held

(* The safe blocks are on L1, and so are the blocks of confirmed transactions; the submitter    *)
(* starts from a safe block; the blocks up to the last one stored, and up to the channel        *)
(* manager's tip, are held.                                                                     *)
Covered ==
  /\ \A n \in 1..safe : BlockAt(n) \in onL1
  /\ ~rewound => \A t \in flight : t.result = "confirmed" => t.blocks \subseteq onL1
  /\ ~rewound /\ tip = Nil /\ lastStored # Nil =>
       Len(lastStored) <= safe /\ lastStored = BlockAt(Len(lastStored))
  /\ ~rewound /\ ~closed /\ lastStored # Nil => HeldUpTo(lastStored)
  /\ ~rewound /\ ~closed /\ tip # Nil => HeldUpTo(tip)

Inv == Types /\ Drained /\ Covered

-----------------------------------------------------------------------------
(* Blocks are sequences of labels. *)

Labels == 1..MaxReorgs + 1

(* A block is a sequence, and a sequence of labels that is not too long is a block. *)
LEMMA BlockFacts ==
  /\ \A b \in Blocks : b \in Seq(Labels) /\ Len(b) \in 1..MaxL2 /\ b # Nil
  /\ \A b \in Seq(Labels) : Len(b) \in 1..MaxL2 => b \in Blocks
  /\ <<1>> \in Blocks /\ MaxReorgs \in Nat /\ MaxL2 \in Nat
<1>1. ASSUME NEW b \in Blocks PROVE b \in Seq(Labels) /\ Len(b) \in 1..MaxL2
  <2>1. PICK n \in 1..MaxL2 : b \in [1..n -> Labels]
    BY DEF Blocks, Labels
  <2>2. n \in Nat /\ 1..n = DOMAIN b
    BY <2>1, SubmitterAssumption
  <2>3. b \in Seq(Labels) /\ Len(b) = n
    BY <2>1, <2>2
  <2> QED BY <2>3
<1>2. ASSUME NEW b \in Seq(Labels), Len(b) \in 1..MaxL2 PROVE b \in Blocks
  <2>1. b \in [1..Len(b) -> Labels]
    BY LenProperties
  <2> QED BY <2>1, <1>2 DEF Blocks, Labels
<1>3. <<1>> \in Seq(Labels) /\ Len(<<1>>) \in 1..MaxL2
  BY SubmitterAssumption DEF Labels
<1> QED BY <1>1, <1>2, <1>3, NilAssumption, SubmitterAssumption

(* A block's ancestors. *)
LEMMA PrefixFacts ==
  ASSUME NEW b \in Blocks, NEW n \in 1..Len(b)
  PROVE  /\ SubSeq(b, 1, n) \in Blocks /\ Len(SubSeq(b, 1, n)) = n
         /\ \A i \in 1..n : SubSeq(b, 1, n)[i] = b[i]
         /\ SubSeq(b, 1, Len(b)) = b
<1>1. b \in Seq(Labels) /\ Len(b) \in 1..MaxL2 /\ MaxL2 \in Nat
  BY BlockFacts
<1>2. n \in Nat /\ n \in 1..MaxL2
  BY <1>1
<1>3. \A i \in 1..n : b[i] \in Labels
  BY <1>1
<1>4. /\ SubSeq(b, 1, n) \in Seq(Labels) /\ Len(SubSeq(b, 1, n)) = n
      /\ \A i \in 1..n : SubSeq(b, 1, n)[i] = b[i]
  BY <1>2, <1>3, SubSeqProperties
<1>5. SubSeq(b, 1, n) \in Blocks
  BY <1>4, <1>2, BlockFacts
<1>6. SubSeq(b, 1, Len(b)) = b
  BY <1>1, SubSeqFull
<1> QED BY <1>4, <1>5, <1>6

(* Two blocks that agree up to n have the same ancestors up to n. *)
LEMMA SamePrefix ==
  ASSUME NEW b \in Blocks, NEW c \in Blocks, NEW n \in 1..Len(b), n <= Len(c),
         \A i \in 1..n : b[i] = c[i]
  PROVE  \A m \in 1..n : SubSeq(b, 1, m) = SubSeq(c, 1, m)
<1> SUFFICES ASSUME NEW m \in 1..n PROVE SubSeq(b, 1, m) = SubSeq(c, 1, m)
  OBVIOUS
<1>1. Len(b) \in Nat /\ Len(c) \in Nat
  BY BlockFacts
<1>2. m \in 1..Len(b) /\ m \in 1..Len(c)
  BY <1>1
<1>3. /\ SubSeq(b, 1, m) \in Blocks /\ Len(SubSeq(b, 1, m)) = m
      /\ SubSeq(c, 1, m) \in Blocks /\ Len(SubSeq(c, 1, m)) = m
  BY <1>2, PrefixFacts
<1>4. \A i \in 1..m : SubSeq(b, 1, m)[i] = SubSeq(c, 1, m)[i]
  BY <1>2, PrefixFacts
<1>5. SubSeq(b, 1, m) \in Seq(Labels) /\ SubSeq(c, 1, m) \in Seq(Labels)
  BY <1>3, BlockFacts
<1> QED BY <1>3, <1>4, <1>5, SeqEqual

(* The ancestors of an ancestor. *)
LEMMA PrefixOfPrefix ==
  ASSUME NEW b \in Blocks, NEW n \in 1..Len(b)
  PROVE  \A m \in 1..n : SubSeq(SubSeq(b, 1, n), 1, m) = SubSeq(b, 1, m)
<1>1. /\ SubSeq(b, 1, n) \in Blocks /\ Len(SubSeq(b, 1, n)) = n
      /\ \A i \in 1..n : SubSeq(b, 1, n)[i] = b[i]
  BY PrefixFacts
<1>2. Len(b) \in Nat
  BY BlockFacts
<1>3. n \in 1..Len(SubSeq(b, 1, n)) /\ n <= Len(b)
  BY <1>1, <1>2
<1> QED BY <1>1, <1>3, SamePrefix

(* A block's child. *)
LEMMA ChildFacts ==
  ASSUME NEW b \in Blocks, Len(b) < MaxL2, NEW x \in Labels
  PROVE  /\ Append(b, x) \in Blocks /\ Len(Append(b, x)) = Len(b) + 1
         /\ Append(b, x)[1] = b[1]
         /\ \A n \in 1..Len(b) : SubSeq(Append(b, x), 1, n) = SubSeq(b, 1, n)
<1>1. b \in Seq(Labels) /\ Len(b) \in 1..MaxL2 /\ MaxL2 \in Nat
  BY BlockFacts
<1>2. /\ Append(b, x) \in Seq(Labels) /\ Len(Append(b, x)) = Len(b) + 1
      /\ \A i \in 1..Len(b) : Append(b, x)[i] = b[i]
  BY <1>1, AppendProperties
<1>3. Append(b, x) \in Blocks
  <2>1. Len(Append(b, x)) \in 1..MaxL2
    BY <1>1, <1>2
  <2> QED BY <1>2, <2>1, BlockFacts
<1>4. Len(b) \in 1..Len(b) /\ Len(b) <= Len(Append(b, x))
  BY <1>1, <1>2
<1>5. \A n \in 1..Len(b) : SubSeq(b, 1, n) = SubSeq(Append(b, x), 1, n)
  BY <1>2, <1>3, <1>4, SamePrefix
<1> QED BY <1>1, <1>2, <1>3, <1>5

(* A block's parent. *)
LEMMA ParentFacts ==
  ASSUME NEW b \in Blocks, Len(b) > 1
  PROVE  /\ Front(b) \in Blocks /\ Len(Front(b)) = Len(b) - 1
         /\ Front(b) = SubSeq(b, 1, Len(b) - 1)
         /\ \A n \in 1..Len(b) - 1 : SubSeq(Front(b), 1, n) = SubSeq(b, 1, n)
<1>1. Len(b) \in Nat
  BY BlockFacts
<1>2. Len(b) - 1 \in 1..Len(b)
  BY <1>1
<1> QED BY <1>2, PrefixFacts, PrefixOfPrefix DEF Front

-----------------------------------------------------------------------------
(* The invariant is inductive: what the actions have in common. *)

LEMMA InitInv == Init => Inv
<1> SUFFICES ASSUME Init PROVE Inv
  OBVIOUS
<1>1. /\ chain = <<1>> /\ safe = 1 /\ onL1 = {<<1>>} /\ flight = {} /\ reorgs = 0
      /\ lastStored = Nil /\ tip = Nil /\ pend = {} /\ loop = "off"
  BY DEF Init
<1>2. Types
  <2>1. <<1>> \in Blocks /\ Len(<<1>>) = 1 /\ <<1>>[1] = 1 /\ 0 \in 0..MaxReorgs /\ 1 \in 1..1
    BY BlockFacts
  <2>2. IsFiniteSet(flight) /\ Cardinality(InQueue) <= MaxPending
    <3>1. flight = {} /\ InQueue = {}
      BY <1>1 DEF InQueue
    <3>2. IsFiniteSet({}) /\ Cardinality({}) = 0
      BY FS_EmptySet
    <3> QED BY <3>1, <3>2, SubmitterAssumption
  <2> QED BY <1>1, <2>1, <2>2 DEF Types, Init
<1>3. Drained
  BY DEF Drained, Init
<1>4. Covered
  <2>1. \A n \in 1..safe : n = 1
    BY <1>1
  <2>2. BlockAt(1) = <<1>>
    <3>1. 1 \in 1..Len(<<1>>) /\ 1 = Len(<<1>>)
      OBVIOUS
    <3> QED BY <1>1, <3>1, BlockFacts, PrefixFacts DEF BlockAt
  <2> QED BY <1>1, <2>1, <2>2 DEF Covered
<1> QED BY <1>2, <1>3, <1>4 DEF Inv

(* A step that changes neither blocks nor transactions. *)
LEMMA CoveredUnchanged ==
  ASSUME Covered, UNCHANGED <<lastStored, tip, pend, closed, flight, chain, safe, onL1, rewound>>
  PROVE  Covered'
BY DEF Covered, HeldUpTo, Held, BlockAt

(* A step after which no less is held. *)
LEMMA CoveredMore ==
  ASSUME Covered, UNCHANGED <<lastStored, tip, chain, safe, rewound>>, onL1 \subseteq onL1',
         ~rewound /\ ~closed' => ~closed /\ Held \subseteq Held',
         ~rewound => \A t \in flight' : t.result = "confirmed" => t.blocks \subseteq onL1'
  PROVE  Covered'
<1>1. \A n \in 1..safe' : BlockAt(n)' \in onL1'
  BY DEF Covered, BlockAt
<1>2. ~rewound' /\ tip' = Nil /\ lastStored' # Nil =>
         Len(lastStored') <= safe' /\ lastStored' = BlockAt(Len(lastStored))'
  BY DEF Covered, BlockAt
<1>3. ~rewound' /\ ~closed' /\ lastStored' # Nil => HeldUpTo(lastStored)'
  BY DEF Covered, HeldUpTo
<1>4. ~rewound' /\ ~closed' /\ tip' # Nil => HeldUpTo(tip)'
  BY DEF Covered, HeldUpTo
<1> QED BY <1>1, <1>2, <1>3, <1>4 DEF Covered

(* With one transaction taken out of the queue, or one that is in it replaced, there are no     *)
(* more.                                                                                        *)
LEMMA QueueShrinks ==
  ASSUME Types, NEW t \in flight
  PROVE  /\ flight \ {t} \in SUBSET Transactions /\ IsFiniteSet(flight \ {t})
         /\ flight' = flight \ {t} => Cardinality(InQueue') <= MaxPending
<1>1. IsFiniteSet(flight) /\ Cardinality(InQueue) <= MaxPending /\ MaxPending \in Nat
  BY SubmitterAssumption DEF Types
<1>2. IsFiniteSet(flight \ {t}) /\ IsFiniteSet(InQueue)
  BY <1>1, FS_Subset DEF InQueue
<1>3. ASSUME flight' = flight \ {t} PROVE Cardinality(InQueue') <= MaxPending
  <2>1. InQueue' \subseteq InQueue
    BY <1>3 DEF InQueue
  <2>2. Cardinality(InQueue') <= Cardinality(InQueue) /\ IsFiniteSet(InQueue')
    BY <1>2, <2>1, FS_Subset
  <2>3. Cardinality(InQueue') \in Nat /\ Cardinality(InQueue) \in Nat
    BY <1>2, <2>2, FS_CardinalityType
  <2> QED BY <1>1, <2>2, <2>3
<1> QED BY <1>2, <1>3 DEF Types

LEMMA ReplacedInFlight ==
  ASSUME Types, NEW t \in flight, NEW u \in Transactions,
         flight' = (flight \ {t}) \cup {u}, u.result # "queued",
         t.result = "queued" => Cardinality(InQueue) < MaxPending
  PROVE  /\ flight' \in SUBSET Transactions /\ IsFiniteSet(flight')
         /\ Cardinality(InQueue') <= MaxPending
<1>1. IsFiniteSet(flight) /\ Cardinality(InQueue) <= MaxPending /\ MaxPending \in Nat
  BY SubmitterAssumption DEF Types
<1>2. IsFiniteSet(flight \ {t}) /\ IsFiniteSet(InQueue) /\ IsFiniteSet(InQueue \ {t})
  BY <1>1, FS_Subset DEF InQueue
<1>3. IsFiniteSet(flight')
  BY <1>2, FS_AddElement
<1>4. InQueue' = (InQueue \ {t}) \cup {u}
  BY DEF InQueue
<1>5. Cardinality(InQueue') \in {Cardinality(InQueue \ {t}), Cardinality(InQueue \ {t}) + 1}
  BY <1>2, <1>4, FS_AddElement
<1>6. Cardinality(InQueue) \in Nat /\ Cardinality(InQueue \ {t}) \in Nat
  BY <1>2, FS_CardinalityType
<1>7. Cardinality(InQueue \ {t}) < MaxPending
  <2>1. CASE t.result = "queued"
    <3>1. InQueue \ {t} = InQueue
      BY <2>1 DEF InQueue
    <3> QED BY <2>1, <3>1
  <2>2. CASE t.result # "queued"
    <3>1. t \in InQueue
      BY <2>2 DEF InQueue
    <3>2. Cardinality(InQueue \ {t}) = Cardinality(InQueue) - 1
      BY <1>2, <3>1, FS_RemoveElement
    <3> QED BY <1>1, <1>6, <3>2
  <2> QED BY <2>1, <2>2
<1>8. Cardinality(InQueue') <= MaxPending
  BY <1>1, <1>5, <1>6, <1>7
<1> QED BY <1>3, <1>8 DEF Types

(* The queue holds what it held when the transactions are the same. *)
LEMMA QueueUnchanged == ASSUME flight' = flight PROVE InQueue' = InQueue
BY DEF InQueue

-----------------------------------------------------------------------------
(* Start and stop. *)

LEMMA StartKeepsInv == Inv /\ StartBatchSubmitting => Inv'
<1> SUFFICES ASSUME Inv, StartBatchSubmitting PROVE Inv'
  OBVIOUS
<1>1. /\ ~stopping /\ ~running /\ running' = TRUE /\ shutdown' = FALSE /\ kill' = FALSE
      /\ tip' = Nil /\ pend' = {} /\ open' = {} /\ ready' = {} /\ closed' = FALSE /\ rewound' = FALSE
      /\ lastStored' = Nil /\ loop' = "select"
      /\ UNCHANGED <<stopping, why, publisher, end, flight, chain, safe, onL1, reorgs>>
  BY DEF StartBatchSubmitting, Clear, world, Inv, Types
<1>2. flight = {} /\ publisher = "done"
  BY <1>1 DEF Inv, Drained
<1>3. Types'
  BY <1>1, QueueUnchanged DEF Inv, Types
<1>4. Drained'
  BY <1>1, <1>2 DEF Drained
<1>5. Covered'
  BY <1>1, <1>2 DEF Inv, Covered, BlockAt
<1> QED BY <1>3, <1>4, <1>5 DEF Inv

LEMMA StopKeepsInv == Inv /\ (StopBatchSubmitting \/ StopCtxDone \/ StopReturns) => Inv'
<1> SUFFICES ASSUME Inv, StopBatchSubmitting \/ StopCtxDone \/ StopReturns PROVE Inv'
  OBVIOUS
<1>1. UNCHANGED <<loop, why, publisher, lastStored, end, tip, pend, open, ready, closed, flight, chain, safe, onL1,
                  reorgs, rewound>>
  BY DEF StopBatchSubmitting, StopCtxDone, StopReturns, manager, world
<1>2. Types'
  <2>1. /\ running' \in {running, FALSE} /\ shutdown' \in {shutdown, TRUE} /\ kill' \in {kill, TRUE}
        /\ stopping' \in {stopping, TRUE, FALSE}
    BY DEF StopBatchSubmitting, StopCtxDone, StopReturns
  <2>2. /\ running' \in BOOLEAN /\ shutdown' \in BOOLEAN /\ kill' \in BOOLEAN /\ stopping' \in BOOLEAN
    BY <2>1 DEF Inv, Types
  <2> QED BY <1>1, <2>2, QueueUnchanged DEF Inv, Types
<1>3. Drained'
  BY <1>1 DEF Inv, Drained, StopBatchSubmitting, StopCtxDone, StopReturns
<1>4. Covered'
  BY <1>1, CoveredUnchanged DEF Inv
<1> QED BY <1>2, <1>3, <1>4 DEF Inv

-----------------------------------------------------------------------------
(* The loop. *)

(* A call fails: the loop publishes what it has. *)
LEMMA FailsKeepsInv == Inv /\ (TickFails \/ LoadFails) => Inv'
<1> SUFFICES ASSUME Inv, TickFails \/ LoadFails PROVE Inv'
  OBVIOUS
<1>1. /\ loop \in {"select", "load"} /\ loop' = "publish" /\ why' = "tick" /\ publisher' = "run"
      /\ UNCHANGED <<running, shutdown, kill, stopping, lastStored, tip, pend, open, ready, closed, flight, chain, safe,
                     onL1, reorgs, rewound>>
  BY DEF TickFails, LoadFails, Publish, submitter, manager, world
<1>2. Types'
  BY <1>1, QueueUnchanged DEF Inv, Types
<1>3. Drained'
  BY <1>1 DEF Inv, Drained
<1>4. Covered'
  BY <1>1, CoveredUnchanged DEF Inv
<1> QED BY <1>2, <1>3, <1>4 DEF Inv

LEMMA TickKeepsInv == Inv /\ Tick => Inv'
<1> SUFFICES ASSUME Inv, Tick PROVE Inv'
  OBVIOUS
<1>1. /\ loop = "select" /\ lastStored' = RangeStart(lastStored)
      /\ UNCHANGED <<running, shutdown, kill, stopping, tip, pend, open, ready, closed, flight, chain, safe, onL1,
                     reorgs, rewound>>
      /\ \/ loop' = "publish" /\ why' = "tick" /\ publisher' = "run"
         \/ loop' = "load" /\ UNCHANGED <<why, publisher>>
  BY DEF Tick, Publish, submitter, manager, world
<1>2. chain \in Blocks /\ safe \in 1..Len(chain) /\ lastStored \in Blocks \cup {Nil}
  BY DEF Inv, Types
<1>3. \/ lastStored' = BlockAt(safe)
      \/ lastStored' = lastStored /\ lastStored # Nil
  BY <1>1 DEF RangeStart
<1>4. BlockAt(safe) \in Blocks /\ Len(BlockAt(safe)) = safe /\ BlockAt(safe) # Nil
  BY <1>2, PrefixFacts, BlockFacts DEF BlockAt
<1>5. lastStored' \in Blocks /\ lastStored' # Nil
  BY <1>2, <1>3, <1>4
<1>6. Types'
  BY <1>1, <1>5, QueueUnchanged DEF Inv, Types
<1>7. Drained'
  BY <1>1 DEF Inv, Drained
<1>8. Covered'
  <2>1. CASE lastStored' = lastStored
    BY <1>1, <2>1, CoveredUnchanged DEF Inv
  <2>2. CASE lastStored' = BlockAt(safe)
    <3>1. safe \in Nat /\ safe <= safe
      <4>1. Len(chain) \in Nat
        BY <1>2, BlockFacts
      <4> QED BY <1>2, <4>1
    <3>2. Len(lastStored') <= safe' /\ lastStored' = BlockAt(Len(lastStored))'
      BY <1>1, <1>4, <2>2, <3>1 DEF BlockAt
    <3>3. \A n \in 1..safe : SubSeq(BlockAt(safe), 1, n) = BlockAt(n)
      BY <1>2, PrefixOfPrefix DEF BlockAt
    <3>4. HeldUpTo(lastStored)'
      BY <1>1, <1>4, <2>2, <3>3 DEF HeldUpTo, Held, Inv, Covered
    <3>5. HeldUpTo(tip)' <=> HeldUpTo(tip)
      BY <1>1 DEF HeldUpTo, Held
    <3>6. \A n \in 1..safe' : BlockAt(n)' \in onL1'
      BY <1>1 DEF Inv, Covered, BlockAt
    <3> QED BY <1>1, <3>2, <3>4, <3>5, <3>6 DEF Inv, Covered
  <2> QED BY <1>3, <2>1, <2>2
<1> QED BY <1>6, <1>7, <1>8 DEF Inv

(* The block to load is the child of the block at the height of the last one stored. *)
LEMMA LoadingFacts ==
  ASSUME Inv, loop = "load", Len(lastStored) < Len(chain)
  PROVE  /\ lastStored \in Blocks /\ Len(lastStored) \in Nat \ {0}
         /\ Loading \in Blocks /\ Loading # Nil /\ Len(Loading) = Len(lastStored) + 1
         /\ Front(Loading) = BlockAt(Len(lastStored)) /\ Front(Loading) # Nil
         /\ \A n \in 1..Len(lastStored) : /\ SubSeq(Loading, 1, n) = BlockAt(n)
                                          /\ SubSeq(Front(Loading), 1, n) = BlockAt(n)
         /\ Len(Front(Loading)) = Len(lastStored)
<1>1. lastStored \in Blocks /\ chain \in Blocks
  BY DEF Inv, Types
<1>2. Len(lastStored) \in Nat \ {0} /\ Len(chain) \in Nat
  <2>1. Len(lastStored) \in 1..MaxL2 /\ Len(chain) \in 1..MaxL2
    BY <1>1, BlockFacts
  <2> QED BY <2>1
<1> DEFINE k == Len(lastStored) + 1
<1>3. k \in 1..Len(chain) /\ k > 1 /\ k - 1 = Len(lastStored) /\ k \in Nat
  BY <1>2
<1>4. Loading = SubSeq(chain, 1, k)
  BY DEF Loading, BlockAt
<1> HIDE DEF k
<1>5. Loading \in Blocks /\ Len(Loading) = k
  BY <1>1, <1>3, <1>4, PrefixFacts
<1>6. \A n \in 1..k : SubSeq(Loading, 1, n) = BlockAt(n)
  BY <1>1, <1>3, <1>4, PrefixOfPrefix DEF BlockAt
<1>7. /\ Front(Loading) \in Blocks /\ Len(Front(Loading)) = k - 1
      /\ Front(Loading) = SubSeq(Loading, 1, k - 1)
      /\ \A n \in 1..k - 1 : SubSeq(Front(Loading), 1, n) = SubSeq(Loading, 1, n)
  BY <1>3, <1>5, ParentFacts
<1>8. \A n \in 1..k - 1 : n \in 1..k
  BY <1>3
<1>9. k - 1 \in 1..k
  BY <1>3
<1>10. Front(Loading) = BlockAt(k - 1)
  BY <1>6, <1>7, <1>9
<1>11. Loading # Nil /\ Front(Loading) # Nil
  BY <1>5, <1>7, BlockFacts
<1>12. \A n \in 1..k - 1 : /\ SubSeq(Loading, 1, n) = BlockAt(n)
                           /\ SubSeq(Front(Loading), 1, n) = BlockAt(n)
  BY <1>6, <1>7, <1>8
<1> QED BY <1>1, <1>2, <1>3, <1>5, <1>7, <1>10, <1>11, <1>12 DEF k

LEMMA LoadBlockKeepsInv == Inv /\ LoadBlock => Inv'
<1> SUFFICES ASSUME Inv, LoadBlock PROVE Inv'
  OBVIOUS
<1>1. /\ loop = "load" /\ Len(lastStored) < Len(chain) /\ tip \in {Nil, Front(Loading)}
      /\ pend' = pend \cup {Loading} /\ tip' = Loading /\ lastStored' = Loading
      /\ UNCHANGED <<running, shutdown, kill, stopping, open, ready, closed, flight, chain, safe, onL1, reorgs,
                     rewound>>
      /\ \/ loop' = "publish" /\ why' = "tick" /\ publisher' = "run"
         \/ UNCHANGED <<loop, why, publisher>>
  BY DEF LoadBlock, Publish, submitter, world
<1>2. /\ lastStored \in Blocks /\ Len(lastStored) \in Nat \ {0}
      /\ Loading \in Blocks /\ Loading # Nil /\ Len(Loading) = Len(lastStored) + 1
      /\ Front(Loading) = BlockAt(Len(lastStored)) /\ Front(Loading) # Nil
      /\ \A n \in 1..Len(lastStored) : /\ SubSeq(Loading, 1, n) = BlockAt(n)
                                       /\ SubSeq(Front(Loading), 1, n) = BlockAt(n)
      /\ Len(Front(Loading)) = Len(lastStored)
  BY <1>1, LoadingFacts
<1>3. Types'
  BY <1>1, <1>2, QueueUnchanged DEF Inv, Types
<1>4. Drained'
  BY <1>1, <1>2 DEF Inv, Drained
<1>5. Covered'
  <2>1. Held \subseteq Held'
    BY <1>1 DEF Held
  <2>2. ASSUME ~rewound, ~closed, NEW n \in 1..Len(Loading)
        PROVE  SubSeq(Loading, 1, n) \in Held'
    <3>1. CASE n = Len(Loading)
      <4>1. SubSeq(Loading, 1, n) = Loading
        BY <1>2, <3>1, PrefixFacts
      <4> QED BY <1>1, <4>1 DEF Held
    <3>2. CASE n # Len(Loading)
      <4>1. n \in 1..Len(lastStored)
        BY <1>2, <3>2
      <4>2. SubSeq(Loading, 1, n) = BlockAt(n) /\ SubSeq(Front(Loading), 1, n) = BlockAt(n)
        BY <1>2, <4>1
      <4>3. CASE tip = Front(Loading)
        <5>1. HeldUpTo(tip)
          BY <1>2, <2>2, <4>3 DEF Inv, Covered
        <5>2. SubSeq(tip, 1, n) \in Held
          BY <1>2, <4>1, <4>3, <5>1 DEF HeldUpTo
        <5> QED BY <2>1, <4>2, <4>3, <5>2
      <4>4. CASE tip = Nil
        <5>1. lastStored # Nil
          BY <1>2, BlockFacts
        <5>2. Len(lastStored) <= safe
          BY <2>2, <4>4, <5>1 DEF Inv, Covered
        <5>3. safe \in Nat
          <6>1. safe \in 1..Len(chain)
            BY DEF Inv, Types
          <6> QED BY <6>1
        <5>4. n \in 1..safe
          BY <1>2, <4>1, <5>2, <5>3
        <5>5. BlockAt(n) \in onL1
          BY <5>4 DEF Inv, Covered
        <5> QED BY <2>1, <4>2, <5>5 DEF Held
      <4> QED BY <1>1, <4>3, <4>4
    <3> QED BY <3>1, <3>2
  <2>3. ~rewound' /\ ~closed' => HeldUpTo(lastStored)' /\ HeldUpTo(tip)'
    BY <1>1, <2>2 DEF HeldUpTo
  <2>4. \A n \in 1..safe' : BlockAt(n)' \in onL1'
    BY <1>1 DEF Inv, Covered, BlockAt
  <2> QED BY <1>1, <1>2, <2>3, <2>4 DEF Inv, Covered
<1> QED BY <1>3, <1>4, <1>5 DEF Inv

(* The channel manager is closed, by a reorg or a shutdown. *)
LEMMA CloseKeepsInv == Inv /\ (LoadReorg \/ Shutdown) => Inv'
<1> SUFFICES ASSUME Inv, LoadReorg \/ Shutdown PROVE Inv'
  OBVIOUS
<1>1. /\ loop \in {"load", "select"} /\ closed' = TRUE /\ pend' \subseteq pend \cup open \cup ready
      /\ open' = {} /\ ready' \subseteq open \cup ready
      /\ loop' = "publish" /\ publisher' = "run" /\ lastStored' \in {lastStored, Nil}
      /\ why' \in {"reorg", "stop"} /\ (why' = "reorg" => lastStored' = Nil)
      /\ UNCHANGED <<running, shutdown, kill, stopping, tip, flight, chain, safe, onL1, reorgs, rewound>>
  BY DEF LoadReorg, Shutdown, AfterReorg, CloseManager, Fresh, Publish, submitter, world
<1>2. Types'
  BY <1>1, QueueUnchanged DEF Inv, Types
<1>3. Drained'
  BY <1>1 DEF Inv, Drained
<1>4. Covered'
  BY <1>1 DEF Inv, Covered, BlockAt
<1> QED BY <1>2, <1>3, <1>4 DEF Inv

LEMMA HandleReceiptKeepsInv == Inv /\ HandleReceipt => Inv'
<1> SUFFICES ASSUME Inv, HandleReceipt PROVE Inv'
  OBVIOUS
<1>1. UNCHANGED <<running, shutdown, kill, stopping, loop, why, publisher, lastStored, tip, open, closed, chain,
                  safe, onL1, reorgs, rewound>>
  BY DEF HandleReceipt, submitter, world
<1>2. PICK t \in flight :
        /\ flight' = flight \ {t}
        /\ pend' \subseteq pend \cup t.blocks /\ ready' \subseteq ready \cup t.blocks
        /\ ~closed => pend \subseteq pend' /\ (t.result = "confirmed" \/ t.blocks \subseteq pend')
  <2>1. PICK t \in flight :
          /\ flight' = flight \ {t}
          /\ \/ t.result = "confirmed" /\ UNCHANGED <<pend, ready>>
             \/ /\ t.result = "failed"
                /\ \E dropped \in SUBSET (ready \cup t.blocks) :
                     /\ dropped # {} => closed
                     /\ pend' = (pend \cup t.blocks) \ dropped
                     /\ ready' = (ready \cup t.blocks) \ dropped
             \/ /\ t.result = "late"
                /\ pend' = pend \cup t.blocks
                /\ ready' \in SUBSET ready
    BY DEF HandleReceipt
  <2> QED BY <2>1
<1>3. Types'
  <2>1. t.blocks \in SUBSET Blocks
    BY DEF Inv, Types, Transactions
  <2>2. pend' \in SUBSET Blocks /\ ready' \in SUBSET Blocks
    BY <1>2, <2>1 DEF Inv, Types
  <2>3. /\ flight' \in SUBSET Transactions /\ IsFiniteSet(flight')
        /\ Cardinality(InQueue') <= MaxPending
    BY <1>2, QueueShrinks DEF Inv
  <2> QED BY <1>1, <1>2, <2>2, <2>3 DEF Inv, Types
<1>4. Drained'
  BY <1>1, <1>2 DEF Inv, Drained
<1>5. Covered'
  <2>1. ASSUME ~rewound, ~closed PROVE Held \subseteq Held'
    <3>1. t.blocks \subseteq pend' \cup onL1
      <4>1. CASE t.result = "confirmed"
        BY <2>1, <4>1 DEF Inv, Covered
      <4>2. CASE t.result # "confirmed"
        BY <1>2, <2>1, <4>2
      <4> QED BY <4>1, <4>2
    <3>2. pend \subseteq pend'
      BY <1>2, <2>1
    <3>3. UNION {u.blocks : u \in flight} \subseteq t.blocks \cup UNION {u.blocks : u \in flight'}
      BY <1>2
    <3> QED BY <1>1, <3>1, <3>2, <3>3 DEF Held
  <2>2. ~rewound => \A u \in flight' : u.result = "confirmed" => u.blocks \subseteq onL1'
    BY <1>1, <1>2 DEF Inv, Covered
  <2> QED BY <1>1, <2>1, <2>2, CoveredMore DEF Inv
<1> QED BY <1>3, <1>4, <1>5 DEF Inv

LEMMA PublishReturnsKeepsInv == Inv /\ PublishReturns => Inv'
<1> SUFFICES ASSUME Inv, PublishReturns PROVE Inv'
  OBVIOUS
<1>1. /\ loop = "publish" /\ publisher = "done" /\ loop' = (IF why = "stop" THEN "off" ELSE "select")
      /\ why' = "tick"
      /\ UNCHANGED <<running, shutdown, kill, stopping, publisher, lastStored, flight, chain, safe, onL1,
                     reorgs>>
  BY DEF PublishReturns, submitter, world
<1>2. CASE why = "reorg"
  <2>1. /\ tip' = Nil /\ pend' = {} /\ open' = {} /\ ready' = {} /\ closed' = FALSE /\ rewound' = FALSE
    BY <1>2 DEF PublishReturns, Clear
  <2>2. flight = {} /\ lastStored = Nil /\ loop' = "select"
    BY <1>1, <1>2 DEF Inv, Drained
  <2>3. Types'
    BY <1>1, <2>1, <2>2, QueueUnchanged DEF Inv, Types
  <2>4. Drained'
    BY <1>1, <2>1, <2>2 DEF Inv, Drained
  <2>5. Covered'
    BY <1>1, <2>1, <2>2 DEF Inv, Covered, BlockAt
  <2> QED BY <2>3, <2>4, <2>5 DEF Inv
<1>3. CASE why # "reorg"
  <2>1. UNCHANGED <<tip, pend, open, ready, closed, rewound>>
    BY <1>3 DEF PublishReturns, manager
  <2>2. Types'
    BY <1>1, <2>1, QueueUnchanged DEF Inv, Types
  <2>3. loop' = "off" => flight = {}
    BY <1>1, <1>3 DEF Inv, Types, Drained
  <2>4. Drained'
    BY <1>1, <1>3, <2>1, <2>3 DEF Inv, Drained
  <2>5. Covered'
    BY <1>1, <2>1, CoveredUnchanged DEF Inv
  <2> QED BY <2>2, <2>4, <2>5 DEF Inv
<1> QED BY <1>2, <1>3

-----------------------------------------------------------------------------
(* The publisher and the transactions. *)

(* A transaction is made of frames of the channel manager. *)
LEMMA TakesKeepsInv ==
  ASSUME Inv, NEW frames \in SUBSET (pend \cup open \cup ready), Takes(frames), open' \in {open, {}}
  PROVE  Inv'
<1>1. /\ publisher = "run" /\ publisher' = "send"
      /\ UNCHANGED <<running, shutdown, kill, stopping, loop, why, lastStored, tip, closed, chain,
                     safe, onL1, reorgs, rewound>>
  BY DEF Takes, submitter, world
<1>2. PICK sent \in SUBSET frames :
        /\ sent # {} /\ pend' = pend \ sent /\ ready' = frames \ sent
        /\ flight' = flight \cup {[blocks |-> sent, result |-> "queued"]}
  <2>1. PICK n \in 1..MaxL2 :
          LET sent == {b \in frames : Len(b) <= n} IN
          /\ sent # {} /\ pend' = pend \ sent /\ ready' = frames \ sent
          /\ flight' = flight \cup {[blocks |-> sent, result |-> "queued"]}
    BY DEF Takes
  <2> QED BY <2>1
<1> DEFINE new == [blocks |-> sent, result |-> "queued"]
<1>3. new \in Transactions /\ new.blocks = sent /\ new.result = "queued"
  BY DEF Transactions, Inv, Types
<1>4. flight' = flight \cup {new}
  BY <1>2
<1> HIDE DEF new
<1>5. Types'
  <2>1. IsFiniteSet(flight')
    BY <1>4, FS_AddElement DEF Inv, Types
  <2>2. InQueue' = InQueue
    BY <1>3, <1>4 DEF InQueue
  <2>3. flight' \in SUBSET Transactions /\ pend' \in SUBSET Blocks
    BY <1>2, <1>3, <1>4 DEF Inv, Types
  <2>4. open' \in SUBSET Blocks /\ ready' \in SUBSET Blocks
    BY <1>2 DEF Inv, Types
  <2> QED BY <1>1, <2>1, <2>2, <2>3, <2>4 DEF Inv, Types
<1>6. Drained'
  BY <1>1, <1>2 DEF Inv, Drained
<1>7. Covered'
  <2>1. Held \subseteq Held'
    BY <1>1, <1>2, <1>3, <1>4 DEF Held
  <2>2. ~rewound => \A u \in flight' : u.result = "confirmed" => u.blocks \subseteq onL1'
    BY <1>1, <1>3, <1>4 DEF Inv, Covered
  <2> QED BY <1>1, <2>1, <2>2, CoveredMore DEF Inv
<1> QED BY <1>5, <1>6, <1>7 DEF Inv

LEMMA PublishKeepsInv == Inv /\ (PublishFrames \/ PublishFull) => Inv'
<1> SUFFICES ASSUME Inv, PublishFrames \/ PublishFull PROVE Inv'
  OBVIOUS
<1>1. CASE PublishFrames
  <2>1. Takes(ready) /\ open' = open
    BY <1>1 DEF PublishFrames
  <2> QED BY <2>1, TakesKeepsInv
<1>2. CASE PublishFull
  <2>1. PICK n \in 0..MaxL2 : Takes(FullAfter(n))
    BY <1>2 DEF PublishFull
  <2>2. open' = {}
    BY <1>2 DEF PublishFull
  <2>3. FullAfter(n) \in SUBSET (pend \cup open \cup ready)
    BY DEF FullAfter, Fresh
  <2> QED BY <2>1, <2>2, <2>3, TakesKeepsInv
<1> QED BY <1>1, <1>2

(* The queue takes the transaction that waits for it. *)
LEMMA QueueSendKeepsInv == Inv /\ QueueSend => Inv'
<1> SUFFICES ASSUME Inv, QueueSend PROVE Inv'
  OBVIOUS
<1>1. /\ publisher = "send" /\ publisher' = "run" /\ Cardinality(InQueue) < MaxPending
      /\ UNCHANGED <<running, shutdown, kill, stopping, loop, why, lastStored, tip, pend, open, ready, closed,
                     chain, safe, onL1, reorgs, rewound>>
  BY DEF QueueSend, submitter, manager, world
<1>2. PICK t \in flight : flight' = (flight \ {t}) \cup {[t EXCEPT !.result = "sent"]}
  BY DEF QueueSend
<1> DEFINE u == [t EXCEPT !.result = "sent"]
<1>3. u \in Transactions /\ u.blocks = t.blocks /\ u.result = "sent"
  BY DEF Inv, Types, Transactions
<1>4. flight' = (flight \ {t}) \cup {u}
  BY <1>2
<1> HIDE DEF u
<1>5. Types'
  <2>1. /\ flight' \in SUBSET Transactions /\ IsFiniteSet(flight')
        /\ Cardinality(InQueue') <= MaxPending
    BY <1>1, <1>3, <1>4, ReplacedInFlight DEF Inv
  <2> QED BY <1>1, <2>1 DEF Inv, Types
<1>6. Drained'
  BY <1>1, <1>4 DEF Inv, Drained
<1>7. Covered'
  <2>1. UNION {v.blocks : v \in flight} \subseteq UNION {v.blocks : v \in flight'}
    BY <1>3, <1>4
  <2>2. Held \subseteq Held'
    BY <1>1, <2>1 DEF Held
  <2>3. ~rewound => \A v \in flight' : v.result = "confirmed" => v.blocks \subseteq onL1'
    BY <1>1, <1>3, <1>4 DEF Inv, Covered
  <2> QED BY <1>1, <2>2, <2>3, CoveredMore DEF Inv
<1> QED BY <1>5, <1>6, <1>7 DEF Inv

LEMMA PublisherEndsKeepsInv == Inv /\ (PublishBuffers \/ PublishEnds \/ WaitEnds) => Inv'
<1> SUFFICES ASSUME Inv, PublishBuffers \/ PublishEnds \/ WaitEnds PROVE Inv'
  OBVIOUS
<1>1. /\ publisher # "done"
      /\ \/ publisher' = "done" /\ (why = "tick" \/ flight = {})
         \/ publisher' = "wait"
      /\ open' \in {open, pend}
      /\ UNCHANGED <<running, shutdown, kill, stopping, loop, why, lastStored, tip, pend, ready, closed, flight,
                     chain, safe, onL1, reorgs, rewound>>
  BY DEF PublishBuffers, PublishEnds, WaitEnds, AfterLast, submitter, manager, world
<1>2. Types'
  BY <1>1, QueueUnchanged DEF Inv, Types
<1>3. Drained'
  BY <1>1 DEF Inv, Drained
<1>4. Covered'
  BY <1>1, CoveredUnchanged DEF Inv
<1> QED BY <1>2, <1>3, <1>4 DEF Inv

(* A transaction is confirmed, in time or too late, or fails, mined or not. *)
LEMMA TxEndsKeepsInv ==
  Inv /\ (TxFails \/ \E result \in {"confirmed", "late"} : TxConfirms(result)) => Inv'
<1> SUFFICES ASSUME Inv, TxFails \/ \E result \in {"confirmed", "late"} : TxConfirms(result) PROVE Inv'
  OBVIOUS
<1>1. UNCHANGED <<running, shutdown, kill, stopping, loop, why, publisher, lastStored, tip, pend, open, ready, closed,
                  chain, safe, reorgs, rewound>>
  BY DEF TxFails, TxConfirms, submitter, manager
<1> DEFINE Ends(t, result) ==
             /\ t.result = "sent"
             /\ flight' = (flight \ {t}) \cup {[t EXCEPT !.result = result]}
             /\ onL1' \in {onL1, onL1 \cup t.blocks}
             /\ result = "confirmed" => onL1' = onL1 \cup t.blocks
<1>2. PICK t \in flight, result \in {"confirmed", "late", "failed"} : Ends(t, result)
  <2>1. CASE TxFails
    <3>1. PICK t \in flight, mined \in BOOLEAN :
            /\ t.result = "sent"
            /\ flight' = (flight \ {t}) \cup {[t EXCEPT !.result = "failed"]}
            /\ onL1' = IF mined THEN onL1 \cup t.blocks ELSE onL1
      BY <2>1 DEF TxFails
    <3>2. Ends(t, "failed")
      BY <3>1
    <3> QED BY <3>2
  <2>2. CASE \E result \in {"confirmed", "late"} : TxConfirms(result)
    <3>1. PICK result \in {"confirmed", "late"} : TxConfirms(result)
      BY <2>2
    <3>2. PICK t \in flight :
            /\ t.result = "sent"
            /\ flight' = (flight \ {t}) \cup {[t EXCEPT !.result = result]}
            /\ onL1' = IF result = "confirmed" THEN onL1 \cup t.blocks ELSE onL1
      BY <3>1 DEF TxConfirms
    <3>3. Ends(t, result)
      BY <3>2
    <3> QED BY <3>3
  <2> QED BY <2>1, <2>2
<1> DEFINE u == [t EXCEPT !.result = result]
<1>3. /\ t \in Transactions /\ u \in Transactions /\ u.blocks = t.blocks /\ u.result = result
      /\ t.blocks \in SUBSET Blocks
  BY DEF Inv, Types, Transactions
<1>4. flight' = (flight \ {t}) \cup {u}
  BY <1>2
<1> HIDE DEF u
<1>5. Types'
  <2>1. flight' \in SUBSET Transactions /\ IsFiniteSet(flight') /\ Cardinality(InQueue') <= MaxPending
    BY <1>2, <1>3, <1>4, ReplacedInFlight DEF Inv
  <2>2. onL1' \in SUBSET Blocks
    BY <1>2, <1>3 DEF Inv, Types
  <2> QED BY <1>1, <2>1, <2>2 DEF Inv, Types
<1>6. Drained'
  BY <1>1, <1>2 DEF Inv, Drained
<1>7. Covered'
  <2>1. Held \subseteq Held'
    <3>1. UNION {v.blocks : v \in flight} \subseteq UNION {v.blocks : v \in flight'}
      BY <1>3, <1>4
    <3> QED BY <1>1, <1>2, <3>1 DEF Held
  <2>2. ~rewound => \A v \in flight' : v.result = "confirmed" => v.blocks \subseteq onL1'
    BY <1>2, <1>3, <1>4 DEF Inv, Covered
  <2>3. onL1 \subseteq onL1'
    BY <1>2
  <2> QED BY <1>1, <2>1, <2>2, <2>3, CoveredMore DEF Inv
<1> QED BY <1>5, <1>6, <1>7 DEF Inv

-----------------------------------------------------------------------------
(* L2 and L1. *)

(* The L2 chain changes above the safe head, which may move up. *)
LEMMA ChainMoves ==
  ASSUME Inv,
         UNCHANGED <<running, shutdown, kill, stopping, loop, why, publisher, lastStored, tip, pend, open, ready, closed,
                     flight, onL1, rewound>>,
         chain' \in Blocks, chain'[1] = 1, safe' \in 1..Len(chain'), reorgs' \in 0..MaxReorgs,
         safe <= safe',
         \A n \in 1..safe : SubSeq(chain', 1, n) = SubSeq(chain, 1, n),
         \A n \in 1..safe' : n \in 1..safe \/ SubSeq(chain', 1, n) \in onL1
  PROVE  Inv'
<1>1. Types'
  BY QueueUnchanged DEF Inv, Types
<1>2. Drained'
  BY DEF Inv, Drained
<1>3. Covered'
  <2>1. \A n \in 1..safe' : BlockAt(n)' \in onL1'
    BY DEF Inv, Covered, BlockAt
  <2>2. ASSUME ~rewound, tip = Nil, lastStored # Nil
        PROVE  Len(lastStored) <= safe' /\ lastStored = BlockAt(Len(lastStored))'
    <3>1. Len(lastStored) <= safe /\ lastStored = BlockAt(Len(lastStored))
      BY <2>2 DEF Inv, Covered
    <3>2. Len(lastStored) \in 1..MaxL2 /\ MaxL2 \in Nat
      <4>1. lastStored \in Blocks
        BY <2>2 DEF Inv, Types
      <4> QED BY <4>1, BlockFacts
    <3>3. safe \in Nat /\ safe' \in Nat
      <4>1. safe \in 1..Len(chain)
        BY DEF Inv, Types
      <4> QED BY <4>1
    <3>4. Len(lastStored) \in 1..safe /\ Len(lastStored) <= safe'
      BY <3>1, <3>2, <3>3
    <3> QED BY <3>1, <3>4 DEF BlockAt
  <2>3. /\ HeldUpTo(lastStored)' <=> HeldUpTo(lastStored)
        /\ HeldUpTo(tip)' <=> HeldUpTo(tip)
    BY DEF HeldUpTo, Held
  <2>4. ~rewound' => \A t \in flight' : t.result = "confirmed" => t.blocks \subseteq onL1'
    BY DEF Inv, Covered
  <2>5. ~rewound' /\ ~closed' /\ lastStored' # Nil => HeldUpTo(lastStored)'
    BY <2>3 DEF Inv, Covered
  <2>6. ~rewound' /\ ~closed' /\ tip' # Nil => HeldUpTo(tip)'
    BY <2>3 DEF Inv, Covered
  <2> QED BY <2>1, <2>2, <2>4, <2>5, <2>6 DEF Covered
<1> QED BY <1>1, <1>2, <1>3 DEF Inv

LEMMA NewBlockKeepsInv == Inv /\ NewBlock => Inv'
<1> SUFFICES ASSUME Inv, NewBlock PROVE Inv'
  OBVIOUS
<1>1. /\ Len(chain) < MaxL2 /\ chain' = Append(chain, 1)
      /\ UNCHANGED <<running, shutdown, kill, stopping, loop, why, publisher, lastStored, tip, pend, open, ready, closed,
                     flight, safe, onL1, reorgs, rewound>>
  BY DEF NewBlock, submitter, manager
<1>2. /\ chain \in Blocks /\ chain[1] = 1 /\ safe \in 1..Len(chain) /\ 1 \in Labels
      /\ Len(chain) \in Nat /\ reorgs \in 0..MaxReorgs
  BY BlockFacts DEF Inv, Types, Labels
<1>3. /\ chain' \in Blocks /\ Len(chain') = Len(chain) + 1 /\ chain'[1] = 1
      /\ \A n \in 1..Len(chain) : SubSeq(chain', 1, n) = SubSeq(chain, 1, n)
  BY <1>1, <1>2, ChildFacts
<1>4. safe \in 1..Len(chain') /\ safe <= safe' /\ \A n \in 1..safe : n \in 1..Len(chain)
  BY <1>1, <1>2, <1>3
<1>5. \A n \in 1..safe : SubSeq(chain', 1, n) = SubSeq(chain, 1, n)
  BY <1>3, <1>4
<1> QED BY <1>1, <1>2, <1>3, <1>4, <1>5, ChainMoves

LEMMA L2ReorgKeepsInv == Inv /\ L2Reorg => Inv'
<1> SUFFICES ASSUME Inv, L2Reorg PROVE Inv'
  OBVIOUS
<1>1. /\ reorgs < MaxReorgs /\ reorgs' = reorgs + 1
      /\ UNCHANGED <<running, shutdown, kill, stopping, loop, why, publisher, lastStored, tip, pend, open, ready, closed,
                     flight, safe, onL1, rewound>>
  BY DEF L2Reorg, submitter, manager
<1>2. PICK n \in safe..Len(chain) - 1 : chain' = Append(BlockAt(n), reorgs + 2)
  BY DEF L2Reorg
<1>3. /\ chain \in Blocks /\ chain[1] = 1 /\ safe \in 1..Len(chain)
      /\ Len(chain) \in 1..MaxL2 /\ MaxL2 \in Nat /\ MaxReorgs \in Nat /\ reorgs \in 0..MaxReorgs
  BY BlockFacts DEF Inv, Types
<1>4. n \in 1..Len(chain) /\ n < MaxL2 /\ safe <= n /\ reorgs + 2 \in Labels /\ reorgs' \in 0..MaxReorgs
  BY <1>1, <1>3 DEF Labels
<1>5. /\ BlockAt(n) \in Blocks /\ Len(BlockAt(n)) = n
      /\ \A i \in 1..n : BlockAt(n)[i] = chain[i]
      /\ \A m \in 1..n : SubSeq(BlockAt(n), 1, m) = SubSeq(chain, 1, m)
  BY <1>3, <1>4, PrefixFacts, PrefixOfPrefix DEF BlockAt
<1>6. /\ chain' \in Blocks /\ Len(chain') = n + 1 /\ chain'[1] = BlockAt(n)[1]
      /\ \A m \in 1..n : SubSeq(chain', 1, m) = SubSeq(BlockAt(n), 1, m)
  BY <1>2, <1>4, <1>5, ChildFacts
<1>7. 1 \in 1..n /\ (\A m \in 1..safe : m \in 1..n) /\ safe \in 1..n + 1 /\ safe <= safe
  BY <1>3, <1>4
<1>8. chain'[1] = 1 /\ \A m \in 1..safe : SubSeq(chain', 1, m) = SubSeq(chain, 1, m)
  BY <1>3, <1>5, <1>6, <1>7
<1> QED BY <1>1, <1>4, <1>6, <1>7, <1>8, ChainMoves

LEMMA DeriveKeepsInv == Inv /\ Derive => Inv'
<1> SUFFICES ASSUME Inv, Derive PROVE Inv'
  OBVIOUS
<1>1. UNCHANGED <<running, shutdown, kill, stopping, loop, why, publisher, lastStored, tip, pend, open, ready, closed,
                  flight, onL1, reorgs, rewound>>
  BY DEF Derive, submitter, manager
<1>2. PICK b \in onL1 :
        /\ Len(b) = safe + 1 /\ Front(b) = BlockAt(safe) /\ safe' = safe + 1
        /\ chain' = IF IsPrefix(b, chain) THEN chain ELSE b
  BY DEF Derive
<1>3. /\ chain \in Blocks /\ chain[1] = 1 /\ safe \in 1..Len(chain) /\ b \in Blocks
      /\ Len(chain) \in Nat /\ reorgs \in 0..MaxReorgs
  BY BlockFacts DEF Inv, Types
<1>4. safe \in Nat \ {0} /\ Len(b) > 1 /\ safe <= safe' /\ Len(b) - 1 = safe /\ safe + 1 \in 1..safe + 1
  BY <1>2, <1>3
<1>5. SubSeq(b, 1, Len(b)) = b
  <2>1. Len(b) \in 1..Len(b)
    BY <1>2, <1>4
  <2> QED BY <1>3, <2>1, PrefixFacts
<1>6. \A n \in 1..safe : SubSeq(b, 1, n) = SubSeq(chain, 1, n)
  <2>1. \A n \in 1..safe : SubSeq(Front(b), 1, n) = SubSeq(b, 1, n)
    BY <1>3, <1>4, ParentFacts
  <2>2. \A n \in 1..safe : SubSeq(BlockAt(safe), 1, n) = SubSeq(chain, 1, n)
    BY <1>3, PrefixOfPrefix DEF BlockAt
  <2> QED BY <1>2, <2>1, <2>2
<1>7. /\ chain' \in Blocks /\ safe' \in 1..Len(chain') /\ SubSeq(chain', 1, safe') = b
  <2>1. CASE IsPrefix(b, chain)
    <3>1. chain' = chain /\ Len(b) <= Len(chain) /\ SubSeq(b, 1, Len(b)) = SubSeq(chain, 1, Len(b))
      BY <1>2, <2>1 DEF IsPrefix
    <3>2. safe' \in 1..Len(chain)
      BY <1>2, <1>3, <1>4, <3>1
    <3> QED BY <1>2, <1>3, <1>5, <3>1, <3>2
  <2>2. CASE ~IsPrefix(b, chain)
    BY <1>2, <1>3, <1>4, <1>5, <2>2
  <2> QED BY <2>1, <2>2
<1>8. \A n \in 1..safe : SubSeq(chain', 1, n) = SubSeq(chain, 1, n)
  BY <1>2, <1>6
<1>9. \A n \in 1..safe' : n \in 1..safe \/ SubSeq(chain', 1, n) \in onL1
  <2>1. \A n \in 1..safe' : n \in 1..safe \/ n = safe'
    BY <1>2, <1>4
  <2> QED BY <1>7, <2>1
<1>10. chain'[1] = 1
  <2>1. CASE chain' = chain
    BY <1>3, <2>1
  <2>2. CASE chain' = b
    <3>1. SubSeq(b, 1, 1) = SubSeq(chain, 1, 1)
      BY <1>4, <1>6
    <3>2. 1 \in 1..Len(b) /\ 1 \in 1..Len(chain) /\ 1 \in 1..1
      BY <1>2, <1>3, <1>4
    <3>3. SubSeq(b, 1, 1)[1] = b[1] /\ SubSeq(chain, 1, 1)[1] = chain[1]
      BY <1>3, <3>2, PrefixFacts
    <3> QED BY <1>3, <2>2, <3>1, <3>3
  <2> QED BY <1>2, <2>1, <2>2
<1> QED BY <1>1, <1>3, <1>4, <1>7, <1>8, <1>9, <1>10, ChainMoves

LEMMA L1ReorgKeepsInv == Inv /\ L1Reorg => Inv'
<1> SUFFICES ASSUME Inv, L1Reorg PROVE Inv'
  OBVIOUS
<1>1. /\ reorgs < MaxReorgs /\ reorgs' = reorgs + 1 /\ rewound' = TRUE
      /\ UNCHANGED <<running, shutdown, kill, stopping, loop, why, publisher, lastStored, tip, pend, open, ready, closed,
                     flight, chain>>
  BY DEF L1Reorg, submitter, manager
<1>2. PICK b \in onL1 \ {<<1>>} :
        /\ onL1' = onL1 \ {b}
        /\ safe' = IF IsPrefix(b, BlockAt(safe)) THEN Len(b) - 1 ELSE safe
  BY DEF L1Reorg
<1>3. /\ chain \in Blocks /\ chain[1] = 1 /\ safe \in 1..Len(chain) /\ b \in Blocks /\ b \in Seq(Labels)
      /\ Len(b) \in 1..MaxL2 /\ MaxL2 \in Nat
      /\ Len(chain) \in Nat /\ reorgs \in 0..MaxReorgs /\ MaxReorgs \in Nat
  BY BlockFacts DEF Inv, Types
<1>4. /\ BlockAt(safe) \in Blocks /\ Len(BlockAt(safe)) = safe
      /\ \A n \in 1..safe : SubSeq(BlockAt(safe), 1, n) = BlockAt(n)
      /\ SubSeq(b, 1, Len(b)) = b
  <2>1. Len(b) \in 1..Len(b)
    BY <1>3
  <2> QED BY <1>3, <2>1, PrefixFacts, PrefixOfPrefix DEF BlockAt
<1>5. \A n \in 1..safe : BlockAt(n) \in Blocks /\ Len(BlockAt(n)) = n /\ BlockAt(n)[1] = 1
  <2> SUFFICES ASSUME NEW n \in 1..safe
               PROVE  BlockAt(n) \in Blocks /\ Len(BlockAt(n)) = n /\ BlockAt(n)[1] = 1
    OBVIOUS
  <2>1. n \in 1..Len(chain) /\ 1 \in 1..n
    BY <1>3
  <2> QED BY <1>3, <2>1, PrefixFacts DEF BlockAt
<1>6. ASSUME IsPrefix(b, BlockAt(safe))
      PROVE  Len(b) \in 2..safe
  <2>1. Len(b) <= safe /\ b = SubSeq(BlockAt(safe), 1, Len(b))
    BY <1>4, <1>6 DEF IsPrefix
  <2>2. Len(b) \in 1..safe
    BY <1>3, <2>1
  <2>3. b = BlockAt(Len(b))
    BY <1>4, <2>1, <2>2
  <2>4. b[1] = 1
    BY <1>5, <2>2, <2>3
  <2>5. Len(b) # 1
    <3> SUFFICES ASSUME Len(b) = 1 PROVE FALSE
      OBVIOUS
    <3>1. b = <<1>>
      BY <1>3, <2>4
    <3> QED BY <1>2, <3>1
  <2> DEFINE k == Len(b)
  <2>6. safe \in Nat /\ k \in Nat /\ k \in 1..safe /\ k # 1
    BY <1>3, <2>2, <2>5
  <2> HIDE DEF k
  <2>7. k \in 2..safe
    BY <2>6
  <2> QED BY <2>7 DEF k
<1>7. safe' \in 1..safe
  BY <1>2, <1>3, <1>6
<1>8. ASSUME NEW n \in 1..safe' PROVE BlockAt(n) \in onL1'
  <2>1. n \in 1..safe /\ n \in Nat
    BY <1>3, <1>7
  <2>2. BlockAt(n) \in onL1
    BY <2>1 DEF Inv, Covered
  <2>3. BlockAt(n) # b
    <3> SUFFICES ASSUME BlockAt(n) = b PROVE FALSE
      OBVIOUS
    <3>1. Len(b) = n
      BY <1>5, <2>1
    <3>2. IsPrefix(b, BlockAt(safe))
      <4>1. Len(b) <= Len(BlockAt(safe))
        BY <1>3, <1>4, <2>1, <3>1
      <4>2. SubSeq(b, 1, Len(b)) = SubSeq(BlockAt(safe), 1, Len(b))
        BY <1>4, <2>1, <3>1
      <4> QED BY <4>1, <4>2 DEF IsPrefix
    <3>3. safe' = n - 1
      BY <1>2, <3>1, <3>2
    <3> QED BY <1>8, <2>1, <3>3
  <2> QED BY <1>2, <2>2, <2>3
<1>9. Types'
  <2>1. safe' \in 1..Len(chain') /\ reorgs' \in 0..MaxReorgs
    BY <1>1, <1>3, <1>7
  <2>2. onL1' \in SUBSET Blocks
    BY <1>2 DEF Inv, Types
  <2> QED BY <1>1, <2>1, <2>2, QueueUnchanged DEF Inv, Types
<1>10. Drained'
  BY <1>1 DEF Inv, Drained
<1>11. Covered'
  BY <1>1, <1>8 DEF Covered, BlockAt
<1> QED BY <1>9, <1>10, <1>11 DEF Inv

-----------------------------------------------------------------------------
(* The theorems. *)

LEMMA NextKeepsInv == Inv /\ [Next]_vars => Inv'
<1> SUFFICES ASSUME Inv, [Next]_vars PROVE Inv'
  OBVIOUS
<1>1. CASE StartBatchSubmitting
  BY <1>1, StartKeepsInv
<1>2. CASE StopBatchSubmitting \/ StopCtxDone \/ StopReturns
  BY <1>2, StopKeepsInv
<1>3. CASE Tick
  BY <1>3, TickKeepsInv
<1>4. CASE TickFails \/ LoadFails
  BY <1>4, FailsKeepsInv
<1>5. CASE LoadBlock
  BY <1>5, LoadBlockKeepsInv
<1>6. CASE LoadReorg \/ Shutdown
  BY <1>6, CloseKeepsInv
<1>7. CASE HandleReceipt
  BY <1>7, HandleReceiptKeepsInv
<1>8. CASE PublishReturns
  BY <1>8, PublishReturnsKeepsInv
<1>9. CASE PublishFrames \/ PublishFull
  BY <1>9, PublishKeepsInv
<1>10. CASE QueueSend
  BY <1>10, QueueSendKeepsInv
<1>11. CASE PublishBuffers \/ PublishEnds \/ WaitEnds
  BY <1>11, PublisherEndsKeepsInv
<1>12. CASE TxFails \/ \E result \in {"confirmed", "late"} : TxConfirms(result)
  BY <1>12, TxEndsKeepsInv
<1>13. CASE NewBlock
  BY <1>13, NewBlockKeepsInv
<1>14. CASE L2Reorg
  BY <1>14, L2ReorgKeepsInv
<1>15. CASE Derive
  BY <1>15, DeriveKeepsInv
<1>16. CASE L1Reorg
  BY <1>16, L1ReorgKeepsInv
<1>17. CASE UNCHANGED vars
  <2>1. UNCHANGED <<running, shutdown, kill, stopping, loop, why, publisher, lastStored, tip, pend, open, ready, closed,
                    flight, chain, safe, onL1, reorgs, rewound>>
    BY <1>17 DEF vars, submitter, manager, world
  <2>2. Types'
    BY <2>1, QueueUnchanged DEF Inv, Types
  <2>3. Drained'
    BY <2>1 DEF Inv, Drained
  <2>4. Covered'
    BY <2>1, CoveredUnchanged DEF Inv
  <2> QED BY <2>2, <2>3, <2>4 DEF Inv
<1> QED BY <1>1, <1>2, <1>3, <1>4, <1>5, <1>6, <1>7, <1>8, <1>9, <1>10, <1>11, <1>12, <1>13, <1>14,
           <1>15, <1>16, <1>17 DEF Next

(* The submitter keeps its types, drains before it clears or ends, and covers every block. *)
THEOREM Invariance == Spec => []Inv
BY InitInv, NextKeepsInv, PTL DEF Spec

(* The submitter's typing, for every value of the constants: among others, never more           *)
(* transactions are in flight than the queue has places (Queue.Send).                           *)
THEOREM TypeCorrectness == Spec => []TypeOK
<1>1. Inv => TypeOK
  BY DEF Inv, Types, TypeOK
<1> QED BY <1>1, Invariance, PTL

(* No transaction outlives the state it was made from: whenever the channel manager is cleared  *)
(* or the loop has ended, none is in flight (publishStateToL1 with drain, StopBatchSubmitting). *)
THEOREM TransactionsDrained == Spec => []NoTxOutlivesState
<1>1. Inv => NoTxOutlivesState
  BY DEF Inv, Drained, NoTxOutlivesState
<1> QED BY <1>1, Invariance, PTL

(* As long as L1 has lost no batch, every block of the L2 chain up to the last one stored is    *)
(* safe, held by the channel manager, in a transaction or on L1, whatever reorganisations,      *)
(* failed calls and failed transactions came between (calculateL2BlockRangeToStore,             *)
(* loadBlocksIntoState, handleReceipt).                                                         *)
THEOREM BlocksCovered == Spec => []NoBlockLeftOut
<1>1. Inv => NoBlockLeftOut
  <2> SUFFICES ASSUME Inv, ~rewound, ~closed, lastStored # Nil, IsPrefix(lastStored, chain),
                      NEW n \in safe + 1..Len(lastStored)
               PROVE  BlockAt(n) \in Held
    BY DEF NoBlockLeftOut, Held
  <2>1. HeldUpTo(lastStored)
    BY DEF Inv, Covered
  <2>2. lastStored \in Blocks /\ chain \in Blocks /\ safe \in 1..Len(chain)
    BY DEF Inv, Types
  <2>3. Len(lastStored) \in Nat \ {0} /\ Len(chain) \in Nat
    <3>1. Len(lastStored) \in 1..MaxL2 /\ Len(chain) \in 1..MaxL2
      BY <2>2, BlockFacts
    <3> QED BY <3>1
  <2>4. /\ n \in 1..Len(lastStored) /\ Len(lastStored) \in 1..Len(chain)
        /\ Len(lastStored) \in 1..Len(lastStored)
    BY <2>2, <2>3 DEF IsPrefix
  <2>5. lastStored = SubSeq(chain, 1, Len(lastStored))
    <3>1. SubSeq(lastStored, 1, Len(lastStored)) = lastStored
      BY <2>2, <2>4, PrefixFacts
    <3> QED BY <3>1 DEF IsPrefix
  <2>6. SubSeq(SubSeq(chain, 1, Len(lastStored)), 1, n) = BlockAt(n)
    BY <2>2, <2>4, PrefixOfPrefix DEF BlockAt
  <2> QED BY <2>1, <2>4, <2>5, <2>6 DEF HeldUpTo
<1> QED BY <1>1, Invariance, PTL
=============================================================================
