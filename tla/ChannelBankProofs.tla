------------------------- MODULE ChannelBankProofs -------------------------
(***************************************************************************)
(* Proofs about ChannelBank, for any channel IDs, sizes, timeout and fork  *)
(* block: what Read hands out is a whole channel, a timed out channel does *)
(* not stay in the bank, and a channel's size never underflows.            *)
(*                                                                         *)
(* The argument.  A channel never holds two frames of one number, nor a    *)
(* second closing frame, nor a frame above the closing one (OKChannel),    *)
(* whichever order the frames come in; so a closed channel with the right  *)
(* numbers is complete.  Channels are in the queue in the order they were  *)
(* opened (OKBank), which removing one from anywhere keeps; so if the      *)
(* first is not timed out, none is.  Until a channel is closed its size is *)
(* that of its frames, so the one frame that can prune it, the closing     *)
(* one, subtracts exactly what was added (OKSize).  What prune drops from  *)
(* the front of the queue does not matter to any of this.                  *)
(***************************************************************************)
EXTENDS ChannelBank, SequenceTheorems, FiniteSetTheorems, WellFoundedInduction, TLAPS

(* The size is what the channel holds until a closing frame prunes it, and *)
(* never more: the pruning loop subtracts exactly what was added.          *)
OKSize(ch) ==
  /\ IsFiniteSet(ch.inputs)
  /\ ch.size \in 0..InputSize(ch)
  /\ ~ch.closed => ch.size = InputSize(ch)

OKChannel(ch) ==
  /\ ch = [open |-> ch.open, size |-> ch.size, closed |-> ch.closed, highest |-> ch.highest,
           end |-> ch.end, inputs |-> ch.inputs]
  /\ ch.open \in Nat /\ ch.closed \in BOOLEAN /\ ch.highest \in Nat /\ ch.end \in Nat
  /\ ch.inputs \subseteq Frame
  /\ \A g, h \in ch.inputs : g.number = h.number => g = h
  /\ ch.closed => \A g \in ch.inputs : g.number <= ch.end /\ (g.last <=> g.number = ch.end)
  /\ ~ch.closed => \A g \in ch.inputs : g.number <= ch.highest /\ ~g.last
  /\ OKSize(ch)

(* The L1 block in which the i-th channel of the queue was opened. *)
OpenAt(b, i) == b.channels[b.queue[i]].open

OKBank(b, at) ==
  /\ b = [channels |-> b.channels, queue |-> b.queue]
  /\ b.queue \in Seq(ChannelIDs)
  /\ \A i, j \in 1..Len(b.queue) : b.queue[i] = b.queue[j] => i = j
  /\ b.channels = [id \in Range(b.queue) |-> b.channels[id]]
  /\ \A i \in 1..Len(b.queue) : OKChannel(b.channels[b.queue[i]]) /\ OpenAt(b, i) <= at
  /\ \A i, j \in 1..Len(b.queue) : i < j => OpenAt(b, i) <= OpenAt(b, j)

Inv == OKBank(bank, origin) /\ frames \in Seq(Frame) /\ origin \in Nat

(***************************************************************************)
(* The size of a set of frames.  InputSize folds over the frames in the    *)
(* order CHOOSE takes them; the lemmas show that the fold is well defined  *)
(* on a finite set and that the order does not matter.                     *)
(***************************************************************************)

(* A nonempty set of naturals has a least element. *)
LEMMA LeastNat ==
  ASSUME NEW S \in SUBSET Nat, S # {}
  PROVE  \E n \in S : \A m \in S : n <= m
<1>1. PICK n \in S : \A m \in S : ~(<<m, n>> \in OpToRel(<, Nat))
  BY NatLessThanWellFounded, WFMin, Zenon
<1>2. \A m \in S : ~(m < n)
  BY <1>1 DEF OpToRel
<1>3. \A m \in S : n <= m
  BY <1>2
<1> QED BY <1>3, Zenon

(* A set of finite sets has one of least cardinality. *)
LEMMA SmallestSet ==
  ASSUME NEW C, C # {}, \A T \in C : IsFiniteSet(T)
  PROVE  \E T \in C : \A U \in C : Cardinality(T) <= Cardinality(U)
<1> DEFINE S == {Cardinality(T) : T \in C}
<1>1. S \in SUBSET Nat /\ S # {}
  BY FS_CardinalityType
<1>2. PICK n \in S : \A m \in S : n <= m
  BY <1>1, LeastNat
<1> QED BY <1>2

(* The frame a fold takes first. *)
Pick(s) == CHOOSE x \in s : TRUE

LEMMA PickIn ==
  ASSUME NEW s, s # {}
  PROVE  Pick(s) \in s
BY DEF Pick

FoldStep(g, s) == IF s = {} THEN 0 ELSE Pick(s).size + g[s \ {Pick(s)}]

(* g is the function that InputSize defines on the subsets of S. *)
IsFold(g, S) == g = [s \in SUBSET S |-> FoldStep(g, s)]

SizeOf(S) == (CHOOSE g : IsFold(g, S))[S]

LEMMA InputSizeIs ==
  ASSUME NEW ch
  PROVE  InputSize(ch) = SizeOf(ch.inputs)
BY DEF InputSize, MapThenSumSet, MapThenFoldSet, SizeOf, IsFold, FoldStep, Pick

(* The fold of a set gives the fold of each of its subsets. *)
LEMMA FoldOfSubset ==
  ASSUME NEW S, NEW T \in SUBSET S, NEW g, IsFold(g, S)
  PROVE  IsFold([s \in SUBSET T |-> g[s]], T)
<1> DEFINE h == [s \in SUBSET T |-> g[s]]
<1>1. g = [s \in SUBSET S |-> FoldStep(g, s)]
  BY DEF IsFold
<1>2. ASSUME NEW s \in SUBSET T PROVE g[s] = FoldStep(h, s)
  <2>1. s \in SUBSET S /\ g[s] = FoldStep(g, s)
    BY <1>1
  <2>2. s \ {Pick(s)} \in SUBSET T
    OBVIOUS
  <2>3. h[s \ {Pick(s)}] = g[s \ {Pick(s)}]
    BY <2>2
  <2> QED BY <2>1, <2>3 DEF FoldStep
<1>3. h = [s \in SUBSET T |-> FoldStep(h, s)]
  BY <1>2
<1> QED BY <1>3 DEF IsFold

(* A finite set has a fold: one that is right on the subsets of up to n    *)
(* elements is extended to those of n + 1.                                 *)
LEMMA FoldExists ==
  ASSUME NEW S, IsFiniteSet(S)
  PROVE  \E g : IsFold(g, S)
<1> DEFINE Right(g, n) == /\ g = [s \in SUBSET S |-> g[s]]
                          /\ \A s \in SUBSET S : Cardinality(s) <= n => g[s] = FoldStep(g, s)
           Bad == {n \in Nat : ~\E g : Right(g, n)}
<1>1. \A s \in SUBSET S : IsFiniteSet(s) /\ Cardinality(s) \in Nat
  BY FS_Subset, FS_CardinalityType
<1>2. ASSUME NEW n \in Nat, NEW g, \A s \in SUBSET S : Cardinality(s) < n => g[s] = FoldStep(g, s)
      PROVE  \E h : Right(h, n)
  <2> DEFINE h == [s \in SUBSET S |-> FoldStep(g, s)]
  <2>1. ASSUME NEW s \in SUBSET S, Cardinality(s) <= n PROVE h[s] = FoldStep(h, s)
    <3>1. CASE s = {}
      BY <3>1 DEF FoldStep
    <3>2. CASE s # {}
      <4> DEFINE t == s \ {Pick(s)}
      <4>1. Pick(s) \in s
        BY <3>2, PickIn
      <4>2. t \in SUBSET S /\ Cardinality(t) = Cardinality(s) - 1
        BY <1>1, <4>1, FS_RemoveElement
      <4>3. Cardinality(t) < n
        BY <1>1, <2>1, <4>2
      <4>4. h[t] = g[t]
        BY <1>2, <4>2, <4>3
      <4> QED BY <3>2, <4>4 DEF FoldStep
    <3> QED BY <3>1, <3>2
  <2>2. h = [s \in SUBSET S |-> h[s]]
    OBVIOUS
  <2>3. Right(h, n)
    BY <2>1, <2>2
  <2> QED BY <2>3
<1>3. Bad = {}
  <2> SUFFICES ASSUME Bad # {} PROVE FALSE
    OBVIOUS
  <2>1. PICK n \in Bad : \A m \in Bad : n <= m
    BY LeastNat
  <2>2. n \in Nat /\ ~\E g : Right(g, n)
    OBVIOUS
  <2>3. CASE n = 0
    <3>1. \A s \in SUBSET S : ~(Cardinality(s) < n)
      BY <1>1, <2>3
    <3> QED BY <1>2, <2>2, <3>1
  <2>4. CASE n # 0
    <3>1. n - 1 \in Nat /\ n - 1 \notin Bad
      <4> HIDE DEF Bad
      <4> QED BY <2>1, <2>2, <2>4
    <3>2. PICK g : Right(g, n - 1)
      BY <3>1
    <3>3. ASSUME NEW s \in SUBSET S, Cardinality(s) < n PROVE g[s] = FoldStep(g, s)
      <4>1. Cardinality(s) <= n - 1
        BY <1>1, <2>2, <3>3
      <4> QED BY <3>2, <4>1
    <3> QED BY <1>2, <2>2, <3>3
  <2> QED BY <2>3, <2>4
<1>4. Cardinality(S) \in Nat /\ \A s \in SUBSET S : Cardinality(s) <= Cardinality(S)
  BY FS_Subset, FS_CardinalityType
<1>5. PICK g : Right(g, Cardinality(S))
  BY <1>3, <1>4
<1>6. g = [s \in SUBSET S |-> FoldStep(g, s)]
  BY <1>4, <1>5
<1> QED BY <1>6 DEF IsFold

(* It has only one. *)
LEMMA FoldUnique ==
  ASSUME NEW S, IsFiniteSet(S), NEW g, IsFold(g, S), NEW h, IsFold(h, S)
  PROVE  g = h
<1> DEFINE C == {s \in SUBSET S : g[s] # h[s]}
<1>1. \A s \in SUBSET S : IsFiniteSet(s) /\ Cardinality(s) \in Nat
  BY FS_Subset, FS_CardinalityType
<1>2. /\ g = [s \in SUBSET S |-> FoldStep(g, s)]
      /\ h = [s \in SUBSET S |-> FoldStep(h, s)]
  BY DEF IsFold
<1>3. C = {}
  <2> SUFFICES ASSUME C # {} PROVE FALSE
    OBVIOUS
  <2>1. \A s \in C : IsFiniteSet(s)
    BY <1>1
  <2>2. PICK s \in C : \A t \in C : Cardinality(s) <= Cardinality(t)
    BY <2>1, SmallestSet
  <2> DEFINE t == s \ {Pick(s)}
  <2>3. s \in SUBSET S /\ g[s] = FoldStep(g, s) /\ h[s] = FoldStep(h, s) /\ g[s] # h[s]
    BY <1>2
  <2>4. s # {}
    BY <2>3 DEF FoldStep
  <2>5. Pick(s) \in s
    BY <2>4, PickIn
  <2>6. t \in SUBSET S /\ Cardinality(t) = Cardinality(s) - 1
    BY <1>1, <2>3, <2>5, FS_RemoveElement
  <2>7. t \notin C
    BY <1>1, <2>2, <2>3, <2>6
  <2>8. g[t] = h[t]
    BY <2>6, <2>7
  <2> QED BY <2>3, <2>8 DEF FoldStep
<1> QED BY <1>2, <1>3

LEMMA SizeOfSubset ==
  ASSUME NEW S, IsFiniteSet(S), NEW g, IsFold(g, S), NEW T \in SUBSET S
  PROVE  g[T] = SizeOf(T)
<1> DEFINE h == [s \in SUBSET T |-> g[s]]
           k == CHOOSE f : IsFold(f, T)
<1>1. IsFold(h, T)
  BY FoldOfSubset
<1>2. IsFold(k, T)
  BY <1>1
<1>3. IsFiniteSet(T)
  BY FS_Subset
<1> HIDE DEF k
<1>4. h = k
  BY <1>1, <1>2, <1>3, FoldUnique
<1>5. h[T] = g[T]
  OBVIOUS
<1>6. SizeOf(T) = k[T]
  BY DEF SizeOf, k
<1> QED BY <1>4, <1>5, <1>6

LEMMA SizeOfStep ==
  ASSUME NEW S, IsFiniteSet(S)
  PROVE  SizeOf(S) = IF S = {} THEN 0 ELSE Pick(S).size + SizeOf(S \ {Pick(S)})
<1>1. PICK g : IsFold(g, S)
  BY FoldExists
<1>2. S \in SUBSET S /\ S \ {Pick(S)} \in SUBSET S
  OBVIOUS
<1>3. g[S] = SizeOf(S) /\ g[S \ {Pick(S)}] = SizeOf(S \ {Pick(S)})
  BY <1>1, <1>2, SizeOfSubset
<1>4. g[S] = FoldStep(g, S)
  BY <1>1, <1>2 DEF IsFold
<1> QED BY <1>3, <1>4 DEF FoldStep

(* A set of frames: its size is a number. *)
LEMMA SizeOfType ==
  ASSUME NEW S \in SUBSET Frame, IsFiniteSet(S)
  PROVE  SizeOf(S) \in Nat
<1> DEFINE C == {s \in SUBSET S : SizeOf(s) \notin Nat}
<1>1. \A s \in SUBSET S : IsFiniteSet(s) /\ Cardinality(s) \in Nat
  BY FS_Subset, FS_CardinalityType
<1>2. C = {}
  <2> SUFFICES ASSUME C # {} PROVE FALSE
    OBVIOUS
  <2>1. \A s \in C : IsFiniteSet(s)
    BY <1>1
  <2>2. PICK s \in C : \A t \in C : Cardinality(s) <= Cardinality(t)
    BY <2>1, SmallestSet
  <2> DEFINE t == s \ {Pick(s)}
  <2>3. s \in SUBSET S /\ SizeOf(s) \notin Nat
    OBVIOUS
  <2>4. SizeOf(s) = IF s = {} THEN 0 ELSE Pick(s).size + SizeOf(t)
    BY <1>1, <2>3, SizeOfStep
  <2>5. s # {}
    BY <2>3, <2>4
  <2>6. Pick(s) \in s
    BY <2>5, PickIn
  <2>7. t \in SUBSET S /\ Cardinality(t) = Cardinality(s) - 1
    BY <1>1, <2>3, <2>6, FS_RemoveElement
  <2>8. SizeOf(t) \in Nat
    BY <1>1, <2>2, <2>3, <2>7
  <2>9. Pick(s).size \in Nat
    BY <2>3, <2>6, ChannelBankAssumption DEF Frame
  <2> QED BY <2>3, <2>4, <2>5, <2>8, <2>9
<1> QED BY <1>2

(* Taking any frame out of a set takes its size off the set's. *)
LEMMA SizeOfRemove ==
  ASSUME NEW S \in SUBSET Frame, IsFiniteSet(S), NEW x \in S
  PROVE  SizeOf(S) = x.size + SizeOf(S \ {x})
<1> DEFINE C == {s \in SUBSET S : \E y \in s : SizeOf(s) # y.size + SizeOf(s \ {y})}
<1>1. \A s \in SUBSET S : IsFiniteSet(s) /\ Cardinality(s) \in Nat
  BY FS_Subset, FS_CardinalityType
<1>2. C = {}
  <2> SUFFICES ASSUME C # {} PROVE FALSE
    OBVIOUS
  <2>1. \A s \in C : IsFiniteSet(s)
    BY <1>1
  <2>2. PICK s \in C : \A t \in C : Cardinality(s) <= Cardinality(t)
    BY <2>1, SmallestSet
  <2>3. PICK y \in s : SizeOf(s) # y.size + SizeOf(s \ {y})
    OBVIOUS
  <2> DEFINE p == Pick(s)
             t == s \ {p}
             u == s \ {y}
             w == s \ {p, y}
  <2>4. s \in SUBSET S /\ s # {}
    BY <2>3
  <2>5. p \in s
    BY <2>4, PickIn
  <2>6. SizeOf(s) = p.size + SizeOf(t)
    BY <1>1, <2>4, SizeOfStep
  <2>7. p # y
    BY <2>3, <2>6
  <2>8. /\ t \in SUBSET S /\ Cardinality(t) = Cardinality(s) - 1
        /\ u \in SUBSET S /\ Cardinality(u) = Cardinality(s) - 1
    BY <1>1, <2>4, <2>5, FS_RemoveElement
  <2>9. t \notin C /\ u \notin C
    <3> HIDE DEF C, t, u
    <3> QED BY <1>1, <2>2, <2>4, <2>8
  <2>10. y \in t /\ p \in u /\ t \ {y} = w /\ u \ {p} = w
    BY <2>5, <2>7
  <2>11. SizeOf(t) = y.size + SizeOf(w) /\ SizeOf(u) = p.size + SizeOf(w)
    BY <2>8, <2>9, <2>10
  <2>12. p.size \in Nat /\ y.size \in Nat
    BY <2>4, <2>5, ChannelBankAssumption DEF Frame
  <2>13. w \in SUBSET Frame /\ IsFiniteSet(w)
    <3>1. w \in SUBSET S
      BY <2>4
    <3> QED BY <1>1, <3>1
  <2>14. SizeOf(w) \in Nat
    BY <2>13, SizeOfType
  <2> QED BY <2>3, <2>6, <2>11, <2>12, <2>14
<1>3. S \in SUBSET S /\ S \notin C
  BY <1>2
<1> QED BY <1>3

(* A channel's size, against the frames it holds. *)
LEMMA SizeOfAdd ==
  ASSUME NEW S \in SUBSET Frame, IsFiniteSet(S), NEW x \in Frame, x \notin S
  PROVE  /\ IsFiniteSet(S \cup {x})
         /\ SizeOf(S) \in Nat /\ x.size \in Nat
         /\ SizeOf(S \cup {x}) = SizeOf(S) + x.size
<1>1. S \cup {x} \in SUBSET Frame /\ x \in S \cup {x} /\ (S \cup {x}) \ {x} = S
  OBVIOUS
<1>2. IsFiniteSet(S \cup {x})
  BY FS_AddElement
<1>3. SizeOf(S \cup {x}) = x.size + SizeOf(S)
  BY <1>1, <1>2, SizeOfRemove
<1>4. SizeOf(S) \in Nat
  BY SizeOfType
<1>5. x.size \in Nat
  BY ChannelBankAssumption DEF Frame
<1> QED BY <1>2, <1>3, <1>4, <1>5

(***************************************************************************)
(* Channels.                                                               *)
(***************************************************************************)

(* AddFrame, field by field. *)
LEMMA AddFrameFields ==
  ASSUME NEW ch, OKChannel(ch), NEW f \in Frame
  PROVE  /\ AddFrame(ch, f) = [open    |-> AddFrame(ch, f).open,
                               size    |-> AddFrame(ch, f).size,
                               closed  |-> AddFrame(ch, f).closed,
                               highest |-> AddFrame(ch, f).highest,
                               end     |-> AddFrame(ch, f).end,
                               inputs  |-> AddFrame(ch, f).inputs]
         /\ AddFrame(ch, f).open = ch.open
         /\ AddFrame(ch, f).closed = (ch.closed \/ f.last)
         /\ AddFrame(ch, f).highest =
              IF Prunes(ch, f) \/ f.number > ch.highest THEN f.number ELSE ch.highest
         /\ AddFrame(ch, f).end = IF f.last THEN f.number ELSE ch.end
         /\ AddFrame(ch, f).inputs = KeptInputs(ch, f) \cup {f}
         /\ AddFrame(ch, f).size =
              (IF Prunes(ch, f) THEN ch.size - InputSize(ch) ELSE ch.size) + f.size
<1> DEFINE size == (IF Prunes(ch, f) THEN ch.size - InputSize(ch) ELSE ch.size) + f.size
<1>1. PICK o, z, c, h, e, s : ch = [open |-> o, size |-> z, closed |-> c, highest |-> h,
                                    end |-> e, inputs |-> s]
  BY DEF OKChannel
<1>2. AddFrame(ch, f) =
        [ch EXCEPT !.end     = IF f.last THEN f.number ELSE ch.end,
                   !.closed  = ch.closed \/ f.last,
                   !.highest = IF Prunes(ch, f) \/ f.number > ch.highest
                               THEN f.number ELSE ch.highest,
                   !.size    = size,
                   !.inputs  = KeptInputs(ch, f) \cup {f}]
  BY <1>1 DEF AddFrame
<1> HIDE DEF size
<1>3. AddFrame(ch, f) =
        [open |-> ch.open, size |-> size, closed |-> ch.closed \/ f.last,
         highest |-> IF Prunes(ch, f) \/ f.number > ch.highest THEN f.number ELSE ch.highest,
         end |-> IF f.last THEN f.number ELSE ch.end, inputs |-> KeptInputs(ch, f) \cup {f}]
  BY <1>1, <1>2
<1>4. AddFrame(ch, f).size = size BY <1>3
<1> QED BY <1>3, <1>4 DEF size

(***************************************************************************)
(* The size after a frame that is not refused.  A frame is only pruned by  *)
(* the frame that closes the channel, when the size is still exactly what  *)
(* the channel holds: it restarts from the closing frame's.                *)
(***************************************************************************)
LEMMA AddFrameSize ==
  ASSUME NEW ch, OKChannel(ch), NEW f \in Frame, ~Refused(ch, f)
  PROVE  OKSize(AddFrame(ch, f))
<1> DEFINE new == AddFrame(ch, f)
           kept == KeptInputs(ch, f)
<1>1. /\ new.closed = (ch.closed \/ f.last)
      /\ new.inputs = kept \cup {f}
      /\ new.size = (IF Prunes(ch, f) THEN ch.size - InputSize(ch) ELSE ch.size) + f.size
  BY AddFrameFields
<1>2. /\ ch.inputs \in SUBSET Frame /\ IsFiniteSet(ch.inputs) /\ ch.closed \in BOOLEAN
      /\ ch.size \in 0..SizeOf(ch.inputs)
      /\ ~ch.closed => ch.size = SizeOf(ch.inputs)
      /\ InputSize(ch) = SizeOf(ch.inputs)
  BY InputSizeIs DEF OKChannel, OKSize
<1>3. f \notin ch.inputs
  BY DEF Refused, Numbers
<1>4. kept \in SUBSET ch.inputs /\ (~Prunes(ch, f) => kept = ch.inputs)
  BY DEF KeptInputs
<1>5. kept \in SUBSET Frame /\ IsFiniteSet(kept) /\ f \notin kept
  BY <1>2, <1>3, <1>4, FS_Subset
<1> HIDE DEF new, kept
<1>6. /\ IsFiniteSet(kept \cup {f}) /\ SizeOf(kept) \in Nat /\ f.size \in Nat
      /\ SizeOf(kept \cup {f}) = SizeOf(kept) + f.size
  BY <1>5, SizeOfAdd
<1>7. IsFiniteSet(new.inputs) /\ InputSize(new) = SizeOf(kept) + f.size
  BY <1>1, <1>6, InputSizeIs
<1>8. SizeOf(ch.inputs) \in Nat
  BY <1>2, SizeOfType
<1>9. ASSUME Prunes(ch, f) PROVE OKSize(new)
  <2>1. f.last /\ ~ch.closed
    BY <1>9 DEF Prunes, Refused
  <2>2. new.closed
    BY <1>1, <2>1
  <2>3. new.size = f.size
    BY <1>1, <1>2, <1>6, <1>8, <1>9, <2>1
  <2>4. new.size \in 0..InputSize(new)
    BY <1>6, <1>7, <2>3
  <2> QED BY <1>7, <2>2, <2>4 DEF OKSize
<1>10. ASSUME ~Prunes(ch, f) PROVE OKSize(new)
  <2>1. new.size = ch.size + f.size /\ InputSize(new) = SizeOf(ch.inputs) + f.size
    BY <1>1, <1>4, <1>7, <1>10
  <2>2. new.size \in 0..InputSize(new)
    BY <1>2, <1>6, <1>8, <2>1
  <2>3. ASSUME ~new.closed PROVE new.size = InputSize(new)
    BY <1>1, <1>2, <2>1, <2>3
  <2> QED BY <1>7, <2>2, <2>3 DEF OKSize
<1>11. OKSize(new)
  BY <1>9, <1>10
<1> QED BY <1>11 DEF new

(* A frame that is not refused leaves a channel with one frame a number,   *)
(* at most one of them closing, and none above it.                         *)
LEMMA AddFrameOK ==
  ASSUME NEW ch, OKChannel(ch), NEW f \in Frame, ~Refused(ch, f)
  PROVE  OKChannel(AddFrame(ch, f)) /\ AddFrame(ch, f).open = ch.open
<1> DEFINE new == AddFrame(ch, f)
<1>1. /\ new = [open |-> new.open, size |-> new.size, closed |-> new.closed,
                highest |-> new.highest, end |-> new.end, inputs |-> new.inputs]
      /\ new.open = ch.open
      /\ new.closed = (ch.closed \/ f.last)
      /\ new.highest = IF Prunes(ch, f) \/ f.number > ch.highest THEN f.number ELSE ch.highest
      /\ new.end = IF f.last THEN f.number ELSE ch.end
      /\ new.inputs = KeptInputs(ch, f) \cup {f}
  BY AddFrameFields
<1> HIDE DEF new
<1>2. f.number \in Nat /\ f.last \in BOOLEAN BY DEF Frame
<1>3. \A g \in ch.inputs : g.number \in Nat /\ g.last \in BOOLEAN /\ g.number # f.number
  BY DEF OKChannel, Frame, Refused, Numbers
<1>4. KeptInputs(ch, f) \subseteq ch.inputs BY DEF KeptInputs
<1>5. new.open \in Nat /\ new.closed \in BOOLEAN /\ new.highest \in Nat /\ new.end \in Nat
  BY <1>1, <1>2 DEF OKChannel
<1>6. new.inputs \subseteq Frame BY <1>1, <1>4 DEF OKChannel
<1>7. \A g, h \in new.inputs : g.number = h.number => g = h
  BY <1>1, <1>3, <1>4 DEF OKChannel
<1>8. ASSUME new.closed, NEW g \in new.inputs
      PROVE  g.number <= new.end /\ (g.last <=> g.number = new.end)
  <2>1. CASE g = f
    <3>1. CASE f.last BY <1>1, <1>2, <2>1, <3>1
    <3>2. CASE ~f.last
      <4>1. ch.closed BY <1>1, <1>8, <3>2
      <4>2. f.number < ch.end BY <1>2, <4>1 DEF Refused, OKChannel
      <4> QED BY <1>1, <1>2, <2>1, <3>2, <4>2 DEF OKChannel
    <3> QED BY <3>1, <3>2
  <2>2. CASE g # f
    <3>1. g \in ch.inputs /\ (Prunes(ch, f) => g.number < f.number)
      BY <1>1, <2>2 DEF KeptInputs
    <3>2. CASE f.last
      <4>1. ~ch.closed BY <3>2 DEF Refused
      <4>2. g.number <= ch.highest /\ ~g.last BY <3>1, <4>1 DEF OKChannel
      <4>3. g.number < f.number
        BY <1>2, <1>3, <3>1, <3>2, <4>2 DEF Prunes, OKChannel
      <4> QED BY <1>1, <1>2, <1>3, <3>1, <3>2, <4>2, <4>3
    <3>3. CASE ~f.last BY <1>1, <1>8, <3>1, <3>3 DEF OKChannel
    <3> QED BY <3>2, <3>3
  <2> QED BY <2>1, <2>2
<1>9. ASSUME ~new.closed, NEW g \in new.inputs
      PROVE  g.number <= new.highest /\ ~g.last
  <2>1. ~ch.closed /\ ~f.last BY <1>1, <1>9
  <2>2. ~Prunes(ch, f) BY <2>1 DEF Prunes
  <2>3. new.highest = IF f.number > ch.highest THEN f.number ELSE ch.highest
    BY <1>1, <2>2
  <2>4. CASE g = f BY <1>2, <2>1, <2>3, <2>4 DEF OKChannel
  <2>5. CASE g # f
    <3>1. g \in ch.inputs BY <1>1, <1>4, <2>5
    <3>2. g.number <= ch.highest /\ ~g.last BY <2>1, <3>1 DEF OKChannel
    <3> QED BY <1>2, <1>3, <2>3, <3>1, <3>2 DEF OKChannel
  <2> QED BY <2>4, <2>5
<1>10. OKSize(new) BY AddFrameSize DEF new
<1>11. OKChannel(new) BY <1>1, <1>5, <1>6, <1>7, <1>8, <1>9, <1>10 DEF OKChannel
<1> QED BY <1>1, <1>11 DEF new

LEMMA NewChannelOK ==
  ASSUME NEW at \in Nat
  PROVE  OKChannel(NewChannel(at)) /\ NewChannel(at).open = at
<1> DEFINE ch == NewChannel(at)
<1>1. IsFiniteSet({}) /\ SizeOf({}) = 0
  BY FS_EmptySet, SizeOfStep
<1>2. ch.inputs = {} /\ ch.size = 0
  BY DEF NewChannel
<1>3. InputSize(ch) = 0
  BY <1>1, <1>2, InputSizeIs
<1>4. OKSize(ch)
  BY <1>1, <1>2, <1>3 DEF OKSize
<1> QED BY <1>4 DEF OKChannel, NewChannel

(***************************************************************************)
(* Banks.                                                                  *)
(***************************************************************************)

LEMMA EmptyBankOK == ASSUME NEW at \in Nat PROVE OKBank(EmptyBank, at)
BY DEF OKBank, EmptyBank, Range

(* The bank stays in order as the L1 block advances. *)
LEMMA LaterBank ==
  ASSUME NEW b, NEW at \in Nat, NEW later \in Nat, at <= later, OKBank(b, at)
  PROVE  OKBank(b, later)
<1>1. ASSUME NEW i \in 1..Len(b.queue) PROVE OpenAt(b, i) <= later
  <2>1. OpenAt(b, i) \in Nat /\ OpenAt(b, i) <= at BY DEF OKBank, OKChannel, OpenAt
  <2> QED BY <2>1
<1> QED BY <1>1 DEF OKBank

(* Any channels can be taken out: what is left is still in order. *)
LEMMA SubBank ==
  ASSUME NEW b, NEW at \in Nat, OKBank(b, at),
         NEW r \in Seq(ChannelIDs),
         NEW e \in [1..Len(r) -> 1..Len(b.queue)],
         \A j \in 1..Len(r) : r[j] = b.queue[e[j]],
         \A i, j \in 1..Len(r) : i < j => e[i] < e[j]
  PROVE  OKBank([channels |-> Keep(b.channels, Range(r)), queue |-> r], at)
<1> DEFINE s == [channels |-> Keep(b.channels, Range(r)), queue |-> r]
<1>1. s.queue = r /\ s.channels = Keep(b.channels, Range(r)) OBVIOUS
<1>2. s = [channels |-> s.channels, queue |-> s.queue] OBVIOUS
<1> HIDE DEF s
<1>3. ASSUME NEW i \in 1..Len(r), NEW j \in 1..Len(r), r[i] = r[j] PROVE i = j
  <2>1. e[i] = e[j] BY <1>3 DEF OKBank
  <2>2. ~(i < j) /\ ~(j < i) BY <2>1
  <2> QED BY <2>2
<1>4. s.channels = [id \in Range(r) |-> s.channels[id]] BY <1>1 DEF Keep
<1>5. \A i \in 1..Len(r) : r[i] \in Range(r)
  <2>1. DOMAIN r = 1..Len(r) OBVIOUS
  <2> QED BY <2>1 DEF Range
<1>6. \A i \in 1..Len(r) : s.channels[r[i]] = b.channels[b.queue[e[i]]]
  BY <1>1, <1>5 DEF Keep
<1>7. \A i \in 1..Len(r) : OpenAt(s, i) = OpenAt(b, e[i]) BY <1>1, <1>6 DEF OpenAt
<1>8. \A i \in 1..Len(r) : OKChannel(s.channels[r[i]]) /\ OpenAt(s, i) <= at
  BY <1>6, <1>7 DEF OKBank
<1>9. \A i, j \in 1..Len(r) : i < j => OpenAt(s, i) <= OpenAt(s, j)
  BY <1>7 DEF OKBank
<1>10. OKBank(s, at) BY <1>1, <1>2, <1>3, <1>4, <1>8, <1>9 DEF OKBank
<1> QED BY <1>10 DEF s

LEMMA RemovedOK ==
  ASSUME NEW b, NEW at \in Nat, OKBank(b, at), NEW i \in 1..Len(b.queue)
  PROVE  OKBank(Removed(b, i), at)
<1> DEFINE q == b.queue
           r == RemoveAt(q, i)
           e == [j \in 1..Len(r) |-> IF j < i THEN j ELSE j + 1]
<1>1. q \in Seq(ChannelIDs) /\ Len(q) \in Nat /\ i \in 1..Len(q) BY DEF OKBank
<1> HIDE DEF q
<1>2. /\ r \in Seq(ChannelIDs)
      /\ Len(r) = Len(q) - 1
      /\ \A j \in 1..Len(r) : r[j] = IF j < i THEN q[j] ELSE q[j + 1]
  <2> DEFINE s1 == SubSeq(q, 1, i - 1)
             s2 == SubSeq(q, i + 1, Len(q))
  <2>1. s1 \in Seq(ChannelIDs) /\ Len(s1) = i - 1 /\ \A j \in 1..(i - 1) : s1[j] = q[j]
    BY <1>1
  <2>2. s2 \in Seq(ChannelIDs) /\ Len(s2) = Len(q) - i /\ \A j \in 1..(Len(q) - i) : s2[j] = q[j + i]
    BY <1>1
  <2>3. r = s1 \o s2 BY DEF RemoveAt
  <2> HIDE DEF s1, s2, r
  <2>4. /\ r \in Seq(ChannelIDs) /\ Len(r) = Len(s1) + Len(s2)
        /\ \A j \in 1..(Len(s1) + Len(s2)) :
             r[j] = IF j <= Len(s1) THEN s1[j] ELSE s2[j - Len(s1)]
    BY <2>1, <2>2, <2>3, ConcatProperties
  <2>5. Len(r) = Len(q) - 1 BY <1>1, <2>1, <2>2, <2>4
  <2>6. ASSUME NEW j \in 1..Len(r), j < i PROVE r[j] = q[j]
    <3>1. j \in 1..(i - 1) /\ j <= Len(s1) BY <1>1, <2>1, <2>5, <2>6
    <3>2. r[j] = s1[j] BY <2>4, <3>1
    <3> QED BY <2>1, <3>1, <3>2
  <2>7. ASSUME NEW j \in 1..Len(r), ~(j < i) PROVE r[j] = q[j + 1]
    <3>1. r[j] = s2[j - (i - 1)]
      <4>1. j \in 1..(Len(s1) + Len(s2)) /\ ~(j <= Len(s1)) BY <1>1, <2>1, <2>4, <2>7
      <4> QED BY <2>1, <2>4, <4>1
    <3>2. j - (i - 1) \in 1..(Len(q) - i) /\ j - (i - 1) + i = j + 1 BY <1>1, <2>5, <2>7
    <3> QED BY <2>2, <3>1, <3>2
  <2> QED BY <2>4, <2>5, <2>6, <2>7
<1> HIDE DEF r
<1>3. e \in [1..Len(r) -> 1..Len(q)] BY <1>1, <1>2
<1>4. \A j \in 1..Len(r) : r[j] = q[e[j]] BY <1>1, <1>2
<1>5. \A j, k \in 1..Len(r) : j < k => e[j] < e[k] BY <1>1, <1>2
<1>6. Range(r) = Range(q) \ {q[i]}
  <2>1. DOMAIN r = 1..Len(r) /\ DOMAIN q = 1..Len(q) BY <1>1, <1>2
  <2>2. ASSUME NEW j \in 1..Len(q), j # i PROVE \E k \in 1..Len(r) : r[k] = q[j]
    <3>1. CASE j < i
      <4>1. j \in 1..Len(r) BY <1>1, <1>2, <3>1
      <4>2. r[j] = q[j] BY <1>2, <3>1, <4>1
      <4> QED BY <4>1, <4>2
    <3>2. CASE j > i
      <4>1. j - 1 \in 1..Len(r) /\ ~(j - 1 < i) /\ (j - 1) + 1 = j BY <1>1, <1>2, <3>2
      <4>2. r[j - 1] = q[j] BY <1>2, <4>1
      <4> QED BY <4>1, <4>2
    <3> QED BY <1>1, <2>2, <3>1, <3>2
  <2>3. ASSUME NEW k \in 1..Len(r) PROVE r[k] \in Range(q) /\ r[k] # q[i]
    <3>1. e[k] \in 1..Len(q) /\ e[k] # i /\ r[k] = q[e[k]] BY <1>1, <1>2
    <3>2. q[e[k]] # q[i] BY <1>1, <3>1 DEF OKBank, q
    <3> HIDE DEF e
    <3> QED BY <2>1, <3>1, <3>2 DEF Range
  <2>4. Range(r) \subseteq Range(q) \ {q[i]} BY <2>1, <2>3 DEF Range
  <2>5. ASSUME NEW x \in Range(q), x # q[i] PROVE x \in Range(r)
    <3>1. PICK j \in 1..Len(q) : x = q[j] BY <2>1 DEF Range
    <3>2. j # i BY <2>5, <3>1
    <3> QED BY <2>1, <2>2, <3>1, <3>2 DEF Range
  <2> QED BY <2>4, <2>5
<1>7. DOMAIN b.channels = Range(q) BY DEF OKBank, q
<1>8. Removed(b, i) = [channels |-> Keep(b.channels, Range(r)), queue |-> r]
  BY <1>6, <1>7 DEF Removed, q, r
<1> HIDE DEF e
<1>9. e \in [1..Len(r) -> 1..Len(b.queue)] /\ \A j \in 1..Len(r) : r[j] = b.queue[e[j]]
  BY <1>3, <1>4 DEF q
<1>10. OKBank([channels |-> Keep(b.channels, Range(r)), queue |-> r], at)
  BY <1>2, <1>5, <1>9, SubBank
<1> QED BY <1>8, <1>10

(* Whatever prune drops, the rest of the queue is in order. *)
LEMMA PrunedOK ==
  ASSUME NEW b, NEW at \in Nat, OKBank(b, at), NEW p \in Pruned(b)
  PROVE  OKBank(p, at)
<1> DEFINE q == b.queue
<1>1. q \in Seq(ChannelIDs) /\ Len(q) \in Nat /\ DOMAIN q = 1..Len(q) BY DEF OKBank
<1>2. PICK k \in 1..(Len(q) + 1) :
        p = [channels |-> Keep(b.channels, {q[i] : i \in k..Len(q)}),
             queue |-> SubSeq(q, k, Len(q))]
  BY DEF Pruned
<1> DEFINE r == SubSeq(q, k, Len(q))
           e == [j \in 1..Len(r) |-> j + k - 1]
<1> HIDE DEF q
<1>3. r \in Seq(ChannelIDs) /\ Len(r) = Len(q) - k + 1 /\ \A j \in 1..Len(r) : r[j] = q[j + k - 1]
  BY <1>1
<1>4. p = [channels |-> Keep(b.channels, {q[i] : i \in k..Len(q)}), queue |-> r]
  BY <1>2
<1> HIDE DEF r
<1>5. Range(r) = {q[i] : i \in k..Len(q)}
  <2>1. DOMAIN r = 1..Len(r) BY <1>3
  <2>2. ASSUME NEW i \in k..Len(q) PROVE \E j \in 1..Len(r) : r[j] = q[i]
    <3>1. i - k + 1 \in 1..Len(r) /\ (i - k + 1) + k - 1 = i BY <1>1, <1>3
    <3>2. r[i - k + 1] = q[i] BY <1>3, <3>1
    <3> QED BY <3>1, <3>2
  <2>3. ASSUME NEW j \in 1..Len(r) PROVE \E i \in k..Len(q) : r[j] = q[i]
    <3>1. j + k - 1 \in k..Len(q) BY <1>1, <1>3
    <3> QED BY <1>3, <3>1
  <2>4. Range(r) \subseteq {q[i] : i \in k..Len(q)} BY <2>1, <2>3 DEF Range
  <2>5. {q[i] : i \in k..Len(q)} \subseteq Range(r) BY <2>1, <2>2 DEF Range
  <2> QED BY <2>4, <2>5
<1>6. e \in [1..Len(r) -> 1..Len(q)] BY <1>1, <1>3
<1>7. \A j \in 1..Len(r) : r[j] = q[e[j]] BY <1>1, <1>3
<1>8. \A i, j \in 1..Len(r) : i < j => e[i] < e[j] BY <1>1, <1>3
<1> HIDE DEF e
<1>9. e \in [1..Len(r) -> 1..Len(b.queue)] /\ \A j \in 1..Len(r) : r[j] = b.queue[e[j]]
  BY <1>6, <1>7 DEF q
<1>10. OKBank([channels |-> Keep(b.channels, Range(r)), queue |-> r], at)
  BY <1>3, <1>8, <1>9, SubBank
<1> QED BY <1>4, <1>5, <1>10

(* A new channel goes to the end of the queue, opened at the current block. *)
LEMMA OpenedOK ==
  ASSUME NEW b, NEW at \in Nat, OKBank(b, at), NEW id \in ChannelIDs
  PROVE  OKBank(Opened(b, id, at), at) /\ id \in Range(Opened(b, id, at).queue)
<1> DEFINE q == b.queue
           o == Opened(b, id, at)
<1>1. q \in Seq(ChannelIDs) /\ Len(q) \in Nat /\ DOMAIN q = 1..Len(q) BY DEF OKBank
<1>2. DOMAIN b.channels = Range(q) BY DEF OKBank
<1>3. CASE id \in DOMAIN b.channels BY <1>2, <1>3 DEF Opened
<1>4. CASE id \notin DOMAIN b.channels
  <2> DEFINE r == Append(q, id)
             c == [x \in Range(q) \cup {id} |->
                     IF x = id THEN NewChannel(at) ELSE b.channels[x]]
  <2>1. o = [channels |-> c, queue |-> r] BY <1>2, <1>4 DEF Opened
  <2>2. /\ r \in Seq(ChannelIDs) /\ Len(r) = Len(q) + 1 /\ DOMAIN r = 1..Len(r)
        /\ \A j \in 1..Len(q) : r[j] = q[j]
        /\ r[Len(r)] = id
    BY <1>1
  <2>3. o.channels = c /\ o.queue = r /\ o = [channels |-> o.channels, queue |-> o.queue]
    BY <2>1
  <2> HIDE DEF o, r, q
  <2>4. \A j \in 1..Len(q) : q[j] \in Range(q) /\ q[j] # id
    BY <1>1, <1>2, <1>4 DEF Range
  <2>5. Range(r) = Range(q) \cup {id}
    <3>1. ASSUME NEW x \in Range(r) PROVE x \in Range(q) \cup {id}
      <4>1. PICK j \in 1..Len(r) : x = r[j] BY <2>2 DEF Range
      <4>2. CASE j = Len(r) BY <2>2, <4>1, <4>2
      <4>3. CASE j # Len(r)
        <5>1. j \in 1..Len(q) BY <1>1, <2>2, <4>3
        <5> QED BY <2>2, <2>4, <4>1, <5>1
      <4> QED BY <4>2, <4>3
    <3>2. ASSUME NEW x \in Range(q) PROVE x \in Range(r)
      <4>1. PICK j \in 1..Len(q) : x = q[j] BY <1>1 DEF Range
      <4>2. j \in 1..Len(r) /\ r[j] = x BY <1>1, <2>2, <4>1
      <4> QED BY <2>2, <4>2 DEF Range
    <3>3. id \in Range(r)
      <4>1. Len(r) \in 1..Len(r) BY <1>1, <2>2
      <4> QED BY <2>2, <4>1 DEF Range
    <3> QED BY <3>1, <3>2, <3>3
  <2>6. o.channels = [x \in Range(r) |-> o.channels[x]] BY <2>3, <2>5
  <2>7. \A j \in 1..Len(q) : o.channels[r[j]] = b.channels[q[j]]
    BY <2>2, <2>3, <2>4
  <2>8. o.channels[r[Len(r)]] = NewChannel(at) BY <2>2, <2>3
  <2> HIDE DEF c
  <2>9. \A j \in 1..Len(q) : OKChannel(o.channels[r[j]]) /\ OpenAt(o, j) = OpenAt(b, j)
    BY <2>3, <2>7 DEF OKBank, OpenAt, q
  <2>10. OKChannel(o.channels[r[Len(r)]]) /\ OpenAt(o, Len(r)) = at
    BY <2>3, <2>8, NewChannelOK DEF OpenAt
  <2>11. \A j \in 1..Len(q) : OpenAt(b, j) \in Nat /\ OpenAt(b, j) <= at
    BY DEF OKBank, OKChannel, OpenAt, q
  <2>12. \A j \in 1..Len(r) : j \in 1..Len(q) \/ j = Len(r) BY <1>1, <2>2
  <2>13. ASSUME NEW i \in 1..Len(r), NEW j \in 1..Len(r), r[i] = r[j] PROVE i = j
    <3>1. CASE i \in 1..Len(q) /\ j \in 1..Len(q)
      BY <2>2, <2>13, <3>1 DEF OKBank, q
    <3>2. CASE i = Len(r) \/ j = Len(r) BY <2>2, <2>4, <2>12, <2>13, <3>2
    <3> QED BY <2>12, <3>1, <3>2
  <2>14. ASSUME NEW i \in 1..Len(r) PROVE OKChannel(o.channels[r[i]]) /\ OpenAt(o, i) <= at
    BY <2>9, <2>10, <2>11, <2>12
  <2>15. ASSUME NEW i \in 1..Len(r), NEW j \in 1..Len(r), i < j
         PROVE  OpenAt(o, i) <= OpenAt(o, j)
    <3>1. i \in 1..Len(q) BY <1>1, <2>2, <2>15
    <3>2. CASE j \in 1..Len(q) BY <2>9, <2>15, <3>1, <3>2 DEF OKBank, q
    <3>3. CASE j = Len(r) BY <2>9, <2>10, <2>11, <3>1, <3>3
    <3> QED BY <2>12, <3>2, <3>3
  <2>16. OKBank(o, at) BY <2>2, <2>3, <2>6, <2>13, <2>14, <2>15 DEF OKBank
  <2> QED BY <2>3, <2>5, <2>16 DEF o
<1> QED BY <1>3, <1>4

(* A channel of the bank is replaced by one opened at the same block. *)
LEMMA ReplacedOK ==
  ASSUME NEW b, NEW at \in Nat, OKBank(b, at), NEW id \in Range(b.queue),
         NEW new, OKChannel(new), new.open = b.channels[id].open
  PROVE  OKBank([b EXCEPT !.channels[id] = new], at)
<1> DEFINE o == [b EXCEPT !.channels[id] = new]
           q == b.queue
<1>1. PICK c, r : b = [channels |-> c, queue |-> r] BY DEF OKBank
<1>2. o = [channels |-> [b.channels EXCEPT ![id] = new], queue |-> q] BY <1>1
<1>3. /\ o.channels = [b.channels EXCEPT ![id] = new] /\ o.queue = q
      /\ o = [channels |-> o.channels, queue |-> o.queue]
  BY <1>2
<1>4. q \in Seq(ChannelIDs) /\ DOMAIN q = 1..Len(q) BY DEF OKBank
<1>5. b.channels = [x \in Range(q) |-> b.channels[x]] BY DEF OKBank
<1> HIDE DEF o
<1>6. o.channels = [x \in Range(q) |-> o.channels[x]] BY <1>3, <1>5
<1>7. \A x \in Range(q) : o.channels[x] = IF x = id THEN new ELSE b.channels[x]
  BY <1>3, <1>5
<1>8. \A i \in 1..Len(q) : q[i] \in Range(q) BY <1>4 DEF Range
<1>9. \A i \in 1..Len(q) : OKChannel(o.channels[q[i]]) /\ OpenAt(o, i) = OpenAt(b, i)
  <2> SUFFICES ASSUME NEW i \in 1..Len(q)
               PROVE  OKChannel(o.channels[q[i]]) /\ OpenAt(o, i) = OpenAt(b, i)
    OBVIOUS
  <2>1. OKChannel(b.channels[q[i]]) BY DEF OKBank
  <2> QED BY <1>3, <1>7, <1>8, <2>1 DEF OpenAt
<1>10. OKBank(o, at) BY <1>3, <1>4, <1>6, <1>9 DEF OKBank
<1> QED BY <1>10 DEF o

LEMMA IngestFrameOK ==
  ASSUME NEW b, NEW at \in Nat, OKBank(b, at), NEW f \in Frame,
         NEW p \in IngestFrame(b, f, at)
  PROVE  OKBank(p, at)
<1> DEFINE o  == Opened(b, f.id, at)
           ch == o.channels[f.id]
<1>1. f.id \in ChannelIDs BY DEF Frame
<1>2. OKBank(o, at) /\ f.id \in Range(o.queue) BY <1>1, OpenedOK
<1>3. CASE TimedOut(ch, at) \/ Refused(ch, f)
  <2>1. p = o BY <1>3 DEF IngestFrame
  <2> QED BY <1>2, <2>1
<1>4. CASE ~(TimedOut(ch, at) \/ Refused(ch, f))
  <2>1. p \in Pruned([o EXCEPT !.channels[f.id] = AddFrame(ch, f)])
    BY <1>4 DEF IngestFrame
  <2> HIDE DEF o
  <2>2. OKChannel(ch)
    <3>1. o.queue \in Seq(ChannelIDs) BY <1>2 DEF OKBank
    <3>2. PICK i \in 1..Len(o.queue) : f.id = o.queue[i] BY <1>2, <3>1 DEF Range
    <3> QED BY <1>2, <3>2 DEF OKBank
  <2>3. OKChannel(AddFrame(ch, f)) /\ AddFrame(ch, f).open = ch.open
    BY <1>4, <2>2, AddFrameOK
  <2>4. OKBank([o EXCEPT !.channels[f.id] = AddFrame(ch, f)], at)
    BY <1>2, <2>3, ReplacedOK
  <2> QED BY <2>1, <2>4, PrunedOK
<1> QED BY <1>3, <1>4

(***************************************************************************)
(* The invariant.                                                          *)
(***************************************************************************)

LEMMA LoadFrameInv ==
  ASSUME Inv, NEW queued \in Seq(Frame), queued # << >>, LoadFrame(queued)
  PROVE  OKBank(bank', origin) /\ frames' \in Seq(Frame)
<1>1. queued[1] \in Frame /\ Tail(queued) \in Seq(Frame) OBVIOUS
<1> QED BY <1>1, IngestFrameOK DEF Inv, LoadFrame

LEMMA StepInv == Inv /\ [Next]_vars => Inv'
<1> SUFFICES ASSUME Inv, [Next]_vars PROVE Inv' OBVIOUS
<1>1. OKBank(bank, origin) /\ frames \in Seq(Frame) /\ origin \in Nat BY DEF Inv
<1>2. bank.queue \in Seq(ChannelIDs) BY <1>1 DEF OKBank
<1>3. ASSUME NEW i \in 1..Len(bank.queue), bank' = Removed(bank, i), UNCHANGED <<frames, origin>>
      PROVE  Inv'
  BY <1>1, <1>3, RemovedOK DEF Inv
<1>4. CASE ReadTimedOut
  <2>1. 1 \in 1..Len(bank.queue) BY <1>2, <1>4 DEF ReadTimedOut, HeadTimedOut
  <2> QED BY <1>3, <1>4, <2>1 DEF ReadTimedOut
<1>5. CASE ReadChannel
  <2>1. PICK i \in ReadIndex(bank, origin) : bank' = Removed(bank, i)
    BY <1>5 DEF ReadChannel
  <2>2. i \in 1..Len(bank.queue) BY DEF ReadIndex
  <2> QED BY <1>3, <1>5, <2>1, <2>2 DEF ReadChannel
<1>6. CASE NextFrame
  <2>1. origin' = origin BY <1>6 DEF NextFrame
  <2>2. PICK queued \in Seq(Frame) : queued # << >> /\ LoadFrame(queued)
    <3>1. CASE frames # << >> /\ LoadFrame(frames) BY <1>1, <3>1
    <3>2. CASE \E n \in 1..MaxTxFrames : \E tx \in [1..n -> Frame] : LoadFrame(tx)
      <4>1. PICK n \in 1..MaxTxFrames : \E tx \in [1..n -> Frame] : LoadFrame(tx) BY <3>2
      <4>2. PICK tx \in [1..n -> Frame] : LoadFrame(tx) BY <4>1
      <4>3. n \in Nat /\ n > 0 BY ChannelBankAssumption
      <4>4. tx \in Seq(Frame) /\ Len(tx) = n BY <4>3
      <4> QED BY <4>2, <4>3, <4>4
    <3> QED BY <1>6, <3>1, <3>2 DEF NextFrame
  <2>3. OKBank(bank', origin) /\ frames' \in Seq(Frame) BY <2>2, LoadFrameInv
  <2> QED BY <1>1, <2>1, <2>3 DEF Inv
<1>7. CASE AdvanceL1Block
  <2>1. bank' = bank /\ frames' = frames /\ origin' = origin + 1 BY <1>7 DEF AdvanceL1Block
  <2>2. OKBank(bank, origin + 1) BY <1>1, LaterBank
  <2> QED BY <1>1, <2>1, <2>2 DEF Inv
<1>8. CASE Reset
  <2>1. bank' = EmptyBank /\ frames' = << >> /\ origin' \in Nat BY <1>1, <1>8 DEF Reset
  <2> QED BY <2>1, EmptyBankOK DEF Inv
<1>9. CASE UNCHANGED vars
  <2>1. bank' = bank /\ frames' = frames /\ origin' = origin BY <1>9 DEF vars
  <2> QED BY <1>1, <2>1 DEF Inv
<1> QED BY <1>4, <1>5, <1>6, <1>7, <1>8, <1>9 DEF Next

(***************************************************************************)
(* In every reachable state each channel holds one frame a number, at most *)
(* one of them closing (AddFrame's checks and its pruning), and the queue  *)
(* is in the order the channels were opened in.                            *)
(***************************************************************************)
THEOREM Invariance == Spec => []Inv
<1>1. Init => Inv
  <2> SUFFICES ASSUME Init PROVE Inv OBVIOUS
  <2>1. bank = EmptyBank /\ frames = << >> /\ origin = 0 BY DEF Init
  <2> QED BY <2>1, EmptyBankOK DEF Inv
<1> QED BY <1>1, StepInv, PTL DEF Spec

(***************************************************************************)
(* When Read has nothing to give, no channel in the bank is timed out:     *)
(* removing only the first channel of the queue is enough, for the others  *)
(* were opened later.                                                      *)
(***************************************************************************)
THEOREM TimedOutChannelsGo == Spec => []NoTimedOutLeft
<1>1. Inv => NoTimedOutLeft
  <2> SUFFICES ASSUME Inv, ~HeadTimedOut(bank, origin), NEW id \in DOMAIN bank.channels
               PROVE  ~TimedOut(bank.channels[id], origin)
    BY DEF NoTimedOutLeft, NothingToRead
  <2>1. OKBank(bank, origin) /\ origin \in Nat BY DEF Inv
  <2>2. bank.queue \in Seq(ChannelIDs) /\ DOMAIN bank.channels = Range(bank.queue)
    BY <2>1 DEF OKBank
  <2>3. PICK i \in 1..Len(bank.queue) : id = bank.queue[i] BY <2>2 DEF Range
  <2>4. 1 \in 1..Len(bank.queue) /\ bank.queue # << >> BY <2>2, <2>3
  <2>5. ~TimedOut(bank.channels[bank.queue[1]], origin) BY <2>4 DEF HeadTimedOut
  <2>6. OpenAt(bank, 1) \in Nat /\ OpenAt(bank, i) \in Nat
    BY <2>1, <2>4 DEF OKBank, OKChannel, OpenAt
  <2>7. OpenAt(bank, 1) <= OpenAt(bank, i)
    <3>1. CASE i = 1 BY <2>6, <3>1
    <3>2. CASE i # 1
      <4>1. 1 < i BY <2>2, <3>2
      <4> QED BY <2>1, <2>4, <4>1 DEF OKBank
    <3> QED BY <3>1, <3>2
  <2>8. ~(OpenAt(bank, 1) + ChannelTimeout < origin) BY <2>5 DEF TimedOut, OpenAt
  <2>9. ~(OpenAt(bank, i) + ChannelTimeout < origin)
    BY <2>1, <2>6, <2>7, <2>8, ChannelBankAssumption
  <2> QED BY <2>3, <2>9 DEF TimedOut, OpenAt
<1> QED BY <1>1, Invariance, PTL

(***************************************************************************)
(* A channel that Read hands out is whole: one frame for each number from  *)
(* 0 to the closing frame's, and only that one closes it, in whatever      *)
(* order, and however often, the frames were on L1.                        *)
(***************************************************************************)
THEOREM ChannelsReadWhole == Spec => []ReadIsComplete
<1>1. Inv => ReadIsComplete
  <2> SUFFICES ASSUME Inv, NEW i \in ReadIndex(bank, origin)
               PROVE  LET ch == bank.channels[bank.queue[i]]
                      IN  \A n \in 0..ch.end : \E g \in ch.inputs :
                            /\ g.number = n /\ (g.last <=> n = ch.end)
                            /\ \A h \in ch.inputs : h.number = n => h = g
    BY DEF ReadIsComplete
  <2> DEFINE ch == bank.channels[bank.queue[i]]
  <2>1. i \in 1..Len(bank.queue) /\ ch.closed /\ Numbers(ch) = 0..ch.end
    BY DEF ReadIndex, Readable, IsReady
  <2>2. OKChannel(ch) BY <2>1 DEF Inv, OKBank
  <2> HIDE DEF ch
  <2>3. ASSUME NEW n \in 0..ch.end
        PROVE  \E g \in ch.inputs : /\ g.number = n /\ (g.last <=> n = ch.end)
                                    /\ \A h \in ch.inputs : h.number = n => h = g
    <3>1. PICK g \in ch.inputs : g.number = n BY <2>1 DEF Numbers
    <3>2. g.last <=> n = ch.end BY <2>1, <2>2, <3>1 DEF OKChannel
    <3>3. \A h \in ch.inputs : h.number = n => h = g BY <2>2, <3>1 DEF OKChannel
    <3> QED BY <3>1, <3>2, <3>3
  <2> QED BY <2>3 DEF ch
<1> QED BY <1>1, Invariance, PTL

(***************************************************************************)
(* The map and the queue hold the same channels, each once, and every      *)
(* channel has its type, its size included.                                *)
(***************************************************************************)
THEOREM TypeCorrect == Spec => []TypeOK
<1>1. Inv => TypeOK
  <2> SUFFICES ASSUME Inv PROVE TypeOK
    OBVIOUS
  <2>1. OKBank(bank, origin) /\ frames \in Seq(Frame) /\ origin \in Nat
    BY DEF Inv
  <2>2. bank.queue \in Seq(ChannelIDs) /\ DOMAIN bank.queue = 1..Len(bank.queue)
    BY <2>1 DEF OKBank
  <2>3. IsInjective(bank.queue)
    BY <2>1, <2>2 DEF OKBank, IsInjective
  <2>4. ASSUME NEW id \in Range(bank.queue) PROVE bank.channels[id] \in Channel
    <3> DEFINE ch == bank.channels[id]
    <3>1. PICK i \in 1..Len(bank.queue) : id = bank.queue[i]
      BY <2>2 DEF Range
    <3>2. OKChannel(ch)
      BY <2>1, <3>1 DEF OKBank
    <3> HIDE DEF ch
    <3>3. ch.inputs \in SUBSET Frame /\ IsFiniteSet(ch.inputs) /\ ch.size \in 0..SizeOf(ch.inputs)
      BY <3>2, InputSizeIs DEF OKChannel, OKSize
    <3>4. ch.size \in Int
      BY <3>3, SizeOfType
    <3>5. ch \in Channel
      BY <3>2, <3>4 DEF OKChannel, Channel
    <3> QED BY <3>5 DEF ch
  <2>5. bank.channels = [id \in Range(bank.queue) |-> bank.channels[id]]
    BY <2>1 DEF OKBank
  <2>6. bank.channels \in [Range(bank.queue) -> Channel]
    BY <2>4, <2>5
  <2> QED BY <2>1, <2>2, <2>3, <2>6 DEF TypeOK
<1> QED BY <1>1, Invariance, PTL

(***************************************************************************)
(* The size of a channel, an unsigned number in the code, never underflows *)
(* although AddFrame's pruning loop takes off the size of every input, the *)
(* kept ones too; and it never exceeds what the channel holds.             *)
(***************************************************************************)
THEOREM SizesNeverUnderflow == Spec => []SizeNeverUnderflows
<1>1. Inv => SizeNeverUnderflows
  <2> SUFFICES ASSUME Inv, NEW id \in DOMAIN bank.channels
               PROVE  bank.channels[id].size \in 0..InputSize(bank.channels[id])
    BY DEF SizeNeverUnderflows
  <2>1. OKBank(bank, origin)
    BY DEF Inv
  <2>2. bank.queue \in Seq(ChannelIDs) /\ DOMAIN bank.channels = Range(bank.queue)
    BY <2>1 DEF OKBank
  <2>3. PICK i \in 1..Len(bank.queue) : id = bank.queue[i]
    BY <2>2 DEF Range
  <2> QED BY <2>1, <2>3 DEF OKBank, OKChannel, OKSize
<1> QED BY <1>1, Invariance, PTL
=============================================================================
