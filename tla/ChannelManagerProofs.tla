------------------------ MODULE ChannelManagerProofs ------------------------
(***************************************************************************)
(* Proofs about ChannelManager, for every configuration and bound: the     *)
(* typing, that no frame is lost, that no block is lost before Close, that *)
(* Close leaves only full channels to drain, and that no channel submitted *)
(* in part is given up.                                                    *)
(***************************************************************************)
EXTENDS ChannelManager, SequenceTheorems, FiniteSetTheorems, WellFoundedInduction, TLAPS

-----------------------------------------------------------------------------
(* Sequences. *)

(* Every position holds an element. *)
LEMMA ElementInRange ==
  ASSUME NEW S, NEW s \in Seq(S)
  PROVE  \A i \in 1..Len(s) : s[i] \in Range(s)
<1>1. DOMAIN s = 1..Len(s)
  OBVIOUS
<1> QED BY <1>1 DEF Range

(* The elements of s, when a new one is appended. *)
LEMMA AppendRange ==
  ASSUME NEW S, NEW s \in Seq(S), NEW e \in S
  PROVE  /\ Append(s, e) \in Seq(S)
         /\ Range(Append(s, e)) = Range(s) \cup {e}
         /\ IsInjective(s) /\ e \notin Range(s) => IsInjective(Append(s, e))
<1>1. /\ Append(s, e) \in Seq(S)
      /\ Len(Append(s, e)) = Len(s) + 1
      /\ \A i \in 1..Len(s) : Append(s, e)[i] = s[i]
      /\ Append(s, e)[Len(s) + 1] = e
      /\ DOMAIN s = 1..Len(s) /\ DOMAIN Append(s, e) = 1..(Len(s) + 1)
      /\ Len(s) \in Nat
  OBVIOUS
<1>2. Range(Append(s, e)) = Range(s) \cup {e}
  BY <1>1 DEF Range
<1>3. ASSUME IsInjective(s), e \notin Range(s)
      PROVE  IsInjective(Append(s, e))
  BY <1>1, <1>3 DEF IsInjective, Range
<1> QED BY <1>1, <1>2, <1>3

(* The elements of a sequence are those of its two parts. *)
LEMMA SplitRange ==
  ASSUME NEW S, NEW s \in Seq(S), NEW k \in 0..Len(s)
  PROVE  /\ SubSeq(s, 1, k) \in Seq(S)
         /\ SubSeq(s, k + 1, Len(s)) \in Seq(S)
         /\ Range(s) = Range(SubSeq(s, 1, k)) \cup Range(SubSeq(s, k + 1, Len(s)))
<1> DEFINE a == SubSeq(s, 1, k)
           b == SubSeq(s, k + 1, Len(s))
<1>1. /\ a \in Seq(S) /\ b \in Seq(S)
      /\ DOMAIN a = 1..k /\ DOMAIN b = 1..(Len(s) - k) /\ DOMAIN s = 1..Len(s)
      /\ \A i \in 1..k : a[i] = s[i]
      /\ \A i \in 1..(Len(s) - k) : b[i] = s[k + i]
  BY SubSeqProperties
<1> HIDE DEF a, b
<1>2. ASSUME NEW x \in Range(s)
      PROVE  x \in Range(a) \cup Range(b)
  <2>1. PICK i \in 1..Len(s) : x = s[i]
    BY <1>1, <1>2 DEF Range
  <2>2. CASE i <= k
    <3>1. i \in DOMAIN a /\ a[i] = x
      BY <1>1, <2>1, <2>2
    <3> QED BY <3>1 DEF Range
  <2>3. CASE i > k
    <3>1. i - k \in 1..(Len(s) - k) /\ b[i - k] = s[i]
      BY <1>1, <2>3
    <3> QED BY <1>1, <2>1, <3>1 DEF Range
  <2> QED BY <2>1, <2>2, <2>3
<1>3. Range(a) \subseteq Range(s)
  BY <1>1 DEF Range
<1>4. Range(b) \subseteq Range(s)
  <2>1. \A i \in 1..(Len(s) - k) : k + i \in 1..Len(s)
    OBVIOUS
  <2> QED BY <1>1, <2>1 DEF Range
<1> QED BY <1>1, <1>2, <1>3, <1>4 DEF a, b

(* Taking the first element of a sequence without repetitions. *)
LEMMA TailRange ==
  ASSUME NEW S, NEW s \in Seq(S), s # << >>, IsInjective(s)
  PROVE  /\ Tail(s) \in Seq(S)
         /\ Head(s) \in Range(s) /\ Head(s) \in S
         /\ Range(Tail(s)) = Range(s) \ {Head(s)}
         /\ IsInjective(Tail(s))
<1>1. /\ Tail(s) \in Seq(S)
      /\ Len(s) \in Nat /\ Len(s) >= 1
      /\ DOMAIN s = 1..Len(s) /\ DOMAIN Tail(s) = 1..(Len(s) - 1)
      /\ \A i \in 1..(Len(s) - 1) : Tail(s)[i] = s[i + 1]
      /\ Head(s) = s[1] /\ s[1] \in S
  OBVIOUS
<1>2. Head(s) \in Range(s)
  BY <1>1 DEF Range
<1>3. Range(Tail(s)) \subseteq Range(s) \ {Head(s)}
  <2>1. \A i \in 1..(Len(s) - 1) : i + 1 \in 1..Len(s) /\ s[i + 1] # s[1]
    BY <1>1 DEF IsInjective
  <2> QED BY <1>1, <2>1 DEF Range
<1>4. ASSUME NEW x \in Range(s) \ {Head(s)}
      PROVE  x \in Range(Tail(s))
  <2>1. PICK i \in 1..Len(s) : x = s[i]
    BY <1>1, <1>4 DEF Range
  <2>2. i - 1 \in 1..(Len(s) - 1) /\ Tail(s)[i - 1] = x
    BY <1>1, <1>4, <2>1
  <2> QED BY <1>1, <2>2 DEF Range
<1>5. IsInjective(Tail(s))
  BY <1>1 DEF IsInjective
<1> QED BY <1>1, <1>2, <1>3, <1>4, <1>5

(* removePendingChannel on a queue without repetitions. *)
LEMMA RemoveAtRange ==
  ASSUME NEW S, NEW s \in Seq(S), NEW i \in 1..Len(s), IsInjective(s)
  PROVE  /\ RemoveAt(s, i) \in Seq(S)
         /\ Range(RemoveAt(s, i)) = Range(s) \ {s[i]}
         /\ IsInjective(RemoveAt(s, i))
<1> DEFINE r == RemoveAt(s, i)
<1>1. /\ SubSeq(s, 1, i - 1) \in Seq(S) /\ Len(SubSeq(s, 1, i - 1)) = i - 1
      /\ \A j \in 1..(i - 1) : SubSeq(s, 1, i - 1)[j] = s[j]
      /\ SubSeq(s, i + 1, Len(s)) \in Seq(S) /\ Len(SubSeq(s, i + 1, Len(s))) = Len(s) - i
      /\ \A j \in 1..(Len(s) - i) : SubSeq(s, i + 1, Len(s))[j] = s[i + j]
  BY SubSeqProperties
<1>2. /\ r \in Seq(S)
      /\ Len(r) = Len(s) - 1 /\ DOMAIN r = 1..(Len(s) - 1) /\ DOMAIN s = 1..Len(s)
      /\ \A j \in 1..(i - 1) : r[j] = s[j]
      /\ \A j \in i..(Len(s) - 1) : r[j] = s[j + 1]
  <2> DEFINE a == SubSeq(s, 1, i - 1)
             b == SubSeq(s, i + 1, Len(s))
  <2>1. /\ a \in Seq(S) /\ Len(a) = i - 1 /\ \A j \in 1..(i - 1) : a[j] = s[j]
        /\ b \in Seq(S) /\ Len(b) = Len(s) - i /\ \A j \in 1..(Len(s) - i) : b[j] = s[i + j]
    BY <1>1
  <2>2. r = a \o b
    BY DEF RemoveAt
  <2> HIDE DEF a, b, r
  <2>3. /\ a \o b \in Seq(S) /\ Len(a \o b) = Len(a) + Len(b)
        /\ \A j \in 1..Len(a) : (a \o b)[j] = a[j]
        /\ \A j \in (Len(a) + 1)..(Len(a) + Len(b)) : (a \o b)[j] = b[j - Len(a)]
    <3>1. /\ a \o b \in Seq(S) /\ Len(a \o b) = Len(a) + Len(b)
          /\ \A j \in 1..(Len(a) + Len(b)) :
               (a \o b)[j] = IF j <= Len(a) THEN a[j] ELSE b[j - Len(a)]
      BY <2>1, ConcatProperties
    <3>2. Len(a) \in Nat /\ Len(b) \in Nat
      BY <2>1
    <3> QED BY <3>1, <3>2
  <2>4. \A j \in i..(Len(s) - 1) : j - (i - 1) \in 1..(Len(s) - i) /\ i + (j - (i - 1)) = j + 1
    OBVIOUS
  <2>5. \A j \in i..(Len(s) - 1) : r[j] = s[j + 1]
    BY <2>1, <2>2, <2>3, <2>4
  <2>6. Len(r) = Len(s) - 1
    BY <2>1, <2>2, <2>3
  <2>7. DOMAIN r = 1..Len(r) /\ r \in Seq(S)
    BY <2>2, <2>3
  <2>8. \A j \in 1..(i - 1) : r[j] = s[j]
    BY <2>1, <2>2, <2>3
  <2>9. DOMAIN s = 1..Len(s)
    OBVIOUS
  <2> QED BY <2>5, <2>6, <2>7, <2>8, <2>9
<1> HIDE DEF r
<1>3. Range(r) \subseteq Range(s) \ {s[i]}
  <2>1. \A j \in 1..(Len(s) - 1) :
          \E m \in 1..Len(s) : m # i /\ r[j] = s[m]
    <3> SUFFICES ASSUME NEW j \in 1..(Len(s) - 1)
                 PROVE  \E m \in 1..Len(s) : m # i /\ r[j] = s[m]
      OBVIOUS
    <3>1. CASE j < i
      BY <1>2, <3>1
    <3>2. CASE j >= i
      BY <1>2, <3>2
    <3> QED BY <3>1, <3>2
  <2>2. \A x, y \in 1..Len(s) : s[x] = s[y] => x = y
    BY <1>2 DEF IsInjective
  <2>3. ASSUME NEW j \in 1..(Len(s) - 1)
        PROVE  r[j] \in Range(s) \ {s[i]}
    <3>1. PICK m \in 1..Len(s) : m # i /\ r[j] = s[m]
      BY <2>1
    <3>2. s[m] \in Range(s)
      BY <1>2 DEF Range
    <3> QED BY <2>2, <3>1, <3>2
  <2> QED BY <1>2, <2>3 DEF Range
<1>4. ASSUME NEW x \in Range(s) \ {s[i]}
      PROVE  x \in Range(r)
  <2>1. PICK m \in 1..Len(s) : x = s[m] /\ m # i
    BY <1>2, <1>4 DEF Range
  <2>2. CASE m < i
    BY <1>2, <2>1, <2>2 DEF Range
  <2>3. CASE m > i
    <3>1. m - 1 \in 1..(Len(s) - 1) /\ r[m - 1] = x
      BY <1>2, <2>1, <2>3
    <3> QED BY <1>2, <3>1 DEF Range
  <2> QED BY <2>1, <2>2, <2>3
<1>5. IsInjective(r)
  <2> SUFFICES ASSUME NEW a \in 1..(Len(s) - 1), NEW b \in 1..(Len(s) - 1), r[a] = r[b]
               PROVE  a = b
    BY <1>2 DEF IsInjective
  <2>1. \A x, y \in 1..Len(s) : s[x] = s[y] => x = y
    BY <1>2 DEF IsInjective
  <2>2. CASE a < i /\ b < i
    BY <1>2, <2>1, <2>2, SMTT(30)
  <2>3. CASE a < i /\ b >= i
    BY <1>2, <2>1, <2>3
  <2>4. CASE a >= i /\ b < i
    BY <1>2, <2>1, <2>4
  <2>5. CASE a >= i /\ b >= i
    BY <1>2, <2>1, <2>5
  <2> QED BY <2>2, <2>3, <2>4, <2>5
<1> QED BY <1>2, <1>3, <1>4, <1>5 DEF r

-----------------------------------------------------------------------------
(* Channels. *)

(* A new channel has nothing to account for. *)
LEMMA NewChannelSound ==
  NewChannel \in Channel /\ FramesAccountedIn(NewChannel)
<1>1. NewChannel \in Channel
  BY DEF NewChannel, Channel
<1>2. Range(<< >>) = {} /\ IsInjective(<< >>)
  BY DEF Range, IsInjective
<1> QED BY <1>1, <1>2 DEF NewChannel, FramesAccountedIn

(* Handing out a frame moves it from the frame queue to pending. *)
LEMMA NextTxDataSound ==
  ASSUME NEW ch \in Channel, FramesAccountedIn(ch), HasFrame(ch)
  PROVE  /\ NextTxData(ch) \in Channel
         /\ FramesAccountedIn(NextTxData(ch))
         /\ NextTxData(ch).pending = ch.pending \cup {Head(ch.frames)}
         /\ Head(ch.frames) \in Nat /\ Head(ch.frames) \notin ch.pending
         /\ NextTxData(ch).blocks = ch.blocks
         /\ NextTxData(ch).full = ch.full
         /\ NextTxData(ch).numFrames = ch.numFrames
<1> DEFINE h == Head(ch.frames)
           t == Tail(ch.frames)
<1>1. ch.frames \in Seq(Nat) /\ ch.frames # << >> /\ IsInjective(ch.frames)
  BY DEF HasFrame, FramesAccountedIn, Channel
<1>2. /\ t \in Seq(Nat) /\ h \in Nat /\ h \in Range(ch.frames)
      /\ Range(t) = Range(ch.frames) \ {h} /\ IsInjective(t)
  BY <1>1, TailRange
<1>3. NextTxData(ch) = [ch EXCEPT !.frames = t, !.pending = ch.pending \cup {h}]
  BY DEF NextTxData, Channel
<1> HIDE DEF h, t
<1>4. /\ NextTxData(ch) \in Channel
      /\ NextTxData(ch).frames = t /\ NextTxData(ch).pending = ch.pending \cup {h}
      /\ NextTxData(ch).confirmed = ch.confirmed /\ NextTxData(ch).numFrames = ch.numFrames
      /\ NextTxData(ch).blocks = ch.blocks /\ NextTxData(ch).full = ch.full
  <2>1. ch.pending \cup {h} \in SUBSET Nat
    BY <1>2 DEF Channel
  <2> DEFINE p == ch.pending \cup {h}
  <2> HIDE DEF p
  <2>2. NextTxData(ch) = [ch EXCEPT !.frames = t, !.pending = p]
    BY <1>3 DEF p
  <2>3. p \in SUBSET Nat
    BY <2>1 DEF p
  <2>4. NextTxData(ch) \in Channel
    BY <1>2, <2>2, <2>3 DEF Channel
  <2>5. NextTxData(ch).frames = t /\ NextTxData(ch).pending = p
    BY <2>2 DEF Channel
  <2>6. /\ NextTxData(ch).confirmed = ch.confirmed /\ NextTxData(ch).numFrames = ch.numFrames
        /\ NextTxData(ch).blocks = ch.blocks /\ NextTxData(ch).full = ch.full
    BY <2>2 DEF Channel
  <2> QED BY <2>4, <2>5, <2>6 DEF p
<1>5. h \notin ch.pending /\ \A r \in ch.confirmed : r.frame # h
  BY <1>2 DEF FramesAccountedIn
<1>6. FramesAccountedIn(NextTxData(ch))
  BY <1>2, <1>4, <1>5 DEF FramesAccountedIn
<1> QED BY <1>2, <1>4, <1>5, <1>6 DEF h

(* A confirmation moves a pending frame to confirmed. *)
LEMMA ConfirmedSound ==
  ASSUME NEW ch \in Channel, FramesAccountedIn(ch),
         NEW frame \in ch.pending, NEW at \in Nat
  PROVE  /\ Confirmed(ch, frame, at) \in Channel
         /\ FramesAccountedIn(Confirmed(ch, frame, at))
         /\ Confirmed(ch, frame, at).pending = ch.pending \ {frame}
         /\ ch.confirmed \subseteq Confirmed(ch, frame, at).confirmed
         /\ Confirmed(ch, frame, at).frames = ch.frames
         /\ Confirmed(ch, frame, at).blocks = ch.blocks
         /\ Confirmed(ch, frame, at).full = ch.full
         /\ Confirmed(ch, frame, at).numFrames = ch.numFrames
<1> DEFINE t == UpdateTimeout(ch.timeout, at + ChannelTimeout - SubSafetyMargin)
           r == [frame |-> frame, at |-> at]
           new == Confirmed(ch, frame, at)
<1>1. t \in Nat
  BY ChannelConfigAssumption DEF UpdateTimeout, Channel
<1>2. new = [ch EXCEPT !.pending = ch.pending \ {frame},
                       !.confirmed = ch.confirmed \cup {r}, !.timeout = t]
  BY DEF Confirmed, FramePublished, Channel
<1>3. frame \in Nat /\ r \in [frame : Nat, at : Nat] /\ r.frame = frame
  BY DEF Channel
<1> HIDE DEF t, r, new
<1>4. /\ new \in Channel
      /\ new.pending = ch.pending \ {frame} /\ new.confirmed = ch.confirmed \cup {r}
      /\ new.frames = ch.frames /\ new.blocks = ch.blocks
      /\ new.full = ch.full /\ new.numFrames = ch.numFrames
  BY <1>1, <1>2, <1>3 DEF Channel
<1>5. frame \notin Range(ch.frames) /\ \A q \in ch.confirmed : q.frame # frame
  BY DEF FramesAccountedIn
<1>6. {q.frame : q \in new.confirmed} = {q.frame : q \in ch.confirmed} \cup {frame}
  BY <1>3, <1>4
<1>7. Range(new.frames) \cup new.pending \cup {q.frame : q \in new.confirmed}
        = 0..(new.numFrames - 1)
  BY <1>4, <1>6 DEF FramesAccountedIn
<1>8. \A q \in new.confirmed : q.frame \notin Range(new.frames) \cup new.pending
  BY <1>3, <1>4, <1>5 DEF FramesAccountedIn
<1>9. \A p, q \in new.confirmed : p.frame = q.frame => p = q
  BY <1>3, <1>4, <1>5 DEF FramesAccountedIn
<1>10. IsInjective(new.frames) /\ Range(new.frames) \cap new.pending = {}
  BY <1>4 DEF FramesAccountedIn
<1>11. FramesAccountedIn(new)
  BY <1>7, <1>8, <1>9, <1>10 DEF FramesAccountedIn
<1> QED BY <1>4, <1>11 DEF new

(* A failure moves a pending frame back to the frame queue. *)
LEMMA FailedSound ==
  ASSUME NEW ch \in Channel, FramesAccountedIn(ch), NEW frame \in ch.pending
  PROVE  /\ Failed(ch, frame) \in Channel
         /\ FramesAccountedIn(Failed(ch, frame))
         /\ Failed(ch, frame).pending = ch.pending \ {frame}
         /\ Failed(ch, frame).confirmed = ch.confirmed
         /\ Failed(ch, frame).blocks = ch.blocks
         /\ Failed(ch, frame).full = ch.full
         /\ Failed(ch, frame).numFrames = ch.numFrames
<1> DEFINE fr == Append(ch.frames, frame)
           new == Failed(ch, frame)
<1>1. frame \in Nat /\ ch.frames \in Seq(Nat)
  BY DEF Channel
<1>2. frame \notin Range(ch.frames) /\ \A q \in ch.confirmed : q.frame # frame
  BY DEF FramesAccountedIn
<1>3. fr \in Seq(Nat) /\ Range(fr) = Range(ch.frames) \cup {frame} /\ IsInjective(fr)
  BY <1>1, <1>2, AppendRange DEF FramesAccountedIn
<1>4. new = [ch EXCEPT !.pending = ch.pending \ {frame}, !.frames = fr]
  BY DEF Failed, Channel
<1> HIDE DEF fr, new
<1>5. /\ new \in Channel
      /\ new.pending = ch.pending \ {frame} /\ new.frames = fr
      /\ new.confirmed = ch.confirmed /\ new.blocks = ch.blocks
      /\ new.full = ch.full /\ new.numFrames = ch.numFrames
  BY <1>3, <1>4 DEF Channel
<1>6. FramesAccountedIn(new)
  BY <1>2, <1>3, <1>5 DEF FramesAccountedIn
<1> QED BY <1>5, <1>6 DEF new

(* Frames put out by a channel are new. *)
LEMMA NewFramesSound ==
  ASSUME NEW ch \in Channel, FramesAccountedIn(ch), NEW nf \in Nat
  PROVE  /\ ch.frames \o NewFrames(ch, nf) \in Seq(Nat)
         /\ Range(ch.frames \o NewFrames(ch, nf))
              = Range(ch.frames) \cup (ch.numFrames..(ch.numFrames + nf - 1))
         /\ IsInjective(ch.frames \o NewFrames(ch, nf))
<1> DEFINE a == ch.frames
           n == ch.numFrames
           b == NewFrames(ch, nf)
<1>1. /\ a \in Seq(Nat) /\ n \in Nat /\ Range(a) \subseteq 0..(n - 1)
      /\ \A i, j \in 1..Len(a) : a[i] = a[j] => i = j
      /\ Len(a) \in Nat /\ DOMAIN a = 1..Len(a)
  BY DEF Channel, FramesAccountedIn, IsInjective
<1>2. /\ b \in Seq(Nat) /\ Len(b) = nf /\ DOMAIN b = 1..nf
      /\ \A i \in 1..nf : b[i] = n + i - 1
  <2>1. b = [i \in 1..nf |-> n + i - 1]
    BY DEF NewFrames
  <2>2. \A i \in 1..nf : n + i - 1 \in Nat
    BY <1>1
  <2> QED BY <2>1, <2>2
<1> HIDE DEF a, b, n
<1>3. /\ a \o b \in Seq(Nat) /\ Len(a \o b) = Len(a) + nf
      /\ \A j \in 1..(Len(a) + nf) : (a \o b)[j] = IF j <= Len(a) THEN a[j] ELSE b[j - Len(a)]
  <2>1. Len(a \o b) = Len(a) + Len(b) /\ a \o b \in Seq(Nat)
    BY <1>1, <1>2, ConcatProperties
  <2>2. \A j \in 1..(Len(a) + Len(b)) :
          (a \o b)[j] = IF j <= Len(a) THEN a[j] ELSE b[j - Len(a)]
    BY <1>1, <1>2, ConcatProperties
  <2> QED BY <1>2, <2>1, <2>2
<1>4. Range(a \o b) = Range(a) \cup Range(b)
  BY <1>1, <1>2, RangeConcatenation
<1>5. Range(b) = n..(n + nf - 1)
  <2>1. Range(b) \subseteq n..(n + nf - 1)
    BY <1>1, <1>2 DEF Range
  <2>2. ASSUME NEW x \in n..(n + nf - 1)
        PROVE  x \in Range(b)
    <3>1. x - n + 1 \in 1..nf /\ b[x - n + 1] = x
      BY <1>1, <1>2
    <3> QED BY <1>2, <3>1 DEF Range
  <2> QED BY <2>1, <2>2
<1>6. IsInjective(a \o b)
  <2>0. DOMAIN (a \o b) = 1..(Len(a) + nf)
    BY <1>3
  <2> SUFFICES ASSUME NEW i \in 1..(Len(a) + nf), NEW j \in 1..(Len(a) + nf),
                      (a \o b)[i] = (a \o b)[j]
               PROVE  i = j
    BY <2>0, Zenon DEF IsInjective
  <2>1. \A x \in 1..Len(a) : a[x] \in 0..(n - 1)
    BY <1>1 DEF Range
  <2>2. CASE i <= Len(a) /\ j <= Len(a)
    BY <1>1, <1>3, <2>2
  <2>3. CASE i <= Len(a) /\ j > Len(a)
    <3>1. (a \o b)[i] < n /\ (a \o b)[j] >= n
      BY <1>1, <1>2, <1>3, <2>1, <2>3, SMTT(30)
    <3> QED BY <1>1, <1>2, <1>3, <2>1, <2>3, <3>1
  <2>4. CASE i > Len(a) /\ j <= Len(a)
    <3>1. (a \o b)[j] < n /\ (a \o b)[i] >= n
      BY <1>1, <1>2, <1>3, <2>1, <2>4, SMTT(30)
    <3> QED BY <1>1, <1>2, <1>3, <2>1, <2>4, <3>1
  <2>5. CASE i > Len(a) /\ j > Len(a)
    BY <1>1, <1>2, <1>3, <2>5
  <2> QED BY <1>1, <2>2, <2>3, <2>4, <2>5
<1> QED BY <1>3, <1>4, <1>5, <1>6 DEF a, b, n

-----------------------------------------------------------------------------
(* The steps. *)

(* A queue without its channel c. *)
LEMMA RemovalSound ==
  ASSUME NEW S, queue \in Seq(S), IsInjective(queue), NEW c, RemovePendingChannel(c)
  PROVE  /\ queue' \in Seq(S)
         /\ IsInjective(queue')
         /\ Range(queue') = Range(queue) \ {c}
         /\ current' = IF current = c THEN 0 ELSE current
<1>1. CASE \E i \in 1..Len(queue) : queue[i] = c /\ queue' = RemoveAt(queue, i)
  <2>1. PICK i \in 1..Len(queue) : queue[i] = c /\ queue' = RemoveAt(queue, i)
    BY <1>1
  <2> QED BY <2>1, RemoveAtRange DEF RemovePendingChannel
<1>2. CASE (\A i \in 1..Len(queue) : queue[i] # c) /\ queue' = queue
  <2>1. c \notin Range(queue)
    BY <1>2 DEF Range
  <2> QED BY <1>2, <2>1 DEF RemovePendingChannel
<1> QED BY <1>1, <1>2 DEF RemovePendingChannel

(* The elements of the queue, by position or by range. *)
LEMMA QueueElements ==
  ASSUME TypeOK
  PROVE  /\ \A i \in 1..Len(queue) : queue[i] \in 1..Len(channels) /\ queue[i] \in Range(queue)
         /\ \A c \in Range(queue) : c \in 1..Len(channels) /\ \E i \in 1..Len(queue) : queue[i] = c
BY DEF TypeOK, Range

(* The invariant holds initially. *)
LEMMA ManagerInit == Init => ManagerInv
<1> SUFFICES ASSUME Init PROVE ManagerInv
  OBVIOUS
<1>1. TypeOK
  <2>1. << >> \in Seq(Block) /\ << >> \in Seq(Channel) /\ << >> \in Seq(1..Len(channels))
    BY EmptySeq
  <2>2. current \in 0..Len(channels) /\ l1 \in Nat
    BY DEF Init
  <2>3. tip \in {NoTip} \cup (Nat \X Nat) /\ closed \in BOOLEAN
    BY DEF Init
  <2> QED BY <2>1, <2>2, <2>3 DEF Init, TypeOK
<1>2. FramesAccounted /\ TxTracked /\ FullHasFrames /\ NoBlockLost /\ ClosedQueueIsFull
      /\ SubmittedNotAbandoned
  BY DEF Init, FramesAccounted, TxTracked, FullHasFrames, NoBlockLost, ClosedQueueIsFull,
         SubmittedNotAbandoned
<1>3. QueueSound
  BY DEF Init, QueueSound, IsInjective
<1> QED BY <1>1, <1>2, <1>3 DEF ManagerInv

(* AddL2Block: one more block, in the block queue. *)
LEMMA AddL2BlockStep ==
  ASSUME ManagerInv, NEW b \in L2Blocks, AddL2Block(b)
  PROVE  ManagerInv'
<1> USE DEF ManagerInv
<1>1. b \in Block /\ blocks \in Seq(Block)
  BY BatcherAssumption DEF TypeOK
<1>2. blocks' \in Seq(Block) /\ Range(blocks') = Range(blocks) \cup {b}
  BY <1>1, AppendRange DEF AddL2Block
<1>3. Hash(b) \in Nat \X Nat
  BY <1>1 DEF Hash, Block
<1>4. TypeOK'
  BY <1>1, <1>2, <1>3 DEF AddL2Block, TypeOK
<1>5. FramesAccounted' /\ TxTracked' /\ FullHasFrames' /\ QueueSound' /\ ClosedQueueIsFull'
  BY DEF AddL2Block, FramesAccounted, TxTracked, FullHasFrames, QueueSound, ClosedQueueIsFull
<1>6. NoBlockLost' /\ SubmittedNotAbandoned'
  BY <1>2 DEF AddL2Block, NoBlockLost, SubmittedNotAbandoned
<1> QED BY <1>4, <1>5, <1>6

(* The L1 head is not part of what the invariant relates. *)
LEMMA L1Step ==
  ASSUME ManagerInv, L1Advances
  PROVE  ManagerInv'
<1> USE DEF ManagerInv
<1>1. TypeOK'
  BY DEF L1Advances, TypeOK
<1>2. FramesAccounted' /\ TxTracked' /\ FullHasFrames' /\ QueueSound' /\ ClosedQueueIsFull'
  BY DEF L1Advances, FramesAccounted, TxTracked, FullHasFrames, QueueSound, ClosedQueueIsFull
<1>3. NoBlockLost' /\ SubmittedNotAbandoned'
  BY DEF L1Advances, NoBlockLost, SubmittedNotAbandoned
<1> QED BY <1>1, <1>2, <1>3

(* Clear leaves nothing to account for. *)
LEMMA ClearStep ==
  ASSUME ManagerInv, Clear
  PROVE  ManagerInv'
<1> USE DEF ManagerInv
<1>1. /\ channels' \in Seq(Channel) /\ Len(channels') = Len(channels)
      /\ \A c \in 1..Len(channels) : channels'[c] = NewChannel
  <2>1. Len(channels) \in Nat
    BY DEF TypeOK
  <2> QED BY <2>1, NewChannelSound DEF Clear
<1>2. TypeOK'
  <2>1. << >> \in Seq(Block) /\ << >> \in Seq(1..Len(channels'))
    BY EmptySeq
  <2>2. current' \in 0..Len(channels') /\ l1' \in Nat
    BY <1>1 DEF Clear, TypeOK
  <2>3. tip' \in {NoTip} \cup (Nat \X Nat) /\ closed' \in BOOLEAN
    BY DEF Clear
  <2> QED BY <1>1, <2>1, <2>2, <2>3 DEF Clear, TypeOK
<1>3. FramesAccounted'
  BY <1>1, NewChannelSound DEF FramesAccounted
<1>4. FullHasFrames'
  BY <1>1 DEF FullHasFrames, NewChannel
<1>5. TxTracked' /\ NoBlockLost' /\ ClosedQueueIsFull'
  BY DEF Clear, TxTracked, NoBlockLost, ClosedQueueIsFull
<1>6. QueueSound'
  BY DEF Clear, QueueSound, IsInjective
<1>7. SubmittedNotAbandoned'
  BY <1>1 DEF SubmittedNotAbandoned, NewChannel
<1> QED BY <1>2, <1>3, <1>4, <1>5, <1>6, <1>7

(* Replacing the record of channel c by one that accounts for its frames. *)
LEMMA ReplaceSound ==
  ASSUME TypeOK, FramesAccounted, NEW c \in 1..Len(channels),
         NEW ch \in Channel, FramesAccountedIn(ch),
         channels' = [channels EXCEPT ![c] = ch]
  PROVE  /\ channels' \in Seq(Channel)
         /\ Len(channels') = Len(channels)
         /\ channels'[c] = ch
         /\ \A d \in 1..Len(channels) : d # c => channels'[d] = channels[d]
         /\ FramesAccounted'
<1>1. /\ channels' \in Seq(Channel)
      /\ Len(channels') = Len(channels)
      /\ channels'[c] = ch
      /\ \A d \in 1..Len(channels) : d # c => channels'[d] = channels[d]
  BY DEF TypeOK
<1>2. FramesAccounted'
  BY <1>1 DEF FramesAccounted
<1> QED BY <1>1, <1>2

(* A channel with a frame queued or pending is not delivered. *)
LEMMA NotDelivered ==
  ASSUME NEW ch \in Channel, FramesAccountedIn(ch), ch.pending # {} \/ HasFrame(ch)
  PROVE  ~Delivered(ch)
<1>1. CASE ch.pending # {}
  <2>1. PICK f \in ch.pending : TRUE
    BY <1>1
  <2>2. f \in 0..(ch.numFrames - 1) /\ \A r \in ch.confirmed : r.frame # f
    BY <2>1 DEF FramesAccountedIn
  <2> QED BY <2>2 DEF Delivered
<1>2. CASE HasFrame(ch)
  <2>1. Head(ch.frames) \in Range(ch.frames)
    BY <1>2, TailRange DEF HasFrame, Channel, FramesAccountedIn
  <2>2. /\ Head(ch.frames) \in 0..(ch.numFrames - 1)
        /\ \A r \in ch.confirmed : r.frame # Head(ch.frames)
    BY <2>1 DEF FramesAccountedIn
  <2> QED BY <2>2 DEF Delivered
<1> QED BY <1>1, <1>2

(* TxData from a queued frame: it becomes pending in one transaction. *)
LEMMA TxDataPendingStep ==
  ASSUME ManagerInv, TxDataPending
  PROVE  ManagerInv'
<1> USE DEF ManagerInv
<1>1. PICK i \in 1..Len(queue) :
        /\ HasFrame(channels[queue[i]])
        /\ txChannels' = txChannels \cup {NextTx(queue[i], channels[queue[i]])}
        /\ channels' = [channels EXCEPT ![queue[i]] = NextTxData(channels[queue[i]])]
  BY DEF TxDataPending
<1> DEFINE c == queue[i]
           ch == channels[c]
           new == NextTxData(ch)
           h == Head(ch.frames)
           tx == NextTx(c, ch)
<1>2. /\ c \in 1..Len(channels) /\ c \in Range(queue)
      /\ ch \in Channel /\ FramesAccountedIn(ch) /\ HasFrame(ch)
  BY <1>1, QueueElements DEF TypeOK, FramesAccounted
<1>3. /\ new \in Channel /\ FramesAccountedIn(new)
      /\ new.pending = ch.pending \cup {h} /\ h \in Nat /\ h \notin ch.pending
      /\ new.blocks = ch.blocks /\ new.full = ch.full /\ new.numFrames = ch.numFrames
  BY <1>2, NextTxDataSound
<1>4. tx = [ch |-> c, frame |-> h, head |-> l1]
  BY DEF NextTx
<1>5. txChannels' = txChannels \cup {tx} /\ channels' = [channels EXCEPT ![c] = new]
  BY <1>1
<1> HIDE DEF c, ch, new, h, tx
<1>6. /\ channels' \in Seq(Channel) /\ Len(channels') = Len(channels)
      /\ channels'[c] = new
      /\ \A d \in 1..Len(channels) : d # c => channels'[d] = channels[d]
      /\ FramesAccounted'
  BY <1>2, <1>3, <1>5, ReplaceSound
<1>7. UNCHANGED <<blocks, tip, current, queue, closed, l1, loaded>>
  BY DEF TxDataPending
<1>8. TypeOK'
  <2>1. tx \in [ch : 1..Len(channels), frame : Nat, head : Nat]
    BY <1>2, <1>3, <1>4 DEF TypeOK
  <2> QED BY <1>5, <1>6, <1>7, <2>1 DEF TypeOK
<1>9. \A d \in 1..Len(channels) :
        /\ channels'[d].blocks = channels[d].blocks
        /\ channels'[d].full = channels[d].full
        /\ channels'[d].numFrames = channels[d].numFrames
  BY <1>3, <1>6 DEF ch
<1>10. FullHasFrames'
  BY <1>6, <1>9 DEF FullHasFrames
<1>11. QueueSound' /\ ClosedQueueIsFull'
  BY <1>7, <1>9, QueueElements DEF QueueSound, ClosedQueueIsFull
<1>12. TxTracked'
  <2>1. \A t \in txChannels : t.ch \in 1..Len(channels) /\ t.frame \in channels[t.ch].pending
    BY DEF TypeOK, TxTracked
  <2>2. \A t \in txChannels : t.frame \in channels'[t.ch].pending
    BY <1>3, <1>6, <2>1 DEF ch
  <2>3. \A t \in txChannels : ~(t.ch = c /\ t.frame = h)
    BY <1>3, <2>1 DEF ch
  <2>4. tx.ch = c /\ tx.frame = h /\ h \in channels'[c].pending
    BY <1>3, <1>4, <1>6
  <2> QED BY <1>5, <2>2, <2>3, <2>4 DEF TxTracked
<1>13. NoBlockLost'
  <2> SUFFICES ASSUME ~closed', NEW b \in loaded'
               PROVE  \/ b \in Range(blocks')
                      \/ \E d \in 1..Len(channels') :
                           /\ b \in Range(channels'[d].blocks)
                           /\ d \in Range(queue') \/ Delivered(channels'[d])
    BY DEF NoBlockLost
  <2>1. CASE b \in Range(blocks)
    BY <1>7, <2>1
  <2>2. CASE \E d \in 1..Len(channels) : /\ b \in Range(channels[d].blocks)
                                         /\ d \in Range(queue) \/ Delivered(channels[d])
    <3>1. PICK d \in 1..Len(channels) : /\ b \in Range(channels[d].blocks)
                                        /\ d \in Range(queue) \/ Delivered(channels[d])
      BY <2>2
    <3>2. d = c => d \in Range(queue)
      BY <1>2
    <3> QED BY <1>6, <1>7, <1>9, <3>1, <3>2
  <2> QED BY <1>7, <2>1, <2>2 DEF NoBlockLost
<1>14. SubmittedNotAbandoned'
  BY <1>2, <1>6, <1>7 DEF SubmittedNotAbandoned
<1> QED BY <1>6, <1>8, <1>10, <1>11, <1>12, <1>13, <1>14

(* TxFailed: the frame goes back; only after Close may its channel go. *)
LEMMA TxFailedStep ==
  ASSUME ManagerInv, NEW tx \in txChannels, TxFailed(tx)
  PROVE  ManagerInv'
<1> USE DEF ManagerInv
<1> DEFINE c == tx.ch
           ch == channels[c]
           new == Failed(ch, tx.frame)
<1>1. /\ c \in 1..Len(channels) /\ ch \in Channel /\ FramesAccountedIn(ch)
      /\ tx.frame \in ch.pending
  BY DEF TypeOK, FramesAccounted, TxTracked
<1>2. /\ new \in Channel /\ FramesAccountedIn(new)
      /\ new.pending = ch.pending \ {tx.frame} /\ new.confirmed = ch.confirmed
      /\ new.blocks = ch.blocks /\ new.full = ch.full /\ new.numFrames = ch.numFrames
  BY <1>1, FailedSound
<1>3. /\ channels' = [channels EXCEPT ![c] = new]
      /\ txChannels' = txChannels \ {tx}
      /\ UNCHANGED <<blocks, tip, closed, l1, loaded>>
      /\ (closed /\ NoneSubmitted(new) /\ RemovePendingChannel(c)) \/ UNCHANGED <<current, queue>>
  BY DEF TxFailed
<1> HIDE DEF c, ch, new
<1>4. /\ channels' \in Seq(Channel) /\ Len(channels') = Len(channels)
      /\ channels'[c] = new
      /\ \A d \in 1..Len(channels) : d # c => channels'[d] = channels[d]
      /\ FramesAccounted'
  BY <1>1, <1>2, <1>3, ReplaceSound
<1>5. /\ queue' \in Seq(1..Len(channels)) /\ IsInjective(queue')
      /\ Range(queue') \subseteq Range(queue)
      /\ current' \in {0, current}
      /\ current' # 0 => current' \in Range(queue')
      /\ ~closed => queue' = queue /\ current' = current
      /\ current \in Range(queue') => current' = current
      /\ Range(queue) \subseteq Range(queue') \cup {c}
      /\ ~NoneSubmitted(new) => queue' = queue
  <2>1. CASE closed /\ NoneSubmitted(new) /\ RemovePendingChannel(c)
    BY <2>1, RemovalSound DEF QueueSound, TypeOK
  <2>2. CASE UNCHANGED <<current, queue>>
    BY <2>2 DEF QueueSound, TypeOK
  <2> QED BY <1>3, <2>1, <2>2
<1>6. TypeOK'
  BY <1>3, <1>4, <1>5 DEF TypeOK
<1>7. \A d \in 1..Len(channels) :
        /\ channels'[d].blocks = channels[d].blocks
        /\ channels'[d].full = channels[d].full
        /\ channels'[d].numFrames = channels[d].numFrames
  BY <1>2, <1>4 DEF ch
<1>8. FullHasFrames'
  BY <1>4, <1>7 DEF FullHasFrames
<1>9. \A i \in 1..Len(queue') : queue'[i] \in Range(queue') /\ queue'[i] \in Range(queue)
  BY <1>5, ElementInRange
<1>10. \A d \in Range(queue) : d \in 1..Len(channels) /\ (~channels[d].full => d = current)
  BY QueueElements DEF QueueSound
<1>11. QueueSound'
  <2>1. ASSUME NEW i \in 1..Len(queue'), ~channels'[queue'[i]].full
        PROVE  queue'[i] = current'
    <3>1. queue'[i] \in Range(queue) /\ queue'[i] \in Range(queue')
      BY <1>9
    <3>2. queue'[i] = current
      BY <1>7, <1>10, <2>1, <3>1
    <3> QED BY <1>5, <3>1, <3>2
  <2> QED BY <1>5, <2>1 DEF QueueSound
<1>12. ClosedQueueIsFull'
  <2>1. closed => \A d \in Range(queue) : d \in 1..Len(channels) /\ channels[d].full
    BY QueueElements DEF ClosedQueueIsFull
  <2> QED BY <1>3, <1>7, <1>9, <2>1 DEF ClosedQueueIsFull
<1>13. TxTracked'
  <2>1. \A t \in txChannels : t.ch \in 1..Len(channels) /\ t.frame \in channels[t.ch].pending
    BY DEF TypeOK, TxTracked
  <2>2. \A t \in txChannels : t # tx => ~(t.ch = c /\ t.frame = tx.frame)
    BY DEF TxTracked, c
  <2>3. \A t \in txChannels : t # tx => t.frame \in channels'[t.ch].pending
    BY <1>2, <1>4, <2>1, <2>2 DEF ch
  <2>4. \A s, t \in txChannels : s.ch = t.ch /\ s.frame = t.frame => s = t
    BY DEF TxTracked
  <2> QED BY <1>3, <2>3, <2>4 DEF TxTracked
<1>14. NoBlockLost'
  <2> SUFFICES ASSUME ~closed', NEW b \in loaded'
               PROVE  \/ b \in Range(blocks')
                      \/ \E d \in 1..Len(channels') :
                           /\ b \in Range(channels'[d].blocks)
                           /\ d \in Range(queue') \/ Delivered(channels'[d])
    BY DEF NoBlockLost
  <2>1. CASE b \in Range(blocks)
    BY <1>3, <2>1
  <2>2. CASE \E d \in 1..Len(channels) : /\ b \in Range(channels[d].blocks)
                                         /\ d \in Range(queue) \/ Delivered(channels[d])
    <3>1. PICK d \in 1..Len(channels) : /\ b \in Range(channels[d].blocks)
                                        /\ d \in Range(queue) \/ Delivered(channels[d])
      BY <2>2
    <3>2. d = c => d \in Range(queue)
      BY <1>1, <3>1, NotDelivered DEF ch
    <3> QED BY <1>3, <1>4, <1>5, <1>7, <3>1, <3>2
  <2> QED BY <1>3, <2>1, <2>2 DEF NoBlockLost
<1>15. SubmittedNotAbandoned'
  <2>1. c \in Range(queue) \/ IsTimedOut(ch)
    BY <1>1, NotDelivered DEF SubmittedNotAbandoned, ch
  <2>2. IsTimedOut(ch) => IsTimedOut(new)
    BY <1>2 DEF IsTimedOut
  <2>3. new.confirmed # {} \/ new.pending # {} => c \in Range(queue') \/ IsTimedOut(new)
    BY <1>5, <2>1, <2>2 DEF NoneSubmitted
  <2> QED BY <1>4, <1>5, <2>3 DEF SubmittedNotAbandoned
<1> QED BY <1>4, <1>6, <1>8, <1>11, <1>12, <1>13, <1>14, <1>15

(* TxConfirmed: the channel leaves the queue only when delivered or put back. *)
LEMMA TxConfirmedStep ==
  ASSUME ManagerInv, NEW tx \in txChannels, NEW at \in 2..l1, TxConfirmed(tx, at)
  PROVE  ManagerInv'
<1> USE DEF ManagerInv
<1> DEFINE c == tx.ch
           ch == channels[c]
           new == Confirmed(ch, tx.frame, at)
<1>1. /\ c \in 1..Len(channels) /\ ch \in Channel /\ FramesAccountedIn(ch)
      /\ tx.frame \in ch.pending /\ at \in Nat
  BY DEF TypeOK, FramesAccounted, TxTracked
<1>2. /\ new \in Channel /\ FramesAccountedIn(new)
      /\ new.pending = ch.pending \ {tx.frame}
      /\ new.frames = ch.frames /\ ch.confirmed \subseteq new.confirmed
      /\ new.blocks = ch.blocks /\ new.full = ch.full /\ new.numFrames = ch.numFrames
  BY <1>1, ConfirmedSound
<1>3. /\ channels' = [channels EXCEPT ![c] = new]
      /\ txChannels' = txChannels \ {tx}
      /\ UNCHANGED <<tip, closed, l1, loaded>>
      /\ blocks' = IF IsTimedOut(new) THEN new.blocks \o blocks ELSE blocks
      /\ \/ (IsTimedOut(new) \/ IsFullySubmitted(new)) /\ RemovePendingChannel(c)
         \/ ~IsTimedOut(new) /\ UNCHANGED <<current, queue>>
  BY DEF TxConfirmed, Requeued
<1> HIDE DEF c, ch, new
<1>4. /\ channels' \in Seq(Channel) /\ Len(channels') = Len(channels)
      /\ channels'[c] = new
      /\ \A d \in 1..Len(channels) : d # c => channels'[d] = channels[d]
      /\ FramesAccounted'
  BY <1>1, <1>2, <1>3, ReplaceSound
<1>5. /\ queue' \in Seq(1..Len(channels)) /\ IsInjective(queue')
      /\ Range(queue') \subseteq Range(queue)
      /\ Range(queue) \subseteq Range(queue') \cup {c}
      /\ current' \in {0, current}
      /\ current' # 0 => current' \in Range(queue')
      /\ current \in Range(queue') => current' = current
  <2>1. CASE RemovePendingChannel(c)
    BY <2>1, RemovalSound DEF QueueSound, TypeOK
  <2>2. CASE UNCHANGED <<current, queue>>
    BY <2>2 DEF QueueSound, TypeOK
  <2> QED BY <1>3, <2>1, <2>2
<1>6. /\ blocks' \in Seq(Block)
      /\ Range(blocks) \subseteq Range(blocks')
      /\ IsTimedOut(new) => Range(new.blocks) \subseteq Range(blocks')
  <2>1. new.blocks \in Seq(Block) /\ blocks \in Seq(Block)
    BY <1>2 DEF Channel, TypeOK
  <2>2. new.blocks \o blocks \in Seq(Block)
    BY <2>1, ConcatProperties
  <2>3. Range(new.blocks \o blocks) = Range(new.blocks) \cup Range(blocks)
    BY <2>1, RangeConcatenation
  <2> QED BY <1>3, <2>1, <2>2, <2>3
<1>7. TypeOK'
  BY <1>3, <1>4, <1>5, <1>6 DEF TypeOK
<1>8. \A d \in 1..Len(channels) :
        /\ channels'[d].blocks = channels[d].blocks
        /\ channels'[d].full = channels[d].full
        /\ channels'[d].numFrames = channels[d].numFrames
  BY <1>2, <1>4 DEF ch
<1>9. FullHasFrames'
  BY <1>4, <1>8 DEF FullHasFrames
<1>10. \A i \in 1..Len(queue') : queue'[i] \in Range(queue') /\ queue'[i] \in Range(queue)
  BY <1>5, ElementInRange
<1>11. \A d \in Range(queue) : d \in 1..Len(channels) /\ (~channels[d].full => d = current)
  BY QueueElements DEF QueueSound
<1>12. QueueSound'
  <2>1. ASSUME NEW i \in 1..Len(queue'), ~channels'[queue'[i]].full
        PROVE  queue'[i] = current'
    <3>1. queue'[i] \in Range(queue) /\ queue'[i] \in Range(queue')
      BY <1>10
    <3>2. queue'[i] = current
      BY <1>8, <1>11, <2>1, <3>1
    <3> QED BY <1>5, <3>1, <3>2
  <2> QED BY <1>5, <2>1 DEF QueueSound
<1>13. ClosedQueueIsFull'
  <2>1. closed => \A d \in Range(queue) : d \in 1..Len(channels) /\ channels[d].full
    BY QueueElements DEF ClosedQueueIsFull
  <2> QED BY <1>3, <1>8, <1>10, <2>1 DEF ClosedQueueIsFull
<1>14. TxTracked'
  <2>1. \A t \in txChannels : t.ch \in 1..Len(channels) /\ t.frame \in channels[t.ch].pending
    BY DEF TypeOK, TxTracked
  <2>2. \A t \in txChannels : t # tx => ~(t.ch = c /\ t.frame = tx.frame)
    BY DEF TxTracked, c
  <2>3. \A t \in txChannels : t # tx => t.frame \in channels'[t.ch].pending
    BY <1>2, <1>4, <2>1, <2>2 DEF ch
  <2>4. \A s, t \in txChannels : s.ch = t.ch /\ s.frame = t.frame => s = t
    BY DEF TxTracked
  <2> QED BY <1>3, <2>3, <2>4 DEF TxTracked
<1>15. (~IsTimedOut(new) /\ IsFullySubmitted(new)) => Delivered(new)
  <2> SUFFICES ASSUME ~IsTimedOut(new), IsFullySubmitted(new)
               PROVE  Delivered(new)
    OBVIOUS
  <2>1. new.full /\ new.pending = {} /\ new.frames = << >>
    BY DEF IsFullySubmitted
  <2>2. Range(new.frames) = {}
    BY <2>1 DEF Range
  <2>3. {r.frame : r \in new.confirmed} = 0..(new.numFrames - 1)
    BY <1>2, <2>1, <2>2 DEF FramesAccountedIn
  <2>4. \A f \in 0..(new.numFrames - 1) : \E r \in new.confirmed : r.frame = f
    BY <2>3
  <2>5. new.numFrames > 0
    BY <1>1, <1>2, <2>1 DEF FullHasFrames, ch
  <2> QED BY <2>1, <2>4, <2>5 DEF Delivered
<1>16. c \in Range(queue) => \/ c \in Range(queue')
                             \/ IsTimedOut(new)
                             \/ Delivered(new)
  BY <1>3, <1>15
<1>17. NoBlockLost'
  <2> SUFFICES ASSUME ~closed', NEW b \in loaded'
               PROVE  \/ b \in Range(blocks')
                      \/ \E d \in 1..Len(channels') :
                           /\ b \in Range(channels'[d].blocks)
                           /\ d \in Range(queue') \/ Delivered(channels'[d])
    BY DEF NoBlockLost
  <2>1. CASE b \in Range(blocks)
    BY <1>6, <2>1
  <2>2. CASE \E d \in 1..Len(channels) : /\ b \in Range(channels[d].blocks)
                                         /\ d \in Range(queue) \/ Delivered(channels[d])
    <3>1. PICK d \in 1..Len(channels) : /\ b \in Range(channels[d].blocks)
                                        /\ d \in Range(queue) \/ Delivered(channels[d])
      BY <2>2
    <3>2. CASE d = c
      <4>1. c \in Range(queue)
        BY <1>1, <3>1, <3>2, NotDelivered DEF ch
      <4>2. b \in Range(new.blocks)
        BY <1>2, <3>1, <3>2 DEF ch
      <4>3. CASE IsTimedOut(new)
        BY <1>6, <4>2, <4>3
      <4>4. CASE c \in Range(queue') \/ Delivered(new)
        BY <1>1, <1>4, <4>2, <4>4
      <4> QED BY <1>16, <4>1, <4>3, <4>4
    <3>3. CASE d # c
      BY <1>4, <1>5, <3>1, <3>3
    <3> QED BY <3>2, <3>3
  <2> QED BY <1>3, <2>1, <2>2 DEF NoBlockLost
<1>18. SubmittedNotAbandoned'
  <2>1. c \in Range(queue) \/ IsTimedOut(ch)
    BY <1>1, NotDelivered DEF SubmittedNotAbandoned, ch
  <2>2. IsTimedOut(ch) => IsTimedOut(new)
    BY <1>2 DEF IsTimedOut
  <2> QED BY <1>4, <1>5, <1>16, <2>1, <2>2 DEF SubmittedNotAbandoned
<1> QED BY <1>4, <1>7, <1>9, <1>12, <1>13, <1>14, <1>17, <1>18

(* What processBlocks, registerL1Block and outputFrames make of channel ch. *)
FilledFrom(ch, new, k, full, nf) ==
  /\ new \in Channel
  /\ FramesAccountedIn(new)
  /\ new.frames = ch.frames \o NewFrames(ch, nf)
  /\ new.pending = ch.pending
  /\ new.full = full
  /\ new.numFrames = ch.numFrames + nf
  /\ Range(new.blocks) = Range(ch.blocks) \cup Range(SubSeq(blocks, 1, k))

(* Packed accounts for the frames it adds. *)
LEMMA PackedSound ==
  ASSUME NEW ch \in Channel, FramesAccountedIn(ch), blocks \in Seq(Block),
         NEW k \in 0..Len(blocks), NEW timeout \in Nat, NEW full \in BOOLEAN, NEW nf \in Nat
  PROVE  FilledFrom(ch, Packed(ch, k, timeout, full, nf), k, full, nf)
<1> DEFINE new == Packed(ch, k, timeout, full, nf)
           fr  == ch.frames \o NewFrames(ch, nf)
           sub == SubSeq(blocks, 1, k)
           bl  == ch.blocks \o sub
           n   == ch.numFrames
           cf  == {r.frame : r \in ch.confirmed}
<1>1. /\ fr \in Seq(Nat) /\ IsInjective(fr)
      /\ Range(fr) = Range(ch.frames) \cup (n..(n + nf - 1))
  BY NewFramesSound
<1>2. ch.blocks \in Seq(Block) /\ sub \in Seq(Block)
  BY SplitRange DEF Channel
<1>3. bl \in Seq(Block) /\ Range(bl) = Range(ch.blocks) \cup Range(sub)
  <2> HIDE DEF sub
  <2>1. bl \in Seq(Block)
    BY <1>2, ConcatProperties
  <2>2. Range(bl) = Range(ch.blocks) \cup Range(sub)
    BY <1>2, RangeConcatenation
  <2> QED BY <2>1, <2>2
<1>4. n \in Nat /\ n + nf \in Nat
  BY DEF Channel
<1>5. new = [ch EXCEPT !.blocks = bl, !.timeout = timeout, !.full = full,
                       !.frames = fr, !.numFrames = n + nf]
  BY DEF Packed, Channel
<1>6. /\ cf \cup Range(ch.frames) \cup ch.pending = 0..(n - 1)
      /\ \A r \in ch.confirmed : r.frame \in cf
  BY DEF FramesAccountedIn
<1> DEFINE m == n + nf
<1>7. m \in Nat /\ m = n + nf
  BY <1>4
<1>11. Range(fr) = Range(ch.frames) \cup (n..(m - 1))
  <2>1. n + nf - 1 = m - 1
    BY <1>4
  <2> QED BY <1>1, <2>1
<1> HIDE DEF new, fr, bl, sub, n, m
<1>8. /\ new \in Channel
      /\ new.blocks = bl /\ new.frames = fr /\ new.numFrames = m
      /\ new.pending = ch.pending /\ new.confirmed = ch.confirmed
  <2>1. new = [ch EXCEPT !.blocks = bl, !.timeout = timeout, !.full = full,
                         !.frames = fr, !.numFrames = m]
    BY <1>5, <1>7
  <2> QED BY <1>1, <1>3, <1>7, <2>1, Zenon DEF Channel
<1>9. new.full = full
  BY <1>5 DEF Channel
<1>10. FramesAccountedIn(new)
  <2>2. (0..(n - 1)) \cup (n..(m - 1)) = 0..(m - 1)
    BY <1>4, <1>7
  <2>3. (0..(n - 1)) \cap (n..(m - 1)) = {}
    BY <1>4, <1>7
  <2>5. Range(fr) \cup ch.pending \cup cf = 0..(m - 1)
    BY <1>6, <2>2, <1>11
  <2>6. Range(fr) \cap ch.pending = {}
    BY <1>6, <2>3, <1>11 DEF FramesAccountedIn
  <2>7. \A r \in ch.confirmed : r.frame \notin Range(fr) \cup ch.pending
    BY <1>6, <2>3, <1>11 DEF FramesAccountedIn
  <2>8. Range(new.frames) \cup new.pending \cup {r.frame : r \in new.confirmed}
          = 0..(new.numFrames - 1)
    BY <1>8, <2>5, Zenon
  <2>9. \A r, q \in new.confirmed : r.frame = q.frame => r = q
    BY <1>8 DEF FramesAccountedIn
  <2> QED BY <1>1, <1>8, <2>6, <2>7, <2>8, <2>9 DEF FramesAccountedIn
<1> QED BY <1>3, <1>7, <1>8, <1>9, <1>10 DEF new, fr, sub, n, FilledFrom

(* The channel TxDataBuild fills: a new one, or currentChannel. *)
LEMMA FillingSound ==
  ASSUME ManagerInv, NoFrameQueued
  PROVE  /\ Len(WithSpace) \in Nat /\ Filling \in 1..Len(WithSpace)
         /\ WithSpace \in Seq(Channel)
         /\ WithSpace[Filling] \in Channel
         /\ FramesAccountedIn(WithSpace[Filling])
         /\ WithSpace[Filling].frames = << >>
         /\ NeedsChannel => WithSpace[Filling] = NewChannel
         /\ ~NeedsChannel => /\ WithSpace = channels /\ Filling = current
                             /\ current \in 1..Len(channels) /\ current \in Range(queue)
<1> USE DEF ManagerInv
<1>1. CASE NeedsChannel
  <2>1. /\ Append(channels, NewChannel) \in Seq(Channel)
        /\ Len(Append(channels, NewChannel)) = Len(channels) + 1
        /\ Append(channels, NewChannel)[Len(channels) + 1] = NewChannel /\ Len(channels) \in Nat
    BY NewChannelSound DEF TypeOK
  <2>2. NewChannel.frames = << >>
    BY DEF NewChannel
  <2> QED BY <1>1, <2>1, <2>2, NewChannelSound DEF WithSpace, Filling
<1>2. CASE ~NeedsChannel
  <2>1. /\ current \in 1..Len(channels) /\ current \in Range(queue)
        /\ Len(channels) \in Nat /\ channels \in Seq(Channel)
    BY <1>2 DEF NeedsChannel, TypeOK, QueueSound
  <2>2. PICK i \in 1..Len(queue) : queue[i] = current
    BY <2>1, QueueElements
  <2>3. channels[current].frames = << >>
    BY <2>2 DEF NoFrameQueued, HasFrame
  <2>4. channels[current] \in Channel /\ FramesAccountedIn(channels[current])
    BY <2>1 DEF FramesAccounted
  <2> QED BY <1>2, <2>1, <2>3, <2>4 DEF WithSpace, Filling
<1> QED BY <1>1, <1>2

(* What TxDataBuild leaves of the channel it fills, and the transaction it makes. *)
FilledWith(new, k) ==
  /\ channels' = [WithSpace EXCEPT ![Filling] = new]
  /\ FramesAccountedIn(new)
  /\ new.full => new.numFrames > 0
  /\ Range(new.blocks)
       = Range(WithSpace[Filling].blocks) \cup Range(SubSeq(blocks, 1, k))
  /\ \/ txChannels' = txChannels /\ new.pending = WithSpace[Filling].pending
     \/ \E f \in Nat :
          /\ txChannels' = txChannels \cup {[ch |-> Filling, frame |-> f, head |-> l1]}
          /\ f \notin WithSpace[Filling].pending
          /\ new.pending = WithSpace[Filling].pending \cup {f}

(* Output accounts for the frames and the transaction. *)
LEMMA OutputSound ==
  ASSUME ManagerInv, NoFrameQueued, NEW k \in 0..Len(blocks), NEW timeout \in Nat,
         NEW full \in BOOLEAN, NEW nf \in 0..MaxFrames, Output(k, timeout, full, nf)
  PROVE  \E new \in Channel : FilledWith(new, k)
<1> DEFINE old == WithSpace[Filling]
           ch  == Packed(old, k, timeout, full, nf)
           h   == Head(ch.frames)
<1>1. old \in Channel /\ FramesAccountedIn(old) /\ old.frames = << >>
  BY FillingSound
<1>2. nf \in Nat /\ (full => nf > 0) /\ old.numFrames \in Nat
  <2>1. old.numFrames \in Nat /\ MaxFrames \in Nat
    BY <1>1, BatcherAssumption DEF Channel
  <2>2. nf \in FrameCounts(old, full)
    BY DEF Output
  <2> HIDE DEF old
  <2> QED BY <2>1, <2>2 DEF FrameCounts
<1>3. /\ txChannels' = txChannels \cup (IF nf = 0 THEN {} ELSE {NextTx(Filling, ch)})
      /\ channels' = [WithSpace EXCEPT ![Filling] = IF nf = 0 THEN ch ELSE NextTxData(ch)]
  BY DEF Output
<1>4. blocks \in Seq(Block)
  BY DEF ManagerInv, TypeOK
<1> HIDE DEF old
<1>5. /\ ch \in Channel /\ FramesAccountedIn(ch)
      /\ ch.frames = old.frames \o NewFrames(old, nf)
      /\ ch.pending = old.pending /\ ch.full = full /\ ch.numFrames = old.numFrames + nf
      /\ Range(ch.blocks) = Range(old.blocks) \cup Range(SubSeq(blocks, 1, k))
  <2>1. old \in Channel /\ FramesAccountedIn(old) /\ nf \in Nat
    BY <1>1, <1>2
  <2>2. FilledFrom(old, ch, k, full, nf)
    BY <1>4, <2>1, PackedSound, Zenon
  <2> HIDE DEF ch
  <2> QED BY <2>2, Zenon DEF FilledFrom
<1>6. nf # 0 => HasFrame(ch)
  <2>1. Len(NewFrames(old, nf)) = nf /\ NewFrames(old, nf) \in Seq(Int)
    BY <1>2 DEF NewFrames
  <2> DEFINE q == NewFrames(old, nf)
  <2> HIDE DEF q
  <2>2. q \in Seq(Int) /\ Len(q) = nf
    BY <2>1 DEF q
  <2>3. << >> \o q = q
    BY <2>2, ConcatEmptySeq
  <2>4. ch.frames = q
    BY <1>1, <1>5, <2>3 DEF q
  <2> QED BY <1>2, <2>2, <2>4, EmptySeq DEF HasFrame
<1>7. NextTx(Filling, ch) = [ch |-> Filling, frame |-> h, head |-> l1]
  BY DEF NextTx
<1> HIDE DEF ch, h
<1>8. CASE nf = 0
  <2>1. channels' = [WithSpace EXCEPT ![Filling] = ch] /\ txChannels' = txChannels
    BY <1>3, <1>8
  <2>2. ch.full => ch.numFrames > 0
    BY <1>2, <1>5, <1>8
  <2> QED BY <1>5, <2>1, <2>2 DEF old, FilledWith
<1>9. CASE nf # 0
  <2> DEFINE new == NextTxData(ch)
  <2>1. /\ new \in Channel /\ FramesAccountedIn(new)
        /\ new.pending = ch.pending \cup {h} /\ h \in Nat /\ h \notin ch.pending
        /\ new.blocks = ch.blocks /\ new.full = ch.full /\ new.numFrames = ch.numFrames
    BY <1>5, <1>6, <1>9, NextTxDataSound DEF h
  <2>2. /\ channels' = [WithSpace EXCEPT ![Filling] = new]
        /\ txChannels' = txChannels \cup {[ch |-> Filling, frame |-> h, head |-> l1]}
    BY <1>3, <1>7, <1>9
  <2> HIDE DEF new
  <2>3. new.full => new.numFrames > 0
    BY <1>2, <1>5, <1>9, <2>1
  <2> QED BY <1>5, <2>1, <2>2, <2>3 DEF old, FilledWith
<1> QED BY <1>8, <1>9

(* TxDataBuild, reduced to what the invariant needs to know of it. *)
LEMMA TxDataBuildShape ==
  ASSUME ManagerInv, TxDataBuild
  PROVE  \E k \in 0..Len(blocks), new \in Channel :
           blocks' = Remaining(k) /\ FilledWith(new, k)
<1>1. PICK k \in 0..Len(blocks), compressorFull \in BOOLEAN :
        /\ blocks' = Remaining(k)
        /\ \E timeout \in {0} \cup BuildTimeouts(k), nf \in 0..MaxFrames :
             Output(k, timeout, compressorFull \/ TimedOut(timeout, l1), nf)
  BY DEF TxDataBuild
<1>2. PICK timeout \in {0} \cup BuildTimeouts(k), nf \in 0..MaxFrames :
        Output(k, timeout, compressorFull \/ TimedOut(timeout, l1), nf)
  BY <1>1
<1>3. timeout \in Nat
  <2> DEFINE old == WithSpace[Filling]
             sub == SubSeq(blocks, 1, k)
  <2>1. sub \in Seq(Block)
    BY SplitRange DEF ManagerInv, TypeOK
  <2>2. old.timeout \in Nat /\ l1 \in Nat
    BY FillingSound DEF TxDataBuild, Channel, ManagerInv, TypeOK
  <2>3. BuildTimeouts(k) = TimeoutCandidates(old, sub, l1)
    BY DEF BuildTimeouts
  <2> HIDE DEF old, sub
  <2>4. \A j \in 1..Len(sub) : sub[j].epoch \in Nat
    <3>1. \A j \in 1..Len(sub) : sub[j] \in Block
      BY <2>1
    <3> QED BY <3>1 DEF Block
  <2>5. TimeoutCandidates(old, sub, l1) \subseteq Nat
    BY <2>2, <2>4, ChannelConfigAssumption DEF TimeoutCandidates
  <2> QED BY <2>3, <2>5
<1> DEFINE full == compressorFull \/ TimedOut(timeout, l1)
<1>4. full \in BOOLEAN /\ Output(k, timeout, full, nf) /\ NoFrameQueued
  BY <1>2 DEF TxDataBuild
<1> HIDE DEF full
<1>5. PICK new \in Channel : FilledWith(new, k)
  BY <1>3, <1>4, OutputSound, Zenon
<1> QED BY <1>1, <1>5, Zenon

(* TxDataBuild: the blocks move into the channel being filled. *)
LEMMA TxDataBuildStep ==
  ASSUME ManagerInv, TxDataBuild
  PROVE  ManagerInv'
<1> USE DEF ManagerInv
<1>1. PICK k \in 0..Len(blocks), new \in Channel :
        blocks' = Remaining(k) /\ FilledWith(new, k)
  BY TxDataBuildShape, Zenon
<1>0. /\ blocks' = Remaining(k)
      /\ channels' = [WithSpace EXCEPT ![Filling] = new]
      /\ FramesAccountedIn(new)
      /\ new.full => new.numFrames > 0
      /\ Range(new.blocks)
           = Range(WithSpace[Filling].blocks) \cup Range(SubSeq(blocks, 1, k))
      /\ \/ txChannels' = txChannels /\ new.pending = WithSpace[Filling].pending
         \/ \E f \in Nat :
              /\ txChannels' = txChannels \cup {[ch |-> Filling, frame |-> f, head |-> l1]}
              /\ f \notin WithSpace[Filling].pending
              /\ new.pending = WithSpace[Filling].pending \cup {f}
  BY <1>1 DEF FilledWith
<1> DEFINE c   == Filling
           old == WithSpace[Filling]
           N   == Len(channels)
           M   == Len(WithSpace)
<1>2. /\ ~closed
      /\ current' = c
      /\ queue' = IF NeedsChannel THEN Append(queue, c) ELSE queue
      /\ UNCHANGED <<tip, closed, l1, loaded>>
  BY DEF TxDataBuild
<1>3. /\ M \in Nat /\ c \in 1..M /\ WithSpace \in Seq(Channel) /\ old \in Channel
      /\ NeedsChannel => old = NewChannel
      /\ ~NeedsChannel => /\ WithSpace = channels /\ c = current
                          /\ current \in 1..N /\ current \in Range(queue)
  BY FillingSound DEF TxDataBuild
<1>4. /\ N \in Nat
      /\ NeedsChannel => M = N + 1 /\ c = N + 1
      /\ \A d \in 1..N : d \in 1..M /\ WithSpace[d] = channels[d]
      /\ \A d \in 1..M : d # c => d \in 1..N
      /\ 1..N \subseteq 1..M
  <2>1. N \in Nat /\ channels \in Seq(Channel)
    BY DEF TypeOK
  <2>2. CASE NeedsChannel
    <3>1. WithSpace = Append(channels, NewChannel) /\ c = N + 1
      BY <2>2 DEF WithSpace, Filling
    <3>2. M = N + 1 /\ \A d \in 1..N : WithSpace[d] = channels[d]
      BY <2>1, <3>1, NewChannelSound
    <3>3. N \in Nat /\ M = N + 1 /\ c = N + 1
      BY <2>1, <3>1, <3>2
    <3> HIDE DEF c, M, N
    <3>4. 1..N \subseteq 1..M /\ \A d \in 1..M : d # c => d \in 1..N
      BY <3>3
    <3> QED BY <3>2, <3>3, <3>4
  <2>3. CASE ~NeedsChannel
    BY <1>3, <2>1, <2>3
  <2> QED BY <2>2, <2>3
<1>5. /\ channels' \in Seq(Channel) /\ Len(channels') = M
      /\ channels'[c] = new
      /\ \A d \in 1..M : d # c => channels'[d] = WithSpace[d]
  BY <1>0, <1>3
<1> HIDE DEF c, old, N, M
<1>6. \A d \in 1..N : d # c => channels'[d] = channels[d]
  BY <1>4, <1>5
<1>7. /\ queue' \in Seq(1..M) /\ IsInjective(queue')
      /\ Range(queue') = Range(queue) \cup {c}
  <2>1. queue \in Seq(1..N) /\ IsInjective(queue)
    BY DEF TypeOK, QueueSound, N
  <2>2. queue \in Seq(1..M)
    <3>1. Len(queue) \in Nat /\ queue \in [1..Len(queue) -> 1..N]
      BY <2>1, LenProperties
    <3>2. 1..N \subseteq 1..M
      BY <1>4
    <3>3. queue \in [1..Len(queue) -> 1..M]
      BY <3>1, <3>2, Zenon
    <3> QED BY <3>1, <3>3, SeqDef
  <2>3. CASE NeedsChannel
    <3>1. c \notin Range(queue)
      <4>1. \A d \in Range(queue) : d \in 1..N
        BY QueueElements DEF N
      <4> QED BY <1>4, <2>3, <4>1
    <3> QED BY <1>2, <1>3, <2>1, <2>2, <2>3, <3>1, AppendRange
  <2>4. CASE ~NeedsChannel
    BY <1>2, <1>3, <2>1, <2>2, <2>4
  <2> QED BY <2>3, <2>4
<1>8. /\ blocks' \in Seq(Block)
      /\ Range(blocks) = Range(SubSeq(blocks, 1, k)) \cup Range(blocks')
  BY <1>0, SplitRange DEF TypeOK, Remaining
<1>9. TypeOK'
  <2>1. txChannels' \subseteq [ch : 1..M, frame : Nat, head : Nat]
    <3>1. txChannels \subseteq [ch : 1..M, frame : Nat, head : Nat]
      BY <1>4 DEF TypeOK, N
    <3>2. \A f \in Nat : [ch |-> c, frame |-> f, head |-> l1] \in [ch : 1..M, frame : Nat, head : Nat]
      BY <1>3 DEF TypeOK
    <3> QED BY <1>0, <3>1, <3>2 DEF c
  <2>2. current' \in 0..Len(channels')
    BY <1>2, <1>3, <1>5
  <2> QED BY <1>2, <1>5, <1>7, <1>8, <2>1, <2>2 DEF TypeOK
<1>10. FramesAccounted'
  BY <1>0, <1>4, <1>5, <1>6 DEF FramesAccounted, N
<1>11. FullHasFrames'
  BY <1>0, <1>4, <1>5, <1>6 DEF FullHasFrames, N
<1>12. \A d \in Range(queue) : d \in 1..N /\ (~channels[d].full => d = current)
  BY QueueElements DEF QueueSound, N
<1>13. \A i \in 1..Len(queue') : queue'[i] \in Range(queue) \cup {c}
  BY <1>7, ElementInRange
<1>14. QueueSound'
  <2>1. ASSUME NEW i \in 1..Len(queue'), ~channels'[queue'[i]].full
        PROVE  queue'[i] = current'
    <3> SUFFICES ASSUME queue'[i] # c
                 PROVE  FALSE
      BY <1>2
    <3>1. queue'[i] \in Range(queue) /\ queue'[i] \in 1..N
      BY <1>12, <1>13
    <3>2. queue'[i] = current /\ ~channels[current].full
      BY <1>6, <1>12, <2>1, <3>1
    <3>3. current # 0
      BY <1>4, <3>1, <3>2
    <3>4. ~NeedsChannel
      BY <3>2, <3>3 DEF NeedsChannel
    <3> QED BY <1>3, <3>2, <3>4
  <2>2. current' \in Range(queue')
    BY <1>2, <1>7
  <2> QED BY <1>7, <2>1, <2>2 DEF QueueSound
<1>15. ClosedQueueIsFull'
  BY <1>2 DEF ClosedQueueIsFull
<1>16. \A t \in txChannels : /\ t.ch \in 1..N
                             /\ t.frame \in channels[t.ch].pending
                             /\ t.ch = c => t.frame \in old.pending
  <2>1. \A t \in txChannels : t.ch \in 1..N /\ t.frame \in channels[t.ch].pending
    BY DEF TypeOK, TxTracked, N
  <2>2. c \in 1..N => old = channels[c]
    BY <1>4 DEF old, c
  <2> QED BY <2>1, <2>2
<1>17. TxTracked'
  <2>1. old.pending \subseteq new.pending
    BY <1>0 DEF old
  <2>2. \A t \in txChannels : t.frame \in channels'[t.ch].pending
    BY <1>5, <1>6, <1>16, <2>1
  <2>3. \A s, t \in txChannels : s.ch = t.ch /\ s.frame = t.frame => s = t
    BY DEF TxTracked
  <2>4. CASE txChannels' = txChannels
    BY <2>2, <2>3, <2>4 DEF TxTracked
  <2>5. CASE \E f \in Nat : /\ txChannels' = txChannels \cup {[ch |-> c, frame |-> f, head |-> l1]}
                            /\ f \notin old.pending
                            /\ new.pending = old.pending \cup {f}
    <3>1. PICK f \in Nat : /\ txChannels' = txChannels \cup {[ch |-> c, frame |-> f, head |-> l1]}
                           /\ f \notin old.pending
                           /\ new.pending = old.pending \cup {f}
      BY <2>5
    <3> DEFINE tx == [ch |-> c, frame |-> f, head |-> l1]
    <3>2. tx.ch = c /\ tx.frame = f /\ txChannels' = txChannels \cup {tx}
      BY <3>1
    <3> HIDE DEF tx
    <3>3. tx.frame \in channels'[tx.ch].pending
      BY <1>5, <3>1, <3>2
    <3>4. \A t \in txChannels : ~(t.ch = c /\ t.frame = f)
      BY <1>16, <3>1
    <3> QED BY <2>2, <2>3, <3>2, <3>3, <3>4 DEF TxTracked
  <2> QED BY <1>0, <2>4, <2>5 DEF c, old
<1>18. NoBlockLost'
  <2> SUFFICES ASSUME NEW b \in loaded
               PROVE  \/ b \in Range(blocks')
                      \/ \E d \in 1..Len(channels') :
                           /\ b \in Range(channels'[d].blocks)
                           /\ d \in Range(queue') \/ Delivered(channels'[d])
    BY <1>2 DEF NoBlockLost
  <2>1. b \in Range(new.blocks) => \E d \in 1..Len(channels') :
                                     /\ b \in Range(channels'[d].blocks)
                                     /\ d \in Range(queue') \/ Delivered(channels'[d])
    BY <1>3, <1>5, <1>7
  <2>2. CASE b \in Range(blocks)
    BY <1>0, <1>8, <2>1, <2>2
  <2>3. CASE \E d \in 1..N : /\ b \in Range(channels[d].blocks)
                             /\ d \in Range(queue) \/ Delivered(channels[d])
    <3>1. PICK d \in 1..N : /\ b \in Range(channels[d].blocks)
                            /\ d \in Range(queue) \/ Delivered(channels[d])
      BY <2>3
    <3>2. CASE d = c
      <4>1. old = channels[c]
        BY <1>4, <3>2 DEF old, c
      <4> QED BY <1>0, <2>1, <3>1, <3>2, <4>1 DEF old
    <3>3. CASE d # c
      BY <1>4, <1>5, <1>6, <1>7, <3>1, <3>3
    <3> QED BY <3>2, <3>3
  <2> QED BY <1>2, <2>2, <2>3 DEF NoBlockLost, N
<1>19. SubmittedNotAbandoned'
  BY <1>4, <1>5, <1>6, <1>7 DEF SubmittedNotAbandoned, N
<1> QED BY <1>9, <1>10, <1>11, <1>14, <1>15, <1>17, <1>18, <1>19

-----------------------------------------------------------------------------
(* The loop of Close. *)

(* A nonempty set of naturals has a least element. *)
LEMMA LeastNat ==
  ASSUME NEW S \in SUBSET Nat, S # {}
  PROVE  \E n \in S : \A m \in S : n <= m
<1>1. PICK n \in S : \A m \in S : ~(<<m, n>> \in OpToRel(<, Nat))
  BY NatLessThanWellFounded, WFMin, Zenon
<1>2. \A m \in S : ~(m < n)
  BY <1>1 DEF OpToRel
<1>3. \A m \in S : n <= m
  BY <1>2
<1> QED BY <1>3, Zenon

(* One step of the loop, at the slot i. *)
LoopStep(s, i) ==
  LET found == {p \in 1..s.live : s.array[p] = s.array[i]}
  IN  IF found = {} \/ ~NoneSubmitted(channels[s.array[i]]) THEN s
      ELSE [array |-> [p \in 1..Len(queue) |->
                         IF p \in Min(found)..(s.live - 1) THEN s.array[p + 1] ELSE s.array[p]],
            live |-> s.live - 1]

LoopValue(g, i) ==
  IF i = 0 THEN [array |-> queue, live |-> Len(queue)] ELSE LoopStep(g[i - 1], i)

(* g is the function CloseLoop defines. *)
IsLoop(g) == g = [i \in 0..Len(queue) |-> LoopValue(g, i)]

LoopResult(s) == SubSeq(s.array, 1, s.live)

LEMMA CloseLoopIs ==
  CloseLoop = LoopResult((CHOOSE g : IsLoop(g))[Len(queue)])
BY DEF CloseLoop, LoopResult, IsLoop, LoopValue, LoopStep

(* There is such a function: one right up to n is extended to n + 1. *)
LEMMA LoopExists ==
  ASSUME Len(queue) \in Nat
  PROVE  \E g : IsLoop(g)
<1> DEFINE D == 0..Len(queue)
           Right(g, n) == /\ g = [i \in D |-> g[i]]
                          /\ \A i \in D : i <= n => g[i] = LoopValue(g, i)
           Bad == {n \in Nat : ~\E g : Right(g, n)}
<1>1. ASSUME NEW n \in Nat, NEW g, \A i \in D : i < n => g[i] = LoopValue(g, i)
      PROVE  \E h : Right(h, n)
  <2> DEFINE h == [i \in D |-> LoopValue(g, i)]
  <2>1. ASSUME NEW i \in D, i <= n PROVE h[i] = LoopValue(h, i)
    <3>1. CASE i = 0
      BY <3>1 DEF LoopValue
    <3>2. CASE i # 0
      <4>1. i - 1 \in D /\ i - 1 < n
        BY <2>1, <3>2
      <4>2. h[i - 1] = g[i - 1]
        BY <1>1, <4>1
      <4>3. LoopValue(h, i) = LoopStep(h[i - 1], i) /\ LoopValue(g, i) = LoopStep(g[i - 1], i)
        BY <3>2 DEF LoopValue
      <4>4. h[i] = LoopValue(g, i)
        OBVIOUS
      <4> HIDE DEF h
      <4> QED BY <4>2, <4>3, <4>4
    <3> QED BY <3>1, <3>2
  <2>2. h = [i \in D |-> h[i]]
    OBVIOUS
  <2>3. Right(h, n)
    BY <2>1, <2>2
  <2> QED BY <2>3
<1>2. Bad = {}
  <2> SUFFICES ASSUME Bad # {} PROVE FALSE
    OBVIOUS
  <2>1. PICK n \in Bad : \A m \in Bad : n <= m
    BY LeastNat
  <2>2. n \in Nat /\ ~\E g : Right(g, n)
    OBVIOUS
  <2>3. CASE n = 0
    <3>1. \A i \in D : ~(i < n)
      BY <2>3
    <3> QED BY <1>1, <2>2, <3>1
  <2>4. CASE n # 0
    <3>1. n - 1 \in Nat /\ n - 1 \notin Bad
      <4> HIDE DEF Bad
      <4> QED BY <2>1, <2>2, <2>4
    <3>2. PICK g : Right(g, n - 1)
      BY <3>1
    <3>3. ASSUME NEW i \in D, i < n PROVE g[i] = LoopValue(g, i)
      <4>1. i <= n - 1
        BY <2>2, <3>3
      <4> QED BY <3>2, <4>1
    <3> QED BY <1>1, <2>2, <3>3
  <2> QED BY <2>3, <2>4
<1>3. PICK g : Right(g, Len(queue))
  BY <1>2
<1>4. \A i \in D : i <= Len(queue)
  OBVIOUS
<1>5. g = [i \in D |-> LoopValue(g, i)]
  BY <1>3, <1>4
<1> QED BY <1>5 DEF IsLoop

(***************************************************************************)
(* What a visit keeps: the part of the array that is the queue holds its   *)
(* channels without repetition, every submitted one among them.            *)
(***************************************************************************)
LoopInv(s) ==
  /\ s.array \in [1..Len(queue) -> Range(queue)] /\ s.live \in 0..Len(queue)
  /\ \A p, q \in 1..s.live : s.array[p] = s.array[q] => p = q
  /\ \A c \in Range(queue) : ~NoneSubmitted(channels[c]) => \E p \in 1..s.live : s.array[p] = c

LEMMA LoopStart ==
  ASSUME TypeOK, QueueSound
  PROVE  LoopInv([array |-> queue, live |-> Len(queue)])
<1> DEFINE s == [array |-> queue, live |-> Len(queue)]
<1>1. Len(queue) \in Nat /\ DOMAIN queue = 1..Len(queue)
  BY DEF TypeOK
<1>2. /\ \A p \in 1..Len(queue) : queue[p] \in Range(queue)
      /\ \A c \in Range(queue) : \E p \in 1..Len(queue) : queue[p] = c
  BY QueueElements
<1>3. queue \in [1..Len(queue) -> Range(queue)]
  <2>1. queue = [p \in 1..Len(queue) |-> queue[p]]
    BY <1>1 DEF TypeOK
  <2> QED BY <1>2, <2>1
<1>4. \A p, q \in 1..Len(queue) : queue[p] = queue[q] => p = q
  BY <1>1 DEF QueueSound, IsInjective
<1>5. s.array = queue /\ s.live = Len(queue) /\ Len(queue) \in 0..Len(queue)
  BY <1>1
<1> HIDE DEF s
<1>6. LoopInv(s)
  BY <1>2, <1>3, <1>4, <1>5 DEF LoopInv
<1> QED BY <1>6 DEF s

LEMMA LoopVisit ==
  ASSUME TypeOK, NEW s, LoopInv(s), NEW i \in 1..Len(queue)
  PROVE  LoopInv(LoopStep(s, i))
<1> DEFINE N     == Len(queue)
           x     == s.array[i]
           found == {p \in 1..s.live : s.array[p] = x}
<1>1. N \in Nat
  BY DEF TypeOK
<1>2. CASE found = {} \/ ~NoneSubmitted(channels[x])
  BY <1>2 DEF LoopStep
<1>3. CASE found # {} /\ NoneSubmitted(channels[x])
  <2>1. PICK m \in found : TRUE
    BY <1>3
  <2>2. m \in 1..s.live /\ s.array[m] = x /\ found = {m}
    BY <2>1 DEF LoopInv
  <2>3. Min(found) = m
    <3>1. m \in Nat
      BY <2>2
    <3>2. (CHOOSE n \in {m} : \A k \in {m} : n <= k) = m
      BY <3>1
    <3> QED BY <2>2, <3>2 DEF Min
  <2> DEFINE arr == [p \in 1..N |-> IF p \in m..(s.live - 1) THEN s.array[p + 1] ELSE s.array[p]]
             new == [array |-> arr, live |-> s.live - 1]
  <2>4. LoopStep(s, i) = new
    BY <1>3, <2>3 DEF LoopStep
  <2>5. /\ s.live \in 1..N /\ m \in 1..s.live
        /\ \A p \in 1..N : s.array[p] \in Range(queue)
        /\ \A p, q \in 1..s.live : s.array[p] = s.array[q] => p = q
        /\ \A c \in Range(queue) :
             ~NoneSubmitted(channels[c]) => \E p \in 1..s.live : s.array[p] = c
    BY <1>1, <2>2 DEF LoopInv
  <2>6. new.array = arr /\ new.live = s.live - 1
    OBVIOUS
  <2> DEFINE live == s.live
             at(p) == s.array[p]
  <2>7. /\ \A p \in 1..(live - 1) : p < m => arr[p] = at(p)
        /\ \A p \in 1..(live - 1) : p >= m => arr[p] = at(p + 1)
    BY <1>1, <2>5
  <2>8. arr \in [1..N -> Range(queue)]
    <3>1. ASSUME NEW p \in 1..N PROVE arr[p] \in Range(queue)
      <4>1. CASE p \in m..(live - 1)
        <5>1. p + 1 \in 1..N /\ arr[p] = at(p + 1)
          BY <1>1, <2>5, <4>1
        <5> QED BY <2>5, <5>1
      <4>2. CASE p \notin m..(live - 1)
        BY <2>5, <4>2
      <4> QED BY <4>1, <4>2
    <3>2. arr = [p \in 1..N |-> arr[p]]
      OBVIOUS
    <3> HIDE DEF arr
    <3> QED BY <3>1, <3>2
  <2> HIDE DEF arr, new
  <2>9. live \in Nat /\ m \in Nat /\ live - 1 \in 0..N
    BY <1>1, <2>5
  <2>10. ASSUME NEW p \in 1..(live - 1), NEW q \in 1..(live - 1), arr[p] = arr[q] PROVE p = q
    <3>1. CASE p < m /\ q < m
      <4>1. p \in 1..live /\ q \in 1..live /\ at(p) = at(q)
        BY <2>7, <2>9, <2>10, <3>1
      <4> QED BY <2>5, <4>1
    <3>2. CASE p < m /\ q >= m
      <4>1. p \in 1..live /\ q + 1 \in 1..live /\ at(p) = at(q + 1)
        BY <2>7, <2>9, <2>10, <3>2
      <4>2. p = q + 1
        BY <2>5, <4>1
      <4> QED BY <2>9, <3>2, <4>2
    <3>3. CASE p >= m /\ q < m
      <4>1. p + 1 \in 1..live /\ q \in 1..live /\ at(p + 1) = at(q)
        BY <2>7, <2>9, <2>10, <3>3
      <4>2. p + 1 = q
        BY <2>5, <4>1
      <4> QED BY <2>9, <3>3, <4>2
    <3>4. CASE p >= m /\ q >= m
      <4>1. p + 1 \in 1..live /\ q + 1 \in 1..live /\ at(p + 1) = at(q + 1)
        BY <2>7, <2>9, <2>10, <3>4
      <4>2. p + 1 = q + 1
        BY <2>5, <4>1
      <4> QED BY <4>2
    <3> QED BY <2>9, <3>1, <3>2, <3>3, <3>4
  <2>11. ASSUME NEW c \in Range(queue), ~NoneSubmitted(channels[c])
         PROVE  \E p \in 1..(live - 1) : arr[p] = c
    <3>1. PICK p \in 1..live : at(p) = c
      BY <2>5, <2>11
    <3>2. p # m
      BY <1>3, <2>2, <2>11, <3>1
    <3>3. CASE p < m
      <4>1. p \in 1..(live - 1)
        BY <2>5, <2>9, <3>3
      <4> QED BY <2>7, <3>1, <3>3, <4>1
    <3>4. CASE p > m
      <4>1. p - 1 \in 1..(live - 1) /\ p - 1 >= m /\ (p - 1) + 1 = p
        BY <2>5, <2>9, <3>4
      <4>2. arr[p - 1] = c
        BY <2>7, <3>1, <4>1
      <4> QED BY <4>1, <4>2
    <3> QED BY <2>9, <3>2, <3>3, <3>4
  <2>12. LoopInv(new)
    BY <2>6, <2>8, <2>9, <2>10, <2>11 DEF LoopInv
  <2> QED BY <2>4, <2>12
<1> QED BY <1>2, <1>3

(* The queue the loop leaves. *)
LEMMA LoopLeaves ==
  ASSUME TypeOK, QueueSound
  PROVE  /\ CloseLoop \in Seq(1..Len(channels)) /\ IsInjective(CloseLoop)
         /\ Range(CloseLoop) \subseteq Range(queue)
         /\ \A c \in Range(queue) : ~NoneSubmitted(channels[c]) => c \in Range(CloseLoop)
<1> DEFINE N == Len(queue)
           g == CHOOSE h : IsLoop(h)
<1>1. N \in Nat
  BY DEF TypeOK
<1>2. IsLoop(g)
  BY <1>1, LoopExists
<1> HIDE DEF g
<1>3. \A i \in 0..N : g[i] = LoopValue(g, i)
  BY <1>2 DEF IsLoop
<1> DEFINE Bad == {i \in 0..N : ~LoopInv(g[i])}
<1>4. Bad = {}
  <2> SUFFICES ASSUME Bad # {} PROVE FALSE
    OBVIOUS
  <2>1. Bad \in SUBSET Nat
    BY <1>1
  <2>2. PICK i \in Bad : \A j \in Bad : i <= j
    BY <2>1, LeastNat
  <2>3. i \in 0..N /\ ~LoopInv(g[i])
    OBVIOUS
  <2>4. CASE i = 0
    <3>1. g[i] = [array |-> queue, live |-> Len(queue)]
      BY <1>3, <2>3, <2>4 DEF LoopValue
    <3> QED BY <2>3, <3>1, LoopStart
  <2>5. CASE i # 0
    <3>1. i - 1 \in 0..N /\ i \in 1..N
      BY <1>1, <2>3, <2>5
    <3>2. i - 1 \notin Bad
      <4> HIDE DEF Bad
      <4> QED BY <2>2, <2>1, <3>1
    <3>3. LoopInv(g[i - 1])
      BY <3>1, <3>2
    <3>4. LoopInv(LoopStep(g[i - 1], i))
      BY <3>1, <3>3, LoopVisit
    <3>5. g[i] = LoopStep(g[i - 1], i)
      BY <1>3, <2>3, <2>5 DEF LoopValue
    <3> QED BY <2>3, <3>4, <3>5
  <2> QED BY <2>4, <2>5
<1>5. N \in 0..N /\ LoopInv(g[N])
  BY <1>1, <1>4
<1> DEFINE s == g[N]
           r == SubSeq(s.array, 1, s.live)
<1>6. CloseLoop = r
  BY CloseLoopIs DEF g, LoopResult
<1> HIDE DEF s
<1>7. /\ s.array \in [1..N -> Range(queue)] /\ s.live \in 0..N
      /\ \A p, q \in 1..s.live : s.array[p] = s.array[q] => p = q
      /\ \A c \in Range(queue) : ~NoneSubmitted(channels[c]) => \E p \in 1..s.live : s.array[p] = c
  BY <1>5 DEF s, LoopInv
<1>8. Range(queue) \subseteq 1..Len(channels)
  BY QueueElements
<1>9. s.array \in Seq(1..Len(channels)) /\ Len(s.array) = N
  <2>1. s.array \in [1..N -> 1..Len(channels)]
    BY <1>7, <1>8
  <2> QED BY <1>1, <2>1
<1>10. /\ r \in Seq(1..Len(channels)) /\ Len(r) = s.live /\ DOMAIN r = 1..s.live
       /\ \A p \in 1..s.live : r[p] = s.array[p]
  BY <1>1, <1>7, <1>9, SubSeqProperties
<1> HIDE DEF r
<1>11. IsInjective(r)
  BY <1>7, <1>10 DEF IsInjective
<1>12. Range(r) \subseteq Range(queue)
  <2>1. \A p \in 1..s.live : p \in 1..N
    BY <1>1, <1>7
  <2> QED BY <1>7, <1>10, <2>1 DEF Range
<1>13. \A c \in Range(queue) : ~NoneSubmitted(channels[c]) => c \in Range(r)
  <2>1. \A p \in 1..s.live : r[p] \in Range(r)
    BY <1>10 DEF Range
  <2> QED BY <1>7, <1>10, <2>1
<1> QED BY <1>6, <1>10, <1>11, <1>12, <1>13

-----------------------------------------------------------------------------
(* Close, and all steps together. *)

(* Close: the queue keeps every submitted channel. *)
LEMMA CloseQueue ==
  ASSUME ManagerInv, Close
  PROVE  /\ queue' \in Seq(1..Len(channels)) /\ IsInjective(queue')
         /\ Range(queue') \subseteq Range(queue)
         /\ \A c \in Range(queue) : ~NoneSubmitted(channels[c]) => c \in Range(queue')
         /\ current' \in {0, current}
         /\ current' # 0 => current' \in Range(queue')
         /\ current \in Range(queue') => current' = current
<1>1. /\ queue' = CloseLoop
      /\ current' = IF current \in Range(queue) \ Range(CloseLoop) THEN 0 ELSE current
  BY DEF Close
<1>2. TypeOK /\ QueueSound
  BY DEF ManagerInv
<1>3. current # 0 => current \in Range(queue)
  BY <1>2 DEF QueueSound
<1> QED BY <1>1, <1>2, <1>3, LoopLeaves

(* Close on the open channel: all of its frames are out. *)
LEMMA CloseChannels ==
  ASSUME ManagerInv, Close, NEW c \in 1..Len(channels), CloseCurrent(c)
  PROVE  /\ channels' \in Seq(Channel) /\ Len(channels') = Len(channels)
         /\ FramesAccounted' /\ FullHasFrames'
         /\ channels'[c].full
         /\ \A d \in 1..Len(channels) : /\ channels[d].full => channels'[d].full
                                        /\ channels'[d].pending = channels[d].pending
                                        /\ d # c => channels'[d] = channels[d]
<1> USE DEF ManagerInv
<1> DEFINE ch == channels[c]
<1>1. ch \in Channel /\ FramesAccountedIn(ch)
  BY DEF TypeOK, FramesAccounted
<1>2. CASE ch.full
  <2>1. channels' = channels
    BY <1>2 DEF CloseCurrent
  <2> QED BY <1>2, <2>1 DEF TypeOK, FramesAccounted, FullHasFrames
<1>3. CASE ~ch.full
  <2>1. PICK nf \in FrameCounts(ch, TRUE) :
          channels' = [channels EXCEPT ![c] = Packed(ch, 0, ch.timeout, TRUE, nf)]
    <3>1. c # 0
      BY DEF TypeOK
    <3> QED BY <1>3, <3>1, Zenon DEF CloseCurrent
  <2> DEFINE new == Packed(ch, 0, ch.timeout, TRUE, nf)
  <2> HIDE DEF ch
  <2>2. nf \in Nat /\ nf > 0 /\ ch.numFrames \in Nat
    <3>1. ch.numFrames \in Nat /\ MaxFrames \in Nat
      BY <1>1, BatcherAssumption DEF Channel
    <3>2. FrameCounts(ch, TRUE) = 1..(MaxFrames - ch.numFrames)
      BY DEF FrameCounts
    <3>3. nf \in 1..(MaxFrames - ch.numFrames)
      BY <3>2
    <3> QED BY <3>1, <3>3
  <2>3. FilledFrom(ch, new, 0, TRUE, nf)
    <3>1. ch.timeout \in Nat /\ TRUE \in BOOLEAN
      BY <1>1 DEF Channel
    <3>2. 0 \in 0..Len(blocks) /\ blocks \in Seq(Block)
      BY DEF TypeOK
    <3> QED BY <1>1, <2>2, <3>1, <3>2, PackedSound, Zenon
  <2> HIDE DEF new
  <2>4. /\ new \in Channel /\ FramesAccountedIn(new) /\ new.full
        /\ new.pending = ch.pending /\ new.numFrames > 0
    <3>1. new \in Channel /\ FramesAccountedIn(new) /\ new.full /\ new.pending = ch.pending
      BY <2>3, Zenon DEF FilledFrom
    <3>2. new.numFrames = ch.numFrames + nf
      BY <2>3, Zenon DEF FilledFrom
    <3> QED BY <2>2, <3>1, <3>2
  <2>5. /\ channels' \in Seq(Channel) /\ Len(channels') = Len(channels)
        /\ channels'[c] = new
        /\ \A d \in 1..Len(channels) : d # c => channels'[d] = channels[d]
        /\ FramesAccounted'
    BY <2>1, <2>4, ReplaceSound DEF new
  <2>6. FullHasFrames'
    BY <2>4, <2>5 DEF FullHasFrames
  <2> QED BY <2>4, <2>5, <2>6 DEF ch
<1> QED BY <1>2, <1>3

(* Close: what stays queued is full. *)
LEMMA CloseStep ==
  ASSUME ManagerInv, Close
  PROVE  ManagerInv'
<1> USE DEF ManagerInv
<1>1. /\ queue' \in Seq(1..Len(channels)) /\ IsInjective(queue')
      /\ Range(queue') \subseteq Range(queue)
      /\ \A c \in Range(queue) : ~NoneSubmitted(channels[c]) => c \in Range(queue')
      /\ current' \in {0, current}
      /\ current' # 0 => current' \in Range(queue')
      /\ current \in Range(queue') => current' = current
  BY CloseQueue
<1>2. CloseCurrent(current') /\ closed' = TRUE
      /\ UNCHANGED <<blocks, tip, txChannels, l1, loaded>>
  BY DEF Close
<1>3. /\ channels' \in Seq(Channel) /\ Len(channels') = Len(channels)
      /\ FramesAccounted' /\ FullHasFrames'
      /\ current' # 0 => channels'[current'].full
      /\ \A d \in 1..Len(channels) : /\ channels[d].full => channels'[d].full
                                     /\ channels'[d].pending = channels[d].pending
                                     /\ d # current' => channels'[d] = channels[d]
  <2>1. CASE current' = 0
    <3>1. channels' = channels
      BY <1>2, <2>1 DEF CloseCurrent
    <3> QED BY <2>1, <3>1 DEF TypeOK, FramesAccounted, FullHasFrames
  <2>2. CASE current' # 0
    <3>1. current' = current /\ current \in 1..Len(channels)
      BY <1>1, <2>2 DEF TypeOK
    <3>2. CloseCurrent(current)
      BY <1>2, <3>1
    <3> QED BY <3>1, <3>2, CloseChannels
  <2> QED BY <2>1, <2>2
<1>4. TypeOK'
  <2>1. current' \in 0..Len(channels')
    BY <1>1, <1>3 DEF TypeOK
  <2>2. closed' \in BOOLEAN
    BY <1>2
  <2> QED BY <1>1, <1>2, <1>3, <2>1, <2>2 DEF TypeOK
<1>5. TxTracked'
  <2>1. \A t \in txChannels : t.ch \in 1..Len(channels)
    BY DEF TypeOK
  <2> QED BY <1>2, <1>3, <2>1 DEF TxTracked
<1>6. \A d \in Range(queue) : d \in 1..Len(channels) /\ (~channels[d].full => d = current)
  BY QueueElements DEF QueueSound
<1>7. \A i \in 1..Len(queue') : queue'[i] \in Range(queue') /\ queue'[i] \in Range(queue)
  BY <1>1, ElementInRange
<1>8. ASSUME NEW i \in 1..Len(queue')
      PROVE  channels'[queue'[i]].full
  <2> DEFINE d == queue'[i]
  <2>1. d \in Range(queue') /\ d \in Range(queue) /\ d \in 1..Len(channels)
    BY <1>6, <1>7
  <2> HIDE DEF d
  <2>2. CASE channels[d].full
    BY <1>3, <2>1, <2>2 DEF d
  <2>3. CASE ~channels[d].full
    <3>1. d = current' /\ current' # 0
      BY <1>1, <1>6, <2>1, <2>3
    <3> QED BY <1>3, <3>1 DEF d
  <2> QED BY <2>2, <2>3
<1>9. QueueSound' /\ ClosedQueueIsFull'
  BY <1>1, <1>8 DEF QueueSound, ClosedQueueIsFull
<1>10. NoBlockLost'
  BY <1>2 DEF NoBlockLost
<1>11. SubmittedNotAbandoned'
  <2> SUFFICES ASSUME NEW d \in 1..Len(channels), d \notin Range(queue'),
                      channels'[d].confirmed # {} \/ channels'[d].pending # {}
               PROVE  Delivered(channels'[d]) \/ IsTimedOut(channels'[d])
    BY <1>3 DEF SubmittedNotAbandoned
  <2>1. channels'[d] = channels[d]
    BY <1>1, <1>3
  <2>2. d \notin Range(queue)
    BY <1>1, <2>1 DEF NoneSubmitted
  <2> QED BY <2>1, <2>2 DEF SubmittedNotAbandoned
<1> QED BY <1>3, <1>4, <1>5, <1>9, <1>10, <1>11

(* Every step of the manager preserves the invariant. *)
LEMMA ManagerStep == ManagerInv /\ [Next]_vars => ManagerInv'
<1> SUFFICES ASSUME ManagerInv, [Next]_vars
             PROVE  ManagerInv'
  OBVIOUS
<1>1. ASSUME NEW b \in L2Blocks, AddL2Block(b) PROVE ManagerInv'
  BY <1>1, AddL2BlockStep
<1>2. CASE TxData
  BY <1>2, TxDataPendingStep, TxDataBuildStep DEF TxData
<1>3. ASSUME NEW tx \in txChannels, NEW at \in 2..l1, TxConfirmed(tx, at) PROVE ManagerInv'
  BY <1>3, TxConfirmedStep
<1>4. ASSUME NEW tx \in txChannels, TxFailed(tx) PROVE ManagerInv'
  BY <1>4, TxFailedStep
<1>5. CASE Close
  BY <1>5, CloseStep
<1>6. CASE Clear
  BY <1>6, ClearStep
<1>7. CASE L1Advances
  BY <1>7, L1Step
<1>8. CASE UNCHANGED vars
  <2> USE <1>8 DEF ManagerInv, vars
  <2>1. TypeOK'
    BY DEF TypeOK
  <2>2. FramesAccounted' /\ TxTracked' /\ FullHasFrames' /\ QueueSound' /\ ClosedQueueIsFull'
    BY DEF FramesAccounted, TxTracked, FullHasFrames, QueueSound, ClosedQueueIsFull
  <2>3. NoBlockLost' /\ SubmittedNotAbandoned'
    BY DEF NoBlockLost, SubmittedNotAbandoned
  <2> QED BY <2>1, <2>2, <2>3
<1> QED BY <1>1, <1>2, <1>3, <1>4, <1>5, <1>6, <1>7, <1>8 DEF Next

-----------------------------------------------------------------------------
(* The theorems. *)

(***************************************************************************)
(* The manager's inductive invariant, for every configuration, every set   *)
(* of L2 blocks and every bound.                                           *)
(***************************************************************************)
THEOREM ManagerInvariant == Spec => []ManagerInv
BY ManagerInit, ManagerStep, PTL DEF Spec

(* Every operation of channel_manager.go keeps the state well typed. *)
THEOREM TypeCorrect == Spec => []TypeOK
<1>1. ManagerInv => TypeOK
  BY DEF ManagerInv
<1> QED BY <1>1, ManagerInvariant, PTL

(***************************************************************************)
(* TxData, TxConfirmed and TxFailed in any order keep each frame of a      *)
(* channel in exactly one place: queued, in flight or confirmed.           *)
(***************************************************************************)
THEOREM EveryFrameAccounted == Spec => []FramesAccounted
<1>1. ManagerInv => FramesAccounted
  BY DEF ManagerInv
<1> QED BY <1>1, ManagerInvariant, PTL

(***************************************************************************)
(* Until Close, no block the driver loaded is lost: it is queued, in a     *)
(* queued channel, or in a channel confirmed in full within its timeout.   *)
(***************************************************************************)
THEOREM EveryBlockKept == Spec => []NoBlockLost
<1>1. ManagerInv => NoBlockLost
  BY DEF ManagerInv
<1> QED BY <1>1, ManagerInvariant, PTL

(* After Close every channel left to drain is full, so it can be sent to the end. *)
THEOREM DrainHasOnlyFullChannels == Spec => []ClosedQueueIsFull
<1>1. ManagerInv => ClosedQueueIsFull
  BY DEF ManagerInv
<1> QED BY <1>1, ManagerInvariant, PTL

(***************************************************************************)
(* For every queue the manager can have, neither the loop of Close, which  *)
(* skips channels as the array shifts under it, nor a failure reported     *)
(* after it gives up a channel of which a transaction is in flight or on   *)
(* L1 before all of it is there or it has timed out.                       *)
(***************************************************************************)
THEOREM NoSubmittedChannelAbandoned == Spec => []SubmittedNotAbandoned
<1>1. ManagerInv => SubmittedNotAbandoned
  BY DEF ManagerInv
<1> QED BY <1>1, ManagerInvariant, PTL
=============================================================================
