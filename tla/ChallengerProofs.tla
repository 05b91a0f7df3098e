-------------------------- MODULE ChallengerProofs ---------------------------
(***************************************************************************)
(* Theorems about the challenger, checked by TLAPS.                        *)
(*                                                                         *)
(* DisputeGame, for every depth and duration of the game and any number of *)
(* moves of the others: the honest challenger wins if it answers in time   *)
(* and no claim is resolved before that time is over, the contract accepts *)
(* its steps and finds the claims they refer to.                           *)
(*                                                                         *)
(* GameScheduler, for every set of games, number of workers and queue      *)
(* size: the typing, that a game has at most one job, and that the files   *)
(* of a game that is still to be played are kept.                          *)
(***************************************************************************)
EXTENDS DisputeGame, GameScheduler, SequenceTheorems, FiniteSetTheorems, WellFoundedInduction, TLAPS

-----------------------------------------------------------------------------
(* Sequences. *)

(* Appending leaves the earlier elements where they are. *)
LEMMA AppendFacts ==
  ASSUME NEW S, NEW s \in Seq(S), NEW e \in S
  PROVE  /\ Append(s, e) \in Seq(S) /\ Len(Append(s, e)) = Len(s) + 1 /\ Len(s) \in Nat
         /\ \A i \in 1..Len(s) : Append(s, e)[i] = s[i]
         /\ Append(s, e)[Len(s) + 1] = e
  OBVIOUS

(* Taking the first element moves the others one place forward. *)
LEMMA TailFacts ==
  ASSUME NEW S, NEW s \in Seq(S), s # << >>
  PROVE  /\ Tail(s) \in Seq(S) /\ Len(Tail(s)) = Len(s) - 1 /\ Len(s) \in Nat \ {0}
         /\ \A i \in 1..Len(s) - 1 : Tail(s)[i] = s[i + 1]
         /\ Head(s) = s[1] /\ s[1] \in S
  OBVIOUS

-----------------------------------------------------------------------------
(* Powers of two and positions. *)

Pow(k) == 2 ^ k

(* A set of numbers that is not empty has a least element. *)
LEMMA LeastNat ==
  ASSUME NEW S \in SUBSET Nat, S # {}
  PROVE  \E n \in S : \A m \in S : n <= m
<1>1. PICK n \in S : \A m \in S : ~(<<m, n>> \in OpToRel(<, Nat))
  BY NatLessThanWellFounded, WFMin, Zenon
<1>2. \A m \in S : ~(m < n)
  BY <1>1 DEF OpToRel
<1>3. \A m \in S : n <= m
  BY <1>2
<1> QED BY <1>3, Zenon

(* Powers are positive and double. *)
LEMMA PowFacts ==
  /\ Pow(0) = 1
  /\ \A k \in 0..MaxDepth + 2 : Pow(k) \in Nat \ {0}
  /\ \A k \in 0..MaxDepth + 1 : Pow(k + 1) = 2 * Pow(k)
<1>1. Pow(0) = 1
  BY DEF Pow
<1>2. \A k \in 0..MaxDepth + 1 : Pow(k + 1) = 2 * Pow(k)
  BY PowersOfTwo DEF Pow
<1>3. \A k \in 0..MaxDepth + 2 : Pow(k) \in Nat \ {0}
  <2> DEFINE S == {k \in 0..MaxDepth + 2 : Pow(k) \notin Nat \ {0}}
  <2> SUFFICES ASSUME S # {} PROVE FALSE
    OBVIOUS
  <2>1. PICK k \in S : \A m \in S : k <= m
    <3>1. S \in SUBSET Nat
      BY DisputeAssumption
    <3> QED BY <3>1, LeastNat
  <2>2. k # 0
    BY <1>1
  <2>3. k - 1 \in 0..MaxDepth + 1 /\ k - 1 \notin S /\ k - 1 + 1 = k
    BY <2>1, <2>2, DisputeAssumption
  <2>4. Pow(k - 1) \in Nat \ {0}
    BY <2>3, DisputeAssumption
  <2>5. Pow(k) = 2 * Pow(k - 1)
    BY <1>2, <2>3
  <2> QED BY <2>1, <2>4, <2>5
<1> QED BY <1>1, <1>2, <1>3

(* Powers grow. *)
LEMMA PowGrows ==
  ASSUME NEW j \in 0..MaxDepth + 2, NEW k \in 0..MaxDepth + 2, j <= k
  PROVE  Pow(j) <= Pow(k)
<1> DEFINE S == {n \in j..MaxDepth + 2 : ~(Pow(j) <= Pow(n))}
<1> SUFFICES ASSUME S # {} PROVE FALSE
  BY DisputeAssumption
<1>1. PICK n \in S : \A m \in S : n <= m
  <2>1. S \in SUBSET Nat
    BY DisputeAssumption
  <2> QED BY <2>1, LeastNat
<1>2. n # j
  BY PowFacts
<1>3. n - 1 \in j..MaxDepth + 2 /\ n - 1 \notin S /\ n - 1 + 1 = n /\ n - 1 \in 0..MaxDepth + 1
  BY <1>1, <1>2, DisputeAssumption
<1>4. Pow(j) <= Pow(n - 1)
  BY <1>3
<1>5. Pow(n) = 2 * Pow(n - 1) /\ Pow(n - 1) \in Nat /\ Pow(j) \in Nat
  BY <1>3, PowFacts, DisputeAssumption
<1> QED BY <1>1, <1>4, <1>5

(* A position is at the depth whose power of two it has passed and whose next it has not. *)
LEMMA DepthIs ==
  ASSUME NEW p \in Nat, NEW d \in 0..MaxDepth + 1, Pow(d) <= p, p < Pow(d + 1)
  PROVE  DepthOf(p) = d
<1> DEFINE S == {e \in 0..MaxDepth + 1 : 2 ^ e <= p}
<1>1. d \in S
  BY DEF Pow
<1>2. ASSUME NEW e \in S PROVE e <= d
  <2> SUFFICES ASSUME e > d PROVE FALSE
    BY DisputeAssumption
  <2>1. d + 1 <= e /\ d + 1 \in 0..MaxDepth + 2 /\ e \in 0..MaxDepth + 2
    BY DisputeAssumption
  <2>2. Pow(d + 1) <= Pow(e) /\ Pow(e) \in Nat /\ Pow(d + 1) \in Nat
    BY <2>1, PowGrows, PowFacts
  <2>3. Pow(e) <= p
    BY DEF Pow
  <2> QED BY <2>2, <2>3
<1>3. \A x \in S : (\A y \in S : y <= x) => x = d
  BY <1>1, <1>2, DisputeAssumption
<1>4. Max(S) = d
  BY <1>1, <1>2, <1>3 DEF Max
<1> QED BY <1>4 DEF DepthOf

(* A position of the game: the bounds its depth stands for. *)
Position(p) ==
  /\ p \in Nat /\ DepthOf(p) \in 0..MaxDepth
  /\ Pow(DepthOf(p)) <= p /\ p < Pow(DepthOf(p) + 1)

(* The root's position, and a move from a position to one of the game: it is even, a level down, *)
(* to the left of the position (attack) or, from an even position, to its right (defend).        *)
LEMMA RootPosition == Position(1) /\ DepthOf(1) = 0
<1>1. Pow(0) = 1 /\ Pow(0 + 1) = 2
  BY PowFacts, DisputeAssumption
<1>2. DepthOf(1) = 0
  BY <1>1, DepthIs, DisputeAssumption
<1> QED BY <1>1, <1>2, DisputeAssumption DEF Position

LEMMA MovePosition ==
  ASSUME NEW p, Position(p), p = 1 \/ p % 2 = 0, NEW isAttack \in BOOLEAN,
         ~(DepthOf(Move(p, isAttack)) > MaxDepth)
  PROVE  /\ Position(Move(p, isAttack))
         /\ DepthOf(Move(p, isAttack)) = DepthOf(p) + 1
         /\ Move(p, isAttack) % 2 = 0
         /\ Move(p, isAttack) = 2 * p \/ (p % 2 = 0 /\ Move(p, isAttack) = 2 * (p + 1))
<1> DEFINE d == DepthOf(p)
           n == Move(p, isAttack)
<1>1. p \in Nat /\ d \in 0..MaxDepth /\ Pow(d) <= p /\ p < Pow(d + 1)
  BY DEF Position
<1>2. /\ Pow(d) \in Nat \ {0} /\ Pow(d + 1) = 2 * Pow(d) /\ Pow(d + 1 + 1) = 2 * Pow(d + 1)
      /\ d + 1 \in 0..MaxDepth + 1
  BY <1>1, PowFacts, DisputeAssumption
<1>3. n = 2 * p \/ (p % 2 = 0 /\ n = 2 * (p + 1))
  BY <1>1 DEF Move
<1> HIDE DEF d
<1>4. n \in Nat /\ Pow(d + 1) <= n /\ n < Pow(d + 1 + 1) /\ n % 2 = 0
  <2> HIDE DEF n
  <2>1. CASE n = 2 * p
    BY <1>1, <1>2, <2>1
  <2>2. CASE p % 2 = 0 /\ n = 2 * (p + 1)
    BY <1>1, <1>2, <2>2
  <2> QED BY <1>3, <2>1, <2>2
<1> HIDE DEF n
<1>5. DepthOf(n) = d + 1
  BY <1>2, <1>4, DepthIs
<1>6. DepthOf(n) \in 0..MaxDepth
  <2>1. ~(DepthOf(n) > MaxDepth)
    BY DEF n
  <2> QED BY <1>2, <1>5, <2>1, DisputeAssumption
<1>7. Position(n)
  BY <1>4, <1>5, <1>6 DEF Position
<1> QED BY <1>3, <1>4, <1>5, <1>7 DEF n, d

-----------------------------------------------------------------------------
(* TraceAncestor. *)

Ones(p) == {k \in 0..MaxDepth + 1 : (p + 1) % Pow(k) = 0}

(* Past its most trailing ones. *)
LEMMA TraceAncestorIs ==
  ASSUME NEW p \in Nat, NEW o \in Ones(p), \A k \in Ones(p) : k <= o
  PROVE  TraceAncestor(p) = IF p \div Pow(o) = 0 THEN 1 ELSE p \div Pow(o)
<1> DEFINE S == {k \in 0..MaxDepth + 1 : (p + 1) % 2 ^ k = 0}
<1>1. S = Ones(p)
  BY DEF Ones, Pow
<1>2. \A x \in S : (\A y \in S : y <= x) => x = o
  <2>1. S \in SUBSET Nat
    BY DisputeAssumption
  <2>2. o \in S /\ \A y \in S : y <= o
    BY <1>1
  <2> HIDE DEF S
  <2> QED BY <2>1, <2>2
<1>3. Max(S) = o
  BY <1>1, <1>2 DEF Max
<1>4. TraceAncestor(p) = IF p \div 2 ^ Max(S) = 0 THEN 1 ELSE p \div 2 ^ Max(S)
  BY DEF TraceAncestor
<1> QED BY <1>3, <1>4 DEF Pow

LEMMA MostOnes ==
  ASSUME NEW p \in Nat
  PROVE  \E o \in Ones(p) : \A k \in Ones(p) : k <= o
<1> DEFINE S == {n \in 0..MaxDepth + 1 : MaxDepth + 1 - n \in Ones(p)}
<1>1. 0 \in Ones(p)
  <2>1. (p + 1) % 1 = 0
    OBVIOUS
  <2> QED BY <2>1, PowFacts, DisputeAssumption DEF Ones
<1>2. MaxDepth + 1 \in S
  BY <1>1, DisputeAssumption
<1>3. PICK n \in S : \A m \in S : n <= m
  <2>1. S \in SUBSET Nat
    BY DisputeAssumption
  <2> HIDE DEF S
  <2> QED BY <1>2, <2>1, LeastNat
<1>4. MaxDepth + 1 - n \in Ones(p)
  BY <1>3
<1>5. ASSUME NEW k \in Ones(p) PROVE k <= MaxDepth + 1 - n
  <2>1. k \in 0..MaxDepth + 1 /\ MaxDepth + 1 - (MaxDepth + 1 - k) = k
    BY DisputeAssumption DEF Ones
  <2>2. MaxDepth + 1 - k \in S
    BY <2>1, DisputeAssumption
  <2> QED BY <1>3, <2>1, <2>2, DisputeAssumption
<1> QED BY <1>4, <1>5

(* An even position is its own trace ancestor. *)
LEMMA AncestorOfEven ==
  ASSUME NEW m \in Nat, m > 0
  PROVE  TraceAncestor(2 * m) = 2 * m
<1>1. 0 \in Ones(2 * m)
  <2>1. (2 * m + 1) % 1 = 0
    OBVIOUS
  <2> QED BY <2>1, PowFacts, DisputeAssumption DEF Ones
<1>2. ASSUME NEW k \in Ones(2 * m) PROVE k <= 0
  <2> SUFFICES ASSUME k > 0 PROVE FALSE
    BY DisputeAssumption DEF Ones
  <2>1. k - 1 \in 0..MaxDepth + 1 /\ k - 1 + 1 = k /\ (2 * m + 1) % Pow(k) = 0
    BY DisputeAssumption DEF Ones
  <2>2. Pow(k) = 2 * Pow(k - 1) /\ Pow(k - 1) \in Nat \ {0}
    BY <2>1, PowFacts, DisputeAssumption
  <2>3. \A b \in Nat \ {0} : (2 * m + 1) % (2 * b) # 0
    OBVIOUS
  <2> QED BY <2>1, <2>2, <2>3
<1>3. (2 * m) \div 1 = 2 * m
  OBVIOUS
<1>4. TraceAncestor(2 * m) = IF (2 * m) \div Pow(0) = 0 THEN 1 ELSE (2 * m) \div Pow(0)
  BY <1>1, <1>2, TraceAncestorIs
<1> QED BY <1>3, <1>4, PowFacts

(* An odd one's is that of its parent position. *)
LEMMA AncestorOfOdd ==
  ASSUME NEW m \in Nat, m + 1 < Pow(MaxDepth + 1)
  PROVE  TraceAncestor(2 * m + 1) = TraceAncestor(m)
<1>1. PICK o \in Ones(m) : \A k \in Ones(m) : k <= o
  BY MostOnes
<1>2. o \in 0..MaxDepth + 1 /\ (m + 1) % Pow(o) = 0 /\ Pow(o) \in Nat \ {0}
  BY PowFacts, DisputeAssumption DEF Ones
<1>3. o # MaxDepth + 1
  <2> SUFFICES ASSUME o = MaxDepth + 1 PROVE FALSE
    OBVIOUS
  <2>1. \A b \in Nat \ {0} : m + 1 < b => (m + 1) % b = m + 1
    OBVIOUS
  <2> QED BY <1>2, <2>1
<1>4. o \in 0..MaxDepth /\ o + 1 \in 0..MaxDepth + 1 /\ Pow(o + 1) = 2 * Pow(o)
  BY <1>2, <1>3, PowFacts, DisputeAssumption
<1>5. \A b \in Nat \ {0} : ((2 * m + 1 + 1) % (2 * b) = 0) <=> ((m + 1) % b = 0)
  <2> TAKE b \in Nat \ {0}
  <2> DEFINE x == (m + 1) \div b
             r == (m + 1) % b
  <2>1. x \in Nat /\ r \in 0..b - 1 /\ m + 1 = b * x + r
    OBVIOUS
  <2>2. 2 * m + 1 + 1 = (2 * b) * x + 2 * r /\ 2 * r \in 0..2 * b - 1
    <3> HIDE DEF x, r
    <3>1. \A y \in Nat : 2 * (b * y) = (2 * b) * y
      OBVIOUS
    <3>2. 2 * m + 1 + 1 = 2 * (b * x) + 2 * r
      BY <2>1
    <3> QED BY <2>1, <3>1, <3>2
  <2> HIDE DEF x, r
  <2>3. (2 * m + 1 + 1) % (2 * b) = 2 * r
    BY <2>1, <2>2
  <2> QED BY <2>1, <2>3 DEF r
<1>6. o + 1 \in Ones(2 * m + 1)
  BY <1>2, <1>4, <1>5 DEF Ones
<1>7. ASSUME NEW k \in Ones(2 * m + 1) PROVE k <= o + 1
  <2> SUFFICES ASSUME k > 0 PROVE k <= o + 1
    BY <1>2, DisputeAssumption DEF Ones
  <2>1. k - 1 \in 0..MaxDepth + 1 /\ k - 1 + 1 = k /\ (2 * m + 1 + 1) % Pow(k) = 0
    BY DisputeAssumption DEF Ones
  <2>2. Pow(k) = 2 * Pow(k - 1) /\ Pow(k - 1) \in Nat \ {0}
    BY <2>1, PowFacts, DisputeAssumption
  <2>3. k - 1 \in Ones(m)
    BY <1>5, <2>1, <2>2 DEF Ones
  <2> QED BY <1>1, <1>2, <2>1, <2>3, DisputeAssumption
<1>8. TraceAncestor(m) = IF m \div Pow(o) = 0 THEN 1 ELSE m \div Pow(o)
  BY <1>1, TraceAncestorIs
<1>9. TraceAncestor(2 * m + 1) = IF (2 * m + 1) \div Pow(o + 1) = 0 THEN 1 ELSE (2 * m + 1) \div Pow(o + 1)
  BY <1>6, <1>7, TraceAncestorIs
<1>10. \A b \in Nat \ {0} : (2 * m + 1) \div (2 * b) = m \div b
  OBVIOUS
<1> QED BY <1>2, <1>4, <1>8, <1>9, <1>10

(* A trace ancestor is not to the right. *)
LEMMA AncestorBound ==
  ASSUME NEW p \in Nat
  PROVE  TraceAncestor(p) \in Nat \ {0} /\ (TraceAncestor(p) <= p \/ TraceAncestor(p) = 1)
<1>1. PICK o \in Ones(p) : \A k \in Ones(p) : k <= o
  BY MostOnes
<1>2. Pow(o) \in Nat \ {0}
  BY PowFacts, DisputeAssumption DEF Ones
<1>3. TraceAncestor(p) = IF p \div Pow(o) = 0 THEN 1 ELSE p \div Pow(o)
  BY <1>1, TraceAncestorIs
<1>4. \A b \in Nat \ {0} : p \div b \in Nat /\ p \div b <= p
  OBVIOUS
<1> QED BY <1>2, <1>3, <1>4

(* The position of the root is its own ancestor, and that of the position before it. *)
LEMMA AncestorOfRoot == TraceAncestor(1) = 1 /\ TraceAncestor(0) = 1
  BY AncestorBound

-----------------------------------------------------------------------------
(* The tree of claims. *)

(* Claim i was made by a move against its parent. *)
Placed(cs, i) ==
  /\ cs[i].parent \in 1..i - 1
  /\ Position(cs[i].pos) /\ cs[i].pos % 2 = 0
  /\ DepthOf(cs[i].pos) = DepthOf(cs[cs[i].parent].pos) + 1
  /\ \/ cs[i].pos = 2 * cs[cs[i].parent].pos
     \/ cs[cs[i].parent].pos % 2 = 0 /\ cs[i].pos = 2 * (cs[cs[i].parent].pos + 1)

Tree(cs) ==
  /\ cs \in Seq(Claims) /\ Len(cs) >= 1
  /\ cs[1].parent = 0 /\ cs[1].pos = 1
  /\ \A i \in 2..Len(cs) : Placed(cs, i)

(* PathTo, of any tree. *)
PathOf(cs) == LET path[i \in DOMAIN cs] ==
                    IF cs[i].parent = 0 THEN {i} ELSE {i} \cup path[cs[i].parent]
              IN path

LEMMA PathToIsPathOf == PathTo = PathOf(claims)
  BY DEF PathTo, PathOf

(* What every set that holds i and, with a claim, its parent, holds. *)
Closed(cs, T) == \A x \in T : cs[x].parent # 0 => cs[x].parent \in T
Ancestors(cs, i) == {j \in DOMAIN cs : \A T \in SUBSET DOMAIN cs : i \in T /\ Closed(cs, T) => j \in T}

LEMMA TreeTypes ==
  ASSUME NEW cs, Tree(cs), NEW i \in DOMAIN cs
  PROVE  /\ Len(cs) \in Nat /\ DOMAIN cs = 1..Len(cs) /\ i \in Nat /\ 1 \in DOMAIN cs
         /\ cs[i] \in Claims /\ cs[i].good \in BOOLEAN /\ cs[i].countered \in BOOLEAN
         /\ i = 1 => cs[i].parent = 0 /\ cs[i].pos = 1
         /\ i # 1 => i \in 2..Len(cs) /\ Placed(cs, i) /\ cs[i].parent \in DOMAIN cs
                     /\ cs[i].parent # 0 /\ cs[i].parent < i
         /\ Position(cs[i].pos)
<1>1. cs \in Seq(Claims) /\ Len(cs) \in Nat /\ DOMAIN cs = 1..Len(cs) /\ Len(cs) >= 1
  BY DEF Tree
<1>2. cs[i] \in Claims
  BY <1>1
<1>3. i # 1 => i \in 2..Len(cs)
  BY <1>1
<1>4. i # 1 => Placed(cs, i)
  BY <1>3 DEF Tree
<1>5. i # 1 => cs[i].parent \in DOMAIN cs /\ cs[i].parent # 0 /\ cs[i].parent < i
  BY <1>1, <1>4 DEF Placed
<1>6. Position(cs[i].pos)
  BY <1>4, RootPosition DEF Placed, Tree
<1>7. cs[i].good \in BOOLEAN /\ cs[i].countered \in BOOLEAN
  BY <1>2 DEF Claims
<1>8. i = 1 => cs[i].parent = 0 /\ cs[i].pos = 1
  BY DEF Tree
<1> QED BY <1>1, <1>2, <1>3, <1>4, <1>5, <1>6, <1>7, <1>8

(* The path of a claim is the claim and the path of its parent. *)
LEMMA PathExists ==
  ASSUME NEW cs, Tree(cs)
  PROVE  \A i \in DOMAIN cs :
           Ancestors(cs, i) = IF cs[i].parent = 0 THEN {i} ELSE {i} \cup Ancestors(cs, cs[i].parent)
<1> TAKE i \in DOMAIN cs
<1>1. CASE i = 1
  <2>1. cs[i].parent = 0 /\ {i} \in SUBSET DOMAIN cs
    BY <1>1, TreeTypes
  <2>2. Closed(cs, {i})
    BY <2>1 DEF Closed
  <2> QED BY <2>1, <2>2 DEF Ancestors
<1>2. CASE i # 1
  <2> DEFINE q == cs[i].parent
             U == {i} \cup Ancestors(cs, q)
  <2>1. q \in DOMAIN cs /\ q # 0
    BY <1>2, TreeTypes
  <2>2. U \in SUBSET DOMAIN cs
    BY DEF Ancestors
  <2>3. q \in Ancestors(cs, q)
    BY <2>1 DEF Ancestors
  <2>4. ASSUME NEW x \in Ancestors(cs, q), cs[x].parent # 0
        PROVE  cs[x].parent \in Ancestors(cs, q)
    <3>1. x \in DOMAIN cs
      BY DEF Ancestors
    <3>2. cs[x].parent \in DOMAIN cs
      BY <2>4, <3>1, TreeTypes
    <3> QED BY <2>4, <3>2 DEF Ancestors, Closed
  <2>5. Closed(cs, U)
    BY <2>3, <2>4 DEF Closed
  <2>6. Ancestors(cs, i) \subseteq U
    BY <2>2, <2>5 DEF Ancestors
  <2>7. i \in Ancestors(cs, i)
    BY DEF Ancestors
  <2>8. ASSUME NEW j \in Ancestors(cs, q) PROVE j \in Ancestors(cs, i)
    <3>1. j \in DOMAIN cs
      BY DEF Ancestors
    <3>2. ASSUME NEW T \in SUBSET DOMAIN cs, i \in T, Closed(cs, T) PROVE j \in T
      <4>1. q \in T
        BY <2>1, <3>2 DEF Closed
      <4> QED BY <3>2, <4>1 DEF Ancestors
    <3> QED BY <3>1, <3>2 DEF Ancestors
  <2> QED BY <2>1, <2>6, <2>7, <2>8
<1> QED BY <1>1, <1>2

LEMMA PathStep ==
  ASSUME NEW cs, Tree(cs), NEW i \in DOMAIN cs
  PROVE  /\ i = 1 => PathOf(cs)[i] = {1}
         /\ i # 1 => PathOf(cs)[i] = {i} \cup PathOf(cs)[cs[i].parent]
<1> DEFINE F(path) == [k \in DOMAIN cs |->
             IF cs[k].parent = 0 THEN {k} ELSE {k} \cup path[cs[k].parent]]
           p == [k \in DOMAIN cs |-> Ancestors(cs, k)]
<1>1. \A k \in DOMAIN cs : cs[k].parent # 0 => cs[k].parent \in DOMAIN cs
  BY TreeTypes
<1>2. p = F(p)
  <2>1. \A k \in DOMAIN cs : p[k] = F(p)[k]
    <3> TAKE k \in DOMAIN cs
    <3>1. cs[k].parent # 0 => p[cs[k].parent] = Ancestors(cs, cs[k].parent)
      BY <1>1
    <3>2. p[k] = IF cs[k].parent = 0 THEN {k} ELSE {k} \cup Ancestors(cs, cs[k].parent)
      BY PathExists
    <3> QED BY <3>1, <3>2
  <2> QED BY <2>1
<1> HIDE DEF p
<1>3. PathOf(cs) = F(PathOf(cs))
  BY <1>2 DEF PathOf
<1>4. PathOf(cs)[i] = IF cs[i].parent = 0 THEN {i} ELSE {i} \cup PathOf(cs)[cs[i].parent]
  <2> DEFINE r == PathOf(cs)
  <2>1. r = F(r)
    BY <1>3
  <2> HIDE DEF r
  <2>2. r[i] = IF cs[i].parent = 0 THEN {i} ELSE {i} \cup r[cs[i].parent]
    BY <2>1
  <2> QED BY <2>2 DEF r
<1> QED BY <1>4, TreeTypes

(* A path goes up: every other claim on it is older and at a smaller depth. *)
LEMMA PathGoesUp ==
  ASSUME NEW cs, Tree(cs), NEW i \in DOMAIN cs
  PROVE  /\ PathOf(cs)[i] \subseteq DOMAIN cs /\ i \in PathOf(cs)[i]
         /\ \A j \in PathOf(cs)[i] : j # i => DepthOf(cs[j].pos) < DepthOf(cs[i].pos)
<1> DEFINE Up(k) == /\ PathOf(cs)[k] \subseteq DOMAIN cs /\ k \in PathOf(cs)[k]
                    /\ \A j \in PathOf(cs)[k] : j # k => DepthOf(cs[j].pos) < DepthOf(cs[k].pos)
           S == {k \in DOMAIN cs : ~Up(k)}
<1> SUFFICES ASSUME S # {} PROVE FALSE
  OBVIOUS
<1>1. PICK k \in S : \A l \in S : k <= l
  <2>1. S \in SUBSET Nat
    BY TreeTypes
  <2> HIDE DEF S
  <2> QED BY <2>1, LeastNat
<1>2. k \in DOMAIN cs /\ ~Up(k)
  BY <1>1
<1>3. CASE k = 1
  BY <1>2, <1>3, PathStep
<1>4. CASE k # 1
  <2> DEFINE q == cs[k].parent
  <2>1. /\ PathOf(cs)[k] = {k} \cup PathOf(cs)[q]
        /\ q \in DOMAIN cs /\ q < k /\ k \in Nat /\ q \in Nat
    BY <1>2, <1>4, PathStep, TreeTypes
  <2>2. Up(q)
    <3>1. ~(k <= q)
      BY <2>1
    <3>2. q \notin S
      BY <1>1, <3>1, Zenon
    <3> QED BY <2>1, <3>2
  <2>3. DepthOf(cs[k].pos) = DepthOf(cs[q].pos) + 1 /\ DepthOf(cs[q].pos) \in Nat
    <3>1. Placed(cs, k) /\ Position(cs[q].pos)
      BY <1>2, <1>4, <2>1, TreeTypes
    <3> QED BY <3>1 DEF Placed, Position
  <2>4. ASSUME NEW j \in PathOf(cs)[k], j # k PROVE DepthOf(cs[j].pos) < DepthOf(cs[k].pos)
    <3>1. j \in PathOf(cs)[q] /\ j \in DOMAIN cs
      BY <2>1, <2>2, <2>4
    <3>2. DepthOf(cs[j].pos) \in Nat
      BY <3>1, TreeTypes DEF Position
    <3>3. j = q \/ DepthOf(cs[j].pos) < DepthOf(cs[q].pos)
      BY <2>2, <3>1
    <3> QED BY <2>3, <3>2, <3>3
  <2> QED BY <1>2, <2>1, <2>2, <2>4
<1> QED BY <1>3, <1>4

(* So only the claim itself has its position. *)
LEMMA PathPositionsDiffer ==
  ASSUME NEW cs, Tree(cs), NEW i \in DOMAIN cs, NEW j \in PathOf(cs)[i], cs[j].pos = cs[i].pos
  PROVE  j = i
<1>1. j # i => DepthOf(cs[j].pos) < DepthOf(cs[i].pos)
  BY PathGoesUp
<1>2. DepthOf(cs[i].pos) \in Nat
  BY TreeTypes DEF Position
<1> QED BY <1>1, <1>2

(* Nor do two claims on one path. *)
LEMMA PathPositionsUnique ==
  ASSUME NEW cs, Tree(cs), NEW i \in DOMAIN cs,
         NEW j \in PathOf(cs)[i], NEW k \in PathOf(cs)[i], cs[j].pos = cs[k].pos
  PROVE  j = k
<1> DEFINE Unique(l) == \A x, y \in PathOf(cs)[l] : cs[x].pos = cs[y].pos => x = y
           S == {l \in DOMAIN cs : ~Unique(l)}
<1> SUFFICES ASSUME S # {} PROVE FALSE
  OBVIOUS
<1>1. PICK l \in S : \A n \in S : l <= n
  <2>1. S \in SUBSET Nat
    BY TreeTypes
  <2> HIDE DEF S
  <2> QED BY <2>1, LeastNat
<1>2. l \in DOMAIN cs /\ ~Unique(l)
  BY <1>1
<1>3. CASE l = 1
  BY <1>2, <1>3, PathStep
<1>4. CASE l # 1
  <2> DEFINE q == cs[l].parent
  <2>1. /\ PathOf(cs)[l] = {l} \cup PathOf(cs)[q]
        /\ q \in DOMAIN cs /\ q < l /\ l \in Nat /\ q \in Nat
    BY <1>2, <1>4, PathStep, TreeTypes
  <2>2. ~(l <= q)
    BY <2>1
  <2>3. q \notin S
    BY <1>1, <2>2, Zenon
  <2>4. Unique(q)
    BY <2>1, <2>3
  <2>5. \A x \in PathOf(cs)[l] : cs[x].pos = cs[l].pos => x = l
    BY <1>2, PathPositionsDiffer
  <2>6. \A x, y \in PathOf(cs)[l] : cs[x].pos = cs[y].pos => x = y
    BY <2>1, <2>4, <2>5
  <2> QED BY <1>2, <2>6
<1> QED BY <1>3, <1>4

Leftmost(p) == p = Pow(DepthOf(p))
Half(p) == p \div 2

(* The trace ancestors next to a claim, from those next to its parent. *)
LEMMA AncestorsFromParent ==
  ASSUME NEW cs, Tree(cs), NEW i \in 2..Len(cs)
  PROVE  LET q == cs[i].parent
             p == cs[q].pos
             m == Half(cs[i].pos)
         IN \/ /\ cs[i].pos = 2 * p /\ TraceAncestor(m) = p
               /\ ~Leftmost(cs[i].pos) =>
                    q # 1 /\ ~Leftmost(p) /\ TraceAncestor(m - 1) = TraceAncestor(Half(p) - 1)
            \/ /\ q # 1 /\ cs[i].pos = 2 * (p + 1)
               /\ TraceAncestor(m) = TraceAncestor(Half(p)) /\ TraceAncestor(m - 1) = p
<1> DEFINE q == cs[i].parent
           p == cs[q].pos
           m == Half(cs[i].pos)
           d == DepthOf(p)
<1>1. i \in DOMAIN cs /\ i # 1
  BY DEF Tree
<1>2. /\ q \in DOMAIN cs /\ Position(p) /\ Position(cs[i].pos)
      /\ DepthOf(cs[i].pos) = d + 1
      /\ cs[i].pos = 2 * p \/ (p % 2 = 0 /\ cs[i].pos = 2 * (p + 1))
  BY <1>1, TreeTypes DEF Placed
<1>3. /\ p \in Nat /\ p > 0 /\ cs[i].pos \in Nat /\ d \in 0..MaxDepth
      /\ d + 1 \in 0..MaxDepth /\ Pow(d + 1) = 2 * Pow(d) /\ Pow(d) \in Nat
      /\ Pow(MaxDepth + 1) \in Nat /\ p < Pow(MaxDepth + 1) /\ cs[i].pos < Pow(MaxDepth + 1)
  <2>1. p \in Nat /\ d \in 0..MaxDepth /\ Pow(d) <= p /\ p < Pow(d + 1) /\ cs[i].pos \in Nat
        /\ d + 1 \in 0..MaxDepth /\ cs[i].pos < Pow(d + 1 + 1)
    BY <1>2 DEF Position
  <2>2. /\ Pow(d) \in Nat \ {0} /\ Pow(d + 1) \in Nat /\ Pow(d + 1 + 1) \in Nat
        /\ Pow(MaxDepth + 1) \in Nat /\ Pow(d + 1) = 2 * Pow(d)
    BY <2>1, PowFacts, DisputeAssumption
  <2>3. Pow(d + 1) <= Pow(MaxDepth + 1) /\ Pow(d + 1 + 1) <= Pow(MaxDepth + 1)
    BY <2>1, PowGrows, DisputeAssumption
  <2> DEFINE x == cs[i].pos
             a == Pow(d)
             b == Pow(d + 1)
             c == Pow(d + 1 + 1)
             e == Pow(MaxDepth + 1)
  <2>4. /\ p \in Nat /\ x \in Nat /\ a \in Nat \ {0} /\ b \in Nat /\ c \in Nat /\ e \in Nat
        /\ a <= p /\ p < b /\ x < c /\ b <= e /\ c <= e
    BY <2>1, <2>2, <2>3, Zenon
  <2> HIDE DEF d, p, x, a, b, c, e
  <2>5. p > 0 /\ p < e /\ x < e
    BY <2>4
  <2> QED BY <2>1, <2>2, <2>5, Zenon DEF x, a, e
<1>4. q # 1 => p % 2 = 0 /\ p = 2 * Half(p) /\ Half(p) \in Nat /\ Half(p) > 0
  <2> SUFFICES ASSUME q # 1 PROVE p % 2 = 0 /\ p = 2 * Half(p) /\ Half(p) \in Nat /\ Half(p) > 0
    OBVIOUS
  <2>1. p % 2 = 0
    BY <1>2, TreeTypes DEF Placed
  <2> HIDE DEF p
  <2> QED BY <1>3, <2>1 DEF Half
<1>5. q = 1 => p = 1 /\ d = 0 /\ Leftmost(p)
  <2>1. q = 1 => p = 1
    BY <1>2, TreeTypes
  <2> QED BY <2>1, RootPosition, PowFacts DEF Leftmost
<1>6. CASE cs[i].pos = 2 * p
  <2>1. m = p
    <3> HIDE DEF p
    <3> QED BY <1>3, <1>6 DEF Half
  <2>2. TraceAncestor(m) = p
    <3>1. CASE q = 1
      BY <1>5, <2>1, <3>1, AncestorOfRoot
    <3>2. CASE q # 1
      <4> HIDE DEF p, m
      <4> QED BY <1>4, <2>1, <3>2, AncestorOfEven
    <3> QED BY <3>1, <3>2
  <2>3. ASSUME ~Leftmost(cs[i].pos) PROVE ~Leftmost(p)
    <3> HIDE DEF p
    <3> QED BY <1>2, <1>3, <1>6, <2>3 DEF Leftmost, d
  <2>4. ASSUME ~Leftmost(cs[i].pos)
        PROVE  q # 1 /\ ~Leftmost(p) /\ TraceAncestor(m - 1) = TraceAncestor(Half(p) - 1)
    <3>1. q # 1 /\ ~Leftmost(p)
      BY <1>5, <2>3, <2>4
    <3> DEFINE h == Half(p) - 1
    <3>2. h \in Nat /\ h + 1 < Pow(MaxDepth + 1) /\ m - 1 = 2 * h + 1
      <4>1. Half(p) \in Nat /\ Half(p) > 0 /\ p = 2 * Half(p)
        BY <1>4, <3>1
      <4>2. p < Pow(MaxDepth + 1) /\ Pow(MaxDepth + 1) \in Nat
        BY <1>3
      <4> HIDE DEF p, m
      <4> QED BY <2>1, <4>1, <4>2
    <3>3. TraceAncestor(2 * h + 1) = TraceAncestor(h)
      <4> HIDE DEF h
      <4> QED BY <3>2, AncestorOfOdd
    <3> QED BY <3>1, <3>2, <3>3
  <2> QED BY <1>6, <2>2, <2>4
<1>7. CASE cs[i].pos # 2 * p
  <2>1. p % 2 = 0 /\ cs[i].pos = 2 * (p + 1)
    BY <1>2, <1>7
  <2>2. q # 1
    BY <1>5, <2>1
  <2>3. m = p + 1
    <3> HIDE DEF p
    <3> QED BY <1>3, <2>1 DEF Half
  <2> DEFINE h == Half(p)
  <2>4. h \in Nat /\ h > 0 /\ h + 1 < Pow(MaxDepth + 1) /\ m = 2 * h + 1 /\ m - 1 = 2 * h
    <3>1. Half(p) \in Nat /\ Half(p) > 0 /\ p = 2 * Half(p)
      BY <1>4, <2>2
    <3>2. p + 1 < Pow(MaxDepth + 1) /\ Pow(MaxDepth + 1) \in Nat
      <4> HIDE DEF p
      <4> QED BY <1>3, <2>1
    <3> HIDE DEF p, m
    <3> QED BY <2>3, <3>1, <3>2
  <2>5. TraceAncestor(2 * h + 1) = TraceAncestor(h) /\ TraceAncestor(2 * h) = 2 * h
    <3> HIDE DEF h
    <3> QED BY <2>4, AncestorOfOdd, AncestorOfEven
  <2> QED BY <1>4, <2>1, <2>2, <2>4, <2>5
<1> QED BY <1>6, <1>7

(* On the way up from a claim's parent are its trace ancestors on both sides. *)
HasAncestors(cs, i) ==
  LET path == PathOf(cs)[cs[i].parent]
      m == Half(cs[i].pos)
  IN /\ \E j \in path : cs[j].pos = TraceAncestor(m)
     /\ ~Leftmost(cs[i].pos) => \E j \in path : cs[j].pos = TraceAncestor(m - 1)

LEMMA TreeHasAncestors ==
  ASSUME NEW cs, Tree(cs), NEW i \in 2..Len(cs)
  PROVE  HasAncestors(cs, i)
<1> DEFINE S == {k \in 2..Len(cs) : ~HasAncestors(cs, k)}
<1> SUFFICES ASSUME S # {} PROVE FALSE
  OBVIOUS
<1>1. PICK k \in S : \A l \in S : k <= l
  <2>1. S \in SUBSET Nat
    BY DEF Tree
  <2> HIDE DEF S
  <2> QED BY <2>1, LeastNat
<1>2. k \in 2..Len(cs) /\ ~HasAncestors(cs, k) /\ k \in DOMAIN cs /\ k # 1
  BY <1>1 DEF Tree
<1> DEFINE q == cs[k].parent
           p == cs[q].pos
           m == Half(cs[k].pos)
<1>3. q \in DOMAIN cs /\ q \in PathOf(cs)[q]
  BY <1>2, TreeTypes, PathGoesUp
<1>4. q # 1 => HasAncestors(cs, q) /\ PathOf(cs)[q] = {q} \cup PathOf(cs)[cs[q].parent]
  <2> SUFFICES ASSUME q # 1 PROVE HasAncestors(cs, q) /\ PathOf(cs)[q] = {q} \cup PathOf(cs)[cs[q].parent]
    OBVIOUS
  <2>1. q \in 2..Len(cs) /\ q < k /\ k \in Nat /\ q \in Nat
    BY <1>2, <1>3, TreeTypes
  <2>2. ~(k <= q)
    BY <2>1
  <2>3. q \notin S
    BY <1>1, <2>2, Zenon
  <2>4. PathOf(cs)[q] = {q} \cup PathOf(cs)[cs[q].parent]
    BY <1>3, PathStep
  <2> QED BY <2>1, <2>3, <2>4
<1>5. CASE /\ TraceAncestor(m) = p
           /\ ~Leftmost(cs[k].pos) =>
                q # 1 /\ ~Leftmost(p) /\ TraceAncestor(m - 1) = TraceAncestor(Half(p) - 1)
  <2>1. \E j \in PathOf(cs)[q] : cs[j].pos = TraceAncestor(m)
    BY <1>3, <1>5
  <2>2. ~Leftmost(cs[k].pos) => \E j \in PathOf(cs)[q] : cs[j].pos = TraceAncestor(m - 1)
    BY <1>4, <1>5 DEF HasAncestors
  <2> QED BY <1>2, <2>1, <2>2 DEF HasAncestors
<1>6. CASE q # 1 /\ TraceAncestor(m) = TraceAncestor(Half(p)) /\ TraceAncestor(m - 1) = p
  <2>1. \E j \in PathOf(cs)[q] : cs[j].pos = TraceAncestor(m)
    BY <1>4, <1>6 DEF HasAncestors
  <2>2. \E j \in PathOf(cs)[q] : cs[j].pos = TraceAncestor(m - 1)
    BY <1>3, <1>6
  <2> QED BY <1>2, <2>1, <2>2 DEF HasAncestors
<1> QED BY <1>2, <1>5, <1>6, AncestorsFromParent

(* AgreeWithClaimLevel, and a path on which the claims of our levels are ours. *)
OurLevel(cs, i) == IF cs[1].good THEN DepthOf(cs[i].pos) % 2 = 0 ELSE DepthOf(cs[i].pos) % 2 = 1

OurMove(cs, j) == cs[j].good /\ (j # 1 => cs[j].pos = NextPosition(cs[cs[j].parent]))

OurPath(cs, i) == \A j \in PathOf(cs)[i] : OurLevel(cs, j) => OurMove(cs, j)

(* Levels alternate, and the root is right exactly when its level is ours. *)
LEMMA LevelsAlternate ==
  ASSUME NEW cs, Tree(cs), NEW i \in DOMAIN cs
  PROVE  /\ OurLevel(cs, i) \in BOOLEAN
         /\ i # 1 => (OurLevel(cs, cs[i].parent) <=> ~OurLevel(cs, i))
         /\ i = 1 => (OurLevel(cs, i) <=> cs[i].good)
<1>1. CASE i = 1
  <2>1. DepthOf(cs[i].pos) = 0 /\ cs[1].good \in BOOLEAN
    BY <1>1, TreeTypes, RootPosition
  <2> QED BY <1>1, <2>1 DEF OurLevel
<1>2. CASE i # 1
  <2> DEFINE q == cs[i].parent
             d == DepthOf(cs[q].pos)
  <2>1. Placed(cs, i) /\ q \in DOMAIN cs
    BY <1>2, TreeTypes
  <2>2. DepthOf(cs[i].pos) = d + 1 /\ d \in Nat
    <3>1. Position(cs[q].pos)
      BY <2>1, TreeTypes
    <3> QED BY <2>1, <3>1 DEF Placed, Position
  <2>3. (d + 1) % 2 = 0 <=> d % 2 = 1
    <3> HIDE DEF d
    <3> QED BY <2>2
  <2>4. (d + 1) % 2 = 1 <=> d % 2 = 0
    <3> HIDE DEF d
    <3> QED BY <2>2
  <2>5. CASE cs[1].good
    <3>1. (OurLevel(cs, i) <=> (d + 1) % 2 = 0) /\ (OurLevel(cs, q) <=> d % 2 = 0)
      BY <2>2, <2>5 DEF OurLevel
    <3>2. d % 2 = 0 \/ d % 2 = 1
      <4> HIDE DEF d
      <4> QED BY <2>2
    <3>3. OurLevel(cs, i) \in BOOLEAN
      BY <2>5 DEF OurLevel
    <3> HIDE DEF d, q
    <3>4. OurLevel(cs, q) <=> ~OurLevel(cs, i)
      BY <2>3, <3>1, <3>2
    <3> QED BY <1>2, <3>3, <3>4 DEF q
  <2>6. CASE ~cs[1].good
    <3>1. (OurLevel(cs, i) <=> (d + 1) % 2 = 1) /\ (OurLevel(cs, q) <=> d % 2 = 1)
      BY <2>2, <2>6 DEF OurLevel
    <3>2. d % 2 = 0 \/ d % 2 = 1
      <4> HIDE DEF d
      <4> QED BY <2>2
    <3>3. OurLevel(cs, i) \in BOOLEAN
      BY <2>6 DEF OurLevel
    <3> HIDE DEF d, q
    <3>4. OurLevel(cs, q) <=> ~OurLevel(cs, i)
      BY <2>4, <3>1, <3>2
    <3> QED BY <1>2, <3>3, <3>4 DEF q
  <2> QED BY <2>5, <2>6
<1> QED BY <1>1, <1>2

(* What the claims next to a claim on such a path are: the one before is right, the one after *)
(* right exactly when it is at our level.                                                     *)
HonestAncestors(cs, i) ==
  LET path == PathOf(cs)[cs[i].parent]
      m == Half(cs[i].pos)
  IN /\ \A j \in path : cs[j].pos = TraceAncestor(m) => (cs[j].good <=> OurLevel(cs, j))
     /\ ~Leftmost(cs[i].pos) => \A j \in path : cs[j].pos = TraceAncestor(m - 1) => cs[j].good

(* Where the challenger answers. *)
LEMMA NextPositionIs ==
  ASSUME NEW c \in [parent : Nat, pos : Nat, good : BOOLEAN, countered : BOOLEAN]
  PROVE  /\ ~c.good => NextPosition(c) = 2 * c.pos
         /\ c.good /\ c.pos % 2 = 0 => NextPosition(c) = 2 * (c.pos + 1)
  BY DEF NextPosition, Attack, Defend

LEMMA OurPathUp ==
  ASSUME NEW cs, Tree(cs), NEW i \in DOMAIN cs, i # 1
  PROVE  OurPath(cs, i) <=> OurPath(cs, cs[i].parent) /\ (OurLevel(cs, i) => OurMove(cs, i))
  BY PathStep DEF OurPath

LEMMA OurPathIsHonest ==
  ASSUME NEW cs, Tree(cs), NEW i \in 2..Len(cs), OurPath(cs, i)
  PROVE  HonestAncestors(cs, i)
<1> DEFINE S == {k \in 2..Len(cs) : OurPath(cs, k) /\ ~HonestAncestors(cs, k)}
<1> SUFFICES ASSUME S # {} PROVE FALSE
  OBVIOUS
<1>1. PICK k \in S : \A l \in S : k <= l
  <2>1. S \in SUBSET Nat
    BY DEF Tree
  <2> HIDE DEF S
  <2> QED BY <2>1, LeastNat
<1>2. k \in 2..Len(cs) /\ OurPath(cs, k) /\ ~HonestAncestors(cs, k) /\ k \in DOMAIN cs /\ k # 1
  BY <1>1 DEF Tree
<1> DEFINE q == cs[k].parent
           p == cs[q].pos
           m == Half(cs[k].pos)
<1>3. /\ q \in DOMAIN cs /\ p \in Nat /\ p > 0 /\ cs[q] \in Claims
      /\ q = 1 => p = 1
      /\ q # 1 => p % 2 = 0
  <2>1. q \in DOMAIN cs
    BY <1>2, TreeTypes
  <2>2. Position(p) /\ (q = 1 => p = 1) /\ (q # 1 => p % 2 = 0) /\ cs[q] \in Claims
    <3>1. Position(p) /\ (q = 1 => p = 1) /\ (q # 1 => Placed(cs, q)) /\ cs[q] \in Claims
      BY <2>1, TreeTypes
    <3> QED BY <3>1 DEF Placed
  <2>3. p \in Nat /\ DepthOf(p) \in 0..MaxDepth /\ Pow(DepthOf(p)) <= p
    BY <2>2 DEF Position
  <2>4. Pow(DepthOf(p)) \in Nat \ {0}
    BY <2>3, PowFacts, DisputeAssumption
  <2>5. p > 0
    <3> HIDE DEF p
    <3> QED BY <2>3, <2>4
  <2> QED BY <2>1, <2>2, <2>3, <2>5
<1>4. OurPath(cs, q) /\ (OurLevel(cs, k) => OurMove(cs, k))
  BY <1>2, OurPathUp
<1>5. OurLevel(cs, q) => cs[q].good
  BY <1>3, <1>4, PathGoesUp DEF OurPath, OurMove
<1>6. OurLevel(cs, q) <=> ~OurLevel(cs, k)
  BY <1>2, LevelsAlternate
<1>7. q = 1 => (OurLevel(cs, q) <=> cs[q].good)
  BY <1>3, LevelsAlternate
<1>8. \A j \in PathOf(cs)[q] : cs[j].pos = p => j = q
  BY <1>3, PathPositionsDiffer
<1>9. OurLevel(cs, k) => cs[k].pos = NextPosition(cs[q])
  BY <1>2, <1>4 DEF OurMove
<1>10. q # 1 => /\ HonestAncestors(cs, q) /\ PathOf(cs)[q] = {q} \cup PathOf(cs)[cs[q].parent]
                /\ p # TraceAncestor(Half(p)) /\ p # TraceAncestor(Half(p) - 1)
  <2> SUFFICES ASSUME q # 1
               PROVE  /\ HonestAncestors(cs, q) /\ PathOf(cs)[q] = {q} \cup PathOf(cs)[cs[q].parent]
                      /\ p # TraceAncestor(Half(p)) /\ p # TraceAncestor(Half(p) - 1)
    OBVIOUS
  <2>1. q \in 2..Len(cs) /\ q < k /\ k \in Nat /\ q \in Nat
    BY <1>2, <1>3, TreeTypes
  <2>2. ~(k <= q)
    BY <2>1
  <2>3. q \notin S
    BY <1>1, <2>2, Zenon
  <2>4. PathOf(cs)[q] = {q} \cup PathOf(cs)[cs[q].parent]
    BY <1>3, PathStep
  <2>5. p # TraceAncestor(Half(p)) /\ p # TraceAncestor(Half(p) - 1)
    <3> DEFINE h == Half(p)
    <3>1. h \in Nat /\ h > 0 /\ h - 1 \in Nat /\ p = 2 * h
      <4>1. p % 2 = 0
        BY <1>3
      <4> HIDE DEF p
      <4> QED BY <1>3, <4>1 DEF Half
    <3> HIDE DEF h
    <3>2. /\ TraceAncestor(h) <= h \/ TraceAncestor(h) = 1
          /\ TraceAncestor(h - 1) <= h - 1 \/ TraceAncestor(h - 1) = 1
      BY <3>1, AncestorBound
    <3> HIDE DEF p
    <3>3. p # TraceAncestor(h) /\ p # TraceAncestor(h - 1)
      BY <3>1, <3>2
    <3> QED BY <3>3 DEF h
  <2> QED BY <1>4, <2>1, <2>3, <2>4, <2>5
<1>11. CASE /\ cs[k].pos = 2 * p /\ TraceAncestor(m) = p
            /\ ~Leftmost(cs[k].pos) =>
                 q # 1 /\ ~Leftmost(p) /\ TraceAncestor(m - 1) = TraceAncestor(Half(p) - 1)
  <2>1. cs[q].good <=> OurLevel(cs, q)
    <3>1. CASE OurLevel(cs, k)
      <4>1. ~OurLevel(cs, q)
        BY <1>6, <3>1
      <4>2. ASSUME cs[q].good, q # 1 PROVE FALSE
        <5>1. cs[k].pos = 2 * (p + 1)
          BY <1>3, <1>9, <3>1, <4>2, NextPositionIs DEF Claims
        <5> HIDE DEF p
        <5> QED BY <1>3, <1>11, <5>1
      <4> QED BY <1>7, <4>1, <4>2
    <3>2. CASE ~OurLevel(cs, k)
      BY <1>5, <1>6, <3>2
    <3> QED BY <3>1, <3>2
  <2>2. \A j \in PathOf(cs)[q] : cs[j].pos = TraceAncestor(m) => (cs[j].good <=> OurLevel(cs, j))
    BY <1>8, <1>11, <2>1
  <2>3. ASSUME ~Leftmost(cs[k].pos), NEW j \in PathOf(cs)[q], cs[j].pos = TraceAncestor(m - 1)
        PROVE  cs[j].good
    BY <1>10, <1>11, <2>3 DEF HonestAncestors
  <2> QED BY <1>2, <2>2, <2>3 DEF HonestAncestors
<1>12. CASE /\ q # 1 /\ cs[k].pos = 2 * (p + 1)
            /\ TraceAncestor(m) = TraceAncestor(Half(p)) /\ TraceAncestor(m - 1) = p
  <2>1. cs[q].good
    <3>1. CASE OurLevel(cs, k)
      <4>1. ASSUME ~cs[q].good PROVE FALSE
        <5>1. cs[k].pos = 2 * p
          BY <1>3, <1>9, <3>1, <4>1, NextPositionIs DEF Claims
        <5> HIDE DEF p
        <5> QED BY <1>3, <1>12, <5>1
      <4> QED BY <4>1
    <3>2. CASE ~OurLevel(cs, k)
      BY <1>5, <1>6, <3>2
    <3> QED BY <3>1, <3>2
  <2>2. ASSUME NEW j \in PathOf(cs)[q], cs[j].pos = TraceAncestor(m)
        PROVE  cs[j].good <=> OurLevel(cs, j)
    BY <1>10, <1>12, <2>2 DEF HonestAncestors
  <2>3. \A j \in PathOf(cs)[q] : cs[j].pos = TraceAncestor(m - 1) => cs[j].good
    BY <1>8, <1>12, <2>1
  <2> QED BY <1>2, <2>2, <2>3 DEF HonestAncestors
<1> QED BY <1>2, <1>11, <1>12, AncestorsFromParent

(* Claims are added and marked as countered; what they claim, and where, stays. *)
GoesOn(cs, ds) ==
  /\ DOMAIN cs \subseteq DOMAIN ds
  /\ \A i \in DOMAIN cs : /\ ds[i].parent = cs[i].parent /\ ds[i].pos = cs[i].pos
                          /\ ds[i].good = cs[i].good

LEMMA PathStays ==
  ASSUME NEW cs, NEW ds, Tree(cs), Tree(ds), GoesOn(cs, ds), NEW i \in DOMAIN cs
  PROVE  PathOf(ds)[i] = PathOf(cs)[i]
<1> DEFINE S == {k \in DOMAIN cs : PathOf(ds)[k] # PathOf(cs)[k]}
<1> SUFFICES ASSUME S # {} PROVE FALSE
  OBVIOUS
<1>1. PICK k \in S : \A l \in S : k <= l
  <2>1. S \in SUBSET Nat
    BY TreeTypes
  <2> HIDE DEF S
  <2> QED BY <2>1, LeastNat
<1>2. k \in DOMAIN cs /\ k \in DOMAIN ds /\ PathOf(ds)[k] # PathOf(cs)[k] /\ ds[k].parent = cs[k].parent
  BY <1>1 DEF GoesOn
<1>3. CASE k = 1
  BY <1>2, <1>3, PathStep
<1>4. CASE k # 1
  <2> DEFINE q == cs[k].parent
  <2>1. q \in DOMAIN cs /\ q < k /\ k \in Nat /\ q \in Nat
    BY <1>2, <1>4, TreeTypes
  <2>2. ~(k <= q)
    BY <2>1
  <2>3. q \notin S
    BY <1>1, <2>2, Zenon
  <2>4. PathOf(ds)[q] = PathOf(cs)[q]
    BY <2>1, <2>3
  <2>5. PathOf(cs)[k] = {k} \cup PathOf(cs)[q]
    BY <1>2, <1>4, PathStep
  <2>6. PathOf(ds)[k] = {k} \cup PathOf(ds)[q]
    BY <1>2, <1>4, PathStep
  <2> QED BY <1>2, <2>4, <2>5, <2>6
<1> QED BY <1>3, <1>4

LEMMA LevelsStay ==
  ASSUME NEW cs, NEW ds, Tree(cs), Tree(ds), GoesOn(cs, ds), NEW i \in DOMAIN cs
  PROVE  /\ DepthOf(ds[i].pos) = DepthOf(cs[i].pos)
         /\ OurLevel(ds, i) = OurLevel(cs, i)
         /\ OurMove(ds, i) <=> OurMove(cs, i)
         /\ OurPath(ds, i) <=> OurPath(cs, i)
<1>1. 1 \in DOMAIN cs
  BY TreeTypes
<1>2. ds[i].pos = cs[i].pos /\ ds[1].good = cs[1].good
  BY <1>1 DEF GoesOn
<1>3. \A j \in DOMAIN cs : OurLevel(ds, j) = OurLevel(cs, j)
  BY <1>1 DEF OurLevel, GoesOn
<1>4. ASSUME NEW j \in DOMAIN cs PROVE OurMove(ds, j) <=> OurMove(cs, j)
  <2>1. ds[j].pos = cs[j].pos /\ ds[j].good = cs[j].good /\ ds[j].parent = cs[j].parent
    BY DEF GoesOn
  <2>2. j # 1 => cs[j].parent \in DOMAIN cs
    BY TreeTypes
  <2>3. j # 1 => NextPosition(ds[cs[j].parent]) = NextPosition(cs[cs[j].parent])
    BY <2>2 DEF NextPosition, GoesOn
  <2> QED BY <2>1, <2>3 DEF OurMove
<1>5. PathOf(ds)[i] = PathOf(cs)[i] /\ PathOf(cs)[i] \subseteq DOMAIN cs
  BY PathStays, PathGoesUp
<1>6. OurPath(ds, i) <=> OurPath(cs, i)
  BY <1>3, <1>4, <1>5 DEF OurPath
<1> QED BY <1>2, <1>3, <1>4, <1>6

(* Two claims are an even number of levels apart exactly when both or none are at our levels. *)
LEMMA EvenlyApart ==
  ASSUME NEW cs, Tree(cs), NEW i \in DOMAIN cs, NEW j \in DOMAIN cs
  PROVE  (DepthOf(cs[i].pos) - DepthOf(cs[j].pos)) % 2 = 0 <=> (OurLevel(cs, i) <=> OurLevel(cs, j))
<1> DEFINE a == DepthOf(cs[i].pos)
           b == DepthOf(cs[j].pos)
<1>1. a \in Nat /\ b \in Nat
  <2>1. Position(cs[i].pos) /\ Position(cs[j].pos)
    BY TreeTypes
  <2> QED BY <2>1 DEF Position
<1>2. (a - b) % 2 = 0 <=> a % 2 = b % 2
  <2> HIDE DEF a, b
  <2> QED BY <1>1
<1>3. (a % 2 = 0 \/ a % 2 = 1) /\ (b % 2 = 0 \/ b % 2 = 1)
  <2> HIDE DEF a, b
  <2> QED BY <1>1
<1>4. CASE cs[1].good
  <2>1. (OurLevel(cs, i) <=> a % 2 = 0) /\ (OurLevel(cs, j) <=> b % 2 = 0)
    BY <1>4 DEF OurLevel
  <2> HIDE DEF a, b
  <2>2. (a - b) % 2 = 0 <=> (OurLevel(cs, i) <=> OurLevel(cs, j))
    BY <1>2, <1>3, <2>1
  <2> QED BY <2>2 DEF a, b
<1>5. CASE ~cs[1].good
  <2>1. (OurLevel(cs, i) <=> a % 2 = 1) /\ (OurLevel(cs, j) <=> b % 2 = 1)
    BY <1>5 DEF OurLevel
  <2> HIDE DEF a, b
  <2>2. (a - b) % 2 = 0 <=> (OurLevel(cs, i) <=> OurLevel(cs, j))
    BY <1>2, <1>3, <2>1
  <2> QED BY <2>2 DEF a, b
<1> QED BY <1>4, <1>5

-----------------------------------------------------------------------------
(* Steps, at the bottom of a tree of claims. *)

LEMMA StepStates ==
  ASSUME Tree(claims), NEW i \in DOMAIN claims, Depth(claims[i]) = MaxDepth
  PROVE  LET path == PathOf(claims)[claims[i].parent]
             m == Half(claims[i].pos)
         IN /\ i \in 2..Len(claims) /\ path \subseteq DOMAIN claims
            /\ PostStates(i, TRUE) = {i} /\ PreStates(i, FALSE) = {i}
            /\ PostStates(i, FALSE) = {j \in path : claims[j].pos = TraceAncestor(m)}
            /\ IndexAtDepth(Move(claims[i].pos, TRUE)) = 0 <=> Leftmost(claims[i].pos)
            /\ Leftmost(claims[i].pos) => PreStates(i, TRUE) = {}
            /\ ~Leftmost(claims[i].pos) =>
                 PreStates(i, TRUE) = {j \in path : claims[j].pos = TraceAncestor(m - 1)}
<1> DEFINE p == claims[i].pos
           m == Half(p)
           q == claims[i].parent
           path == PathOf(claims)[q]
<1>1. i # 1
  <2>1. DepthOf(p) # 0
    BY DisputeAssumption DEF Depth
  <2> QED BY <2>1, RootPosition, TreeTypes
<1>2. i \in 2..Len(claims) /\ Placed(claims, i) /\ q \in DOMAIN claims /\ Position(p)
  BY <1>1, TreeTypes
<1>3. path \subseteq DOMAIN claims
  BY <1>2, PathGoesUp
<1>4. /\ p \in Nat /\ Pow(MaxDepth) <= p /\ p < Pow(MaxDepth + 1) /\ p % 2 = 0
      /\ Pow(MaxDepth) \in Nat \ {0} /\ Pow(MaxDepth + 1) = 2 * Pow(MaxDepth)
      /\ Pow(MaxDepth + 1 + 1) = 2 * Pow(MaxDepth + 1)
  <2>1. p \in Nat /\ DepthOf(p) = MaxDepth /\ Pow(DepthOf(p)) <= p /\ p < Pow(DepthOf(p) + 1)
    BY <1>2 DEF Position, Depth
  <2>2. MaxDepth \in 0..MaxDepth + 1 /\ MaxDepth \in 0..MaxDepth + 2 /\ MaxDepth + 1 \in 0..MaxDepth + 1
    BY DisputeAssumption
  <2>3. p % 2 = 0
    BY <1>2 DEF Placed
  <2> QED BY <2>1, <2>2, <2>3, PowFacts
<1>5. m \in Nat /\ m > 0 /\ p = 2 * m /\ p + 1 = 2 * m + 1 /\ p - 1 = 2 * (m - 1) + 1
  <2> HIDE DEF p
  <2> QED BY <1>4 DEF Half
<1>6. TraceAncestor(p + 1) = TraceAncestor(m) /\ TraceAncestor(p - 1) = TraceAncestor(m - 1)
  <2> HIDE DEF p, m
  <2>1. m + 1 < Pow(MaxDepth + 1) /\ m - 1 \in Nat /\ m - 1 + 1 < Pow(MaxDepth + 1)
    BY <1>4, <1>5
  <2>2. TraceAncestor(2 * m + 1) = TraceAncestor(m)
    BY <1>5, <2>1, AncestorOfOdd
  <2>3. TraceAncestor(2 * (m - 1) + 1) = TraceAncestor(m - 1)
    BY <2>1, AncestorOfOdd
  <2> QED BY <1>5, <2>2, <2>3
<1>7. IndexAtDepth(Move(p, TRUE)) = 0 <=> Leftmost(p)
  <2>1. Move(p, TRUE) = 2 * p
    BY DEF Move
  <2>2. DepthOf(2 * p) = MaxDepth + 1
    <3>1. 2 * p \in Nat /\ Pow(MaxDepth + 1) <= 2 * p /\ 2 * p < Pow(MaxDepth + 1 + 1)
      <4> HIDE DEF p
      <4> QED BY <1>4
    <3>2. MaxDepth + 1 \in 0..MaxDepth + 1
      BY DisputeAssumption
    <3> QED BY <3>1, <3>2, DepthIs
  <2>3. IndexAtDepth(Move(p, TRUE)) = 2 * p - Pow(MaxDepth + 1)
    BY <2>1, <2>2 DEF IndexAtDepth, Pow
  <2>4. Leftmost(p) <=> p = Pow(MaxDepth)
    BY DEF Leftmost, Depth
  <2> HIDE DEF p
  <2>5. 2 * p - Pow(MaxDepth + 1) = 0 <=> p = Pow(MaxDepth)
    BY <1>4
  <2> QED BY <2>3, <2>4, <2>5, Zenon
<1>8. \A n \in Int : FindTraceAncestor(n, q) = {j \in path : claims[j].pos = TraceAncestor(n)}
  BY PathToIsPathOf DEF FindTraceAncestor
<1>9. PostStates(i, FALSE) = {j \in path : claims[j].pos = TraceAncestor(m)}
  <2>1. p + 1 \in Int
    BY <1>4
  <2>2. PostStates(i, FALSE) = FindTraceAncestor(p + 1, q)
    BY DEF PostStates
  <2> QED BY <1>6, <1>8, <2>1, <2>2
<1>10. ASSUME ~Leftmost(p)
       PROVE  PreStates(i, TRUE) = {j \in path : claims[j].pos = TraceAncestor(m - 1)}
  <2>1. p - 1 \in Int
    BY <1>4
  <2>2. PreStates(i, TRUE) = FindTraceAncestor(p - 1, q)
    BY <1>7, <1>10 DEF PreStates
  <2> QED BY <1>6, <1>8, <2>1, <2>2
<1>11. /\ PostStates(i, TRUE) = {i} /\ PreStates(i, FALSE) = {i}
       /\ Leftmost(p) => PreStates(i, TRUE) = {}
  BY <1>7 DEF PostStates, PreStates
<1> QED BY <1>2, <1>3, <1>7, <1>9, <1>10, <1>11

(* The contract accepts the challenger's step against a claim on an honest path. *)
LEMMA OurStepCounts ==
  ASSUME Tree(claims), NEW a, a.idx \in DOMAIN claims, Depth(claims[a.idx]) = MaxDepth,
         a.isAttack = ~claims[a.idx].good, ~OurLevel(claims, a.idx), OurPath(claims, a.idx)
  PROVE  ~StepRefused(a)
<1> DEFINE i == a.idx
           path == PathOf(claims)[claims[i].parent]
           m == Half(claims[i].pos)
<1>1. i \in 2..Len(claims) /\ path \subseteq DOMAIN claims
  BY StepStates
<1>2. HonestAncestors(claims, i)
  BY <1>1, OurPathIsHonest
<1>3. claims[i].good \in BOOLEAN
  BY TreeTypes
<1>4. CASE ~claims[i].good
  <2>1. a.isAttack = TRUE
    BY <1>3, <1>4
  <2>2. PreStateGood(i, TRUE)
    <3>1. CASE Leftmost(claims[i].pos)
      BY <3>1, StepStates DEF PreStateGood
    <3>2. CASE ~Leftmost(claims[i].pos)
      <4>1. PreStates(i, TRUE) = {j \in path : claims[j].pos = TraceAncestor(m - 1)}
        BY <3>2, StepStates
      <4> QED BY <1>2, <3>2, <4>1 DEF PreStateGood, HonestAncestors
    <3> QED BY <3>1, <3>2
  <2>3. PostStates(i, TRUE) = {i}
    BY StepStates
  <2>4. \A valid \in StepResults(i, TRUE) : valid = FALSE
    BY <1>3, <1>4, <2>2, <2>3 DEF StepResults
  <2>5. Depth(claims[i]) - Depth(claims[i]) = 0 /\ 0 % 2 = 0
    BY DisputeAssumption
  <2>6. StepCounters(i, TRUE, FALSE)
    BY <2>3, <2>5 DEF StepCounters
  <2> QED BY <2>1, <2>2, <2>4, <2>6 DEF StepRefused
<1>5. CASE claims[i].good
  <2>1. a.isAttack = FALSE
    BY <1>3, <1>5
  <2>2. PreStateGood(i, FALSE)
    <3>1. PreStates(i, FALSE) = {i}
      BY StepStates
    <3> QED BY <1>5, <3>1 DEF PreStateGood
  <2>3. PostStates(i, FALSE) = {j \in path : claims[j].pos = TraceAncestor(m)}
    BY StepStates
  <2>4. ASSUME NEW j \in PostStates(i, FALSE)
        PROVE  /\ j \in DOMAIN claims /\ claims[j].good \in BOOLEAN
               /\ ((Depth(claims[i]) - Depth(claims[j])) % 2 = 0) <=> ~claims[j].good
    <3>1. j \in DOMAIN claims /\ (claims[j].good <=> OurLevel(claims, j))
      BY <1>1, <1>2, <2>3 DEF HonestAncestors
    <3>2. claims[j].good \in BOOLEAN
      BY <3>1, TreeTypes
    <3>3. (Depth(claims[i]) - Depth(claims[j])) % 2 = 0 <=> (OurLevel(claims, i) <=> OurLevel(claims, j))
      BY <3>1, EvenlyApart DEF Depth
    <3> QED BY <3>1, <3>2, <3>3
  <2>5. \A j, k \in PostStates(i, FALSE) : j = k
    <3> SUFFICES ASSUME NEW j \in PostStates(i, FALSE), NEW k \in PostStates(i, FALSE) PROVE j = k
      OBVIOUS
    <3>1. j \in path /\ k \in path /\ claims[j].pos = claims[k].pos
      BY <2>3
    <3>2. claims[i].parent \in DOMAIN claims
      BY <1>1, TreeTypes
    <3> QED BY <3>1, <3>2, PathPositionsUnique
  <2>6. ASSUME NEW valid \in StepResults(i, FALSE) PROVE StepCounters(i, FALSE, valid)
    <3>1. PICK k \in PostStates(i, FALSE) : valid = claims[k].good
      BY <2>2 DEF StepResults
    <3>2. ASSUME NEW j \in PostStates(i, FALSE)
          PROVE  ((Depth(claims[i]) - Depth(claims[j])) % 2 = 0) # valid
      <4>1. valid = claims[j].good
        BY <2>5, <3>1
      <4> QED BY <2>4, <4>1
    <3> QED BY <3>2 DEF StepCounters
  <2> QED BY <2>1, <2>2, <2>6 DEF StepRefused
<1> QED BY <1>3, <1>4, <1>5

(* No step counters a claim of the challenger's. *)
LEMMA OurClaimStands ==
  ASSUME Tree(claims), NEW i \in DOMAIN claims, Depth(claims[i]) = MaxDepth,
         OurLevel(claims, i), OurPath(claims, i),
         NEW isAttack \in BOOLEAN, NEW valid \in StepResults(i, isAttack)
  PROVE  ~StepCounters(i, isAttack, valid)
<1> DEFINE path == PathOf(claims)[claims[i].parent]
           m == Half(claims[i].pos)
<1>1. i \in 2..Len(claims) /\ path \subseteq DOMAIN claims
  BY StepStates
<1>2. HonestAncestors(claims, i)
  BY <1>1, OurPathIsHonest
<1>3. claims[i].good
  BY PathGoesUp DEF OurPath, OurMove
<1>4. CASE isAttack
  <2>1. isAttack = TRUE
    BY <1>4
  <2>2. PreStateGood(i, TRUE)
    <3>1. CASE Leftmost(claims[i].pos)
      BY <3>1, StepStates DEF PreStateGood
    <3>2. CASE ~Leftmost(claims[i].pos)
      <4>1. PreStates(i, TRUE) = {j \in path : claims[j].pos = TraceAncestor(m - 1)}
        BY <3>2, StepStates
      <4> QED BY <1>2, <3>2, <4>1 DEF PreStateGood, HonestAncestors
    <3> QED BY <3>1, <3>2
  <2>3. PostStates(i, TRUE) = {i}
    BY StepStates
  <2>4. valid = claims[i].good
    BY <2>1, <2>2, <2>3 DEF StepResults
  <2>5. claims[i].good = TRUE
    <3>1. claims[i].good \in BOOLEAN
      BY TreeTypes
    <3> QED BY <1>3, <3>1
  <2>6. Depth(claims[i]) - Depth(claims[i]) = 0 /\ 0 % 2 = 0
    BY DisputeAssumption
  <2> QED BY <2>1, <2>3, <2>4, <2>5, <2>6 DEF StepCounters
<1>5. CASE ~isAttack
  <2>1. isAttack = FALSE
    BY <1>5
  <2>2. PreStateGood(i, FALSE)
    <3>1. PreStates(i, FALSE) = {i}
      BY StepStates
    <3> QED BY <1>3, <3>1 DEF PreStateGood
  <2>3. PICK j \in PostStates(i, FALSE) : valid = claims[j].good
    BY <2>1, <2>2 DEF StepResults
  <2>4. PostStates(i, FALSE) = {k \in path : claims[k].pos = TraceAncestor(m)}
    BY StepStates
  <2>5. j \in DOMAIN claims /\ (claims[j].good <=> OurLevel(claims, j))
    BY <1>1, <1>2, <2>3, <2>4 DEF HonestAncestors
  <2>6. claims[j].good \in BOOLEAN
    BY <2>5, TreeTypes
  <2>7. (Depth(claims[i]) - Depth(claims[j])) % 2 = 0 <=> (OurLevel(claims, i) <=> OurLevel(claims, j))
    BY <2>5, EvenlyApart DEF Depth
  <2>8. ((Depth(claims[i]) - Depth(claims[j])) % 2 = 0) = valid
    BY <2>3, <2>5, <2>6, <2>7
  <2> QED BY <2>1, <2>3, <2>8 DEF StepCounters
<1> QED BY <1>4, <1>5

-----------------------------------------------------------------------------
(* The invariant. *)

(* Every claim is a challenge of its parent; what is listed as a challenge is one. *)
SubgamesOK ==
  /\ subgames \in Seq(Seq(Nat)) /\ Len(subgames) = Len(claims)
  /\ \A i \in DOMAIN claims : \A k \in DOMAIN subgames[i] :
       subgames[i][k] \in DOMAIN claims /\ subgames[i][k] # 1 /\ claims[subgames[i][k]].parent = i
  /\ \A i \in DOMAIN claims : Depth(claims[i]) = MaxDepth => subgames[i] = <<>>

(* The clocks: none has run for longer than a move allows, and the root has its own from 0. *)
ClockTypes == [duration : 0..HalfDuration, timestamp : Nat]

ClocksOK ==
  /\ now \in Nat /\ clock \in Seq(ClockTypes) /\ Len(clock) = Len(claims)
  /\ \A i \in DOMAIN claims : clock[i].timestamp <= now
  /\ clock[1].duration = 0 /\ clock[1].timestamp = 0

(* The answers the challenger decided on, and those the contract refused. *)
AtBottom(i) == i \in DOMAIN claims /\ Depth(claims[i]) = MaxDepth /\ ~OurLevel(claims, i)

TodoOK ==
  \A a \in todo :
    /\ a.idx \in DOMAIN claims /\ a.isAttack \in BOOLEAN
    /\ a.type = "step" => AtBottom(a.idx) /\ a.isAttack = ~claims[a.idx].good

RevertedOK == \A i \in reverted : AtBottom(i) /\ ~OurPath(claims, i)

(* The challenger was not late, and nothing was taken from it. *)
FairlyPlayed == ~early /\ ~late /\ ~rootResolved

(* The answer to claim i: at the bottom a step, above it our move. *)
HasAnswer(i) ==
  IF Depth(claims[i]) = MaxDepth THEN claims[i].countered
  ELSE \E j \in DOMAIN claims : /\ claims[j].parent = i /\ claims[j].good
                                /\ claims[j].pos = NextPosition(claims[i])

(* Every move against claim i is one of the challenges that its resolution looks at. *)
Listed(i) ==
  \A j \in DOMAIN claims : claims[j].parent = i =>
    \E k \in DOMAIN subgames[i] : subgames[i][k] = j

(* A claim of the challenger's against which nothing is open stands. *)
Standing ==
  FairlyPlayed => \A i \in DOMAIN claims :
    OurLevel(claims, i) /\ OurPath(claims, i) /\ subgames[i] = <<>> => ~claims[i].countered

(* A claim that disputes one of the challenger's: when its time is over it has been answered,  *)
(* and either all moves against it are still to be looked at, or it was resolved, and lost.    *)
ResolvedLost(i) == i # 1 /\ ~MoveInTime(i) /\ subgames[i] = <<>> /\ claims[i].countered

Disputed ==
  FairlyPlayed => \A i \in DOMAIN claims : ~OurLevel(claims, i) /\ OurPath(claims, i) =>
    /\ ~MoveInTime(i) => HasAnswer(i)
    /\ Depth(claims[i]) # MaxDepth => Listed(i) \/ ResolvedLost(i)

(* The root is resolved when no move against it is possible any more, and rightly. *)
RootDone ==
  rootResolved => /\ ~MoveInTime(1) /\ subgames[1] = <<>>
                  /\ ~early /\ ~late => (claims[1].countered <=> ~claims[1].good)

StatusOK ==
  /\ status \in {"IN_PROGRESS", "CHALLENGER_WINS", "DEFENDER_WINS"}
  /\ HonestWins

GameInv ==
  /\ Tree(claims) /\ SubgamesOK /\ ClocksOK /\ TodoOK /\ RevertedOK /\ Standing
  /\ Disputed /\ RootDone /\ StatusOK

-----------------------------------------------------------------------------
(* What the operations of the contract do to the tree. *)

KeepsAllBut(cs, ds, i) == \A j \in DOMAIN cs : j # i => ds[j] = cs[j]

(* Marking a claim as countered or not. *)
Mark(cs, i, b) == [cs EXCEPT ![i].countered = b]

SameTree(cs, ds, i, b) ==
  /\ Tree(ds) /\ GoesOn(cs, ds) /\ DOMAIN ds = DOMAIN cs /\ Len(ds) = Len(cs)
  /\ ds[i].countered = b /\ KeepsAllBut(cs, ds, i)

LEMMA Marked ==
  ASSUME NEW cs, Tree(cs), NEW i \in DOMAIN cs, NEW b \in BOOLEAN,
         NEW ds, ds = Mark(cs, i, b)
  PROVE  SameTree(cs, ds, i, b)
<1>1. cs \in Seq(Claims) /\ Len(cs) \in Nat /\ DOMAIN cs = 1..Len(cs) /\ Len(cs) >= 1
  BY DEF Tree
<1>2. \A j \in DOMAIN cs : cs[j] \in Claims
  BY <1>1
<1>3. DOMAIN ds = DOMAIN cs
  BY DEF Mark
<1>4. ds[i] = [cs[i] EXCEPT !.countered = b]
  BY <1>1 DEF Mark
<1>5. \A j \in DOMAIN cs : j # i => ds[j] = cs[j]
  BY DEF Mark
<1>6. /\ ds[i] \in Claims /\ ds[i].parent = cs[i].parent /\ ds[i].pos = cs[i].pos
      /\ ds[i].good = cs[i].good /\ ds[i].countered = b
  BY <1>2, <1>4 DEF Claims
<1>7. GoesOn(cs, ds)
  BY <1>3, <1>5, <1>6 DEF GoesOn
<1>8. ds \in Seq(Claims) /\ Len(ds) = Len(cs)
  <2>1. \A j \in 1..Len(cs) : ds[j] \in Claims
    BY <1>1, <1>2, <1>5, <1>6
  <2>2. ds = [j \in 1..Len(cs) |-> ds[j]]
    BY <1>1 DEF Mark
  <2>3. ds \in [1..Len(cs) -> Claims]
    BY <2>1, <2>2
  <2> QED BY <1>1, <2>3
<1>9. \A j \in 2..Len(cs) : Placed(ds, j)
  <2> TAKE j \in 2..Len(cs)
  <2>1. Placed(cs, j) /\ j \in DOMAIN cs
    BY <1>1 DEF Tree
  <2>2. cs[j].parent \in DOMAIN cs
    BY <1>1, <2>1 DEF Placed
  <2>3. /\ ds[j].pos = cs[j].pos /\ ds[j].parent = cs[j].parent
        /\ ds[cs[j].parent].pos = cs[cs[j].parent].pos
    BY <1>7, <2>1, <2>2 DEF GoesOn
  <2> QED BY <2>1, <2>3 DEF Placed
<1>10. ds[1].parent = 0 /\ ds[1].pos = 1
  BY <1>1, <1>7 DEF GoesOn, Tree
<1>11. Tree(ds)
  BY <1>1, <1>8, <1>9, <1>10 DEF Tree
<1> QED BY <1>3, <1>5, <1>6, <1>7, <1>8, <1>11 DEF KeepsAllBut, SameTree

(* A claim added by a move. *)
NewClaim(i, pos, good) == [parent |-> i, pos |-> pos, good |-> good, countered |-> FALSE]

Grown(cs, ds, i, c) ==
  /\ Tree(ds) /\ GoesOn(cs, ds) /\ DOMAIN ds = DOMAIN cs \cup {Len(cs) + 1}
  /\ Len(cs) + 1 \notin DOMAIN cs /\ Len(ds) = Len(cs) + 1
  /\ ds[Len(cs) + 1] = c /\ DepthOf(cs[i].pos) # MaxDepth
  /\ KeepsAllBut(cs, ds, 0)

LEMMA Added ==
  ASSUME NEW cs, Tree(cs), NEW i \in DOMAIN cs, NEW isAttack \in BOOLEAN, NEW good \in BOOLEAN,
         ~(DepthOf(Move(cs[i].pos, isAttack)) > MaxDepth),
         NEW c, c = NewClaim(i, Move(cs[i].pos, isAttack), good), NEW ds, ds = Append(cs, c)
  PROVE  Grown(cs, ds, i, c)
<1>1. cs \in Seq(Claims) /\ Len(cs) \in Nat /\ DOMAIN cs = 1..Len(cs) /\ Len(cs) >= 1
  BY DEF Tree
<1> DEFINE p == cs[i].pos
           n == Move(cs[i].pos, isAttack)
<1>2. /\ Position(n) /\ DepthOf(n) = DepthOf(p) + 1 /\ n % 2 = 0
      /\ n = 2 * p \/ (p % 2 = 0 /\ n = 2 * (p + 1))
  <2>1. Position(p) /\ (i = 1 => p = 1) /\ (i # 1 => Placed(cs, i))
    BY TreeTypes
  <2>2. p = 1 \/ p % 2 = 0
    BY <2>1 DEF Placed
  <2> QED BY <2>1, <2>2, MovePosition
<1>3. c \in Claims
  <2>1. i \in Nat /\ n \in Nat
    BY <1>1, <1>2 DEF Position
  <2> QED BY <2>1 DEF Claims, NewClaim
<1>4. /\ ds \in Seq(Claims) /\ Len(ds) = Len(cs) + 1 /\ ds[Len(cs) + 1] = c
      /\ \A j \in 1..Len(cs) : ds[j] = cs[j]
  BY <1>1, <1>3
<1>5. DOMAIN ds = DOMAIN cs \cup {Len(cs) + 1} /\ Len(cs) + 1 \notin DOMAIN cs
  BY <1>1, <1>4
<1>6. GoesOn(cs, ds)
  BY <1>1, <1>4, <1>5 DEF GoesOn
<1>7. ASSUME NEW j \in 2..Len(ds) PROVE Placed(ds, j)
  <2>1. CASE j = Len(cs) + 1
    <3>1. ds[j].parent = i /\ ds[j].pos = n /\ ds[i].pos = p /\ i \in 1..j - 1
      BY <1>1, <1>4, <2>1 DEF NewClaim
    <3> QED BY <1>2, <3>1 DEF Placed
  <2>2. CASE j # Len(cs) + 1
    <3>1. Placed(cs, j) /\ j \in DOMAIN cs
      BY <1>1, <1>4, <2>2 DEF Tree
    <3>2. cs[j].parent \in DOMAIN cs
      BY <1>1, <3>1 DEF Placed
    <3>3. /\ ds[j].pos = cs[j].pos /\ ds[j].parent = cs[j].parent
          /\ ds[cs[j].parent].pos = cs[cs[j].parent].pos
      BY <1>6, <3>1, <3>2 DEF GoesOn
    <3> QED BY <3>1, <3>3 DEF Placed
  <2> QED BY <2>1, <2>2
<1>8. ds[1].parent = 0 /\ ds[1].pos = 1
  BY <1>1, <1>6 DEF GoesOn, Tree
<1>9. Tree(ds)
  <2>1. Len(ds) >= 1
    BY <1>1, <1>4
  <2> QED BY <1>4, <1>7, <1>8, <2>1, Zenon DEF Tree
<1>10. DepthOf(p) # MaxDepth
  BY <1>2, DisputeAssumption DEF Position
<1>11. KeepsAllBut(cs, ds, 0)
  BY <1>1, <1>4 DEF KeepsAllBut
<1> QED BY <1>4, <1>5, <1>6, <1>9, <1>10, <1>11 DEF Grown

LEMMA GoesOnTransitive ==
  ASSUME NEW cs, NEW ds, NEW es, GoesOn(cs, ds), GoesOn(ds, es)
  PROVE  GoesOn(cs, es)
  BY DEF GoesOn

(* A move of anyone. *)
LEMMA MoveGrowsTree ==
  ASSUME Tree(claims), NEW i \in DOMAIN claims, NEW isAttack \in BOOLEAN, NEW good \in BOOLEAN,
         DoMove(i, isAttack, good)
  PROVE  LET n == Len(claims) + 1
         IN /\ Tree(claims') /\ GoesOn(claims, claims') /\ MoveInTime(i) /\ status = "IN_PROGRESS"
            /\ DOMAIN claims' = DOMAIN claims \cup {n} /\ n \notin DOMAIN claims /\ n # 1
            /\ Len(claims') = n
            /\ claims'[n].parent = i /\ claims'[n].countered = FALSE
            /\ DepthOf(claims[i].pos) # MaxDepth
            /\ KeepsAllBut(claims, claims', i)
            /\ subgames' = Append([subgames EXCEPT ![i] = Append(@, n)], <<>>)
            /\ clock' = Append(clock, [duration |-> NextDuration(i), timestamp |-> now])
<1> DEFINE n == Len(claims) + 1
<1>1. PICK marked : marked = Mark(claims, i, TRUE)
  OBVIOUS
<1>2. PICK c : c = NewClaim(i, Move(claims[i].pos, isAttack), good)
  OBVIOUS
<1>3. /\ ~(DepthOf(Move(claims[i].pos, isAttack)) > MaxDepth) /\ MoveInTime(i) /\ status = "IN_PROGRESS"
      /\ claims' = Append(marked, c)
      /\ subgames' = Append([subgames EXCEPT ![i] = Append(@, n)], <<>>)
      /\ clock' = Append(clock, [duration |-> NextDuration(i), timestamp |-> now])
  BY <1>1, <1>2 DEF DoMove, MoveReverts, Mark, NewClaim
<1>4. /\ Tree(marked) /\ GoesOn(claims, marked) /\ DOMAIN marked = DOMAIN claims
      /\ Len(marked) = Len(claims) /\ KeepsAllBut(claims, marked, i)
  <2>1. TRUE \in BOOLEAN
    OBVIOUS
  <2>2. SameTree(claims, marked, i, TRUE)
    BY <1>1, <2>1, Marked, Zenon
  <2> QED BY <2>2 DEF SameTree
<1>5. marked[i].pos = claims[i].pos /\ i \in DOMAIN marked
  BY <1>4 DEF GoesOn
<1>6. /\ Tree(claims') /\ GoesOn(marked, claims')
      /\ DOMAIN claims' = DOMAIN marked \cup {Len(marked) + 1}
      /\ Len(marked) + 1 \notin DOMAIN marked /\ claims'[Len(marked) + 1] = c
      /\ Len(claims') = Len(marked) + 1
      /\ DepthOf(marked[i].pos) # MaxDepth /\ KeepsAllBut(marked, claims', 0)
  <2>1. c = NewClaim(i, Move(marked[i].pos, isAttack), good)
    BY <1>2, <1>5
  <2>2. ~(DepthOf(Move(marked[i].pos, isAttack)) > MaxDepth)
    BY <1>3, <1>5
  <2>3. Grown(marked, claims', i, c)
    BY <1>3, <1>4, <1>5, <2>1, <2>2, Added
  <2> QED BY <2>3 DEF Grown
<1>7. GoesOn(claims, claims')
  BY <1>4, <1>6, GoesOnTransitive
<1>8. n # 1
  <2>1. 1 \in DOMAIN claims
    BY TreeTypes
  <2> QED BY <1>4, <1>6, <2>1
<1>9. claims'[n].parent = i /\ claims'[n].countered = FALSE
  BY <1>2, <1>4, <1>6 DEF NewClaim
<1>10. KeepsAllBut(claims, claims', i)
  <2>1. 0 \notin DOMAIN claims
    BY TreeTypes
  <2> QED BY <1>4, <1>6, <2>1 DEF KeepsAllBut
<1> QED BY <1>3, <1>4, <1>5, <1>6, <1>7, <1>8, <1>9, <1>10

-----------------------------------------------------------------------------
(* Clocks. *)

LEMMA ClockFacts ==
  ASSUME Tree(claims), ClocksOK, NEW i \in DOMAIN claims
  PROVE  /\ clock[i] \in ClockTypes /\ clock[i].duration \in 0..HalfDuration
         /\ clock[i].timestamp \in Nat /\ clock[i].timestamp <= now /\ now \in Nat
         /\ NextDuration(i) \in Nat
         /\ claims[i].parent # 0 => NextDuration(i) = clock[claims[i].parent].duration + now - clock[i].timestamp
         /\ claims[i].parent = 0 => NextDuration(i) = now - clock[i].timestamp
<1>1. /\ DOMAIN claims = 1..Len(claims) /\ i \in Nat /\ (i # 1 => claims[i].parent \in DOMAIN claims)
      /\ (i = 1 => claims[i].parent = 0) /\ (i # 1 => claims[i].parent # 0)
  BY TreeTypes
<1>2. now \in Nat /\ clock \in Seq(ClockTypes) /\ DOMAIN clock = DOMAIN claims /\ clock[i].timestamp <= now
  BY <1>1 DEF ClocksOK
<1>3. \A j \in DOMAIN claims : /\ clock[j] \in ClockTypes /\ clock[j].duration \in 0..HalfDuration
                               /\ clock[j].timestamp \in Nat
  <2> TAKE j \in DOMAIN claims
  <2>1. clock[j] \in ClockTypes
    BY <1>2
  <2> QED BY <2>1 DEF ClockTypes
<1>4. CASE i = 1
  <2>1. NextDuration(i) = 0 + now - clock[i].timestamp /\ claims[i].parent = 0
    BY <1>1, <1>4 DEF NextDuration
  <2>2. clock[i].timestamp \in Nat
    BY <1>3
  <2> QED BY <1>2, <1>3, <2>1, <2>2
<1>5. CASE i # 1
  <2> DEFINE q == claims[i].parent
  <2>1. NextDuration(i) = clock[q].duration + now - clock[i].timestamp /\ q # 0 /\ q \in DOMAIN claims
    BY <1>1, <1>5 DEF NextDuration
  <2>2. clock[q].duration \in Nat /\ clock[i].timestamp \in Nat
    BY <1>3, <2>1, DurationAssumption
  <2> HIDE DEF q
  <2>3. NextDuration(i) \in Nat
    BY <1>2, <2>1, <2>2
  <2> QED BY <1>2, <1>3, <2>1, <2>3 DEF q
<1> QED BY <1>4, <1>5

(* As long as the time stands still, a claim stays in time or out of it. *)
LEMMA TimeStays ==
  ASSUME NEW j \in DOMAIN claims, claims'[j].parent = claims[j].parent, now' = now,
         clock'[j] = clock[j],
         claims[j].parent # 0 => clock'[claims[j].parent] = clock[claims[j].parent]
  PROVE  MoveInTime(j)' <=> MoveInTime(j)
  BY DEF MoveInTime, NextDuration

-----------------------------------------------------------------------------
(* The invariant holds at the start and is kept by every step. *)

LEMMA GameInvInit == Init => GameInv
<1> SUFFICES ASSUME Init PROVE GameInv
  OBVIOUS
<1>1. PICK good \in BOOLEAN : claims = <<RootClaim(good)>>
  BY DEF Init
<1>2. /\ subgames = << <<>> >> /\ rootResolved = FALSE /\ status = "IN_PROGRESS"
      /\ clock = <<[duration |-> 0, timestamp |-> 0]>> /\ now = 0 /\ todo = {} /\ reverted = {}
  BY DEF Init
<1>3. /\ claims \in Seq(Claims) /\ Len(claims) = 1 /\ DOMAIN claims = {1}
      /\ claims[1] = RootClaim(good)
  BY <1>1 DEF RootClaim, Claims
<1>4. /\ claims[1].parent = 0 /\ claims[1].pos = 1 /\ claims[1].countered = FALSE
  BY <1>3 DEF RootClaim
<1>5. Tree(claims)
  BY <1>3, <1>4 DEF Tree
<1>6. Depth(claims[1]) = 0 /\ Depth(claims[1]) # MaxDepth
  BY <1>4, RootPosition, DisputeAssumption DEF Depth
<1>7. SubgamesOK
  <2>1. subgames \in Seq(Seq(Nat)) /\ Len(subgames) = 1 /\ subgames[1] = <<>> /\ DOMAIN subgames[1] = {}
    BY <1>2
  <2> QED BY <1>3, <1>6, <2>1 DEF SubgamesOK
<1>8. ClocksOK /\ clock[1].duration = 0 /\ clock[1].timestamp = 0
  <2> DEFINE c == [duration |-> 0, timestamp |-> 0]
  <2>1. c \in ClockTypes /\ c.duration = 0 /\ c.timestamp = 0
    BY DurationAssumption DEF ClockTypes
  <2>2. clock = <<c>>
    BY <1>2
  <2> HIDE DEF c
  <2>3. clock \in Seq(ClockTypes) /\ Len(clock) = 1 /\ clock[1] = c
    BY <2>1, <2>2
  <2> QED BY <1>2, <1>3, <2>1, <2>3 DEF ClocksOK
<1>9. TodoOK /\ RevertedOK
  BY <1>2 DEF TodoOK, RevertedOK
<1>10. Standing
  BY <1>3, <1>4 DEF Standing
<1>11. Disputed
  <2>1. MoveInTime(1)
    BY <1>2, <1>4, <1>8, DurationAssumption DEF MoveInTime, NextDuration
  <2>2. Listed(1)
    BY <1>3, <1>4 DEF Listed
  <2> QED BY <1>3, <2>1, <2>2 DEF Disputed
<1>12. RootDone /\ StatusOK
  BY <1>2 DEF RootDone, StatusOK, HonestWins
<1> QED BY <1>5, <1>7, <1>8, <1>9, <1>10, <1>11, <1>12 DEF GameInv

(* What is known of the challenger's answers outlives the steps of the others. *)
LEMMA HistoryKept ==
  ASSUME Tree(claims), Tree(claims'), GoesOn(claims, claims'), TodoOK, RevertedOK,
         todo' \subseteq todo, reverted' = reverted
  PROVE  TodoOK' /\ RevertedOK'
<1>1. ASSUME NEW i, AtBottom(i) PROVE AtBottom(i)' /\ claims'[i].good = claims[i].good
  <2>1. i \in DOMAIN claims /\ Depth(claims[i]) = MaxDepth /\ ~OurLevel(claims, i)
    BY <1>1 DEF AtBottom
  <2>2. i \in DOMAIN claims' /\ claims'[i].good = claims[i].good
    BY <2>1 DEF GoesOn
  <2>3. DepthOf(claims'[i].pos) = DepthOf(claims[i].pos) /\ OurLevel(claims', i) = OurLevel(claims, i)
    BY <2>1, LevelsStay
  <2> QED BY <2>1, <2>2, <2>3 DEF AtBottom, Depth
<1>2. DOMAIN claims \subseteq DOMAIN claims'
  BY DEF GoesOn
<1>3. TodoOK'
  BY <1>1, <1>2 DEF TodoOK
<1>4. RevertedOK'
  <2> SUFFICES ASSUME NEW i \in reverted PROVE AtBottom(i)' /\ ~OurPath(claims', i)
    BY DEF RevertedOK
  <2>1. AtBottom(i) /\ ~OurPath(claims, i)
    BY DEF RevertedOK
  <2>2. i \in DOMAIN claims
    BY <2>1 DEF AtBottom
  <2>3. OurPath(claims', i) <=> OurPath(claims, i)
    BY <2>2, LevelsStay
  <2> QED BY <1>1, <2>1, <2>3
<1> QED BY <1>3, <1>4

(* A move of anyone, in time. *)
LEMMA MoveKeeps ==
  ASSUME GameInv, NEW i \in DOMAIN claims, NEW isAttack \in BOOLEAN, NEW good \in BOOLEAN,
         DoMove(i, isAttack, good), todo' \subseteq todo,
         UNCHANGED <<rootResolved, status, now, reverted, early, late>>
  PROVE  GameInv'
<1> DEFINE n == Len(claims) + 1
<1>1. /\ Tree(claims) /\ SubgamesOK /\ ClocksOK /\ TodoOK /\ RevertedOK /\ Standing
      /\ Disputed /\ RootDone /\ StatusOK
  BY DEF GameInv
<1>2. /\ Tree(claims') /\ GoesOn(claims, claims') /\ MoveInTime(i) /\ status = "IN_PROGRESS"
      /\ DOMAIN claims' = DOMAIN claims \cup {n} /\ n \notin DOMAIN claims /\ n # 1
      /\ Len(claims') = n
      /\ claims'[n].parent = i /\ claims'[n].countered = FALSE
      /\ DepthOf(claims[i].pos) # MaxDepth
      /\ KeepsAllBut(claims, claims', i)
      /\ subgames' = Append([subgames EXCEPT ![i] = Append(@, n)], <<>>)
      /\ clock' = Append(clock, [duration |-> NextDuration(i), timestamp |-> now])
  BY <1>1, MoveGrowsTree
<1>3. DOMAIN claims = 1..Len(claims) /\ Len(claims) \in Nat
  BY <1>1 DEF Tree
<1> HIDE DEF n
<1>4. n \in Nat /\ subgames \in Seq(Seq(Nat)) /\ DOMAIN subgames = DOMAIN claims /\ Len(subgames) = Len(claims)
  BY <1>1, <1>3 DEF SubgamesOK, n
<1>5. /\ subgames' \in Seq(Seq(Nat)) /\ Len(subgames') = n
      /\ subgames'[n] = <<>> /\ subgames'[i] = Append(subgames[i], n)
      /\ \A j \in DOMAIN claims : j # i => subgames'[j] = subgames[j]
  <2> DEFINE s == [subgames EXCEPT ![i] = Append(@, n)]
  <2>1. subgames[i] \in Seq(Nat)
    BY <1>4
  <2>2. Append(subgames[i], n) \in Seq(Nat)
    BY <1>4, <2>1
  <2>3. /\ s \in Seq(Seq(Nat)) /\ Len(s) = Len(subgames) /\ s[i] = Append(subgames[i], n)
        /\ \A j \in DOMAIN claims : j # i => s[j] = subgames[j]
    BY <1>4, <2>2
  <2> DEFINE none == <<>>
             ss == Append(s, none)
  <2>4. none \in Seq(Nat)
    OBVIOUS
  <2>5. subgames' = ss
    BY <1>2
  <2>6. /\ ss \in Seq(Seq(Nat)) /\ Len(ss) = Len(s) + 1
        /\ ss[Len(s) + 1] = none /\ \A j \in 1..Len(s) : ss[j] = s[j]
    <3> HIDE DEF s, none
    <3>1. s \in Seq(Seq(Nat))
      BY <2>3
    <3>2. /\ ss \in Seq(Seq(Nat)) /\ Len(ss) = Len(s) + 1 /\ Len(s) \in Nat
          /\ \A j \in 1..Len(s) : ss[j] = s[j]
          /\ ss[Len(s) + 1] = none
      BY <2>4, <3>1, AppendFacts
    <3> QED BY <3>2, Zenon
  <2> HIDE DEF s, ss
  <2> QED BY <1>3, <1>4, <2>3, <2>5, <2>6 DEF n
<1>6. /\ DOMAIN subgames'[i] = DOMAIN subgames[i] \cup {Len(subgames[i]) + 1}
      /\ subgames'[i][Len(subgames[i]) + 1] = n
      /\ \A k \in DOMAIN subgames[i] : subgames'[i][k] = subgames[i][k]
  <2>1. subgames[i] \in Seq(Nat)
    BY <1>4
  <2>2. PICK u : u = subgames[i]
    OBVIOUS
  <2>3. /\ DOMAIN Append(u, n) = DOMAIN u \cup {Len(u) + 1} /\ Append(u, n)[Len(u) + 1] = n
        /\ \A k \in DOMAIN u : Append(u, n)[k] = u[k]
    BY <1>4, <2>1, <2>2
  <2> QED BY <1>5, <2>2, <2>3
<1>7. TodoOK' /\ RevertedOK'
  BY <1>1, <1>2, HistoryKept
<1>8. \A j \in DOMAIN claims : claims'[j].parent = claims[j].parent /\ claims'[j].pos = claims[j].pos
  BY <1>2 DEF GoesOn
<1>9. SubgamesOK'
  <2>1. Len(subgames') = Len(claims')
    BY <1>2, <1>5
  <2>2. ASSUME NEW j \in DOMAIN claims', NEW k \in DOMAIN subgames'[j]
        PROVE  /\ subgames'[j][k] \in DOMAIN claims' /\ subgames'[j][k] # 1
               /\ claims'[subgames'[j][k]].parent = j
    <3>1. CASE j = n
      <4>1. DOMAIN subgames'[j] = {}
        BY <1>5, <3>1
      <4> QED BY <2>2, <4>1
    <3>2. CASE j = i
      <4>1. CASE k = Len(subgames[i]) + 1
        BY <1>2, <1>6, <3>2, <4>1
      <4>2. CASE k \in DOMAIN subgames[i]
        <5>1. subgames'[j][k] = subgames[i][k]
          BY <1>6, <3>2, <4>2
        <5>2. /\ subgames[i][k] \in DOMAIN claims /\ subgames[i][k] # 1
              /\ claims[subgames[i][k]].parent = i
          BY <1>1, <4>2 DEF SubgamesOK
        <5>3. claims'[subgames[i][k]].parent = i
          BY <1>8, <5>2
        <5>4. DOMAIN claims \subseteq DOMAIN claims'
          BY <1>2
        <5> QED BY <3>2, <5>1, <5>2, <5>3, <5>4
      <4> QED BY <1>6, <2>2, <3>2, <4>1, <4>2
    <3>3. CASE j # n /\ j # i
      <4>1. j \in DOMAIN claims /\ subgames'[j] = subgames[j]
        BY <1>2, <1>5, <3>3
      <4>2. /\ subgames[j][k] \in DOMAIN claims /\ subgames[j][k] # 1
            /\ claims[subgames[j][k]].parent = j
        BY <1>1, <2>2, <4>1 DEF SubgamesOK
      <4> QED BY <1>2, <1>8, <4>1, <4>2
    <3> QED BY <3>1, <3>2, <3>3
  <2>3. ASSUME NEW j \in DOMAIN claims', DepthOf(claims'[j].pos) = MaxDepth PROVE subgames'[j] = <<>>
    <3>1. CASE j = n
      BY <1>5, <3>1
    <3>2. CASE j # n
      <4>1. j \in DOMAIN claims /\ DepthOf(claims[j].pos) = MaxDepth /\ j # i
        BY <1>2, <1>8, <2>3, <3>2
      <4>2. subgames[j] = <<>>
        BY <1>1, <4>1 DEF SubgamesOK, Depth
      <4> QED BY <1>5, <4>1, <4>2
    <3> QED BY <3>1, <3>2
  <2> QED BY <1>5, <2>1, <2>2, <2>3 DEF SubgamesOK, Depth
<1>10. /\ ClocksOK' /\ \A j \in DOMAIN claims : clock'[j] = clock[j]
       /\ clock'[n].timestamp = now
  <2> DEFINE c == [duration |-> NextDuration(i), timestamp |-> now]
  <2>1. NextDuration(i) \in Nat /\ now \in Nat
    BY <1>1, ClockFacts
  <2>2. c \in ClockTypes /\ c.timestamp = now
    BY <1>2, <2>1, DurationAssumption DEF ClockTypes, MoveInTime
  <2>3. clock \in Seq(ClockTypes) /\ Len(clock) = Len(claims) /\ clock' = Append(clock, c)
    BY <1>1, <1>2 DEF ClocksOK
  <2> HIDE DEF c
  <2>4. /\ clock' \in Seq(ClockTypes) /\ Len(clock') = n /\ clock'[n] = c
        /\ \A j \in 1..Len(claims) : clock'[j] = clock[j]
    BY <2>2, <2>3, AppendFacts DEF n
  <2>5. \A j \in DOMAIN claims : clock'[j].timestamp <= now'
    BY <1>1, <1>3, <2>4 DEF ClocksOK
  <2>6. clock'[n].timestamp <= now'
    BY <2>1, <2>2, <2>4
  <2>7. 1 \in DOMAIN claims
    BY <1>1, TreeTypes
  <2>8. ClocksOK'
    BY <1>1, <1>2, <1>3, <2>1, <2>4, <2>5, <2>6, <2>7 DEF ClocksOK
  <2> QED BY <1>3, <2>2, <2>4, <2>8
<1>11. \A j \in DOMAIN claims : MoveInTime(j)' <=> MoveInTime(j)
  <2> TAKE j \in DOMAIN claims
  <2>1. claims[j].parent # 0 => claims[j].parent \in DOMAIN claims
    BY <1>1, TreeTypes
  <2> QED BY <1>8, <1>10, <2>1, TimeStays
<1>12. ASSUME NEW j, j = n PROVE MoveInTime(j)'
  <2>1. i # 0 /\ clock[i].duration \in 0..HalfDuration /\ now \in Nat
    BY <1>1, <1>3, ClockFacts
  <2>2. NextDuration(j)' = clock[i].duration + now - now
    <3>1. claims'[j].parent = i /\ clock'[i] = clock[i] /\ clock'[j].timestamp = now /\ now' = now
      BY <1>2, <1>10, <1>12
    <3>2. NextDuration(j)' = clock'[i].duration + now' - clock'[j].timestamp
      BY <2>1, <3>1 DEF NextDuration
    <3> QED BY <3>1, <3>2
  <2> QED BY <2>1, <2>2, DurationAssumption DEF MoveInTime
<1>13. FairlyPlayed' = FairlyPlayed
  BY DEF FairlyPlayed
<1>15. Standing'
  <2> SUFFICES ASSUME FairlyPlayed, NEW j \in DOMAIN claims', OurLevel(claims', j), OurPath(claims', j),
                      subgames'[j] = <<>>
               PROVE  ~claims'[j].countered
    BY <1>13 DEF Standing
  <2>1. CASE j = n
    BY <1>2, <2>1
  <2>2. CASE j = i
    <3>1. Len(subgames[i]) + 1 \in DOMAIN subgames'[i] /\ DOMAIN <<>> = {}
      BY <1>6
    <3> QED BY <2>2, <3>1
  <2>3. CASE j # n /\ j # i
    <3>1. j \in DOMAIN claims /\ claims'[j] = claims[j] /\ subgames[j] = <<>>
      BY <1>2, <1>5, <2>3 DEF KeepsAllBut
    <3>2. OurLevel(claims, j) /\ OurPath(claims, j)
      BY <1>1, <1>2, <3>1, LevelsStay
    <3> QED BY <1>1, <3>1, <3>2 DEF Standing
  <2> QED BY <2>1, <2>2, <2>3
<1>16. ASSUME NEW j \in DOMAIN claims, Listed(j) PROVE Listed(j)'
  <2> SUFFICES ASSUME NEW l \in DOMAIN claims', claims'[l].parent = j
               PROVE  \E k \in DOMAIN subgames'[j] : subgames'[j][k] = l
    BY DEF Listed
  <2>1. CASE l = n
    <3>1. j = i /\ Len(subgames[i]) + 1 \in DOMAIN subgames'[i] /\ subgames'[i][Len(subgames[i]) + 1] = n
      BY <1>2, <1>6, <2>1
    <3> QED BY <2>1, <3>1
  <2>2. CASE l # n
    <3>1. l \in DOMAIN claims /\ claims[l].parent = j
      BY <1>2, <1>8, <2>2
    <3>2. PICK k \in DOMAIN subgames[j] : subgames[j][k] = l
      BY <1>16, <3>1 DEF Listed
    <3> QED BY <1>5, <1>6, <3>2
  <2> QED BY <2>1, <2>2
<1>17. Disputed'
  <2> SUFFICES ASSUME FairlyPlayed, NEW j \in DOMAIN claims', ~OurLevel(claims', j), OurPath(claims', j)
               PROVE  /\ ~MoveInTime(j)' => HasAnswer(j)'
                      /\ DepthOf(claims'[j].pos) # MaxDepth => Listed(j)' \/ ResolvedLost(j)'
    BY <1>13 DEF Disputed, Depth
  <2>1. CASE j = n
    <3>1. \A l \in DOMAIN claims' : claims'[l].parent # n
      <4> SUFFICES ASSUME NEW l \in DOMAIN claims', claims'[l].parent = n PROVE FALSE
        OBVIOUS
      <4>1. l # n
        BY <1>2
      <4>2. l \in DOMAIN claims /\ claims[l].parent = n
        BY <1>2, <1>8, <4>1
      <4>3. claims[l].parent \in DOMAIN claims \/ claims[l].parent = 0
        BY <1>1, <4>2, TreeTypes
      <4> QED BY <1>2, <1>3, <4>2, <4>3 DEF n
    <3>2. Listed(j)'
      BY <2>1, <3>1 DEF Listed
    <3>3. MoveInTime(j)'
      BY <1>12, <2>1
    <3> QED BY <3>2, <3>3
  <2>2. CASE j # n
    <3>0. j \in DOMAIN claims
      BY <1>2, <2>2
    <3>1. j \in DOMAIN claims /\ ~OurLevel(claims, j) /\ OurPath(claims, j)
      BY <1>1, <1>2, <3>0, LevelsStay
    <3>a. DepthOf(claims'[j].pos) = DepthOf(claims[j].pos)
      BY <1>8, <3>0
    <3>2. /\ ~MoveInTime(j) => HasAnswer(j)
          /\ DepthOf(claims[j].pos) # MaxDepth => Listed(j) \/ ResolvedLost(j)
      BY <1>1, <3>1 DEF Disputed, Depth
    <3>3. HasAnswer(j) => HasAnswer(j)'
      <4>1. CASE DepthOf(claims[j].pos) = MaxDepth
        <5>1. claims'[j] = claims[j]
          BY <1>2, <3>1, <4>1 DEF KeepsAllBut
        <5> QED BY <4>1, <5>1 DEF HasAnswer, Depth
      <4>2. CASE DepthOf(claims[j].pos) # MaxDepth
        <5> SUFFICES ASSUME HasAnswer(j) PROVE HasAnswer(j)'
          OBVIOUS
        <5>1. PICK l \in DOMAIN claims : /\ claims[l].parent = j /\ claims[l].good
                                         /\ claims[l].pos = NextPosition(claims[j])
          BY <4>2 DEF HasAnswer, Depth
        <5>2. NextPosition(claims'[j]) = NextPosition(claims[j])
          BY <1>2, <3>1 DEF NextPosition, GoesOn
        <5>3. l \in DOMAIN claims' /\ claims'[l].parent = j /\ claims'[l].good
              /\ claims'[l].pos = NextPosition(claims'[j])
          BY <1>2, <5>1, <5>2 DEF GoesOn
        <5>4. DepthOf(claims'[j].pos) # MaxDepth
          BY <3>a, <4>2
        <5> QED BY <5>3, <5>4 DEF HasAnswer, Depth
      <4> QED BY <4>1, <4>2
    <3>4. ResolvedLost(j) => ResolvedLost(j)'
      <4> SUFFICES ASSUME ResolvedLost(j) PROVE ResolvedLost(j)'
        OBVIOUS
      <4>1. j # i
        BY <1>2 DEF ResolvedLost
      <4>2. claims'[j] = claims[j] /\ subgames'[j] = subgames[j]
        BY <1>2, <1>5, <3>1, <4>1 DEF KeepsAllBut
      <4> QED BY <1>11, <3>1, <4>2 DEF ResolvedLost
    <3>5. Listed(j) => Listed(j)'
      BY <1>16, <3>1
    <3> QED BY <1>11, <3>a, <3>1, <3>2, <3>3, <3>4, <3>5
  <2> QED BY <2>1, <2>2
<1>18. RootDone' /\ StatusOK'
  <2>1. 1 \in DOMAIN claims
    BY <1>1, TreeTypes
  <2>2. ASSUME rootResolved PROVE claims'[1] = claims[1] /\ subgames'[1] = subgames[1]
    <3>1. i # 1
      BY <1>1, <1>2, <2>2 DEF RootDone
    <3> QED BY <1>2, <1>5, <2>1, <3>1 DEF KeepsAllBut
  <2>3. RootDone'
    BY <1>1, <1>11, <2>1, <2>2 DEF RootDone
  <2> QED BY <1>1, <1>2, <2>3 DEF StatusOK, HonestWins
<1> QED BY <1>2, <1>7, <1>9, <1>10, <1>15, <1>17, <1>18 DEF GameInv

(* A step that counters a claim: none of the challenger's, so nothing it relies on. *)
LEMMA StepKeeps ==
  ASSUME GameInv, NEW i \in DOMAIN claims, NEW isAttack \in BOOLEAN,
         NEW valid \in StepResults(i, isAttack), DoStep(i, isAttack, valid), todo' \subseteq todo,
         UNCHANGED <<rootResolved, status, now, reverted, early, late>>
  PROVE  GameInv'
<1>1. /\ Tree(claims) /\ SubgamesOK /\ ClocksOK /\ TodoOK /\ RevertedOK /\ Standing
      /\ Disputed /\ RootDone /\ StatusOK
  BY DEF GameInv
<1>2. /\ Depth(claims[i]) = MaxDepth /\ StepCounters(i, isAttack, valid)
      /\ claims' = Mark(claims, i, TRUE) /\ subgames' = subgames /\ clock' = clock
  BY DEF DoStep, Mark
<1>3. ~(OurLevel(claims, i) /\ OurPath(claims, i))
  BY <1>1, <1>2, OurClaimStands
<1>4. /\ Tree(claims') /\ GoesOn(claims, claims') /\ DOMAIN claims' = DOMAIN claims
      /\ Len(claims') = Len(claims) /\ claims'[i].countered = TRUE /\ KeepsAllBut(claims, claims', i)
  <2>1. TRUE \in BOOLEAN
    OBVIOUS
  <2>2. SameTree(claims, claims', i, TRUE)
    BY <1>1, <1>2, <2>1, Marked, Zenon
  <2> QED BY <2>2 DEF SameTree
<1>5. TodoOK' /\ RevertedOK'
  BY <1>1, <1>4, HistoryKept
<1>6. \A j \in DOMAIN claims : /\ claims'[j].parent = claims[j].parent /\ claims'[j].pos = claims[j].pos
                               /\ claims'[j].good = claims[j].good
  BY <1>4 DEF GoesOn
<1>7. \A j \in DOMAIN claims : j # i => claims'[j] = claims[j]
  BY <1>4 DEF KeepsAllBut
<1>8. SubgamesOK'
  <2>1. ASSUME NEW j \in DOMAIN claims', NEW k \in DOMAIN subgames'[j]
        PROVE  /\ subgames'[j][k] \in DOMAIN claims' /\ subgames'[j][k] # 1
               /\ claims'[subgames'[j][k]].parent = j
    <3>1. /\ subgames[j][k] \in DOMAIN claims /\ subgames[j][k] # 1
          /\ claims[subgames[j][k]].parent = j
      BY <1>1, <1>2, <1>4 DEF SubgamesOK
    <3> QED BY <1>2, <1>4, <1>6, <3>1
  <2>2. ASSUME NEW j \in DOMAIN claims', DepthOf(claims'[j].pos) = MaxDepth PROVE subgames'[j] = <<>>
    <3>1. j \in DOMAIN claims /\ DepthOf(claims[j].pos) = MaxDepth
      BY <1>4, <1>6, <2>2
    <3> QED BY <1>1, <1>2, <3>1 DEF SubgamesOK, Depth
  <2>3. subgames' \in Seq(Seq(Nat)) /\ Len(subgames') = Len(claims')
    BY <1>1, <1>2, <1>4 DEF SubgamesOK
  <2> QED BY <2>1, <2>2, <2>3 DEF SubgamesOK, Depth
<1>9. ClocksOK'
  BY <1>1, <1>2, <1>4 DEF ClocksOK
<1>10. \A j \in DOMAIN claims : MoveInTime(j)' <=> MoveInTime(j)
  BY <1>2, <1>6, TimeStays
<1>11. FairlyPlayed' = FairlyPlayed
  BY DEF FairlyPlayed
<1>13. Standing'
  <2> SUFFICES ASSUME FairlyPlayed, NEW j \in DOMAIN claims', OurLevel(claims', j), OurPath(claims', j),
                      subgames'[j] = <<>>
               PROVE  ~claims'[j].countered
    BY <1>11 DEF Standing
  <2>0. j \in DOMAIN claims
    BY <1>4
  <2>1. j \in DOMAIN claims /\ OurLevel(claims, j) /\ OurPath(claims, j)
    BY <1>1, <1>4, <2>0, LevelsStay
  <2>2. j # i
    BY <1>3, <2>1
  <2> QED BY <1>1, <1>2, <1>7, <2>1, <2>2 DEF Standing
<1>14. Disputed'
  <2> SUFFICES ASSUME FairlyPlayed, NEW j \in DOMAIN claims', ~OurLevel(claims', j), OurPath(claims', j)
               PROVE  /\ ~MoveInTime(j)' => HasAnswer(j)'
                      /\ DepthOf(claims'[j].pos) # MaxDepth => Listed(j)' \/ ResolvedLost(j)'
    BY <1>11 DEF Disputed, Depth
  <2>0. j \in DOMAIN claims
    BY <1>4
  <2>1. j \in DOMAIN claims /\ ~OurLevel(claims, j) /\ OurPath(claims, j)
    BY <1>1, <1>4, <2>0, LevelsStay
  <2>2. /\ ~MoveInTime(j) => HasAnswer(j)
        /\ DepthOf(claims[j].pos) # MaxDepth => Listed(j) \/ ResolvedLost(j)
    BY <1>1, <2>1 DEF Disputed, Depth
  <2>3. HasAnswer(j) => HasAnswer(j)'
    <3>1. CASE j = i
      BY <1>2, <1>4, <1>6, <3>1 DEF HasAnswer, Depth
    <3>2. CASE j # i
      <4>1. claims'[j] = claims[j]
        BY <1>7, <2>1, <3>2
      <4> QED BY <1>4, <1>6, <4>1 DEF HasAnswer
    <3> QED BY <3>1, <3>2
  <2>4. Listed(j) => Listed(j)'
    BY <1>2, <1>4, <1>6 DEF Listed
  <2>5. ResolvedLost(j) => ResolvedLost(j)'
    BY <1>2, <1>4, <1>7, <1>10, <2>1 DEF ResolvedLost
  <2> QED BY <1>6, <1>10, <2>1, <2>2, <2>3, <2>4, <2>5
<1>15. RootDone' /\ StatusOK'
  <2>1. 1 \in DOMAIN claims
    BY <1>1, TreeTypes
  <2>2. i # 1
    BY <1>1, <1>2, RootPosition, DisputeAssumption DEF Depth, Tree
  <2>3. claims'[1] = claims[1]
    BY <1>7, <2>1, <2>2
  <2> QED BY <1>1, <1>2, <1>10, <2>1, <2>3 DEF RootDone, StatusOK, HonestWins
<1> QED BY <1>4, <1>5, <1>8, <1>9, <1>13, <1>14, <1>15 DEF GameInv

(* Steps that leave the contract alone. *)
LEMMA QuietKeeps ==
  ASSUME GameInv, TodoOK', RevertedOK',
         UNCHANGED <<claims, subgames, rootResolved, status, clock, now, early, late>>
  PROVE  GameInv'
<1>1. ClocksOK' /\ SubgamesOK' /\ RootDone' /\ StatusOK' /\ Standing'
  BY DEF GameInv, SubgamesOK, ClocksOK, Standing, FairlyPlayed, RootDone, StatusOK, HonestWins,
         MoveInTime, NextDuration
<1>2. Disputed'
  BY DEF GameInv, Disputed, FairlyPlayed, HasAnswer, Listed, ResolvedLost, MoveInTime, NextDuration
<1> QED BY <1>1, <1>2 DEF GameInv

-----------------------------------------------------------------------------
(* The challenger's decisions. *)

LEMMA AgreeIsOurLevel ==
  ASSUME NEW i \in DOMAIN claims
  PROVE  AgreeWithClaimLevel(claims[i]) = OurLevel(claims, i)
  BY DEF AgreeWithClaimLevel, OurLevel, Depth

(* On an honest path it answers. *)
LEMMA OurPathDisputed ==
  ASSUME Tree(claims), NEW i \in DOMAIN claims, ~OurLevel(claims, i), OurPath(claims, i)
  PROVE  DisputesHonestPath(i)
<1> DEFINE q == claims[i].parent
<1> SUFFICES ASSUME q # 0, NEW j \in PathOf(claims)[q],
                    (Depth(claims[q]) - Depth(claims[j])) % 2 = 0
             PROVE  claims[j].good
  BY PathToIsPathOf DEF DisputesHonestPath, AgreeWithClaimPath
<1>1. i # 1 /\ q \in DOMAIN claims
  BY TreeTypes
<1>2. OurLevel(claims, q)
  BY <1>1, LevelsAlternate
<1>3. j \in DOMAIN claims
  BY <1>1, PathGoesUp
<1>4. OurLevel(claims, j)
  BY <1>1, <1>2, <1>3, EvenlyApart DEF Depth
<1>5. OurPath(claims, q)
  BY <1>1, OurPathUp
<1> QED BY <1>4, <1>5 DEF OurPath, OurMove

(* The claim of its own it stands by. *)
LEMMA OurPathAgreed ==
  ASSUME Tree(claims), NEW i \in DOMAIN claims, OurLevel(claims, i), OurPath(claims, i)
  PROVE  AgreeWithClaimPath(i)
<1> SUFFICES ASSUME NEW j \in PathOf(claims)[i], (Depth(claims[i]) - Depth(claims[j])) % 2 = 0
             PROVE  claims[j].good
  BY PathToIsPathOf DEF AgreeWithClaimPath
<1>1. j \in DOMAIN claims
  BY PathGoesUp
<1>2. OurLevel(claims, j)
  BY <1>1, EvenlyApart DEF Depth
<1> QED BY <1>2 DEF OurPath, OurMove

(* Its answers are well formed. *)
LEMMA DecisionsOK ==
  ASSUME Tree(claims)
  PROVE  \A a \in NextActions :
           /\ a.idx \in DOMAIN claims /\ a.isAttack \in BOOLEAN
           /\ a.type = "step" => AtBottom(a.idx) /\ a.isAttack = ~claims[a.idx].good
<1> SUFFICES ASSUME NEW a \in NextActions
             PROVE  /\ a.idx \in DOMAIN claims /\ a.isAttack \in BOOLEAN
                    /\ a.type = "step" => AtBottom(a.idx) /\ a.isAttack = ~claims[a.idx].good
  OBVIOUS
<1>1. PICK i \in DOMAIN claims :
        /\ ~AgreeWithClaimLevel(claims[i])
        /\ a \in IF Depth(claims[i]) = MaxDepth THEN StepActions(i) ELSE MoveActions(i)
  BY DEF NextActions
<1>2. ~OurLevel(claims, i)
  BY <1>1, AgreeIsOurLevel
<1>3. CASE Depth(claims[i]) = MaxDepth
  <2>1. a = [type |-> "step", idx |-> i, isAttack |-> ~claims[i].good, at |-> 0]
    BY <1>1, <1>3 DEF StepActions
  <2> QED BY <1>2, <1>3, <2>1 DEF AtBottom
<1>4. CASE Depth(claims[i]) # MaxDepth
  <2>1. PICK at, right : a = [type |-> "move", idx |-> i, isAttack |-> ~right, at |-> at]
    BY <1>1, <1>4 DEF MoveActions
  <2> QED BY <2>1
<1> QED BY <1>3, <1>4

(* An answer that is not there is among those it decides on, and not one that was refused. *)
LEMMA AnswerDue ==
  ASSUME GameInv, NEW i \in DOMAIN claims, ~OurLevel(claims, i), OurPath(claims, i), ~HasAnswer(i)
  PROVE  \E a \in NextActions : a.idx = i /\ i \notin reverted
<1>1. Tree(claims) /\ RevertedOK
  BY DEF GameInv
<1>2. DisputesHonestPath(i) /\ ~AgreeWithClaimLevel(claims[i])
  BY <1>1, OurPathDisputed, AgreeIsOurLevel
<1>3. \A a \in IF Depth(claims[i]) = MaxDepth THEN StepActions(i) ELSE MoveActions(i) : a \in NextActions
  BY <1>2 DEF NextActions
<1>4. i \notin reverted
  BY <1>1 DEF RevertedOK
<1>5. CASE Depth(claims[i]) = MaxDepth
  <2>1. PICK a : a = [type |-> "step", idx |-> i, isAttack |-> ~claims[i].good, at |-> 0]
    OBVIOUS
  <2>2. a \in StepActions(i) /\ a.idx = i
    BY <1>2, <1>5, <2>1 DEF StepActions, HasAnswer
  <2> QED BY <1>3, <1>4, <1>5, <2>2
<1>6. CASE Depth(claims[i]) # MaxDepth
  <2>1. ~(claims[i].good /\ i = 1)
    BY <1>1, LevelsAlternate
  <2>2. PICK a : a = [type |-> "move", idx |-> i,
                      isAttack |-> ~RightOf(NextPosition(claims[i]), claims[i].pos),
                      at |-> NextPosition(claims[i])]
    OBVIOUS
  <2>3. a \in MoveActions(i) /\ a.idx = i
    BY <1>2, <1>6, <2>1, <2>2 DEF MoveActions, HasAnswer
  <2> QED BY <1>3, <1>4, <1>6, <2>3
<1> QED BY <1>5, <1>6

-----------------------------------------------------------------------------
(* The end of the game. *)

LEMMA TickKeeps ==
  ASSUME GameInv, Tick
  PROVE  GameInv'
<1>1. /\ Tree(claims) /\ SubgamesOK /\ ClocksOK /\ TodoOK /\ RevertedOK /\ Standing
      /\ Disputed /\ RootDone /\ StatusOK
  BY DEF GameInv
<1>2. /\ now' = now + 1 /\ late' = (late \/ (~rootResolved /\ AnswerMissed))
      /\ UNCHANGED <<claims, subgames, rootResolved, status, clock, todo, reverted, early, others>>
  BY DEF Tick
<1>3. now \in Nat
  BY <1>1 DEF ClocksOK
<1>4. ASSUME NEW j \in DOMAIN claims
      PROVE  /\ ~MoveInTime(j) => ~MoveInTime(j)'
             /\ MoveInTime(j) /\ ~MoveInTime(j)' => NextDuration(j) = HalfDuration
  <2>1. NextDuration(j) \in Nat
    BY <1>1, ClockFacts
  <2>2. NextDuration(j)' = NextDuration(j) + 1
    <3>1. clock[j].timestamp \in Nat /\ now \in Nat
      BY <1>1, ClockFacts
    <3>2. CASE claims[j].parent = 0
      BY <1>2, <3>1, <3>2 DEF NextDuration
    <3>3. CASE claims[j].parent # 0
      <4>1. claims[j].parent \in DOMAIN claims
        BY <1>1, <3>3, TreeTypes
      <4>2. clock[claims[j].parent].duration \in Nat
        <5>1. clock[claims[j].parent].duration \in 0..HalfDuration
          BY <1>1, <4>1, ClockFacts
        <5> QED BY <5>1, DurationAssumption
      <4> QED BY <1>2, <3>1, <3>3, <4>2 DEF NextDuration
    <3> QED BY <3>2, <3>3
  <2> QED BY <2>1, <2>2, DurationAssumption DEF MoveInTime
<1>5. ClocksOK'
  <2>1. \A j \in DOMAIN claims : clock[j].timestamp <= now + 1
    <3> TAKE j \in DOMAIN claims
    <3>1. clock[j].timestamp \in Nat /\ clock[j].timestamp <= now
      BY <1>1, ClockFacts
    <3> QED BY <1>3, <3>1
  <2> QED BY <1>1, <1>2, <1>3, <2>1 DEF ClocksOK
<1>6. FairlyPlayed' => FairlyPlayed /\ ~AnswerMissed
  BY <1>2 DEF FairlyPlayed
<1>7. Standing'
  BY <1>1, <1>2, <1>6 DEF Standing
<1>8. Disputed'
  <2> SUFFICES ASSUME FairlyPlayed', NEW j \in DOMAIN claims, ~OurLevel(claims, j), OurPath(claims, j)
               PROVE  /\ ~MoveInTime(j)' => HasAnswer(j)'
                      /\ Depth(claims[j]) # MaxDepth => Listed(j)' \/ ResolvedLost(j)'
    BY <1>2 DEF Disputed
  <2>1. FairlyPlayed /\ ~AnswerMissed
    BY <1>6
  <2>2. /\ ~MoveInTime(j) => HasAnswer(j)
        /\ Depth(claims[j]) # MaxDepth => Listed(j) \/ ResolvedLost(j)
    BY <1>1, <2>1 DEF Disputed
  <2>3. HasAnswer(j)' = HasAnswer(j) /\ Listed(j)' = Listed(j)
    BY <1>2 DEF HasAnswer, Listed
  <2>4. ResolvedLost(j) => ResolvedLost(j)'
    BY <1>2, <1>4 DEF ResolvedLost
  <2>5. ASSUME ~MoveInTime(j)', MoveInTime(j), ~HasAnswer(j) PROVE FALSE
    <3>1. PICK a \in NextActions : a.idx = j /\ j \notin reverted
      BY <2>5, AnswerDue
    <3>2. NextDuration(j) = HalfDuration
      BY <1>4, <2>5
    <3> QED BY <2>1, <3>1, <3>2 DEF AnswerMissed
  <2> QED BY <2>2, <2>3, <2>4, <2>5
<1>9. RootDone' /\ StatusOK'
  <2>1. 1 \in DOMAIN claims
    BY <1>1 DEF Tree
  <2>2. ~late' => ~late
    BY <1>2
  <2>3. RootDone'
    BY <1>1, <1>2, <1>4, <2>1, <2>2 DEF RootDone
  <2> QED BY <1>1, <1>2, <2>2, <2>3 DEF StatusOK, HonestWins
<1>10. Tree(claims)' /\ SubgamesOK' /\ TodoOK' /\ RevertedOK'
  BY <1>1, <1>2 DEF SubgamesOK, TodoOK, RevertedOK, AtBottom
<1> QED BY <1>5, <1>7, <1>8, <1>9, <1>10 DEF GameInv

(* On an honest path a claim is found countered exactly when it is not ours. *)
LEMMA ResolvedRight ==
  ASSUME GameInv, FairlyPlayed, NEW i \in DOMAIN claims, ResolveClaim(i), ~ResolvedEarly(i),
         OurPath(claims, i)
  PROVE  /\ Unanswered(i) # {} <=> ~OurLevel(claims, i)
         /\ ~OurLevel(claims, i) => ~MoveInTime(i)
<1>1. Tree(claims) /\ SubgamesOK /\ Standing /\ Disputed /\ ~rootResolved
  BY DEF GameInv, FairlyPlayed
<1>2. /\ IF i = 1 THEN ~rootResolved ELSE subgames[i] # <<>>
      /\ \A k \in LookedAt(i) : subgames[subgames[i][k]] = <<>>
  BY DEF ResolveClaim
<1>3. DOMAIN subgames = DOMAIN claims /\ DOMAIN subgames[i] \subseteq Nat
  <2>1. subgames \in Seq(Seq(Nat)) /\ Len(subgames) = Len(claims)
    BY <1>1 DEF SubgamesOK
  <2>2. claims \in Seq(Claims)
    BY <1>1 DEF Tree
  <2>3. DOMAIN subgames = DOMAIN claims
    BY <2>1, <2>2
  <2>4. subgames[i] \in Seq(Nat)
    BY <2>1, <2>3
  <2> QED BY <2>3, <2>4
<1>4. ASSUME NEW k \in DOMAIN subgames[i]
      PROVE  LET n == subgames[i][k]
             IN /\ n \in DOMAIN claims /\ n # 1 /\ claims[n].parent = i
                /\ OurLevel(claims, n) <=> ~OurLevel(claims, i)
                /\ (OurLevel(claims, n) => OurMove(claims, n)) => OurPath(claims, n)
  <2> DEFINE n == subgames[i][k]
  <2>1. n \in DOMAIN claims /\ n # 1 /\ claims[n].parent = i
    BY <1>1 DEF SubgamesOK
  <2>2. OurLevel(claims, n) <=> ~OurLevel(claims, i)
    BY <1>1, <2>1, LevelsAlternate
  <2>3. OurPath(claims, n) <=> OurPath(claims, i) /\ (OurLevel(claims, n) => OurMove(claims, n))
    BY <1>1, <2>1, OurPathUp
  <2> QED BY <2>1, <2>2, <2>3
<1>5. DOMAIN <<>> = {}
  OBVIOUS
<1>6. ASSUME OurLevel(claims, i), Unanswered(i) # {} PROVE FALSE
  <2>1. PICK u \in Unanswered(i) : \A v \in Unanswered(i) : u <= v
    <3>1. Unanswered(i) \in SUBSET Nat
      BY <1>3 DEF Unanswered
    <3> QED BY <1>6, <3>1, LeastNat
  <2>2. u \in DOMAIN subgames[i] /\ ~claims[subgames[i][u]].countered /\ u \in LookedAt(i)
    BY <2>1 DEF Unanswered, LookedAt
  <2> DEFINE n == subgames[i][u]
  <2>3. n \in DOMAIN claims /\ ~OurLevel(claims, n) /\ OurPath(claims, n) /\ claims[n].parent = i
    BY <1>4, <1>6, <2>2
  <2>4. subgames[n] = <<>> /\ ~claims[n].countered
    BY <1>2, <2>2
  <2>5. AgreeWithClaimLevel(claims[i]) /\ AgreeWithClaimPath(i)
    BY <1>1, <1>6, OurPathAgreed, AgreeIsOurLevel
  <2>6. ~MoveInTime(n)
    BY <1>1, <2>3, <2>4, <2>5 DEF ResolvedEarly
  <2>7. HasAnswer(n) /\ (Depth(claims[n]) # MaxDepth => Listed(n))
    BY <1>1, <2>3, <2>4, <2>6 DEF Disputed, ResolvedLost
  <2>8. Depth(claims[n]) # MaxDepth
    BY <2>4, <2>7 DEF HasAnswer
  <2>9. PICK j \in DOMAIN claims : claims[j].parent = n
    BY <2>7, <2>8 DEF HasAnswer
  <2>10. PICK k \in DOMAIN subgames[n] : subgames[n][k] = j
    BY <2>7, <2>8, <2>9 DEF Listed
  <2> QED BY <1>5, <2>4, <2>10
<1>7. ~OurLevel(claims, i) => ~MoveInTime(i)
  <2> SUFFICES ASSUME ~OurLevel(claims, i) PROVE ~MoveInTime(i)
    OBVIOUS
  <2>1. ~AgreeWithClaimLevel(claims[i]) /\ DisputesHonestPath(i)
    BY <1>1, OurPathDisputed, AgreeIsOurLevel
  <2> QED BY <1>1, <2>1 DEF ResolvedEarly
<1>8. ASSUME ~OurLevel(claims, i), Unanswered(i) = {} PROVE FALSE
  <2>1. Depth(claims[i]) # MaxDepth
    <3>1. i = 1 => Depth(claims[i]) # MaxDepth
      BY <1>1, RootPosition, DisputeAssumption DEF Depth, Tree
    <3> QED BY <1>1, <1>2, <3>1 DEF SubgamesOK
  <2>2. HasAnswer(i) /\ Listed(i)
    BY <1>1, <1>2, <1>7, <1>8, <2>1 DEF Disputed, ResolvedLost
  <2>3. PICK n \in DOMAIN claims : /\ claims[n].parent = i /\ claims[n].good
                                   /\ claims[n].pos = NextPosition(claims[i])
    BY <2>1, <2>2 DEF HasAnswer
  <2>4. PICK k \in DOMAIN subgames[i] : subgames[i][k] = n
    BY <2>2, <2>3 DEF Listed
  <2>5. n \in DOMAIN claims /\ n # 1 /\ OurLevel(claims, n)
    BY <1>4, <1>8, <2>4
  <2>6. OurPath(claims, n)
    <3>1. OurMove(claims, n)
      BY <2>3, <2>5 DEF OurMove
    <3> QED BY <1>4, <2>4, <3>1
  <2>7. k \in LookedAt(i)
    BY <1>8, <2>4 DEF LookedAt
  <2>8. subgames[n] = <<>>
    BY <1>2, <2>4, <2>7
  <2>9. ~claims[n].countered
    BY <1>1, <2>5, <2>6, <2>8 DEF Standing
  <2> QED BY <1>8, <2>4, <2>9 DEF Unanswered
<1> QED BY <1>6, <1>7, <1>8

LEMMA ResolveClaimKeeps ==
  ASSUME GameInv, NEW i \in DOMAIN claims, ResolveClaim(i)
  PROVE  GameInv'
<1>1. /\ Tree(claims) /\ SubgamesOK /\ ClocksOK /\ TodoOK /\ RevertedOK /\ Standing
      /\ Disputed /\ RootDone /\ StatusOK
  BY DEF GameInv
<1>2. PICK b \in BOOLEAN : b = (Unanswered(i) # {})
  OBVIOUS
<1>3. /\ ClockExpired(i) /\ IF i = 1 THEN ~rootResolved ELSE subgames[i] # <<>>
      /\ claims' = Mark(claims, i, b) /\ subgames' = [subgames EXCEPT ![i] = <<>>]
      /\ rootResolved' = (rootResolved \/ i = 1) /\ early' = (early \/ ResolvedEarly(i))
      /\ UNCHANGED <<status, clock, now, todo, reverted, late, others>>
  BY <1>2 DEF ResolveClaim, Mark
<1>4. /\ Tree(claims') /\ GoesOn(claims, claims') /\ DOMAIN claims' = DOMAIN claims
      /\ Len(claims') = Len(claims) /\ claims'[i].countered = b /\ KeepsAllBut(claims, claims', i)
  <2>1. claims' = Mark(claims, i, b)
    BY <1>3
  <2>2. b \in BOOLEAN
    BY <1>2
  <2>3. SameTree(claims, claims', i, b)
    BY <1>1, <2>1, <2>2, Marked, Zenon
  <2> QED BY <2>3 DEF SameTree
<1>5. \A j \in DOMAIN claims : /\ claims'[j].parent = claims[j].parent /\ claims'[j].pos = claims[j].pos
                               /\ claims'[j].good = claims[j].good
  BY <1>4 DEF GoesOn
<1>6. \A j \in DOMAIN claims : j # i => claims'[j] = claims[j]
  BY <1>4 DEF KeepsAllBut
<1>7. /\ subgames' \in Seq(Seq(Nat)) /\ Len(subgames') = Len(subgames)
      /\ subgames'[i] = <<>> /\ \A j \in DOMAIN claims : j # i => subgames'[j] = subgames[j]
  <2>1. subgames \in Seq(Seq(Nat)) /\ Len(subgames) = Len(claims)
    BY <1>1 DEF SubgamesOK
  <2>2. claims \in Seq(Claims)
    BY <1>1 DEF Tree
  <2>3. DOMAIN subgames = DOMAIN claims
    BY <2>1, <2>2
  <2>4. <<>> \in Seq(Nat)
    OBVIOUS
  <2> QED BY <1>3, <2>1, <2>3, <2>4
<1>8. DOMAIN <<>> = {}
  OBVIOUS
<1>9. Depth(claims[i]) # MaxDepth
  <2>1. i = 1 => Depth(claims[i]) # MaxDepth
    BY <1>1, RootPosition, DisputeAssumption DEF Depth, Tree
  <2> QED BY <1>1, <1>3, <2>1 DEF SubgamesOK
<1>10. TodoOK' /\ RevertedOK'
  BY <1>1, <1>3, <1>4, HistoryKept
<1>11. SubgamesOK'
  <2>1. ASSUME NEW j \in DOMAIN claims', NEW k \in DOMAIN subgames'[j]
        PROVE  /\ subgames'[j][k] \in DOMAIN claims' /\ subgames'[j][k] # 1
               /\ claims'[subgames'[j][k]].parent = j
    <3>1. j # i /\ j \in DOMAIN claims
      BY <1>4, <1>7, <1>8, <2>1
    <3>2. subgames'[j] = subgames[j]
      BY <1>7, <3>1
    <3>3. /\ subgames[j][k] \in DOMAIN claims /\ subgames[j][k] # 1
          /\ claims[subgames[j][k]].parent = j
      BY <1>1, <3>1, <3>2 DEF SubgamesOK
    <3> QED BY <1>4, <1>5, <3>2, <3>3
  <2>2. ASSUME NEW j \in DOMAIN claims', DepthOf(claims'[j].pos) = MaxDepth PROVE subgames'[j] = <<>>
    <3>1. j \in DOMAIN claims /\ DepthOf(claims[j].pos) = MaxDepth
      BY <1>4, <1>5, <2>2
    <3>2. subgames[j] = <<>>
      BY <1>1, <3>1 DEF SubgamesOK, Depth
    <3> QED BY <1>7, <3>1, <3>2
  <2>3. subgames' \in Seq(Seq(Nat)) /\ Len(subgames') = Len(claims')
    BY <1>1, <1>4, <1>7 DEF SubgamesOK
  <2> QED BY <2>1, <2>2, <2>3 DEF SubgamesOK, Depth
<1>12. ClocksOK'
  BY <1>1, <1>3, <1>4 DEF ClocksOK
<1>13. \A j \in DOMAIN claims : MoveInTime(j)' <=> MoveInTime(j)
  BY <1>3, <1>5, TimeStays
<1>14. ~early' => ~early /\ ~ResolvedEarly(i)
  BY <1>3
<1>15. FairlyPlayed' => FairlyPlayed /\ i # 1 /\ ~ResolvedEarly(i)
  BY <1>3, <1>14 DEF FairlyPlayed
<1>17. Standing'
  <2> SUFFICES ASSUME FairlyPlayed', NEW j \in DOMAIN claims', OurLevel(claims', j), OurPath(claims', j),
                      subgames'[j] = <<>>
               PROVE  ~claims'[j].countered
    BY DEF Standing
  <2>0. j \in DOMAIN claims
    BY <1>4
  <2>1. j \in DOMAIN claims /\ OurLevel(claims, j) /\ OurPath(claims, j)
    BY <1>1, <1>4, <2>0, LevelsStay
  <2>2. CASE j = i
    <3>1. Unanswered(i) = {}
      BY <1>15, <2>1, <2>2, ResolvedRight
    <3> QED BY <1>2, <1>4, <2>2, <3>1
  <2>3. CASE j # i
    BY <1>1, <1>6, <1>7, <1>15, <2>1, <2>3 DEF Standing
  <2> QED BY <2>2, <2>3
<1>18. Disputed'
  <2> SUFFICES ASSUME FairlyPlayed', NEW j \in DOMAIN claims', ~OurLevel(claims', j), OurPath(claims', j)
               PROVE  /\ ~MoveInTime(j)' => HasAnswer(j)'
                      /\ DepthOf(claims'[j].pos) # MaxDepth => Listed(j)' \/ ResolvedLost(j)'
    BY DEF Disputed, Depth
  <2>0. j \in DOMAIN claims
    BY <1>4
  <2>1. j \in DOMAIN claims /\ ~OurLevel(claims, j) /\ OurPath(claims, j)
    BY <1>1, <1>4, <2>0, LevelsStay
  <2>2. /\ ~MoveInTime(j) => HasAnswer(j)
        /\ DepthOf(claims[j].pos) # MaxDepth => Listed(j) \/ ResolvedLost(j)
    BY <1>1, <1>15, <2>1 DEF Disputed, Depth
  <2>3. HasAnswer(j) => HasAnswer(j)'
    <3>1. Depth(claims'[j]) = Depth(claims[j]) /\ NextPosition(claims'[j]) = NextPosition(claims[j])
      BY <1>5, <2>1 DEF Depth, NextPosition
    <3>2. Depth(claims[j]) = MaxDepth => claims'[j] = claims[j]
      BY <1>6, <1>9, <2>1
    <3> QED BY <1>4, <1>5, <3>1, <3>2 DEF HasAnswer
  <2>4. CASE j = i
    <3>1. Unanswered(i) # {} /\ ~MoveInTime(i)
      BY <1>15, <2>1, <2>4, ResolvedRight
    <3>2. ResolvedLost(j)'
      BY <1>2, <1>4, <1>7, <1>13, <1>15, <2>1, <2>4, <3>1 DEF ResolvedLost
    <3> QED BY <1>13, <2>1, <2>2, <2>3, <3>2
  <2>5. CASE j # i
    <3>1. subgames'[j] = subgames[j] /\ claims'[j] = claims[j]
      BY <1>6, <1>7, <2>1, <2>5
    <3>2. Listed(j) => Listed(j)'
      BY <1>4, <1>5, <3>1 DEF Listed
    <3>3. ResolvedLost(j) => ResolvedLost(j)'
      BY <1>13, <2>1, <3>1 DEF ResolvedLost
    <3> QED BY <1>13, <2>1, <2>2, <2>3, <3>1, <3>2, <3>3
  <2> QED BY <2>4, <2>5
<1>19. RootDone'
  <2>1. 1 \in DOMAIN claims
    BY <1>1, TreeTypes
  <2>2. CASE i # 1
    <3>1. claims'[1] = claims[1] /\ subgames'[1] = subgames[1] /\ (rootResolved' <=> rootResolved)
      BY <1>1, <1>3, <1>6, <1>7, <2>1, <2>2
    <3> QED BY <1>1, <1>3, <1>13, <1>14, <2>1, <3>1 DEF RootDone
  <2>3. CASE i = 1
    <3>1. ~MoveInTime(1)
      <4>1. /\ clock[1].duration = 0 /\ clock[1].timestamp = 0 /\ now \in Nat /\ claims[1].parent = 0
        BY <1>1 DEF ClocksOK, Tree
      <4>2. NextDuration(1) = now /\ now > HalfDuration
        BY <1>3, <2>3, <4>1 DEF NextDuration, ClockExpired
      <4> QED BY <4>1, <4>2, DurationAssumption DEF MoveInTime
    <3>2. OurPath(claims, 1) /\ (OurLevel(claims, 1) <=> claims[1].good)
      <4>1. PathOf(claims)[1] = {1}
        BY <1>1, <2>1, PathStep
      <4>2. OurLevel(claims, 1) <=> claims[1].good
        BY <1>1, <2>1, LevelsAlternate
      <4> QED BY <4>1, <4>2 DEF OurPath, OurMove
    <3>3. ~early' /\ ~late' => (b <=> ~claims[1].good)
      <4> SUFFICES ASSUME ~early', ~late' PROVE b <=> ~claims[1].good
        OBVIOUS
      <4>1. FairlyPlayed /\ ~ResolvedEarly(i)
        BY <1>3, <1>14, <2>3 DEF FairlyPlayed
      <4>2. Unanswered(i) # {} <=> ~OurLevel(claims, i)
        BY <2>3, <3>2, <4>1, ResolvedRight
      <4> QED BY <1>2, <2>3, <3>2, <4>2
    <3> QED BY <1>4, <1>5, <1>7, <1>13, <2>1, <2>3, <3>1, <3>3 DEF RootDone
  <2> QED BY <2>2, <2>3
<1>20. StatusOK'
  <2>1. 1 \in DOMAIN claims
    BY <1>1, TreeTypes
  <2> QED BY <1>1, <1>3, <1>5, <1>14, <2>1 DEF StatusOK, HonestWins
<1> QED BY <1>4, <1>10, <1>11, <1>12, <1>17, <1>18, <1>19, <1>20 DEF GameInv

LEMMA ResolveKeeps ==
  ASSUME GameInv, Resolve
  PROVE  GameInv'
<1>1. /\ Tree(claims) /\ SubgamesOK /\ ClocksOK /\ TodoOK /\ RevertedOK /\ Standing
      /\ Disputed /\ RootDone /\ StatusOK
  BY DEF GameInv
<1>2. /\ status = "IN_PROGRESS" /\ rootResolved
      /\ status' = IF claims[1].countered THEN "CHALLENGER_WINS" ELSE "DEFENDER_WINS"
      /\ UNCHANGED <<claims, subgames, rootResolved, clock, now, todo, reverted, early, late, others>>
  BY DEF Resolve
<1>3. ~early /\ ~late => (claims[1].countered <=> ~claims[1].good)
  BY <1>1, <1>2 DEF RootDone
<1>4. StatusOK'
  BY <1>2, <1>3 DEF StatusOK, HonestWins
<1>5. Tree(claims)' /\ SubgamesOK' /\ ClocksOK' /\ TodoOK' /\ RevertedOK'
  BY <1>1, <1>2 DEF SubgamesOK, ClocksOK, TodoOK, RevertedOK, AtBottom
<1>6. Standing' /\ Disputed' /\ RootDone'
  BY <1>1, <1>2 DEF Standing, Disputed, FairlyPlayed, RootDone, MoveInTime, NextDuration
<1> QED BY <1>4, <1>5, <1>6 DEF GameInv

LEMMA GameInvNext == GameInv /\ [Next]_vars => GameInv'
<1> SUFFICES ASSUME GameInv, [Next]_vars PROVE GameInv'
  OBVIOUS
<1>1. Tree(claims) /\ TodoOK /\ RevertedOK
  BY DEF GameInv
<1>2. CASE Act
  <2>1. todo' = NextActions /\ UNCHANGED <<claims, subgames, rootResolved, status, clock, now, reverted, early, late>>
    BY <1>2 DEF Act
  <2>2. TodoOK'
    BY <1>1, <2>1, DecisionsOK DEF TodoOK, AtBottom
  <2>3. RevertedOK'
    BY <1>1, <2>1 DEF RevertedOK, AtBottom
  <2> QED BY <2>1, <2>2, <2>3, QuietKeeps
<1>3. CASE PerformMove
  <2>1. PICK a \in todo :
          LET good == Move(claims[a.idx].pos, a.isAttack) = a.at IN
          /\ todo' = todo \ {a}
          /\ \/ DoMove(a.idx, a.isAttack, good)
             \/ MoveReverts(a.idx, a.isAttack, good) /\ UNCHANGED <<claims, subgames, clock>>
          /\ UNCHANGED <<rootResolved, status, now, reverted, early, late, others>>
    BY <1>3 DEF PerformMove
  <2>2. PICK good \in BOOLEAN : good = (Move(claims[a.idx].pos, a.isAttack) = a.at)
    OBVIOUS
  <2>3. a.idx \in DOMAIN claims /\ a.isAttack \in BOOLEAN /\ todo' \subseteq todo
    BY <1>1, <2>1 DEF TodoOK
  <2>4. CASE DoMove(a.idx, a.isAttack, good)
    BY <2>1, <2>3, <2>4, MoveKeeps
  <2>5. CASE UNCHANGED <<claims, subgames, clock>>
    <3>1. TodoOK' /\ RevertedOK'
      BY <1>1, <2>1, <2>3, <2>5 DEF TodoOK, RevertedOK, AtBottom
    <3> QED BY <2>1, <2>5, <3>1, QuietKeeps
  <2> QED BY <2>1, <2>2, <2>4, <2>5
<1>4. CASE PerformStep
  <2>1. PICK a \in todo :
          /\ a.type = "step" /\ todo' = todo \ {a}
          /\ reverted' = reverted \cup (IF StepRefused(a) THEN {a.idx} ELSE {})
          /\ IF StepRefused(a) THEN UNCHANGED <<claims, subgames, clock>>
             ELSE \E valid \in StepResults(a.idx, a.isAttack) : DoStep(a.idx, a.isAttack, valid)
          /\ UNCHANGED <<rootResolved, status, now, early, late, others>>
    BY <1>4 DEF PerformStep
  <2>2. /\ a.idx \in DOMAIN claims /\ a.isAttack \in BOOLEAN /\ AtBottom(a.idx)
        /\ a.isAttack = ~claims[a.idx].good
    BY <1>1, <2>1 DEF TodoOK
  <2>3. CASE StepRefused(a)
    <3>1. ~OurPath(claims, a.idx)
      BY <1>1, <2>2, <2>3, OurStepCounts DEF AtBottom
    <3>2. TodoOK'
      BY <1>1, <2>1, <2>3 DEF TodoOK, AtBottom
    <3>3. reverted' = reverted \cup {a.idx} /\ UNCHANGED <<claims, subgames, clock>>
      BY <2>1, <2>3
    <3>4. RevertedOK'
      BY <1>1, <2>2, <3>1, <3>3 DEF RevertedOK, AtBottom
    <3> QED BY <2>1, <3>2, <3>3, <3>4, QuietKeeps
  <2>4. CASE ~StepRefused(a)
    <3>1. PICK valid \in StepResults(a.idx, a.isAttack) : DoStep(a.idx, a.isAttack, valid)
      BY <2>1, <2>4
    <3>2. reverted' = reverted /\ todo' \subseteq todo
      BY <2>1, <2>4
    <3> QED BY <2>1, <2>2, <3>1, <3>2, StepKeeps
  <2> QED BY <2>3, <2>4
<1>5. CASE PerformFails
  <2>1. todo' \subseteq todo /\ UNCHANGED <<claims, subgames, rootResolved, status, clock, now, reverted, early, late>>
    BY <1>5 DEF PerformFails
  <2>2. TodoOK' /\ RevertedOK'
    BY <1>1, <2>1 DEF TodoOK, RevertedOK, AtBottom
  <2> QED BY <2>1, <2>2, QuietKeeps
<1>6. CASE OthersMove
  <2>1. PICK i \in DOMAIN claims, isAttack \in BOOLEAN, good \in BOOLEAN : DoMove(i, isAttack, good)
    BY <1>6 DEF OthersMove
  <2>2. UNCHANGED <<rootResolved, status, now, todo, reverted, early, late>>
    BY <1>6 DEF OthersMove
  <2> QED BY <2>1, <2>2, MoveKeeps
<1>7. CASE OthersStep
  <2>1. PICK i \in DOMAIN claims, isAttack \in BOOLEAN :
          \E valid \in StepResults(i, isAttack) : DoStep(i, isAttack, valid)
    BY <1>7 DEF OthersStep
  <2>2. UNCHANGED <<rootResolved, status, now, todo, reverted, early, late>>
    BY <1>7 DEF OthersStep
  <2> QED BY <2>1, <2>2, StepKeeps
<1>8. CASE Tick
  BY <1>8, TickKeeps
<1>9. ASSUME NEW i \in DOMAIN claims, ResolveClaim(i) PROVE GameInv'
  BY <1>9, ResolveClaimKeeps
<1>10. CASE Resolve
  BY <1>10, ResolveKeeps
<1>11. CASE UNCHANGED vars
  <2>1. TodoOK' /\ RevertedOK'
    BY <1>1, <1>11 DEF TodoOK, RevertedOK, AtBottom, vars
  <2> QED BY <1>11, <2>1, QuietKeeps DEF vars
<1> QED
  BY <1>2, <1>3, <1>4, <1>5, <1>6, <1>7, <1>8, <1>9, <1>10, <1>11 DEF Next

(* The inductive invariant of the game. *)
THEOREM GameInvariant == Spec => []GameInv
  BY GameInvInit, GameInvNext, PTL DEF Spec

-----------------------------------------------------------------------------
(* What follows from it. *)

LEMMA GameTypes == GameInv => TypeOK
<1> SUFFICES ASSUME GameInv PROVE TypeOK
  OBVIOUS
<1>1. Tree(claims) /\ SubgamesOK /\ ClocksOK /\ StatusOK
  BY DEF GameInv
<1>2. ASSUME NEW i \in DOMAIN claims
      PROVE  claims[i].parent \in 0..i - 1 /\ claims[i].pos \in 1..2 ^ (MaxDepth + 1) - 1
  <2> DEFINE p == claims[i].pos
             d == DepthOf(p)
  <2>1. /\ Position(p) /\ i \in Nat /\ (i = 1 => claims[i].parent = 0)
        /\ i # 1 => Placed(claims, i) /\ i \in 2..Len(claims) /\ Len(claims) \in Nat
    BY <1>1, TreeTypes
  <2>2. claims[i].parent \in 0..i - 1
    BY <2>1 DEF Placed
  <2>3. p \in Nat /\ d \in 0..MaxDepth /\ Pow(d) <= p /\ p < Pow(d + 1)
    BY <2>1 DEF Position
  <2>4. Pow(d) \in Nat \ {0} /\ Pow(d + 1) \in Nat /\ Pow(MaxDepth + 1) \in Nat
    <3>1. d \in 0..MaxDepth + 2 /\ d + 1 \in 0..MaxDepth + 2 /\ MaxDepth + 1 \in 0..MaxDepth + 2
      BY <2>3, DisputeAssumption
    <3> QED BY <3>1, PowFacts
  <2>5. Pow(d + 1) <= Pow(MaxDepth + 1)
    <3>1. d + 1 \in 0..MaxDepth + 2 /\ MaxDepth + 1 \in 0..MaxDepth + 2 /\ d + 1 <= MaxDepth + 1
      BY <2>3, DisputeAssumption
    <3> QED BY <3>1, PowGrows
  <2>6. p \in 1..Pow(MaxDepth + 1) - 1
    <3> HIDE DEF p, d
    <3> QED BY <2>3, <2>4, <2>5
  <2> QED BY <2>2, <2>6 DEF Pow
<1>3. claims \in Seq(Claims) /\ Len(claims) = Len(subgames) /\ Len(claims) = Len(clock)
  BY <1>1 DEF Tree, SubgamesOK, ClocksOK
<1>4. ASSUME NEW i \in DOMAIN claims
      PROVE  clock[i].duration \in 0..HalfDuration /\ clock[i].timestamp \in 0..now
  <2>1. clock[i].duration \in 0..HalfDuration /\ clock[i].timestamp \in Nat
        /\ clock[i].timestamp <= now /\ now \in Nat
    BY <1>1, ClockFacts
  <2> QED BY <2>1
<1> QED BY <1>1, <1>2, <1>3, <1>4 DEF TypeOK, SubgamesOK, StatusOK

(* The contract's claims form a tree of positions of the game at all times. *)
THEOREM TypeCorrect == Spec => []TypeOK
  BY GameInvariant, GameTypes, PTL

(* A game that one honest challenger answers in time ends as it should, whatever the others    *)
(* post and whenever anyone resolves a claim, unless a resolution takes an answer from the     *)
(* challenger that it still had time for; for every depth and duration of the game and any     *)
(* number of moves (FaultDisputeGame.move, resolveClaim, resolve, Agent.Act).                  *)
THEOREM GameIsWon == Spec => []HonestWins
<1>1. GameInv => HonestWins
  BY DEF GameInv, StatusOK
<1> QED BY <1>1, GameInvariant, PTL

LEMMA RefusedNotOurs == GameInv => OurStepsCount
<1> SUFFICES ASSUME GameInv, NEW i \in reverted, Ours(claims[i].parent) PROVE FALSE
  BY DEF OurStepsCount
<1>1. Tree(claims) /\ AtBottom(i) /\ ~OurPath(claims, i)
  BY DEF GameInv, RevertedOK
<1>2. i \in DOMAIN claims /\ Depth(claims[i]) = MaxDepth /\ ~OurLevel(claims, i)
  BY <1>1 DEF AtBottom
<1> DEFINE q == claims[i].parent
<1>3. i # 1 /\ q \in DOMAIN claims
  <2>1. i \in 2..Len(claims)
    BY <1>1, <1>2, StepStates
  <2>2. i # 1
    BY <1>1, <2>1 DEF Tree
  <2> QED BY <1>1, <1>2, <2>2, TreeTypes
<1>4. OurLevel(claims, q)
  BY <1>1, <1>2, <1>3, LevelsAlternate
<1>5. ASSUME NEW j \in PathOf(claims)[q], OurLevel(claims, j) PROVE OurMove(claims, j)
  <2>1. j \in DOMAIN claims
    BY <1>1, <1>3, PathGoesUp
  <2>2. (Depth(claims[q]) - Depth(claims[j])) % 2 = 0
    BY <1>1, <1>3, <1>4, <1>5, <2>1, EvenlyApart DEF Depth
  <2> QED BY <1>5, <2>2, PathToIsPathOf DEF Ours, OurMove
<1>6. OurPath(claims, q)
  BY <1>5 DEF OurPath
<1> QED BY <1>1, <1>2, <1>3, <1>6, OurPathUp

(* The contract never refuses a step that supports a move of the challenger's own (NextMove,   *)
(* AttemptStep; FaultDisputeGame.step).                                                        *)
THEOREM OurStepsAccepted == Spec => []OurStepsCount
  BY GameInvariant, RefusedNotOurs, PTL

LEMMA AncestorsFound == GameInv => AncestorExists
<1> SUFFICES ASSUME GameInv, NEW i \in DOMAIN claims, Depth(claims[i]) = MaxDepth
             PROVE  /\ PostStates(i, FALSE) # {}
                    /\ IndexAtDepth(Move(claims[i].pos, TRUE)) # 0 => PreStates(i, TRUE) # {}
  BY DEF AncestorExists
<1>1. Tree(claims)
  BY DEF GameInv
<1> DEFINE path == PathOf(claims)[claims[i].parent]
           m == Half(claims[i].pos)
<1>2. /\ i \in 2..Len(claims)
      /\ PostStates(i, FALSE) = {j \in path : claims[j].pos = TraceAncestor(m)}
      /\ IndexAtDepth(Move(claims[i].pos, TRUE)) = 0 <=> Leftmost(claims[i].pos)
      /\ ~Leftmost(claims[i].pos) =>
           PreStates(i, TRUE) = {j \in path : claims[j].pos = TraceAncestor(m - 1)}
  BY <1>1, StepStates
<1>3. HasAncestors(claims, i)
  BY <1>1, <1>2, TreeHasAncestors
<1>4. /\ \E j \in path : claims[j].pos = TraceAncestor(m)
      /\ ~Leftmost(claims[i].pos) => \E j \in path : claims[j].pos = TraceAncestor(m - 1)
  BY <1>3 DEF HasAncestors
<1> QED BY <1>2, <1>4

(* For every step at the bottom of the game findTraceAncestor finds a claim on the way up.     *)
THEOREM AncestorsAlwaysFound == Spec => []AncestorExists
  BY GameInvariant, AncestorsFound, PTL

-----------------------------------------------------------------------------
(* The inductive invariant of the scheduler. *)

Statuses == {InProgress, Resolved}
WorkerStates ==
  [at : {"idle", "done"}] \cup [at : {"playing"}, game : Games]
    \cup [at : {"played"}, game : Games, status : Statuses]

SchedulerTypes ==
  /\ resolved \in SUBSET Games /\ listed \in SUBSET Games
  /\ toEnqueue \in SUBSET Games /\ disk \in SUBSET Games
  /\ DOMAIN states \in SUBSET Games
  /\ states \in [DOMAIN states -> [player : BOOLEAN, inflight : BOOLEAN, status : Statuses]]
  /\ jobQueue \in Seq(Games) /\ Len(jobQueue) <= QueueSize
  /\ resultQueue \in Seq(Results) /\ Len(resultQueue) <= QueueSize
  /\ worker \in [Workers -> WorkerStates]
  /\ scheduleQueue \in Seq(SUBSET Games) /\ Len(scheduleQueue) <= 1
  /\ lists \in 0..MaxLists /\ loop \in BOOLEAN /\ closed \in BOOLEAN

(* The games with a job waiting for a worker, being played, and played. *)
Waiting == {jobQueue[i] : i \in 1..Len(jobQueue)}
Played == {worker[w].game : w \in {w \in Workers : Busy(w)}}
Reported == {resultQueue[i].game : i \in 1..Len(resultQueue)}

(* No place holds a game twice. *)
OncePerPlace ==
  /\ \A i, j \in 1..Len(jobQueue) : jobQueue[i] = jobQueue[j] => i = j
  /\ \A v, w \in Workers : Busy(v) /\ Busy(w) /\ worker[v].game = worker[w].game => v = w
  /\ \A i, j \in 1..Len(resultQueue) : resultQueue[i].game = resultQueue[j].game => i = j

(* No game is in two places. *)
OnePlace ==
  /\ toEnqueue \cap Waiting = {} /\ toEnqueue \cap Played = {} /\ toEnqueue \cap Reported = {}
  /\ Waiting \cap Played = {} /\ Waiting \cap Reported = {} /\ Played \cap Reported = {}

(* A game with a job is in flight as far as the coordinator knows. *)
Expected ==
  loop => \A g \in toEnqueue \cup Waiting \cup Played \cup Reported :
            g \in DOMAIN states /\ states[g].inflight

(* Nobody takes a game for resolved that is not, and the coordinator knows the listed games. *)
StatusTrue ==
  /\ \A g \in DOMAIN states : states[g].status = Resolved => g \in resolved
  /\ \A w \in Workers : worker[w].at = "played" /\ worker[w].status = Resolved
                          => worker[w].game \in resolved
  /\ \A i \in 1..Len(resultQueue) : resultQueue[i].status = Resolved
                                      => resultQueue[i].game \in resolved
  /\ listed \subseteq DOMAIN states

SchedulerInv == SchedulerTypes /\ OncePerPlace /\ OnePlace /\ Expected /\ StatusTrue

-----------------------------------------------------------------------------
(* The parts of the invariant that a step leaves alone. *)

(* A step that moves no job and does not touch the coordinator's states. *)
LEMMA PlacesUnchanged ==
  ASSUME UNCHANGED <<toEnqueue, jobQueue, worker, resultQueue>>
  PROVE  /\ Waiting' = Waiting /\ Played' = Played /\ Reported' = Reported
         /\ OncePerPlace => OncePerPlace'
         /\ OnePlace => OnePlace'
<1>1. Waiting' = Waiting /\ Played' = Played /\ Reported' = Reported
  BY DEF Waiting, Played, Reported, Busy
<1>2. OncePerPlace => OncePerPlace'
  BY DEF OncePerPlace, Busy
<1> QED BY <1>1, <1>2 DEF OnePlace

-----------------------------------------------------------------------------
(* The invariant is inductive: one lemma for each group of actions. *)

LEMMA SchedulerInvInit ==
  ASSUME SchedulerInit
  PROVE  SchedulerInv
<1> USE DEF SchedulerInit
<1>1. SchedulerTypes
  <2>1. {g \in Games : \A h \in Games : g <= h} \in SUBSET Games
    OBVIOUS
  <2>2. worker \in [Workers -> WorkerStates]
    BY DEF WorkerStates
  <2>3. /\ jobQueue \in Seq(Games) /\ resultQueue \in Seq(Results) /\ scheduleQueue \in Seq(SUBSET Games)
        /\ Len(jobQueue) = 0 /\ Len(resultQueue) = 0 /\ Len(scheduleQueue) = 0
    OBVIOUS
  <2>4. DOMAIN states = {}
    OBVIOUS
  <2>5. states \in [DOMAIN states -> [player : BOOLEAN, inflight : BOOLEAN, status : Statuses]]
    BY <2>4
  <2>6. /\ resolved \in SUBSET Games /\ listed \in SUBSET Games /\ toEnqueue \in SUBSET Games
        /\ disk \in SUBSET Games /\ DOMAIN states \in SUBSET Games
    BY <2>1, <2>4
  <2>7. lists = 0 /\ loop \in BOOLEAN /\ closed \in BOOLEAN
    OBVIOUS
  <2>8. 0 <= QueueSize /\ 0 \in 0..MaxLists
    <3> HIDE DEF SchedulerInit
    <3> QED BY SchedulerAssumption
  <2> HIDE DEF SchedulerInit
  <2> QED BY <2>2, <2>3, <2>5, <2>6, <2>7, <2>8 DEF SchedulerTypes
<1>2. OncePerPlace /\ OnePlace /\ Waiting = {} /\ Played = {} /\ Reported = {}
  BY DEF OncePerPlace, OnePlace, Waiting, Played, Reported, Busy
<1>3. Expected
  BY <1>2 DEF Expected
<1>4. StatusTrue
  BY DEF StatusTrue
<1> QED BY <1>1, <1>2, <1>3, <1>4 DEF SchedulerInv

(* The monitor, Close and the end of the loop move no job. *)
LEMMA ProgressGamesInv ==
  ASSUME SchedulerInv, NEW games \in Lists, ProgressGames(games)
  PROVE  SchedulerInv'
<1> USE DEF SchedulerInv, ProgressGames
<1>1. games \in SUBSET Games
  BY SchedulerAssumption
<1>2. scheduleQueue' \in Seq(SUBSET Games) /\ Len(scheduleQueue') <= 1
  <2>1. CASE scheduleQueue = << >>
    <3>1. scheduleQueue' = <<games>>
      BY <2>1
    <3> HIDE DEF SchedulerInv, ProgressGames
    <3>2. <<games>> \in Seq(SUBSET Games) /\ Len(<<games>>) = 1
      BY <1>1
    <3> QED BY <3>1, <3>2
  <2>2. CASE scheduleQueue # << >>
    <3>1. scheduleQueue' = scheduleQueue
      BY <2>2
    <3> QED BY <3>1 DEF SchedulerTypes
  <2> QED BY <2>1, <2>2
<1>3. SchedulerTypes'
  BY <1>2, SchedulerAssumption DEF SchedulerTypes
<1>4. Expected' /\ StatusTrue'
  BY PlacesUnchanged DEF Expected, StatusTrue
<1> QED BY <1>3, <1>4, PlacesUnchanged

LEMMA CloseInv ==
  ASSUME SchedulerInv, Close
  PROVE  SchedulerInv'
<1> USE DEF SchedulerInv, Close
<1>1. SchedulerTypes'
  BY DEF SchedulerTypes
<1>2. Expected' /\ StatusTrue'
  BY PlacesUnchanged DEF Expected, StatusTrue
<1> QED BY <1>1, <1>2, PlacesUnchanged

LEMMA LoopDoneInv ==
  ASSUME SchedulerInv, LoopDone
  PROVE  SchedulerInv'
<1> USE DEF SchedulerInv, LoopDone
<1>1. SchedulerTypes'
  BY DEF SchedulerTypes
<1>2. Waiting' = Waiting /\ Played' = Played /\ Reported' = Reported
  BY DEF Waiting, Played, Reported, Busy
<1>3. OncePerPlace' /\ OnePlace'
  BY <1>2 DEF OncePerPlace, OnePlace, Busy
<1>4. Expected' /\ StatusTrue'
  BY DEF Expected, StatusTrue
<1> QED BY <1>1, <1>3, <1>4

(* createJob gives a state, keeps one in flight as it is, and reports no wrong status. *)
LEMMA CreateJobState ==
  ASSUME SchedulerTypes, StatusTrue, NEW g \in Games, NEW old, NEW failed,
         g \in DOMAIN old => g \in DOMAIN states /\ old[g] = states[g]
  PROVE  /\ CreateJob(g, old, failed) \in [player : BOOLEAN, inflight : BOOLEAN, status : Statuses]
         /\ CreateJob(g, old, failed).status = Resolved => g \in resolved
         /\ g \in DOMAIN old /\ old[g].inflight => CreateJob(g, old, failed) = old[g]
<1> DEFINE state == IF g \in DOMAIN old THEN old[g] ELSE NewState
<1>1. state \in [player : BOOLEAN, inflight : BOOLEAN, status : Statuses]
  BY DEF SchedulerTypes, NewState, Statuses, InProgress, Resolved
<1>2. state.status = Resolved => g \in resolved
  BY DEF StatusTrue, NewState, InProgress, Resolved
<1>3. CreateJob(g, old, failed) =
        IF state.inflight \/ (~state.player /\ g \in failed) THEN state
        ELSE [player |-> TRUE, inflight |-> TRUE,
              status |-> IF state.player THEN state.status ELSE Status(g)]
  BY DEF CreateJob
<1>4. Status(g) \in Statuses /\ (Status(g) = Resolved => g \in resolved)
  BY DEF Status, Statuses, InProgress, Resolved
<1>5. g \in DOMAIN old => state = old[g]
  OBVIOUS
<1> HIDE DEF state
<1> QED BY <1>1, <1>2, <1>3, <1>4, <1>5

(* schedule: a new job is made only for a game that is not in flight. *)
LEMMA ScheduleInv ==
  ASSUME SchedulerInv, NEW failed, Schedule(failed)
  PROVE  SchedulerInv'
<1> DEFINE games == scheduleQueue[1]
           old == [g \in Kept(games) |-> states[g]]
           new == [g \in Recorded(games, failed) |->
                     IF g \in games THEN CreateJob(g, old, failed) ELSE old[g]]
<1>1. /\ loop /\ toEnqueue = {} /\ scheduleQueue # << >>
      /\ states' = new
      /\ toEnqueue' = {g \in games \cap DOMAIN new :
                         /\ new[g].inflight /\ new[g].status = InProgress
                         /\ ~(g \in DOMAIN old /\ old[g].inflight)}
      /\ listed' = games
      /\ scheduleQueue' = << >>
      /\ UNCHANGED <<resolved, jobQueue, resultQueue, worker, disk, lists, loop, closed>>
  BY DEF Schedule
<1>2. games \in SUBSET Games
  BY <1>1 DEF SchedulerInv, SchedulerTypes
<1>3. /\ DOMAIN old = Kept(games) /\ Kept(games) \subseteq DOMAIN states
      /\ \A g \in Kept(games) : old[g] = states[g]
      /\ \A g \in DOMAIN states : states[g].inflight => g \in Kept(games)
      /\ \A g \in Kept(games) : g \in games \/ states[g].inflight
  BY DEF Kept
<1> HIDE DEF games
<1>4. DOMAIN new = Kept(games) \cup games /\ DOMAIN new \in SUBSET Games
  BY <1>2, <1>3 DEF Recorded, SchedulerInv, SchedulerTypes
<1>5. \A g \in games : /\ CreateJob(g, old, failed) \in [player : BOOLEAN, inflight : BOOLEAN, status : Statuses]
                       /\ CreateJob(g, old, failed).status = Resolved => g \in resolved
                       /\ g \in DOMAIN old /\ old[g].inflight => CreateJob(g, old, failed) = old[g]
  BY <1>2, <1>3, CreateJobState DEF SchedulerInv
<1>6. \A g \in DOMAIN new :
        /\ new[g] \in [player : BOOLEAN, inflight : BOOLEAN, status : Statuses]
        /\ new[g].status = Resolved => g \in resolved
        /\ g \in DOMAIN states /\ states[g].inflight => new[g] = states[g]
  <2> SUFFICES ASSUME NEW g \in DOMAIN new
               PROVE  /\ new[g] \in [player : BOOLEAN, inflight : BOOLEAN, status : Statuses]
                      /\ new[g].status = Resolved => g \in resolved
                      /\ g \in DOMAIN states /\ states[g].inflight => new[g] = states[g]
    OBVIOUS
  <2>1. CASE g \in games
    <3>1. new[g] = CreateJob(g, old, failed)
      BY <2>1
    <3> HIDE DEF new, old
    <3> QED BY <2>1, <3>1, <1>5, <1>3
  <2>2. CASE g \notin games
    <3>1. g \in Kept(games) /\ new[g] = states[g]
      BY <2>2, <1>4, <1>3
    <3>2. states[g] \in [player : BOOLEAN, inflight : BOOLEAN, status : Statuses]
      BY <3>1, <1>3 DEF SchedulerInv, SchedulerTypes
    <3> HIDE DEF new, old
    <3> QED BY <3>1, <3>2, <1>3 DEF SchedulerInv, StatusTrue
  <2> QED BY <2>1, <2>2
<1>7. new \in [DOMAIN new -> [player : BOOLEAN, inflight : BOOLEAN, status : Statuses]]
  BY <1>6
<1> HIDE DEF new, old
<1>8. SchedulerTypes'
  <2>1. toEnqueue' \in SUBSET Games /\ listed' \in SUBSET Games
    BY <1>1, <1>2
  <2>2. scheduleQueue' \in Seq(SUBSET Games) /\ Len(scheduleQueue') <= 1
    BY <1>1
  <2>3. DOMAIN states' \in SUBSET Games
        /\ states' \in [DOMAIN states' -> [player : BOOLEAN, inflight : BOOLEAN, status : Statuses]]
    BY <1>1, <1>4, <1>7
  <2> QED BY <1>1, <2>1, <2>2, <2>3 DEF SchedulerTypes, SchedulerInv, WorkerStates, Results
<1>9. Waiting' = Waiting /\ Played' = Played /\ Reported' = Reported
  BY <1>1 DEF Waiting, Played, Reported, Busy
<1>10. \A g \in Waiting \cup Played \cup Reported : g \in DOMAIN states /\ states[g].inflight
  BY <1>1 DEF SchedulerInv, Expected
<1>11. \A g \in toEnqueue' : ~(g \in DOMAIN states /\ states[g].inflight)
  BY <1>1, <1>3
<1>12. OncePerPlace'
  BY <1>1 DEF SchedulerInv, OncePerPlace, Busy
<1>13. OnePlace'
  BY <1>9, <1>10, <1>11 DEF SchedulerInv, OnePlace
<1>14. Expected'
  <2>1. \A g \in toEnqueue' : g \in DOMAIN states' /\ states'[g].inflight
    BY <1>1
  <2>2. \A g \in Waiting \cup Played \cup Reported : g \in DOMAIN states' /\ states'[g].inflight
    BY <1>1, <1>3, <1>4, <1>6, <1>10
  <2> QED BY <2>1, <2>2, <1>9 DEF Expected
<1>15. StatusTrue'
  <2>1. \A g \in DOMAIN states' : states'[g].status = Resolved => g \in resolved'
    BY <1>1, <1>6
  <2>2. listed' \subseteq DOMAIN states'
    BY <1>1, <1>4
  <2> QED BY <2>1, <2>2, <1>1 DEF SchedulerInv, StatusTrue
<1> QED BY <1>8, <1>12, <1>13, <1>14, <1>15 DEF SchedulerInv

(* A job goes from the coordinator to the job queue, ... *)
LEMMA EnqueueJobInv ==
  ASSUME SchedulerInv, NEW g \in Games, EnqueueJob(g)
  PROVE  SchedulerInv'
<1>1. /\ loop /\ g \in toEnqueue /\ Len(jobQueue) < QueueSize
      /\ jobQueue' = Append(jobQueue, g) /\ toEnqueue' = toEnqueue \ {g}
      /\ UNCHANGED <<resolved, scheduleQueue, listed, states, resultQueue, worker, disk, lists, loop, closed>>
  BY DEF EnqueueJob
<1>2. /\ jobQueue' \in Seq(Games) /\ Len(jobQueue') = Len(jobQueue) + 1 /\ Len(jobQueue) \in Nat
      /\ \A i \in 1..Len(jobQueue) : jobQueue'[i] = jobQueue[i]
      /\ jobQueue'[Len(jobQueue) + 1] = g
  BY <1>1, AppendFacts DEF SchedulerInv, SchedulerTypes
<1>3. Waiting' = Waiting \cup {g} /\ Played' = Played /\ Reported' = Reported
  BY <1>1, <1>2 DEF Waiting, Played, Reported, Busy
<1>4. SchedulerTypes'
  BY <1>1, <1>2, SchedulerAssumption DEF SchedulerInv, SchedulerTypes, WorkerStates, Results
<1>5. OncePerPlace'
  <2>1. g \notin Waiting
    BY <1>1 DEF SchedulerInv, OnePlace
  <2>2. \A i, j \in 1..Len(jobQueue') : jobQueue'[i] = jobQueue'[j] => i = j
    BY <1>2, <2>1 DEF SchedulerInv, OncePerPlace, Waiting
  <2> QED BY <1>1, <2>2 DEF SchedulerInv, OncePerPlace, Busy
<1>6. OnePlace'
  BY <1>1, <1>3 DEF SchedulerInv, OnePlace
<1>7. Expected' /\ StatusTrue'
  BY <1>1, <1>3 DEF SchedulerInv, Expected, StatusTrue
<1> QED BY <1>4, <1>5, <1>6, <1>7 DEF SchedulerInv

(* ... to a worker, ... *)
LEMMA TakeJobInv ==
  ASSUME SchedulerInv, NEW w \in Workers, TakeJob(w)
  PROVE  SchedulerInv'
<1> DEFINE g == Head(jobQueue)
<1>1. /\ worker[w].at = "idle" /\ jobQueue # << >>
      /\ worker' = [worker EXCEPT ![w] = [at |-> "playing", game |-> g]]
      /\ jobQueue' = Tail(jobQueue)
      /\ UNCHANGED <<resolved, scheduleQueue, listed, states, toEnqueue, resultQueue, disk, lists, loop, closed>>
  BY DEF TakeJob
<1>2. /\ jobQueue' \in Seq(Games) /\ Len(jobQueue') = Len(jobQueue) - 1 /\ Len(jobQueue) \in Nat \ {0}
      /\ \A i \in 1..Len(jobQueue) - 1 : jobQueue'[i] = jobQueue[i + 1]
      /\ g = jobQueue[1] /\ g \in Games
  BY <1>1, TailFacts DEF SchedulerInv, SchedulerTypes
<1> HIDE DEF g
<1>3. /\ worker' \in [Workers -> WorkerStates]
      /\ worker'[w] = [at |-> "playing", game |-> g] /\ ~Busy(w)
      /\ \A v \in Workers : v # w => worker'[v] = worker[v]
  <2>1. [at |-> "playing", game |-> g] \in WorkerStates
    BY <1>2 DEF WorkerStates
  <2> QED BY <1>1, <2>1 DEF SchedulerInv, SchedulerTypes, Busy
<1>4. Waiting' = Waiting \ {g} /\ g \in Waiting
  <2>1. g \in Waiting
    BY <1>2 DEF Waiting
  <2>2. \A i \in 1..Len(jobQueue) - 1 : jobQueue[i + 1] # g
    BY <1>2 DEF SchedulerInv, OncePerPlace
  <2>3. Waiting' \subseteq Waiting \ {g}
    BY <1>2, <2>2 DEF Waiting
  <2>4. ASSUME NEW x \in Waiting \ {g}
        PROVE  x \in Waiting'
    <3>1. PICK i \in 1..Len(jobQueue) : x = jobQueue[i]
      BY <2>4 DEF Waiting
    <3>2. i - 1 \in 1..Len(jobQueue) - 1 /\ jobQueue'[i - 1] = x
      BY <1>2, <2>4, <3>1
    <3> QED BY <1>2, <3>2 DEF Waiting
  <2> QED BY <2>1, <2>3, <2>4
<1>5. Played' = Played \cup {g}
  <2>1. \A v \in Workers : Busy(v)' <=> Busy(v) \/ v = w
    BY <1>3 DEF Busy
  <2> QED BY <1>3, <2>1 DEF Played
<1>6. Reported' = Reported
  BY <1>1 DEF Reported
<1>7. SchedulerTypes'
  BY <1>1, <1>2, <1>3, SchedulerAssumption DEF SchedulerInv, SchedulerTypes, WorkerStates, Results
<1>8. OncePerPlace'
  <2>1. \A i, j \in 1..Len(jobQueue') : jobQueue'[i] = jobQueue'[j] => i = j
    <3> SUFFICES ASSUME NEW i \in 1..Len(jobQueue'), NEW j \in 1..Len(jobQueue'),
                        jobQueue'[i] = jobQueue'[j]
                 PROVE  i = j
      OBVIOUS
    <3>1. /\ i + 1 \in 1..Len(jobQueue) /\ j + 1 \in 1..Len(jobQueue)
          /\ jobQueue'[i] = jobQueue[i + 1] /\ jobQueue'[j] = jobQueue[j + 1]
      BY <1>2
    <3>2. i + 1 = j + 1
      BY <3>1 DEF SchedulerInv, OncePerPlace
    <3> QED BY <3>2
  <2>2. \A v \in Workers : Busy(v) => worker[v].game # g
    BY <1>4 DEF SchedulerInv, OnePlace, Played
  <2>3. \A u, v \in Workers : Busy(u)' /\ Busy(v)' /\ worker'[u].game = worker'[v].game => u = v
    BY <1>3, <2>2 DEF SchedulerInv, OncePerPlace, Busy
  <2> QED BY <1>1, <2>1, <2>3 DEF SchedulerInv, OncePerPlace
<1>9. OnePlace'
  BY <1>1, <1>4, <1>5, <1>6 DEF SchedulerInv, OnePlace
<1>10. Expected'
  BY <1>1, <1>4, <1>5, <1>6 DEF SchedulerInv, Expected
<1>11. StatusTrue'
  BY <1>1, <1>3 DEF SchedulerInv, StatusTrue
<1> QED BY <1>7, <1>8, <1>9, <1>10, <1>11 DEF SchedulerInv

(* ... which plays it, ... *)
LEMMA PlayInv ==
  ASSUME SchedulerInv, NEW w \in Workers, Play(w)
  PROVE  SchedulerInv'
<1> DEFINE g == worker[w].game
<1>1. PICK st \in {InProgress, IF g \in resolved' THEN Resolved ELSE InProgress} :
        worker' = [worker EXCEPT ![w] = [at |-> "played", game |-> g, status |-> st]]
  BY DEF Play
<1>2. /\ worker[w].at = "playing"
      /\ resolved' \in {resolved, resolved \cup {g}} /\ disk' = disk \cup {g}
      /\ UNCHANGED <<scheduleQueue, listed, states, toEnqueue, jobQueue, resultQueue, lists, loop, closed>>
  BY DEF Play
<1>3. worker[w] \in WorkerStates /\ g \in Games
  BY <1>2 DEF SchedulerInv, SchedulerTypes, WorkerStates
<1>4. /\ worker' \in [Workers -> WorkerStates]
      /\ worker'[w] = [at |-> "played", game |-> g, status |-> st]
      /\ \A v \in Workers : v # w => worker'[v] = worker[v]
  <2>1. [at |-> "played", game |-> g, status |-> st] \in WorkerStates
    BY <1>1, <1>3 DEF WorkerStates, Statuses
  <2> QED BY <1>1, <2>1 DEF SchedulerInv, SchedulerTypes
<1>5. st = Resolved => g \in resolved'
  BY <1>1 DEF InProgress, Resolved
<1>6. \A v \in Workers : (Busy(v)' <=> Busy(v)) /\ (Busy(v) => worker'[v].game = worker[v].game)
  BY <1>2, <1>4 DEF Busy
<1> HIDE DEF g
<1>7. SchedulerTypes'
  <2>1. resolved' \in SUBSET Games /\ disk' \in SUBSET Games
    BY <1>2, <1>3 DEF SchedulerInv, SchedulerTypes
  <2> QED BY <1>2, <1>4, <2>1 DEF SchedulerInv, SchedulerTypes, WorkerStates, Results
<1>8. Waiting' = Waiting /\ Reported' = Reported /\ Played' = Played
  <2>1. Waiting' = Waiting /\ Reported' = Reported
    BY <1>2 DEF Waiting, Reported
  <2>2. Played' = Played
    BY <1>6 DEF Played
  <2> QED BY <2>1, <2>2
<1>9. OncePerPlace'
  <2>1. \A u, v \in Workers : Busy(u)' /\ Busy(v)' /\ worker'[u].game = worker'[v].game => u = v
    BY <1>6 DEF SchedulerInv, OncePerPlace
  <2> QED BY <1>2, <2>1 DEF SchedulerInv, OncePerPlace
<1>10. OnePlace' /\ Expected'
  BY <1>2, <1>8 DEF SchedulerInv, OnePlace, Expected
<1>11. StatusTrue'
  <2>1. resolved \subseteq resolved'
    BY <1>2
  <2>2. \A v \in Workers : worker'[v].at = "played" /\ worker'[v].status = Resolved
                             => worker'[v].game \in resolved'
    BY <1>4, <1>5, <2>1 DEF SchedulerInv, StatusTrue
  <2> QED BY <1>2, <2>1, <2>2 DEF SchedulerInv, StatusTrue
<1> QED BY <1>7, <1>9, <1>10, <1>11 DEF SchedulerInv

(* ... and reports, ... *)
LEMMA GiveResultInv ==
  ASSUME SchedulerInv, NEW w \in Workers, GiveResult(w)
  PROVE  SchedulerInv'
<1> DEFINE r == [game |-> worker[w].game, status |-> worker[w].status]
<1>1. /\ worker[w].at = "played" /\ Len(resultQueue) < QueueSize
      /\ resultQueue' = Append(resultQueue, r)
      /\ worker' = [worker EXCEPT ![w] = [at |-> "idle"]]
      /\ UNCHANGED <<resolved, scheduleQueue, listed, states, toEnqueue, jobQueue, disk, lists, loop, closed>>
  BY DEF GiveResult
<1>2. r \in Results
  <2>1. worker[w] \in WorkerStates
    BY DEF SchedulerInv, SchedulerTypes
  <2> QED BY <1>1, <2>1 DEF WorkerStates, Results, Statuses
<1>3. r.game = worker[w].game /\ r.status = worker[w].status
  OBVIOUS
<1> HIDE DEF r
<1>4. /\ resultQueue' \in Seq(Results) /\ Len(resultQueue') = Len(resultQueue) + 1
      /\ Len(resultQueue) \in Nat
      /\ \A i \in 1..Len(resultQueue) : resultQueue'[i] = resultQueue[i]
      /\ resultQueue'[Len(resultQueue) + 1] = r
  BY <1>1, <1>2, AppendFacts DEF SchedulerInv, SchedulerTypes
<1>5. /\ worker' \in [Workers -> WorkerStates]
      /\ worker'[w] = [at |-> "idle"] /\ Busy(w)
      /\ \A v \in Workers : v # w => worker'[v] = worker[v]
  <2>1. [at |-> "idle"] \in WorkerStates
    BY DEF WorkerStates
  <2> QED BY <1>1, <2>1 DEF SchedulerInv, SchedulerTypes, Busy
<1>6. \A v \in Workers : Busy(v)' <=> Busy(v) /\ v # w
  BY <1>5 DEF Busy
<1>7. Waiting' = Waiting
  BY <1>1 DEF Waiting
<1>8. Played' = Played \ {r.game} /\ r.game \in Played
  <2>1. r.game \in Played
    BY <1>3, <1>5 DEF Played
  <2>2. \A v \in Workers : Busy(v) /\ v # w => worker[v].game # r.game
    BY <1>3, <1>5 DEF SchedulerInv, OncePerPlace
  <2>3. Played' \subseteq Played \ {r.game}
    BY <1>5, <1>6, <2>2 DEF Played
  <2>4. Played \ {r.game} \subseteq Played'
    BY <1>3, <1>5, <1>6 DEF Played
  <2> QED BY <2>1, <2>3, <2>4
<1>9. Reported' = Reported \cup {r.game}
  BY <1>4 DEF Reported
<1>10. SchedulerTypes'
  BY <1>1, <1>4, <1>5, SchedulerAssumption DEF SchedulerInv, SchedulerTypes, WorkerStates, Results
<1>11. OncePerPlace'
  <2>1. r.game \notin Reported
    BY <1>8 DEF SchedulerInv, OnePlace
  <2>2. \A i, j \in 1..Len(resultQueue') : resultQueue'[i].game = resultQueue'[j].game => i = j
    BY <1>4, <2>1 DEF SchedulerInv, OncePerPlace, Reported
  <2>3. \A u, v \in Workers : Busy(u)' /\ Busy(v)' /\ worker'[u].game = worker'[v].game => u = v
    BY <1>5, <1>6 DEF SchedulerInv, OncePerPlace
  <2> QED BY <1>1, <2>2, <2>3 DEF SchedulerInv, OncePerPlace
<1>12. OnePlace' /\ Expected'
  BY <1>1, <1>7, <1>8, <1>9 DEF SchedulerInv, OnePlace, Expected
<1>13. StatusTrue'
  <2>1. \A i \in 1..Len(resultQueue') : resultQueue'[i].status = Resolved
                                          => resultQueue'[i].game \in resolved
    BY <1>1, <1>3, <1>4 DEF SchedulerInv, StatusTrue
  <2>2. \A v \in Workers : worker'[v].at = "played" /\ worker'[v].status = Resolved
                             => worker'[v].game \in resolved
    BY <1>5 DEF SchedulerInv, StatusTrue
  <2> QED BY <1>1, <2>1, <2>2 DEF SchedulerInv, StatusTrue
<1> QED BY <1>10, <1>11, <1>12, <1>13 DEF SchedulerInv

(* ... until the coordinator takes the result: the game is in flight no more. *)
LEMMA ProcessResultInv ==
  ASSUME SchedulerInv, ProcessResult
  PROVE  SchedulerInv'
<1> DEFINE r == resultQueue[1]
<1>1. /\ loop /\ resultQueue # << >>
      /\ resultQueue' = Tail(resultQueue)
      /\ UNCHANGED <<resolved, scheduleQueue, listed, toEnqueue, jobQueue, worker, lists, loop, closed>>
  BY DEF ProcessResult
<1>2. /\ resultQueue' \in Seq(Results) /\ Len(resultQueue') = Len(resultQueue) - 1
      /\ Len(resultQueue) \in Nat \ {0}
      /\ \A i \in 1..Len(resultQueue) - 1 : resultQueue'[i] = resultQueue[i + 1]
      /\ r \in Results
  BY <1>1, TailFacts DEF SchedulerInv, SchedulerTypes
<1>3. r.game \in Reported /\ r.game \in Games /\ r.status \in Statuses
  BY <1>2 DEF Reported, Results, Statuses
<1>4. r.game \in DOMAIN states
  BY <1>1, <1>3 DEF SchedulerInv, Expected
<1>5. /\ states' = [states EXCEPT ![r.game].inflight = FALSE, ![r.game].status = r.status]
      /\ disk' \subseteq disk
  BY <1>4 DEF ProcessResult
<1>6. r.status = Resolved => r.game \in resolved
  BY <1>2 DEF SchedulerInv, StatusTrue
<1> HIDE DEF r
<1>7. /\ DOMAIN states' = DOMAIN states
      /\ states'[r.game] \in [player : BOOLEAN, inflight : BOOLEAN, status : Statuses]
      /\ states'[r.game].status = r.status
      /\ \A g \in DOMAIN states : g # r.game => states'[g] = states[g]
  <2>1. states[r.game] \in [player : BOOLEAN, inflight : BOOLEAN, status : Statuses]
    BY <1>4 DEF SchedulerInv, SchedulerTypes
  <2> QED BY <1>3, <1>4, <1>5, <2>1 DEF SchedulerInv, SchedulerTypes
<1>8. states' \in [DOMAIN states -> [player : BOOLEAN, inflight : BOOLEAN, status : Statuses]]
  BY <1>4, <1>5, <1>7 DEF SchedulerInv, SchedulerTypes
<1>9. Waiting' = Waiting /\ Played' = Played
  BY <1>1 DEF Waiting, Played, Busy
<1>10. Reported' = Reported \ {r.game}
  <2>1. \A i \in 1..Len(resultQueue) - 1 : resultQueue[i + 1].game # r.game
    BY <1>2 DEF SchedulerInv, OncePerPlace, r
  <2>2. Reported' \subseteq Reported \ {r.game}
    BY <1>2, <2>1 DEF Reported
  <2>3. ASSUME NEW x \in Reported \ {r.game}
        PROVE  x \in Reported'
    <3>1. PICK i \in 1..Len(resultQueue) : x = resultQueue[i].game
      BY <2>3 DEF Reported
    <3>2. i - 1 \in 1..Len(resultQueue) - 1 /\ resultQueue'[i - 1].game = x
      BY <1>2, <2>3, <3>1 DEF r
    <3> QED BY <1>2, <3>2 DEF Reported
  <2> QED BY <2>2, <2>3
<1>11. SchedulerTypes'
  <2>1. disk' \in SUBSET Games
    BY <1>5 DEF SchedulerInv, SchedulerTypes
  <2> QED BY <1>1, <1>2, <1>7, <1>8, <2>1, SchedulerAssumption DEF SchedulerInv, SchedulerTypes, WorkerStates
<1>12. OncePerPlace'
  <2>1. \A i, j \in 1..Len(resultQueue) : resultQueue[i].game = resultQueue[j].game => i = j
    BY DEF SchedulerInv, OncePerPlace
  <2>2. ASSUME NEW i \in 1..Len(resultQueue'), NEW j \in 1..Len(resultQueue'),
               resultQueue'[i].game = resultQueue'[j].game
        PROVE  i = j
    <3>1. /\ i + 1 \in 1..Len(resultQueue) /\ j + 1 \in 1..Len(resultQueue)
          /\ resultQueue'[i] = resultQueue[i + 1] /\ resultQueue'[j] = resultQueue[j + 1]
      BY <1>2, <2>2
    <3>2. i + 1 = j + 1
      BY <2>1, <2>2, <3>1
    <3> QED BY <3>2
  <2> QED BY <1>1, <2>2 DEF SchedulerInv, OncePerPlace, Busy
<1>13. OnePlace'
  BY <1>1, <1>9, <1>10 DEF SchedulerInv, OnePlace
<1>14. Expected'
  <2>1. \A g \in toEnqueue \cup Waiting \cup Played \cup (Reported \ {r.game}) : g # r.game
    BY <1>3 DEF SchedulerInv, OnePlace
  <2> QED BY <1>1, <1>7, <1>9, <1>10, <2>1 DEF SchedulerInv, Expected
<1>15. StatusTrue'
  <2>1. \A g \in DOMAIN states' : states'[g].status = Resolved => g \in resolved
    BY <1>6, <1>7 DEF SchedulerInv, StatusTrue
  <2>2. \A i \in 1..Len(resultQueue') : resultQueue'[i].status = Resolved
                                          => resultQueue'[i].game \in resolved
    BY <1>2 DEF SchedulerInv, StatusTrue
  <2> QED BY <1>1, <1>7, <2>1, <2>2 DEF SchedulerInv, StatusTrue
<1> QED BY <1>11, <1>12, <1>13, <1>14, <1>15 DEF SchedulerInv

LEMMA WorkerDoneInv ==
  ASSUME SchedulerInv, NEW w \in Workers, WorkerDone(w)
  PROVE  SchedulerInv'
<1>1. /\ worker[w].at = "idle"
      /\ worker' = [worker EXCEPT ![w] = [at |-> "done"]]
      /\ UNCHANGED <<resolved, scheduleQueue, listed, states, toEnqueue, jobQueue, resultQueue, disk,
                     lists, loop, closed>>
  BY DEF WorkerDone
<1>2. /\ worker' \in [Workers -> WorkerStates]
      /\ worker'[w] = [at |-> "done"]
      /\ \A v \in Workers : v # w => worker'[v] = worker[v]
  <2>1. [at |-> "done"] \in WorkerStates
    BY DEF WorkerStates
  <2> QED BY <1>1, <2>1 DEF SchedulerInv, SchedulerTypes
<1>3. \A v \in Workers : (Busy(v)' <=> Busy(v)) /\ (Busy(v) => worker'[v] = worker[v])
  BY <1>1, <1>2 DEF Busy
<1>4. SchedulerTypes'
  BY <1>1, <1>2 DEF SchedulerInv, SchedulerTypes, WorkerStates, Results
<1>5. Waiting' = Waiting /\ Reported' = Reported /\ Played' = Played
  <2>1. Waiting' = Waiting /\ Reported' = Reported
    BY <1>1 DEF Waiting, Reported
  <2>2. Played' = Played
    BY <1>3 DEF Played
  <2> QED BY <2>1, <2>2
<1>6. OncePerPlace'
  BY <1>1, <1>3 DEF SchedulerInv, OncePerPlace
<1>7. OnePlace' /\ Expected'
  BY <1>1, <1>5 DEF SchedulerInv, OnePlace, Expected
<1>8. StatusTrue'
  BY <1>1, <1>2 DEF SchedulerInv, StatusTrue
<1> QED BY <1>4, <1>6, <1>7, <1>8 DEF SchedulerInv

(* The invariant is inductive. *)
LEMMA SchedulerInvNext ==
  ASSUME SchedulerInv, [SchedulerNext]_schedulerVars
  PROVE  SchedulerInv'
<1>1. ASSUME NEW g \in Games, EnqueueJob(g)
      PROVE  SchedulerInv'
  BY <1>1, EnqueueJobInv
<1>2. ASSUME NEW games \in Lists, ProgressGames(games)
      PROVE  SchedulerInv'
  BY <1>2, ProgressGamesInv
<1>3. CASE Schedule({}) \/ \E g \in Games : Schedule({g})
  BY <1>3, ScheduleInv
<1>4. CASE ProcessResult \/ Close \/ LoopDone
  BY <1>4, ProcessResultInv, CloseInv, LoopDoneInv
<1>5. ASSUME NEW w \in Workers, WorkerStep(w)
      PROVE  SchedulerInv'
  BY <1>5, TakeJobInv, PlayInv, GiveResultInv, WorkerDoneInv DEF WorkerStep
<1>6. CASE UNCHANGED schedulerVars
  <2>1. UNCHANGED <<resolved, scheduleQueue, listed, states, toEnqueue, jobQueue, resultQueue,
                    worker, disk, lists, loop, closed>>
    BY <1>6 DEF schedulerVars
  <2>2. SchedulerTypes' /\ Expected' /\ StatusTrue'
    BY <2>1, PlacesUnchanged DEF SchedulerInv, SchedulerTypes, Expected, StatusTrue
  <2> QED BY <2>1, <2>2, PlacesUnchanged DEF SchedulerInv
<1> QED BY <1>1, <1>2, <1>3, <1>4, <1>5, <1>6 DEF SchedulerNext

(* Every reachable state of the scheduler satisfies the invariant. *)
THEOREM SchedulerInvariant == SchedulerSpec => []SchedulerInv
<1>1. SchedulerInit => SchedulerInv
  BY SchedulerInvInit
<1>2. SchedulerInv /\ [SchedulerNext]_schedulerVars => SchedulerInv'
  BY SchedulerInvNext
<1> QED BY <1>1, <1>2, PTL DEF SchedulerSpec

-----------------------------------------------------------------------------
(* The theorems. *)

(* The queues between coordinator and workers stay within their capacity and hold games and *)
(* results only, for every number of games, workers and lists.                              *)
THEOREM SchedulerTypesCorrect == SchedulerSpec => []SchedulerTypeOK
<1>1. SchedulerInv => SchedulerTypeOK
  <2> SUFFICES ASSUME SchedulerInv PROVE SchedulerTypeOK
    OBVIOUS
  <2>1. ToSet(jobQueue) \subseteq Games
    BY DEF ToSet, SchedulerInv, SchedulerTypes
  <2>2. ToSet(resultQueue) \subseteq Results
    BY DEF ToSet, SchedulerInv, SchedulerTypes
  <2>3. \A w \in Workers : worker[w].at \in {"idle", "playing", "played", "done"}
    <3>1. \A w \in Workers : worker[w] \in WorkerStates
      BY DEF SchedulerInv, SchedulerTypes
    <3> QED BY <3>1 DEF WorkerStates
  <2> QED BY <2>1, <2>2, <2>3 DEF SchedulerInv, SchedulerTypes, SchedulerTypeOK, Statuses
<1> QED BY <1>1, SchedulerInvariant, PTL

(* Where the jobs of a game are, in terms of the sets of the invariant. *)
LEMMA JobsPlaces ==
  ASSUME SchedulerInv, NEW g \in Games
  PROVE  /\ \A x, y \in Jobs(g) : x = y
         /\ Jobs(g) # {} => g \in toEnqueue \cup Waiting \cup Played \cup Reported
<1> DEFINE E == {<<"enqueue", h>> : h \in toEnqueue \cap {g}}
           Q == {<<"queued", i>> : i \in {i \in DOMAIN jobQueue : jobQueue[i] = g}}
           W == {<<"worker", w>> : w \in {w \in Workers : Busy(w) /\ worker[w].game = g}}
           R == {<<"result", i>> : i \in {i \in DOMAIN resultQueue : resultQueue[i].game = g}}
<1>1. Jobs(g) = E \cup Q \cup W \cup R
  BY DEF Jobs
<1>2. DOMAIN jobQueue = 1..Len(jobQueue) /\ DOMAIN resultQueue = 1..Len(resultQueue)
  BY DEF SchedulerInv, SchedulerTypes
<1>3. /\ E # {} => g \in toEnqueue
      /\ Q # {} => g \in Waiting
      /\ W # {} => g \in Played
      /\ R # {} => g \in Reported
  BY <1>2 DEF Waiting, Played, Reported
<1>4. /\ \A x, y \in E : x = y
      /\ \A x, y \in Q : x = y
      /\ \A x, y \in W : x = y
      /\ \A x, y \in R : x = y
  <2>1. \A x, y \in E : x = y
    OBVIOUS
  <2>2. \A x, y \in Q : x = y
    BY <1>2 DEF SchedulerInv, OncePerPlace
  <2>3. \A x, y \in W : x = y
    BY DEF SchedulerInv, OncePerPlace
  <2>4. \A x, y \in R : x = y
    BY <1>2 DEF SchedulerInv, OncePerPlace
  <2> QED BY <2>1, <2>2, <2>3, <2>4
<1> HIDE DEF E, Q, W, R
<1> QED BY <1>1, <1>3, <1>4 DEF SchedulerInv, OnePlace

(* No game is ever in two queues, at two workers or twice in a queue, and every result is for a *)
(* game the coordinator has in flight, for every number of games, workers and lists.            *)
THEOREM OneJob == SchedulerSpec => []OneJobPerGame
<1>1. SchedulerInv => OneJobPerGame
  <2> SUFFICES ASSUME SchedulerInv, NEW g \in Games
               PROVE  /\ Cardinality(Jobs(g)) <= 1
                      /\ loop /\ Jobs(g) # {} => g \in DOMAIN states /\ states[g].inflight
    BY DEF OneJobPerGame
  <2>1. Cardinality(Jobs(g)) <= 1
    <3>1. CASE Jobs(g) = {}
      BY <3>1, FS_EmptySet
    <3>2. CASE Jobs(g) # {}
      <4>1. PICK x \in Jobs(g) : TRUE
        BY <3>2
      <4>2. Jobs(g) = {x}
        BY <4>1, JobsPlaces
      <4> QED BY <4>2, FS_Singleton
    <3> QED BY <3>1, <3>2
  <2>2. loop /\ Jobs(g) # {} => g \in DOMAIN states /\ states[g].inflight
    BY JobsPlaces DEF SchedulerInv, Expected
  <2> QED BY <2>1, <2>2
<1> QED BY <1>1, SchedulerInvariant, PTL

(* Only processResult removes files, and of a game that is not resolved only when it is neither *)
(* listed nor being played, for every number of games, workers and lists.                       *)
THEOREM FilesAreKept == SchedulerSpec => FilesKept
<1>1. SchedulerInv /\ [SchedulerNext]_schedulerVars =>
        [\A g \in disk \ disk' : g \notin resolved => g \notin listed /\ Jobs(g) = {}]_schedulerVars
  <2> SUFFICES ASSUME SchedulerInv, SchedulerNext, NEW g \in disk \ disk', g \notin resolved
               PROVE  g \notin listed /\ Jobs(g) = {}
    OBVIOUS
  <2>1. ProcessResult
    BY DEF SchedulerNext, EnqueueJob, ProgressGames, Schedule, Close, LoopDone,
           WorkerStep, TakeJob, Play,
           GiveResult, WorkerDone
  <2> DEFINE r == resultQueue[1]
  <2>2. r.game \in DOMAIN states
    <3>1. resultQueue # << >> /\ resultQueue \in Seq(Results) /\ loop
      BY <2>1 DEF ProcessResult, SchedulerInv, SchedulerTypes
    <3>2. 1 \in 1..Len(resultQueue)
      BY <3>1
    <3>3. r.game \in Reported
      BY <3>2 DEF Reported
    <3> QED BY <3>1, <3>3 DEF SchedulerInv, Expected
  <2>3. /\ loop /\ resultQueue # << >>
        /\ states' = [states EXCEPT ![r.game].inflight = FALSE, ![r.game].status = r.status]
        /\ disk' = disk \cap {h \in DOMAIN states' : states'[h].status = InProgress \/ states'[h].inflight}
    BY <2>1, <2>2 DEF ProcessResult
  <2>4. r \in Results /\ (r.status = Resolved => r.game \in resolved)
    <3>1. resultQueue # << >> /\ resultQueue \in Seq(Results)
      BY <2>3 DEF SchedulerInv, SchedulerTypes
    <3>2. 1 \in 1..Len(resultQueue)
      BY <3>1
    <3> QED BY <3>1, <3>2 DEF SchedulerInv, StatusTrue
  <2>5. g # r.game
    <3> SUFFICES ASSUME g = r.game PROVE FALSE
      OBVIOUS
    <3>1. r.status = InProgress
      BY <2>4 DEF Results
    <3>2. states'[g].status = InProgress /\ g \in DOMAIN states'
      <4>1. states[g] \in [player : BOOLEAN, inflight : BOOLEAN, status : Statuses]
        BY <2>2 DEF SchedulerInv, SchedulerTypes
      <4> QED BY <2>2, <2>3, <3>1, <4>1
    <3> QED BY <2>3, <3>2
  <2>6. g \notin DOMAIN states
    <3> SUFFICES ASSUME g \in DOMAIN states PROVE FALSE
      OBVIOUS
    <3>1. states'[g] = states[g] /\ g \in DOMAIN states'
      BY <2>3, <2>5
    <3>2. states[g].status = Resolved
      BY <2>3, <3>1 DEF SchedulerInv, SchedulerTypes, Statuses
    <3> QED BY <3>2 DEF SchedulerInv, StatusTrue
  <2>7. g \in Games
    BY DEF SchedulerInv, SchedulerTypes
  <2>8. g \notin listed
    BY <2>6 DEF SchedulerInv, StatusTrue
  <2>9. Jobs(g) = {}
    BY <2>3, <2>6, <2>7, JobsPlaces DEF SchedulerInv, Expected
  <2> QED BY <2>8, <2>9
<1> QED BY <1>1, SchedulerInvariant, PTL DEF SchedulerSpec, FilesKept
=============================================================================
