---------------------------- MODULE DisputeGame -----------------------------
(***************************************************************************)
(* One fault dispute game: the contract (FaultDisputeGame.sol) with one    *)
(* honest challenger (op-challenger/game/fault: Agent, GameSolver,         *)
(* claimSolver) and any number of others, who post what they like.         *)
(*                                                                         *)
(* A claim's value is abstracted to whether it is the one of the honest    *)
(* trace at the claim's position; a position is a generalised index.       *)
(*                                                                         *)
(* Each claim has its chess clock.  A move is in time by the clock of the  *)
(* claim's parent, a resolution by the clock of the claim itself, so the   *)
(* contract resolves some claims that can still be moved against; early    *)
(* records when that takes an answer from the honest challenger, and late  *)
(* that the challenger let a clock run out.                                *)
(***************************************************************************)
EXTENDS Integers, Sequences

CONSTANTS
  MaxDepth,   \* MAX_GAME_DEPTH
  HalfDuration, \* GAME_DURATION >> 1
  MaxOthers   \* bound: moves of the others

ASSUME DisputeAssumption == MaxDepth \in Nat \ {0} /\ MaxOthers \in Nat

ASSUME DurationAssumption == HalfDuration \in Nat

(* Arithmetic the provers lack: what a power of two is, as far as positions reach. *)
ASSUME PowersOfTwo == \A k \in 0..MaxDepth + 1 : 2 ^ (k + 1) = 2 * 2 ^ k

VARIABLES
  claims,    \* claimData: [parent, pos, good, countered]; index 1 is the root, its parent 0
  subgames,  \* per claim the indices of the moves against it; emptied when it is resolved
  rootResolved, \* subgameAtRootResolved
  status,
  clock,     \* the clocks of the claims: [duration, timestamp]
  now,       \* block.timestamp, counted from the creation of the game
  todo,      \* actions the agent has calculated and not performed yet
  reverted,  \* history: claims against which a step of the agent was refused
  early,     \* history: a resolution took an answer in time from the challenger
  late,      \* history: the challenger let the time for an answer pass
  others     \* moves of the others so far

vars == <<claims, subgames, rootResolved, status, clock, now, todo, reverted, early, late, others>>

Max(S) == CHOOSE x \in S : \A y \in S : y <= x
DepthOf(pos) == Max({d \in 0..MaxDepth + 1 : 2 ^ d <= pos})
IndexAtDepth(pos) == pos - 2 ^ DepthOf(pos)
Depth(c) == DepthOf(c.pos)

RootClaim(good) == [parent |-> 0, pos |-> 1, good |-> good, countered |-> FALSE]

(* FaultDisputeGame.initialize: the root claim is right or wrong. *)
Init ==
  /\ \E good \in BOOLEAN : claims = <<RootClaim(good)>>
  /\ subgames = << <<>> >> /\ rootResolved = FALSE /\ status = "IN_PROGRESS"
  /\ clock = <<[duration |-> 0, timestamp |-> 0]>> /\ now = 0
  /\ todo = {} /\ reverted = {} /\ early = FALSE /\ late = FALSE /\ others = 0

-----------------------------------------------------------------------------
(* Positions. *)

(* LibPosition.move *)
Move(pos, isAttack) == IF isAttack \/ pos % 2 = 1 THEN 2 * pos ELSE 2 * (pos + 1)

(* Position.Attack, Position.Defend of the challenger. *)
Attack(pos) == 2 * pos
Defend(pos) == 2 * (2 * (pos \div 2) + 1)

TraceAncestorShort(pos) ==
  LET ones == Max({k \in 0..MaxDepth + 1 : (pos + 1) % 2 ^ k = 0})
      a == pos \div 2 ^ (IF ones > 1 THEN ones - 1 ELSE ones)
  IN IF a = 0 THEN 1 ELSE a

(* LibPosition.traceAncestor: shifted right past its trailing ones, at least 1. *)
TraceAncestor(pos) ==
  LET ones == Max({k \in 0..MaxDepth + 1 : (pos + 1) % 2 ^ k = 0})
      a == pos \div 2 ^ ones
  IN IF a = 0 THEN 1 ELSE a

(* Indices of the claims from a claim up to the root, itself included. *)
PathTo == LET path[i \in DOMAIN claims] ==
                IF claims[i].parent = 0 THEN {i} ELSE {i} \cup path[claims[i].parent]
          IN path

(* findTraceAncestor: the claims on the way up that have the position of the ancestor. *)
FindTraceAncestor(pos, start) == {i \in PathTo[start] : claims[i].pos = TraceAncestor(pos)}

-----------------------------------------------------------------------------
(* The contract. *)

(* The clock of a move against claim i: the one of i's parent, resumed when i was posted. *)
NextDuration(i) ==
  (IF claims[i].parent = 0 THEN 0 ELSE clock[claims[i].parent].duration) + now - clock[i].timestamp

MoveInTime(i) == NextDuration(i) <= HalfDuration

(* resolveClaim looks at the clock of the claim itself. *)
ClockExpired(i) == clock[i].duration + (now - clock[i].timestamp) > HalfDuration

(* move: a new claim at pos' against claim i.  No claim is posted twice: there is one right     *)
(* value for a position, and any number of wrong ones.                                         *)
MoveReverts(i, isAttack, good) ==
  \/ status # "IN_PROGRESS" \/ ~MoveInTime(i)
  \/ i = 1 /\ ~isAttack
  \/ DepthOf(Move(claims[i].pos, isAttack)) > MaxDepth
  \/ good /\ \E j \in DOMAIN claims : /\ claims[j].parent = i /\ claims[j].good
                                      /\ claims[j].pos = Move(claims[i].pos, isAttack)

DoMove(i, isAttack, good) ==
  /\ ~MoveReverts(i, isAttack, good)
  /\ claims' = Append([claims EXCEPT ![i].countered = TRUE],
                      [parent |-> i, pos |-> Move(claims[i].pos, isAttack),
                       good |-> good, countered |-> FALSE])
  /\ subgames' = Append([subgames EXCEPT ![i] = Append(@, Len(claims) + 1)], <<>>)
  /\ clock' = Append(clock, [duration |-> NextDuration(i), timestamp |-> now])

(* step: the claims that can be the prestate (none: the absolute prestate) and the poststate. *)
PreStates(i, isAttack) ==
  IF ~isAttack THEN {i}
  ELSE IF IndexAtDepth(Move(claims[i].pos, TRUE)) = 0 THEN {}
  ELSE FindTraceAncestor(claims[i].pos - 1, claims[i].parent)

PostStates(i, isAttack) ==
  IF isAttack THEN {i} ELSE FindTraceAncestor(claims[i].pos + 1, claims[i].parent)

PreStateGood(i, isAttack) == \A j \in PreStates(i, isAttack) : claims[j].good

(* Whether executing the step from the claimed prestate gives the claimed poststate: from a    *)
(* right prestate it gives the right poststate; from a wrong one it may give anything.         *)
StepResults(i, isAttack) ==
  IF PreStateGood(i, isAttack) THEN {claims[j].good : j \in PostStates(i, isAttack)} ELSE BOOLEAN

StepCounters(i, isAttack, validStep) ==
  \A j \in PostStates(i, isAttack) : ((Depth(claims[i]) - Depth(claims[j])) % 2 = 0) # validStep

DoStep(i, isAttack, validStep) ==
  /\ status = "IN_PROGRESS"
  /\ Depth(claims[i]) = MaxDepth
  /\ StepCounters(i, isAttack, validStep)
  /\ claims' = [claims EXCEPT ![i].countered = TRUE]
  /\ UNCHANGED <<subgames, clock>>

-----------------------------------------------------------------------------
(* What the honest challenger stands for.  It disputes the root claim exactly when that is wrong. *)

(* gameState.AgreeWithClaimLevel *)
AgreeWithClaimLevel(c) == IF claims[1].good THEN Depth(c) % 2 = 0 ELSE Depth(c) % 2 = 1

AgreeWithClaimPathAll(i) == \A j \in PathTo[i] : claims[j].good

(* agreeWithClaimPath: the claim and every other one on its way to the root. *)
AgreeWithClaimPath(i) ==
  \A j \in PathTo[i] : (Depth(claims[i]) - Depth(claims[j])) % 2 = 0 => claims[j].good

(* The path check of NextMove and AttemptStep. *)
DisputesHonestPath(i) == claims[i].parent # 0 => AgreeWithClaimPath(claims[i].parent)

-----------------------------------------------------------------------------
(* Resolution. *)

(* resolveClaim: the challenges are looked at in order up to the first that is not countered. *)
Unanswered(i) == {k \in DOMAIN subgames[i] : ~claims[subgames[i][k]].countered}
LookedAt(i) == {k \in DOMAIN subgames[i] : \A u \in Unanswered(i) : k <= u}

(* Resolving claim i now takes an answer from the challenger: a challenge of its own claim     *)
(* counts while the challenger could still answer it, or a claim of the others is resolved     *)
(* while it can still be moved against.                                                        *)
ResolvedEarly(i) ==
  /\ ~rootResolved
  /\ IF AgreeWithClaimLevel(claims[i])
     THEN /\ AgreeWithClaimPath(i)
          /\ \E k \in DOMAIN claims :
               claims[k].parent = i /\ ~claims[k].countered /\ MoveInTime(k)
     ELSE DisputesHonestPath(i) /\ MoveInTime(i)

ResolveClaimChallenged(i) ==
  /\ status = "IN_PROGRESS" /\ ClockExpired(i)
  /\ subgames[i] # <<>> /\ (i = 1 => ~rootResolved)
  /\ \A k \in LookedAt(i) : subgames[subgames[i][k]] = <<>>
  /\ claims' = [claims EXCEPT ![i].countered = (Unanswered(i) # {})]
  /\ subgames' = [subgames EXCEPT ![i] = <<>>]
  /\ rootResolved' = (rootResolved \/ i = 1)
  /\ early' = (early \/ ResolvedEarly(i))
  /\ UNCHANGED <<status, clock, now, todo, reverted, late, others>>

ResolveClaim(i) ==
  /\ status = "IN_PROGRESS" /\ ClockExpired(i)
  /\ IF i = 1 THEN ~rootResolved ELSE subgames[i] # <<>>
  /\ \A k \in LookedAt(i) : subgames[subgames[i][k]] = <<>>
  /\ claims' = [claims EXCEPT ![i].countered = (Unanswered(i) # {})]
  /\ subgames' = [subgames EXCEPT ![i] = <<>>]
  /\ rootResolved' = (rootResolved \/ i = 1)
  /\ early' = (early \/ ResolvedEarly(i))
  /\ UNCHANGED <<status, clock, now, todo, reverted, late, others>>

(* resolve *)
Resolve ==
  /\ status = "IN_PROGRESS" /\ rootResolved
  /\ status' = IF claims[1].countered THEN "CHALLENGER_WINS" ELSE "DEFENDER_WINS"
  /\ UNCHANGED <<claims, subgames, rootResolved, clock, now, todo, reverted, early, late, others>>

-----------------------------------------------------------------------------
(* The honest challenger. *)

StepActionsSwapped(i) ==
  IF claims[i].countered \/ ~DisputesHonestPath(i) THEN {}
  ELSE {[type |-> "step", idx |-> i, isAttack |-> claims[i].good, at |-> 0]}

(* calculateStep, AttemptStep: attack a wrong claim, defend (step past) a right one. *)
StepActions(i) ==
  IF claims[i].countered \/ ~DisputesHonestPath(i) THEN {}
  ELSE {[type |-> "step", idx |-> i, isAttack |-> ~claims[i].good, at |-> 0]}

(* calculateMove, NextMove: attack a wrong claim, defend a right one unless it is the root.     *)
(* "at" is the position the solver computes, isAttack what it tells the contract (DefendsParent). *)
NextPosition(c) == IF c.good THEN Defend(c.pos) ELSE Attack(c.pos)

RightOf(pos, parent) == IndexAtDepth(pos) \div 2 # IndexAtDepth(parent)

MoveActions(i) ==
  LET c == claims[i]
      at == NextPosition(c)
  IN IF \/ ~DisputesHonestPath(i)
        \/ c.good /\ i = 1
        \/ \E j \in DOMAIN claims : claims[j].parent = i /\ claims[j].good /\ claims[j].pos = at
     THEN {}
     ELSE {[type |-> "move", idx |-> i, isAttack |-> ~RightOf(at, c.pos), at |-> at]}

(* CalculateNextActions *)
NextActions ==
  UNION {IF Depth(claims[i]) = MaxDepth THEN StepActions(i) ELSE MoveActions(i) :
         i \in {k \in DOMAIN claims : ~AgreeWithClaimLevel(claims[k])}}

(* Agent.Act when the game cannot be resolved yet: read the claims, decide on answers. *)
Act ==
  /\ status = "IN_PROGRESS" /\ ~rootResolved /\ todo = {}
  /\ NextActions # {}
  /\ todo' = NextActions
  /\ UNCHANGED <<claims, subgames, rootResolved, status, clock, now, reverted, early, late, others>>

(* shouldResolve: Act resolves a game only if the challenger wins it. *)
ShouldResolve == claims[1].countered = ~claims[1].good

(* PerformAction: the next answer, in the order of the claims.  The value sent is the right one *)
(* for the position the solver computed; the contract puts it where it computes the move.      *)
Now(a) == a \in todo /\ \A b \in todo : a.idx <= b.idx

PerformMove ==
  \E a \in todo :
     LET good == Move(claims[a.idx].pos, a.isAttack) = a.at IN
     /\ Now(a) /\ a.type = "move"
     /\ todo' = todo \ {a}
     /\ \/ DoMove(a.idx, a.isAttack, good)
        \/ MoveReverts(a.idx, a.isAttack, good) /\ UNCHANGED <<claims, subgames, clock>>
     /\ UNCHANGED <<rootResolved, status, now, reverted, early, late, others>>

StepRefused(a) ==
  \/ ~PreStateGood(a.idx, a.isAttack)
  \/ \E valid \in StepResults(a.idx, a.isAttack) : ~StepCounters(a.idx, a.isAttack, valid)

PerformStep ==
  \E a \in todo :
     /\ Now(a) /\ a.type = "step"
     /\ todo' = todo \ {a}
     /\ reverted' = reverted \cup (IF StepRefused(a) THEN {a.idx} ELSE {})
     /\ IF StepRefused(a) THEN UNCHANGED <<claims, subgames, clock>>
        ELSE \E valid \in StepResults(a.idx, a.isAttack) : DoStep(a.idx, a.isAttack, valid)
     /\ UNCHANGED <<rootResolved, status, now, early, late, others>>

(* The transaction of an answer fails: it is logged, and calculated again by a later Act. *)
PerformFails ==
  \E a \in todo :
     /\ Now(a)
     /\ todo' = todo \ {a}
     /\ UNCHANGED <<claims, subgames, rootResolved, status, clock, now, reverted, early, late, others>>

-----------------------------------------------------------------------------
(* Everyone else. *)

OthersMove ==
  /\ others < MaxOthers
  /\ others' = others + 1
  /\ \E i \in DOMAIN claims, isAttack, good \in BOOLEAN : DoMove(i, isAttack, good)
  /\ UNCHANGED <<rootResolved, status, now, todo, reverted, early, late>>

(* A step has no clock: it may come while claims are being resolved. *)
OthersStep ==
  /\ \E i \in DOMAIN claims, isAttack \in BOOLEAN :
        /\ ~claims[i].countered /\ Depth(claims[i]) = MaxDepth
        /\ \E valid \in StepResults(i, isAttack) : DoStep(i, isAttack, valid)
  /\ UNCHANGED <<rootResolved, status, now, todo, reverted, early, late, others>>

(* The challenger has not given an answer, other than a step the contract refuses, and the     *)
(* clock of the claim it answers runs out now.                                                 *)
AnswerMissed == \E a \in NextActions : a.idx \notin reverted /\ NextDuration(a.idx) = HalfDuration

(* Time passes; when all clocks have run out it no longer matters. *)
Tick ==
  /\ status = "IN_PROGRESS" /\ now <= 2 * HalfDuration
  /\ now' = now + 1
  /\ late' = (late \/ (~rootResolved /\ AnswerMissed))
  /\ UNCHANGED <<claims, subgames, rootResolved, status, clock, todo, reverted, early, others>>

Next ==
  \/ Act \/ PerformMove \/ PerformStep \/ PerformFails
  \/ OthersMove \/ OthersStep \/ Tick
  \/ \E i \in DOMAIN claims : ResolveClaim(i)
  \/ Resolve

Spec == Init /\ [][Next]_vars

(* The challenger's game loop calls Act on every new block.  Act first resolves what it can,   *)
(* and a transaction does not fail for ever.  Nobody else need do anything.                    *)
Fairness ==
  /\ WF_vars(Tick) /\ WF_vars(Act)
  /\ WF_vars(PerformMove \/ PerformStep \/ PerformFails)
  /\ SF_vars(PerformMove) /\ SF_vars(PerformStep)
  /\ SF_vars(todo = {} /\ \E i \in DOMAIN claims : ResolveClaim(i))
  /\ SF_vars(todo = {} /\ ShouldResolve /\ Resolve)

FairSpec == Spec /\ Fairness

-----------------------------------------------------------------------------
(* Types. *)
Claims == [parent : Nat, pos : Nat, good : BOOLEAN, countered : BOOLEAN]
TypeOK ==
  /\ claims \in Seq(Claims) /\ Len(claims) = Len(subgames) /\ Len(claims) = Len(clock)
  /\ \A i \in DOMAIN claims :
       /\ claims[i].parent \in 0..i - 1
       /\ claims[i].pos \in 1..2 ^ (MaxDepth + 1) - 1
       /\ \A k \in DOMAIN subgames[i] : claims[subgames[i][k]].parent = i
       /\ clock[i].duration \in 0..HalfDuration /\ clock[i].timestamp \in 0..now
  /\ status \in {"IN_PROGRESS", "CHALLENGER_WINS", "DEFENDER_WINS"}

(* A game one honest challenger answers in time ends as it should, whatever the others post    *)
(* and whenever anyone resolves a claim: the challenger wins against a wrong root claim, the   *)
(* defender with a right one (resolve, Act).  Only a resolution that comes before the time for *)
(* the challenger's answer is over can change that: specs/fault-dispute-game.md says there is  *)
(* none ("the potential opponent's chess clock has run out"), resolveClaim does not prevent it. *)
HonestWins ==
  ~early /\ ~late =>
    /\ status = "CHALLENGER_WINS" => ~claims[1].good
    /\ status = "DEFENDER_WINS" => claims[1].good

(* A claim the challenger would have made itself, and so every other one on its way up. *)
Ours(i) ==
  \A j \in PathTo[i] : (Depth(claims[i]) - Depth(claims[j])) % 2 = 0 =>
     claims[j].good /\ (j # 1 => claims[j].pos = NextPosition(claims[claims[j].parent]))

(* The contract never refuses a step of the honest challenger that supports one of its own     *)
(* moves: "there's always a valid claim available to support ours during step" (NextMove).     *)
OurStepsCount == \A i \in reverted : ~Ours(claims[i].parent)

(* findTraceAncestor finds a claim on the way up, as its comment promises, for every step.     *)
AncestorExists ==
  \A i \in DOMAIN claims : Depth(claims[i]) = MaxDepth =>
     /\ PostStates(i, FALSE) # {}
     /\ IndexAtDepth(Move(claims[i].pos, TRUE)) # 0 => PreStates(i, TRUE) # {}

(* Every game is resolved, or lost: one the challenger does not win, because a claim was       *)
(* resolved early or it was late, is left to others (Agent.Act, tryResolve).                   *)
EveryGameResolves ==
  <>(status # "IN_PROGRESS" \/ (rootResolved /\ ~ShouldResolve /\ (early \/ late)))
=============================================================================
