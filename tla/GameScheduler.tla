--------------------------- MODULE GameScheduler ----------------------------
(***************************************************************************)
(* The challenger's game scheduler (op-challenger/game): the monitor lists *)
(* the games at every new L1 head, one coordinator goroutine hands a job   *)
(* for each of them to MaxConcurrency workers and takes the results back,  *)
(* through bounded queues in both directions.                              *)
(***************************************************************************)
EXTENDS Integers, Sequences, FiniteSets

CONSTANTS
  Games,      \* the games, numbered in the order of the factory
  Workers,    \* worker goroutines: maxConcurrency of them
  QueueSize,  \* capacity of jobQueue and of resultQueue: 2 * maxConcurrency
  Lists,      \* bound: lists the monitor may give
  MaxLists    \* bound: number of lists it gives

ASSUME SchedulerAssumption ==
  Games \subseteq Nat /\ IsFiniteSet(Games) /\ Workers # {} /\ QueueSize \in Nat \ {0} /\ Lists \subseteq SUBSET Games /\ MaxLists \in Nat

VARIABLES
  resolved,       \* games whose contract is resolved
  scheduleQueue,  \* of capacity 1: lists of games
  listed,         \* list that schedule took last
  states,         \* coordinator.states: [player, inflight, status]
  toEnqueue,      \* jobs schedule has still to send
  jobQueue,
  resultQueue,    \* [game, status]
  worker,         \* per worker where it is, and its job
  disk,           \* games with a data directory
  lists,          \* lists given so far
  loop,           \* is the coordinator's loop running?
  closed          \* Close was called: the context is cancelled

schedulerVars == <<resolved, scheduleQueue, listed, states, toEnqueue, jobQueue, resultQueue,
                   worker, disk, lists, loop, closed>>

InProgress == "InProgress"
Resolved == "Resolved"   \* DefenderWon or ChallengerWon
Status(g) == IF g \in resolved THEN Resolved ELSE InProgress

NewState == [player |-> FALSE, inflight |-> FALSE, status |-> InProgress]

(* A game may be resolved already, and data of an earlier run may be on the disk. *)
SchedulerInit ==
  /\ resolved \in {{}, {g \in Games : \A h \in Games : g <= h}}
  /\ scheduleQueue = << >> /\ listed = {} /\ lists = 0
  /\ states = << >> /\ toEnqueue = {}
  /\ jobQueue = << >> /\ resultQueue = << >>
  /\ worker = [w \in Workers |-> [at |-> "idle"]]
  /\ disk \in {{}, Games}
  /\ loop = TRUE /\ closed = FALSE

-----------------------------------------------------------------------------
(* gameMonitor.progressGames and Scheduler.Schedule: dropped when the scheduler is busy. *)
ProgressGames(games) ==
  /\ ~closed /\ lists < MaxLists
  /\ lists' = lists + 1
  /\ scheduleQueue' = IF scheduleQueue = << >> THEN <<games>> ELSE scheduleQueue
  /\ UNCHANGED <<resolved, listed, states, toEnqueue, jobQueue, resultQueue, worker, disk, loop, closed>>

(* A faulty variant: states are dropped although a job is under way. *)
KeptListed(games) == DOMAIN states \cap games
Kept(games) == {g \in DOMAIN states : states[g].inflight \/ g \in games}

(* A faulty variant: the player is created before the state is recorded. *)
RecordedPlayers(games, failed) == Kept(games) \cup (games \ failed)
(* Every game of the list is recorded, before any job is sent. *)
Recorded(games, failed) == Kept(games) \cup games

(***************************************************************************)
(* createJob: the new state of the game, when creating a missing player    *)
(* fails for the games in failed (bound: at most one).                     *)
(***************************************************************************)
CreateJob(g, old, failed) ==
  LET state == IF g \in DOMAIN old THEN old[g] ELSE NewState
  IN IF state.inflight \/ (~state.player /\ g \in failed) THEN state
     ELSE [player |-> TRUE, inflight |-> TRUE,
           status |-> IF state.player THEN state.status ELSE Status(g)]

(***************************************************************************)
(* coordinator.schedule up to the sending of the jobs.  A state with a     *)
(* player, not in flight before and in progress, becomes a job.            *)
(***************************************************************************)
Schedule(failed) ==
  /\ loop /\ toEnqueue = {} /\ scheduleQueue # << >>
  /\ LET games == scheduleQueue[1]
         old == [g \in Kept(games) |-> states[g]]
         new == [g \in Recorded(games, failed) |->
                   IF g \in games THEN CreateJob(g, old, failed) ELSE old[g]]
     IN /\ states' = new
        /\ toEnqueue' = {g \in games \cap DOMAIN new : /\ new[g].inflight /\ new[g].status = InProgress
                                                    /\ ~(g \in DOMAIN old /\ old[g].inflight)}
        /\ listed' = games
  /\ scheduleQueue' = << >>
  /\ UNCHANGED <<resolved, jobQueue, resultQueue, worker, disk, lists, loop, closed>>

EnqueueJob(g) ==
  /\ loop /\ g \in toEnqueue /\ (\A h \in toEnqueue : g <= h) /\ Len(jobQueue) < QueueSize
  /\ jobQueue' = Append(jobQueue, g)
  /\ toEnqueue' = toEnqueue \ {g}
  /\ UNCHANGED <<resolved, scheduleQueue, listed, states, resultQueue, worker, disk, lists, loop, closed>>

(* A faulty variant: results wait until every job is sent. *)
ProcessResultWhenIdle ==
  /\ loop /\ toEnqueue = {} /\ resultQueue # << >>
  /\ LET r == resultQueue[1]
     IN states' = [states EXCEPT ![r.game].inflight = FALSE, ![r.game].status = r.status]
  /\ resultQueue' = Tail(resultQueue)
  /\ disk' = disk \cap {g \in DOMAIN states' : states'[g].status = InProgress \/ states'[g].inflight}
  /\ UNCHANGED <<resolved, scheduleQueue, listed, toEnqueue, jobQueue, worker, lists, loop, closed>>

(* processResult and deleteResolvedGameFiles, from loop or from enqueueJob. *)
ProcessResult ==
  /\ loop /\ resultQueue # << >>
  /\ LET r == resultQueue[1]
     IN IF r.game \in DOMAIN states
        THEN /\ states' = [states EXCEPT ![r.game].inflight = FALSE, ![r.game].status = r.status]
             /\ disk' = disk \cap {g \in DOMAIN states' :
                                     states'[g].status = InProgress \/ states'[g].inflight}
        ELSE UNCHANGED <<states, disk>>
  /\ resultQueue' = Tail(resultQueue)
  /\ UNCHANGED <<resolved, scheduleQueue, listed, toEnqueue, jobQueue, worker, lists, loop, closed>>

-----------------------------------------------------------------------------
(* progressGames: take a job, play, give the result. *)

TakeJob(w) ==
  /\ worker[w].at = "idle" /\ jobQueue # << >>
  /\ worker' = [worker EXCEPT ![w] = [at |-> "playing", game |-> Head(jobQueue)]]
  /\ jobQueue' = Tail(jobQueue)
  /\ UNCHANGED <<resolved, scheduleQueue, listed, states, toEnqueue, resultQueue, disk, lists, loop, closed>>

Busy(w) == worker[w].at \in {"playing", "played"}

(* GamePlayer.ProgressGame: uses the data directory; the game may be resolved by now, *)
(* by us or by others; a failing call gives InProgress.                               *)
Play(w) ==
  /\ worker[w].at = "playing"
  /\ LET g == worker[w].game
     IN /\ resolved' \in {resolved, resolved \cup {g}}
        /\ disk' = disk \cup {g}
        /\ \E status \in {InProgress, IF g \in resolved' THEN Resolved ELSE InProgress} :
             worker' = [worker EXCEPT ![w] = [at |-> "played", game |-> g, status |-> status]]
  /\ UNCHANGED <<scheduleQueue, listed, states, toEnqueue, jobQueue, resultQueue, lists, loop, closed>>

GiveResult(w) ==
  /\ worker[w].at = "played" /\ Len(resultQueue) < QueueSize
  /\ resultQueue' = Append(resultQueue, [game |-> worker[w].game, status |-> worker[w].status])
  /\ worker' = [worker EXCEPT ![w] = [at |-> "idle"]]
  /\ UNCHANGED <<resolved, scheduleQueue, listed, states, toEnqueue, jobQueue, disk, lists, loop, closed>>

-----------------------------------------------------------------------------
(* Scheduler.Close cancels the context and waits for the goroutines. *)

Close ==
  /\ ~closed /\ closed' = TRUE
  /\ UNCHANGED <<resolved, scheduleQueue, listed, states, toEnqueue, jobQueue, resultQueue, worker,
                 disk, lists, loop>>

(* enqueueJob gives every job up, and the loop returns. *)
LoopDone ==
  /\ closed /\ loop
  /\ loop' = FALSE /\ toEnqueue' = {}
  /\ UNCHANGED <<resolved, scheduleQueue, listed, states, jobQueue, resultQueue, worker, disk,
                 lists, closed>>

WorkerDone(w) ==
  /\ closed /\ worker[w].at = "idle"
  /\ worker' = [worker EXCEPT ![w] = [at |-> "done"]]
  /\ UNCHANGED <<resolved, scheduleQueue, listed, states, toEnqueue, jobQueue, resultQueue, disk,
                 lists, loop, closed>>

WorkerStep(w) == TakeJob(w) \/ Play(w) \/ GiveResult(w) \/ WorkerDone(w)

SchedulerNext ==
  \/ \E g \in Games : EnqueueJob(g)
  \/ \E games \in Lists : ProgressGames(games)
  \/ Schedule({}) \/ \E g \in Games : Schedule({g})
  \/ ProcessResult \/ Close \/ LoopDone
  \/ \E w \in Workers : WorkerStep(w)

SchedulerSpec == SchedulerInit /\ [][SchedulerNext]_schedulerVars

(* The goroutines run; a select on several ready channels starves none of them. *)
SchedulerFairness ==
  /\ SF_schedulerVars(ProcessResult) /\ WF_schedulerVars(LoopDone)
  /\ SF_schedulerVars(\E g \in Games : EnqueueJob(g))
  /\ WF_schedulerVars(Schedule({}) \/ \E g \in Games : Schedule({g}))
  /\ \A w \in Workers : WF_schedulerVars(WorkerStep(w))

SchedulerFairSpec == SchedulerSpec /\ SchedulerFairness

-----------------------------------------------------------------------------
Results == [game : Games, status : {InProgress, Resolved}]
ToSet(s) == {s[i] : i \in DOMAIN s}

(* Types, and the queues stay within their capacity. *)
SchedulerTypeOK ==
  /\ resolved \subseteq Games /\ listed \subseteq Games /\ toEnqueue \subseteq Games
  /\ disk \subseteq Games /\ DOMAIN states \subseteq Games
  /\ states \in [DOMAIN states -> [player : BOOLEAN, inflight : BOOLEAN, status : {InProgress, Resolved}]]
  /\ ToSet(jobQueue) \subseteq Games /\ Len(jobQueue) <= QueueSize
  /\ ToSet(resultQueue) \subseteq Results /\ Len(resultQueue) <= QueueSize
  /\ \A w \in Workers : worker[w].at \in {"idle", "playing", "played", "done"}
  /\ Len(scheduleQueue) <= 1 /\ lists \in 0..MaxLists /\ loop \in BOOLEAN /\ closed \in BOOLEAN

(* Where the jobs of a game are. *)
Jobs(g) ==
  {<<"enqueue", h>> : h \in toEnqueue \cap {g}}
  \cup {<<"queued", i>> : i \in {i \in DOMAIN jobQueue : jobQueue[i] = g}}
  \cup {<<"worker", w>> : w \in {w \in Workers : Busy(w) /\ worker[w].game = g}}
  \cup {<<"result", i>> : i \in {i \in DOMAIN resultQueue : resultQueue[i].game = g}}

(* A game has at most one job at any time, so no two workers ever play it at once, *)
(* and a game with a job has a state that says so: no result is ever unexpected.   *)
OneJobPerGame ==
  \A g \in Games : /\ Cardinality(Jobs(g)) <= 1
                   /\ loop /\ Jobs(g) # {} => g \in DOMAIN states /\ states[g].inflight

(* deleteResolvedGameFiles never removes the data of a game of the current list that *)
(* is not resolved, nor of one that is being played, even if its player could not be *)
(* created.                                                                          *)
FilesKept ==
  [][\A g \in disk \ disk' : g \notin resolved => g \notin listed /\ Jobs(g) = {}]_schedulerVars

(* Workers and coordinator never wait for each other: every job that schedule made  *)
(* is played and its result processed, unless the scheduler is closed.              *)
EveryJobProcessed == \A g \in Games : g \in toEnqueue ~> (closed \/ Jobs(g) = {})
=============================================================================
