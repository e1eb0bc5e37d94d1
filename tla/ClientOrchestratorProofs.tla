---------------------- MODULE ClientOrchestratorProofs ----------------------
(***************************************************************************)
(* Proofs about the orchestrator, for any torrents, announce tasks,        *)
(* detached tasks, pool size, trackers and users.                          *)
(*                                                                         *)
(* Whatever the orchestrator does to its executor and to its delay queue   *)
(* is a behaviour of AnnouncerExecutor and of ReplacingQueue, so what is   *)
(* proved of the executor alone holds inside the engine.  That a step of   *)
(* the engine is a legal call needs more than types: an errand must have a *)
(* torrent where it is about to use one, and the handler chain must stop   *)
(* at AnnounceReEnqueuer only for an event it queues.  The next parts say  *)
(* which steps can forget a torrent of the pool, and which can lose a      *)
(* completed download.  The last ones follow the stop of a torrent from    *)
(* the request to the removal, and draw from it how far the pool can be    *)
(* overfilled, what trackers are told of a torrent and how a stop can be   *)
(* lost.                                                                   *)
(***************************************************************************)
EXTENDS AnnounceHistory, FiniteSetTheorems, TLAPS

X == INSTANCE AnnouncerExecutorProofs

\* An errand that is about to use a torrent has one.
WellPlaced(d) ==
    /\ \/ d.kind = "stopped"
       \/ d.step \in {"move", "notify", "insert", "count", "remove", "deny"}
       => d.about \in Torrent
    /\ d.step \in {"add", "enqueue"} => d.pick \in Torrent

ErrandInv == \A a \in Actor : WellPlaced(doing[a])

\* Only a task past the tracker runs handlers, and the first of them only for
\* an event it will queue.
HandlerInv ==
    \A t \in Task :
        /\ handler[t] # "none" => phase[t] = "handling"
        /\ handler[t] = "enqueue" => FollowUp(event[t], outcome[t]) # NoRequest

\* TypeOK, but for the executor's variables.
TaskTypes ==
    /\ event \in [Task -> Event]
    /\ outcome \in [Task -> Outcome \cup {"none"}]
    /\ handler \in [Task -> {"none", "enqueue", "credit", "notify", "leave"}]

PoolTypes ==
    /\ files \subseteq Torrent
    /\ listening \in BOOLEAN
    /\ live \subseteq Torrent
    /\ completedBit \subseteq live
    /\ credited \subseteq Torrent

QueueTypes ==
    /\ pending \in [Torrent -> Event \cup {NoRequest}]
    /\ ready \in [Torrent -> Event \cup {NoRequest}]

EngineTypes ==
    /\ engine \in {"seeding", "running", "stopping", "deaf", "sweepPending",
                   "sweepLive", "awaiting", "stopped"}
    /\ toSeed \in 0..Seed

OwnInv == /\ TaskTypes /\ HandlerInv
          /\ PoolTypes /\ QueueTypes /\ EngineTypes
          /\ doing \in [Actor -> Errand] /\ ErrandInv

ExecutorInv == X!TypeOK /\ X!PermitsConserved

IInv == ExecutorInv /\ OwnInv
-----------------------------------------------------------------------------
(* The executor inside the engine.                                         *)

LEMMA SameCardinality == ASSUME NEW S PROVE E!Cardinality(S) = X!Cardinality(S)
BY DEF E!Cardinality, X!Cardinality

\* E and X name the same instance, without and with its theorems.
LEMMA SameExecutor ==
    /\ E!Init => X!Init
    /\ E!Next => X!Next
    /\ UNCHANGED (E!vars) => UNCHANGED (X!vars)
    /\ X!TypeOK => E!TypeOK
    /\ X!PermitsConserved => E!PermitsConserved
<1>1. E!Init => X!Init
  BY DEF E!Init, X!Init
<1>2. ASSUME NEW S PROVE E!Abort(S) => X!Abort(S)
  BY SameCardinality DEF E!Abort, X!Abort, E!Holders, X!Holders
<1>3. E!Next => X!Next
  BY <1>2 DEF E!Next, E!Spawn, E!Submit, E!AcquirePermit, E!Respond, E!Leave,
      E!Deny, E!DenyAll, E!BeginAwait, E!AwaitReturn, E!AwaitTimeout, E!Free,
      E!Unfinished, E!Registered, X!Next, X!Spawn, X!Submit, X!AcquirePermit,
      X!Respond, X!Leave, X!Deny, X!DenyAll, X!BeginAwait, X!AwaitReturn,
      X!AwaitTimeout, X!Free, X!Unfinished, X!Registered
<1>4. UNCHANGED (E!vars) => UNCHANGED (X!vars)
  BY DEF E!vars, X!vars
<1>5. X!TypeOK => E!TypeOK
  BY DEF E!TypeOK, X!TypeOK, E!Phase, X!Phase
<1>6. X!PermitsConserved => E!PermitsConserved
  BY SameCardinality DEF E!PermitsConserved, X!PermitsConserved, E!Holders, X!Holders
<1> QED
  BY <1>1, <1>3, <1>4, <1>5, <1>6

LEMMA ExecutorKeeps ==
    /\ X!Init => ExecutorInv
    /\ ExecutorInv /\ [X!Next]_(X!vars) => ExecutorInv'
<1>1. /\ X!IsFiniteSet(Task)
      /\ NoTask \notin Task
      /\ MaxConcurrentAnnounces \in Nat \ {0}
  BY OrchestratorAssumption DEF X!IsFiniteSet, IsFiniteSet
<1>2. X!Init => X!IInv
  BY <1>1, X!InitIInv
<1>3. X!IInv /\ [X!Next]_(X!vars) => X!IInv'
  BY <1>1, X!NextIInv
<1> QED
  BY <1>2, <1>3 DEF ExecutorInv, X!IInv

\* What the orchestrator relies on: an abort spares a task in its handlers.
LEMMA AbortSparesHandlers ==
    ASSUME E!TypeOK, NEW S, E!Abort(S), NEW t \in Task, phase[t] = "handling"
    PROVE  phase'[t] = "handling"
BY DEF E!Abort, E!TypeOK, E!Phase

\* Each step of the engine is a step of its executor, or leaves it alone.
LEMMA StepsOfExecutor == ASSUME IInv, [Next]_vars PROVE [E!Next]_(E!vars)
<1> USE DEF executorVars, taskVars, E!vars
<1>1. CASE LoopStep
  BY <1>1 DEF LoopStep, Tick, Skip, Dispatch, Submit, E!Next
<1>2. CASE CallerStep
  BY <1>2 DEF CallerStep, SeedNext, Listen, Unlisten, SweepPending, SweepLive,
              BeginAwait, EndAwait, E!Next
<1>3. ASSUME NEW t \in Task, AcquirePermit(t) \/ HandlerStep(t)
      PROVE  [E!Next]_(E!vars)
  BY <1>3 DEF AcquirePermit, HandlerStep, Respond, Enqueue, Credit,
              DropWhileStopping, ArchiveTorrent, ReplaceStopped, ReplaceFailed,
              Leave, E!Next
<1>4. ASSUME NEW a \in Actor, ErrandStep(a) PROVE [E!Next]_(E!vars)
  <2>1. CASE Deny(a)
    <3>1. doing[a].about \in Torrent
      BY <2>1 DEF Deny, IInv, OwnInv, ErrandInv, WellPlaced
    <3> QED
      BY <2>1, <3>1 DEF Deny, E!Next
  <2>2. CASE ~Deny(a)
    BY <1>4, <2>2 DEF ErrandStep, Move, FileGone, Notify, Insert, Count, Exclude,
        NoMoreTorrents, Add, AddFails, Choose, Pull, EnqueueStart, Remove
  <2> QED
    BY <2>1, <2>2
<1>5. CASE UserStep
  BY <1>5 DEF UserStep, AnnounceAllNow, BeginStop, MarkCompletedPending, FileEvent
<1>6. CASE UNCHANGED vars
  BY <1>6 DEF vars
<1> QED
  BY <1>1, <1>2, <1>3, <1>4, <1>5, <1>6 DEF Next
-----------------------------------------------------------------------------
(* The rest of the state.                                                  *)

LEMMA FollowUpIsEvent ==
    ASSUME NEW e, NEW o PROVE FollowUp(e, o) \in Event \cup {NoRequest}
BY DEF FollowUp, Event

\* A step that touches neither what tasks announce nor their handlers.
TasksAlone == UNCHANGED <<event, outcome, handler>>

\* An executor step that no handler takes leaves the handlers what they need.
LEMMA HandlersUndisturbed ==
    ASSUME IInv, TasksAlone,
           \A t \in Task : phase[t] = "handling" => phase'[t] = "handling"
    PROVE  TaskTypes' /\ HandlerInv'
BY DEF IInv, OwnInv, TaskTypes, HandlerInv, TasksAlone, FollowUp

\* A new value of one errand is all that changes in doing.
LEMMA OneErrand ==
    ASSUME IInv, NEW a \in Actor, NEW d \in Errand, WellPlaced(d),
           doing' = [doing EXCEPT ![a] = d]
    PROVE  doing' \in [Actor -> Errand] /\ ErrandInv'
<1>1. doing \in [Actor -> Errand] /\ ErrandInv
  BY DEF IInv, OwnInv
<1>2. doing' \in [Actor -> Errand]
  BY <1>1
<1>3. ASSUME NEW b \in Actor PROVE WellPlaced(doing'[b])
  BY <1>1 DEF ErrandInv
<1> QED
  BY <1>2, <1>3 DEF ErrandInv, WellPlaced

\* A new errand about a torrent.
LEMMA BeginKeeps ==
    ASSUME IInv, NEW a \in Actor, NEW k \in Kind, NEW s \in Step \ {"add", "enqueue"},
           NEW h \in Torrent, doing' = Begin(a, k, s, h)
    PROVE  doing' \in [Actor -> Errand] /\ ErrandInv'
<1> DEFINE d == [Idle EXCEPT !.kind = k, !.step = s, !.about = h]
<1>1. d \in Errand /\ WellPlaced(d)
  BY DEF Idle, Errand, WellPlaced
<1>2. doing' = [doing EXCEPT ![a] = d]
  BY DEF Begin
<1> QED
  BY <1>1, <1>2, OneErrand

LEMMA IdleIsErrand == Idle \in Errand /\ WellPlaced(Idle)
BY DEF Idle, Errand, Kind, Step, WellPlaced

\* An errand may go on to any step that uses the torrent it is already about.
LEMMA AdvancedIsErrand ==
    ASSUME IInv, NEW a \in Actor, NEW s \in Step \ {"move"},
           NEW p \in Torrent \cup {NoTorrent}, NEW S \in SUBSET Torrent,
           s \in {"insert", "notify", "count", "remove", "deny"} => doing[a].about \in Torrent,
           s \in {"add", "enqueue"} => doing[a].pick \in Torrent
    PROVE  /\ Advanced(a, s) \in Errand
           /\ WellPlaced(Advanced(a, s))
           /\ [Advanced(a, s) EXCEPT !.snapshot = S] \in Errand
           /\ WellPlaced([Advanced(a, s) EXCEPT !.snapshot = S])
           /\ s \notin {"add", "enqueue"} =>
                /\ [Advanced(a, s) EXCEPT !.pick = p] \in Errand
                /\ WellPlaced([Advanced(a, s) EXCEPT !.pick = p])
<1>1. doing[a] \in Errand /\ WellPlaced(doing[a])
  BY DEF IInv, OwnInv, ErrandInv
<1>2. CASE s = "idle"
  BY <1>2, IdleIsErrand DEF Advanced, Idle, Errand, Kind, Step, WellPlaced
<1>3. CASE s # "idle"
  BY <1>1, <1>3 DEF Advanced, Errand, Step, WellPlaced
<1> QED
  BY <1>2, <1>3

LEMMA ErrandKeepsDoing ==
    ASSUME IInv, NEW a \in Actor, ErrandStep(a)
    PROVE  doing' \in [Actor -> Errand] /\ ErrandInv'
<1>1. /\ doing[a] \in Errand /\ WellPlaced(doing[a])
      /\ doing \in [Actor -> Errand] 
      /\ live \subseteq Torrent /\ files \subseteq Torrent
  BY DEF IInv, OwnInv, ErrandInv, PoolTypes
<1> SUFFICES \E d \in Errand : WellPlaced(d) /\ doing' = [doing EXCEPT ![a] = d]
  BY OneErrand
<1>2. CASE Move(a) \/ FileGone(a)
  BY <1>1, <1>2, AdvancedIsErrand DEF Move, FileGone, Goto, AfterRemoval, WellPlaced, Step
<1>3. CASE Notify(a) \/ Insert(a)
  BY <1>1, <1>3, AdvancedIsErrand DEF Notify, Insert, Goto, AfterRemoval, WellPlaced, Step
<1>4. CASE Count(a)
  BY <1>1, <1>4, IdleIsErrand DEF Count, WellPlaced, Errand, Step
<1>5. CASE Exclude(a)
  BY <1>1, <1>5 DEF Exclude, WellPlaced, Errand, Step
<1>6. ASSUME NEW h \in Torrent, Choose(a, h)
      PROVE  \E d \in Errand : WellPlaced(d) /\ doing' = [doing EXCEPT ![a] = d]
  BY <1>1, <1>6 DEF Choose, WellPlaced, Errand, Step
<1>7. ASSUME NEW h \in Torrent, Pull(a, h)
      PROVE  \E d \in Errand : WellPlaced(d) /\ doing' = [doing EXCEPT ![a] = d]
  BY <1>1, <1>7, IdleIsErrand DEF Pull, WellPlaced, Errand, Step
<1>8. CASE NoMoreTorrents(a)
  BY <1>1, <1>8, AdvancedIsErrand DEF NoMoreTorrents, AfterRefill, WellPlaced, Step
<1>9. CASE Add(a) \/ Remove(a) \/ Deny(a)
  BY <1>1, <1>9, AdvancedIsErrand DEF Add, Remove, Deny, Goto, WellPlaced, Step
<1>10. CASE AddFails(a) \/ EnqueueStart(a)
  BY <1>1, <1>10, AdvancedIsErrand DEF AddFails, EnqueueStart, AfterRefill, WellPlaced, Step
<1> QED
  BY <1>2, <1>3, <1>4, <1>5, <1>6, <1>7, <1>8, <1>9, <1>10 DEF ErrandStep

LEMMA ErrandKeeps == ASSUME IInv, NEW a \in Actor, ErrandStep(a) PROVE OwnInv'
<1> USE DEF taskVars, executorVars, poolVars, queueVars, engineVars
<1>1. E!TypeOK /\ TaskTypes /\ HandlerInv /\ PoolTypes /\ QueueTypes /\ EngineTypes
  BY SameExecutor DEF IInv, OwnInv, ExecutorInv
<1>2. WellPlaced(doing[a]) /\ doing[a] \in Errand
  BY DEF IInv, OwnInv, ErrandInv
<1>3. doing' \in [Actor -> Errand] /\ ErrandInv'
  BY ErrandKeepsDoing
<1>4. TaskTypes' /\ HandlerInv'
  <2>1. CASE Deny(a)
    <3>1. \A t \in Task : phase[t] = "handling" => phase'[t] = "handling"
      BY <1>1, <2>1, AbortSparesHandlers DEF Deny, E!Deny
    <3> QED
      BY <2>1, <3>1, HandlersUndisturbed DEF Deny, TasksAlone
  <2>2. CASE ~Deny(a)
    BY <2>2, HandlersUndisturbed DEF ErrandStep, Move, FileGone, Notify, Insert,
       Count, Exclude, NoMoreTorrents, Add, AddFails, Choose, Pull, EnqueueStart,
       Remove, TasksAlone
  <2> QED
    BY <2>1, <2>2
<1>5. PoolTypes'
  <2>1. CASE Move(a) \/ Insert(a) \/ Add(a) \/ Remove(a)
    BY <1>1, <1>2, <2>1 DEF PoolTypes, WellPlaced, Move, Insert, Add, Remove
  <2>2. CASE UNCHANGED <<poolVars, credited>>
    BY <1>1, <2>2 DEF PoolTypes
  <2> QED
    BY <2>1, <2>2 DEF ErrandStep, FileGone, Notify, Count, Exclude,
       NoMoreTorrents, AddFails, Choose, Pull, EnqueueStart, Deny
<1>6. QueueTypes'
  <2>1. CASE Notify(a)
    BY <1>1, <1>2, <2>1 DEF Notify, QueueTypes, WellPlaced, Event, Q!Replaced
  <2>2. CASE EnqueueStart(a)
    BY <1>1, <1>2, <2>2 DEF EnqueueStart, QueueTypes, WellPlaced, Event, Q!Replaced
  <2>3. ASSUME NEW h \in Torrent, Pull(a, h) PROVE QueueTypes'
    BY <1>1, <2>3 DEF Pull, QueueTypes, Event, Q!Replaced
  <2>4. CASE UNCHANGED queueVars
    BY <1>1, <2>4 DEF QueueTypes
  <2> QED
    BY <2>1, <2>2, <2>3, <2>4 DEF ErrandStep, Move, FileGone, Insert, Count,
       Exclude, NoMoreTorrents, Add, AddFails, Choose, Remove, Deny
<1>7. EngineTypes'
  <2>1. CASE NoMoreTorrents(a)
    BY <1>1, <2>1, OrchestratorAssumption DEF NoMoreTorrents, EngineTypes
  <2>2. CASE UNCHANGED engineVars
    BY <1>1, <2>2 DEF EngineTypes
  <2> QED
    BY <2>1, <2>2 DEF ErrandStep, Move, FileGone, Notify, Insert, Count, Exclude,
       Add, AddFails, Choose, Pull, EnqueueStart, Remove, Deny
<1> QED
  BY <1>3, <1>4, <1>5, <1>6, <1>7 DEF OwnInv

LEMMA LoopKeeps == ASSUME IInv, LoopStep PROVE OwnInv'
<1> USE DEF taskVars, executorVars, poolVars, queueVars, engineVars
<1>1. /\ E!TypeOK /\ TaskTypes /\ HandlerInv /\ PoolTypes /\ QueueTypes /\ EngineTypes
      /\ doing \in [Actor -> Errand] /\ ErrandInv
  BY SameExecutor DEF IInv, OwnInv, ExecutorInv
<1>2. ASSUME NEW S \in SUBSET Torrent, Tick(S) PROVE OwnInv'
  <2>1. QueueTypes'
    BY <1>1, <1>2 DEF Tick, QueueTypes, Q!Without
  <2> QED
    BY <1>1, <1>2, <2>1 DEF Tick, OwnInv, TaskTypes, HandlerInv, PoolTypes,
       EngineTypes, ErrandInv, WellPlaced, FollowUp
<1>3. ASSUME NEW h \in Torrent, Skip(h) PROVE OwnInv'
  <2>1. QueueTypes'
    BY <1>1, <1>3 DEF Skip, QueueTypes
  <2> QED
    BY <1>1, <1>3, <2>1 DEF Skip, OwnInv, TaskTypes, HandlerInv, PoolTypes,
       EngineTypes, ErrandInv, WellPlaced, FollowUp
<1>4. ASSUME NEW h \in Torrent, NEW t \in Task, Dispatch(h, t) PROVE OwnInv'
  <2>1. /\ phase[t] = "ended"
        /\ phase' = [phase EXCEPT ![t] = "waiting"]
    BY <1>1, <1>4 DEF Dispatch, E!Spawn, E!Free, E!Unfinished
  <2>2. \E e \in Event : event' = [event EXCEPT ![t] = e]
    BY <1>1, <1>4 DEF Dispatch, QueueTypes, Event
  <2>3. TaskTypes'
    BY <1>1, <1>4, <2>2 DEF Dispatch, TaskTypes
  <2>4. ASSUME NEW u \in Task
        PROVE  /\ handler'[u] # "none" => phase'[u] = "handling"
               /\ handler'[u] = "enqueue" => FollowUp(event'[u], outcome'[u]) # NoRequest
    <3>1. CASE u = t
      BY <1>1, <1>4, <2>1, <3>1 DEF Dispatch, HandlerInv
    <3>2. CASE u # t
      BY <1>1, <1>4, <2>1, <2>2, <3>2
         DEF Dispatch, HandlerInv, TaskTypes, E!TypeOK
    <3> QED
      BY <3>1, <3>2
  <2>5. HandlerInv'
    BY <2>4 DEF HandlerInv, FollowUp
  <2>6. PoolTypes' /\ QueueTypes'
    BY <1>1, <1>4 DEF Dispatch, PoolTypes, QueueTypes
  <2> QED
    BY <1>1, <1>4, <2>3, <2>5, <2>6
       DEF Dispatch, OwnInv, EngineTypes, ErrandInv, WellPlaced
<1>5. CASE Submit
  <2>1. \A t \in Task : phase[t] = "handling" => phase'[t] = "handling"
    BY <1>1, <1>5, AbortSparesHandlers DEF Submit, E!Submit
  <2>2. TaskTypes' /\ HandlerInv'
    BY <1>5, <2>1, HandlersUndisturbed DEF Submit, TasksAlone
  <2> QED
    BY <1>1, <1>5, <2>2 DEF Submit, OwnInv, PoolTypes, QueueTypes, EngineTypes,
       ErrandInv, WellPlaced
<1> QED
  BY <1>2, <1>3, <1>4, <1>5 DEF LoopStep

LEMMA CallerKeeps == ASSUME IInv, CallerStep PROVE OwnInv'
<1> USE DEF taskVars, executorVars, poolVars, queueVars, engineVars
<1>1. /\ E!TypeOK /\ TaskTypes /\ HandlerInv /\ PoolTypes /\ QueueTypes /\ EngineTypes
      /\ doing \in [Actor -> Errand] /\ ErrandInv
  BY SameExecutor DEF IInv, OwnInv, ExecutorInv
<1>2. TaskTypes' /\ HandlerInv'
  BY HandlersUndisturbed DEF CallerStep, SeedNext, Listen, Unlisten, SweepPending,
     SweepLive, BeginAwait, EndAwait, TasksAlone, E!BeginAwait, E!AwaitReturn,
     E!AwaitTimeout
<1>3. PoolTypes'
  BY <1>1 DEF PoolTypes, CallerStep, SeedNext, Listen, Unlisten, SweepPending,
     SweepLive, BeginAwait, EndAwait
<1>4. QueueTypes'
  BY <1>1 DEF QueueTypes, Q!Without, Event, CallerStep, SeedNext, Listen, Unlisten,
     SweepPending, SweepLive, BeginAwait, EndAwait
<1>5. EngineTypes'
  BY <1>1, OrchestratorAssumption DEF EngineTypes, CallerStep, SeedNext, Listen,
     Unlisten, SweepPending, SweepLive, BeginAwait, EndAwait
<1>6. doing' \in [Actor -> Errand] /\ ErrandInv'
  <2>1. CASE SeedNext
    <3>1. Engine \in Actor
      BY DEF Actor
    <3> DEFINE d == [Idle EXCEPT !.kind = "seed", !.step = "exclude", !.about = NoTorrent]
    <3>2. d \in Errand /\ WellPlaced(d)
      BY DEF Idle, Errand, Kind, Step, WellPlaced
    <3>3. doing' = [doing EXCEPT ![Engine] = d]
      BY <2>1 DEF SeedNext, Begin
    <3> QED
      BY <3>1, <3>2, <3>3, OneErrand
  <2>2. CASE doing' = doing
    BY <1>1, <2>2 DEF ErrandInv, WellPlaced
  <2> QED
    BY <2>1, <2>2 DEF CallerStep, Listen, Unlisten, SweepPending, SweepLive,
       BeginAwait, EndAwait
<1> QED
  BY <1>2, <1>3, <1>4, <1>5, <1>6 DEF OwnInv

LEMMA UserKeeps == ASSUME IInv, UserStep PROVE OwnInv'
<1> USE DEF taskVars, executorVars, poolVars, queueVars, engineVars
<1>1. /\ TaskTypes /\ HandlerInv /\ PoolTypes /\ QueueTypes /\ EngineTypes
      /\ doing \in [Actor -> Errand] /\ ErrandInv
  BY DEF IInv, OwnInv
<1>2. TaskTypes' /\ HandlerInv'
  BY HandlersUndisturbed DEF UserStep, AnnounceAllNow, BeginStop,
     MarkCompletedPending, FileEvent, TasksAlone
<1>3. PoolTypes' /\ QueueTypes' /\ EngineTypes'
  BY <1>1 DEF PoolTypes, QueueTypes, EngineTypes, UserStep, AnnounceAllNow,
     BeginStop, MarkCompletedPending, FileEvent
<1>4. doing' \in [Actor -> Errand] /\ ErrandInv'
  <2>1. CASE AnnounceAllNow
    <3> DEFINE d == [Idle EXCEPT !.kind = "announceAll", !.step = "pull",
                                 !.snapshot = live]
    <3>1. d \in Errand /\ WellPlaced(d)
      BY <1>1 DEF Idle, Errand, Kind, Step, WellPlaced, PoolTypes
    <3>2. Merger \in Actor /\ doing' = [doing EXCEPT ![Merger] = d]
      BY <2>1 DEF AnnounceAllNow, Actor
    <3> QED
      BY <3>1, <3>2, OneErrand
  <2>2. ASSUME NEW h \in Torrent, FileEvent(h)
        PROVE  doing' \in [Actor -> Errand] /\ ErrandInv'
    <3>1. PICK k \in {"created", "deleted", "changed"}, s \in {"insert", "move"} :
             doing' = Begin(Watcher, k, s, h)
      BY <2>2 DEF FileEvent
    <3> QED
      BY <3>1, BeginKeeps DEF Actor, Kind, Step
  <2>3. CASE doing' = doing
    BY <1>1, <2>3 DEF ErrandInv, WellPlaced
  <2> QED
    BY <2>1, <2>2, <2>3 DEF UserStep, BeginStop, MarkCompletedPending
<1> QED
  BY <1>2, <1>3, <1>4 DEF OwnInv

\* The announce tasks: one step of one task.
LEMMA TaskKeeps ==
    ASSUME IInv, NEW t \in Task, AcquirePermit(t) \/ HandlerStep(t)
    PROVE  OwnInv'
<1> USE DEF taskVars, executorVars, poolVars, queueVars, engineVars
<1>1. /\ E!TypeOK /\ TaskTypes /\ HandlerInv /\ PoolTypes /\ QueueTypes /\ EngineTypes
      /\ doing \in [Actor -> Errand] /\ ErrandInv
  BY SameExecutor DEF IInv, OwnInv, ExecutorInv
<1>2. target[t] \in Torrent
  BY <1>1 DEF E!TypeOK
\* What t's step does to its own handler is all that can disturb HandlerInv.
<1>3. ASSUME HandlerStep(t), NEW e,
             e \in {"none", "enqueue", "credit", "notify", "leave"},
             handler' = [handler EXCEPT ![t] = e],
             event' = event,
             \A u \in Task \ {t} : outcome'[u] = outcome[u] /\ phase'[u] = phase[u],
             outcome' \in [Task -> Outcome \cup {"none"}],
             e # "none" => phase'[t] = "handling",
             e = "enqueue" => FollowUp(event[t], outcome'[t]) # NoRequest
      PROVE  TaskTypes' /\ HandlerInv'
  <2>1. TaskTypes'
    BY <1>1, <1>3 DEF TaskTypes
  <2>2. ASSUME NEW u \in Task
        PROVE  /\ handler'[u] # "none" => phase'[u] = "handling"
               /\ handler'[u] = "enqueue" => FollowUp(event'[u], outcome'[u]) # NoRequest
    <3>1. CASE u = t
      BY <1>1, <1>3, <3>1 DEF TaskTypes
    <3>2. CASE u # t
      BY <1>1, <1>3, <3>2 DEF TaskTypes, HandlerInv
    <3> QED
      BY <3>1, <3>2
  <2> QED
    BY <2>1, <2>2 DEF HandlerInv, FollowUp
<1>4. CASE AcquirePermit(t)
  <2>1. \A u \in Task : phase[u] = "handling" => phase'[u] = "handling"
    BY <1>1, <1>4 DEF AcquirePermit, E!AcquirePermit, E!TypeOK
  <2>2. TaskTypes' /\ HandlerInv'
    BY <1>4, <2>1, HandlersUndisturbed DEF AcquirePermit, TasksAlone
  <2> QED
    BY <1>1, <1>4, <2>2 DEF AcquirePermit, OwnInv, PoolTypes, QueueTypes,
       EngineTypes, ErrandInv, WellPlaced
<1>5. ASSUME NEW o \in Outcome, Respond(t, o) PROVE OwnInv'
  <2>1. /\ phase[t] = "announcing" /\ phase' = [phase EXCEPT ![t] = "handling"]
        /\ phase \in [Task -> E!Phase]
    BY <1>1, <1>5 DEF Respond, E!Respond, E!TypeOK
  <2> DEFINE e == FirstHandler(event[t], o)
  <2>2. e \in {"enqueue", "credit", "notify", "leave"}
    BY DEF FirstHandler, AfterEnqueue, AfterCredit
  <2>3. e = "enqueue" => FollowUp(event[t], o) # NoRequest
    BY DEF FirstHandler, AfterEnqueue, AfterCredit
  <2>4. outcome' = [outcome EXCEPT ![t] = o] /\ handler' = [handler EXCEPT ![t] = e]
    BY <1>5 DEF Respond
  <2>5. outcome' \in [Task -> Outcome \cup {"none"}] /\ outcome'[t] = o
    BY <1>1, <2>4 DEF TaskTypes
  <2>6. HandlerStep(t) /\ event' = event
    BY <1>5 DEF HandlerStep, Respond
  <2>7. \A u \in Task \ {t} : outcome'[u] = outcome[u] /\ phase'[u] = phase[u]
    BY <1>1, <2>1, <2>4 DEF TaskTypes
  <2>8. phase'[t] = "handling"
    BY <2>1
  <2> HIDE DEF e
  <2>9. TaskTypes' /\ HandlerInv'
    BY <1>3, <2>2, <2>3, <2>4, <2>5, <2>6, <2>7, <2>8 DEF e
  <2> QED
    BY <1>1, <1>5, <2>9 DEF Respond, OwnInv, PoolTypes, QueueTypes, EngineTypes,
       ErrandInv, WellPlaced
<1>6. CASE Enqueue(t)
  <2>1. phase[t] = "handling" /\ FollowUp(event[t], outcome[t]) \in Event
    BY <1>1, <1>6, FollowUpIsEvent DEF Enqueue, HandlerInv
  <2>2. AfterEnqueue(event[t], outcome[t]) \in {"credit", "notify", "leave"}
    BY DEF AfterEnqueue, AfterCredit
  <2>3. TaskTypes' /\ HandlerInv'
    BY <1>1, <1>3, <1>6, <2>1, <2>2 DEF Enqueue, HandlerStep, TaskTypes
  <2>4. QueueTypes'
    BY <1>1, <1>2, <1>6, <2>1 DEF Enqueue, QueueTypes, Q!Replaced
  <2> QED
    BY <1>1, <1>6, <2>3, <2>4 DEF Enqueue, OwnInv, PoolTypes, EngineTypes,
       ErrandInv, WellPlaced
<1>7. CASE Credit(t)
  <2>1. phase[t] = "handling"
    BY <1>1, <1>7 DEF Credit, HandlerInv
  <2>2. AfterCredit(event[t], outcome[t]) \in {"notify", "leave"}
    BY DEF AfterCredit
  <2>3. TaskTypes' /\ HandlerInv'
    BY <1>1, <1>3, <1>7, <2>1, <2>2 DEF Credit, HandlerStep, TaskTypes
  <2>4. PoolTypes'
    BY <1>1, <1>2, <1>7 DEF Credit, PoolTypes
  <2> QED
    BY <1>1, <1>7, <2>3, <2>4 DEF Credit, OwnInv, QueueTypes, EngineTypes,
       ErrandInv, WellPlaced
<1>8. ASSUME \/ DropWhileStopping(t)
             \/ \E j \in Job : ArchiveTorrent(t, j) \/ ReplaceStopped(t, j)
                                   \/ ReplaceFailed(t, j)
      PROVE  OwnInv'
  <2>1. /\ handler[t] = "notify" /\ handler' = [handler EXCEPT ![t] = "leave"]
        /\ UNCHANGED <<executorVars, event, outcome>>
    BY <1>8 DEF DropWhileStopping, ArchiveTorrent, ReplaceStopped, ReplaceFailed
  <2>2. phase[t] = "handling" /\ HandlerStep(t)
    BY <1>1, <1>8, <2>1 DEF HandlerInv, HandlerStep
  <2>3. TaskTypes' /\ HandlerInv'
    BY <1>1, <1>3, <2>1, <2>2 DEF TaskTypes
  <2>4. PoolTypes' /\ QueueTypes' /\ EngineTypes'
    BY <1>1, <1>8 DEF DropWhileStopping, ArchiveTorrent, ReplaceStopped,
       ReplaceFailed, PoolTypes, QueueTypes, EngineTypes
  <2>5. doing' \in [Actor -> Errand] /\ ErrandInv'
    <3>1. CASE doing' = doing
      BY <1>1, <3>1 DEF ErrandInv, WellPlaced
    <3>2. CASE doing' # doing
      <4>1. PICK j \in Job, k \in {"archive", "stopped", "failed"},
                 s \in {"move", "exclude"} : doing' = Begin(j, k, s, target[t])
        BY <1>8, <3>2 DEF DropWhileStopping, ArchiveTorrent, ReplaceStopped,
           ReplaceFailed
      <4> QED
        BY <1>2, <4>1, BeginKeeps DEF Actor, Kind, Step
    <3> QED
      BY <3>1, <3>2
  <2> QED
    BY <2>3, <2>4, <2>5 DEF OwnInv
<1>9. CASE Leave(t)
  <2>1. /\ phase' = [phase EXCEPT ![t] = "ended"]
        /\ handler' = [handler EXCEPT ![t] = "none"]
        /\ outcome' = [outcome EXCEPT ![t] = "none"]
        /\ event' = event
    BY <1>9 DEF Leave, E!Leave
  <2>2. outcome' \in [Task -> Outcome \cup {"none"}]
    BY <1>1, <2>1 DEF TaskTypes
  <2>3. \A u \in Task \ {t} : outcome'[u] = outcome[u] /\ phase'[u] = phase[u]
    BY <1>1, <2>1 DEF TaskTypes, E!TypeOK
  <2>4. HandlerStep(t)
    BY <1>9 DEF HandlerStep
  <2>5. TaskTypes' /\ HandlerInv'
    BY <1>3, <2>1, <2>2, <2>3, <2>4
  <2> QED
    BY <1>1, <1>9, <2>5 DEF Leave, OwnInv, PoolTypes, QueueTypes, EngineTypes,
       ErrandInv, WellPlaced
<1> QED
  BY <1>4, <1>5, <1>6, <1>7, <1>8, <1>9 DEF HandlerStep
-----------------------------------------------------------------------------
LEMMA InitIInv == Init => IInv
<1> SUFFICES ASSUME Init PROVE IInv
  OBVIOUS
<1>1. ExecutorInv
  BY SameExecutor, ExecutorKeeps DEF Init
<1>2. TaskTypes /\ HandlerInv
  BY DEF Init, TaskTypes, HandlerInv, Event
<1>3. PoolTypes /\ QueueTypes
  BY DEF Init, Q!Init, PoolTypes, QueueTypes
<1>4. EngineTypes
  BY OrchestratorAssumption DEF Init, EngineTypes
<1>5. doing \in [Actor -> Errand] /\ ErrandInv
  BY IdleIsErrand DEF Init, ErrandInv, WellPlaced, Idle
<1> QED
  BY <1>1, <1>2, <1>3, <1>4, <1>5 DEF IInv, OwnInv

LEMMA NextIInv == IInv /\ [Next]_vars => IInv'
<1> SUFFICES ASSUME IInv, [Next]_vars PROVE IInv'
  OBVIOUS
<1>1. ExecutorInv'
  <2>1. [X!Next]_(X!vars)
    BY StepsOfExecutor, SameExecutor
  <2> QED
    BY <2>1, ExecutorKeeps DEF IInv
<1>2. OwnInv'
  <2>1. CASE Next
    BY <2>1, LoopKeeps, CallerKeeps, TaskKeeps, ErrandKeeps, UserKeeps DEF Next
  <2>2. CASE UNCHANGED vars
    BY <2>2 DEF IInv, OwnInv, TaskTypes, HandlerInv, PoolTypes, QueueTypes,
       EngineTypes, ErrandInv, WellPlaced, FollowUp, vars, taskVars, executorVars,
       poolVars, queueVars, engineVars
  <2> QED
    BY <2>1, <2>2
<1> QED
  BY <1>1, <1>2 DEF IInv

LEMMA InvariantHolds == Spec => []IInv
BY InitIInv, NextIInv, PTL DEF Spec

\* Every step of the engine puts one request, releases some, or leaves the queue.
LEMMA StepsOfQueue == ASSUME IInv, [Next]_vars PROVE [Q!Next]_pending
<1> USE DEF taskVars, executorVars, poolVars, queueVars, engineVars
<1> SUFFICES \/ \E h \in Torrent, e \in Event : Q!Put(h, e)
             \/ \E S \in SUBSET Torrent : Q!Release(S)
             \/ pending' = pending
  BY DEF Q!Next
<1> DEFINE Goal == \/ \E h \in Torrent, e \in Event : Q!Put(h, e)
                   \/ \E S \in SUBSET Torrent : Q!Release(S)
                   \/ pending' = pending
<1>1. CASE LoopStep
  <2>1. ASSUME NEW S \in SUBSET Torrent, Tick(S) PROVE Goal
    BY <2>1 DEF Tick, Q!Release
  <2>2. CASE pending' = pending
    BY <2>2
  <2> QED
    BY <1>1, <2>1, <2>2 DEF LoopStep, Skip, Dispatch, Submit
<1>2. CASE CallerStep
  <2>1. CASE SweepPending
    BY <2>1 DEF SweepPending, Q!Release
  <2>2. CASE ~SweepPending
    BY <1>2, <2>2 DEF CallerStep, SeedNext, Listen, Unlisten, SweepLive,
       BeginAwait, EndAwait
  <2> QED
    BY <2>1, <2>2
<1>3. ASSUME NEW t \in Task, AcquirePermit(t) \/ HandlerStep(t) PROVE Goal
  <2>1. CASE Enqueue(t)
    <3>1. target[t] \in Torrent /\ FollowUp(event[t], outcome[t]) \in Event
      BY <2>1, SameExecutor, FollowUpIsEvent
         DEF Enqueue, IInv, OwnInv, HandlerInv, ExecutorInv, E!TypeOK
    <3> QED
      BY <2>1, <3>1 DEF Enqueue, Q!Put
  <2>2. CASE ~Enqueue(t)
    BY <1>3, <2>2 DEF AcquirePermit, HandlerStep, Respond, Credit,
       DropWhileStopping, ArchiveTorrent, ReplaceStopped, ReplaceFailed, Leave
  <2> QED
    BY <2>1, <2>2
<1>4. ASSUME NEW a \in Actor, ErrandStep(a) PROVE Goal
  <2>1. WellPlaced(doing[a])
    BY DEF IInv, OwnInv, ErrandInv
  <2>2. CASE Notify(a)
    BY <2>1, <2>2 DEF Notify, WellPlaced, Event, Q!Put
  <2>3. CASE EnqueueStart(a)
    BY <2>1, <2>3 DEF EnqueueStart, WellPlaced, Event, Q!Put
  <2>4. ASSUME NEW h \in Torrent, Pull(a, h) PROVE Goal
    BY <2>4 DEF Pull, Event, Q!Put
  <2>5. CASE pending' = pending
    BY <2>5
  <2> QED
    BY <1>4, <2>2, <2>3, <2>4, <2>5 DEF ErrandStep, Move, FileGone, Insert, Count,
       Exclude, NoMoreTorrents, Add, AddFails, Choose, Remove, Deny
<1>5. CASE UserStep \/ UNCHANGED vars
  BY <1>5 DEF UserStep, AnnounceAllNow, BeginStop, MarkCompletedPending, FileEvent, vars
<1> QED
  BY <1>1, <1>2, <1>3, <1>4, <1>5 DEF Next
-----------------------------------------------------------------------------
\* Every reachable state of the engine is well typed: among other things, no
\* announce, errand or drained request is about a torrent that is not one, and
\* only live announcers carry the bit of a pending completion (client.rs).
THEOREM TypeCorrect == Spec => []TypeOK
<1>1. IInv => TypeOK
  BY SameExecutor DEF IInv, ExecutorInv, OwnInv, TypeOK, TaskTypes, PoolTypes,
     QueueTypes, EngineTypes, Q!TypeOK
<1> QED
  BY <1>1, InvariantHolds, PTL

\* The engine uses its executor as AnnouncerExecutor says a caller may, so the
\* executor's own theorems hold inside the engine (client.rs calls execute, deny
\* and await_running_tasks of announcer_executor.rs).
THEOREM UsesTheExecutor == Spec => E!Spec
<1>1. Init => E!Init
  BY DEF Init
<1>2. IInv /\ [Next]_vars => [E!Next]_(E!vars)
  BY StepsOfExecutor
<1> QED
  BY <1>1, <1>2, InvariantHolds, PTL DEF Spec, E!Spec

\* Inside the engine, too, permits are neither lost nor made up, whatever
\* removals, displacements and shutdowns abort (announcer_executor.rs:27-30).
THEOREM PermitBalance == Spec => []E!PermitsConserved
<1>1. IInv => E!PermitsConserved
  BY SameExecutor DEF IInv, ExecutorInv
<1> QED
  BY <1>1, InvariantHolds, PTL

\* Whatever handlers, errands, ticks and shutdown do to the delay queue, each
\* step replaces one torrent's request or releases some (delay_queue.rs).
THEOREM UsesTheQueue == Spec => Q!Spec
<1>1. Init => Q!Init
  BY DEF Init
<1>2. IInv /\ [Next]_vars => [Q!Next]_pending
  BY StepsOfQueue
<1> QED
  BY <1>1, <1>2, InvariantHolds, PTL DEF Spec, Q!Spec

-----------------------------------------------------------------------------
(* What keeps a torrent of the pool going.                                 *)

\* A request for h is queued, or an errand will queue one or remove h.
Queued(h) ==
    \/ pending[h] # NoRequest
    \/ \E a \in Actor : doing[a].step = "enqueue" /\ doing[a].pick = h
    \/ \E a \in Actor : /\ doing[a].kind = "stopped" /\ doing[a].about = h
                        /\ doing[a].step # "deny"

\* Task t has yet to queue the next request or to drop its torrent.
Carries(t) ==
    \/ handler[t] \in {"none", "enqueue"}
    \/ handler[t] # "leave" /\ Drops(event[t], outcome[t])

\* The removal of a stopped torrent takes these steps and no others.
RemovalInv ==
    \A a \in Actor : doing[a].kind = "stopped" =>
        doing[a].step \in {"exclude", "choose", "add", "enqueue", "remove", "deny"}

\* The running map tells the torrents of its tasks, and has no task that
\* execute() has not recorded yet; if that one is over, it has emptied its place.
RunningInv ==
    /\ \A g \in Torrent : running[g] # NoTask => target[running[g]] = g
    /\ \A t \in Task : submitting = t =>
          /\ \A g \in Torrent : running[g] # t
          /\ phase[t] = "ended" => running[target[t]] = NoTask

\* What keeps its torrent going when execute() is about to abort the task before
\* it: the task it has spawned may be in its handlers by then.
HandoverInv ==
    \A t \in Task :
        submitting = t /\ phase[t] = "handling" /\ target[t] \in live /\ ~Stopping
        => \/ Carries(t) \/ Queued(target[t])
           \/ event[t] = "completed" /\ handler[t] = "leave"

WorkInv == IInv /\ RemovalInv /\ RunningInv /\ HandoverInv

LEMMA HasWorkAs ==
    ASSUME NEW h
    PROVE  HasWork(h) <=> \/ Queued(h) \/ ready[h] # NoRequest
                          \/ \E t \in Task : phase[t] # "ended" /\ target[t] = h /\ Carries(t)
BY DEF HasWork, Queued, Carries, E!Unfinished

\* A step of one errand leaves the others alone.
LEMMA ErrandAlone ==
    ASSUME IInv, NEW a \in Actor, NEW b \in Actor, b # a, ErrandStep(b)
    PROVE  doing'[a] = doing[a]
<1>1. doing \in [Actor -> Errand]
  BY DEF IInv, OwnInv
<1>2. \A d : doing' = [doing EXCEPT ![b] = d] => doing'[a] = doing[a]
  BY <1>1
<1>3. CASE Move(b) \/ FileGone(b) \/ Notify(b) \/ Insert(b) \/ Add(b) \/ Remove(b) \/ Deny(b)
  BY <1>2, <1>3 DEF Move, FileGone, Notify, Insert, Add, Remove, Deny, Goto
<1>4. CASE Count(b) \/ Exclude(b) \/ NoMoreTorrents(b)
  BY <1>1, <1>4 DEF Count, Exclude, NoMoreTorrents
<1>5. CASE AddFails(b) \/ EnqueueStart(b)
  BY <1>1, <1>5 DEF AddFails, EnqueueStart
<1>6. ASSUME NEW h \in Torrent, Choose(b, h) \/ Pull(b, h) PROVE doing'[a] = doing[a]
  BY <1>1, <1>6 DEF Choose, Pull
<1> QED
  BY <1>3, <1>4, <1>5, <1>6 DEF ErrandStep

\* Only its own step changes an errand under way.
LEMMA ErrandsApart ==
    ASSUME IInv, [Next]_vars, NEW a \in Actor, doing[a] # Idle, ~ErrandStep(a)
    PROVE  doing'[a] = doing[a]
<1>1. doing \in [Actor -> Errand]
  BY DEF IInv, OwnInv
<1>2. ASSUME NEW b \in Actor, ErrandStep(b) PROVE doing'[a] = doing[a]
  BY <1>2, ErrandAlone
<1>3. ASSUME NEW b \in Actor, NEW d, IsIdle(b), doing' = [doing EXCEPT ![b] = d]
      PROVE  doing'[a] = doing[a]
  BY <1>1, <1>3 DEF IsIdle
<1>4. CASE LoopStep
  BY <1>4 DEF LoopStep, Tick, Skip, Dispatch, Submit
<1>5. CASE CallerStep
  BY <1>3, <1>5 DEF CallerStep, SeedNext, Begin, Actor, Listen, Unlisten,
     SweepPending, SweepLive, BeginAwait, EndAwait
<1>6. ASSUME NEW t \in Task, AcquirePermit(t) \/ HandlerStep(t)
      PROVE  doing'[a] = doing[a]
  BY <1>3, <1>6 DEF AcquirePermit, HandlerStep, Respond, Enqueue, Credit,
     DropWhileStopping, ArchiveTorrent, ReplaceStopped, ReplaceFailed, Leave,
     Begin, Actor
<1>7. CASE UserStep
  BY <1>3, <1>7 DEF UserStep, AnnounceAllNow, BeginStop, MarkCompletedPending,
     FileEvent, Begin, Actor
<1> QED
  BY <1>2, <1>4, <1>5, <1>6, <1>7 DEF Next, vars

\* An errand keeps its kind to its end.
LEMMA ErrandKeepsKind ==
    ASSUME IInv, NEW a \in Actor, ErrandStep(a)
    PROVE  doing'[a].kind \in {doing[a].kind, "none"}
<1>1. doing \in [Actor -> Errand] /\ doing[a] \in Errand
  BY DEF IInv, OwnInv
<1>2. Idle.kind = "none" /\ \A s : Advanced(a, s).kind \in {doing[a].kind, "none"}
  BY <1>1 DEF Idle, Advanced, Errand
<1>3. \A s, p, S : /\ [Advanced(a, s) EXCEPT !.pick = p].kind = Advanced(a, s).kind
                   /\ [Advanced(a, s) EXCEPT !.snapshot = S].kind = Advanced(a, s).kind
  BY <1>1 DEF Idle, Advanced, Errand
<1>4. CASE Move(a) \/ FileGone(a) \/ Notify(a) \/ Insert(a) \/ Add(a) \/ Remove(a) \/ Deny(a)
  BY <1>1, <1>2, <1>4 DEF Move, FileGone, Notify, Insert, Add, Remove, Deny, Goto
<1>5. CASE Count(a) \/ Exclude(a)
  BY <1>1, <1>2, <1>5, ZenonT(60) DEF Count, Exclude, Errand
<1>6. CASE NoMoreTorrents(a)
  BY <1>1, <1>2, <1>3, <1>6 DEF NoMoreTorrents
<1>7. CASE AddFails(a)
  BY <1>1, <1>2, <1>3, <1>7 DEF AddFails
<1>8. CASE EnqueueStart(a)
  BY <1>1, <1>2, <1>3, <1>8 DEF EnqueueStart
<1>9. ASSUME NEW h \in Torrent, Choose(a, h)
      PROVE  doing'[a].kind \in {doing[a].kind, "none"}
  BY <1>1, <1>9 DEF Choose, Errand
<1>10. ASSUME NEW h \in Torrent, Pull(a, h)
       PROVE  doing'[a].kind \in {doing[a].kind, "none"}
  BY <1>1, <1>2, <1>10 DEF Pull, Errand
<1> QED
  BY <1>4, <1>5, <1>6, <1>7, <1>8, <1>9, <1>10 DEF ErrandStep

\* A removal goes on, through the refill, to remove and to deny.
LEMMA RemovalGoesOn ==
    ASSUME IInv, RemovalInv, NEW a \in Actor, ErrandStep(a), doing[a].kind = "stopped"
    PROVE  \/ Remove(a) /\ doing'[a].step = "deny"
           \/ Deny(a) /\ doing'[a] = Idle
           \/ /\ doing'[a].kind = "stopped" /\ doing'[a].about = doing[a].about
              /\ doing'[a].step \in {"exclude", "choose", "add", "enqueue", "remove"}
<1>1. doing \in [Actor -> Errand] /\ doing[a] \in Errand
  BY DEF IInv, OwnInv
<1>2. doing[a].step \in {"exclude", "choose", "add", "enqueue", "remove", "deny"}
  BY DEF RemovalInv
<1>3. AfterRefill(doing[a].kind) = "remove"
  BY DEF AfterRefill
<1>4. CASE Exclude(a)
  BY <1>1, <1>4 DEF Exclude, Errand
<1>5. ASSUME NEW h \in Torrent, Choose(a, h)
      PROVE  /\ doing'[a].kind = "stopped" /\ doing'[a].about = doing[a].about
             /\ doing'[a].step = "add"
  BY <1>1, <1>5 DEF Choose, Errand
<1>6. CASE NoMoreTorrents(a) \/ AddFails(a) \/ EnqueueStart(a)
  BY <1>1, <1>3, <1>6 DEF NoMoreTorrents, AddFails, EnqueueStart, Advanced, Errand
<1>7. CASE Add(a)
  BY <1>1, <1>7 DEF Add, Goto, Advanced, Errand
<1>8. CASE Remove(a)
  BY <1>1, <1>8 DEF Remove, Goto, Advanced, Errand
<1>9. CASE Deny(a)
  BY <1>1, <1>9 DEF Deny, Goto, Advanced
<1> QED
  BY <1>2, <1>4, <1>5, <1>6, <1>7, <1>8, <1>9 DEF ErrandStep, Move, FileGone,
     Notify, Insert, Count, Pull

\* A new errand that removes a torrent begins with its refill.
LEMMA RemovalBegins ==
    ASSUME IInv, Next, NEW a \in Actor, doing[a] = Idle, doing'[a].kind = "stopped"
    PROVE  doing'[a].step = "exclude"
<1>1. doing \in [Actor -> Errand] /\ Idle.kind = "none" /\ Idle.step = "idle"
  BY DEF IInv, OwnInv, Idle
<1>2. ~ErrandStep(a)
  BY <1>1, ErrandKeepsKind
<1>3. ASSUME NEW b \in Actor, ErrandStep(b) PROVE doing'[a] = doing[a]
  BY <1>2, <1>3, ErrandAlone
<1>4. ASSUME NEW b \in Actor, NEW k, NEW s, NEW h, doing' = Begin(b, k, s, h),
             k = "stopped" => s = "exclude"
      PROVE  doing'[a].step = "exclude"
  BY <1>1, <1>4 DEF Begin, Idle
<1>5. CASE LoopStep
  BY <1>1, <1>5 DEF LoopStep, Tick, Skip, Dispatch, Submit
<1>6. CASE CallerStep
  BY <1>1, <1>4, <1>6 DEF CallerStep, SeedNext, Actor, Listen, Unlisten,
     SweepPending, SweepLive, BeginAwait, EndAwait
<1>7. ASSUME NEW t \in Task, AcquirePermit(t) \/ HandlerStep(t)
      PROVE  doing'[a].step = "exclude"
  BY <1>1, <1>4, <1>7 DEF AcquirePermit, HandlerStep, Respond, Enqueue, Credit,
     DropWhileStopping, ArchiveTorrent, ReplaceStopped, ReplaceFailed, Leave, Actor
<1>8. CASE UserStep
  <2>1. CASE AnnounceAllNow
    BY <1>1, <2>1 DEF AnnounceAllNow, Idle
  <2>2. CASE ~AnnounceAllNow
    BY <1>1, <1>4, <1>8, <2>2 DEF UserStep, BeginStop, MarkCompletedPending,
       FileEvent, Actor
  <2> QED
    BY <2>1, <2>2
<1> QED
  BY <1>1, <1>3, <1>5, <1>6, <1>7, <1>8 DEF Next

LEMMA RemovalKeeps == ASSUME IInv, RemovalInv, [Next]_vars PROVE RemovalInv'
<1> SUFFICES ASSUME NEW a \in Actor, doing'[a].kind = "stopped"
             PROVE  doing'[a].step \in {"exclude", "choose", "add", "enqueue", "remove", "deny"}
  BY DEF RemovalInv
<1>1. CASE ErrandStep(a)
  <2>1. doing[a].kind = "stopped"
    BY <1>1, ErrandKeepsKind
  <2> QED
    BY <1>1, <2>1, RemovalGoesOn DEF Idle
<1>2. CASE ~ErrandStep(a) /\ doing[a] # Idle
  BY <1>2, ErrandsApart DEF RemovalInv
<1>3. CASE doing[a] = Idle /\ Next
  BY <1>3, RemovalBegins
<1>4. CASE UNCHANGED vars
  BY <1>4 DEF RemovalInv, vars
<1> QED
  BY <1>1, <1>2, <1>3, <1>4

\* An abort ends tasks of S only.
LEMMA AbortEndsOnly ==
    ASSUME E!TypeOK, NEW S, E!Abort(S), NEW t \in Task
    PROVE  /\ phase'[t] = phase[t] \/ (t \in S /\ phase'[t] = "ended")
           /\ phase'[t] \in E!Phase
BY DEF E!Abort, E!TypeOK, E!Phase

LEMMA RunningKeeps == ASSUME IInv, RunningInv, [Next]_vars PROVE RunningInv'
<1>1. E!TypeOK /\ NoTask \notin Task
  BY SameExecutor, OrchestratorAssumption DEF IInv, ExecutorInv
<1>2. [E!Next]_(E!vars)
  BY StepsOfExecutor
<1>3. ASSUME NEW t \in Task, NEW h \in Torrent, E!Spawn(t, h) PROVE RunningInv'
  BY <1>1, <1>3 DEF E!Spawn, E!Free, E!Registered, E!TypeOK, RunningInv
<1>4. CASE E!Submit
  <2>1. submitting \in Task /\ target[submitting] \in Torrent
    BY <1>1, <1>4 DEF E!Submit, E!TypeOK
  <2> QED
    BY <1>1, <1>4, <2>1 DEF E!Submit, E!TypeOK, RunningInv
<1>5. ASSUME NEW t \in Task, E!AcquirePermit(t) \/ E!Respond(t) PROVE RunningInv'
  BY <1>1, <1>5 DEF E!AcquirePermit, E!Respond, E!TypeOK, RunningInv
<1>6. ASSUME NEW t \in Task, E!Leave(t) PROVE RunningInv'
  BY <1>1, <1>6 DEF E!Leave, E!TypeOK, RunningInv
<1>7. ASSUME NEW S \in SUBSET E!Registered, E!Abort(S),
             UNCHANGED <<target, submitting>>,
             \A g \in Torrent : running'[g] \in {running[g], NoTask}
      PROVE  RunningInv'
  <2>1. ASSUME NEW t \in Task, submitting = t PROVE phase'[t] = phase[t]
    BY <1>1, <1>7, <2>1, AbortEndsOnly DEF RunningInv, E!Registered
  <2>2. target \in [Task -> Torrent] /\ running \in [Torrent -> Task \cup {NoTask}]
    BY <1>1 DEF E!TypeOK
  <2> QED
    BY <1>1, <1>7, <2>1, <2>2 DEF RunningInv
<1>8. ASSUME NEW h \in Torrent, E!Deny(h) PROVE RunningInv'
  BY <1>1, <1>7, <1>8 DEF E!Deny, E!Registered, E!TypeOK
<1>9. CASE E!DenyAll
  BY <1>1, <1>7, <1>9 DEF E!DenyAll, E!TypeOK
<1>10. CASE E!BeginAwait \/ E!AwaitReturn \/ E!AwaitTimeout
  BY <1>1, <1>10 DEF E!BeginAwait, E!AwaitReturn, E!AwaitTimeout, E!TypeOK, RunningInv
<1>11. CASE UNCHANGED (E!vars)
  BY <1>11 DEF E!vars, RunningInv
<1> QED
  BY <1>2, <1>3, <1>4, <1>5, <1>6, <1>8, <1>9, <1>10, <1>11 DEF E!Next

LEMMA StoppingStays == ASSUME IInv, Next, ~Stopping' PROVE ~Stopping
<1> USE DEF engineVars
<1>1. CASE LoopStep
  BY <1>1 DEF LoopStep, Tick, Skip, Dispatch, Submit, Stopping
<1>2. CASE CallerStep
  BY <1>2 DEF CallerStep, SeedNext, Listen, Unlisten, SweepPending, SweepLive,
     BeginAwait, EndAwait, Stopping
<1>3. ASSUME NEW t \in Task, AcquirePermit(t) \/ HandlerStep(t) PROVE ~Stopping
  BY <1>3 DEF AcquirePermit, HandlerStep, Respond, Enqueue, Credit, DropWhileStopping,
     ArchiveTorrent, ReplaceStopped, ReplaceFailed, Leave, Stopping
<1>4. ASSUME NEW a \in Actor, ErrandStep(a) PROVE ~Stopping
  BY <1>4 DEF ErrandStep, Move, FileGone, Notify, Insert, Count, Exclude, Choose,
     NoMoreTorrents, Add, AddFails, EnqueueStart, Remove, Deny, Pull, Stopping
<1>5. CASE UserStep
  BY <1>5 DEF UserStep, AnnounceAllNow, BeginStop, MarkCompletedPending, FileEvent, Stopping
<1> QED
  BY <1>1, <1>2, <1>3, <1>4, <1>5 DEF Next

\* A queued request leaves the queue for the loop only.
LEMMA PendingPersists ==
    ASSUME IInv, Next, NEW h \in Torrent, pending[h] # NoRequest, ~Stopping',
           \A S \in SUBSET Torrent : ~Tick(S)
    PROVE  pending'[h] # NoRequest
<1> USE DEF queueVars
<1>1. QueueTypes /\ NoRequest \notin Event /\ ~Stopping
  BY StoppingStays, OrchestratorAssumption DEF IInv, OwnInv
<1>2. ASSUME NEW g, NEW e \in Event, pending' = Q!Replaced(pending, g, e)
      PROVE  pending'[h] # NoRequest
  BY <1>1, <1>2 DEF Q!Replaced, QueueTypes
<1>3. CASE pending' = pending
  BY <1>3
<1>4. CASE LoopStep
  BY <1>3, <1>4 DEF LoopStep, Skip, Dispatch, Submit
<1>5. CASE CallerStep
  BY <1>1, <1>3, <1>5 DEF CallerStep, SeedNext, Listen, Unlisten, SweepPending,
     SweepLive, BeginAwait, EndAwait, Stopping
<1>6. ASSUME NEW t \in Task, AcquirePermit(t) \/ HandlerStep(t)
      PROVE  pending'[h] # NoRequest
  <2>1. CASE Enqueue(t)
    <3>1. FollowUp(event[t], outcome[t]) \in Event
      BY <2>1, FollowUpIsEvent DEF Enqueue, IInv, OwnInv, HandlerInv
    <3> QED
      BY <2>1, <3>1, <1>2 DEF Enqueue
  <2>2. CASE ~Enqueue(t)
    BY <1>3, <1>6, <2>2 DEF AcquirePermit, HandlerStep, Respond, Credit,
       DropWhileStopping, ArchiveTorrent, ReplaceStopped, ReplaceFailed, Leave
  <2> QED
    BY <2>1, <2>2
<1>7. ASSUME NEW a \in Actor, ErrandStep(a) PROVE pending'[h] # NoRequest
  <2>1. {"stopped", "started", "regular"} \subseteq Event
    BY DEF Event
  <2>2. CASE Notify(a) \/ EnqueueStart(a)
    BY <1>2, <1>3, <2>1, <2>2 DEF Notify, EnqueueStart
  <2>3. ASSUME NEW g \in Torrent, Pull(a, g) PROVE pending'[h] # NoRequest
    BY <1>2, <2>1, <2>3 DEF Pull
  <2> QED
    BY <1>3, <1>7, <2>2, <2>3 DEF ErrandStep, Move, FileGone, Insert, Count, Exclude,
       Choose, NoMoreTorrents, Add, AddFails, Remove, Deny
<1>8. CASE UserStep
  BY <1>3, <1>8 DEF UserStep, AnnounceAllNow, BeginStop, MarkCompletedPending, FileEvent
<1> QED
  BY <1>4, <1>5, <1>6, <1>7, <1>8 DEF Next

LEMMA QueuedPersists ==
    ASSUME IInv, RemovalInv, Next, NEW h \in Torrent, Queued(h), h \in live', ~Stopping',
           \A S \in SUBSET Torrent : ~Tick(S)
    PROVE  Queued(h)'
<1>0. doing \in [Actor -> Errand] /\ QueueTypes /\ NoRequest \notin Event
  BY OrchestratorAssumption DEF IInv, OwnInv
<1>1. CASE pending[h] # NoRequest
  BY <1>1, PendingPersists DEF Queued
<1>2. ASSUME NEW a \in Actor, doing[a].step = "enqueue", doing[a].pick = h
      PROVE  Queued(h)'
  <2>1. CASE ErrandStep(a)
    <3>1. EnqueueStart(a)
      BY <1>2, <2>1 DEF ErrandStep, Move, FileGone, Notify, Insert, Count, Exclude,
         Choose, NoMoreTorrents, Add, AddFails, Remove, Deny, Pull
    <3>2. pending'[h] = "started"
      BY <1>0, <1>2, <3>1 DEF EnqueueStart, Q!Replaced, QueueTypes
    <3> QED
      BY <1>0, <3>2 DEF Queued, Event
  <2>2. CASE ~ErrandStep(a)
    <3>1. doing'[a] = doing[a]
      BY <1>2, <2>2, ErrandsApart DEF Idle
    <3> QED
      BY <1>2, <3>1 DEF Queued
  <2> QED
    BY <2>1, <2>2
<1>3. ASSUME NEW a \in Actor, doing[a].kind = "stopped", doing[a].about = h,
             doing[a].step # "deny"
      PROVE  Queued(h)'
  <2>1. CASE ErrandStep(a)
    <3>1. ~Remove(a) /\ ~Deny(a)
      BY <1>3 DEF Remove, Deny
    <3>2. /\ doing'[a].kind = "stopped" /\ doing'[a].about = h
          /\ doing'[a].step # "deny"
      BY <1>3, <2>1, <3>1, RemovalGoesOn
    <3> QED
      BY <3>2 DEF Queued
  <2>2. CASE ~ErrandStep(a)
    <3>1. doing'[a] = doing[a]
      BY <1>3, <2>2, ErrandsApart DEF Idle
    <3> QED
      BY <1>3, <3>1 DEF Queued
  <2> QED
    BY <2>1, <2>2
<1> QED
  BY <1>1, <1>2, <1>3 DEF Queued

\* Where the handler chain begins, and where it ends a task that drops its torrent.
LEMMA ChainCarries ==
    ASSUME NEW e \in Event, NEW o
    PROVE  /\ o \in Possible(e) =>
                \/ FirstHandler(e, o) = "enqueue"
                \/ Drops(e, o) /\ FirstHandler(e, o) # "leave"
                \/ e = "completed" /\ FirstHandler(e, o) = "leave"
           /\ Drops(e, o) => ~Archives(e, o) /\ AfterCredit(e, o) # "leave"
BY OrchestratorAssumption DEF Event, Possible, FirstHandler, FollowUp, AfterEnqueue,
   AfterCredit, Registers, Unregisters, Drops, Archives, Success

\* Task t, in flight for h, still has to keep it going.
Going(t, h) == phase[t] # "ended" /\ target[t] = h /\ Carries(t)

LEMMA GoingOn ==
    ASSUME NEW t \in Task, NEW h, Going(t, h), phase'[t] # "ended",
           target'[t] = target[t], event'[t] = event[t], outcome'[t] = outcome[t],
           handler'[t] = handler[t]
    PROVE  Going(t, h)'
BY DEF Going, Carries, Drops

\* Its own step: it goes on, hands over to the queue or to a removal, or was the
\* completed announce nothing follows.
LEMMA OwnStepKeeps ==
    ASSUME IInv, NEW t \in Task, NEW h \in Torrent, Going(t, h),
           AcquirePermit(t) \/ HandlerStep(t), h \in live', ~Stopping
    PROVE  \/ Going(t, h)' \/ Queued(h)'
           \/ event[t] = "completed" /\ handler'[t] = "leave"
<1>1. /\ E!TypeOK /\ TaskTypes /\ HandlerInv /\ QueueTypes
      /\ doing \in [Actor -> Errand] /\ NoRequest \notin Event
  BY SameExecutor, OrchestratorAssumption DEF IInv, ExecutorInv, OwnInv
<1>2. CASE AcquirePermit(t)
  <2>1. phase'[t] # "ended" /\ target' = target
    BY <1>1, <1>2 DEF AcquirePermit, E!AcquirePermit, E!TypeOK
  <2> QED
    BY <1>2, <2>1, GoingOn DEF AcquirePermit
<1>3. ASSUME NEW o \in Outcome, Respond(t, o)
      PROVE  Going(t, h)' \/ (event[t] = "completed" /\ handler'[t] = "leave")
  <2>1. /\ phase'[t] = "handling" /\ target' = target /\ event' = event
        /\ outcome'[t] = o /\ handler'[t] = FirstHandler(event[t], o)
    BY <1>1, <1>3 DEF Respond, E!Respond, E!TypeOK, TaskTypes
  <2>2. event[t] \in Event /\ o \in Possible(event[t])
    BY <1>1, <1>3 DEF Respond, TaskTypes
  <2>3. \/ FirstHandler(event[t], o) = "enqueue"
        \/ Drops(event[t], o) /\ FirstHandler(event[t], o) # "leave"
        \/ event[t] = "completed" /\ FirstHandler(event[t], o) = "leave"
    BY <2>2, ChainCarries
  <2> QED
    BY <2>1, <2>3 DEF Going, Carries, Drops
<1>4. CASE Enqueue(t)
  <2>1. FollowUp(event[t], outcome[t]) # NoRequest
    BY <1>1, <1>4 DEF Enqueue, HandlerInv
  <2>2. pending'[h] = FollowUp(event[t], outcome[t])
    BY <1>1, <1>4 DEF Enqueue, Q!Replaced, QueueTypes, Going
  <2> QED
    BY <2>1, <2>2 DEF Queued
<1>5. CASE Credit(t)
  <2>1. /\ handler[t] = "credit" /\ UNCHANGED <<phase, target, event, outcome>>
        /\ handler'[t] = AfterCredit(event[t], outcome[t])
    BY <1>1, <1>5 DEF Credit, executorVars, TaskTypes
  <2>2. Drops(event[t], outcome[t])
    BY <2>1 DEF Going, Carries
  <2>3. AfterCredit(event[t], outcome[t]) # "leave"
    BY <1>1, <2>2, ChainCarries DEF TaskTypes
  <2> QED
    BY <2>1, <2>2, <2>3 DEF Going, Carries, Drops
<1>6. ASSUME NEW j \in Job, ArchiveTorrent(t, j) PROVE FALSE
  BY <1>1, <1>6, ChainCarries DEF ArchiveTorrent, Going, Carries, TaskTypes
<1>7. ASSUME NEW j \in Job, ReplaceStopped(t, j) PROVE Queued(h)'
  <2>1. j \in Actor /\ doing'[j] = [Idle EXCEPT !.kind = "stopped", !.step = "exclude",
                                                !.about = h]
    BY <1>1, <1>7 DEF ReplaceStopped, Begin, Actor, Going
  <2>2. doing'[j].kind = "stopped" /\ doing'[j].about = h /\ doing'[j].step # "deny"
    BY <2>1 DEF Idle
  <2> QED
    BY <2>1, <2>2 DEF Queued
<1>8. ASSUME NEW j \in Job, ReplaceFailed(t, j) PROVE FALSE
  BY <1>8 DEF ReplaceFailed, Going
<1>9. ~DropWhileStopping(t)
  BY DEF DropWhileStopping
<1>10. ~Leave(t)
  BY DEF Leave, Going, Carries
<1> QED
  BY <1>2, <1>3, <1>4, <1>5, <1>6, <1>7, <1>8, <1>9, <1>10 DEF HandlerStep

\* A step of another task.
LEMMA OtherStepKeeps ==
    ASSUME IInv, NEW t \in Task, NEW u \in Task, u # t, NEW h, Going(t, h),
           AcquirePermit(u) \/ HandlerStep(u)
    PROVE  Going(t, h)'
<1>1. E!TypeOK /\ TaskTypes
  BY SameExecutor DEF IInv, ExecutorInv, OwnInv
<1>2. phase'[t] = phase[t] /\ target'[t] = target[t] /\ event'[t] = event[t]
  BY <1>1 DEF AcquirePermit, HandlerStep, Respond, Enqueue, Credit, DropWhileStopping,
     ArchiveTorrent, ReplaceStopped, ReplaceFailed, Leave, executorVars,
     E!AcquirePermit, E!Respond, E!Leave, E!TypeOK
<1>3. outcome'[t] = outcome[t] /\ handler'[t] = handler[t]
  BY <1>1 DEF AcquirePermit, HandlerStep, Respond, Enqueue, Credit, DropWhileStopping,
     ArchiveTorrent, ReplaceStopped, ReplaceFailed, Leave, TaskTypes
<1> QED
  BY <1>2, <1>3, GoingOn DEF Going

\* No other step but execute() and deny() disturbs a task.
LEMMA TaskPersists ==
    ASSUME IInv, Next, ~Submit, \A a \in Actor : ~Deny(a), ~Stopping',
           NEW t \in Task, NEW h \in Torrent, Going(t, h), h \in live'
    PROVE  \/ Going(t, h)' \/ Queued(h)'
           \/ event[t] = "completed" /\ handler'[t] = "leave"
<1>1. ~Stopping /\ E!TypeOK /\ TaskTypes
  BY StoppingStays, SameExecutor DEF IInv, ExecutorInv, OwnInv
<1>2. UNCHANGED taskVars => Going(t, h)'
  BY GoingOn DEF taskVars, executorVars, Going
<1>3. ASSUME NEW g \in Torrent, NEW u \in Task, Dispatch(g, u) PROVE Going(t, h)'
  <2>1. u # t
    BY <1>3 DEF Dispatch, E!Spawn, E!Free, E!Unfinished, Going
  <2>2. phase'[t] = phase[t] /\ target'[t] = target[t] /\ event'[t] = event[t]
    BY <1>1, <1>3, <2>1 DEF Dispatch, E!Spawn, E!TypeOK, TaskTypes
  <2> QED
    BY <1>3, <2>2, GoingOn DEF Dispatch, Going
<1>4. CASE LoopStep
  BY <1>2, <1>3, <1>4 DEF LoopStep, Tick, Skip
<1>5. CASE CallerStep
  <2>1. CASE SeedNext \/ Listen
    BY <1>2, <2>1 DEF SeedNext, Listen
  <2> QED
    BY <1>1, <1>5, <2>1 DEF CallerStep, Unlisten, SweepPending, SweepLive,
       BeginAwait, EndAwait, Stopping
<1>6. ASSUME NEW u \in Task, AcquirePermit(u) \/ HandlerStep(u)
      PROVE  \/ Going(t, h)' \/ Queued(h)'
             \/ event[t] = "completed" /\ handler'[t] = "leave"
  BY <1>1, <1>6, OwnStepKeeps, OtherStepKeeps
<1>7. ASSUME NEW a \in Actor, ErrandStep(a) PROVE Going(t, h)'
  BY <1>2, <1>7 DEF ErrandStep, Move, FileGone, Notify, Insert, Count, Exclude, Choose,
     NoMoreTorrents, Add, AddFails, EnqueueStart, Remove, Pull
<1>8. CASE UserStep
  BY <1>2, <1>8 DEF UserStep, AnnounceAllNow, BeginStop, MarkCompletedPending, FileEvent
<1> QED
  BY <1>4, <1>5, <1>6, <1>7, <1>8 DEF Next

LEMMA NewlyLive ==
    ASSUME IInv, Next, NEW h \in Torrent, h \notin live, h \in live'
    PROVE  Queued(h)'
<1> USE DEF poolVars
<1>1. doing \in [Actor -> Errand]
  BY DEF IInv, OwnInv
<1>2. ASSUME NEW a \in Actor, Add(a) PROVE Queued(h)'
  <2>1. doing[a].pick = h /\ doing[a] \in Errand
    BY <1>1, <1>2 DEF Add
  <2>2. doing'[a].step = "enqueue" /\ doing'[a].pick = h
    BY <1>1, <1>2, <2>1 DEF Add, Goto, Advanced, Errand
  <2> QED
    BY <2>2 DEF Queued
<1>3. ~LoopStep
  BY DEF LoopStep, Tick, Skip, Dispatch, Submit
<1>4. ~CallerStep
  BY DEF CallerStep, SeedNext, Listen, Unlisten, SweepPending, SweepLive, BeginAwait, EndAwait
<1>5. ASSUME NEW t \in Task PROVE ~AcquirePermit(t) /\ ~HandlerStep(t)
  BY DEF AcquirePermit, HandlerStep, Respond, Enqueue, Credit, DropWhileStopping,
     ArchiveTorrent, ReplaceStopped, ReplaceFailed, Leave
<1>6. ASSUME NEW a \in Actor, ErrandStep(a) PROVE Add(a)
  BY <1>6 DEF ErrandStep, Move, FileGone, Notify, Insert, Count, Exclude, Choose,
     NoMoreTorrents, AddFails, EnqueueStart, Remove, Deny, Pull
<1>7. ~UserStep
  BY DEF UserStep, AnnounceAllNow, BeginStop, MarkCompletedPending, FileEvent
<1> QED
  BY <1>2, <1>3, <1>4, <1>5, <1>6, <1>7 DEF Next

\* A task that execute() has not recorded yet was spawned by it, and keeps its
\* torrent and its event.
LEMMA SubmittedStays ==
    ASSUME IInv, Next, NEW t \in Task, submitting' = t, phase'[t] = "handling"
    PROVE  /\ submitting = t /\ ~Submit /\ \A S \in SUBSET Torrent : ~Tick(S)
           /\ target'[t] = target[t] /\ event'[t] = event[t]
           /\ phase[t] \in {"announcing", "handling"}
<1>1. E!TypeOK /\ TaskTypes /\ NoTask \notin Task
  BY SameExecutor, OrchestratorAssumption DEF IInv, ExecutorInv, OwnInv
<1>2. \A u \in Task, g \in Torrent : ~E!Spawn(u, g)
  BY <1>1 DEF E!Spawn, E!TypeOK
<1>3. ~E!Submit
  BY <1>1 DEF E!Submit
<1>4. ASSUME NEW S, E!Abort(S) PROVE phase[t] = "handling"
  BY <1>1, <1>4 DEF E!Abort, E!TypeOK
<1>5. submitting = t /\ target' = target /\ phase[t] \in {"announcing", "handling"}
  BY <1>1, <1>2, <1>3, <1>4, StepsOfExecutor DEF E!Next, E!vars, E!AcquirePermit,
     E!Respond, E!Leave, E!Deny, E!DenyAll, E!BeginAwait, E!AwaitReturn,
     E!AwaitTimeout, E!TypeOK
<1>6. ~Submit /\ \A S \in SUBSET Torrent : ~Tick(S)
  BY <1>1, <1>3, <1>5 DEF Submit, Tick
<1>7. event' = event
  <2>1. \A g \in Torrent, u \in Task : ~Dispatch(g, u)
    BY <1>2 DEF Dispatch
  <2>2. CASE LoopStep
    BY <1>6, <2>1, <2>2 DEF LoopStep, Skip, taskVars
  <2>3. CASE CallerStep
    BY <2>3 DEF CallerStep, SeedNext, Listen, Unlisten, SweepPending, SweepLive,
       BeginAwait, EndAwait, taskVars
  <2>4. ASSUME NEW u \in Task, AcquirePermit(u) \/ HandlerStep(u) PROVE event' = event
    BY <2>4 DEF AcquirePermit, HandlerStep, Respond, Enqueue, Credit, DropWhileStopping,
       ArchiveTorrent, ReplaceStopped, ReplaceFailed, Leave
  <2>5. ASSUME NEW a \in Actor, ErrandStep(a) PROVE event' = event
    BY <2>5 DEF ErrandStep, Move, FileGone, Notify, Insert, Count, Exclude, Choose,
       NoMoreTorrents, Add, AddFails, EnqueueStart, Remove, Deny, Pull, taskVars
  <2>6. CASE UserStep
    BY <2>6 DEF UserStep, AnnounceAllNow, BeginStop, MarkCompletedPending, FileEvent, taskVars
  <2> QED
    BY <2>2, <2>3, <2>4, <2>5, <2>6 DEF Next
<1> QED
  BY <1>5, <1>6, <1>7

\* A task at the end of its chain stays there until it leaves.
LEMMA LeavingStays ==
    ASSUME IInv, Next, NEW t \in Task, handler[t] = "leave", phase'[t] = "handling",
           \A g \in Torrent : ~Dispatch(g, t)
    PROVE  handler'[t] = "leave"
<1>1. E!TypeOK /\ TaskTypes /\ phase[t] = "handling"
  BY SameExecutor DEF IInv, ExecutorInv, OwnInv, HandlerInv
<1>2. CASE LoopStep
  BY <1>2 DEF LoopStep, Tick, Skip, Dispatch, Submit, taskVars
<1>3. CASE CallerStep
  BY <1>3 DEF CallerStep, SeedNext, Listen, Unlisten, SweepPending, SweepLive,
     BeginAwait, EndAwait, taskVars
<1>4. ASSUME NEW u \in Task, AcquirePermit(u) \/ HandlerStep(u) PROVE handler'[t] = "leave"
  <2>1. ~Leave(t) /\ \A o \in Outcome : ~Respond(t, o)
    BY <1>1 DEF Leave, E!Leave, Respond, E!Respond, E!TypeOK
  <2> QED
    BY <1>1, <1>4, <2>1 DEF AcquirePermit, HandlerStep, Respond, Enqueue, Credit,
       DropWhileStopping, ArchiveTorrent, ReplaceStopped, ReplaceFailed, Leave, TaskTypes
<1>5. ASSUME NEW a \in Actor, ErrandStep(a) PROVE handler'[t] = "leave"
  BY <1>5 DEF ErrandStep, Move, FileGone, Notify, Insert, Count, Exclude, Choose,
     NoMoreTorrents, Add, AddFails, EnqueueStart, Remove, Deny, Pull, taskVars
<1>6. CASE UserStep
  BY <1>6 DEF UserStep, AnnounceAllNow, BeginStop, MarkCompletedPending, FileEvent, taskVars
<1> QED
  BY <1>2, <1>3, <1>4, <1>5, <1>6 DEF Next

LEMMA HandoverKeeps == ASSUME WorkInv, [Next]_vars PROVE HandoverInv'
<1> USE DEF WorkInv
<1>1. CASE UNCHANGED vars
  BY <1>1 DEF HandoverInv, Stopping, Carries, Queued, Drops, vars, taskVars,
     executorVars, poolVars, queueVars, engineVars
<1>2. CASE Next
  <2> SUFFICES ASSUME NEW t \in Task, submitting' = t, phase'[t] = "handling",
                      target'[t] \in live', ~Stopping'
               PROVE  \/ Carries(t)' \/ Queued(target[t])'
                      \/ event'[t] = "completed" /\ handler'[t] = "leave"
    BY DEF HandoverInv, Queued
  <2>1. /\ submitting = t /\ ~Submit /\ \A S \in SUBSET Torrent : ~Tick(S)
        /\ target'[t] = target[t] /\ event'[t] = event[t]
        /\ phase[t] \in {"announcing", "handling"}
    BY <1>2, SubmittedStays
  <2>2. /\ E!TypeOK /\ HandlerInv /\ target[t] \in Torrent /\ ~Stopping
        /\ NoTask \notin Task
    BY <1>2, SameExecutor, StoppingStays, OrchestratorAssumption
       DEF IInv, ExecutorInv, OwnInv, E!TypeOK
  <2>3. CASE target[t] \notin live
    BY <1>2, <2>1, <2>2, <2>3, NewlyLive
  <2>4. CASE Queued(target[t])
    BY <1>2, <2>1, <2>2, <2>4, QueuedPersists
  <2>5. CASE event[t] = "completed" /\ handler[t] = "leave"
    <3>1. \A g \in Torrent : ~Dispatch(g, t)
      BY <2>1, <2>2 DEF Dispatch, E!Spawn
    <3> QED
      BY <1>2, <2>1, <2>5, <3>1, LeavingStays
  <2>6. CASE Carries(t)
    <3>1. Going(t, target[t])
      BY <2>1, <2>6 DEF Going
    <3>2. CASE \A a \in Actor : ~Deny(a)
      BY <1>2, <2>1, <2>2, <3>1, <3>2, TaskPersists DEF Going
    <3>3. ASSUME NEW a \in Actor, Deny(a) PROVE Carries(t)'
      BY <2>6, <3>3 DEF Deny, Carries, Drops
    <3> QED
      BY <3>2, <3>3
  <2>7. phase[t] = "announcing" => Carries(t)
    BY <2>2 DEF HandlerInv, Carries
  <2> QED
    BY <2>1, <2>2, <2>3, <2>4, <2>5, <2>6, <2>7 DEF HandoverInv
<1> QED
  BY <1>1, <1>2

LEMMA WorkHolds == Spec => []WorkInv
<1>1. Init => WorkInv
  <2> SUFFICES ASSUME Init PROVE WorkInv
    OBVIOUS
  <2>1. IInv /\ NoTask \notin Task
    BY InitIInv, OrchestratorAssumption
  <2>2. RemovalInv
    BY DEF Init, RemovalInv, Idle
  <2>3. RunningInv /\ HandoverInv
    BY <2>1 DEF Init, E!Init, RunningInv, HandoverInv
  <2> QED
    BY <2>1, <2>2, <2>3 DEF WorkInv
<1>2. WorkInv /\ [Next]_vars => WorkInv'
  BY NextIInv, RemovalKeeps, RunningKeeps, HandoverKeeps DEF WorkInv
<1> QED
  BY <1>1, <1>2, PTL DEF Spec

\* What the loop drains is the work of the next steps.
LEMMA ReadyPersists ==
    ASSUME IInv, Next, NEW h \in Torrent, ready[h] # NoRequest, h \in live, ~Stopping'
    PROVE  ready'[h] # NoRequest \/ \E t \in Task : Going(t, h)'
<1> USE DEF queueVars
<1>1. /\ E!TypeOK /\ TaskTypes /\ HandlerInv /\ QueueTypes /\ ~Stopping
  BY SameExecutor, StoppingStays DEF IInv, ExecutorInv, OwnInv
<1>2. \A S \in SUBSET Torrent : ~Tick(S)
  BY <1>1 DEF Tick, NothingReady
<1>3. ASSUME NEW g \in Torrent, Skip(g) PROVE ready'[h] # NoRequest
  BY <1>1, <1>3 DEF Skip, QueueTypes
<1>4. ASSUME NEW g \in Torrent, NEW t \in Task, Dispatch(g, t)
      PROVE  ready'[h] # NoRequest \/ Going(t, h)'
  <2>1. CASE g # h
    BY <1>1, <1>4, <2>1 DEF Dispatch, QueueTypes
  <2>2. CASE g = h
    <3>1. phase'[t] = "waiting" /\ target'[t] = h
      BY <1>1, <1>4, <2>2 DEF Dispatch, E!Spawn, E!TypeOK
    <3>2. handler'[t] = "none"
      BY <1>1, <1>4 DEF Dispatch, E!Spawn, E!Free, E!Unfinished, HandlerInv, TaskTypes
    <3> QED
      BY <3>1, <3>2 DEF Going, Carries
  <2> QED
    BY <2>1, <2>2
<1>5. CASE LoopStep
  BY <1>2, <1>3, <1>4, <1>5 DEF LoopStep, Submit
<1>6. CASE CallerStep
  BY <1>1, <1>6 DEF CallerStep, SeedNext, Listen, Unlisten, SweepPending, SweepLive,
     BeginAwait, EndAwait, Stopping
<1>7. ASSUME NEW t \in Task, AcquirePermit(t) \/ HandlerStep(t) PROVE ready'[h] # NoRequest
  BY <1>7 DEF AcquirePermit, HandlerStep, Respond, Enqueue, Credit, DropWhileStopping,
     ArchiveTorrent, ReplaceStopped, ReplaceFailed, Leave
<1>8. ASSUME NEW a \in Actor, ErrandStep(a) PROVE ready'[h] # NoRequest
  BY <1>8 DEF ErrandStep, Move, FileGone, Notify, Insert, Count, Exclude, Choose,
     NoMoreTorrents, Add, AddFails, EnqueueStart, Remove, Deny, Pull
<1>9. CASE UserStep
  BY <1>9 DEF UserStep, AnnounceAllNow, BeginStop, MarkCompletedPending, FileEvent
<1> QED
  BY <1>5, <1>6, <1>7, <1>8, <1>9 DEF Next

\* A tick moves requests from the queue to the loop.
LEMMA TickHandsOver ==
    ASSUME IInv, NEW S \in SUBSET Torrent, Tick(S), NEW h \in Torrent, Queued(h)
    PROVE  Queued(h)' \/ ready'[h] # NoRequest
<1>1. QueueTypes
  BY DEF IInv, OwnInv
<1>2. CASE pending[h] # NoRequest
  BY <1>1, <1>2 DEF Tick, Queued, Q!Without, QueueTypes
<1>3. CASE pending[h] = NoRequest
  BY <1>3 DEF Tick, Queued
<1> QED
  BY <1>2, <1>3

\* execute() aborts the task before the one it spawned.
LEMMA SubmitHandsOver ==
    ASSUME WorkInv, Next, Submit, NEW t \in Task, NEW h \in Torrent, Going(t, h),
           h \in live, h \in live', ~Stopping'
    PROVE  \/ Queued(h)' \/ \E u \in Task : Going(u, h)'
           \/ \E u \in Task : /\ target[u] = h /\ event[u] = "completed"
                              /\ handler'[u] = "leave"
<1> USE DEF WorkInv
<1>1. /\ E!TypeOK /\ HandlerInv /\ NoTask \notin Task /\ ~Stopping
      /\ submitting \in Task /\ submitting # NoTask
  BY SameExecutor, StoppingStays, OrchestratorAssumption
     DEF IInv, ExecutorInv, OwnInv, Submit, E!Submit, E!TypeOK
<1>2. /\ E!Abort({running[target[submitting]]} \cap Task)
      /\ target' = target /\ UNCHANGED <<event, outcome, handler>>
  BY DEF Submit, E!Submit
<1>3. CASE phase'[t] # "ended"
  BY <1>2, <1>3, GoingOn DEF Going
<1>4. CASE phase'[t] = "ended"
  <2> DEFINE s == submitting
  <2>1. t \in {running[target[s]]} \cap Task
    BY <1>1, <1>2, <1>4, AbortEndsOnly DEF Going
  <2>2. target[s] \in Torrent /\ target[s] = h /\ t # s
    BY <1>1, <2>1 DEF RunningInv, Going, E!TypeOK
  <2>3. phase[s] # "ended"
    BY <1>1, <2>1, <2>2 DEF RunningInv
  <2>4. phase'[s] = phase[s]
    BY <1>1, <1>2, <2>1, <2>2, AbortEndsOnly
  <2>5. CASE Carries(s)
    BY <1>1, <1>2, <2>2, <2>3, <2>4, <2>5, GoingOn DEF Going
  <2>6. CASE ~Carries(s)
    <3>1. phase[s] = "handling"
      BY <1>1, <2>6 DEF HandlerInv, Carries
    <3>2. Queued(h) \/ (event[s] = "completed" /\ handler[s] = "leave")
      BY <1>1, <2>2, <2>6, <3>1 DEF HandoverInv
    <3>3. \A S \in SUBSET Torrent : ~Tick(S)
      BY <1>1 DEF Tick
    <3> QED
      BY <1>1, <1>2, <2>2, <3>2, <3>3, QueuedPersists
  <2> QED
    BY <2>5, <2>6
<1> QED
  BY <1>3, <1>4

\* A torrent of the pool is forgotten by the end of its completed announce or by
\* the deny of an earlier announcer, and by nothing else: no order of failures,
\* aborts, refills, removals and file events does it (client.rs:442-481,
\* response_handlers.rs:140-194, announcer_executor.rs:95-140).
THEOREM ForgottenByTwoSteps == Spec => ForgottenOnlyByLateDeny
<1> DEFINE Exception(h) ==
              \/ \E t \in Task : /\ target[t] = h /\ event[t] = "completed"
                                 /\ handler'[t] = "leave"
              \/ \E a \in Actor : Deny(a) /\ doing[a].about = h
           Kept == \A h \in live \cap live' :
                      HasWork(h) /\ ~HasWork(h)' /\ ~Stopping' => Exception(h)
<1>1. ASSUME WorkInv, Next PROVE Kept
  <2> SUFFICES ASSUME NEW h \in live \cap live', HasWork(h), ~Stopping'
               PROVE  HasWork(h)' \/ Exception(h)
    OBVIOUS
  <2>1. IInv /\ RemovalInv /\ RunningInv /\ h \in Torrent /\ h \in live /\ h \in live'
    BY <1>1 DEF WorkInv, IInv, OwnInv, PoolTypes
  <2>2. /\ Queued(h)' => HasWork(h)'
        /\ ready'[h] # NoRequest => HasWork(h)'
        /\ \A t \in Task : Going(t, h)' => HasWork(h)'
    BY DEF HasWork, Queued, Going, Carries, E!Unfinished
  <2>3. CASE Queued(h)
    BY <1>1, <2>1, <2>2, <2>3, QueuedPersists, TickHandsOver
  <2>4. CASE ready[h] # NoRequest
    BY <1>1, <2>1, <2>2, <2>4, ReadyPersists
  <2>5. ASSUME NEW t \in Task, Going(t, h) PROVE HasWork(h)' \/ Exception(h)
    <3>1. CASE Submit
      BY <1>1, <2>1, <2>2, <2>5, <3>1, SubmitHandsOver
    <3>2. ASSUME NEW a \in Actor, Deny(a) PROVE HasWork(h)' \/ Exception(h)
      <4>1. E!TypeOK /\ doing[a].about \in Torrent /\ NoTask \notin Task
        BY <2>1, <3>2, SameExecutor, OrchestratorAssumption
           DEF Deny, IInv, OwnInv, ExecutorInv, ErrandInv, WellPlaced
      <4>2. CASE phase'[t] # "ended"
        BY <2>2, <2>5, <3>2, <4>2, GoingOn DEF Deny, E!Deny, executorVars, Going
      <4>3. CASE phase'[t] = "ended"
        <5>1. phase[t] # "ended" /\ target[t] = h
          BY <2>5 DEF Going
        <5>2. running[doing[a].about] = t
          BY <3>2, <4>1, <4>3, <5>1, AbortEndsOnly DEF Deny, E!Deny, executorVars
        <5>3. doing[a].about = h
          BY <2>1, <4>1, <5>1, <5>2 DEF RunningInv
        <5> QED
          BY <3>2, <5>3
      <4> QED
        BY <4>2, <4>3
    <3>3. CASE ~Submit /\ \A a \in Actor : ~Deny(a)
      BY <1>1, <2>1, <2>2, <2>5, <3>3, TaskPersists DEF Going
    <3> QED
      BY <3>1, <3>2, <3>3
  <2> QED
    BY <2>3, <2>4, <2>5, HasWorkAs DEF Going
<1>2. WorkInv /\ [Next]_vars => [Kept]_vars
  BY <1>1
<1> QED
  BY <1>2, WorkHolds, PTL DEF Spec, ForgottenOnlyByLateDeny

-----------------------------------------------------------------------------
(* The history of one torrent's announces.                                 *)

\* The bit of a pending completion is consumed by the dispatch of the announce
\* that carries it, or goes with its announcer.
LEMMA BitHandedOver ==
    ASSUME IInv, Next, NEW h \in Torrent, h \in completedBit, h \notin completedBit',
           h \in live'
    PROVE  \/ \E t \in Task : /\ phase'[t] = "waiting" /\ target'[t] = h
                              /\ event'[t] = "completed"
           \/ \E a \in Actor : Add(a) /\ doing[a].pick = h
<1> USE DEF poolVars
<1>1. E!TypeOK /\ TaskTypes
  BY SameExecutor DEF IInv, ExecutorInv, OwnInv
<1>2. ASSUME NEW g \in Torrent, NEW t \in Task, Dispatch(g, t)
      PROVE  phase'[t] = "waiting" /\ target'[t] = h /\ event'[t] = "completed"
  BY <1>1, <1>2 DEF Dispatch, E!Spawn, E!TypeOK, TaskTypes
<1>3. CASE LoopStep
  BY <1>2, <1>3 DEF LoopStep, Tick, Skip, Submit
<1>4. ~CallerStep
  BY DEF CallerStep, SeedNext, Listen, Unlisten, SweepPending, SweepLive, BeginAwait, EndAwait
<1>5. ASSUME NEW t \in Task PROVE ~AcquirePermit(t) /\ ~HandlerStep(t)
  BY DEF AcquirePermit, HandlerStep, Respond, Enqueue, Credit, DropWhileStopping,
     ArchiveTorrent, ReplaceStopped, ReplaceFailed, Leave
<1>6. ASSUME NEW a \in Actor, ErrandStep(a) PROVE Add(a) /\ doing[a].pick = h
  BY <1>6 DEF ErrandStep, Move, FileGone, Notify, Insert, Count, Exclude, Choose,
     NoMoreTorrents, Add, AddFails, EnqueueStart, Remove, Deny, Pull
<1>7. ~UserStep
  BY DEF UserStep, AnnounceAllNow, BeginStop, MarkCompletedPending, FileEvent
<1> QED
  BY <1>3, <1>4, <1>5, <1>6, <1>7 DEF Next

\* A task that waits for a permit goes on waiting, sends its announce or is
\* aborted, and its torrent and event stay the same.
LEMMA WaitingStays ==
    ASSUME IInv, Next, NEW t \in Task, phase[t] = "waiting"
    PROVE  /\ phase'[t] \in {"waiting", "announcing", "ended"}
           /\ target'[t] = target[t] /\ event'[t] = event[t]
<1>1. E!TypeOK /\ TaskTypes
  BY SameExecutor DEF IInv, ExecutorInv, OwnInv
<1>2. ASSUME NEW S, E!Abort(S) PROVE phase'[t] \in {"waiting", "ended"}
  BY <1>1, <1>2, AbortEndsOnly
<1>3. \A g \in Torrent : ~E!Spawn(t, g)
  BY DEF E!Spawn, E!Free, E!Unfinished
<1>4. phase'[t] \in {"waiting", "announcing", "ended"} /\ target'[t] = target[t]
  <2>1. ASSUME NEW u \in Task, NEW g \in Torrent, E!Spawn(u, g)
        PROVE  phase'[t] = "waiting" /\ target'[t] = target[t]
    BY <1>1, <1>3, <2>1 DEF E!Spawn, E!TypeOK
  <2>2. ASSUME NEW u \in Task, E!AcquirePermit(u) \/ E!Respond(u) \/ E!Leave(u)
        PROVE  phase'[t] \in {"waiting", "announcing"} /\ target' = target
    BY <1>1, <2>2 DEF E!AcquirePermit, E!Respond, E!Leave, E!TypeOK
  <2>3. CASE E!Submit \/ (\E g \in Torrent : E!Deny(g)) \/ E!DenyAll
    BY <1>2, <2>3 DEF E!Submit, E!Deny, E!DenyAll
  <2>4. CASE E!BeginAwait \/ E!AwaitReturn \/ E!AwaitTimeout \/ UNCHANGED (E!vars)
    BY <2>4 DEF E!BeginAwait, E!AwaitReturn, E!AwaitTimeout, E!vars
  <2> QED
    BY <2>1, <2>2, <2>3, <2>4, StepsOfExecutor DEF E!Next
<1>5. event'[t] = event[t]
  <2>1. ASSUME NEW g \in Torrent, NEW u \in Task, Dispatch(g, u) PROVE event'[t] = event[t]
    BY <1>1, <1>3, <2>1 DEF Dispatch, TaskTypes
  <2>2. CASE LoopStep
    BY <2>1, <2>2 DEF LoopStep, Tick, Skip, Submit, taskVars
  <2>3. CASE CallerStep
    BY <2>3 DEF CallerStep, SeedNext, Listen, Unlisten, SweepPending, SweepLive,
       BeginAwait, EndAwait, taskVars
  <2>4. ASSUME NEW u \in Task, AcquirePermit(u) \/ HandlerStep(u) PROVE event' = event
    BY <2>4 DEF AcquirePermit, HandlerStep, Respond, Enqueue, Credit, DropWhileStopping,
       ArchiveTorrent, ReplaceStopped, ReplaceFailed, Leave
  <2>5. ASSUME NEW a \in Actor, ErrandStep(a) PROVE event' = event
    BY <2>5 DEF ErrandStep, Move, FileGone, Notify, Insert, Count, Exclude, Choose,
       NoMoreTorrents, Add, AddFails, EnqueueStart, Remove, Deny, Pull, taskVars
  <2>6. CASE UserStep
    BY <2>6 DEF UserStep, AnnounceAllNow, BeginStop, MarkCompletedPending, FileEvent, taskVars
  <2> QED
    BY <2>2, <2>3, <2>4, <2>5, <2>6 DEF Next
<1> QED
  BY <1>4, <1>5

\* A completed download is lost only by a displacement: of the task that carries
\* it, by another request of its torrent, or of its announcer, by another refill
\* (announcer_executor.rs:108, client.rs:312).
THEOREM CompletionKeptOrDisplaced == HSpec => CompletionLostOnlyByDisplacement
<1> DEFINE Displaced(h) ==
              \/ \E t \in Task : /\ target[t] = h /\ event[t] = "completed"
                                 /\ phase[t] = "waiting" /\ phase'[t] = "ended"
              \/ \E a \in Actor : Add(a) /\ doing[a].pick = h
<1>1. ASSUME IInv, HNext, NEW h \in (owed \cap owed' \cap live' \cap Carried) \ Carried'
      PROVE  Displaced(h)
  <2>1. /\ Next /\ Record /\ h \in Torrent /\ h \in owed' /\ h \in live'
        /\ h \notin completedBit' /\ h \in owed
        /\ ~\E t \in Task : /\ phase'[t] = "waiting" /\ target'[t] = h
                            /\ event'[t] = "completed"
    BY <1>1 DEF HNext, Carried
  <2>2. CASE h \in completedBit
    BY <1>1, <2>1, <2>2, BitHandedOver
  <2>3. ASSUME NEW t \in Task, phase[t] = "waiting", target[t] = h, event[t] = "completed"
        PROVE  Displaced(h)
    <3>1. phase'[t] \in {"announcing", "ended"}
      BY <1>1, <2>1, <2>3, WaitingStays
    <3>2. phase'[t] # "announcing"
      BY <2>1, <2>3 DEF Record, Sent, Marked
    <3> QED
      BY <2>3, <3>1, <3>2
  <2> QED
    BY <1>1, <2>2, <2>3 DEF Carried
<1>2. IInv /\ [HNext]_hvars
        => [\A h \in (owed \cap owed' \cap live' \cap Carried) \ Carried' :
               Displaced(h)]_hvars
  BY <1>1
<1>3. HSpec => []IInv
  <2>1. HInit => IInv
    BY InitIInv DEF HInit
  <2>2. IInv /\ [HNext]_hvars => IInv'
    BY NextIInv DEF HNext, hvars
  <2> QED
    BY <2>1, <2>2, PTL DEF HSpec
<1> QED
  BY <1>2, <1>3, PTL DEF HSpec, CompletionLostOnlyByDisplacement
-----------------------------------------------------------------------------
(* One stop for each torrent.                                              *)

\* A torrent's file goes once and for all, and no torrent is dropped for
\* failing: neither the user nor a tracker can have it leave the pool twice.
LeavesOnce == /\ UserAction \cap {"addFile", "changeFile"} = {}
              /\ "tooMany" \notin Outcome

\* With such users and trackers, these are the errands there are.
ShapeInv == \A a \in Actor :
    LET d == doing[a]
    IN  \/ d.kind = "none" /\ d.step = "idle"
        \/ d.kind = "seed" /\ a = Engine /\ d.step \in {"exclude", "choose", "add", "enqueue"}
        \/ d.kind \in {"archive", "deleted"} /\ d.step \in {"move", "notify"}
        \/ d.kind = "stopped"
             /\ d.step \in {"exclude", "choose", "add", "enqueue", "remove", "deny"}
        \/ d.kind = "announceAll" /\ d.step = "pull"

\* Errand of actor a is the removal of h, which has not taken place yet.
Removing(a, h) ==
    /\ doing[a].kind = "stopped" /\ doing[a].about = h
    /\ doing[a].step \in {"exclude", "choose", "add", "enqueue", "remove"}

\* Task t has a stop of h to announce, to queue again or to see through.
Stops(t, h) ==
    /\ phase[t] # "ended" /\ target[t] = h /\ event[t] = "stopped"
    /\ handler[t] # "leave"

\* Where the stop of h is: not asked for yet, about to be queued, queued,
\* drained, announced, or followed by the removal.
StopAt(s, i, h) ==
    \/ s = "file"    /\ i = h /\ h \in files
    \/ s = "notify"  /\ i \in Actor /\ doing[i].step = "notify" /\ doing[i].about = h
    \/ s = "queued"  /\ i = h /\ pending[h] = "stopped"
    \/ s = "drained" /\ i = h /\ ready[h] = "stopped"
    \/ s = "task"    /\ i \in Task /\ Stops(i, h)
    \/ s = "removal" /\ i \in Actor /\ Removing(i, h)

\* A new errand of a.
LEMMA ErrandBegins ==
    ASSUME IInv, Next, LeavesOnce, NEW a \in Actor, doing[a] = Idle
    PROVE  \/ doing'[a] = Idle
           \/ SeedNext /\ a = Engine /\ doing'[a].kind = "seed" /\ doing'[a].step = "exclude"
           \/ doing'[a].kind \in {"archive", "deleted"} /\ doing'[a].step = "move"
           \/ /\ doing'[a].kind = "stopped" /\ doing'[a].step = "exclude"
              /\ \E t \in Task : ReplaceStopped(t, a) /\ doing'[a].about = target[t]
           \/ doing'[a].kind = "announceAll" /\ doing'[a].step = "pull"
<1> DEFINE New == doing'[a]
           Goal == \/ New = Idle
                   \/ SeedNext /\ a = Engine /\ New.kind = "seed" /\ New.step = "exclude"
                   \/ New.kind \in {"archive", "deleted"} /\ New.step = "move"
                   \/ /\ New.kind = "stopped" /\ New.step = "exclude"
                      /\ \E t \in Task : ReplaceStopped(t, a) /\ New.about = target[t]
                   \/ New.kind = "announceAll" /\ New.step = "pull"
<1>1. doing \in [Actor -> Errand] /\ Idle.kind = "none" /\ Idle.step = "idle"
  BY DEF IInv, OwnInv, Idle
<1>2. CASE doing'[a] = Idle
  BY <1>2
<1>3. ASSUME NEW b \in Actor, NEW k, NEW s, NEW h, doing' = Begin(b, k, s, h), doing'[a] # Idle
      PROVE  a = b /\ New.kind = k /\ New.step = s /\ New.about = h
  BY <1>1, <1>3 DEF Begin, Idle
<1>4. CASE LoopStep
  BY <1>4 DEF LoopStep, Tick, Skip, Dispatch, Submit
<1>5. CASE CallerStep
  BY <1>3, <1>5 DEF CallerStep, SeedNext, Actor, Listen, Unlisten,
     SweepPending, SweepLive, BeginAwait, EndAwait
<1>6. ASSUME NEW t \in Task, AcquirePermit(t) \/ HandlerStep(t) PROVE Goal
  <2>1. ASSUME NEW j \in Job, ArchiveTorrent(t, j) PROVE Goal
    BY <1>3, <2>1 DEF ArchiveTorrent, Actor
  <2>2. ASSUME NEW j \in Job, ReplaceStopped(t, j) PROVE Goal
    BY <1>3, <2>2 DEF ReplaceStopped, Actor
  <2>3. ASSUME NEW j \in Job, ReplaceFailed(t, j) PROVE FALSE
    BY <2>3 DEF ReplaceFailed, LeavesOnce, IInv, OwnInv, TaskTypes
  <2> QED
    BY <1>6, <2>1, <2>2, <2>3 DEF AcquirePermit, HandlerStep, Respond, Enqueue, Credit,
       DropWhileStopping, Leave
<1>7. ASSUME NEW b \in Actor, ErrandStep(b) PROVE Goal
  <2>1. CASE a = b
    BY <1>1, <1>7, <2>1, ErrandKeepsKind DEF ErrandStep, Move, FileGone, Notify, Insert, Count, Exclude,
       Choose, NoMoreTorrents, Add, AddFails, EnqueueStart, Remove, Deny, Pull
  <2>2. CASE a # b
    BY <1>7, <2>2, ErrandAlone
  <2> QED
    BY <2>1, <2>2
<1>8. CASE UserStep
  <2>1. CASE AnnounceAllNow
    BY <1>1, <2>1 DEF AnnounceAllNow, Idle
  <2>2. ASSUME NEW h \in Torrent, FileEvent(h) PROVE Goal
    BY <1>3, <2>2 DEF FileEvent, LeavesOnce, Actor
  <2> QED
    BY <1>8, <2>1, <2>2 DEF UserStep, BeginStop, MarkCompletedPending
<1> QED
  BY <1>2, <1>4, <1>5, <1>6, <1>7, <1>8 DEF Next

\* The step of an errand that takes part in no removal.
LEMMA ErrandGoesOn ==
    ASSUME IInv, ShapeInv, NEW a \in Actor, ErrandStep(a), doing[a].kind # "stopped"
    PROVE  \/ doing'[a].kind = "none" /\ doing'[a].step = "idle"
           \/ /\ doing'[a].kind = doing[a].kind
              /\ \/ /\ Move(a) /\ doing[a].about \in files
                    /\ doing'[a].step = "notify" /\ doing'[a].about = doing[a].about
                 \/ /\ doing'[a].kind = "seed"
                    /\ doing'[a].step \in {"choose", "add", "enqueue"}
                 \/ doing'[a].kind = "announceAll" /\ doing'[a].step = "pull"
<1>1. doing \in [Actor -> Errand] /\ doing[a] \in Errand /\ Idle.kind = "none" /\ Idle.step = "idle"
  BY DEF IInv, OwnInv, Idle
<1>2. CASE Move(a)
  BY <1>1, <1>2 DEF Move, Goto, Advanced, AfterRemoval, ShapeInv, Errand
<1>3. CASE FileGone(a) \/ Notify(a)
  BY <1>1, <1>3 DEF FileGone, Notify, Goto, Advanced, AfterRemoval, ShapeInv, Errand
<1>4. CASE Exclude(a)
  BY <1>1, <1>4 DEF Exclude, ShapeInv, Errand
<1>5. ASSUME NEW h \in Torrent, Choose(a, h)
      PROVE  doing'[a].kind = "seed" /\ doing[a].kind = "seed" /\ doing'[a].step = "add"
  BY <1>1, <1>5 DEF Choose, ShapeInv, Errand
<1>6. CASE NoMoreTorrents(a) \/ AddFails(a) \/ EnqueueStart(a)
  BY <1>1, <1>6 DEF NoMoreTorrents, AddFails, EnqueueStart, Advanced, AfterRefill, ShapeInv, Errand, Idle
<1>7. CASE Add(a)
  BY <1>1, <1>7 DEF Add, Goto, Advanced, ShapeInv, Errand
<1>8. ASSUME NEW h \in Torrent, Pull(a, h)
      PROVE  \/ doing'[a] = Idle
             \/ doing'[a].kind = "announceAll" /\ doing[a].kind = "announceAll" /\ doing'[a].step = "pull"
  BY <1>1, <1>8 DEF Pull, ShapeInv, Errand
<1>9. ~Insert(a) /\ ~Count(a) /\ ~Remove(a) /\ ~Deny(a)
  BY DEF Insert, Count, Remove, Deny, ShapeInv
<1> QED
  BY <1>1, <1>2, <1>3, <1>4, <1>5, <1>6, <1>7, <1>8, <1>9 DEF ErrandStep

\* Such users and trackers start no other errands.
LEMMA ShapeKeeps ==
    ASSUME IInv, RemovalInv, ShapeInv, LeavesOnce, [Next]_vars PROVE ShapeInv'
<1> SUFFICES ASSUME NEW a \in Actor
             PROVE  LET d == doing'[a]
                    IN  \/ d.kind = "none" /\ d.step = "idle"
                        \/ d.kind = "seed" /\ a = Engine /\ d.step \in {"exclude", "choose", "add", "enqueue"}
                        \/ d.kind \in {"archive", "deleted"} /\ d.step \in {"move", "notify"}
                        \/ d.kind = "stopped"
                             /\ d.step \in {"exclude", "choose", "add", "enqueue", "remove", "deny"}
                        \/ d.kind = "announceAll" /\ d.step = "pull"
  BY DEF ShapeInv
<1>1. CASE doing'[a] = doing[a]
  BY <1>1 DEF ShapeInv
<1>2. CASE ErrandStep(a) /\ doing[a].kind = "stopped"
  <2>1. Remove(a) => doing'[a].kind = "stopped"
    BY <1>2 DEF Remove, Goto, Advanced, IInv, OwnInv, Errand
  <2> QED
    BY <1>2, <2>1, RemovalGoesOn DEF Idle
<1>3. CASE ErrandStep(a) /\ doing[a].kind # "stopped"
  <2>1. Move(a) => doing[a].kind \in {"archive", "deleted"}
    BY <1>3 DEF Move, ShapeInv
  <2>2. doing[a].kind = "seed" => a = Engine
    BY DEF ShapeInv
  <2> QED
    BY <1>3, <2>1, <2>2, ErrandGoesOn
<1>4. CASE doing[a] = Idle /\ Next
  <2>1. Idle.kind = "none" /\ Idle.step = "idle"
    BY DEF Idle
  <2> QED
    BY <1>4, <2>1, ErrandBegins
<1>5. CASE doing[a] # Idle /\ ~ErrandStep(a)
  BY <1>5, ErrandsApart, <1>1
<1>6. CASE UNCHANGED vars
  BY <1>1, <1>6 DEF vars
<1> QED
  BY <1>2, <1>3, <1>4, <1>5, <1>6

-----------------------------------------------------------------------------
(* How the stop of a torrent goes from one place to the next.             *)

\* No stop of h is asked for or gets further.
Fades(h) == \A s, i : StopAt(s, i, h)' => StopAt(s, i, h)

\* The stop of h goes from one place to another.
Moves(h, s, i, u, j) ==
    /\ StopAt(s, i, h) /\ ~StopAt(s, i, h)'
    /\ \A v, k : StopAt(v, k, h)' => StopAt(v, k, h) \/ (v = u /\ k = j)

GoesOnward(h) ==
    \/ \E a \in Actor : Moves(h, "file", h, "notify", a)
    \/ \E a \in Actor : Moves(h, "notify", a, "queued", h) /\ h \in live
    \/ Moves(h, "queued", h, "drained", h)
    \/ \E t \in Task : Moves(h, "drained", h, "task", t) /\ phase'[t] = "waiting"
    \/ \E t \in Task : Moves(h, "task", t, "queued", h) /\ outcome[t] = "failed"
    \/ \E t \in Task, a \in Actor : Moves(h, "task", t, "removal", a)

\* Errands undisturbed, or a new one that is neither a removal nor about to ask
\* for a stop.
LEMMA NewErrandFades ==
    ASSUME IInv, NEW a \in Actor, NEW d, doing' = doing \/ doing' = [doing EXCEPT ![a] = d],
           d.kind # "stopped", d.step # "notify", NEW h
    PROVE  \A s, i : s \in {"notify", "removal"} /\ StopAt(s, i, h)' => StopAt(s, i, h)
<1>1. doing \in [Actor -> Errand]
  BY DEF IInv, OwnInv
<1>2. ASSUME NEW b \in Actor, doing'[b] # doing[b]
      PROVE  doing'[b].kind # "stopped" /\ doing'[b].step # "notify"
  BY <1>1, <1>2
<1> QED
  BY <1>2 DEF StopAt, Removing

\* Its own steps do not make an errand the removal of another torrent.
LEMMA OwnStepRemoves ==
    ASSUME IInv, RemovalInv, ShapeInv, NEW a \in Actor, ErrandStep(a), NEW h, Removing(a, h)'
    PROVE  Removing(a, h)
<1>1. doing[a] \in Errand /\ doing \in [Actor -> Errand]
  BY DEF IInv, OwnInv
<1>2. CASE doing[a].kind = "stopped"
  <2>1. Deny(a) => doing'[a] = Idle
    BY <1>1 DEF Deny, Goto, Advanced
  <2>2. doing[a].step = "deny" => Deny(a)
    BY DEF ErrandStep, Move, FileGone, Notify, Insert, Count, Exclude, Choose,
       NoMoreTorrents, Add, AddFails, EnqueueStart, Remove, Pull
  <2>3. doing[a].step # "deny"
    BY <2>1, <2>2 DEF Removing, Idle
  <2> QED
    BY <1>2, <2>3, RemovalGoesOn DEF Removing, RemovalInv, Deny
<1>3. CASE doing[a].kind # "stopped"
  BY <1>3, ErrandGoesOn DEF Removing
<1> QED
  BY <1>2, <1>3

\* An errand passes a stop on when it drops the file from the catalogue and when
\* it tells the listener.
LEMMA ErrandStepStops ==
    ASSUME IInv, RemovalInv, ShapeInv, LeavesOnce, NEW a \in Actor, ErrandStep(a),
           NEW h \in Torrent
    PROVE  Fades(h) \/ GoesOnward(h)
<1> USE DEF taskVars, executorVars, queueVars, poolVars
<1>1. /\ E!TypeOK /\ TaskTypes /\ QueueTypes /\ doing \in [Actor -> Errand]
      /\ doing[a] \in Errand
  BY SameExecutor DEF IInv, ExecutorInv, OwnInv
<1>2. ASSUME NEW t \in Task, Stops(t, h)' PROVE Stops(t, h)
  <2>1. CASE Deny(a)
    <3>1. target' = target /\ (phase'[t] = phase[t] \/ phase'[t] = "ended")
      BY <1>1, <2>1, AbortEndsOnly DEF Deny, E!Deny
    <3> QED
      BY <1>2, <2>1, <3>1 DEF Deny, Stops
  <2>2. CASE UNCHANGED taskVars
    BY <1>2, <2>2 DEF Stops
  <2> QED
    BY <2>1, <2>2 DEF ErrandStep, Move, FileGone, Notify, Insert, Count, Exclude, Choose,
       NoMoreTorrents, Add, AddFails, EnqueueStart, Remove, Pull
<1>3. ready' = ready
  BY DEF ErrandStep, Move, FileGone, Notify, Insert, Count, Exclude, Choose,
     NoMoreTorrents, Add, AddFails, EnqueueStart, Remove, Deny, Pull
<1>4. CASE pending'[h] = "stopped" /\ pending[h] # "stopped"
  <2>1. ~EnqueueStart(a) /\ \A g \in Torrent : ~Pull(a, g)
    BY <1>1, <1>4 DEF EnqueueStart, Pull, Q!Replaced, QueueTypes
  <2>2. Notify(a) /\ doing[a].about = h /\ h \in live
    <3>1. Notify(a)
      BY <1>4, <2>1 DEF ErrandStep, Move, FileGone, Insert, Count, Exclude, Choose,
         NoMoreTorrents, Add, AddFails, Remove, Deny
    <3> QED
      BY <1>1, <1>4, <3>1 DEF Notify, Q!Replaced, QueueTypes
  <2>3. doing'[a] = Idle /\ files' = files /\ Idle.step = "idle" /\ Idle.kind = "none"
    BY <1>1, <2>2 DEF Notify, Goto, Advanced, AfterRemoval, ShapeInv, Idle
  <2>4. \A b \in Actor : b # a => doing'[b] = doing[b]
    BY ErrandAlone
  <2>5. Moves(h, "notify", a, "queued", h)
    <3>1. StopAt("notify", a, h) /\ ~StopAt("notify", a, h)'
      BY <2>2, <2>3 DEF Notify, StopAt
    <3>2. ASSUME NEW s, NEW i, StopAt(s, i, h)', s # "queued" PROVE StopAt(s, i, h)
      BY <1>2, <1>3, <2>3, <2>4, <3>2 DEF StopAt, Removing
    <3> QED
      BY <3>1, <3>2 DEF Moves, StopAt
  <2> QED
    BY <2>2, <2>5 DEF GoesOnward
<1>5. CASE Move(a) /\ doing[a].about = h /\ h \in files
  <2>1. /\ h \notin files' /\ files' \subseteq files /\ pending' = pending
        /\ doing'[a].kind = doing[a].kind /\ doing[a].kind # "stopped"
    BY <1>1, <1>5 DEF Move, Goto, Advanced, ShapeInv, Errand
  <2>2. \A b \in Actor : b # a => doing'[b] = doing[b]
    BY ErrandAlone
  <2>3. Moves(h, "file", h, "notify", a)
    <3>1. StopAt("file", h, h) /\ ~StopAt("file", h, h)'
      BY <1>5, <2>1 DEF StopAt
    <3>2. ASSUME NEW s, NEW i, StopAt(s, i, h)', ~(s = "notify" /\ i = a) PROVE StopAt(s, i, h)
      BY <1>2, <1>3, <2>1, <2>2, <3>2 DEF StopAt, Removing
    <3> QED
      BY <3>1, <3>2 DEF Moves
  <2> QED
    BY <2>3 DEF GoesOnward
<1>6. CASE /\ pending'[h] = "stopped" => pending[h] = "stopped"
           /\ ~(Move(a) /\ doing[a].about = h /\ h \in files)
  <2>1. files' \subseteq files
    <3>1. ~Insert(a)
      BY DEF Insert, ShapeInv
    <3> QED
      BY <3>1 DEF ErrandStep, Move, FileGone, Notify, Count, Exclude, Choose,
         NoMoreTorrents, Add, AddFails, EnqueueStart, Remove, Deny, Pull
  <2>2. ASSUME NEW b \in Actor, doing'[b].step = "notify", doing'[b].about = h
        PROVE  doing[b].step = "notify" /\ doing[b].about = h
    <3>1. CASE b # a
      BY <2>2, <3>1, ErrandAlone
    <3>2. CASE b = a /\ doing[a].kind = "stopped"
      BY <2>2, <3>2, RemovalGoesOn DEF Idle
    <3>3. CASE b = a /\ doing[a].kind # "stopped"
      BY <1>6, <2>2, <3>3, ErrandGoesOn
    <3> QED
      BY <3>1, <3>2, <3>3
  <2>3. ASSUME NEW b \in Actor, Removing(b, h)' PROVE Removing(b, h)
    <3>1. CASE b # a
      BY <2>3, <3>1, ErrandAlone DEF Removing
    <3>2. CASE b = a
      BY <2>3, <3>2, OwnStepRemoves
    <3> QED
      BY <3>1, <3>2
  <2> QED
    BY <1>2, <1>3, <1>6, <2>1, <2>2, <2>3 DEF Fades, StopAt
<1> QED
  BY <1>4, <1>5, <1>6

\* A task passes it on when the stop has failed and when it has succeeded.
LEMMA TaskStepStops ==
    ASSUME IInv, ShapeInv, LeavesOnce, NEW t \in Task, AcquirePermit(t) \/ HandlerStep(t),
           ~Stopping, NEW h \in Torrent
    PROVE  Fades(h) \/ GoesOnward(h)
<1> USE DEF executorVars, queueVars, poolVars
<1>1. /\ E!TypeOK /\ TaskTypes /\ HandlerInv /\ QueueTypes
      /\ doing \in [Actor -> Errand]
  BY SameExecutor DEF IInv, ExecutorInv, OwnInv
<1>2. files' = files /\ ready' = ready /\ event' = event
  BY DEF AcquirePermit, HandlerStep, Respond, Enqueue, Credit, DropWhileStopping,
     ArchiveTorrent, ReplaceStopped, ReplaceFailed, Leave
<1>3. ASSUME NEW u \in Task, Stops(u, h)' PROVE Stops(u, h)
  <2>1. target' = target /\ (phase[u] = "ended" => phase'[u] = "ended")
    BY <1>1 DEF AcquirePermit, HandlerStep, Respond, Enqueue, Credit, DropWhileStopping,
       ArchiveTorrent, ReplaceStopped, ReplaceFailed, Leave, E!AcquirePermit, E!Respond,
       E!Leave, E!TypeOK
  <2>2. handler[u] = "leave" => handler'[u] = "leave" \/ phase'[u] = "ended"
    BY <1>1 DEF AcquirePermit, HandlerStep, Respond, Enqueue, Credit, DropWhileStopping,
       ArchiveTorrent, ReplaceStopped, ReplaceFailed, Leave, E!AcquirePermit, E!Respond,
       E!Leave, E!TypeOK, TaskTypes, HandlerInv
  <2> QED
    BY <1>2, <1>3, <2>1, <2>2 DEF Stops
<1>4. CASE Enqueue(t) /\ target[t] = h /\ FollowUp(event[t], outcome[t]) = "stopped"
  <2>1. event[t] = "stopped" /\ outcome[t] = "failed"
    BY <1>4, OrchestratorAssumption DEF FollowUp, Event
  <2>2. handler'[t] = "leave" /\ doing' = doing
    BY <1>1, <1>4, <2>1 DEF Enqueue, AfterEnqueue, AfterCredit, Registers, Unregisters,
       Archives, Drops, Success, TaskTypes
  <2>3. Stops(t, h) /\ ~Stops(t, h)'
    BY <1>1, <1>4, <2>1, <2>2 DEF Enqueue, Stops, HandlerInv
  <2>4. Moves(h, "task", t, "queued", h)
    BY <1>2, <1>3, <2>2, <2>3 DEF Moves, StopAt, Removing
  <2> QED
    BY <2>1, <2>4 DEF GoesOnward
<1>5. ASSUME NEW j \in Job, ReplaceStopped(t, j), target[t] = h PROVE GoesOnward(h)
  <2>1. /\ j \in Actor /\ doing' = [doing EXCEPT ![j] =
                [Idle EXCEPT !.kind = "stopped", !.step = "exclude", !.about = h]]
        /\ pending' = pending
    BY <1>5 DEF ReplaceStopped, Begin, Actor
  <2>2. doing'[j].step # "notify" /\ \A b \in Actor : b # j => doing'[b] = doing[b]
    BY <1>1, <2>1 DEF Idle
  <2>3. Stops(t, h) /\ ~Stops(t, h)'
    BY <1>1, <1>5 DEF ReplaceStopped, Stops, HandlerInv, TaskTypes
  <2>4. Moves(h, "task", t, "removal", j)
    <3>1. ASSUME NEW s, NEW i, StopAt(s, i, h)', ~(s = "removal" /\ i = j) PROVE StopAt(s, i, h)
      BY <1>2, <1>3, <2>1, <2>2, <3>1 DEF StopAt, Removing
    <3>2. StopAt("task", t, h) /\ ~StopAt("task", t, h)'
      BY <2>3 DEF StopAt
    <3> QED
      BY <3>1, <3>2 DEF Moves
  <2> QED
    BY <2>1, <2>4 DEF GoesOnward
<1>6. CASE /\ pending'[h] = "stopped" => pending[h] = "stopped"
           /\ \A s, i : s \in {"notify", "removal"} /\ StopAt(s, i, h)' => StopAt(s, i, h)
  BY <1>2, <1>3, <1>6 DEF Fades, StopAt
<1>7. ASSUME NEW j \in Job, ArchiveTorrent(t, j)
      PROVE  \A s, i : s \in {"notify", "removal"} /\ StopAt(s, i, h)' => StopAt(s, i, h)
  <2> DEFINE d == [Idle EXCEPT !.kind = "archive", !.step = "move", !.about = target[t]]
  <2>1. j \in Actor /\ doing' = [doing EXCEPT ![j] = d]
    BY <1>7 DEF ArchiveTorrent, Begin, Actor
  <2>2. d.kind # "stopped" /\ d.step # "notify"
    BY DEF Idle
  <2> QED
    BY <2>1, <2>2, NewErrandFades
<1>8. ASSUME NEW j \in Job, ReplaceStopped(t, j), target[t] # h
      PROVE  \A s, i : s \in {"notify", "removal"} /\ StopAt(s, i, h)' => StopAt(s, i, h)
  <2>1. /\ j \in Actor /\ doing' = [doing EXCEPT ![j] =
                [Idle EXCEPT !.kind = "stopped", !.step = "exclude", !.about = target[t]]]
    BY <1>8 DEF ReplaceStopped, Begin, Actor
  <2>2. /\ doing'[j].step # "notify" /\ doing'[j].about # h
        /\ \A b \in Actor : b # j => doing'[b] = doing[b]
    BY <1>1, <1>8, <2>1 DEF Idle
  <2> QED
    BY <2>2 DEF StopAt, Removing
<1>9. ASSUME NEW j \in Job, ReplaceFailed(t, j) PROVE FALSE
  BY <1>1, <1>9 DEF ReplaceFailed, LeavesOnce, TaskTypes
<1>10. pending' = pending \/ Enqueue(t)
  BY DEF AcquirePermit, HandlerStep, Respond, Credit, DropWhileStopping,
     ArchiveTorrent, ReplaceStopped, ReplaceFailed, Leave
<1>11. \/ doing' = doing
       \/ \E j \in Job : ArchiveTorrent(t, j) \/ ReplaceStopped(t, j)
  BY <1>9 DEF AcquirePermit, HandlerStep, Respond, Enqueue, Credit, DropWhileStopping, Leave
<1>12. doing' = doing
       => \A s, i : s \in {"notify", "removal"} /\ StopAt(s, i, h)' => StopAt(s, i, h)
  BY DEF StopAt, Removing
<1>13. Enqueue(t) => \/ pending'[h] = pending[h]
                     \/ target[t] = h /\ pending'[h] = FollowUp(event[t], outcome[t])
  BY <1>1 DEF Enqueue, Q!Replaced, QueueTypes
<1>14. \A j \in Job : ArchiveTorrent(t, j) \/ ReplaceStopped(t, j) => ~Enqueue(t)
  BY DEF ArchiveTorrent, ReplaceStopped, Enqueue
<1> QED
  <2>1. CASE Enqueue(t)
    BY <1>4, <1>6, <1>11, <1>12, <1>13, <1>14, <2>1
  <2>2. CASE ~Enqueue(t)
    BY <1>5, <1>6, <1>7, <1>8, <1>10, <1>11, <1>12, <2>2
  <2> QED
    BY <2>1, <2>2

\* The loop passes it on from the queue to its hands and from them to a task.
LEMMA LoopStepStops ==
    ASSUME IInv, LoopStep, NEW h \in Torrent
    PROVE  Fades(h) \/ GoesOnward(h)
<1> USE DEF taskVars, executorVars, poolVars
<1>1. E!TypeOK /\ TaskTypes /\ HandlerInv /\ QueueTypes /\ NoRequest \notin Event
  BY SameExecutor, OrchestratorAssumption DEF IInv, ExecutorInv, OwnInv
<1>2. ASSUME NEW S \in SUBSET Torrent, Tick(S) PROVE Fades(h) \/ GoesOnward(h)
  <2>1. files' = files /\ doing' = doing /\ UNCHANGED taskVars
    BY <1>2 DEF Tick
  <2>2. CASE h \in S /\ pending[h] = "stopped"
    <3>1. pending'[h] # "stopped" /\ ready'[h] = "stopped"
      BY <1>1, <1>2, <2>2 DEF Tick, Q!Without, Event
    <3>2. Moves(h, "queued", h, "drained", h)
      BY <2>1, <2>2, <3>1 DEF Moves, StopAt, Removing, Stops
    <3> QED
      BY <3>2 DEF GoesOnward
  <2>3. CASE ~(h \in S /\ pending[h] = "stopped")
    <3>1. (pending'[h] = "stopped" => pending[h] = "stopped") /\ ready'[h] # "stopped"
      BY <1>1, <1>2, <2>3 DEF Tick, Q!Without, Event
    <3> QED
      BY <2>1, <3>1 DEF Fades, StopAt, Removing, Stops
  <2> QED
    BY <2>2, <2>3
<1>3. ASSUME NEW g \in Torrent, Skip(g) PROVE Fades(h)
  <2>1. ready'[h] = "stopped" => ready[h] = "stopped"
    BY <1>1, <1>3 DEF Skip, QueueTypes, Event
  <2> QED
    BY <1>3, <2>1 DEF Skip, Fades, StopAt, Removing, Stops
<1>4. ASSUME NEW g \in Torrent, NEW t \in Task, Dispatch(g, t) PROVE Fades(h) \/ GoesOnward(h)
  <2>1. files' = files /\ doing' = doing /\ pending' = pending /\ handler' = handler
    BY <1>4 DEF Dispatch
  <2>2. /\ phase[t] = "ended" /\ phase'[t] = "waiting" /\ target'[t] = g
        /\ \A u \in Task : u # t => phase'[u] = phase[u] /\ target'[u] = target[u]
                                      /\ event'[u] = event[u]
    BY <1>1, <1>4 DEF Dispatch, E!Spawn, E!Free, E!Unfinished, E!TypeOK, TaskTypes
  <2>3. /\ event'[t] = "stopped" => ready[g] = "stopped"
        /\ ready'[g] # "stopped" /\ \A k \in Torrent : k # g => ready'[k] = ready[k]
    BY <1>1, <1>4 DEF Dispatch, QueueTypes, TaskTypes, Event
  <2>4. ASSUME NEW s, NEW i, StopAt(s, i, h)', ~(s = "task" /\ i = t) PROVE StopAt(s, i, h)
    BY <2>1, <2>2, <2>3, <2>4 DEF StopAt, Removing, Stops
  <2>5. CASE Stops(t, h)'
    <3>1. g = h /\ StopAt("drained", h, h) /\ ~StopAt("drained", h, h)'
      BY <2>2, <2>3, <2>5 DEF Stops, StopAt
    <3>2. Moves(h, "drained", h, "task", t)
      BY <2>4, <3>1 DEF Moves
    <3> QED
      BY <2>2, <3>2 DEF GoesOnward
  <2>6. CASE ~Stops(t, h)'
    <3>1. ~StopAt("task", t, h)'
      BY <2>6 DEF StopAt
    <3> QED
      BY <2>4, <3>1 DEF Fades
  <2> QED
    BY <2>5, <2>6
<1>5. CASE Submit
  <2>1. \A t \in Task : /\ target'[t] = target[t] /\ event'[t] = event[t] /\ handler'[t] = handler[t]
                        /\ phase'[t] = phase[t] \/ phase'[t] = "ended"
    BY <1>1, <1>5, AbortEndsOnly DEF Submit, E!Submit
  <2>2. UNCHANGED <<files, doing, pending, ready>>
    BY <1>5 DEF Submit, queueVars
  <2> QED
    BY <2>1, <2>2 DEF Fades, StopAt, Removing, Stops
<1> QED
  BY <1>2, <1>3, <1>4, <1>5 DEF LoopStep

\* start() has no stop to ask for, ...
LEMMA CallerStepStops ==
    ASSUME IInv, CallerStep, ~Stopping', NEW h \in Torrent
    PROVE  Fades(h)
<1> USE DEF taskVars, executorVars, queueVars, poolVars, engineVars
<1>1. CASE SeedNext
  <2> DEFINE d == [Idle EXCEPT !.kind = "seed", !.step = "exclude", !.about = NoTorrent]
  <2>1. Engine \in Actor /\ doing' = [doing EXCEPT ![Engine] = d]
    BY <1>1 DEF SeedNext, Begin, Actor
  <2>2. d.kind # "stopped" /\ d.step # "notify"
    BY DEF Idle
  <2>3. \A s, i : s \in {"notify", "removal"} /\ StopAt(s, i, h)' => StopAt(s, i, h)
    BY <2>1, <2>2, NewErrandFades
  <2>4. UNCHANGED <<files, pending, ready, phase, target, event, handler>>
    BY <1>1 DEF SeedNext
  <2> QED
    BY <2>3, <2>4 DEF Fades, StopAt, Stops
<1>2. CASE Listen
  BY <1>2 DEF Listen, Fades, StopAt, Stops, Removing
<1> QED
  BY <1>1, <1>2 DEF CallerStep, Unlisten, SweepPending, SweepLive, BeginAwait, EndAwait, Stopping

\* ... and the user asks for one through the catalogue only.
LEMMA UserStepStops ==
    ASSUME IInv, LeavesOnce, UserStep, NEW h \in Torrent
    PROVE  Fades(h)
<1> USE DEF taskVars, executorVars, queueVars, poolVars
<1>1. UNCHANGED <<files, pending, ready, phase, target, event, handler>>
  BY DEF UserStep, AnnounceAllNow, BeginStop, MarkCompletedPending, FileEvent
<1>2. \E a \in Actor : \E d : /\ doing' = doing \/ doing' = [doing EXCEPT ![a] = d]
                              /\ d.kind # "stopped" /\ d.step # "notify"
  <2>1. CASE AnnounceAllNow
    <3> DEFINE d == [Idle EXCEPT !.kind = "announceAll", !.step = "pull", !.snapshot = live]
    <3>1. d.kind # "stopped" /\ d.step # "notify"
      BY DEF Idle
    <3> QED
      BY <2>1, <3>1 DEF AnnounceAllNow, Actor
  <2>2. ASSUME NEW g \in Torrent, FileEvent(g)
        PROVE  \E a \in Actor : \E d : /\ doing' = doing \/ doing' = [doing EXCEPT ![a] = d]
                                       /\ d.kind # "stopped" /\ d.step # "notify"
    <3> DEFINE d == [Idle EXCEPT !.kind = "deleted", !.step = "move", !.about = g]
    <3>1. d.kind # "stopped" /\ d.step # "notify"
      BY DEF Idle
    <3> QED
      BY <2>2, <3>1 DEF FileEvent, LeavesOnce, Begin, Actor
  <2>3. CASE doing' = doing
    <3>1. Idle.kind # "stopped" /\ Idle.step # "notify" /\ Watcher \in Actor
      BY DEF Idle, Actor
    <3> QED
      BY <2>3, <3>1
  <2> QED
    BY <2>1, <2>2, <2>3 DEF UserStep, BeginStop, MarkCompletedPending
<1>3. \A s, i : s \in {"notify", "removal"} /\ StopAt(s, i, h)' => StopAt(s, i, h)
  BY <1>2, NewErrandFades
<1> QED
  BY <1>1, <1>3 DEF Fades, StopAt, Stops

\* Until the engine stops, the stop of a torrent only ever goes to its next place.
LEMMA StopGoesOn ==
    ASSUME IInv, RemovalInv, ShapeInv, LeavesOnce, Next, ~Stopping', NEW h \in Torrent
    PROVE  Fades(h) \/ GoesOnward(h)
BY StoppingStays, ErrandStepStops, TaskStepStops, LoopStepStops, CallerStepStops, UserStepStops
   DEF Next

-----------------------------------------------------------------------------
(* The invariant of the stops.                                             *)

\* The stop of a torrent is in one place at most, ...
OneStop ==
    ~Stopping => \A h \in Torrent : \A s, i, u, j :
        StopAt(s, i, h) /\ StopAt(u, j, h) => s = u /\ i = j

\* ... and once it is queued the torrent stays in the pool until its removal.
StopIsLive ==
    ~Stopping => \A h \in Torrent : \A s, i :
        StopAt(s, i, h) /\ s \notin {"file", "notify"} => h \in live

\* No torrent is being removed twice.
OneRemoval ==
    \A a, b \in Actor, h \in Torrent : Removing(a, h) /\ Removing(b, h) => a = b

StopInv == IInv /\ RemovalInv /\ ShapeInv /\ OneStop /\ StopIsLive /\ OneRemoval

\* A stop that only goes on stays alone.
LEMMA OneStopKeeps == ASSUME StopInv, LeavesOnce, Next PROVE OneStop'
<1> SUFFICES ASSUME ~Stopping', NEW h \in Torrent
             PROVE  \A s, i, u, j : StopAt(s, i, h)' /\ StopAt(u, j, h)' => s = u /\ i = j
  BY DEF OneStop
<1>1. \A s, i, u, j : StopAt(s, i, h) /\ StopAt(u, j, h) => s = u /\ i = j
  BY StoppingStays DEF StopInv, OneStop
<1>2. Fades(h) \/ GoesOnward(h)
  BY StopGoesOn DEF StopInv
<1>3. CASE Fades(h)
  BY <1>1, <1>3 DEF Fades
<1>4. CASE GoesOnward(h)
  <2>1. PICK s, i, u, j : Moves(h, s, i, u, j)
    BY <1>4 DEF GoesOnward
  <2>2. ASSUME NEW v, NEW k, StopAt(v, k, h)' PROVE v = u /\ k = j
    <3>1. StopAt(v, k, h) => v = s /\ k = i
      BY <1>1, <2>1 DEF Moves
    <3> QED
      BY <2>1, <2>2, <3>1 DEF Moves
  <2> QED
    BY <2>2
<1> QED
  BY <1>2, <1>3, <1>4

\* Until the engine stops, a torrent leaves the pool by its removal.
LEMMA LeavesByRemoval ==
    ASSUME StopInv, LeavesOnce, Next, ~Stopping', NEW h \in Torrent, h \in live, h \notin live'
    PROVE  \E a \in Actor : Remove(a) /\ Removing(a, h) /\ ~Removing(a, h)'
<1> USE DEF poolVars
<1>1. ~Stopping /\ TaskTypes /\ doing \in [Actor -> Errand]
  BY StoppingStays DEF StopInv, IInv, OwnInv
<1>2. ASSUME NEW a \in Actor, Remove(a) PROVE Removing(a, h) /\ ~Removing(a, h)'
  <2>1. doing[a].about = h /\ doing[a].step = "remove"
    BY <1>2 DEF Remove
  <2>2. doing[a].kind = "stopped"
    BY <2>1 DEF StopInv, ShapeInv
  <2>3. doing'[a].step = "deny"
    BY <1>1, <1>2 DEF Remove, Goto, Advanced, Errand
  <2> QED
    BY <2>1, <2>2, <2>3 DEF Removing
<1>3. ~LoopStep
  BY DEF LoopStep, Tick, Skip, Dispatch, Submit
<1>4. ~CallerStep
  BY DEF CallerStep, SeedNext, Listen, Unlisten, SweepPending, SweepLive, BeginAwait, EndAwait
<1>5. ASSUME NEW t \in Task PROVE ~AcquirePermit(t) /\ ~HandlerStep(t)
  BY <1>1 DEF AcquirePermit, HandlerStep, Respond, Enqueue, Credit, DropWhileStopping,
     ArchiveTorrent, ReplaceStopped, ReplaceFailed, Leave, LeavesOnce, TaskTypes
<1>6. ASSUME NEW a \in Actor, ErrandStep(a) PROVE Remove(a)
  BY <1>6 DEF ErrandStep, Move, FileGone, Notify, Insert, Count, Exclude, Choose,
     NoMoreTorrents, Add, AddFails, EnqueueStart, Deny, Pull
<1>7. ~UserStep
  BY DEF UserStep, AnnounceAllNow, BeginStop, MarkCompletedPending, FileEvent
<1> QED
  BY <1>2, <1>3, <1>4, <1>5, <1>6, <1>7 DEF Next

\* The step that takes a torrent out of the pool takes its stop with it.
LEMMA StopIsLiveKeeps == ASSUME StopInv, LeavesOnce, Next PROVE StopIsLive'
<1> SUFFICES ASSUME ~Stopping', NEW h \in Torrent, NEW s, NEW i, StopAt(s, i, h)',
                    s \notin {"file", "notify"}
             PROVE  h \in live'
  BY DEF StopIsLive
<1>1. /\ \A v, k, u, j : StopAt(v, k, h) /\ StopAt(u, j, h) => v = u /\ k = j
      /\ \A v, k : StopAt(v, k, h) /\ v \notin {"file", "notify"} => h \in live
  BY StoppingStays DEF StopInv, OneStop, StopIsLive
<1>2. Fades(h) \/ GoesOnward(h)
  BY StopGoesOn DEF StopInv
<1>3. h \in live
  BY <1>1, <1>2 DEF Fades, GoesOnward, Moves
<1>4. ASSUME h \notin live' PROVE FALSE
  <2>1. PICK a \in Actor : Remove(a) /\ Removing(a, h) /\ ~Removing(a, h)'
    BY <1>3, <1>4, LeavesByRemoval
  <2>2. StopAt("removal", a, h) /\ ~StopAt("removal", a, h)'
    BY <2>1 DEF StopAt
  <2>3. Fades(h)
    BY <1>1, <1>2, <2>2 DEF GoesOnward, Moves
  <2> QED
    BY <1>1, <2>2, <2>3 DEF Fades
<1> QED
  BY <1>4

\* Each removal was under way, or is the one a stopped answer asks for now.
LEMMA RemovingBefore ==
    ASSUME StopInv, LeavesOnce, Next, NEW a \in Actor, NEW h, Removing(a, h)'
    PROVE  Removing(a, h) \/ \E t \in Task : ReplaceStopped(t, a) /\ target[t] = h
<1> USE DEF StopInv
<1>1. CASE ErrandStep(a)
  BY <1>1, OwnStepRemoves
<1>2. CASE doing[a] # Idle /\ ~ErrandStep(a)
  BY <1>2, ErrandsApart DEF Removing
<1>3. CASE doing[a] = Idle
  <2>1. Idle.kind = "none"
    BY DEF Idle
  <2> QED
    BY <1>3, <2>1, ErrandBegins DEF Removing
<1> QED
  BY <1>1, <1>2, <1>3

\* Removals begin only before the engine stops, and only where none is under way.
LEMMA OneRemovalKeeps == ASSUME StopInv, LeavesOnce, Next, OneStop' PROVE OneRemoval'
<1>1. CASE ~Stopping'
  <2>1. \A a \in Actor : \A h : Removing(a, h)' => StopAt("removal", a, h)'
    BY DEF StopAt
  <2> QED
    BY <1>1, <2>1 DEF OneStop, OneRemoval
<1>2. CASE Stopping'
  <2>1. ASSUME NEW a \in Actor, NEW h \in Torrent, Removing(a, h)' PROVE Removing(a, h)
    <3>1. \A t \in Task : ~ReplaceStopped(t, a)
      BY <1>2 DEF ReplaceStopped, Stopping, engineVars
    <3> QED
      BY <2>1, <3>1, RemovingBefore
  <2> QED
    BY <2>1 DEF StopInv, OneRemoval
<1> QED
  BY <1>1, <1>2

\* At first each torrent's stop is that of its file.
LEMMA InitStopInv == Init => StopInv
<1> SUFFICES ASSUME Init PROVE StopInv
  OBVIOUS
<1>1. IInv
  BY InitIInv
<1>2. \A a \in Actor : doing[a].kind = "none" /\ doing[a].step = "idle"
  BY DEF Init, Idle
<1>3. RemovalInv /\ ShapeInv /\ OneRemoval
  BY <1>2 DEF RemovalInv, ShapeInv, OneRemoval, Removing
<1>4. ASSUME NEW h \in Torrent, NEW s, NEW i, StopAt(s, i, h) PROVE s = "file" /\ i = h
  BY <1>2, <1>4, OrchestratorAssumption DEF Init, Q!Init, E!Init, StopAt, Stops, Removing, Event
<1> QED
  BY <1>1, <1>3, <1>4 DEF StopInv, OneStop, StopIsLive

\* The invariant of the stops is inductive.
LEMMA NextStopInv == StopInv /\ LeavesOnce /\ [Next]_vars => StopInv'
<1> SUFFICES ASSUME StopInv, LeavesOnce, [Next]_vars PROVE StopInv'
  OBVIOUS
<1>1. IInv' /\ RemovalInv' /\ ShapeInv'
  BY NextIInv, RemovalKeeps, ShapeKeeps DEF StopInv
<1>2. CASE Next
  BY <1>1, <1>2, OneStopKeeps, StopIsLiveKeeps, OneRemovalKeeps DEF StopInv
<1>3. CASE UNCHANGED vars
  <2>1. OneStop' /\ StopIsLive' /\ OneRemoval'
    BY <1>3 DEF StopInv, OneStop, StopIsLive, OneRemoval, StopAt, Stops, Removing, Stopping,
       vars, taskVars, executorVars, poolVars, queueVars, engineVars
  <2> QED
    BY <1>1, <2>1 DEF StopInv
<1> QED
  BY <1>2, <1>3

-----------------------------------------------------------------------------
(* The places of the pool.                                                 *)

\* Errand a is the removal of h and has yet to refill its place; has done so.
Refills(a, h) == /\ doing[a].kind = "stopped" /\ doing[a].about = h
                 /\ doing[a].step \in {"exclude", "choose", "add"}
Departs(a, h) == /\ doing[a].kind = "stopped" /\ doing[a].about = h
                 /\ doing[a].step \in {"enqueue", "remove"}

Refilling == {h \in Torrent : \E a \in Actor : Refills(a, h)}
Departing == {h \in Torrent : \E a \in Actor : Departs(a, h)}

\* The places taken: by a torrent of the pool that is not on its way out, or
\* kept for the one that a removal will choose.
Claimed == (live \ Departing) \cup Refilling

\* The places start() may still fill: one of them is the seeding step's.
Seeding == /\ doing[Engine].kind = "seed"
           /\ doing[Engine].step \in {"exclude", "choose", "add"}
ToFill  == toSeed + (IF Seeding THEN 1 ELSE 0)

Room == Cardinality(Claimed) + ToFill <= Seed

\* These are numbers.
Countable ==
    /\ IsFiniteSet(Claimed) /\ Cardinality(Claimed) \in Nat
    /\ IsFiniteSet(Departing) /\ Cardinality(Departing) \in Nat
    /\ ToFill \in Nat

LEMMA ClaimedIsFinite == IInv => Countable
<1> SUFFICES ASSUME IInv PROVE Countable
  OBVIOUS
<1>1. Claimed \in SUBSET Torrent /\ Departing \in SUBSET Torrent
  BY DEF IInv, OwnInv, PoolTypes, Claimed, Refilling, Departing
<1>2. toSeed \in Nat
  BY OrchestratorAssumption DEF IInv, OwnInv, EngineTypes
<1>3. ToFill \in Nat
  BY <1>2 DEF ToFill
<1> QED
  BY <1>1, <1>3, OrchestratorAssumption, FS_Subset, FS_CardinalityType DEF Countable

\* A departing torrent stays so until its removal.
LEMMA DepartsStays ==
    ASSUME StopInv, LeavesOnce, Next, NEW a \in Actor, NEW h, Departs(a, h), ~Remove(a)
    PROVE  Departs(a, h)'
<1>1. CASE ErrandStep(a)
  <2>1. doing[a] \in Errand /\ doing \in [Actor -> Errand]
    BY DEF StopInv, IInv, OwnInv
  <2>2. EnqueueStart(a)
    BY <1>1, RemovalGoesOn DEF Departs, ErrandStep, Move, FileGone, Notify, Insert, Count,
       Exclude, NoMoreTorrents, Add, AddFails, Choose, Pull, Deny
  <2>3. doing'[a].step = "remove"
    BY <2>1, <2>2 DEF EnqueueStart, Departs, Advanced, AfterRefill, Errand
  <2>4. /\ doing'[a].kind = "stopped" /\ doing'[a].about = h
    BY <1>1, <2>2, <2>3, RemovalGoesOn DEF StopInv, Departs, EnqueueStart, Idle
  <2> QED
    BY <2>3, <2>4 DEF Departs
<1>2. CASE ~ErrandStep(a)
  <2>1. doing[a] # Idle
    BY DEF Departs, Idle
  <2> QED
    BY <1>2, <2>1, ErrandsApart DEF StopInv, Departs
<1> QED
  BY <1>1, <1>2

\* A removal that has yet to refill had so before, or has just begun.
LEMMA RefillsBefore ==
    ASSUME StopInv, LeavesOnce, Next, NEW a \in Actor, NEW h, Refills(a, h)'
    PROVE  Refills(a, h) \/ \E t \in Task : ReplaceStopped(t, a) /\ target[t] = h
<1>1. Removing(a, h)'
  BY DEF Refills, Removing
<1>2. CASE Removing(a, h) /\ ~Refills(a, h)
  <2>1. Departs(a, h)
    BY <1>2 DEF Departs, Refills, Removing
  <2>2. Remove(a) => doing'[a].step = "deny"
    BY DEF StopInv, IInv, OwnInv, Errand, Remove, Goto, Advanced
  <2> QED
    BY <2>1, <2>2, DepartsStays DEF Departs, Refills
<1> QED
  BY <1>1, <1>2, RemovingBefore

\* Only an announcer added takes a place that was not taken.
LEMMA ClaimedBefore ==
    ASSUME StopInv, LeavesOnce, Next, NEW h, h \in Claimed', h \notin Claimed
    PROVE  h \in live' /\ h \notin live /\ h \notin Departing' /\ h \notin Refilling'
<1>1. ASSUME NEW a \in Actor, Refills(a, h)' PROVE FALSE
  <2>1. h \in Torrent
    BY <1>1, NextIInv DEF StopInv, IInv, OwnInv, ErrandInv, WellPlaced, Refills
  <2>2. PICK t \in Task : ReplaceStopped(t, a) /\ target[t] = h
    BY <1>1, <2>1, RefillsBefore DEF Claimed, Refilling
  <2>3. ~Stopping /\ StopAt("task", t, h)
    BY <2>2 DEF ReplaceStopped, StopInv, IInv, OwnInv, HandlerInv, StopAt, Stops
  <2>4. h \in live
    BY <2>1, <2>3 DEF StopInv, StopIsLive
  <2>5. PICK b \in Actor : Departs(b, h)
    BY <2>1, <2>4 DEF Claimed, Departing
  <2>6. StopAt("removal", b, h)
    BY <2>5 DEF StopAt, Removing, Departs
  <2> QED
    BY <2>1, <2>3, <2>6 DEF StopInv, OneStop
<1>2. h \notin Refilling'
  BY <1>1 DEF Refilling
<1>3. h \in live' /\ h \notin Departing'
  BY <1>2 DEF Claimed
<1>4. CASE h \in live
  <2>1. PICK a \in Actor : Departs(a, h)
    BY <1>4 DEF Claimed, Departing
  <2>2. h \in Torrent
    BY <1>4 DEF StopInv, IInv, OwnInv, PoolTypes
  <2>3. Remove(a)
    BY <1>3, <2>1, <2>2, DepartsStays DEF Departing
  <2> QED
    BY <1>3, <2>1, <2>3 DEF Remove, Departs
<1> QED
  BY <1>2, <1>3, <1>4

\* start()'s loop never gets back a turn it has taken.
LEMMA ToFillShrinks ==
    ASSUME StopInv, LeavesOnce, Next
    PROVE  /\ ToFill' <= ToFill
           /\ Add(Engine) /\ doing[Engine].kind = "seed" => ToFill' + 1 <= ToFill
<1> DEFINE d == doing[Engine]
           n == doing'[Engine]
<1>1. /\ d \in Errand /\ doing \in [Actor -> Errand] /\ Engine \in Actor
      /\ toSeed \in Nat /\ Idle.kind = "none"
  BY OrchestratorAssumption DEF StopInv, IInv, OwnInv, EngineTypes, Actor, Idle
<1>2. /\ (Seeding => ToFill = toSeed + 1) /\ (~Seeding => ToFill = toSeed + 0)
      /\ (Seeding' => ToFill' = toSeed' + 1) /\ (~Seeding' => ToFill' = toSeed' + 0)
  BY DEF ToFill
<1>3. CASE SeedNext
  <2>1. d = Idle /\ toSeed' = toSeed - 1 /\ toSeed > 0
    BY <1>3 DEF SeedNext, IsIdle
  <2>2. ~Seeding
    BY <1>1, <2>1 DEF Seeding
  <2>3. toSeed' + 1 = toSeed
    BY <1>1, <2>1
  <2>4. ~(Add(Engine) /\ d.kind = "seed")
    BY <1>1, <2>1
  <2> QED
    BY <1>1, <1>2, <2>1, <2>2, <2>3, <2>4
<1>4. CASE ErrandStep(Engine)
  <2>1. toSeed' \in {0, toSeed}
    BY <1>4 DEF ErrandStep, Move, FileGone, Notify, Insert, Count, Exclude, NoMoreTorrents,
       Add, AddFails, Choose, Pull, EnqueueStart, Remove, Deny, engineVars
  <2>2. Seeding' => Seeding
    <3>1. CASE d.kind = "stopped"
      <4>1. n.kind \in {"stopped", "none"}
        BY <1>1, <1>4, <3>1, ErrandKeepsKind DEF StopInv
      <4> QED
        BY <4>1 DEF Seeding
    <3>2. CASE d.kind # "stopped"
      <4>1. n.kind = "seed" => d.kind = "seed"
        BY <1>1, <1>4, ErrandKeepsKind DEF StopInv
      <4>2. d.kind = "seed" /\ d.step = "enqueue" => EnqueueStart(Engine)
        BY <1>4 DEF ErrandStep, Move, FileGone, Notify, Insert, Count, Exclude,
           NoMoreTorrents, Add, AddFails, Choose, Pull, Remove, Deny
      <4>3. d.kind = "seed" /\ EnqueueStart(Engine) => n.step = "idle"
        BY <1>1 DEF EnqueueStart, Advanced, AfterRefill, Idle
      <4>4. d.kind = "seed" => d.step \in {"exclude", "choose", "add", "enqueue"}
        BY <1>1 DEF StopInv, ShapeInv
      <4> QED
        BY <4>1, <4>2, <4>3, <4>4 DEF Seeding
    <3> QED
      BY <3>1, <3>2
  <2>3. Add(Engine) /\ d.kind = "seed" => Seeding /\ ~Seeding' /\ toSeed' = toSeed
    <3>1. Add(Engine) => d.step = "add" /\ n.step = "enqueue" /\ toSeed' = toSeed
      BY <1>1 DEF Add, Goto, Advanced, Errand, engineVars
    <3> QED
      BY <3>1 DEF Seeding
  <2> QED
    BY <1>1, <1>2, <2>1, <2>2, <2>3
<1>5. CASE ~SeedNext /\ ~ErrandStep(Engine)
  <2>1. toSeed' = toSeed
    <3>1. ASSUME NEW a \in Actor, ErrandStep(a), a # Engine PROVE toSeed' = toSeed
      BY <3>1 DEF ErrandStep, Move, FileGone, Notify, Insert, Count, Exclude, NoMoreTorrents,
         Add, AddFails, Choose, Pull, EnqueueStart, Remove, Deny, engineVars
    <3> QED
      BY <1>5, <3>1 DEF Next, LoopStep, CallerStep, UserStep, engineVars, Tick, Skip, Dispatch,
         Submit, Listen, Unlisten, SweepPending, SweepLive, BeginAwait, EndAwait,
         AcquirePermit, HandlerStep, Respond, Enqueue, Credit, DropWhileStopping,
         ArchiveTorrent, ReplaceStopped, ReplaceFailed, Leave,
         AnnounceAllNow, BeginStop, MarkCompletedPending, FileEvent
  <2>2. Seeding' => Seeding
    <3>1. CASE d = Idle
      <4>1. n.kind # "seed"
        BY <1>1, <1>5, <3>1, ErrandBegins DEF StopInv
      <4> QED
        BY <4>1 DEF Seeding
    <3>2. CASE d # Idle
      BY <1>1, <1>5, <3>2, ErrandsApart DEF StopInv, Seeding
    <3> QED
      BY <3>1, <3>2
  <2>3. ~Add(Engine)
    BY <1>5 DEF ErrandStep
  <2> QED
    BY <1>1, <1>2, <2>1, <2>2, <2>3
<1> QED
  BY <1>3, <1>4, <1>5

\* The step that puts an announcer in the pool.
LEMMA AddFillsPlace ==
    ASSUME StopInv, LeavesOnce, Next, Room, NEW a \in Actor, Add(a)
    PROVE  Room'
<1> SUFFICES ASSUME NEW g, NEW h, g = doing[a].pick, h = doing[a].about PROVE Room'
  OBVIOUS
<1>1. /\ StopInv' /\ IInv /\ IInv' /\ doing[a] \in Errand /\ doing \in [Actor -> Errand]
      /\ Countable' /\ Countable
  <2>1. StopInv'
    BY NextStopInv
  <2>2. IInv /\ IInv'
    BY <2>1 DEF StopInv
  <2>3. Countable /\ Countable'
    BY <2>2, ClaimedIsFinite, PTL
  <2> QED
    BY <2>1, <2>2, <2>3 DEF IInv, OwnInv
<1>2. /\ IsFiniteSet(Claimed) /\ Cardinality(Claimed) \in Nat
      /\ IsFiniteSet(Claimed') /\ Cardinality(Claimed)' \in Nat
      /\ ToFill \in Nat /\ ToFill' \in Nat /\ Seed \in Nat
      /\ Cardinality(Claimed) + ToFill <= Seed
  BY <1>1, OrchestratorAssumption DEF Countable, Room
<1>3. Claimed' \subseteq Claimed \cup {g}
  BY ClaimedBefore DEF Add
<1>4. ToFill' <= ToFill
  BY ToFillShrinks
<1>5. CASE doing[a].kind = "stopped"
  <2>1. Refills(a, h) /\ Departs(a, h)'
    BY <1>1, <1>5 DEF Add, Goto, Advanced, Errand, Refills, Departs
  <2>2. h \in Torrent
    BY <1>5 DEF StopInv, IInv, OwnInv, ErrandInv, WellPlaced
  <2>3. h \in Claimed
    BY <2>1, <2>2 DEF Claimed, Refilling
  <2>4. \A b \in Actor : ~Refills(b, h)'
    <3>1. Removing(a, h)' /\ ~Refills(a, h)'
      BY <2>1 DEF Removing, Departs, Refills
    <3>2. \A b \in Actor : Refills(b, h)' => b = a
      BY <1>1, <2>2, <3>1 DEF StopInv, OneRemoval, Refills, Removing
    <3> QED
      BY <3>1, <3>2
  <2>5. h \notin Claimed'
    BY <2>1, <2>2, <2>4 DEF Claimed, Refilling, Departing
  <2> DEFINE Kept == Claimed \ {h}
  <2>6. IsFiniteSet(Kept) /\ Cardinality(Kept) = Cardinality(Claimed) - 1
    BY <1>2, <2>3, FS_RemoveElement
  <2>7. /\ IsFiniteSet(Kept \cup {g})
        /\ Cardinality(Kept \cup {g}) \in {Cardinality(Kept), Cardinality(Kept) + 1}
    BY <2>6, FS_AddElement
  <2>8. Claimed' \in SUBSET (Kept \cup {g})
    BY <1>3, <2>5
  <2>9. Cardinality(Claimed)' <= Cardinality(Kept \cup {g})
    BY <2>7, <2>8, FS_Subset
  <2>10. Cardinality(Claimed)' <= Cardinality(Claimed)
    BY <1>2, <2>6, <2>7, <2>9
  <2> QED
    BY <1>2, <1>4, <2>10 DEF Room
<1>6. CASE doing[a].kind # "stopped"
  <2>1. a = Engine /\ doing[a].kind = "seed"
    BY <1>6 DEF Add, StopInv, ShapeInv
  <2>2. ToFill' + 1 <= ToFill
    BY <2>1, ToFillShrinks
  <2>3. /\ IsFiniteSet(Claimed \cup {g})
        /\ Cardinality(Claimed \cup {g}) \in {Cardinality(Claimed), Cardinality(Claimed) + 1}
    BY <1>2, FS_AddElement
  <2>4. Cardinality(Claimed)' <= Cardinality(Claimed \cup {g})
    BY <1>3, <2>3, FS_Subset
  <2>5. Cardinality(Claimed)' <= Cardinality(Claimed) + 1
    BY <1>2, <2>3, <2>4
  <2> QED
    <3>1. \A c, d, m, n, s \in Nat : d + m <= s /\ c <= d + 1 /\ n + 1 <= m => c + n <= s
      OBVIOUS
    <3> QED
      BY <1>2, <2>2, <2>5, <3>1 DEF Room
<1> QED
  BY <1>5, <1>6

\* Only Add puts a torrent in the pool.
LEMMA JoinsByAdd ==
    ASSUME StopInv, LeavesOnce, Next, NEW h, h \in live', h \notin live
    PROVE  \E a \in Actor : Add(a)
<1> USE DEF poolVars
<1>1. ~LoopStep
  BY DEF LoopStep, Tick, Skip, Dispatch, Submit
<1>2. ~CallerStep
  BY DEF CallerStep, SeedNext, Listen, Unlisten, SweepPending, SweepLive, BeginAwait, EndAwait
<1>3. ASSUME NEW t \in Task PROVE ~AcquirePermit(t) /\ ~HandlerStep(t)
  BY DEF AcquirePermit, HandlerStep, Respond, Enqueue, Credit, DropWhileStopping,
     ArchiveTorrent, ReplaceStopped, ReplaceFailed, Leave
<1>4. ASSUME NEW a \in Actor, ErrandStep(a) PROVE Add(a)
  BY <1>4 DEF ErrandStep, Move, FileGone, Notify, Insert, Count, Exclude, Choose,
     NoMoreTorrents, AddFails, EnqueueStart, Remove, Deny, Pull
<1>5. ~UserStep
  BY DEF UserStep, AnnounceAllNow, BeginStop, MarkCompletedPending, FileEvent
<1> QED
  BY <1>1, <1>2, <1>3, <1>4, <1>5 DEF Next

\* No other step takes a place or gives start() one back.
LEMMA RoomKeeps == ASSUME StopInv, LeavesOnce, Room, [Next]_vars PROVE Room'
<1>1. CASE UNCHANGED vars
  BY <1>1 DEF vars, poolVars, engineVars, Room, Claimed, Departing, Refilling, Departs, Refills,
     ToFill, Seeding
<1>2. ASSUME NEW a \in Actor, Add(a), Next PROVE Room'
  BY <1>2, AddFillsPlace
<1>3. CASE Next /\ \A a \in Actor : ~Add(a)
  <2>1. Claimed' \in SUBSET Claimed
    BY <1>3, ClaimedBefore, JoinsByAdd
  <2>2. IInv /\ IInv'
    BY NextIInv DEF StopInv
  <2>3. Countable /\ Countable'
    BY <2>2, ClaimedIsFinite, PTL
  <2>4. Cardinality(Claimed)' <= Cardinality(Claimed)
    BY <2>1, <2>3, FS_Subset DEF Countable
  <2>5. ToFill' <= ToFill
    BY <1>3, ToFillShrinks
  <2> QED
    BY <2>3, <2>4, <2>5, OrchestratorAssumption DEF Room, Countable
<1> QED
  BY <1>1, <1>2, <1>3

\* Every place is start()'s to fill.
LEMMA InitRoom == Init => Room
<1> SUFFICES ASSUME Init PROVE Room
  OBVIOUS
<1>1. \A a \in Actor : doing[a].kind = "none"
  BY DEF Init, Idle
<1>2. Claimed = {}
  BY <1>1 DEF Init, Claimed, Refilling, Refills
<1>3. ToFill = Seed
  BY <1>1, OrchestratorAssumption DEF Init, ToFill, Seeding, Actor
<1> QED
  BY <1>2, <1>3, FS_EmptySet, OrchestratorAssumption DEF Room

\* As many torrents are on their way out as there are errands that remove one.
LEMMA OneErrandEach ==
    ASSUME StopInv
    PROVE  LET Leaving == {a \in Actor : doing[a].kind = "stopped"
                               /\ doing[a].step \in {"enqueue", "remove"}}
           IN  IsFiniteSet(Leaving) /\ Cardinality(Leaving) = Cardinality(Departing)
<1> DEFINE Leaving == {a \in Actor : doing[a].kind = "stopped"
                           /\ doing[a].step \in {"enqueue", "remove"}}
           f == [a \in Leaving |-> doing[a].about]
<1>1. \A a \in Leaving : doing[a].about \in Departing
  BY DEF StopInv, IInv, OwnInv, ErrandInv, WellPlaced, Departing, Departs
<1>2. f \in [Leaving -> Departing]
  BY <1>1
<1>3. ASSUME NEW a \in Leaving, NEW b \in Leaving, f[a] = f[b] PROVE a = b
  <2>1. doing[a].about \in Torrent
    BY <1>1 DEF Departing
  <2> QED
    BY <1>3, <2>1 DEF StopInv, OneRemoval, Removing
<1>4. \A h \in Departing : \E a \in Leaving : f[a] = h
  BY DEF Departing, Departs
<1>5. f \in Injection(Leaving, Departing) /\ f \in Surjection(Leaving, Departing)
  BY <1>2, <1>3, <1>4 DEF Injection, IsInjective, Surjection
<1>6. IsFiniteSet(Departing)
  BY ClaimedIsFinite DEF StopInv, Countable
<1> QED
  BY <1>5, <1>6, FS_Injection

\* The pool is its claimed places and the torrents on their way out.
LEMMA RoomBounds == ASSUME StopInv, Room PROVE PoolBound
<1>1. /\ IsFiniteSet(Claimed) /\ Cardinality(Claimed) \in Nat
      /\ IsFiniteSet(Departing) /\ Cardinality(Departing) \in Nat /\ ToFill \in Nat
  BY ClaimedIsFinite DEF StopInv, Countable
<1>2. live \in SUBSET (Claimed \cup Departing)
  BY DEF Claimed
<1>3. /\ IsFiniteSet(Claimed \cup Departing)
      /\ Cardinality(Claimed \cup Departing) \in Nat
      /\ Cardinality(Claimed \cup Departing) <= Cardinality(Claimed) + Cardinality(Departing)
  <2>1. IsFiniteSet(Claimed \cap Departing) /\ Cardinality(Claimed \cap Departing) \in Nat
    <3>1. Claimed \cap Departing \in SUBSET Claimed
      OBVIOUS
    <3> QED
      BY <1>1, <3>1, FS_Subset, FS_CardinalityType
  <2>2. /\ IsFiniteSet(Claimed \cup Departing)
        /\ Cardinality(Claimed \cup Departing)
             = Cardinality(Claimed) + Cardinality(Departing) - Cardinality(Claimed \cap Departing)
    BY <1>1, FS_Union
  <2> QED
    <3>1. \A c, d, n, s \in Nat : s = c + d - n => s <= c + d
      OBVIOUS
    <3>2. Cardinality(Claimed \cup Departing) \in Nat
      BY <2>2, FS_CardinalityType
    <3> QED
      BY <1>1, <2>1, <2>2, <3>1, <3>2
<1>4. IsFiniteSet(live) /\ Cardinality(live) \in Nat
      /\ Cardinality(live) <= Cardinality(Claimed \cup Departing)
  BY <1>2, <1>3, FS_Subset, FS_CardinalityType
<1> QED
  BY <1>1, <1>3, <1>4, OneErrandEach, OrchestratorAssumption DEF Room, PoolBound

\* Where no torrent leaves the pool twice, the refill that runs before each
\* removal (client.rs:463-466) overfills the pool by the torrents being removed at
\* that moment and no more: start() and the refills add no torrent but in a place
\* that is theirs, whatever they read of the pool before.
THEOREM PoolIsBounded == ASSUME LeavesOnce PROVE Spec => []PoolBound
<1>1. Init => StopInv /\ Room
  BY InitStopInv, InitRoom
<1>2. StopInv /\ Room /\ [Next]_vars => (StopInv /\ Room)'
  BY NextStopInv, RoomKeeps
<1>3. StopInv /\ Room => PoolBound
  BY RoomBounds
<1> QED
  BY <1>1, <1>2, <1>3, PTL DEF Spec

-----------------------------------------------------------------------------
(* One farewell.                                                           *)

\* Only a task in its handlers has an answer of the tracker to handle.
OutcomeInv == \A t \in Task : phase[t] # "handling" => outcome[t] = "none"

\* The stop at this place has been announced, and no failure has come back.
Said(s, i) ==
    \/ s = "task" /\ phase[i] \in {"announcing", "handling"} /\ outcome[i] # "failed"
    \/ s = "removal"

\* A torrent that has said goodbye has no other stop to announce.
FarewellInv ==
    ~Stopping => \A h \in farewell : h \in Torrent /\ \A s, i : StopAt(s, i, h) => Said(s, i)

\* A task that has a permit goes on to its handlers, or ends.
LEMMA TaskGoesOn ==
    ASSUME IInv, Next, NEW t \in Task, phase[t] \in {"announcing", "handling"}
    PROVE  phase'[t] \in {"announcing", "handling", "ended"}
<1>1. E!TypeOK
  BY SameExecutor DEF IInv, ExecutorInv
<1>2. ASSUME NEW u \in Task, NEW g \in Torrent, E!Spawn(u, g) PROVE phase'[t] = phase[t]
  BY <1>1, <1>2 DEF E!Spawn, E!Free, E!Unfinished, E!TypeOK
<1>3. ASSUME NEW u \in Task, E!AcquirePermit(u) \/ E!Respond(u) \/ E!Leave(u)
      PROVE  phase'[t] \in {phase[t], "announcing", "handling", "ended"}
  BY <1>1, <1>3 DEF E!AcquirePermit, E!Respond, E!Leave, E!TypeOK
<1>4. CASE E!Submit \/ (\E g \in Torrent : E!Deny(g)) \/ E!DenyAll
  BY <1>1, <1>4, AbortEndsOnly DEF E!Submit, E!Deny, E!DenyAll
<1>5. CASE E!BeginAwait \/ E!AwaitReturn \/ E!AwaitTimeout \/ UNCHANGED (E!vars)
  BY <1>5 DEF E!BeginAwait, E!AwaitReturn, E!AwaitTimeout, E!vars
<1> QED
  BY <1>2, <1>3, <1>4, <1>5, StepsOfExecutor DEF E!Next

\* An answer comes with the first handler and goes with the last.
LEMMA AnswersOnce ==
    ASSUME IInv, Next, NEW t \in Task
    PROVE  \/ outcome'[t] = outcome[t]
           \/ phase[t] = "announcing" /\ phase'[t] = "handling"
           \/ outcome'[t] = "none"
<1>1. E!TypeOK /\ TaskTypes
  BY SameExecutor DEF IInv, ExecutorInv, OwnInv
<1> DEFINE Once == \/ outcome'[t] = outcome[t]
                   \/ phase[t] = "announcing" /\ phase'[t] = "handling"
                   \/ outcome'[t] = "none"
<1>2. CASE LoopStep
  BY <1>2 DEF LoopStep, Tick, Skip, Dispatch, Submit, taskVars
<1>3. CASE CallerStep
  BY <1>3 DEF CallerStep, SeedNext, Listen, Unlisten, SweepPending, SweepLive,
     BeginAwait, EndAwait, taskVars
<1>4. ASSUME NEW u \in Task, AcquirePermit(u) \/ HandlerStep(u) PROVE Once
  <2>1. ASSUME NEW o \in Outcome, Respond(u, o) PROVE Once
    BY <1>1, <2>1 DEF Respond, E!Respond, E!TypeOK, TaskTypes
  <2>2. CASE Leave(u)
    BY <1>1, <2>2 DEF Leave, TaskTypes
  <2> QED
    BY <1>4, <2>1, <2>2 DEF AcquirePermit, HandlerStep, Enqueue, Credit, DropWhileStopping,
       ArchiveTorrent, ReplaceStopped, ReplaceFailed
<1>5. ASSUME NEW a \in Actor, ErrandStep(a) PROVE Once
  BY <1>5 DEF ErrandStep, Move, FileGone, Notify, Insert, Count, Exclude, Choose,
     NoMoreTorrents, Add, AddFails, EnqueueStart, Remove, Deny, Pull, taskVars
<1>6. CASE UserStep
  BY <1>6 DEF UserStep, AnnounceAllNow, BeginStop, MarkCompletedPending, FileEvent, taskVars
<1> QED
  BY <1>2, <1>3, <1>4, <1>5, <1>6 DEF Next

\* A task leaves its handlers with its answer.
LEMMA AnswerGoes ==
    ASSUME IInv, Next, NEW t \in Task, phase[t] = "handling", phase'[t] # "handling"
    PROVE  outcome'[t] = "none"
<1>1. E!TypeOK /\ TaskTypes
  BY SameExecutor DEF IInv, ExecutorInv, OwnInv
<1>2. ASSUME NEW S, E!Abort(S) PROVE FALSE
  BY <1>1, <1>2, AbortSparesHandlers
<1>3. CASE LoopStep
  <2>1. ASSUME NEW g \in Torrent, NEW u \in Task, Dispatch(g, u) PROVE FALSE
    BY <1>1, <2>1 DEF Dispatch, E!Spawn, E!Free, E!Unfinished, E!TypeOK
  <2>2. ~Submit
    BY <1>2 DEF Submit, E!Submit
  <2> QED
    BY <1>3, <2>1, <2>2 DEF LoopStep, Tick, Skip, taskVars, executorVars
<1>4. ~CallerStep
  BY DEF CallerStep, SeedNext, Listen, Unlisten, SweepPending, SweepLive, BeginAwait, EndAwait,
     E!BeginAwait, E!AwaitReturn, E!AwaitTimeout, taskVars, executorVars
<1>5. ASSUME NEW u \in Task, AcquirePermit(u) \/ HandlerStep(u) PROVE outcome'[t] = "none"
  <2>1. CASE Leave(u)
    BY <1>1, <2>1 DEF Leave, E!Leave, E!TypeOK, TaskTypes
  <2>2. ASSUME NEW o \in Outcome, Respond(u, o) PROVE FALSE
    BY <1>1, <2>2 DEF Respond, E!Respond, E!TypeOK
  <2>3. ~AcquirePermit(u)
    BY <1>1 DEF AcquirePermit, E!AcquirePermit, E!TypeOK
  <2> QED
    BY <1>5, <2>1, <2>2, <2>3 DEF HandlerStep, Enqueue, Credit, DropWhileStopping,
       ArchiveTorrent, ReplaceStopped, ReplaceFailed, executorVars
<1>6. ASSUME NEW a \in Actor, ErrandStep(a) PROVE FALSE
  <2>1. ~Deny(a)
    BY <1>2 DEF Deny, E!Deny, executorVars
  <2> QED
    BY <1>6, <2>1 DEF ErrandStep, Move, FileGone, Notify, Insert, Count, Exclude, Choose,
       NoMoreTorrents, Add, AddFails, EnqueueStart, Remove, Pull, taskVars, executorVars
<1>7. ~UserStep
  BY DEF UserStep, AnnounceAllNow, BeginStop, MarkCompletedPending, FileEvent, taskVars, executorVars
<1> QED
  BY <1>3, <1>4, <1>5, <1>6, <1>7 DEF Next

\* So no answer is left over from an earlier announce of the task.
LEMMA OutcomeKeeps == ASSUME IInv, OutcomeInv, [Next]_vars PROVE OutcomeInv'
<1>1. CASE Next
  BY <1>1, AnswersOnce, AnswerGoes DEF OutcomeInv
<1>2. CASE UNCHANGED vars
  BY <1>2 DEF vars, taskVars, executorVars, OutcomeInv
<1> QED
  BY <1>1, <1>2

\* An announced stop is seen through, unless its failure is noted now.
LEMMA SaidStays ==
    ASSUME IInv, OutcomeInv, Next, NEW h \in Torrent, h \notin FailedNow,
           NEW s, NEW i, StopAt(s, i, h), Said(s, i), StopAt(s, i, h)'
    PROVE  Said(s, i)'
<1>1. CASE s = "removal"
  BY <1>1 DEF Said
<1>2. CASE s = "task"
  <2>1. /\ i \in Task /\ event[i] = "stopped" /\ target[i] = h /\ phase'[i] # "ended"
        /\ phase[i] \in {"announcing", "handling"} /\ outcome[i] # "failed"
    BY <1>2 DEF StopAt, Stops, Said
  <2>2. phase'[i] \in {"announcing", "handling"}
    BY <2>1, TaskGoesOn
  <2>3. ASSUME outcome'[i] = "failed" PROVE FALSE
    <3>1. phase[i] = "announcing"
      BY <2>1, <2>3, AnswersOnce
    <3>2. outcome[i] = "none"
      BY <2>1, <3>1 DEF OutcomeInv
    <3> QED
      BY <2>1, <2>3, <3>2 DEF FailedNow
  <2> QED
    BY <1>2, <2>2, <2>3 DEF Said
<1> QED
  BY <1>1, <1>2 DEF Said

\* A farewell takes the only stop there is, and that one goes on to the removal.
LEMMA FarewellKeeps ==
    ASSUME StopInv, StopInv', OutcomeInv, OutcomeInv', FarewellInv, LeavesOnce, HNext
    PROVE  FarewellInv'
<1>1. IInv /\ IInv' /\ Next /\ Record
  BY DEF StopInv, HNext
<1> SUFFICES ASSUME ~Stopping', NEW h \in farewell'
             PROVE  h \in Torrent /\ \A s, i : StopAt(s, i, h)' => Said(s, i)'
  BY DEF FarewellInv
<1>2. ~Stopping
  BY <1>1, StoppingStays
<1>3. CASE h \in Sent("stopped")
  <2>1. PICK t \in Task : /\ phase[t] = "waiting" /\ phase'[t] = "announcing"
                          /\ event[t] = "stopped" /\ target[t] = h
    BY <1>3 DEF Sent
  <2>2. event'[t] = "stopped" /\ target'[t] = h
    BY <1>1, <2>1, WaitingStays
  <2>3. handler'[t] # "leave" /\ outcome'[t] # "failed"
    BY <1>1, <2>1 DEF IInv, OwnInv, HandlerInv, OutcomeInv
  <2>4. h \in Torrent /\ StopAt("task", t, h)' /\ Said("task", t)'
    BY <1>3, <2>1, <2>2, <2>3 DEF Sent, StopAt, Stops, Said
  <2>5. \A s, i : StopAt(s, i, h)' => s = "task" /\ i = t
    BY <2>4 DEF StopInv, OneStop
  <2> QED
    BY <2>4, <2>5
<1>4. CASE h \notin Sent("stopped")
  <2>1. h \in farewell /\ h \notin FailedNow /\ h \in Torrent
    BY <1>1, <1>2, <1>4 DEF Record, FarewellInv
  <2>2. \A s, i : StopAt(s, i, h) => Said(s, i)
    BY <1>2, <2>1 DEF FarewellInv
  <2>3. Fades(h) \/ GoesOnward(h)
    BY <1>1, <2>1, StopGoesOn DEF StopInv
  <2>4. ASSUME NEW s, NEW i, StopAt(s, i, h)' PROVE Said(s, i)'
    <3>1. CASE StopAt(s, i, h)
      BY <1>1, <2>1, <2>2, <2>4, <3>1, SaidStays
    <3>2. CASE ~StopAt(s, i, h)
      <4>1. GoesOnward(h)
        BY <2>3, <2>4, <3>2 DEF Fades
      <4>2. \A a \in Actor : \A j : /\ ~Moves(h, "file", h, "notify", a)
                                    /\ ~Moves(h, "notify", a, "queued", h)
        BY <2>2 DEF Moves, Said
      <4>3. ~Moves(h, "queued", h, "drained", h)
        BY <2>2 DEF Moves, Said
      <4>4. \A t \in Task : ~Moves(h, "drained", h, "task", t)
        BY <2>2 DEF Moves, Said
      <4>5. \A t \in Task : Moves(h, "task", t, "queued", h) => outcome[t] # "failed"
        BY <2>2 DEF Moves, Said
      <4>6. PICK t \in Task, a \in Actor : Moves(h, "task", t, "removal", a)
        BY <4>1, <4>2, <4>3, <4>4, <4>5 DEF GoesOnward
      <4>7. s = "removal"
        BY <2>4, <3>2, <4>6 DEF Moves
      <4> QED
        BY <4>7 DEF Said
    <3> QED
      BY <3>1, <3>2
  <2> QED
    BY <2>1, <2>4
<1> QED
  BY <1>3, <1>4

\* The two invariants of the stops hold with their history.
LEMMA FarewellHolds ==
    ASSUME LeavesOnce PROVE HSpec => [](StopInv /\ OutcomeInv /\ FarewellInv)
<1> DEFINE Inv == StopInv /\ OutcomeInv /\ FarewellInv
<1>1. HInit => Inv
  <2>1. HInit => OutcomeInv
    BY DEF HInit, Init, OutcomeInv
  <2>2. HInit => FarewellInv
    BY DEF HInit, FarewellInv
  <2> QED
    BY <2>1, <2>2, InitStopInv DEF HInit
<1>2. Inv /\ [HNext]_hvars => Inv'
  <2> SUFFICES ASSUME Inv, [HNext]_hvars PROVE Inv'
    OBVIOUS
  <2>1. IInv /\ [Next]_vars
    BY DEF HNext, hvars, StopInv
  <2>2. StopInv' /\ OutcomeInv'
    BY <2>1, NextStopInv, OutcomeKeeps
  <2>3. CASE HNext
    BY <2>2, <2>3, FarewellKeeps
  <2>4. CASE UNCHANGED hvars
    <3>1. /\ UNCHANGED <<files, doing, pending, ready, engine, farewell>>
          /\ UNCHANGED <<phase, event, target, handler, outcome>>
      BY <2>4 DEF hvars, historyVars, vars, taskVars, executorVars, poolVars, queueVars, engineVars
    <3>2. FarewellInv'
      BY <3>1 DEF FarewellInv, Said, StopAt, Stops, Removing, Stopping
    <3> QED
      BY <2>2, <3>2
  <2> QED
    BY <2>2, <2>3, <2>4
<1> QED
  BY <1>1, <1>2, PTL DEF HSpec

\* A second stop would be one of a task that waits for its permit.
LEMMA NoSecondStop ==
    ASSUME StopInv, FarewellInv, ~Stopping PROVE Sent("stopped") \cap farewell = {}
<1> SUFFICES ASSUME NEW h \in farewell, h \in Sent("stopped") PROVE FALSE
  OBVIOUS
<1>1. PICK t \in Task : phase[t] = "waiting" /\ event[t] = "stopped" /\ target[t] = h
  BY DEF Sent
<1>2. StopAt("task", t, h)
  BY <1>1 DEF StopAt, Stops, StopInv, IInv, OwnInv, HandlerInv
<1> QED
  BY <1>1, <1>2 DEF FarewellInv, Said

\* Unless the user stops the engine.
LEMMA NeverStopping ==
    ASSUME "stop" \notin UserAction PROVE Spec => []~Stopping
<1>1. Init => ~Stopping
  BY DEF Init, Stopping
<1>2. IInv /\ ~Stopping /\ [Next]_vars => ~Stopping'
  <2> SUFFICES ASSUME IInv, ~Stopping, [Next]_vars PROVE ~Stopping'
    OBVIOUS
  <2> USE DEF Stopping, engineVars
  <2>1. CASE LoopStep
    BY <2>1 DEF LoopStep, Tick, Skip, Dispatch, Submit
  <2>2. CASE CallerStep
    BY <2>2 DEF CallerStep, SeedNext, Listen, Unlisten, SweepPending, SweepLive,
       BeginAwait, EndAwait
  <2>3. ASSUME NEW t \in Task, AcquirePermit(t) \/ HandlerStep(t) PROVE ~Stopping'
    BY <2>3 DEF AcquirePermit, HandlerStep, Respond, Enqueue, Credit, DropWhileStopping,
       ArchiveTorrent, ReplaceStopped, ReplaceFailed, Leave
  <2>4. ASSUME NEW a \in Actor, ErrandStep(a) PROVE ~Stopping'
    BY <2>4 DEF ErrandStep, Move, FileGone, Notify, Insert, Count, Exclude, Choose,
       NoMoreTorrents, Add, AddFails, EnqueueStart, Remove, Deny, Pull
  <2>5. CASE UserStep
    BY <2>5 DEF UserStep, AnnounceAllNow, BeginStop, MarkCompletedPending, FileEvent
  <2>6. CASE UNCHANGED vars
    BY <2>6 DEF vars
  <2> QED
    BY <2>1, <2>2, <2>3, <2>4, <2>5, <2>6 DEF Next
<1> QED
  BY <1>1, <1>2, InvariantHolds, PTL DEF Spec

\* Until the engine stops, a torrent is announced stopped again only after that
\* announce has failed (request.rs:54-55): stops come from the directory watcher,
\* the archiving of a torrent, AnnounceReEnqueuer's retry, and never from two of
\* them for the same departure.
THEOREM OneFarewell ==
    ASSUME LeavesOnce
    PROVE  HSpec => [][~Stopping => Sent("stopped") \cap farewell = {}]_hvars
<1>1. StopInv /\ FarewellInv /\ [HNext]_hvars
        => [~Stopping => Sent("stopped") \cap farewell = {}]_hvars
  BY NoSecondStop
<1> QED
  BY <1>1, FarewellHolds, PTL DEF HSpec

\* So no torrent is announced stopped twice, except by stop(), which announces every
\* torrent that is still in the pool stopped (client.rs:220-236).
THEOREM OneFarewellUnlessStopped ==
    ASSUME LeavesOnce, "stop" \notin UserAction
    PROVE  HSpec => StoppedSentOnce
<1>1. HSpec => []~Stopping
  <2>1. HInit => Init
    BY DEF HInit
  <2>2. [HNext]_hvars => [Next]_vars
    BY DEF HNext, hvars
  <2>3. HSpec => Spec
    BY <2>1, <2>2, PTL DEF HSpec, Spec
  <2> QED
    BY <2>3, NeverStopping, PTL
<1>2. StopInv /\ FarewellInv /\ ~Stopping /\ [HNext]_hvars
        => [Sent("stopped") \cap farewell = {}]_hvars
  BY NoSecondStop
<1> QED
  BY <1>1, <1>2, FarewellHolds, PTL DEF HSpec, StoppedSentOnce

-----------------------------------------------------------------------------
(* The first announce.                                                     *)

\* The user lets the engine be: no file goes, nothing is announced on demand and
\* the engine is not stopped.
LetsBe == UserAction \subseteq {"complete", "addFile"}

\* Nothing is known of torrent h but that it may have to be announced started.
Silent(h) ==
    /\ pending[h] \in {NoRequest, "started"} /\ ready[h] \in {NoRequest, "started"}
    /\ h \notin credited /\ h \notin completedBit
    /\ \A t \in Task : phase[t] # "ended" /\ target[t] = h
                       => event[t] = "started" /\ phase[t] = "waiting"
    /\ \A a \in Actor : doing[a].step \in {"move", "notify"} => doing[a].about # h

SilentInv == /\ \A a \in Actor : doing[a].step # "pull"
             /\ \A h \in Torrent \ began : Silent(h)

\* The tasks of a silent torrent wait for a permit, and no step but that of
\* getting it has them announce.
LEMMA TasksStaySilent ==
    ASSUME IInv, Next, ~Stopping, NEW h \in Torrent, Silent(h), h \notin Sent("started"),
           NEW t \in Task, phase'[t] # "ended", target'[t] = h
    PROVE  event'[t] = "started" /\ phase'[t] = "waiting"
<1>1. E!TypeOK /\ TaskTypes /\ QueueTypes
  BY SameExecutor DEF IInv, ExecutorInv, OwnInv
<1>2. CASE phase[t] = "waiting"
  <2>1. /\ phase'[t] \in {"waiting", "announcing"}
        /\ target[t] = h /\ event'[t] = event[t]
    BY <1>2, WaitingStays
  <2>2. event[t] = "started"
    BY <1>2, <2>1 DEF Silent
  <2> QED
    BY <1>2, <2>1, <2>2 DEF Sent
<1>3. CASE phase[t] \in {"announcing", "handling"}
  <2>1. target'[t] = target[t]
    <3>1. ASSUME NEW u \in Task, NEW g \in Torrent, E!Spawn(u, g) PROVE target'[t] = target[t]
      BY <1>1, <1>3, <3>1 DEF E!Spawn, E!Free, E!Unfinished, E!TypeOK
    <3> QED
      BY <3>1, StepsOfExecutor DEF E!Next, E!vars, E!Submit, E!AcquirePermit, E!Respond, E!Leave,
         E!Deny, E!DenyAll, E!BeginAwait, E!AwaitReturn, E!AwaitTimeout
  <2> QED
    BY <1>3, <2>1 DEF Silent
<1>4. CASE phase[t] = "ended"
  <2>1. PICK g \in Torrent : Dispatch(g, t)
    <3> USE DEF executorVars, taskVars
    <3>1. ASSUME NEW S, E!Abort(S) PROVE FALSE
      BY <1>1, <1>4, <3>1, AbortEndsOnly
    <3>2. CASE LoopStep
      <4>1. ASSUME NEW g \in Torrent, NEW u \in Task, Dispatch(g, u), u # t PROVE FALSE
        BY <1>1, <1>4, <4>1 DEF Dispatch, E!Spawn, E!TypeOK
      <4>2. ~Submit
        BY <3>1 DEF Submit, E!Submit
      <4> QED
        BY <1>4, <3>2, <4>1, <4>2 DEF LoopStep, Tick, Skip
    <3>3. ~CallerStep
      BY <1>4 DEF CallerStep, SeedNext, Listen, Unlisten, SweepPending, SweepLive, BeginAwait,
         EndAwait, E!BeginAwait, E!AwaitReturn, E!AwaitTimeout
    <3>4. ASSUME NEW u \in Task PROVE ~AcquirePermit(u) /\ ~HandlerStep(u)
      BY <1>1, <1>4 DEF AcquirePermit, HandlerStep, Respond, Enqueue, Credit, DropWhileStopping,
         ArchiveTorrent, ReplaceStopped, ReplaceFailed, Leave, E!AcquirePermit, E!Respond,
         E!Leave, E!TypeOK
    <3>5. ASSUME NEW a \in Actor PROVE ~ErrandStep(a)
      <4>1. ~Deny(a)
        BY <1>4, <3>1 DEF Deny, E!Deny
      <4> QED
        BY <1>4, <4>1 DEF ErrandStep, Move, FileGone, Notify, Insert, Count, Exclude, Choose,
           NoMoreTorrents, Add, AddFails, EnqueueStart, Remove, Pull
    <3>6. ~UserStep
      BY <1>4 DEF UserStep, AnnounceAllNow, BeginStop, MarkCompletedPending, FileEvent
    <3> QED
      BY <3>2, <3>3, <3>4, <3>5, <3>6 DEF Next
  <2>2. g = h
    BY <1>1, <2>1 DEF Dispatch, E!Spawn, E!TypeOK
  <2>3. ready[h] = "started"
    BY <2>1, <2>2 DEF Dispatch, Silent
  <2> QED
    BY <1>1, <2>1, <2>2, <2>3 DEF Dispatch, E!Spawn, E!TypeOK, TaskTypes
<1> QED
  BY <1>1, <1>2, <1>3, <1>4 DEF E!TypeOK, E!Phase

\* No errand is about the file of a silent torrent: nothing has archived it.
LEMMA ErrandsStaySilent ==
    ASSUME IInv, LetsBe, [Next]_vars, ~Stopping, \A b \in Actor : doing[b].step # "pull",
           NEW a \in Actor
    PROVE  /\ doing'[a].step # "pull"
           /\ \A h \in Torrent : /\ Silent(h) /\ doing'[a].step \in {"move", "notify"}
                                 => doing'[a].about # h
<1> DEFINE Fine == /\ doing'[a].step # "pull"
                   /\ \A h \in Torrent : /\ Silent(h) /\ doing'[a].step \in {"move", "notify"}
                                         => doing'[a].about # h
<1>1. doing \in [Actor -> Errand] /\ doing[a] \in Errand /\ Idle.step = "idle" /\ HandlerInv
  BY DEF IInv, OwnInv, Idle
<1>2. CASE doing'[a] = doing[a] \/ doing'[a] = Idle
  BY <1>1, <1>2 DEF Silent
<1>3. ASSUME NEW b \in Actor, NEW k, NEW s, NEW g, doing' = Begin(b, k, s, g), a = b
      PROVE  doing'[a].step = s /\ doing'[a].about = g
  BY <1>1, <1>3 DEF Begin, Idle
<1>4. ASSUME NEW b \in Actor, NEW k, NEW s, NEW g, doing' = Begin(b, k, s, g), a # b
      PROVE  doing'[a] = doing[a]
  BY <1>1, <1>4 DEF Begin
<1>5. CASE LoopStep
  BY <1>2, <1>5 DEF LoopStep, Tick, Skip, Dispatch, Submit
<1>6. CASE CallerStep
  <2>1. CASE SeedNext
    <3>1. Engine \in Actor
      BY DEF Actor
    <3> QED
      BY <1>2, <1>3, <1>4, <2>1, <3>1 DEF SeedNext
  <2> QED
    BY <1>2, <1>6, <2>1 DEF CallerStep, Listen, Unlisten, SweepPending, SweepLive,
       BeginAwait, EndAwait
<1>7. ASSUME NEW t \in Task, AcquirePermit(t) \/ HandlerStep(t) PROVE Fine
  <2>1. ASSUME NEW j \in Job, NEW k, NEW s, doing' = Begin(j, k, s, target[t]), s # "pull",
               handler[t] = "notify"
        PROVE  Fine
    <3>1. j \in Actor
      BY DEF Actor
    <3>2. \A h \in Torrent : Silent(h) => target[t] # h
      BY <1>1, <2>1 DEF Silent, HandlerInv
    <3> QED
      BY <1>2, <1>3, <1>4, <2>1, <3>1, <3>2
  <2>2. ASSUME NEW j \in Job, ArchiveTorrent(t, j) \/ ReplaceStopped(t, j) \/ ReplaceFailed(t, j)
        PROVE  Fine
    BY <2>1, <2>2 DEF ArchiveTorrent, ReplaceStopped, ReplaceFailed
  <2>3. CASE doing' = doing
    BY <1>2, <2>3
  <2> QED
    BY <1>7, <2>2, <2>3 DEF AcquirePermit, HandlerStep, Respond, Enqueue, Credit,
       DropWhileStopping, Leave
<1>8. ASSUME NEW b \in Actor, ErrandStep(b) PROVE Fine
  <2>1. CASE b # a
    BY <1>2, <1>8, <2>1, ErrandAlone
  <2>2. CASE b = a
    <3>1. CASE Move(a)
      BY <1>1, <3>1 DEF Move, Goto, Advanced, AfterRemoval, Silent, Errand
    <3>2. CASE FileGone(a) \/ Notify(a)
      BY <1>1, <3>2 DEF FileGone, Notify, Goto, Advanced, AfterRemoval, Errand
    <3>3. CASE Insert(a) \/ Count(a) \/ Add(a) \/ Remove(a) \/ Deny(a)
      <4>1. \A s : Advanced(a, s).step = s
        BY <1>1 DEF Advanced, Errand
      <4>2. CASE Insert(a) \/ Add(a) \/ Remove(a) \/ Deny(a)
        <5>1. doing'[a].step \in {"count", "idle", "enqueue", "deny"}
          BY <1>1, <4>1, <4>2 DEF Insert, Add, Remove, Deny, Goto
        <5> QED
          BY <5>1
      <4>3. CASE Count(a)
        BY <1>1, <4>3 DEF Count, Errand
      <4> QED
        BY <3>3, <4>2, <4>3
    <3>4. CASE Exclude(a)
      BY <1>1, <3>4 DEF Exclude, Errand
    <3>5. ASSUME NEW g \in Torrent, Choose(a, g) \/ Pull(a, g)
          PROVE  doing'[a].step = "add"
      BY <1>1, <3>5 DEF Choose, Pull, Errand
    <3>6. CASE NoMoreTorrents(a) \/ AddFails(a) \/ EnqueueStart(a)
      <4> DEFINE r == Advanced(a, AfterRefill(doing[a].kind))
      <4>1. \A p, S : [r EXCEPT !.pick = p].step \in {"idle", "remove"}
                     /\ [r EXCEPT !.snapshot = S].step \in {"idle", "remove"}
        BY <1>1 DEF Advanced, AfterRefill, Errand, Idle
      <4>2. doing'[a].step \in {"idle", "remove"}
        <5>1. CASE NoMoreTorrents(a)
          BY <1>1, <4>1, <5>1 DEF NoMoreTorrents
        <5>2. CASE AddFails(a) \/ EnqueueStart(a)
          BY <1>1, <4>1, <5>2 DEF AddFails, EnqueueStart
        <5> QED
          BY <3>6, <5>1, <5>2
      <4> QED
        BY <4>2
    <3> QED
      BY <1>8, <2>2, <3>1, <3>2, <3>3, <3>4, <3>5, <3>6 DEF ErrandStep
  <2> QED
    BY <2>1, <2>2
<1>9. CASE UserStep
  <2>1. ASSUME NEW g \in Torrent, FileEvent(g) PROVE Fine
    <3>1. Watcher \in Actor
      BY DEF Actor
    <3> QED
      BY <1>2, <1>3, <1>4, <2>1, <3>1 DEF FileEvent, LetsBe
  <2>2. ~AnnounceAllNow
    BY DEF AnnounceAllNow, LetsBe
  <2> QED
    BY <1>2, <1>9, <2>1, <2>2 DEF UserStep, BeginStop, MarkCompletedPending
<1> QED
  BY <1>2, <1>5, <1>6, <1>7, <1>8, <1>9 DEF Next, vars

\* Its requests are starts; it is not credited, so no download of it completes.
LEMMA RequestsStaySilent ==
    ASSUME IInv, LetsBe, Next, ~Stopping, \A b \in Actor : doing[b].step # "pull",
           NEW h \in Torrent, Silent(h)
    PROVE  /\ pending'[h] \in {NoRequest, "started"} /\ ready'[h] \in {NoRequest, "started"}
           /\ h \notin credited' /\ h \notin completedBit'
<1> DEFINE Fine == /\ pending'[h] \in {NoRequest, "started"} /\ ready'[h] \in {NoRequest, "started"}
                   /\ h \notin credited' /\ h \notin completedBit'
<1> USE DEF queueVars, poolVars
<1>1. HandlerInv /\ QueueTypes /\ PoolTypes
  BY DEF IInv, OwnInv
<1>2. UNCHANGED <<queueVars, completedBit, credited>> => Fine
  BY DEF Silent
<1>3. CASE LoopStep
  <2>1. ASSUME NEW S \in SUBSET Torrent, Tick(S) PROVE Fine
    BY <1>1, <2>1 DEF Tick, Q!Without, Silent
  <2>2. ASSUME NEW g \in Torrent, Skip(g) PROVE Fine
    BY <1>1, <2>2 DEF Skip, Silent, QueueTypes
  <2>3. ASSUME NEW g \in Torrent, NEW t \in Task, Dispatch(g, t) PROVE Fine
    BY <1>1, <2>3 DEF Dispatch, Silent, QueueTypes
  <2> QED
    BY <1>2, <1>3, <2>1, <2>2, <2>3 DEF LoopStep, Submit
<1>4. CASE CallerStep
  BY <1>2, <1>4 DEF CallerStep, SeedNext, Listen, Unlisten, SweepPending, SweepLive,
     BeginAwait, EndAwait, Stopping
<1>5. ASSUME NEW t \in Task, AcquirePermit(t) \/ HandlerStep(t) PROVE Fine
  <2>1. handler[t] # "none" => target[t] # h
    BY <1>1 DEF HandlerInv, Silent
  <2>2. CASE Enqueue(t)
    BY <1>1, <2>1, <2>2 DEF Enqueue, Q!Replaced, QueueTypes, Silent
  <2>3. CASE Credit(t)
    BY <2>1, <2>3 DEF Credit, Silent
  <2>4. completedBit' \subseteq completedBit
    BY <1>5 DEF AcquirePermit, HandlerStep, Respond, Enqueue, Credit, DropWhileStopping,
       ArchiveTorrent, ReplaceStopped, ReplaceFailed, Leave
  <2> QED
    BY <1>5, <2>2, <2>3, <2>4 DEF AcquirePermit, HandlerStep, Respond, DropWhileStopping,
       ArchiveTorrent, ReplaceStopped, ReplaceFailed, Leave, Silent
<1>6. ASSUME NEW a \in Actor, ErrandStep(a) PROVE Fine
  <2>1. CASE EnqueueStart(a)
    BY <1>1, <2>1 DEF EnqueueStart, Q!Replaced, QueueTypes, Silent
  <2>2. CASE Notify(a)
    BY <1>1, <2>2 DEF Notify, Q!Replaced, QueueTypes, Silent
  <2>3. \A g \in Torrent : ~Pull(a, g)
    BY DEF Pull
  <2>4. CASE Add(a) \/ Remove(a)
    BY <2>4 DEF Add, Remove, Silent
  <2> QED
    BY <1>2, <1>6, <2>1, <2>2, <2>3, <2>4 DEF ErrandStep, Move, FileGone, Insert, Count, Exclude,
       Choose, NoMoreTorrents, AddFails, Deny
<1>7. CASE UserStep
  BY <1>2, <1>7 DEF UserStep, AnnounceAllNow, BeginStop, MarkCompletedPending, FileEvent, Silent
<1> QED
  BY <1>3, <1>4, <1>5, <1>6, <1>7 DEF Next

\* A torrent is silent until it announces started.
LEMMA SilentKeeps ==
    ASSUME IInv, ~Stopping, SilentInv, LetsBe, [HNext]_hvars PROVE SilentInv'
<1>1. [Next]_vars
  BY DEF HNext, hvars
<1>2. \A a \in Actor : doing'[a].step # "pull"
  BY <1>1, ErrandsStaySilent DEF SilentInv
<1>3. ASSUME HNext, NEW h \in Torrent, h \notin began' PROVE Silent(h)'
  <2>1. Next /\ h \notin began /\ h \notin Sent("started")
    BY <1>3 DEF HNext, Record
  <2>2. Silent(h)
    BY <2>1 DEF SilentInv
  <2>3. /\ pending'[h] \in {NoRequest, "started"} /\ ready'[h] \in {NoRequest, "started"}
        /\ h \notin credited' /\ h \notin completedBit'
    BY <2>1, <2>2, RequestsStaySilent DEF SilentInv
  <2>4. \A t \in Task : phase'[t] # "ended" /\ target'[t] = h
                        => event'[t] = "started" /\ phase'[t] = "waiting"
    BY <2>1, <2>2, TasksStaySilent
  <2>5. \A a \in Actor : doing'[a].step \in {"move", "notify"} => doing'[a].about # h
    BY <1>1, <2>2, ErrandsStaySilent DEF SilentInv
  <2> QED
    BY <2>3, <2>4, <2>5 DEF Silent
<1>4. CASE UNCHANGED hvars
  BY <1>4 DEF hvars, historyVars, vars, taskVars, executorVars, poolVars, queueVars, SilentInv, Silent
<1> QED
  BY <1>2, <1>3, <1>4 DEF SilentInv

\* The first announce of a torrent is the started one (request.rs:35-36) where no
\* file goes, nothing is announced on demand and the engine is not stopped: whatever
\* else is queued for a torrent is a consequence of its started announce.
THEOREM StartedFirst == ASSUME LetsBe PROVE HSpec => FirstAnnounceIsStarted
<1>1. HSpec => [](IInv /\ ~Stopping)
  <2>1. HInit => Init
    BY DEF HInit
  <2>2. [HNext]_hvars => [Next]_vars
    BY DEF HNext, hvars
  <2>3. HSpec => Spec
    BY <2>1, <2>2, PTL DEF HSpec, Spec
  <2>4. "stop" \notin UserAction
    BY DEF LetsBe
  <2> QED
    BY <2>3, <2>4, NeverStopping, InvariantHolds, PTL
<1>2. HInit => SilentInv
  <2> SUFFICES ASSUME HInit PROVE SilentInv
    OBVIOUS
  <2>1. \A a \in Actor : doing[a].step = "idle"
    BY DEF HInit, Init, Idle
  <2> QED
    BY <2>1 DEF HInit, Init, E!Init, Q!Init, SilentInv, Silent
<1>3. IInv /\ ~Stopping /\ SilentInv /\ [HNext]_hvars => SilentInv'
  BY SilentKeeps
<1>4. HSpec => []SilentInv
  BY <1>1, <1>2, <1>3, PTL DEF HSpec
<1>5. SilentInv /\ [HNext]_hvars
        => [\A e \in Event \ {"started"} : Sent(e) \subseteq began]_hvars
  <2> SUFFICES ASSUME SilentInv, NEW e \in Event \ {"started"}, NEW h \in Sent(e), h \notin began
               PROVE  FALSE
    OBVIOUS
  <2>1. PICK t \in Task : phase[t] = "waiting" /\ event[t] = e /\ target[t] = h
    BY DEF Sent
  <2> QED
    BY <2>1 DEF SilentInv, Silent, Sent
<1> QED
  BY <1>4, <1>5, PTL DEF HSpec, FirstAnnounceIsStarted
-----------------------------------------------------------------------------
(* A pool that nothing leaves.                                             *)

\* Trackers answer, or fail for a while; no file goes and no download completes.
NothingLeaves ==
    /\ Outcome \subseteq {"ok", "failed", "noPeers"}
    /\ "noPeers" \in Outcome => KeepTorrentWithZeroLeechers
    /\ UserAction \cap {"complete", "deleteFile", "changeFile"} = {}

\* No errand removes a torrent; until the engine stops, every announce is a start
\* or a regular one.
CalmInv ==
    /\ completedBit = {}
    /\ \A a \in Actor : /\ doing[a].kind \in {"none", "seed", "created", "announceAll"}
                        /\ doing[a].step \notin {"move", "notify", "remove", "deny"}
    /\ ~Stopping =>
          /\ \A h \in Torrent : {pending[h], ready[h]} \cap {"completed", "stopped"} = {}
          /\ \A t \in Task : event[t] \in {"started", "regular"}

\* Its own step leaves an errand one that removes nothing.
LEMMA OwnStepCalm ==
    ASSUME IInv, CalmInv, NEW a \in Actor, ErrandStep(a)
    PROVE  /\ doing'[a].kind \in {"none", "seed", "created", "announceAll"}
           /\ doing'[a].step \notin {"move", "notify", "remove", "deny"}
<1>1. doing \in [Actor -> Errand] /\ doing[a] \in Errand
  BY DEF IInv, OwnInv
<1>2. /\ doing[a].kind \in {"none", "seed", "created", "announceAll"}
      /\ ~Move(a) /\ ~FileGone(a) /\ ~Notify(a) /\ ~Remove(a) /\ ~Deny(a)
  BY DEF CalmInv, Move, FileGone, Notify, Remove, Deny
<1>3. doing'[a].kind \in {"none", "seed", "created", "announceAll"}
  BY <1>2, ErrandKeepsKind
<1>4. \A s : Advanced(a, s).step = s
  BY <1>1 DEF Advanced, Errand, Idle
<1>5. CASE Insert(a) \/ Add(a)
  <2>1. doing'[a].step \in {"count", "idle", "enqueue"}
    BY <1>1, <1>4, <1>5 DEF Insert, Add, Goto
  <2> QED
    BY <1>3, <2>1
<1>6. CASE Count(a) \/ Exclude(a)
  <2>1. Count(a) => doing'[a].step \in {"idle", "add"}
    BY <1>1 DEF Count, Errand, Idle
  <2>2. Exclude(a) => doing'[a].step = "choose"
    BY <1>1 DEF Exclude, Errand
  <2> QED
    BY <1>3, <1>6, <2>1, <2>2
<1>7. ASSUME NEW h \in Torrent, Choose(a, h) \/ Pull(a, h)
      PROVE  doing'[a].step \in {"add", "pull", "idle"}
  <2>1. Choose(a, h) => doing'[a].step = "add"
    BY <1>1 DEF Choose, Errand
  <2>2. Pull(a, h) => doing'[a].step \in {"pull", "idle"}
    BY <1>1 DEF Pull, Errand, Idle
  <2> QED
    BY <1>7, <2>1, <2>2
<1>8. CASE NoMoreTorrents(a) \/ AddFails(a) \/ EnqueueStart(a)
  <2> DEFINE r == Advanced(a, AfterRefill(doing[a].kind))
  <2>1. AfterRefill(doing[a].kind) = "idle"
    BY <1>2 DEF AfterRefill
  <2>2. \A p, S : [r EXCEPT !.pick = p].step = "idle" /\ [r EXCEPT !.snapshot = S].step = "idle"
    BY <1>1, <2>1 DEF Advanced, Idle
  <2>3. CASE NoMoreTorrents(a)
    BY <1>1, <1>3, <2>2, <2>3 DEF NoMoreTorrents
  <2>4. CASE AddFails(a) \/ EnqueueStart(a)
    BY <1>1, <1>3, <2>2, <2>4 DEF AddFails, EnqueueStart
  <2> QED
    BY <1>8, <2>3, <2>4
<1> QED
  BY <1>2, <1>3, <1>5, <1>6, <1>7, <1>8 DEF ErrandStep

\* A step that begins an errand begins one that removes nothing.
LEMMA ErrandsStayCalm ==
    ASSUME IInv, NothingLeaves, CalmInv, Next, NEW a \in Actor
    PROVE  /\ doing'[a].kind \in {"none", "seed", "created", "announceAll"}
           /\ doing'[a].step \notin {"move", "notify", "remove", "deny"}
<1> DEFINE Fine == /\ doing'[a].kind \in {"none", "seed", "created", "announceAll"}
                   /\ doing'[a].step \notin {"move", "notify", "remove", "deny"}
<1>1. /\ doing \in [Actor -> Errand] /\ HandlerInv /\ TaskTypes
      /\ Idle.kind = "none" /\ Idle.step = "idle"
  BY DEF IInv, OwnInv, Idle
<1>2. CASE doing'[a] = doing[a] \/ doing'[a] = Idle
  BY <1>1, <1>2 DEF CalmInv
<1>3. ASSUME NEW b \in Actor, NEW k, NEW s, NEW h, doing' = Begin(b, k, s, h),
             k \in {"seed", "created"}, s \in {"exclude", "insert"}
      PROVE  Fine
  <2>1. CASE a = b
    BY <1>1, <1>3, <2>1 DEF Begin, Idle
  <2>2. CASE a # b
    BY <1>1, <1>2, <1>3, <2>2 DEF Begin
  <2> QED
    BY <2>1, <2>2
<1>4. CASE LoopStep
  BY <1>2, <1>4 DEF LoopStep, Tick, Skip, Dispatch, Submit
<1>5. CASE CallerStep
  <2>1. SeedNext => Fine
    BY <1>3 DEF SeedNext, Actor
  <2> QED
    BY <1>2, <1>5, <2>1 DEF CallerStep, Listen, Unlisten, SweepPending, SweepLive, BeginAwait, EndAwait
<1>6. ASSUME NEW t \in Task, AcquirePermit(t) \/ HandlerStep(t) PROVE Fine
  <2>1. outcome[t] \in {"ok", "failed", "noPeers", "none"} /\ ~Archives(event[t], outcome[t])
    <3>1. outcome[t] \in Outcome \cup {"none"}
      BY <1>1 DEF TaskTypes
    <3>2. outcome[t] = "noPeers" => KeepTorrentWithZeroLeechers
      BY <3>1 DEF NothingLeaves
    <3> QED
      BY <3>1, <3>2 DEF NothingLeaves, Archives
  <2>2. ASSUME NEW j \in Job PROVE ~ArchiveTorrent(t, j) /\ ~ReplaceFailed(t, j)
    BY <2>1 DEF ArchiveTorrent, ReplaceFailed
  <2>3. ASSUME NEW j \in Job PROVE ~ReplaceStopped(t, j)
    BY DEF ReplaceStopped, CalmInv
  <2> QED
    BY <1>2, <1>6, <2>2, <2>3 DEF AcquirePermit, HandlerStep, Respond, Enqueue, Credit,
       DropWhileStopping, Leave
<1>7. ASSUME NEW b \in Actor, ErrandStep(b) PROVE Fine
  <2>1. CASE b # a
    BY <1>2, <1>7, <2>1, ErrandAlone
  <2>2. CASE b = a
    BY <1>7, <2>2, OwnStepCalm
  <2> QED
    BY <2>1, <2>2
<1>8. CASE UserStep
  <2>1. CASE AnnounceAllNow
    <3>1. CASE a = Merger
      BY <1>1, <2>1, <3>1 DEF AnnounceAllNow, Idle
    <3>2. CASE a # Merger
      BY <1>1, <1>2, <2>1, <3>2 DEF AnnounceAllNow
    <3> QED
      BY <3>1, <3>2
  <2>2. ASSUME NEW h \in Torrent, FileEvent(h) PROVE Fine
    BY <1>3, <2>2 DEF FileEvent, NothingLeaves, Actor
  <2> QED
    BY <1>2, <1>8, <2>1, <2>2 DEF UserStep, BeginStop, MarkCompletedPending
<1> QED
  BY <1>4, <1>5, <1>6, <1>7, <1>8 DEF Next

\* Until the engine stops, nobody queues or announces anything but starts and
\* regular announces.
LEMMA AnnouncesStayCalm ==
    ASSUME IInv, NothingLeaves, CalmInv, Next
    PROVE  /\ completedBit' = {}
           /\ ~Stopping' =>
                 /\ \A h \in Torrent : {pending'[h], ready'[h]} \cap {"completed", "stopped"} = {}
                 /\ \A t \in Task : event'[t] \in {"started", "regular"}
<1> DEFINE Calm == /\ \A h \in Torrent : {pending'[h], ready'[h]} \cap {"completed", "stopped"} = {}
                   /\ \A t \in Task : event'[t] \in {"started", "regular"}
<1> USE DEF queueVars, poolVars, taskVars
<1>1. /\ HandlerInv /\ TaskTypes /\ QueueTypes /\ completedBit = {} /\ NoRequest \notin Event
      /\ \A a \in Actor : doing[a].step \notin {"notify", "remove"}
  BY OrchestratorAssumption DEF IInv, OwnInv, CalmInv
<1>2. ASSUME ~Stopping, UNCHANGED <<queueVars, event>> PROVE Calm
  BY <1>2 DEF CalmInv
<1>3. CASE LoopStep
  <2>1. ASSUME NEW S \in SUBSET Torrent, Tick(S), ~Stopping PROVE Calm
    BY <1>1, <2>1 DEF Tick, Q!Without, CalmInv, Event
  <2>2. ASSUME NEW h \in Torrent, Skip(h), ~Stopping PROVE Calm
    BY <1>1, <2>2 DEF Skip, CalmInv, QueueTypes, Event
  <2>3. ASSUME NEW h \in Torrent, NEW t \in Task, Dispatch(h, t)
        PROVE  completedBit' = {} /\ (~Stopping => Calm)
    <3>1. /\ event' = [event EXCEPT ![t] = ready[h]] /\ completedBit' = {}
          /\ ready' = [ready EXCEPT ![h] = NoRequest] /\ pending' = pending
      BY <1>1, <2>3 DEF Dispatch
    <3>2. ~Stopping => ready[h] \in {"started", "regular"}
      BY <1>1, <2>3 DEF Dispatch, CalmInv, QueueTypes, Event
    <3> QED
      BY <1>1, <3>1, <3>2 DEF CalmInv, QueueTypes, TaskTypes, Event
  <2>4. CASE Submit
    BY <1>1, <1>2, <2>4 DEF Submit, Stopping, engineVars
  <2>5. UNCHANGED engine
    BY <1>3 DEF LoopStep, Tick, Skip, Dispatch, Submit, engineVars
  <2> QED
    BY <1>1, <1>3, <2>1, <2>2, <2>3, <2>4, <2>5 DEF LoopStep, Tick, Skip, Stopping
<1>4. CASE CallerStep
  BY <1>1, <1>2, <1>4 DEF CallerStep, SeedNext, Listen, Unlisten, SweepPending, SweepLive,
     BeginAwait, EndAwait, Stopping, engineVars
<1>5. ASSUME NEW t \in Task, AcquirePermit(t) \/ HandlerStep(t)
      PROVE  completedBit' = {} /\ (~Stopping' => Calm)
  <2>1. completedBit' = {} /\ (Stopping' <=> Stopping)
    BY <1>1, <1>5 DEF AcquirePermit, HandlerStep, Respond, Enqueue, Credit, DropWhileStopping,
       ArchiveTorrent, ReplaceStopped, ReplaceFailed, Leave, Stopping, engineVars
  <2>2. ASSUME Enqueue(t), ~Stopping PROVE Calm
    <3>1. FollowUp(event[t], outcome[t]) \in {"started", "regular", NoRequest}
      BY <2>2 DEF CalmInv, FollowUp
    <3> QED
      BY <1>1, <2>2, <3>1 DEF Enqueue, Q!Replaced, QueueTypes, CalmInv, Event
  <2> QED
    BY <1>2, <1>5, <2>1, <2>2 DEF AcquirePermit, HandlerStep, Respond, Credit, DropWhileStopping,
       ArchiveTorrent, ReplaceStopped, ReplaceFailed, Leave
<1>6. ASSUME NEW a \in Actor, ErrandStep(a) PROVE completedBit' = {} /\ (~Stopping' => Calm)
  <2>1. completedBit' = {} /\ (Stopping' <=> Stopping)
    BY <1>1, <1>6 DEF ErrandStep, Move, FileGone, Notify, Insert, Count, Exclude, Choose,
       NoMoreTorrents, Add, AddFails, EnqueueStart, Remove, Deny, Pull, Stopping, engineVars
  <2>2. ASSUME EnqueueStart(a), ~Stopping PROVE Calm
    BY <1>1, <2>2 DEF EnqueueStart, Q!Replaced, QueueTypes, CalmInv
  <2>3. ASSUME NEW h \in Torrent, Pull(a, h), ~Stopping PROVE Calm
    BY <1>1, <2>3 DEF Pull, Q!Replaced, QueueTypes, CalmInv
  <2>4. ~Notify(a)
    BY <1>1 DEF Notify
  <2> QED
    BY <1>2, <1>6, <2>1, <2>2, <2>3, <2>4 DEF ErrandStep, Move, FileGone, Insert, Count, Exclude,
       Choose, NoMoreTorrents, Add, AddFails, Remove, Deny
<1>7. CASE UserStep
  <2>1. \A h \in Torrent : ~MarkCompletedPending(h)
    BY DEF MarkCompletedPending, NothingLeaves
  <2> QED
    BY <1>1, <1>2, <1>7, <2>1 DEF UserStep, AnnounceAllNow, BeginStop, FileEvent, Stopping, engineVars
<1> QED
  BY <1>3, <1>4, <1>5, <1>6, <1>7 DEF Next

\* The invariant of such a pool.
LEMMA CalmHolds == ASSUME NothingLeaves PROVE Spec => []CalmInv
<1>1. Init => CalmInv
  <2> SUFFICES ASSUME Init PROVE CalmInv
    OBVIOUS
  <2>1. \A a \in Actor : doing[a].kind = "none" /\ doing[a].step = "idle"
    BY DEF Init, Idle
  <2> QED
    BY <2>1, OrchestratorAssumption DEF Init, Q!Init, CalmInv, Event
<1>2. IInv /\ CalmInv /\ [Next]_vars => CalmInv'
  <2> SUFFICES ASSUME IInv, CalmInv, [Next]_vars PROVE CalmInv'
    OBVIOUS
  <2>1. CASE Next
    BY <2>1, ErrandsStayCalm, AnnouncesStayCalm DEF CalmInv
  <2>2. CASE UNCHANGED vars
    BY <2>2 DEF vars, taskVars, poolVars, queueVars, engineVars, CalmInv, Stopping
  <2> QED
    BY <2>1, <2>2
<1> QED
  BY <1>1, <1>2, InvariantHolds, PTL DEF Spec

\* Each announce feeds the next one (response_handlers.rs:11-13) for as long as no
\* torrent leaves the pool and none completes, whatever fails, is displaced or is
\* announced on demand: of the two steps that can make the pool forget a torrent,
\* neither is taken.
THEOREM NothingForgotten == ASSUME NothingLeaves PROVE Spec => []LiveHasWork
<1> DEFINE Forgotten(h) ==
              \/ \E t \in Task : /\ target[t] = h /\ event[t] = "completed"
                                 /\ handler'[t] = "leave"
              \/ \E a \in Actor : Deny(a) /\ doing[a].about = h
           Kept == \A h \in live \cap live' :
                      HasWork(h) /\ ~HasWork(h)' /\ ~Stopping' => Forgotten(h)
<1>1. Init => LiveHasWork
  BY DEF Init, LiveHasWork
<1>2. LiveHasWork /\ IInv /\ CalmInv /\ [Next]_vars /\ [Kept]_vars => LiveHasWork'
  <2> SUFFICES ASSUME LiveHasWork, IInv, CalmInv, [Next]_vars, [Kept]_vars, ~Stopping',
                      NEW h \in live'
               PROVE  HasWork(h)'
    BY DEF LiveHasWork
  <2>1. CASE UNCHANGED vars
    BY <2>1 DEF vars, taskVars, executorVars, poolVars, queueVars, engineVars, LiveHasWork,
       HasWork, E!Unfinished, Stopping
  <2>2. CASE Next /\ ~UNCHANGED vars
    <3>1. Kept /\ ~Stopping
      BY <2>2, StoppingStays
    <3>2. ~Forgotten(h)
      BY <3>1 DEF CalmInv, Deny
    <3>3. CASE h \in live
      BY <3>1, <3>2, <3>3 DEF LiveHasWork
    <3>4. CASE h \notin live
      <4>1. h \in Torrent
        BY <2>2, NextIInv DEF IInv, OwnInv, PoolTypes
      <4> QED
        BY <2>2, <3>4, <4>1, NewlyLive DEF HasWork, Queued
    <3> QED
      BY <3>3, <3>4
  <2> QED
    BY <2>1, <2>2
<1> QED
  BY <1>1, <1>2, InvariantHolds, CalmHolds, ForgottenByTwoSteps, PTL DEF Spec, ForgottenOnlyByLateDeny
-----------------------------------------------------------------------------
(* How a stop can be lost.                                                 *)

\* The chain comes to the later handlers only for what they handle.
ChainInv ==
    \A t \in Task :
        /\ handler[t] = "credit" => \/ Registers(event[t], outcome[t])
                                    \/ Unregisters(event[t], outcome[t])
        /\ handler[t] = "notify" => Archives(event[t], outcome[t]) \/ Drops(event[t], outcome[t])

\* Once a torrent has been removed nobody has a stop of it to announce.
DeniedInv ==
    ~Stopping => \A a \in Actor, h \in Torrent :
        doing[a].kind = "stopped" /\ doing[a].step = "deny" /\ doing[a].about = h
        => \A s, i : ~StopAt(s, i, h)

\* The chain looks for its next handler in one place.
LEMMA ChainKeeps == ASSUME IInv, ChainInv, [Next]_vars PROVE ChainInv'
<1>1. TaskTypes /\ HandlerInv /\ E!TypeOK
  BY SameExecutor DEF IInv, ExecutorInv, OwnInv
<1> DEFINE Fine(t) ==
              /\ handler'[t] = "credit" => \/ Registers(event'[t], outcome'[t])
                                           \/ Unregisters(event'[t], outcome'[t])
              /\ handler'[t] = "notify" => \/ Archives(event'[t], outcome'[t])
                                           \/ Drops(event'[t], outcome'[t])
<1>2. ASSUME NEW t \in Task, handler'[t] = handler[t], event'[t] = event[t],
             outcome'[t] = outcome[t]
      PROVE  Fine(t)
  BY <1>2 DEF ChainInv
<1>3. ASSUME NEW t \in Task, NEW h \in Torrent, NEW u \in Task, Dispatch(h, u) PROVE Fine(t)
  <2>1. CASE t = u
    BY <1>1, <1>3, <2>1 DEF Dispatch, E!Spawn, E!Free, E!Unfinished, HandlerInv
  <2>2. CASE t # u
    BY <1>1, <1>2, <1>3, <2>2 DEF Dispatch, TaskTypes
  <2> QED
    BY <2>1, <2>2
<1>4. CASE LoopStep
  BY <1>2, <1>3, <1>4 DEF LoopStep, Tick, Skip, Submit, taskVars, ChainInv
<1>5. CASE CallerStep
  BY <1>2, <1>5 DEF CallerStep, SeedNext, Listen, Unlisten, SweepPending, SweepLive,
     BeginAwait, EndAwait, taskVars, ChainInv
<1>6. ASSUME NEW u \in Task, AcquirePermit(u) \/ HandlerStep(u), NEW t \in Task PROVE Fine(t)
  <2>1. CASE t # u
    <3>1. handler'[t] = handler[t] /\ event'[t] = event[t] /\ outcome'[t] = outcome[t]
      BY <1>1, <1>6, <2>1 DEF TaskTypes, AcquirePermit, HandlerStep, Respond, Enqueue, Credit,
         DropWhileStopping, ArchiveTorrent, ReplaceStopped, ReplaceFailed, Leave
    <3> QED
      BY <1>2, <3>1
  <2>2. CASE t = u
    <3>1. CASE AcquirePermit(t)
      BY <1>2, <3>1 DEF AcquirePermit
    <3>2. ASSUME NEW o \in Outcome, Respond(t, o) PROVE Fine(t)
      <4>1. event'[t] = event[t] /\ outcome'[t] = o /\ handler'[t] = FirstHandler(event[t], o)
        BY <1>1, <3>2 DEF Respond, TaskTypes
      <4> QED
        BY <4>1 DEF FirstHandler, AfterEnqueue, AfterCredit
    <3>3. CASE Enqueue(t)
      <4>1. event' = event /\ outcome' = outcome
            /\ handler'[t] = AfterEnqueue(event[t], outcome[t])
        BY <1>1, <3>3 DEF Enqueue, TaskTypes
      <4> QED
        BY <4>1 DEF AfterEnqueue, AfterCredit
    <3>4. CASE Credit(t)
      <4>1. event' = event /\ outcome' = outcome
            /\ handler'[t] = AfterCredit(event[t], outcome[t])
        BY <1>1, <3>4 DEF Credit, TaskTypes
      <4> QED
        BY <4>1 DEF AfterCredit
    <3>5. ASSUME handler'[t] \in {"leave", "none"} PROVE Fine(t)
      BY <3>5
    <3> QED
      BY <1>1, <1>6, <2>2, <3>1, <3>2, <3>3, <3>4, <3>5 DEF HandlerStep, TaskTypes,
         DropWhileStopping, ArchiveTorrent, ReplaceStopped, ReplaceFailed, Leave
  <2> QED
    BY <2>1, <2>2
<1>7. ASSUME NEW a \in Actor, ErrandStep(a) PROVE ChainInv'
  BY <1>2, <1>7 DEF ErrandStep, Move, FileGone, Notify, Insert, Count, Exclude, Choose,
     NoMoreTorrents, Add, AddFails, EnqueueStart, Remove, Deny, Pull, taskVars, ChainInv
<1>8. CASE UserStep
  BY <1>2, <1>8 DEF UserStep, AnnounceAllNow, BeginStop, MarkCompletedPending, FileEvent,
     taskVars, ChainInv
<1>9. CASE UNCHANGED vars
  BY <1>2, <1>9 DEF vars, taskVars, ChainInv
<1> QED
  BY <1>4, <1>5, <1>6, <1>7, <1>8, <1>9 DEF Next, ChainInv

\* The removal was the last of the stop, and a stop that is nowhere stays so.
LEMMA DeniedKeeps == ASSUME StopInv, LeavesOnce, DeniedInv, Next PROVE DeniedInv'
<1> SUFFICES ASSUME ~Stopping', NEW a \in Actor, NEW h \in Torrent, doing'[a].kind = "stopped",
                    doing'[a].step = "deny", doing'[a].about = h, NEW s, NEW i, StopAt(s, i, h)'
             PROVE  FALSE
  BY DEF DeniedInv
<1>1. /\ ~Stopping /\ doing \in [Actor -> Errand] /\ doing[a] \in Errand
      /\ IInv /\ RemovalInv /\ ShapeInv
  BY StoppingStays DEF StopInv, IInv, OwnInv
<1>2. Fades(h) \/ GoesOnward(h)
  BY <1>1, StopGoesOn
<1>3. CASE ErrandStep(a)
  <2>1. doing[a].kind = "stopped"
    BY <1>1, <1>3, ErrandKeepsKind
  <2>2. Remove(a)
    BY <1>1, <1>3, <2>1, RemovalGoesOn DEF Idle
  <2>3. doing[a].about = h /\ doing'[a].step = "deny"
    BY <1>1, <2>2 DEF Remove, Goto, Advanced, Errand
  <2>4. StopAt("removal", a, h) /\ ~StopAt("removal", a, h)'
    BY <2>1, <2>2, <2>3 DEF StopAt, Removing, Remove
  <2>5. \A v, k : StopAt(v, k, h) => v = "removal" /\ k = a
    BY <1>1, <2>4 DEF StopInv, OneStop
  <2>6. Fades(h)
    BY <1>2, <2>5 DEF GoesOnward, Moves
  <2> QED
    BY <2>4, <2>5, <2>6 DEF Fades
<1>4. CASE ~ErrandStep(a)
  <2>1. CASE doing[a] = Idle
    <3>1. Idle.kind = "none"
      BY DEF Idle
    <3> QED
      BY <1>1, <2>1, <3>1, ErrandBegins
  <2>2. CASE doing[a] # Idle
    <3>1. doing'[a] = doing[a]
      BY <1>1, <1>4, <2>2, ErrandsApart
    <3>2. \A v, k : ~StopAt(v, k, h)
      BY <1>1, <3>1 DEF DeniedInv
    <3> QED
      BY <1>2, <3>2 DEF Fades, GoesOnward, Moves
  <2> QED
    BY <2>1, <2>2
<1> QED
  BY <1>3, <1>4

\* A stop of h waits to be announced, or is being announced.
OnItsWay(h) == \E s, i : s \in {"queued", "drained", "task"} /\ StopAt(s, i, h)

\* Another request takes its place in the queue.
ReplacedInQueue(h) == pending[h] = "stopped" /\ pending'[h] \in {"started", "regular"}

\* execute() aborts its task for another announce of the torrent.
Superseded(h) == Submit /\ \E t \in Task : Stops(t, h) /\ phase'[t] = "ended"

\* A queued stop stays queued until it is drained or replaced.
LEMMA QueuedStays ==
    ASSUME IInv, Next, ~Stopping', NEW h \in Torrent, pending[h] = "stopped"
    PROVE  \/ pending'[h] = "stopped" \/ ready'[h] = "stopped" \/ ReplacedInQueue(h)
<1>1. QueueTypes /\ HandlerInv
  BY DEF IInv, OwnInv
<1>2. CASE pending' = pending
  BY <1>2
<1>3. ASSUME NEW S \in SUBSET Torrent, Tick(S)
      PROVE  pending'[h] = "stopped" \/ ready'[h] = "stopped"
  BY <1>3 DEF Tick, Q!Without
<1>4. CASE LoopStep
  BY <1>2, <1>3, <1>4 DEF LoopStep, Skip, Dispatch, Submit, queueVars
<1>5. CASE CallerStep
  BY <1>2, <1>5 DEF CallerStep, SeedNext, Listen, Unlisten, SweepPending, SweepLive, BeginAwait,
     EndAwait, queueVars, Stopping
<1>6. ASSUME NEW t \in Task, AcquirePermit(t) \/ HandlerStep(t)
      PROVE  pending' = pending \/ pending'[h] = "stopped" \/ ReplacedInQueue(h)
  <2>1. CASE Enqueue(t)
    <3>1. FollowUp(event[t], outcome[t]) \in {"started", "regular", "stopped"}
      BY <1>1, <2>1 DEF Enqueue, HandlerInv, FollowUp
    <3>2. \/ pending'[h] = pending[h]
          \/ pending'[h] = FollowUp(event[t], outcome[t])
      BY <1>1, <2>1 DEF Enqueue, Q!Replaced, QueueTypes
    <3> QED
      BY <3>1, <3>2 DEF ReplacedInQueue
  <2> QED
    BY <1>6, <2>1 DEF AcquirePermit, HandlerStep, Respond, Credit, DropWhileStopping,
       ArchiveTorrent, ReplaceStopped, ReplaceFailed, Leave, queueVars
<1>7. ASSUME NEW a \in Actor, ErrandStep(a)
      PROVE  pending' = pending \/ pending'[h] = "stopped" \/ ReplacedInQueue(h)
  <2>1. CASE EnqueueStart(a)
    BY <1>1, <2>1 DEF EnqueueStart, Q!Replaced, QueueTypes, ReplacedInQueue
  <2>2. ASSUME NEW g \in Torrent, Pull(a, g) PROVE pending'[h] = "stopped" \/ ReplacedInQueue(h)
    BY <1>1, <2>2 DEF Pull, Q!Replaced, QueueTypes, ReplacedInQueue
  <2>3. CASE Notify(a)
    BY <1>1, <2>3 DEF Notify, Q!Replaced, QueueTypes
  <2> QED
    BY <1>7, <2>1, <2>2, <2>3 DEF ErrandStep, Move, FileGone, Insert, Count, Exclude, Choose,
       NoMoreTorrents, Add, AddFails, Remove, Deny, queueVars
<1>8. CASE UserStep
  BY <1>2, <1>8 DEF UserStep, AnnounceAllNow, BeginStop, MarkCompletedPending, FileEvent, queueVars
<1> QED
  BY <1>2, <1>4, <1>5, <1>6, <1>7, <1>8 DEF Next

\* A drained stop is announced: its torrent is still in the pool.
LEMMA DrainedStays ==
    ASSUME StopInv, Next, ~Stopping', NEW h \in Torrent, ready[h] = "stopped"
    PROVE  ready'[h] = "stopped" \/ \E t \in Task : Stops(t, h)'
<1>1. IInv /\ ~Stopping
  BY StoppingStays DEF StopInv
<1>2. QueueTypes /\ HandlerInv /\ TaskTypes /\ E!TypeOK /\ NoRequest \notin Event
  BY <1>1, SameExecutor, OrchestratorAssumption DEF IInv, ExecutorInv, OwnInv
<1>3. h \in live
  <2>1. StopAt("drained", h, h)
    BY DEF StopAt
  <2> QED
    BY <1>1, <2>1 DEF StopInv, StopIsLive
<1>4. CASE ready' = ready
  BY <1>4
<1>5. ASSUME NEW S \in SUBSET Torrent, Tick(S) PROVE FALSE
  BY <1>2, <1>5 DEF Tick, NothingReady, Event
<1>6. ASSUME NEW g \in Torrent, Skip(g) PROVE ready'[h] = "stopped"
  BY <1>2, <1>3, <1>6 DEF Skip, QueueTypes
<1>7. ASSUME NEW g \in Torrent, NEW t \in Task, Dispatch(g, t)
      PROVE  ready'[h] = "stopped" \/ Stops(t, h)'
  <2>1. CASE g # h
    BY <1>2, <1>7, <2>1 DEF Dispatch, QueueTypes
  <2>2. CASE g = h
    <3>1. phase[t] = "ended" /\ phase'[t] = "waiting" /\ target'[t] = h
      BY <1>2, <1>7, <2>2 DEF Dispatch, E!Spawn, E!Free, E!Unfinished, E!TypeOK
    <3>2. handler'[t] = "none" /\ event'[t] = "stopped"
      BY <1>2, <1>7, <2>2, <3>1 DEF Dispatch, HandlerInv, TaskTypes
    <3> QED
      BY <3>1, <3>2 DEF Stops
  <2> QED
    BY <2>1, <2>2
<1>8. CASE LoopStep
  BY <1>4, <1>5, <1>6, <1>7, <1>8 DEF LoopStep, Submit, queueVars
<1>9. CASE CallerStep
  BY <1>1, <1>4, <1>9 DEF CallerStep, SeedNext, Listen, Unlisten, SweepPending, SweepLive, BeginAwait,
     EndAwait, queueVars, Stopping
<1>10. ASSUME NEW t \in Task, AcquirePermit(t) \/ HandlerStep(t) PROVE ready' = ready
  BY <1>10 DEF AcquirePermit, HandlerStep, Respond, Enqueue, Credit, DropWhileStopping,
     ArchiveTorrent, ReplaceStopped, ReplaceFailed, Leave, queueVars
<1>11. ASSUME NEW a \in Actor, ErrandStep(a) PROVE ready' = ready
  BY <1>11 DEF ErrandStep, Move, FileGone, Notify, Insert, Count, Exclude, Choose,
     NoMoreTorrents, Add, AddFails, EnqueueStart, Remove, Deny, Pull, queueVars
<1>12. CASE UserStep
  BY <1>4, <1>12 DEF UserStep, AnnounceAllNow, BeginStop, MarkCompletedPending, FileEvent, queueVars
<1> QED
  BY <1>4, <1>8, <1>9, <1>10, <1>11, <1>12 DEF Next

\* A handler of a stop leads to the removal, or queues the stop again.
LEMMA HandlersSeeStopThrough ==
    ASSUME IInv, LeavesOnce, ChainInv, ~Stopping, NEW h \in Torrent, NEW t \in Task,
           Stops(t, h), AcquirePermit(t) \/ HandlerStep(t)
    PROVE  \/ Stops(t, h)' \/ pending'[h] = "stopped" \/ \E j \in Actor : Removing(j, h)'
<1>1. /\ QueueTypes /\ HandlerInv /\ TaskTypes /\ E!TypeOK
      /\ doing \in [Actor -> Errand]
  BY SameExecutor DEF IInv, ExecutorInv, OwnInv
<1>2. target[t] = h /\ event[t] = "stopped" /\ phase[t] # "ended" /\ handler[t] # "leave"
  BY DEF Stops
<1>3. outcome[t] \in Outcome \cup {"none"} /\ "tooMany" \notin Outcome
  BY <1>1 DEF TaskTypes, LeavesOnce
<1>4. ASSUME target' = target, event' = event, phase'[t] # "ended", handler'[t] # "leave"
      PROVE  Stops(t, h)'
  BY <1>2, <1>4 DEF Stops
<1>5. CASE AcquirePermit(t)
  BY <1>1, <1>2, <1>4, <1>5 DEF AcquirePermit, E!AcquirePermit, E!TypeOK
<1>6. ASSUME NEW o \in Outcome, Respond(t, o) PROVE Stops(t, h)'
  <2>1. o \in {"ok", "failed"}
    BY <1>2, <1>3, <1>6, OrchestratorAssumption DEF Respond, Possible, Success
  <2>2. FirstHandler("stopped", o) \in {"enqueue", "credit"}
    BY <2>1, OrchestratorAssumption DEF FirstHandler, FollowUp, AfterEnqueue, Registers,
       Unregisters, Success, Event
  <2>3. handler'[t] = FirstHandler("stopped", o)
    BY <1>1, <1>2, <1>6 DEF Respond, TaskTypes
  <2> QED
    BY <1>1, <1>4, <1>6, <2>2, <2>3 DEF Respond, E!Respond, E!TypeOK
<1>7. CASE Enqueue(t)
  <2>1. FollowUp("stopped", outcome[t]) = "stopped"
    BY <1>1, <1>2, <1>7 DEF Enqueue, HandlerInv, FollowUp
  <2> QED
    BY <1>1, <1>2, <1>7, <2>1 DEF Enqueue, Q!Replaced, QueueTypes
<1>8. CASE Credit(t)
  <2>1. Unregisters("stopped", outcome[t])
    BY <1>2, <1>8 DEF Credit, ChainInv, Registers
  <2>2. AfterCredit("stopped", outcome[t]) = "notify"
    BY <2>1 DEF Unregisters, AfterCredit, Drops
  <2>3. handler'[t] = "notify"
    BY <1>1, <1>2, <1>8, <2>2 DEF Credit, TaskTypes
  <2> QED
    BY <1>2, <1>4, <1>8, <2>3 DEF Credit, executorVars
<1>9. ASSUME NEW j \in Job, ArchiveTorrent(t, j) \/ ReplaceFailed(t, j) PROVE FALSE
  BY <1>2, <1>3, <1>9 DEF ArchiveTorrent, ReplaceFailed, Archives
<1>10. ASSUME NEW j \in Job, ReplaceStopped(t, j) PROVE j \in Actor /\ Removing(j, h)'
  <2>1. /\ j \in Actor
        /\ doing'[j] = [Idle EXCEPT !.kind = "stopped", !.step = "exclude", !.about = h]
    BY <1>1, <1>2, <1>10 DEF ReplaceStopped, Begin, Actor
  <2> QED
    BY <2>1 DEF Removing, Idle
<1> QED
  BY <1>2, <1>5, <1>6, <1>7, <1>8, <1>9, <1>10 DEF HandlerStep, DropWhileStopping, Leave

\* A task that has a stop to announce or to see through keeps it, queues it again
\* or has its torrent removed, unless it is aborted for another announce.
LEMMA AnnouncedStays ==
    ASSUME StopInv, LeavesOnce, RunningInv, ChainInv, DeniedInv, Next, ~Stopping',
           NEW h \in Torrent, NEW t \in Task, Stops(t, h)
    PROVE  \/ Stops(t, h)' \/ pending'[h] = "stopped" \/ Superseded(h)
           \/ \E j \in Actor : Removing(j, h)'
<1>1. IInv /\ ~Stopping
  BY StoppingStays DEF StopInv
<1>2. TaskTypes /\ E!TypeOK /\ HandlerInv
  BY <1>1, SameExecutor DEF IInv, ExecutorInv, OwnInv
<1>3. target[t] = h /\ event[t] = "stopped" /\ phase[t] # "ended" /\ handler[t] # "leave"
  BY DEF Stops
<1>4. ASSUME target'[t] = target[t], event'[t] = event[t], phase'[t] # "ended",
             handler'[t] = handler[t]
      PROVE  Stops(t, h)'
  BY <1>3, <1>4 DEF Stops
<1>5. UNCHANGED taskVars => Stops(t, h)'
  BY DEF Stops, taskVars, executorVars
<1>6. CASE LoopStep
  <2>1. ASSUME NEW g \in Torrent, NEW u \in Task, Dispatch(g, u) PROVE Stops(t, h)'
    <3>1. t # u
      BY <1>3, <2>1 DEF Dispatch, E!Spawn, E!Free, E!Unfinished
    <3> QED
      BY <1>2, <1>3, <1>4, <2>1, <3>1 DEF Dispatch, E!Spawn, E!TypeOK, TaskTypes
  <2>2. CASE Submit
    <3>1. /\ target' = target /\ event' = event /\ handler' = handler
          /\ phase'[t] = phase[t] \/ phase'[t] = "ended"
      BY <1>2, <2>2, AbortEndsOnly DEF Submit, E!Submit
    <3> QED
      BY <1>3, <1>4, <2>2, <3>1 DEF Superseded
  <2> QED
    BY <1>5, <1>6, <2>1, <2>2 DEF LoopStep, Tick, Skip
<1>7. CASE CallerStep
  BY <1>1, <1>5, <1>7 DEF CallerStep, SeedNext, Listen, Unlisten, SweepPending, SweepLive,
     BeginAwait, EndAwait, Stopping
<1>8. ASSUME NEW u \in Task, AcquirePermit(u) \/ HandlerStep(u)
      PROVE  \/ Stops(t, h)' \/ pending'[h] = "stopped" \/ \E j \in Actor : Removing(j, h)'
  <2>1. CASE u = t
    BY <1>1, <1>8, <2>1, HandlersSeeStopThrough
  <2>2. CASE u # t
    <3>1. /\ target'[t] = target[t] /\ event'[t] = event[t] /\ phase'[t] = phase[t]
          /\ handler'[t] = handler[t]
      BY <1>2, <1>8, <2>2 DEF AcquirePermit, HandlerStep, Respond, Enqueue, Credit,
         DropWhileStopping, ArchiveTorrent, ReplaceStopped, ReplaceFailed, Leave,
         E!AcquirePermit, E!Respond, E!Leave, E!TypeOK, TaskTypes, executorVars
    <3> QED
      BY <1>3, <1>4, <3>1
  <2> QED
    BY <2>1, <2>2
<1>9. ASSUME NEW a \in Actor, ErrandStep(a) PROVE Stops(t, h)'
  <2>1. CASE Deny(a) /\ running[doing[a].about] # NoTask
    <3>1. /\ target' = target /\ event' = event /\ handler' = handler
          /\ phase'[t] = phase[t] \/ (t = running[doing[a].about] /\ phase'[t] = "ended")
      BY <1>2, <2>1, AbortEndsOnly DEF Deny, E!Deny
    <3>2. ASSUME t = running[doing[a].about] PROVE FALSE
      <4>1. doing[a].kind = "stopped" /\ doing[a].step = "deny"
        BY <2>1 DEF Deny, StopInv, ShapeInv
      <4>2. doing[a].about \in Torrent
        BY <1>1, <4>1 DEF IInv, OwnInv, ErrandInv, WellPlaced
      <4>3. doing[a].about = h
        BY <1>3, <2>1, <3>2, <4>2 DEF RunningInv
      <4>4. StopAt("task", t, h)
        BY DEF StopAt
      <4> QED
        BY <1>1, <4>1, <4>3, <4>4 DEF DeniedInv
    <3> QED
      BY <1>3, <1>4, <3>1, <3>2
  <2>2. CASE UNCHANGED taskVars
    BY <1>5, <2>2
  <2> QED
    BY <1>9, <2>1, <2>2 DEF ErrandStep, Move, FileGone, Notify, Insert, Count, Exclude, Choose,
       NoMoreTorrents, Add, AddFails, EnqueueStart, Remove, Deny, Pull, taskVars
<1>10. CASE UserStep
  BY <1>5, <1>10 DEF UserStep, AnnounceAllNow, BeginStop, MarkCompletedPending, FileEvent
<1> QED
  BY <1>6, <1>7, <1>8, <1>9, <1>10 DEF Next

\* Once a stop is queued, the announce is made and the torrent removed: until the
\* engine stops, only two things can lose it, both of them another announce of the
\* same torrent, one that replaces it in the queue (delay_queue.rs:68-93) and one
\* that aborts its task (announcer_executor.rs:130-136).  Failures, denials and the
\* pool's changes lose none.
THEOREM StopsAreDisplacedOnly ==
    ASSUME LeavesOnce
    PROVE  Spec => [][\A h \in Torrent :
                         ~Stopping' /\ OnItsWay(h)
                         => \/ OnItsWay(h)' \/ \E j \in Actor : Removing(j, h)'
                            \/ ReplacedInQueue(h) \/ Superseded(h)]_vars
<1> DEFINE Inv == StopInv /\ ChainInv /\ DeniedInv
           Kept == \A h \in Torrent :
                      ~Stopping' /\ OnItsWay(h)
                      => \/ OnItsWay(h)' \/ \E j \in Actor : Removing(j, h)'
                         \/ ReplacedInQueue(h) \/ Superseded(h)
<1>1. Init => Inv
  <2>1. Init => ChainInv
    BY DEF Init, ChainInv
  <2>2. Init => DeniedInv
    BY DEF Init, DeniedInv, Idle
  <2> QED
    BY <2>1, <2>2, InitStopInv
<1>2. Inv /\ [Next]_vars => Inv'
  <2>1. Inv /\ [Next]_vars => StopInv' /\ ChainInv'
    BY NextStopInv, ChainKeeps DEF StopInv
  <2>2. Inv /\ Next => DeniedInv'
    BY DeniedKeeps
  <2>3. Inv /\ UNCHANGED vars => DeniedInv'
    BY DEF vars, taskVars, executorVars, poolVars, queueVars, engineVars, DeniedInv, StopAt,
       Stops, Removing, Stopping
  <2> QED
    BY <2>1, <2>2, <2>3
<1>3. Inv /\ WorkInv /\ Next => Kept
  <2> SUFFICES ASSUME Inv, WorkInv, Next, NEW h \in Torrent, ~Stopping', NEW s, NEW i,
                      s \in {"queued", "drained", "task"}, StopAt(s, i, h)
               PROVE  \/ OnItsWay(h)' \/ \E j \in Actor : Removing(j, h)'
                      \/ ReplacedInQueue(h) \/ Superseded(h)
    BY DEF OnItsWay
  <2>1. /\ pending'[h] = "stopped" => OnItsWay(h)'
        /\ ready'[h] = "stopped" => OnItsWay(h)'
        /\ \A t \in Task : Stops(t, h)' => OnItsWay(h)'
    BY DEF OnItsWay, StopAt
  <2>2. CASE s = "queued"
    BY <2>1, <2>2, QueuedStays DEF StopAt, StopInv
  <2>3. CASE s = "drained"
    BY <2>1, <2>3, DrainedStays DEF StopAt
  <2>4. CASE s = "task"
    BY <2>1, <2>4, AnnouncedStays DEF StopAt, WorkInv
  <2> QED
    BY <2>2, <2>3, <2>4
<1>4. Inv /\ WorkInv /\ [Next]_vars => [Kept]_vars
  BY <1>3
<1> QED
  BY <1>1, <1>2, <1>4, WorkHolds, PTL DEF Spec
=============================================================================
