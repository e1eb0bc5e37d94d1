------------------------- MODULE AnnouncerExecutor -------------------------
(***************************************************************************)
(* orchestrator/announcer_executor.rs: runs announces as tokio tasks.      *)
(*                                                                         *)
(* execute() spawns a task, and only then takes the `running` lock to      *)
(* record it and to abort the task it displaces: Spawn and Submit.  The    *)
(* task waits for one of the permits (AcquirePermit), awaits the tracker   *)
(* (until Respond), runs the handler chain synchronously and finally       *)
(* removes the `running` entry of its torrent (Leave).                     *)
(*                                                                         *)
(* tokio delivers an abort at an await point only: it ends a task that     *)
(* waits for a permit or for the tracker, releasing its permit, and has no *)
(* effect on one that is inside its handler chain, which has no await.     *)
(*                                                                         *)
(* Task is a finite set of slots standing for the unboundedly many         *)
(* JoinHandles; a slot is reused once nothing refers to its last task.     *)
(***************************************************************************)
EXTENDS Integers, FiniteSets

CONSTANTS
    Torrent,                 \* info-hashes
    Task,                    \* task slots
    NoTask,                  \* "no entry in the map" / "no call in progress"
    MaxConcurrentAnnounces   \* permits of the semaphore

ASSUME ExecutorAssumption ==
    /\ IsFiniteSet(Task)
    /\ NoTask \notin Task
    /\ MaxConcurrentAnnounces \in Nat \ {0}

VARIABLES
    phase,       \* [Task -> Phase]: where the task is
    target,      \* [Task -> Torrent]: the torrent it announces
    running,     \* the `running` map: [Torrent -> Task \cup {NoTask}]
    submitting,  \* the task execute() has spawned and not yet recorded
    permits,     \* permits left in the semaphore
    awaited,     \* the handles await_running_tasks() drained
    closing      \* progress of await_running_tasks()

vars == <<phase, target, running, submitting, permits, awaited, closing>>

Phase == {"ended", "waiting", "announcing", "handling"}

TypeOK ==
    /\ phase \in [Task -> Phase]
    /\ target \in [Task -> Torrent]
    /\ running \in [Torrent -> Task \cup {NoTask}]
    /\ submitting \in Task \cup {NoTask}
    /\ permits \in 0..MaxConcurrentAnnounces
    /\ awaited \in SUBSET Task
    /\ closing \in {"no", "awaiting", "returned", "timedout"}

Init ==
    /\ phase = [t \in Task |-> "ended"]
    /\ target \in [Task -> Torrent]
    /\ \A t, u \in Task : target[t] = target[u]
    /\ running = [h \in Torrent |-> NoTask]
    /\ submitting = NoTask
    /\ permits = MaxConcurrentAnnounces
    /\ awaited = {}
    /\ closing = "no"
-----------------------------------------------------------------------------
Unfinished == {t \in Task : phase[t] # "ended"}
Holders    == {t \in Task : phase[t] \in {"announcing", "handling"}}
Registered == {t \in Task : \E h \in Torrent : running[h] = t}

\* Slots nothing refers to any more.
Free == Task \ (Unfinished \cup Registered \cup awaited \cup {submitting})

\* Slip the runs must notice: an abort that leaks the permit.
AbortLeaking(S) ==
    /\ phase' = [t \in Task |-> IF t \in S /\ phase[t] # "handling"
                               THEN "ended" ELSE phase[t]]
    /\ permits' = permits

\* The effect of JoinHandle::abort on the tasks of S.
Abort(S) ==
    LET hit == {t \in S : phase[t] \in {"waiting", "announcing"}}
    IN  /\ phase' = [t \in Task |-> IF t \in hit THEN "ended" ELSE phase[t]]
        /\ permits' = permits + Cardinality(hit \cap Holders)

\* execute(), up to tokio::spawn.  Only the orchestrator loop, and stop() after
\* it has ended that loop, call execute: the calls never overlap.
Spawn(t, h) ==
    /\ closing = "no"
    /\ submitting = NoTask
    /\ t \in Free
    /\ phase' = [phase EXCEPT ![t] = "waiting"]
    /\ target' = [target EXCEPT ![t] = h]
    /\ submitting' = t
    /\ UNCHANGED <<running, permits, awaited, closing>>

\* Slip: the displaced task is forgotten, not aborted.
SubmitWithoutAbort ==
    /\ submitting # NoTask
    /\ running' = [running EXCEPT ![target[submitting]] = submitting]
    /\ submitting' = NoTask
    /\ UNCHANGED <<phase, target, permits, awaited, closing>>

\* execute(), from the lock on: record the task, abort the one it displaces.
Submit ==
    /\ submitting # NoTask
    /\ LET h == target[submitting]
       IN  /\ Abort({running[h]} \cap Task)
           /\ running' = [running EXCEPT ![h] = submitting]
    /\ submitting' = NoTask
    /\ UNCHANGED <<target, awaited, closing>>

AcquirePermit(t) ==
    /\ phase[t] = "waiting"
    /\ permits > 0
    /\ permits' = permits - 1
    /\ phase' = [phase EXCEPT ![t] = "announcing"]
    /\ UNCHANGED <<target, running, submitting, awaited, closing>>

\* Announcer::announce(event).await is over and the handler chain begins.
Respond(t) ==
    /\ phase[t] = "announcing"
    /\ phase' = [phase EXCEPT ![t] = "handling"]
    /\ UNCHANGED <<target, running, submitting, permits, awaited, closing>>

\* Slip: the permit is forgotten at the end of the task.
LeaveWithPermit(t) ==
    /\ phase[t] = "handling"
    /\ phase' = [phase EXCEPT ![t] = "ended"]
    /\ running' = [running EXCEPT ![target[t]] = NoTask]
    /\ UNCHANGED <<target, submitting, permits, awaited, closing>>

\* running.remove(&key), by key: whatever task the entry names by now.
Leave(t) ==
    /\ phase[t] = "handling"
    /\ phase' = [phase EXCEPT ![t] = "ended"]
    /\ running' = [running EXCEPT ![target[t]] = NoTask]
    /\ permits' = permits + 1
    /\ UNCHANGED <<target, submitting, awaited, closing>>

Deny(h) ==
    /\ running[h] # NoTask
    /\ Abort({running[h]})
    /\ running' = [running EXCEPT ![h] = NoTask]
    /\ UNCHANGED <<target, submitting, awaited, closing>>

DenyAll ==
    /\ Registered # {}
    /\ Abort(Registered)
    /\ running' = [h \in Torrent |-> NoTask]
    /\ UNCHANGED <<target, submitting, awaited, closing>>

\* await_running_tasks(): drain the map, then wait for the drained handles.
BeginAwait ==
    /\ closing = "no"
    /\ submitting = NoTask
    /\ awaited' = Registered
    /\ running' = [h \in Torrent |-> NoTask]
    /\ closing' = "awaiting"
    /\ UNCHANGED <<phase, target, submitting, permits>>

AwaitReturn ==
    /\ closing = "awaiting"
    /\ awaited \cap Unfinished = {}
    /\ closing' = "returned"
    /\ awaited' = {}
    /\ UNCHANGED <<phase, target, running, submitting, permits>>

\* AWAIT_TIMEOUT (10 s) is shorter than the HTTP timeout of one announce (30 s).
\* Dropping a JoinHandle detaches its task: it goes on.
AwaitTimeout ==
    /\ closing = "awaiting"
    /\ awaited \cap Unfinished # {}
    /\ closing' = "timedout"
    /\ awaited' = {}
    /\ UNCHANGED <<phase, target, running, submitting, permits>>

Next ==
    \/ \E t \in Task, h \in Torrent : Spawn(t, h)
    \/ Submit
    \/ \E t \in Task : AcquirePermit(t) \/ Respond(t) \/ Leave(t)
    \/ \E h \in Torrent : Deny(h)
    \/ DenyAll
    \/ BeginAwait \/ AwaitReturn \/ AwaitTimeout

Spec == Init /\ [][Next]_vars

\* execute() has no await between spawn and insert; the semaphore is FIFO, so a
\* waiter is served once permits keep coming back; the HTTP client bounds every
\* request; the handler chain does not block.  Nothing makes a caller spawn,
\* deny or close, and nothing makes the 10 s timeout fire.
Fairness ==
    /\ WF_vars(Submit)
    /\ WF_vars(AwaitReturn)
    /\ \A t \in Task : /\ SF_vars(AcquirePermit(t))
                       /\ WF_vars(Respond(t))
                       /\ WF_vars(Leave(t))

FairSpec == Spec /\ Fairness
-----------------------------------------------------------------------------
\* No permit is lost or made up, however tasks end: by finishing or by an abort
\* while queued, while announcing or too late.  A lost permit would shrink the
\* engine's concurrency for good, an extra one break the limit of at most
\* MAX_CONCURRENT_ANNOUNCES calls of Announcer::announce (lines 27-30).
PermitsConserved ==
    permits + Cardinality(Holders) = MaxConcurrentAnnounces

\* A task drops out of `running` while it can still be aborted, and without
\* being aborted, for two reasons only: shutdown drained the map, or another
\* task of the same torrent ended and removed the entry by key (line 128).
\* That other task is an older one, displaced past the point where it could be
\* aborted, or the newer one when it ends between tokio::spawn and the insert
\* of line 134: then the insert finds nobody to abort.
OrphanedOnlyByAnotherTask ==
    [][\A t \in Task :
        /\ running[target[t]] = t
        /\ phase[t] \in {"waiting", "announcing"}
        /\ phase'[t] # "ended"
        /\ running'[target[t]] # t
        => \/ BeginAwait
           \/ \E u \in Task \ {t} : target[u] = target[t] /\ Leave(u)]_vars

\* Every dispatched announce comes to an end: it never waits for a permit for
\* good, even though tasks are aborted and displaced around it.
EveryAnnounceEnds ==
    \A t \in Task : phase[t] = "waiting" ~> phase[t] = "ended"

\* Shutdown does not hang: await_running_tasks gets every handle it drained
\* back even if its timeout never fires.
AwaitEnds == closing = "awaiting" ~> closing \in {"returned", "timedout"}

\* At most one announce of a torrent talks to the tracker once execute() has
\* returned: "the Rust side must proactively cancel the previous task to avoid
\* double-announces" (announcer_executor.rs:131-133).
NoDoubleAnnounce ==
    submitting = NoTask =>
        \A t, u \in Task :
            phase[t] = "announcing" /\ phase[u] = "announcing"
                /\ target[t] = target[u] => t = u

=============================================================================
