------------------------- MODULE ClientOrchestrator -------------------------
(***************************************************************************)
(* orchestrator/client.rs with the parts it wires together: the pool of    *)
(* live announcers, the delay queue (ReplacingQueue), the executor         *)
(* (AnnouncerExecutor), the response-handler chain and the callbacks of    *)
(* the torrent directory (torrent/watcher.rs).                             *)
(*                                                                         *)
(* Actors: the orchestrator loop; the caller of start() and stop(); one    *)
(* tokio task per announce; the detached tasks the callbacks spawn; the    *)
(* watcher's dispatch task; the merger task; the user.  A step ends where  *)
(* the code releases a lock or awaits; only a test whose answer is used at *)
(* once and the queue insertion that follows it (Notify, Tick) share a     *)
(* step.                                                                   *)
(*                                                                         *)
(* Data left out: a response is one of five outcomes, the consecutive      *)
(* failure counter being part of the choice, and delays are arbitrary (a   *)
(* tick may find any set of requests due).                                 *)
(***************************************************************************)
EXTENDS Integers, FiniteSets

CONSTANTS
    Torrent, Task, NoTask, MaxConcurrentAnnounces,
    NoRequest, NoTorrent,
    Job,            \* slots for detached tokio tasks (bound)
    Seed,           \* app_config.simultaneous_seed
    KeepTorrentWithZeroLeechers,
    Unusable,       \* torrents whose announcer cannot be built
    Outcome,        \* what trackers may answer in this instance
    UserAction      \* what the user may do in this instance

Event == {"started", "regular", "completed", "stopped"}

\* Outcomes that are a success, with or without leechers, and past the ratio.
Success == {"ok", "noPeers", "ratio"}

Engine  == "engine"    \* the caller of start()
Watcher == "watcher"   \* the directory watcher's dispatch task
Merger  == "merger"    \* the snapshot merger, which runs announce-all pokes
Actor   == Job \cup {Engine, Watcher, Merger}

ASSUME OrchestratorAssumption ==
    /\ IsFiniteSet(Torrent) /\ IsFiniteSet(Task)
    /\ NoTask \notin Task
    /\ NoTorrent \notin Torrent
    /\ NoRequest \notin Event
    /\ MaxConcurrentAnnounces \in Nat \ {0}
    /\ Seed \in Nat
    /\ KeepTorrentWithZeroLeechers \in BOOLEAN
    /\ Unusable \subseteq Torrent
    /\ Outcome \subseteq Success \cup {"failed", "tooMany"}
    /\ UserAction \subseteq {"announceAll", "complete", "addFile",
                             "deleteFile", "changeFile", "stop"}

VARIABLES
    \* the executor
    phase, target, running, submitting, permits, awaited, closing,
    event,        \* [Task -> Event]: what the task announces
    outcome,      \* [Task -> answer of the tracker]
    handler,      \* [Task -> next handler of the chain to run]
    \* the orchestrator
    files,        \* torrent_provider.torrent_files
    listening,    \* is the TorrentChangeAdapter registered?
    live,         \* SharedState.announcers
    completedBit, \* live announcers with pending_completed set
    pending,      \* the delay queue
    ready,        \* requests taken out of it and not yet executed
    engine,       \* progress of start() and stop()
    toSeed,       \* iterations left of start()'s seeding loop
    doing,        \* [Actor -> what it is in the middle of]
    credited      \* torrents registered with the bandwidth dispatcher

executorVars == <<phase, target, running, submitting, permits, awaited, closing>>
taskVars     == <<executorVars, event, outcome, handler>>
poolVars     == <<files, listening, live, completedBit>>
queueVars    == <<pending, ready>>
engineVars   == <<engine, toSeed>>
vars == <<taskVars, poolVars, queueVars, engineVars, doing, credited>>

E == INSTANCE AnnouncerExecutor
Q == INSTANCE ReplacingQueue

Stopping == engine \in
    {"stopping", "deaf", "sweepPending", "sweepLive", "awaiting", "stopped"}

Step == {"idle", "move", "notify", "insert", "count", "exclude", "choose", "add",
         "enqueue", "remove", "deny", "pull"}

Kind == {"none", "seed", "archive", "failed", "stopped",
         "created", "deleted", "changed", "announceAll"}

\* What it is about, the torrent it adds, the pool as it read it earlier.
Errand == [kind : Kind, step : Step, about : Torrent \cup {NoTorrent},
           pick : Torrent \cup {NoTorrent}, snapshot : SUBSET Torrent]

Idle == [kind |-> "none", step |-> "idle", about |-> NoTorrent,
         pick |-> NoTorrent, snapshot |-> {}]

IsIdle(a) == doing[a] = Idle

TypeOK ==
    /\ E!TypeOK
    /\ event \in [Task -> Event]
    /\ outcome \in [Task -> Outcome \cup {"none"}]
    /\ handler \in [Task -> {"none", "enqueue", "credit", "notify", "leave"}]
    /\ files \subseteq Torrent
    /\ listening \in BOOLEAN
    /\ live \subseteq Torrent
    /\ completedBit \subseteq live
    /\ Q!TypeOK
    /\ ready \in [Torrent -> Event \cup {NoRequest}]
    /\ engine \in {"seeding", "running", "stopping", "deaf", "sweepPending",
                   "sweepLive", "awaiting", "stopped"}
    /\ toSeed \in 0..Seed
    /\ doing \in [Actor -> Errand]
    /\ credited \subseteq Torrent

Init ==
    /\ E!Init
    /\ event = [t \in Task |-> "started"]
    /\ outcome = [t \in Task |-> "none"]
    /\ handler = [t \in Task |-> "none"]
    /\ files = Torrent
    /\ listening = FALSE
    /\ live = {}
    /\ completedBit = {}
    /\ Q!Init
    /\ ready = [h \in Torrent |-> NoRequest]
    /\ engine = "seeding"
    /\ toSeed = Seed
    /\ doing = [a \in Actor |-> Idle]
    /\ credited = {}
-----------------------------------------------------------------------------
(* Errands: the seeding loop, the detached tasks and the watcher's events  *)
(* are runs through the same few steps.                                    *)

Begin(a, k, s, h) ==
    [doing EXCEPT ![a] = [Idle EXCEPT !.kind = k, !.step = s, !.about = h]]

\* Errand of actor a once it has step s before it.
Advanced(a, s) == IF s = "idle" THEN Idle ELSE [doing[a] EXCEPT !.step = s]

Goto(a, s) == doing' = [doing EXCEPT ![a] = Advanced(a, s)]

AfterRemoval(k) == CASE k = "failed"  -> "exclude"
                     [] k = "changed" -> "insert"
                     [] OTHER         -> "idle"

\* Slip the runs must notice: the stopped torrent is never removed.
AfterRefillIdle(k) == "idle"

AfterRefill(k) == IF k = "stopped" THEN "remove" ELSE "idle"

\* on_file_delete: drop the torrent from the catalogue.  A torrent that is not
\* in the catalogue is nobody's business: the listeners are not called.
Move(a) ==
    /\ doing[a].step = "move"
    /\ files' = files \ {doing[a].about}
    /\ Goto(a, IF doing[a].about \in files THEN "notify"
               ELSE AfterRemoval(doing[a].kind))
    /\ UNCHANGED <<taskVars, listening, live, completedBit, queueVars,
                   engineVars, credited>>

\* archive_file, when the file has just been deleted: left to the watcher.
FileGone(a) ==
    /\ doing[a].step = "move"
    /\ a \in Job /\ "deleteFile" \in UserAction
    /\ Goto(a, AfterRemoval(doing[a].kind))
    /\ UNCHANGED <<taskVars, poolVars, queueVars, engineVars, credited>>

\* on_torrent_file_removed: queue a stop for a live torrent.
Notify(a) ==
    LET h == doing[a].about
    IN  /\ doing[a].step = "notify"
        /\ pending' = IF listening /\ h \in live
                      THEN Q!Replaced(pending, h, "stopped") ELSE pending
        /\ Goto(a, AfterRemoval(doing[a].kind))
        /\ UNCHANGED <<taskVars, poolVars, ready, engineVars, credited>>

\* on_file_create: enter the torrent in the catalogue, read the listeners.
Insert(a) ==
    /\ doing[a].step = "insert"
    /\ files' = files \cup {doing[a].about}
    /\ Goto(a, IF listening THEN "count" ELSE "idle")
    /\ UNCHANGED <<taskVars, listening, live, completedBit, queueVars,
                   engineVars, credited>>

\* on_torrent_file_added, up to the comparison with simultaneous_seed.
Count(a) ==
    /\ doing[a].step = "count"
    /\ doing' = [doing EXCEPT ![a] =
                    IF Stopping \/ Cardinality(live) >= Seed THEN Idle
                    ELSE [@ EXCEPT !.step = "add", !.pick = doing[a].about]]
    /\ UNCHANGED <<taskVars, poolVars, queueVars, engineVars, credited>>

\* add_torrent_from_directory, up to its await: the torrents to avoid...
Exclude(a) ==
    /\ doing[a].step = "exclude"
    /\ doing' = [doing EXCEPT ![a] = [@ EXCEPT !.step = "choose", !.snapshot = live]]
    /\ UNCHANGED <<taskVars, poolVars, queueVars, engineVars, credited>>

\* What get_torrent_not_in may return to a: the map's order is arbitrary.
Candidates(a) == files \ doing[a].snapshot

\* ... then one that is not among them...
Choose(a, h) ==
    /\ doing[a].step = "choose"
    /\ h \in Candidates(a)
    /\ doing' = [doing EXCEPT ![a] =
                    [@ EXCEPT !.step = "add", !.pick = h, !.snapshot = {}]]
    /\ UNCHANGED <<taskVars, poolVars, queueVars, engineVars, credited>>

\* ... or none: an error, on which the seeding loop breaks.
NoMoreTorrents(a) ==
    /\ doing[a].step = "choose"
    /\ Candidates(a) = {}
    /\ toSeed' = IF a = Engine THEN 0 ELSE toSeed
    /\ doing' = [doing EXCEPT ![a] =
                    [Advanced(a, AfterRefill(doing[a].kind)) EXCEPT
                        !.snapshot = {}]]
    /\ UNCHANGED <<taskVars, poolVars, queueVars, engine, credited>>

\* add_torrent: a new announcer takes the place of one of the same torrent.
Add(a) ==
    LET h == doing[a].pick
    IN  /\ doing[a].step = "add"
        /\ h \notin Unusable
        /\ live' = live \cup {h}
        /\ completedBit' = completedBit \ {h}
        /\ Goto(a, "enqueue")
        /\ UNCHANGED <<taskVars, files, listening, queueVars, engineVars, credited>>

\* No announcer can be built for the torrent: a warning, and nothing else.
AddFails(a) ==
    /\ doing[a].step = "add"
    /\ doing[a].pick \in Unusable
    /\ doing' = [doing EXCEPT ![a] =
                    [Advanced(a, AfterRefill(doing[a].kind)) EXCEPT
                        !.pick = NoTorrent]]
    /\ UNCHANGED <<taskVars, poolVars, queueVars, engineVars, credited>>

\* Slip: the first request is a regular one.
EnqueueStartRegular(a) ==
    /\ doing[a].step = "enqueue"
    /\ pending' = Q!Replaced(pending, doing[a].pick, "regular")
    /\ doing' = [doing EXCEPT ![a] =
                    [Advanced(a, AfterRefill(doing[a].kind)) EXCEPT
                        !.pick = NoTorrent]]
    /\ UNCHANGED <<taskVars, poolVars, ready, engineVars, credited>>

\* add_torrent, after the pool's lock: queue the first announce.
EnqueueStart(a) ==
    /\ doing[a].step = "enqueue"
    /\ pending' = Q!Replaced(pending, doing[a].pick, "started")
    /\ doing' = [doing EXCEPT ![a] =
                    [Advanced(a, AfterRefill(doing[a].kind)) EXCEPT
                        !.pick = NoTorrent]]
    /\ UNCHANGED <<taskVars, poolVars, ready, engineVars, credited>>

\* Slip: the bit outlives its announcer.
RemoveKeepingBit(a) ==
    /\ doing[a].step = "remove"
    /\ live' = live \ {doing[a].about}
    /\ Goto(a, "deny")
    /\ UNCHANGED <<taskVars, files, listening, completedBit, queueVars,
                   engineVars, credited>>

\* on_torrent_has_stopped's task, after the refill: remove_announcer...
Remove(a) ==
    /\ doing[a].step = "remove"
    /\ live' = live \ {doing[a].about}
    /\ completedBit' = completedBit \ {doing[a].about}
    /\ Goto(a, "deny")
    /\ UNCHANGED <<taskVars, files, listening, queueVars, engineVars, credited>>

\* ... and executor.deny(), whatever now runs under that info-hash.
Deny(a) ==
    LET h == doing[a].about
    IN  /\ doing[a].step = "deny"
        /\ IF running[h] = NoTask THEN UNCHANGED executorVars ELSE E!Deny(h)
        /\ Goto(a, "idle")
        /\ UNCHANGED <<event, outcome, handler, poolVars, queueVars,
                       engineVars, credited>>

\* announce_all_now: one torrent of its snapshot of the pool after the other.
Pull(a, h) ==
    /\ doing[a].step = "pull"
    /\ h \in doing[a].snapshot
    /\ pending' = Q!Replaced(pending, h, "regular")
    /\ doing' = [doing EXCEPT ![a] =
                    IF @.snapshot = {h} THEN Idle
                    ELSE [@ EXCEPT !.snapshot = doing[a].snapshot \ {h}]]
    /\ UNCHANGED <<taskVars, poolVars, ready, engineVars, credited>>

ErrandStep(a) ==
    \/ Move(a) \/ FileGone(a) \/ Notify(a) \/ Insert(a) \/ Count(a)
    \/ Exclude(a) \/ NoMoreTorrents(a) \/ Add(a) \/ AddFails(a)
    \/ (\E h \in Torrent : Choose(a, h) \/ Pull(a, h))
    \/ EnqueueStart(a) \/ Remove(a) \/ Deny(a)
-----------------------------------------------------------------------------
(* start(), the loop and stop().                                           *)

\* One more turn of start()'s loop over simultaneous_seed.
SeedNext ==
    /\ engine = "seeding" /\ toSeed > 0 /\ IsIdle(Engine)
    /\ toSeed' = toSeed - 1
    /\ doing' = Begin(Engine, "seed", "exclude", NoTorrent)
    /\ UNCHANGED <<taskVars, poolVars, queueVars, engine, credited>>

\* The listener is registered only once the pool is seeded.
Listen ==
    /\ engine = "seeding" /\ toSeed = 0 /\ IsIdle(Engine)
    /\ listening' = TRUE
    /\ engine' = "running"
    /\ UNCHANGED <<taskVars, files, live, completedBit, queueVars, toSeed,
                   doing, credited>>

NothingReady == ready = [h \in Torrent |-> NoRequest]

\* One turn of orchestrator_loop: take the due requests, whichever they are.
Tick(S) ==
    /\ ~Stopping
    /\ NothingReady /\ submitting = NoTask
    /\ S # {} /\ \A h \in S : pending[h] # NoRequest
    /\ ready' = [h \in Torrent |-> IF h \in S THEN pending[h] ELSE NoRequest]
    /\ pending' = Q!Without(pending, S)
    /\ UNCHANGED <<taskVars, poolVars, engineVars, doing, credited>>

\* Slip: shutdown waits for an announcer that has left.
SkipUnlessStopping(h) ==
    /\ ~Stopping
    /\ submitting = NoTask
    /\ ready[h] # NoRequest /\ h \notin live
    /\ ready' = [ready EXCEPT ![h] = NoRequest]
    /\ UNCHANGED <<taskVars, poolVars, pending, engineVars, doing, credited>>

\* execute() of a request whose torrent has no live announcer: skipped.
Skip(h) ==
    /\ submitting = NoTask
    /\ ready[h] # NoRequest /\ h \notin live
    /\ ready' = [ready EXCEPT ![h] = NoRequest]
    /\ UNCHANGED <<taskVars, poolVars, pending, engineVars, doing, credited>>

\* Slip: the bit is taken and the event sent as it was queued.
DispatchUnpromoted(h, t) ==
    /\ ready[h] # NoRequest /\ h \in live
    /\ E!Spawn(t, h)
    /\ event' = [event EXCEPT ![t] = ready[h]]
    /\ completedBit' = IF ready[h] = "regular" THEN completedBit \ {h}
                       ELSE completedBit
    /\ ready' = [ready EXCEPT ![h] = NoRequest]
    /\ UNCHANGED <<outcome, handler, files, listening, live, pending,
                   engineVars, doing, credited>>

\* execute(): a regular announce is promoted to completed if the bit is set,
\* and takes the bit with it.
Dispatch(h, t) ==
    /\ ready[h] # NoRequest /\ h \in live
    /\ E!Spawn(t, h)
    /\ LET promoted == ready[h] = "regular" /\ h \in completedBit
       IN  /\ event' = [event EXCEPT ![t] =
                            IF promoted THEN "completed" ELSE ready[h]]
           /\ completedBit' = IF promoted THEN completedBit \ {h} ELSE completedBit
    /\ ready' = [ready EXCEPT ![h] = NoRequest]
    /\ UNCHANGED <<outcome, handler, files, listening, live, pending,
                   engineVars, doing, credited>>

Submit ==
    /\ E!Submit
    /\ UNCHANGED <<event, outcome, handler, poolVars, queueVars, engineVars,
                   doing, credited>>

\* stop(): set the flag.
BeginStop ==
    /\ "stop" \in UserAction
    /\ engine = "running"
    /\ engine' = "stopping"
    /\ UNCHANGED <<taskVars, poolVars, queueVars, toSeed, doing, credited>>

Unlisten ==
    /\ engine = "stopping"
    /\ listening' = FALSE
    /\ engine' = "deaf"
    /\ UNCHANGED <<taskVars, files, live, completedBit, queueVars, toSeed,
                   doing, credited>>

\* The loop is aborted between two batches; the queue is drained and every
\* request in it but the starts becomes a stop.
SweepPending ==
    /\ engine = "deaf"
    /\ NothingReady /\ submitting = NoTask
    /\ ready' = [h \in Torrent |->
                    IF pending[h] \in {NoRequest, "started"} THEN NoRequest
                    ELSE "stopped"]
    /\ pending' = Q!Without(pending, Torrent)
    /\ engine' = "sweepPending"
    /\ UNCHANGED <<taskVars, poolVars, toSeed, doing, credited>>

\* Another stop for every announcer still live.
SweepLive ==
    /\ engine = "sweepPending"
    /\ NothingReady /\ submitting = NoTask
    /\ ready' = [h \in Torrent |-> IF h \in live THEN "stopped" ELSE NoRequest]
    /\ engine' = "sweepLive"
    /\ UNCHANGED <<taskVars, poolVars, pending, toSeed, doing, credited>>

BeginAwait ==
    /\ engine = "sweepLive"
    /\ NothingReady
    /\ E!BeginAwait
    /\ engine' = "awaiting"
    /\ UNCHANGED <<event, outcome, handler, poolVars, queueVars, toSeed,
                   doing, credited>>

EndAwait ==
    /\ engine = "awaiting"
    /\ E!AwaitReturn \/ E!AwaitTimeout
    /\ engine' = "stopped"
    /\ UNCHANGED <<event, outcome, handler, poolVars, queueVars, toSeed,
                   doing, credited>>

\* The loop, or stop() in its place: take due requests, execute them.
LoopStep ==
    \/ \E S \in SUBSET Torrent : Tick(S)
    \/ \E h \in Torrent : Skip(h) \/ \E t \in Task : Dispatch(h, t)
    \/ Submit

\* start() and stop(), once called.
CallerStep ==
    \/ SeedNext \/ Listen
    \/ Unlisten \/ SweepPending \/ SweepLive \/ BeginAwait \/ EndAwait
-----------------------------------------------------------------------------
(* Announce tasks and the response-handler chain.                          *)

AcquirePermit(t) ==
    /\ E!AcquirePermit(t)
    /\ UNCHANGED <<event, outcome, handler, poolVars, queueVars, engineVars,
                   doing, credited>>

\* Only a regular announce looks at the upload ratio, and only a started or
\* regular one at the number of leechers.
Possible(e) ==
    Outcome \ (CASE e = "regular" -> {}
                 [] e = "started" -> {"ratio"}
                 [] OTHER         -> {"ratio", "noPeers"})

\* Slips: nothing queued when there are no leechers; nothing after a regular
\* announce; a stop that follows every stop.
FollowUpPeersOnly(e, o) ==
    IF e \in {"started", "regular"} /\ o \in {"ok", "ratio"}
    THEN "regular" ELSE NoRequest
FollowUpStartOnly(e, o) ==
    IF e = "started" /\ o \in Success THEN "regular" ELSE NoRequest
FollowUpStopAgain(e, o) ==
    CASE e \in {"started", "regular"} -> "regular"
      [] e = "stopped"                -> "stopped"
      [] OTHER                        -> NoRequest

\* AnnounceReEnqueuer: the event of the next announce, by event and outcome, or
\* NoRequest where it queues nothing, as after every completed announce.
FollowUp(e, o) ==
    CASE e = "started" /\ o \in Success  -> "regular"
      [] e = "started" /\ o = "failed"   -> "started"
      [] e = "regular" /\ o # "tooMany"  -> "regular"
      [] e = "stopped" /\ o = "failed"   -> "stopped"
      [] OTHER                           -> NoRequest

\* BandwidthDispatcherNotifier: registers, or unregisters, the torrent.
Registers(e, o)   == e = "started" /\ o \in Success
Unregisters(e, o) == (e = "stopped" /\ o \in Success) \/ o = "tooMany"

\* ClientNotifier: archives the torrent, or drops its announcer.
Archives(e, o) ==
    \/ e \in {"started", "regular"} /\ o = "noPeers"
          /\ ~KeepTorrentWithZeroLeechers
    \/ e = "regular" /\ o = "ratio"
Drops(e, o) == (e = "stopped" /\ o \in Success) \/ o = "tooMany"

\* The handlers run in this order; one that does nothing is passed over.
AfterCredit(e, o)  == IF Archives(e, o) \/ Drops(e, o) THEN "notify" ELSE "leave"
AfterEnqueue(e, o) == IF Registers(e, o) \/ Unregisters(e, o) THEN "credit"
                      ELSE AfterCredit(e, o)
FirstHandler(e, o) == IF FollowUp(e, o) # NoRequest THEN "enqueue"
                      ELSE AfterEnqueue(e, o)

Respond(t, o) ==
    /\ o \in Possible(event[t])
    /\ E!Respond(t)
    /\ outcome' = [outcome EXCEPT ![t] = o]
    /\ handler' = [handler EXCEPT ![t] = FirstHandler(event[t], o)]
    /\ UNCHANGED <<event, poolVars, queueVars, engineVars, doing, credited>>

Enqueue(t) ==
    /\ handler[t] = "enqueue"
    /\ pending' = Q!Replaced(pending, target[t], FollowUp(event[t], outcome[t]))
    /\ handler' = [handler EXCEPT ![t] = AfterEnqueue(event[t], outcome[t])]
    /\ UNCHANGED <<executorVars, event, outcome, poolVars, ready,
                   engineVars, doing, credited>>

Credit(t) ==
    /\ handler[t] = "credit"
    /\ credited' = IF Registers(event[t], outcome[t])
                   THEN credited \cup {target[t]}
                   ELSE credited \ {target[t]}
    /\ handler' = [handler EXCEPT ![t] = AfterCredit(event[t], outcome[t])]
    /\ UNCHANGED <<executorVars, event, outcome, poolVars, queueVars,
                   engineVars, doing>>

\* on_no_more_peers, on_upload_ratio_limit_reached: spawn_archive.
ArchiveTorrent(t, j) ==
    /\ handler[t] = "notify" /\ IsIdle(j)
    /\ Archives(event[t], outcome[t])
    /\ doing' = Begin(j, "archive", "move", target[t])
    /\ handler' = [handler EXCEPT ![t] = "leave"]
    /\ UNCHANGED <<executorVars, event, outcome, poolVars, queueVars,
                   engineVars, credited>>

\* on_torrent_has_stopped and on_too_many_failed while stopping.
DropWhileStopping(t) ==
    /\ handler[t] = "notify" /\ Stopping
    /\ Drops(event[t], outcome[t])
    /\ live' = live \ {target[t]}
    /\ completedBit' = completedBit \ {target[t]}
    /\ handler' = [handler EXCEPT ![t] = "leave"]
    /\ UNCHANGED <<executorVars, event, outcome, files, listening, queueVars,
                   engineVars, doing, credited>>

\* on_torrent_has_stopped: refill first, remove later.
ReplaceStopped(t, j) ==
    /\ handler[t] = "notify" /\ IsIdle(j) /\ ~Stopping
    /\ event[t] = "stopped" /\ outcome[t] \in Success
    /\ doing' = Begin(j, "stopped", "exclude", target[t])
    /\ handler' = [handler EXCEPT ![t] = "leave"]
    /\ UNCHANGED <<executorVars, event, outcome, poolVars, queueVars,
                   engineVars, credited>>

\* on_too_many_failed: remove now, archive and refill later.
ReplaceFailed(t, j) ==
    /\ handler[t] = "notify" /\ IsIdle(j) /\ ~Stopping
    /\ outcome[t] = "tooMany"
    /\ live' = live \ {target[t]}
    /\ completedBit' = completedBit \ {target[t]}
    /\ doing' = Begin(j, "failed", "move", target[t])
    /\ handler' = [handler EXCEPT ![t] = "leave"]
    /\ UNCHANGED <<executorVars, event, outcome, files, listening, queueVars,
                   engineVars, credited>>

Leave(t) ==
    /\ handler[t] = "leave"
    /\ E!Leave(t)
    /\ handler' = [handler EXCEPT ![t] = "none"]
    /\ outcome' = [outcome EXCEPT ![t] = "none"]
    /\ UNCHANGED <<event, poolVars, queueVars, engineVars, doing, credited>>

\* A task once it has its permit.
HandlerStep(t) ==
    \/ \E o \in Outcome : Respond(t, o)
    \/ Enqueue(t) \/ Credit(t)
    \/ DropWhileStopping(t)
    \/ \E j \in Job : ArchiveTorrent(t, j) \/ ReplaceStopped(t, j)
                          \/ ReplaceFailed(t, j)
    \/ Leave(t)
-----------------------------------------------------------------------------
(* The user.                                                               *)

\* announce_all_now: take a snapshot of the pool.
AnnounceAllNow ==
    /\ "announceAll" \in UserAction
    /\ engine = "running" /\ IsIdle(Merger)
    /\ live # {}
    /\ doing' = [doing EXCEPT ![Merger] =
                    [Idle EXCEPT !.kind = "announceAll", !.step = "pull",
                                 !.snapshot = live]]
    /\ UNCHANGED <<taskVars, poolVars, queueVars, engineVars, credited>>

\* The simulated download of a live torrent is over: mark_completed_pending.
MarkCompletedPending(h) ==
    /\ "complete" \in UserAction
    /\ h \in live \cap credited
    /\ completedBit' = completedBit \cup {h}
    /\ UNCHANGED <<taskVars, files, listening, live, queueVars, engineVars,
                   doing, credited>>

\* A .torrent file appears, disappears or is rewritten; the watcher dispatches
\* one event at a time.
FileEvent(h) ==
    /\ IsIdle(Watcher)
    /\ \/ /\ "addFile" \in UserAction /\ h \notin files
          /\ doing' = Begin(Watcher, "created", "insert", h)
       \/ /\ "deleteFile" \in UserAction /\ h \in files
          /\ doing' = Begin(Watcher, "deleted", "move", h)
       \/ /\ "changeFile" \in UserAction /\ h \in files
          /\ doing' = Begin(Watcher, "changed", "move", h)
    /\ UNCHANGED <<taskVars, poolVars, queueVars, engineVars, credited>>

UserStep ==
    \/ AnnounceAllNow
    \/ BeginStop
    \/ \E h \in Torrent : MarkCompletedPending(h) \/ FileEvent(h)

Next ==
    \/ LoopStep
    \/ CallerStep
    \/ \E t \in Task : AcquirePermit(t) \/ HandlerStep(t)
    \/ \E a \in Actor : ErrandStep(a)
    \/ UserStep

Spec == Init /\ [][Next]_vars
\* The loop ticks every second, so a request that stays due is taken sooner or
\* later; every tokio task, detached or not, is polled until it ends.
Fairness ==
    /\ WF_vars(LoopStep) /\ WF_vars(CallerStep)
    /\ \A h \in Torrent : SF_vars(\E S \in SUBSET Torrent : h \in S /\ Tick(S))
    /\ \A a \in Actor : WF_vars(ErrandStep(a))
    /\ \A t \in Task : SF_vars(AcquirePermit(t)) /\ WF_vars(HandlerStep(t))

FairSpec == Spec /\ Fairness
-----------------------------------------------------------------------------
\* Something will announce torrent h again or remove it: a queued or drained
\* request, a task that has yet to queue the next one or to drop the torrent, or
\* an errand about to queue its first announce or to remove it.
HasWork(h) ==
    \/ pending[h] # NoRequest \/ ready[h] # NoRequest
    \/ \E t \in E!Unfinished :
          /\ target[t] = h
          /\ \/ handler[t] \in {"none", "enqueue"}
             \/ handler[t] # "leave" /\ Drops(event[t], outcome[t])
    \/ \E a \in Actor : doing[a].step = "enqueue" /\ doing[a].pick = h
    \/ \E a \in Actor : /\ doing[a].kind = "stopped" /\ doing[a].about = h
                        /\ doing[a].step # "deny"

\* No torrent of the pool is forgotten: each announce feeds the next one
\* (response_handlers.rs:11-13).  A forgotten torrent keeps its place in the pool
\* and is never announced, replaced or stopped.  This is what the comment says,
\* not what the code does: the next property names the steps that break it.
LiveHasWork == ~Stopping => \A h \in live : HasWork(h)

\* Through failures, replaced requests, aborted tasks, files coming and going and
\* downloads completing, two steps only can make the pool forget a torrent: the
\* end of a completed announce, which nothing follows (response_handlers.rs:170),
\* and the deny that ends the removal of an earlier announcer of the same
\* info-hash (client.rs:466-469), when a watcher event, or a refill that chose
\* the torrent before its removal, has put a new announcer in its place meanwhile.
ForgottenOnlyByLateDeny ==
    [][\A h \in live \cap live' :
          HasWork(h) /\ ~HasWork(h)' /\ ~Stopping'
          => \/ \E t \in Task : /\ target[t] = h /\ event[t] = "completed"
                                /\ handler'[t] = "leave"
             \/ \E a \in Actor : Deny(a) /\ doing[a].about = h]_vars

\* The refill of a stopped torrent runs before its removal (client.rs:463-466),
\* so the pool exceeds simultaneous_seed, but only by the torrents on their way
\* out, and only until their task removes them.  A torrent that leaves twice, by a
\* stop and for failing too often, would be replaced twice: see the README.
PoolBound ==
    Cardinality(live) <= Seed + Cardinality(
        {a \in Actor : doing[a].kind = "stopped"
                          /\ doing[a].step \in {"enqueue", "remove"}})

\* stop() ends, whatever tasks, errands and requests it finds.
StopTerminates == engine = "stopping" ~> engine = "stopped"

\* Every torrent of the pool that has a request in the queue is announced sooner
\* or later, or leaves the pool, unless the engine is stopped.
LiveIsAnnounced ==
    \A h \in Torrent :
        h \in live /\ pending[h] # NoRequest
            ~> \/ Stopping \/ h \notin live
               \/ \E t \in Task : phase[t] = "announcing" /\ target[t] = h

=============================================================================
