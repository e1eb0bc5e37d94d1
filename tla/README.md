# Verifying joal

TLA+ models of joal, checked with TLC, and proofs about them checked with TLAPS.
joal keeps a pool of torrents that look like they are being seeded: it announces
each to its tracker with made-up traffic counters. `crates/joal-core` is the engine,
`crates/joal-app` the desktop application around it. Paths below are relative to
`crates/joal-core/src/` unless they start with `app/`, which is
`crates/joal-app/src/`.

## The system

| Component | State | Operations | Interacts through |
|---|---|---|---|
| Delay queue `orchestrator/delay_queue.rs` | deque of (request, release time, seq) | add_or_replace, get_availables, drain_all, remove | called by orchestrator, handlers, merger |
| Executor `orchestrator/announcer_executor.rs` | `running` map, semaphore | execute, deny, deny_all, await_running_tasks, task bodies | spawns one tokio task per announce; the task calls the handler chain |
| Orchestrator `orchestrator/client.rs` | live announcers, stopping flag, listener | start, loop, stop, announce_all_now, mark_completed_pending, callbacks | queue, executor, torrent directory, detached refill tasks |
| Handlers `orchestrator/response_handlers.rs` | none | on_announce_result | queue, bandwidth dispatcher, orchestrator, merger mailbox |
| Torrent directory `torrent/watcher.rs` | catalogue, listeners, event channel | scan, file events, move_to_archive_folder | calls the orchestrator's listener |
| .torrent parsing `bencode.rs` | none | strict and lenient parsers, info-dictionary scanner | torrent directory |
| Bandwidth dispatcher `bandwidth/` | weights, counters, speeds, limits | register, unregister, update_torrent_peers, tick, force_initial_completed | mutex; try_send to the merger mailbox |
| Speed providers `bandwidth/random_speed.rs` | current speed, limits | refresh, step, update_limits | owned by the dispatcher |
| Announcer `announcer/state.rs`, `tracker.rs` | failure counter, pending_completed, URI cursor | announce, mark/take completed | executor, merger |
| Client emulation `client/` | key and peer-id generators, query template | one query per announce | announcer |
| Seed manager and merger `seed_manager.rs` | lifecycle, mailbox, snapshot | start_with, stop, checkbox, announce_all_now | owns everything above |
| State store `torrent/state.rs` | completed marks in memory and in a file | load, set_initial_completed, forget | handlers, seed manager, command handler |
| Configuration `config.rs` | a JSON file | load, validate, save | everything |
| Command handler and shell `app/command.rs`, `app/main.rs` | an optional seed manager behind a mutex | start, stop, apply configuration, change a mark, list, shutdown | two bounded channels to the window |
| Window `app/ui/` | session flags, settings form, table and its cache | frames, clicks | command channel, event bus, snapshots |

What is hard, and what correctness means:

* **Queue.** One request per torrent; nothing due is missed; a newer request wins.
* **Executor.** Aborts reach a task at an await only. Tasks end concurrently with
  the `execute` that displaces them. Permits must be conserved and no task may
  escape the map that aborts and awaits it.
* **Orchestrator.** Removal and refill of a torrent are detached tasks; the pool is
  read before an await and changed after it; requests of several authors replace
  each other in the queue; shutdown runs among all of that. No live torrent may be
  forgotten; the pool keeps its size; each tracker hears started first, stopped
  once, and completed when a download completes.
* **Bandwidth.** Registration is three separate calls that race with others; pokes
  are dropped when the mailbox is full; integer shares must add up.
* **Announcer.** Two announces of a torrent may overlap and share a cursor and a
  failure counter; an abort ends one between two locks. A retry must reach another
  tracker, and a torrent must not be given up before all were tried. What a tracker
  sees of the client must follow the emulated client's refresh policy.
* **Directory.** Files are read while they are being copied, the archiver's own
  renames come back as events, the channel of events drops what does not fit.
* **Files.** A write may fail and the process may die between the temporary file and
  its rename; marks and settings must survive.
* **Application.** Commands and answers cross bounded channels in both directions,
  the handler replaces engines while the window looks at an older one, and the main
  thread stops them behind the handler's back.

The full list is under `hazards` in `PROJECT.json`.

## Modules

* `ReplacingQueue` - the abstract queue: at most one pending request per torrent.
* `DelayQueue` - the sorted deque with its clock; refines `ReplacingQueue`.
* `AnnouncerExecutor` - tasks, permits, the `running` map, aborts, shutdown wait.
* `ClientOrchestrator` - INSTANCEs `AnnouncerExecutor` and `ReplacingQueue` over its
  own variables and adds the pool, the handler chain, the directory's callbacks,
  detached tasks, the announce-all errand of the merger, start and stop.
* `AnnounceHistory` - history variables over the orchestrator: what trackers were told.
* `SpeedBand`, `RandomSpeed` - the arithmetic of one provider, and the provider.
* `BandwidthDispatcher` - weights, split, tick, checkbox, mailbox, merger.
* `RefreshPolicy` - one operator per policy of the key and peer-id generators;
  `AnnounceQuery` - the query template; `Announcer` - announce() over both, the
  cursor, the counter, aborts.
* `Application` - window, command handler, main thread, engine lifecycle, state store
  and its file, crashes.
* `TorrentTable` - rows, filter, order and cache. `ConfigForm` - the settings form and
  config.json. `TorrentDirectory` - disk, events, catalogue, archive. `Bencode` - the
  parsers and the scanner.
* `*Proofs` - the theorems about a module. `MC_*` - instances for TLC. `MC_Parts`
  puts the six small modules that share no state side by side.

Definitions whose comment begins with "Slip" or "Deliberate mistake" are mistakes in
one definition. No specification uses them; each shows that a property notices the
mistake when the definition is replaced by it.

### How actions correspond to code

*One critical section, one action.* The engine's shared state is behind `std`
mutexes that are never held over an await, so the code between two lock releases
or awaits is one step. `execute()` is two: `Spawn` (or `Dispatch`, which also takes
the completed bit) up to `tokio::spawn`, `Submit` from the lock on - the task can
run and even end between them. A handler chain is a step per handler.

*Errands.* The seeding loop, the tasks spawned by callbacks and the watcher's events
run the same few helper functions in different orders. `doing[a]` says where actor
`a` is: `exclude` (read the pool), `choose` (await `get_torrent_not_in`), `add`,
`enqueue`, `remove`, `deny`; `move` and `notify` for a file that goes, `insert` and
`count` for one that comes, `pull` for announce-all. Two tests are merged with the queue insertion that
follows them (`Notify`, and the loop's `Tick` with its drain).

*Outcomes.* `Respond(t, o)` picks one of `ok`, `noPeers`, `ratio`, `failed`,
`tooMany`; the consecutive-failure counter is part of that choice, so the model
allows a first failure to be `tooMany`. `FollowUp`, `Registers`, `Unregisters`,
`Archives` and `Drops` are the match arms of the handlers.

*Time* is a clock in `DelayQueue` only. In the orchestrator any set of pending
requests may be due, so that results hold whatever intervals trackers ask for.

*The dispatcher's mutex* makes each of its methods one action. `finished` is a
history variable; `joining` and `forcing` are the progress of the two callers whose
calls are several (handler chain, checkbox).

*Announcer.* `BuildQuery` is everything up to the await (template, generators, cursor
read); `Succeed`, or `Rotate` and then `CountFailure`, is what comes after it, one
step per lock; `Abort` ends a call in between; `QueryFails` is the early return. Any
event may be asked for at any time, since announce-all replaces whatever is queued.

*Application.* `ui.at` and `handler.at` say where the frame and the command are. The
window's try_send is one action with its loss as an alternative; the handler's
awaited sends are actions that wait for room. `start_with` and `stop` are one step:
their callers hold the mutex all along. `Crash` keeps `config` and `flags`, the two
files. The temporary file never shows: either the rename happened or it did not.

*Directory.* `doing[a]` is the place of the watcher task and of an archiving caller
between two awaits, `refill[r]` that of a refill between its reading of the pool, its
choice and its addition; `Notified` is the operating system's report of a change, lost
when the channel is full. *Form* and *table* are sequential: one action per click.

*Bencode.* The recursive descent is a recursive function on positions. TLC grows a
payload fragment by fragment and compares what the readers make of each.

### Abstractions

Info-hashes, tasks and detached tasks are model values; a finite set of slots stands
for the unboundedly many tasks, and a slot is free once nothing refers to its last
task. In the orchestrator the catalogue is keyed by info-hash; `TorrentDirectory` has
the code's catalogue by path. Weights are integers, not f64. The dispatcher's model
drives its callers freely: the orchestrator's order of calls is not imposed, so late
and repeated calls are included. Random draws of keys and peer ids are taken to
differ. A template is the set of placeholders of each pair. Texts of the table are
ranks, its fingerprint is the tuple of what is hashed (no collisions). Numbers of the
form are integers, the ratio in hundredths. Events that only reach the log, and
response payloads, are left out.

## Runs

Passing runs:

| Run | Bounds | Shows |
|---|---|---|
| `parts` | queue: 3 torrents, delays 0 and 1, 4 insertions; speed: 6 rates, word of 40, reflections up to four bands away; table: 3 snapshots, 2 queries, 2 columns; form: 2 typed fields between openings; directory: 1 path, 2 contents, 1 refill, 2 edits, 2 queued events; bencode: payloads of 6 fragments out of 8 | TypeOK, DrainsTheDueInOrder, ImplementsReplacingQueue; InBand, Gentle, ReflectIsBouncing; CacheFresh; SettingsRoundTrip; CatalogueMirrorsDisk, PoolHasFiles; ReadersAgree |
| `executor` | 2 torrents, 4 tasks, 2 permits, fair | PermitsConserved, OrphanedOnlyByAnotherTask, EveryAnnounceEnds, AwaitEnds |
| `pool_history` | pool of 1 out of 2 torrents, 1 announce at once, 2 detached tasks, archiving at the ratio limit, downloads that complete | PoolBound, FirstAnnounceIsStarted, StoppedSentOnce, CompletionLostOnlyByDisplacement |
| `pool_replace` | pool of 1 out of 2 torrents, one unusable, 1 announce at once, 2 detached tasks, archiving, deleted files, announce-all | ForgottenOnlyByLateDeny |
| `pool_files` | 1 torrent, all file events, downloads that complete | TypeOK, ForgottenOnlyByLateDeny |
| `pool_live` | 1 torrent, failures, deleted files, shutdown, fair | LiveIsAnnounced, StopTerminates |
| `bandwidth` | torrents of 2 and 0 bytes, 3 peer counts, 2 bands, tick of 3/2 s, checkbox, mailbox of 2 | TypeOK, WeightsAddUp, CompletedTakesNoDownload, CreditWithinBudget, DownloadBudgetUsed, CompletionKept |
| `announcer` | torrents with 2, 1 and no usable trackers, 2 calls at once, 3 queries, 3 ticks of time, 9 client profiles, threshold of 2 failures | GivesUpOnlyAfterTryingAll, RetrySeesAnotherTracker, TemplateErrorsShowAtFirstUse, PolicyKept |
| `application` | channels of 1, 3 commands, 3 boots, 1 crash, 2 marks, 1 configuration that boots and 1 that does not, fair | RunningFlagTruthful, OneEngineOnSavedConfig, FlagSurvives, CleanExit, ApplyEnds, ExitReached |

Why the bounds suffice. Three queue entries are the fewest with a front, a middle
and a back, and four insertions let one of them be replaced. An executor race needs
an old task, its successor and a third `execute`: three tasks of one torrent, plus
one of another contending for a permit. The pool's races need two actors over one
torrent, or two torrents over one free place. The walk's bands include width zero, a
width below `StepRatio` and one end saturated; a reflection four bands away bounces
several times, on both sides. Sizes 2 and 0 with per-tick credits of 0 to 3 hit every edge of
`add_downloaded`: untouched, partial, exact, beyond. Two announces at once are the
fewest that overlap on a cursor; three queries are a start, a retry and a stop, and
three ticks pass both the refresh interval and the time to live. A channel of one
message is full as soon as one is waiting; three boots are an engine, its replacement
and the one after a crash. One path is where copies, events and archiving meet; two
contents let it be overwritten; two edits put a file in and take it away, or overwrite
it, around a refill. The theorems about the directory have any number of paths and of
refills; two paths with two refills were also checked apart. Six fragments give a dictionary with two entries, or
one inside another.

Every orchestrator run restricts what trackers answer (`Outcome`) and what users do
(`UserAction`) to one question, because the product of everything is out of reach.
The restrictions matter. `LiveHasWork` does not hold once downloads complete (that is
a finding); `ForgottenOnlyByLateDeny` says exactly how it fails. Two torrents and two
detached tasks are too few for a late deny, so in `pool_replace` no torrent is
forgotten at all; in `pool_files` both exceptions occur. `FirstAnnounceIsStarted`,
`StoppedSentOnce`, `PoolBound` and `CompletionLostOnlyByDisplacement` are checked without
announce-all, file events and shutdown; see "Observed" below for what these do to them,
and "Proofs" for the conditions under which the first three are proved. Two torrents
are also too few for two refills to choose the same one: the second exception of
`CompletionLostOnlyByDisplacement` was met in random walks of three torrents, two
places and three detached tasks, in which nothing else was violated, and the late deny
that follows a refill by retracing one such behaviour. Such walks also showed why
`FirstAnnounceIsStarted` speaks of a torrent's first stay in the pool only. The theorems
about these properties have no such bounds. The liveness run has one torrent: contention between torrents for permits is in `executor`.

`CHECK_DEADLOCK FALSE` is set for the executor, the orchestrator and the application,
which may rightly come to rest (closed, or stopped), and for `parts` and `announcer`,
whose inputs are bounded (`MaxQueries`, `MaxTime`, `MaxCalls`, `MaxEdits`,
`MaxChanges`, `MaxFragments`).

Symmetry is used in safety runs only, for model values that are compared for
equality. The `VIEW`s drop what no guard reads: an ended task's target and event,
the `uploaded` counter, and `left`, which `TypeOK` ties to `downloaded`.

Fairness. `AnnouncerExecutor`: `Submit` follows `Spawn` without an await; tokio polls
every task; the semaphore is first come first served, hence strong fairness of
`AcquirePermit`; the HTTP client times out after 30 s, hence weak fairness of
`Respond`; the handlers do not block. Nothing is assumed of callers or of the 10 s
timeout. `ClientOrchestrator`: the loop ticks every second and takes every request
that stays due, hence strong fairness per torrent of `Tick`; detached tasks are
polled to their end; no user action is fair. `Application`: the window repaints at
least every second, tokio polls the handler, and main goes on once it has the mutex,
which tokio hands out in turn; clicks, closing and crashes are never forced.

Runs that find a violation each contradict a quoted line; see `findings`:

| Run | What happens |
|---|---|
| `executor_double` | an old task removes its successor's `running` entry: two announces of one torrent at once |
| `pool_completed` | a torrent is forgotten after its completed announce |
| `history_stop_lost` | a queued stop is replaced by a regular announce |

Observed while modelling, and visible in the models' behaviours, but not kept as runs:

* `delay_queue.rs:73-74`: `seq` is one more than that of the entry at the back, which
  need not be the highest, so two requests due at one instant may leave in the
  opposite of insertion order.
* `announcer_executor.rs:128`: the task whose entry another one removed is not awaited
  by shutdown either. The other one need not be older: a task whose query cannot be
  built may end before `execute()` records it (134), and the insert then finds no
  predecessor to abort.
* `client.rs:312`: two refills that read the pool at the same time add the same
  torrent; the pool stays one short, and the second announcer replaces the first with
  its completed bit (`CompletionLostOnlyByDisplacement` excepts it).
* `client.rs:466-469`: with three torrents, two places and three detached tasks, a
  refill that chose a torrent before it was removed adds it again, and the deny that
  ends the earlier removal then aborts its announce: it is forgotten although no file
  was put back.
* `client.rs:306-321`: with three torrents, two places and three detached tasks, a refill
  that chose a torrent before it left adds it again, and a regular request left by its
  earlier announcer is drained before the start of the new one is queued: the first
  announce of its second stay is not a start. `FirstAnnounceIsStarted` says nothing of
  a second stay.
* `client.rs:463-495`: a torrent that is dropped for failing too often while its removal
  waits for its refill, or whose file is put back or rewritten and goes once more,
  leaves twice and is replaced twice: with three torrents and one place, two are then
  in the pool and nothing takes one of them out again. `PoolBound` does not hold then.
* `client.rs:464`: a refill queues its start before the stopped torrent leaves, so the
  delay queue may hold more requests than `simultaneousSeed`.
* `client.rs:286`: announce-all replaces a queued start by a regular announce; a
  regular request it queues may also displace the task that carries a completed event
  whose bit is already consumed (`announcer_executor.rs:108`).
* `client.rs:219-235`: shutdown drops a queued start, then stops the same torrent as a
  live one; and it sends two stops where one was queued.
* `dispatcher.rs:169` and 231-232: a full mailbox drops the completion poke, and no
  later poke marks the announcer, contrary to the comment; `CompletionKept` says that
  this is the only way to lose it.
* `dispatcher.rs:295`: a late regular answer gives a weight to a torrent that is not
  registered, and its share of the upload budget goes to nobody.
* `response_handlers.rs:206-214`: a started answer handled after its torrent left the
  pool registers it for good; a checkbox change between the read of the flag and the
  registration is lost.
* `seed_manager.rs:352`: when the state file cannot be written, the store keeps the
  flag and the dispatcher is not told.
* `dispatcher.rs:282`: unchecking does not withdraw the completion poke or bit of the
  earlier check: the next announce is completed, with nothing downloaded.
* `client.rs:172`: a torrent whose file goes between the seeding loop and the
  registration of the listener stays in the pool (`PoolHasFiles` excepts it).
* `client.rs:322`, `torrent/watcher.rs:361`: a torrent chosen by a refill, or about to be
  announced by the watcher, is added whatever became of its file meanwhile. When the
  removal was told before the addition, no announcer had the torrent, and it stays in
  the pool without a file (`PoolHasFiles` excepts it).
* `response_handlers.rs:170`, `announcer_executor.rs:108`: a queued stop can abort the
  waiting task that carries `completed`; `CompletionLostOnlyByDisplacement` says that
  displacements are the only way to lose a completion.
* `app/ui/mod.rs:224`: an ApplyConfig dropped by a full channel leaves the form
  disabled until some error arrives, and any error (`app/ui/mod.rs:212`) enables it
  while an apply is still at work. `ApplyEnds` is about those that were sent.
* `app/main.rs:197`: a Start or ApplyConfig still queued when the window closes may
  boot an engine after main stopped the previous one (`CleanExit` excepts it).
* `seed_manager.rs:178-183`: when something fails after the directory's watcher was
  started, the watcher task is left behind.
* `torrent/state.rs:126`: a change whose write failed stays in memory and reaches the
  file with the next change that is saved.
* `config.rs:126`, `app/ui/config_state.rs:307`: a ratio of NaN or inf passes both
  validations and is written as null, which does not load. `config_state.rs:132`
  shows 0.04 as 0.0, and saving the untouched form then turns it into 0.
* `torrent/watcher.rs:161-205`: a change between the scan and the watch is missed, and
  nothing scans again; 353: a created file replaces the catalogue's entry of that path
  without the listener hearing of the torrent that was there; a file created and read
  before it is complete is archived.
* `announcer/tracker.rs:85`: two failures in flight move the cursor twice, and with two
  trackers the retry is back at the one that failed first.
* `client.rs:281`, `announcer/state.rs:164`: with a template that only a regular announce
  can fill in, the start fails and is queued again, uncounted; announce-all replaces it
  by a regular announce, which is sent, and the stop that follows fails for ever.
  `TemplateErrorsShowAtFirstUse` says that nothing fails for its template once a query
  with an event was built.
* `client/generator/refresh_policy.rs:256`: a stop that has taken its volatile peer id
  and then cannot draw its key, or fill in its template, is retried under another id
  (`PolicyKept` excepts that session).
* `announcer/response.rs:100`: an interval below -2^31 becomes the largest one.

## Proofs

TLAPS proves, for every value of the constants that meets the named assumptions:

* `DelayQueueProofs` - `QueueIsReplacing`, `DrainsInOrder`. The inductive invariant:
  the deque holds one entry per torrent and no entry stands behind one it should
  precede (`Single`, `Sorted`). `RetainedEntries`, `InsertedEntries`, `PartEntries` and
  `DuePrefixStops` say what the sequence operations return; `LossIsRelease` and
  `AdditionReplaces` are the two kinds of step of the abstract map. Ties need no
  care: the theorems hold although `seq` is not unique. Assumes
  `DelayQueueAssumption`.
* `AnnouncerExecutorProofs` - `TypeCorrect`, `PermitBalance`, `ConcurrencyBound`,
  `OrphanCause`. The inductive invariant is `TypeOK` with the permit balance:
  `permits \in 0..MaxConcurrentAnnounces` is not inductive by itself, because only
  the balance tells that a task holding a permit leaves room for its return.
  `AbortKeepsBalance` is the step that matters: what an abort adds to the semaphore
  is the number of holders it ends. Assumes `ExecutorAssumption` (finitely many task
  slots, at least one permit).
* `ClientOrchestratorProofs` - `TypeCorrect`; `UsesTheExecutor` and `UsesTheQueue`, by
  which the theorems about the executor and the abstract queue hold inside the
  engine; `PermitBalance`, which is one of them carried over. The invariant adds to
  the types that an errand about to use a torrent has one (`WellPlaced`) and that a
  task is in its handlers where the chain says so (`HandlerInv`): without the first,
  a late `deny` might be about nothing; without the second, AnnounceReEnqueuer might
  put no event in the queue. The executor's own inductive invariant is used through
  an instance of its proofs. `ForgottenByTwoSteps` needs three more invariants
  (`WorkInv`): a removal goes through the steps of its refill and no others
  (`RemovalInv`); the running map tells the torrents of its tasks (`RunningInv`); and
  a task that `execute()` has spawned and not yet recorded still has work for its
  torrent, or leaves some in the queue, when it makes `execute()` abort the one before
  it (`HandoverInv`). With them the proof follows each kind of work to what takes it
  over: a queued request (`QueuedPersists`, `TickHandsOver`), a drained one
  (`ReadyPersists`), a task (`TaskPersists`, `SubmitHandsOver`).
  `CompletionKeptOrDisplaced` is about `AnnounceHistory`: the completed bit goes over
  to the task that its dispatch spawns (`BitHandedOver`), and a waiting task keeps
  torrent and event until it sends or is aborted (`WaitingStays`).

  The other theorems follow the stop of a torrent. It is in one place at a time: not
  asked for yet (the file is in the catalogue), about to be queued, queued, drained,
  announced, or followed by the removal (`StopAt`). Every step leaves it where it is,
  drops it, or takes it to the next place (`StopGoesOn`), so there is never a second
  one (`OneStop`), its torrent is in the pool until the removal (`StopIsLive`), and no
  torrent is being removed twice (`OneRemoval`); together these are `StopInv`. This
  needs `LeavesOnce`: files are not added or changed while the engine runs, and no
  tracker drives a torrent to its failure limit. Each part is needed, since a file put
  back, or a torrent dropped for failing, makes it leave a second time.
  `PoolIsBounded` counts places: each torrent of the pool is in one that a removal has
  still to free, or in one that was there to fill; an errand between its choice and its
  addition holds a place too, and so does every turn start() has left (`Room`). The
  pool is then at most `Seed` places and the torrents on their way out. `OneFarewell`:
  once a torrent's stop has been announced and has not failed, its only stop is the
  task that announced it or the removal (`FarewellInv`), so no other can be announced;
  shutdown is the exception, and without it the statement is `StoppedSentOnce`
  (`OneFarewellUnlessStopped`). `StopsAreDisplacedOnly` is the converse: a stop that has
  been queued is lost to another request or another announce of its torrent and to
  nothing else. A removal's deny cannot be what aborts it, because after a removal the
  torrent has no stop (`DeniedInv`), and no handler passes it over (`ChainInv`).

  `StartedFirst`: until a torrent has been announced started, what is queued, drained
  or waiting for a permit for it is a start, none of its tasks is past its permit, it
  has no completed bit and nobody is archiving it (`SilentInv`). Its hypothesis `LetsBe` excludes announce-all,
  deletions and changes of files, and shutdown, each of which can queue something else
  for a torrent that was never announced. `NothingForgotten`: with trackers that answer
  or fail for a while, and no deletions and no completed downloads, neither of the two
  steps of `ForgottenByTwoSteps` is ever taken (`CalmInv`), so `LiveHasWork` holds.
  All assume `OrchestratorAssumption`.
* `BandwidthProofs` - of one provider, `SpeedTypeCorrect`, `SpeedInBand` and
  `SpeedIsGentle`: the invariant is type correctness, ordered limits and `InBand`, and
  the two properties rest on `ReflectInBand` (any integer folds into the band) and
  `ReflectIsClose` (from inside the band a fold moves no further than the step).
  `ReflectionIsBouncing` needs no invariant but an argument about a recursive function:
  reflect() gives the same on both sides of a wall (`ReflectBounces`), so it meets the
  recursive equation, and every function that meets it agrees with reflect()
  (`BouncingIsReflect`), by induction on the distance from the lower wall
  (`StrongInduction`, got from the induction over subsets below). Of the
  dispatcher, `DispatcherTypeCorrect`, `TotalIsTheSum`, `NoDownloadOnceCompleted`,
  `CreditStaysWithinBudget`, `DownloadBudgetIsUsed` and `CompletionIsKept`.
  `SubsetInduction` is induction over the subsets of a finite set, got from the
  well-foundedness of the strict subset ordering, because the library's induction
  theorems cannot be instantiated; with it a sum over torrents unfolds (`SumUnfolds`)
  and is ordered term by term (`SumsOrdered`). `SharesFit` then says that integer
  shares amount to no more than the speed they are shares of, and `CreditFits` the same
  of the credit of a tick. The dispatcher's invariant `IInv`: the total is the sum of
  the weights (`WeightInv`), speeds are in their bands (`BandInv`), `left` and
  `downloaded` add up to the size (`CounterInv`), the mailbox is a sequence of pokes
  (`Mail`), the completed flags (`FlagInv`). `QuietInv` says that completed torrents have
  no share of the download budget: a tick either completes a download, and splits again,
  or leaves completed exactly the torrents the first split gave nothing (`TickIsQuiet`).
  `CreditStaysWithinBudget` has the hypothesis `TickFits`, that a tick of the configured
  speed fits in a word. It is needed: past that, each share is cut off by itself and
  their sum may exceed the whole cut off once. Assumes `SpeedBandAssumption`,
  `RateAssumption` and `DispatcherAssumption`; no bound on words, rates or torrents.
* `AnnouncerProofs` - `TemplateErrors`: an announce with an event emits every pair any
  announce emits, and a regular one emits only what all do, so a template that fits the
  one fits all and a template that fits any fits the other. `RetryElsewhere`: the
  invariant `CursorInv` says that a call nobody overlapped finds the cursor where it
  read it, and that a failure remembered with no call in flight left it elsewhere.
  `GivesUpLate`: while a torrent's announces do not overlap, the trackers that failed
  since the last success are the `fails` last positions before the cursor (`TriesInv`),
  so that as many failures as the list is long have met all of it. `PolicyIsKept`: draws
  are numbered, so no query carries a number above the last (`Drawable`), and each
  policy keeps what its promise needs of the generator and of the last query of every
  torrent: that nothing but the shared value was sent (`NeverInv`), that the shared value
  is no older than the queries carrying it (`TimedInv`) and started none of them
  (`StartedInv`), that no torrent's value was another's (`OwnInv`), that an entry
  outlives the session (`SessionInv`) and was not that of the session before
  (`VolatileInv`), that it is at least as fresh as the query (`PersistentInv`). A get()
  whose query fails keeps them (`GetKept`), one whose query is sent keeps them of what
  it has recorded (`GetRecorded`). `SessionInv` leaves out the sessions a stop of which
  has dropped the entry and then failed for its key or its template (`dropped`). Assume
  `AnnouncerAssumption`, `RefreshAssumption`, `ClientsAssumption` and `UrisAssumption`;
  that the flattened and filtered tracker tiers are sequences, which is the last, is
  evaluated by TLC.
* `ApplicationProofs` - `FlagsSurvive`, `OneEngine`, `ExitIsClean`, `WindowIsTruthful`.
  Flags on disk are never stale because the map in memory, from which they are
  rewritten, and what the handler holds while it persists are not (`FlagInv`); one engine
  runs because none is left when the handler is about to boot one (`EngineInv`); an exit
  is clean because only the handler, holding a Start or an ApplyConfig, can boot after
  main took the engine away (`LockInv`, `EndInv`). The window shows what runs because,
  of the answers queued and still to be queued, the last Started is the current
  engine's, or the window is on that engine's bus already, and a Stopped comes after it
  only if that engine ended (`Told` in `ShownInv`; `NumberInv` numbers the engines,
  `MailInv` types the channel). Assume `ApplicationAssumption` and `ClicksAssumption`.
* `UIProofs` - `CacheAlwaysFresh`: the cached rows were computed from SOME table with
  the fingerprint in the key, and the fingerprint tells any two tables apart
  (`CacheInv`). Its hypothesis is that snapshots are sequences of rows.
  `SettingsSurvive`: the file only ever holds a configuration that was checked
  (`Accepted` in `FormInv`), and rounding the ratio keeps it acceptable, and keeps it as
  it is if it has one decimal (`RoundedRatio`, `AcceptedAgain`). Assumes
  `FormAssumption`.
* `TorrentDirectoryProofs` - `DirectoryTypeCorrect`, `CatalogueFollowsDisk`,
  `PoolFollowsDisk`, and `PoolStaysOnDisk` which combines the two. The properties speak
  of settled states; the invariant speaks of all (`MirrorInv`): each path has the right
  entry, or is still to be scanned, or its last event is in the channel, or the watcher
  is at work on it, or the archiver is moving it. It is not enough that some event is
  under way: a "remove" does not read the file and a "create" does not drop the entry,
  so the last event must be one that leads to what is on the disk (`Announced`,
  `OnCourse`). `PoolInv`: a torrent of the pool, or chosen to be added to it, has an
  entry, or somebody is about to tell the listener. Once it is told, the torrent is out
  of the pool for good unless it is chosen at that moment, which is the way that
  `PoolHasFiles` excepts. Assumes `DirectoryAssumption`.

Only model-checked: every liveness property, which the provers cannot reach;
`ReadersAgree`, a statement about what recursive functions compute from every payload;
the type invariant of `MC_Parts`, which only puts together those of its parts, proved
where a part has one to prove.

## Not modelled

* Text generation of the emulated clients: patterns of keys and peer ids, casing, URL
  encoding; the choice of the newest .client file; HTTP and the wire format of
  responses. Sequential conversions without state.
* The digest of the info dictionary and the fields MockedTorrent takes from it.
* Drawing: layout, theme, texts, the log list, the chart.
* The IP refresher, which is never spawned, and `delete_current_and_move_to_next`,
  which nothing calls.
* The snapshot the merger assembles from the other components' getters.
* f64 rounding in the weights, collisions of the table's 64-bit fingerprint.
* start and stop of the bandwidth tick task on their own: they belong to an engine's
  start and stop, which `Application` takes as one step.

## Where to go next

1. The composition of `TorrentDirectory` with `ClientOrchestrator`, which share the
   interface of the listener but are checked apart.
