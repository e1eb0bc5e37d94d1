----------------------------- MODULE Application -----------------------------
(***************************************************************************)
(* The desktop application: main.rs, command.rs and ui/mod.rs of joal-app  *)
(* around seed_manager.rs, config.rs and torrent/state.rs of joal-core.    *)
(*                                                                         *)
(* Three threads of control share an Option<SeedManager> behind a tokio    *)
(* mutex and two bounded channels: the UI draws frames, drains the event   *)
(* bus and the responses, and sends commands without waiting; one handler  *)
(* task takes a command at a time and answers with awaited sends; main     *)
(* stops the engine once the window is closed.  The process may die at any *)
(* step; config.json and torrent_state.json are what it leaves behind.     *)
(*                                                                         *)
(* Engines are numbered in the order they boot.  SeedManager::start_with   *)
(* and stop are one step each: their callers hold the mutex throughout.    *)
(***************************************************************************)
EXTENDS Integers, Sequences, FiniteSets

CONSTANTS
    Torrent,
    Config,      \* configurations the form accepts
    Bootable,    \* those start_with() can start an engine from
    Capacity,    \* of both channels; 32 in main.rs
    Clicks,      \* commands the user sends, besides ApplyConfig
    Stored,      \* contents of torrent_state.json to start from
    MaxSent, MaxBoots, MaxCrashes   \* bounds of the exploration

ASSUME ApplicationAssumption ==
    /\ Bootable \subseteq Config
    /\ Capacity \in Nat \ {0}
    /\ Stored \subseteq SUBSET Torrent

VARIABLES
    phase,      \* of the process: off, window, closing, stopped
    ui,         \* JoalApp, and where it is in its frame
    commands,   \* the channel from the UI
    responses,  \* the channel to the UI
    handler,    \* the command in hand, the step it is at, what it has to say
    locked,     \* the handler holds the mutex on the manager
    manager,    \* Option<SeedManager>: its number and its configuration
    seeding,    \* the engines whose tasks run
    ended,      \* the engines that published GlobalSeedStopped
    config,     \* config.json
    flags,      \* torrent_state.json: the torrents marked initially completed
    memory,     \* the TorrentStateStore in use
    boots       \* engines booted so far

VARIABLES       \* history
    sent, crashes,
    lost,       \* the last ApplyConfig found its channel full
    since,      \* [Torrent -> values asked for since the last one acknowledged]
    restart     \* a Start or ApplyConfig was waiting when the window closed

process == <<phase, handler, locked, manager, seeding, ended, boots>>
disk == <<config, flags>>
history == <<sent, crashes, lost, since, restart>>
vars == <<process, ui, commands, responses, disk, memory, history>>

NoEngine == [gen |-> 0]
NoUi == [at |-> "none"]
Kind(k) == [kind |-> k]
Change == [kind : {"mark"}, torrent : Torrent, completed : BOOLEAN]
          \cup [kind : {"delete"}, torrent : Torrent, completed : {FALSE}]
Apply == [kind : {"apply"}, config : Config]
Command == {Kind(k) : k \in {"list", "add", "stop", "start", "announce"}} \cup Change \cup Apply

ASSUME ClicksAssumption == Clicks \subseteq Command

Response == {Kind(k) : k \in {"Stopped", "ConfigApplied", "Error", "ClientList"}}
            \cup [kind : {"Started"}, gen : 1..MaxBoots]
Idle == [at |-> "idle", cmd |-> Kind("none"), say |-> <<>>]
Ui == [at : {"events", "responses", "input"}, running : BOOLEAN, applying : BOOLEAN,
       bus : 1..MaxBoots, heard : BOOLEAN, listed : BOOLEAN, asked : BOOLEAN]

TypeOK ==
    /\ phase \in {"off", "window", "closing", "stopped"}
    /\ IF phase = "window" THEN ui \in Ui ELSE ui = NoUi
    /\ commands \in Seq(Command) /\ Len(commands) <= Capacity
    /\ responses \in Seq(Response) /\ Len(responses) <= Capacity
    /\ handler.at \in {"idle", "save", "lock", "work", "boot", "persist", "release"}
    /\ handler.cmd \in Command \cup {Kind("none")}
    /\ handler.say \in Seq(Response)
    /\ locked \in BOOLEAN
    /\ manager \in {NoEngine} \cup [gen : 1..MaxBoots, config : Bootable]
    /\ seeding \subseteq 1..MaxBoots /\ ended \subseteq 1..MaxBoots
    /\ config \in Config /\ flags \subseteq Torrent /\ memory \subseteq Torrent
    /\ boots \in 0..MaxBoots

OnDisk == [t \in Torrent |-> IF t \in flags THEN {TRUE} ELSE {FALSE}]

Init ==
    /\ phase = "off" /\ ui = NoUi
    /\ commands = <<>> /\ responses = <<>>
    /\ handler = Idle /\ locked = FALSE
    /\ manager = NoEngine /\ seeding = {} /\ ended = {} /\ boots = 0
    /\ config \in Config /\ flags \in Stored /\ memory = {}
    /\ sent = 0 /\ crashes = 0 /\ lost = FALSE /\ restart = FALSE
    /\ since = OnDisk
-----------------------------------------------------------------------------
(* The engine under the mutex. *)

\* SeedManager::start_with(): the configuration and the flags are read from
\* disk; a failure on the way leaves nothing the manager could be reached by.
Boot ==
    /\ config \in Bootable /\ boots < MaxBoots
    /\ boots' = boots + 1
    /\ manager' = [gen |-> boots + 1, config |-> config]
    /\ seeding' = seeding \cup {boots + 1}
    /\ memory' = flags

\* Option::take() and SeedManager::stop(), when there is a manager.
Shut ==
    /\ manager' = NoEngine
    /\ seeding' = seeding \ {manager.gen}
    /\ ended' = ended \cup ({manager.gen} \ {0})
    /\ memory' = {}

(* The process. *)

\* main() up to the window: the first boot is not under the handler, and a
\* failure there ends the process.
Launch ==
    /\ phase = "off" /\ phase' = "window"
    /\ Boot
    /\ ui' = [at |-> "events", running |-> TRUE, applying |-> FALSE,
              bus |-> boots', heard |-> FALSE, listed |-> FALSE, asked |-> FALSE]
    /\ UNCHANGED <<commands, responses, handler, locked, ended, disk, history>>

\* run_native returns: the UI is dropped and its channel ends with it.
CloseWindow ==
    /\ phase = "window" /\ ui.at = "input" /\ phase' = "closing"
    /\ ui' = NoUi /\ responses' = <<>>
    /\ restart' = (\/ handler.at \in {"save", "lock"} /\ handler.cmd.kind \in {"start", "apply"}
                   \/ \E i \in DOMAIN commands : commands[i].kind \in {"start", "apply"})
    /\ UNCHANGED <<commands, handler, locked, manager, seeding, ended, boots,
                   disk, memory, sent, crashes, lost, since>>

\* Deliberate mistake: main looks for the manager without waiting for the lock.
SlipMainStops ==
    /\ phase = "closing" /\ phase' = "stopped"
    /\ IF locked THEN UNCHANGED <<seeding, ended>>
       ELSE seeding' = seeding \ {manager.gen} /\ ended' = ended \cup ({manager.gen} \ {0})
    /\ UNCHANGED <<ui, commands, responses, handler, locked, manager, boots,
                   disk, memory, history>>

\* The end of main(): it waits for the mutex and stops what it finds, but
\* leaves it in its place; the handler may go on.
MainStops ==
    /\ phase = "closing" /\ ~locked /\ phase' = "stopped"
    /\ seeding' = seeding \ {manager.gen}
    /\ ended' = ended \cup ({manager.gen} \ {0})
    /\ UNCHANGED <<ui, commands, responses, handler, locked, manager, boots,
                   disk, memory, history>>

\* Everything in memory goes.
Vanish ==
    /\ phase' = "off" /\ ui' = NoUi
    /\ commands' = <<>> /\ responses' = <<>>
    /\ handler' = Idle /\ locked' = FALSE
    /\ manager' = NoEngine /\ seeding' = {} /\ ended' = {} /\ memory' = {}
    /\ since' = OnDisk
    /\ lost' = FALSE /\ restart' = FALSE
    /\ UNCHANGED <<disk, boots, sent>>

\* The runtime is dropped with whatever the handler is doing.
Exit == phase = "stopped" /\ Vanish /\ UNCHANGED crashes

Crash == phase # "off" /\ crashes < MaxCrashes /\ crashes' = crashes + 1 /\ Vanish
-----------------------------------------------------------------------------
(* The UI thread. *)

\* Deliberate mistake: a started engine does not replace the receiver of events.
SlipAttached(gen) == [ui EXCEPT !.running = TRUE]

\* try_send
Offered(queue, cmd) == IF Len(queue) < Capacity THEN Append(queue, cmd) ELSE queue

\* EngineResponse::Started hands over receivers subscribed at the boot.
Attached(gen) == [ui EXCEPT !.running = TRUE, !.bus = gen, !.heard = FALSE]

\* The form of a config panel is freed by any error while it waits.
Heard(r) ==
    CASE r.kind = "ClientList"    -> [ui EXCEPT !.listed = TRUE]
      [] r.kind = "Stopped"       -> [ui EXCEPT !.running = FALSE]
      [] r.kind = "Started"       -> Attached(r.gen)
      [] r.kind = "ConfigApplied" -> [ui EXCEPT !.applying = FALSE]
      [] r.kind = "Error"         -> [ui EXCEPT !.applying = FALSE]

\* GlobalSeedStarted and ConfigLoaded are published before start_with returns,
\* so no receiver of the UI ever holds them.
StopUnheard == ui.bus \in ended /\ ~ui.heard

DrainEvents ==
    /\ phase = "window" /\ ui.at = "events"
    /\ ui' = [ui EXCEPT !.at = "responses", !.heard = @ \/ StopUnheard,
                        !.running = @ /\ ~StopUnheard]
    /\ UNCHANGED <<process, commands, responses, disk, memory, history>>

DrainResponse ==
    /\ phase = "window" /\ ui.at = "responses" /\ responses # <<>>
    /\ ui' = Heard(Head(responses))
    /\ responses' = Tail(responses)
    /\ UNCHANGED <<process, commands, disk, memory, history>>

\* The rest of logic(): the client list is asked for once.
DrainDone ==
    /\ phase = "window" /\ ui.at = "responses" /\ responses = <<>>
    /\ ui' = [ui EXCEPT !.at = "input", !.asked = TRUE]
    /\ commands' = IF ui.asked THEN commands ELSE Offered(commands, Kind("list"))
    /\ UNCHANGED <<process, responses, disk, memory, history>>

\* A click that only sends: what the buttons enable, as the UI sees things.
Click(cmd) ==
    /\ phase = "window" /\ ui.at = "input" /\ sent < MaxSent /\ sent' = sent + 1
    /\ cmd.kind = "stop" => ui.running
    /\ cmd.kind = "start" => ~ui.running
    /\ cmd.kind = "announce" => ui.running
    /\ commands' = Offered(commands, cmd)
    /\ UNCHANGED <<process, ui, responses, disk, memory, crashes, lost, since, restart>>

\* apply_edited_config() with a form that passes: it needs the client list, and
\* the button is disabled while an earlier apply is in progress.
ClickApply(cmd) ==
    /\ phase = "window" /\ ui.at = "input" /\ sent < MaxSent /\ sent' = sent + 1
    /\ ui.listed /\ ~ui.applying
    /\ ui' = [ui EXCEPT !.applying = TRUE]
    /\ commands' = Offered(commands, cmd)
    /\ lost' = (commands' = commands)
    /\ UNCHANGED <<process, responses, disk, memory, crashes, since, restart>>

EndFrame ==
    /\ phase = "window" /\ ui.at = "input"
    /\ ui' = [ui EXCEPT !.at = "events"]
    /\ UNCHANGED <<process, commands, responses, disk, memory, history>>
-----------------------------------------------------------------------------
(* The command handler. *)

At(step) == phase # "off" /\ handler.at = step /\ handler.say = <<>>
Go(step, say) == handler' = [handler EXCEPT !.at = step, !.say = say]
Done(say) == handler' = [Idle EXCEPT !.say = say]
ErrorReply == <<Kind("Error")>>

Take ==
    /\ At("idle") /\ commands # <<>>
    /\ handler' = [at |-> CASE Head(commands).kind = "apply" -> "save"
                            [] Head(commands).kind \in {"list", "add"} -> "work"
                            [] OTHER -> "lock",
                   cmd |-> Head(commands), say |-> <<>>]
    /\ commands' = Tail(commands)
    /\ UNCHANGED <<phase, ui, responses, locked, manager, seeding, ended, boots,
                   disk, memory, history>>

\* Deliberate mistake: the end of the UI is not noticed.
SlipDelivered(r) == Len(responses) < Capacity /\ responses' = Append(responses, r)

\* send_response(): waits for room, unless the UI is gone.
Delivered(r) ==
    IF phase = "window" THEN Len(responses) < Capacity /\ responses' = Append(responses, r)
                        ELSE UNCHANGED responses

Say ==
    /\ phase # "off" /\ handler.say # <<>>
    /\ Delivered(Head(handler.say))
    /\ handler' = [handler EXCEPT !.say = Tail(@)]
    /\ UNCHANGED <<phase, ui, commands, locked, manager, seeding, ended, boots,
                   disk, memory, history>>

\* list_clients(), add_torrent(): no mutex.
ListOrAdd ==
    /\ At("work") /\ handler.cmd.kind \in {"list", "add"}
    /\ \/ Done(ErrorReply)
       \/ Done(IF handler.cmd.kind = "list" THEN <<Kind("ClientList")>> ELSE <<>>)
    /\ UNCHANGED <<phase, ui, commands, responses, locked, manager, seeding, ended,
                   boots, disk, memory, history>>

\* config::save(): a temporary file, then a rename.
Save ==
    /\ At("save")
    /\ \/ config' = handler.cmd.config /\ Go("lock", <<>>)
       \/ UNCHANGED config /\ Done(ErrorReply)
    /\ UNCHANGED <<phase, ui, commands, responses, locked, manager, seeding, ended,
                   boots, flags, memory, history>>

Lock ==
    /\ At("lock") /\ ~locked /\ locked' = TRUE
    /\ Go("work", <<>>)
    /\ UNCHANGED <<phase, ui, commands, responses, manager, seeding, ended,
                   boots, disk, memory, history>>

Release ==
    /\ At("release") /\ locked' = FALSE
    /\ Done(<<>>)
    /\ UNCHANGED <<phase, ui, commands, responses, manager, seeding, ended,
                   boots, disk, memory, history>>

\* Deliberate mistake: the new engine is to replace the old one by assignment.
SlipMakeWay == UNCHANGED <<manager, seeding, ended, memory>> /\ Go("boot", <<>>)

\* apply_config_with_starter() between the lock and the starter.
MakeWay ==
    IF manager = NoEngine
    THEN UNCHANGED <<manager, seeding, ended, memory>> /\ Go("boot", <<>>)
    ELSE Shut /\ Go("boot", <<Kind("Stopped")>>)

\* stop_engine(), the first half of start_engine() and of the restart.
StopOrRestart ==
    /\ At("work")
    /\ \/ handler.cmd.kind = "apply" /\ MakeWay
       \/ /\ handler.cmd.kind = "stop" /\ Go("release", <<Kind("Stopped")>>)
          /\ IF manager = NoEngine THEN UNCHANGED <<manager, seeding, ended, memory>> ELSE Shut
       \/ /\ handler.cmd.kind = "start" /\ UNCHANGED <<manager, seeding, ended, memory>>
          /\ IF manager = NoEngine THEN Go("boot", <<>>) ELSE Go("release", ErrorReply)
    /\ UNCHANGED <<phase, ui, commands, responses, locked, boots, disk, history>>

\* Deliberate mistake: a failed restart is logged only.
SlipFailure == <<>>

Failure == ErrorReply

\* The starter and what follows: start_engine answers under the mutex,
\* apply_config_with_starter after dropping it.
BootEngine ==
    LET applying == handler.cmd.kind = "apply"
        Answer(say) == IF applying THEN Done(say) /\ locked' = FALSE
                                   ELSE Go("release", say) /\ UNCHANGED locked
    IN
    /\ At("boot")
    /\ \/ /\ Boot
          /\ Answer(<<[kind |-> "Started", gen |-> boots']>>
                    \o (IF applying THEN <<Kind("ConfigApplied")>> ELSE <<>>))
       \/ UNCHANGED <<manager, seeding, memory, boots>> /\ Answer(Failure)
    /\ UNCHANGED <<phase, ui, commands, responses, ended, disk, history>>

AnnounceAllNow ==
    /\ At("work") /\ handler.cmd.kind = "announce"
    /\ Go("release", IF manager = NoEngine THEN ErrorReply ELSE <<>>)
    /\ UNCHANGED <<phase, ui, commands, responses, locked, manager, seeding, ended,
                   boots, disk, memory, history>>

\* Deliberate mistake: without an engine the change starts from an empty store.
SlipStore == IF manager = NoEngine THEN {} ELSE memory

\* The store the change is made in: the engine's, or one loaded for the purpose.
Store == IF manager = NoEngine THEN flags ELSE memory

\* set_initial_completed(), forget(): the map in memory first, default flags
\* dropped from it; without an engine the mutex is released before that.
ChangeFlag ==
    LET t == handler.cmd.torrent IN
    /\ At("work") /\ handler.cmd.kind \in {"mark", "delete"}
    /\ IF handler.cmd.kind = "delete" /\ manager = NoEngine
       THEN Go("release", ErrorReply) /\ UNCHANGED <<memory, since, locked>>
       ELSE /\ memory' = IF handler.cmd.completed THEN Store \cup {t} ELSE Store \ {t}
            /\ since' = [since EXCEPT ![t] = @ \cup {handler.cmd.completed}]
            /\ locked' = (manager # NoEngine)
            /\ Go("persist", <<>>)
    /\ UNCHANGED <<phase, ui, commands, responses, manager, seeding, ended, boots,
                   disk, sent, crashes, lost, restart>>

\* persist(): the whole map goes to a temporary file that replaces the old one,
\* or an error is answered and the map in memory keeps the change.
Persist ==
    /\ At("persist")
    /\ \/ /\ flags' = memory /\ Go("release", <<>>)
          /\ since' = [since EXCEPT ![handler.cmd.torrent] = {handler.cmd.completed}]
       \/ UNCHANGED <<flags, since>> /\ Go("release", ErrorReply)
    /\ memory' = IF manager = NoEngine THEN {} ELSE memory
    /\ UNCHANGED <<phase, ui, commands, responses, locked, manager, seeding, ended,
                   boots, config, sent, crashes, lost, restart>>

Handle ==
    \/ Take \/ Say \/ ListOrAdd \/ Save \/ Lock \/ Release
    \/ StopOrRestart \/ BootEngine \/ AnnounceAllNow \/ ChangeFlag \/ Persist

Frame == DrainEvents \/ DrainResponse \/ DrainDone \/ EndFrame

Next ==
    \/ Launch \/ CloseWindow \/ MainStops \/ Exit \/ Crash
    \/ DrainEvents \/ DrainResponse \/ DrainDone \/ EndFrame
    \/ \E cmd \in Clicks : Click(cmd)
    \/ \E cmd \in Apply : ClickApply(cmd)
    \/ Take \/ Say \/ ListOrAdd \/ Save \/ Lock \/ Release
    \/ StopOrRestart \/ BootEngine \/ AnnounceAllNow \/ ChangeFlag \/ Persist

\* The UI repaints at least every second, tokio polls the handler, and main
\* goes on once it holds the mutex, which tokio hands out in turn.
Fairness == WF_vars(Frame) /\ WF_vars(Handle) /\ WF_vars(MainStops) /\ WF_vars(Exit)

Spec == Init /\ [][Next]_vars /\ Fairness
-----------------------------------------------------------------------------
\* When the handler is idle and the UI has drained what it was sent, the UI
\* shows an engine as running exactly if there is one: the receiver of events
\* changes hands with Started, and a stop of the old engine that is drained
\* late must not hide the new one (ui/mod.rs drain_events, drain_responses).
RunningFlagTruthful ==
    phase = "window" /\ handler = Idle /\ responses = <<>> /\ ~StopUnheard
        => ui.running = (manager # NoEngine)

\* No more than the one engine behind the mutex seeds, and it runs what
\* config.json says unless an apply is on its way to restart it.
OneEngineOnSavedConfig ==
    /\ phase = "window" => seeding = {manager.gen} \ {0}
    /\ manager # NoEngine /\ ~(handler.cmd.kind = "apply" /\ handler.at \in {"lock", "work"})
          => manager.config = config

\* Each torrent is marked, or not, as was asked for since the last acknowledged
\* change.
UpToDate(marked) ==
    \A t \in Torrent : IF t \in marked THEN TRUE \in since[t] ELSE FALSE \in since[t]

\* torrent_state.json never holds a value older than the last one acknowledged
\* for a torrent, across failed writes, engine restarts, changes made while no
\* engine runs, deletions and the death of the process (torrent/state.rs: the
\* "checkbox click -> restart flow sees the updated state on the next load").
FlagSurvives == UpToDate(flags)

\* The config panel does not stay disabled: an apply that found room in its
\* channel is answered.
ApplyEnds == (phase = "window" /\ ui.applying /\ ~lost) ~> (phase # "window" \/ ~ui.applying)

\* Once the window is closed the process ends: the handler never waits for a UI
\* that is gone while it holds the mutex main waits for.
ExitReached == phase = "closing" ~> phase = "off"

\* The process leaves no engine running, whose trackers would never hear that
\* it stopped, unless a Start or ApplyConfig was still waiting for its turn
\* when the window closed: the handler may then boot one behind main's back.
CleanExit == [][Exit => seeding = {} \/ restart]_vars
=============================================================================
