-------------------------- MODULE TorrentDirectory --------------------------
(***************************************************************************)
(* torrent/watcher.rs: the catalogue of .torrent files, the scan at start, *)
(* the operating system's events about the directory, and the archive.     *)
(*                                                                         *)
(* Two actors change the catalogue, each awaiting between its steps: the   *)
(* watcher (the scan, then the task that handles one event at a time) and  *)
(* a caller of move_to_archive_folder().  Users and copying programs       *)
(* change the disk at any time; a file being copied is Partial until it is *)
(* written.  The listener is the orchestrator (orchestrator/client.rs),    *)
(* reduced to the torrents it keeps.  Its refills read the pool, then the  *)
(* catalogue, and add what they were offered after that; it adds what it   *)
(* is told was added, if there is room, and lets go of what it is told was *)
(* removed.                                                                *)
(***************************************************************************)
EXTENDS Integers, Sequences, FiniteSets

CONSTANTS
    Path,         \* names of .torrent files
    Content,      \* torrents a file may hold, by info-hash
    Refill,       \* tasks that run add_torrent_from_directory()
    MaxEvents,    \* capacity of the event channel; 64 in watcher.rs
    MaxChanges    \* changes the users make (bound)

VARIABLES
    disk,         \* [Path -> Content, Partial or Absent]
    mode,         \* off, scanning, on
    unscanned,    \* entries read_dir has still to yield
    events,       \* the watcher's channel
    catalogue,    \* torrent_files: [Path -> Content or Absent]
    doing,        \* [actor -> step, path and torrent it is at]
    listening,    \* the orchestrator's listener is registered
    pool,         \* torrents the orchestrator keeps
    refill,       \* [task -> its step, and the hashes it has at hand]
    changes,      \* history: changes made by users
    missed        \* history: ways in which a change went unnoticed

dirVars == <<disk, mode, unscanned, events, catalogue, doing, listening, pool,
             refill, changes, missed>>

Absent == "absent"
Partial == "partial"

ASSUME DirectoryAssumption ==
    /\ MaxEvents \in Nat \ {0}
    /\ Content \cap {Absent, Partial} = {}

Actor == {"watcher", "archiver"}
NoRefill == [at |-> "rest", hashes |-> {}]
Rest == [at |-> "rest", path |-> Absent, torrent |-> Absent, again |-> FALSE]
FileEvent == [kind : {"create", "modify", "remove"}, path : Path]

DirTypeOK ==
    /\ disk \in [Path -> Content \cup {Partial, Absent}]
    /\ mode \in {"off", "scanning", "on"}
    /\ unscanned \subseteq Path
    /\ events \in Seq(FileEvent) /\ Len(events) <= MaxEvents
    /\ catalogue \in [Path -> Content \cup {Absent}]
    /\ \A a \in Actor : doing[a].at \in {"rest", "drop", "tell", "read", "insert", "hear", "archive"}
    /\ listening \in BOOLEAN
    /\ pool \subseteq Content
    /\ refill \in [Refill -> [at : {"rest", "choose", "add"}, hashes : SUBSET Content]]

DirInit ==
    /\ disk \in [Path -> Content \cup {Absent}]
    /\ mode = "off" /\ unscanned = {} /\ events = <<>>
    /\ catalogue = [p \in Path |-> Absent]
    /\ doing = [a \in Actor |-> Rest]
    /\ listening = FALSE /\ pool = {}
    /\ refill = [r \in Refill |-> NoRefill]
    /\ changes = 0 /\ missed = {}
-----------------------------------------------------------------------------
(* The file system. *)

\* The callback of notify: try_send from the first watch() on.  A change made
\* during the scan, which comes before it, is reported to nobody.
Notified(kind, p) ==
    CASE mode = "on" /\ Len(events) < MaxEvents ->
            events' = Append(events, [kind |-> kind, path |-> p]) /\ UNCHANGED missed
      [] mode = "on" /\ Len(events) = MaxEvents ->
            missed' = missed \cup {"overflow"} /\ UNCHANGED events
      [] mode = "scanning" -> missed' = missed \cup {"gap"} /\ UNCHANGED events
      [] OTHER -> UNCHANGED <<events, missed>>

Edit(p, content, kind) ==
    /\ changes < MaxChanges /\ changes' = changes + 1
    /\ disk' = [disk EXCEPT ![p] = content]
    /\ Notified(kind, p)
    /\ UNCHANGED <<mode, unscanned, catalogue, doing, listening, pool, refill>>

\* A copy begins and ends (a copy archived meanwhile ends in the archive, which
\* nobody reads); a file is moved in, over another, or out; a deletion.
BeginCopy(p) == disk[p] = Absent /\ Edit(p, Partial, "create")
EndCopy(p, t) == disk[p] = Partial /\ Edit(p, t, "modify")
MoveIn(p, t) == disk[p] # t /\ Edit(p, t, "modify")
MoveOut(p) == disk[p] # Absent /\ Edit(p, Absent, "modify")
Delete(p) == disk[p] # Absent /\ Edit(p, Absent, "remove")
-----------------------------------------------------------------------------
(* The provider. *)

StartAt(a, step, p, again) ==
    doing' = [doing EXCEPT ![a] = [at |-> step, path |-> p, torrent |-> Absent, again |-> again]]

\* TorrentFileProvider::start(): the scan comes before the watch.
Start ==
    /\ mode = "off" /\ mode' = "scanning"
    /\ unscanned' = {p \in Path : disk[p] # Absent}
    /\ UNCHANGED <<disk, events, catalogue, doing, listening, pool, refill, changes, missed>>

Scan(p) ==
    /\ mode = "scanning" /\ doing["watcher"] = Rest
    /\ p \in unscanned /\ unscanned' = unscanned \ {p}
    /\ IF disk[p] = Absent THEN UNCHANGED doing ELSE StartAt("watcher", "read", p, FALSE)
    /\ UNCHANGED <<disk, mode, events, catalogue, listening, pool, refill, changes, missed>>

Watch ==
    /\ mode = "scanning" /\ unscanned = {} /\ doing["watcher"] = Rest /\ mode' = "on"
    /\ UNCHANGED <<disk, unscanned, events, catalogue, doing, listening, pool,
                   refill, changes, missed>>

\* stop(): the watch ends, the task is aborted where it awaits, the catalogue
\* is cleared.  The orchestrator, which has stopped before, is gone with it.
Stop ==
    /\ mode = "on" /\ mode' = "off"
    /\ events' = <<>> /\ catalogue' = [p \in Path |-> Absent]
    /\ doing' = [doing EXCEPT !["watcher"] = Rest]
    /\ listening' = FALSE /\ pool' = {} /\ missed' = {}
    /\ refill' = [r \in Refill |-> NoRefill]
    /\ UNCHANGED <<disk, unscanned, changes>>

\* Deliberate mistake: a changed file is read without being dropped first.
SlipFirstStep(kind) == IF kind = "remove" THEN "drop" ELSE "read"

\* handle_event(): on_file_create, on_file_change (delete, then create) or
\* on_file_delete.
FirstStep(kind) == IF kind = "create" THEN "read" ELSE "drop"

HandleEvent ==
    /\ mode = "on" /\ doing["watcher"] = Rest /\ events # <<>>
    /\ events' = Tail(events)
    /\ StartAt("watcher", FirstStep(Head(events).kind), Head(events).path,
               Head(events).kind = "modify")
    /\ UNCHANGED <<disk, mode, unscanned, catalogue, listening, pool, refill, changes, missed>>

\* move_to_archive_folder(): the first path with the info-hash; archive_file()
\* drops it from the catalogue, tells the listener and moves the file.
AskArchive(t) ==
    /\ doing["archiver"] = Rest
    /\ \E p \in Path : catalogue[p] = t /\ disk[p] # Absent /\ StartAt("archiver", "drop", p, FALSE)
    /\ UNCHANGED <<disk, mode, unscanned, events, catalogue, listening, pool,
                   refill, changes, missed>>

\* Where an actor goes once a path is out of the catalogue.
AfterDrop(a) ==
    CASE a = "archiver" -> [doing[a] EXCEPT !.at = "archive", !.torrent = Absent]
      [] doing[a].again -> [doing[a] EXCEPT !.at = "read", !.again = FALSE, !.torrent = Absent]
      [] OTHER -> Rest

\* on_file_delete(): the entry first, the listener after the lock is dropped.
Drop(a) ==
    LET p == doing[a].path IN
    /\ doing[a].at = "drop"
    /\ catalogue' = [catalogue EXCEPT ![p] = Absent]
    /\ doing' = [doing EXCEPT ![a] =
           IF catalogue[p] = Absent THEN AfterDrop(a)
           ELSE [doing[a] EXCEPT !.at = "tell", !.torrent = catalogue[p]]]
    /\ UNCHANGED <<disk, mode, unscanned, events, listening, pool, refill, changes, missed>>

\* Deliberate mistake: only the watcher tells the listener.
SlipHears(a) == listening /\ a = "watcher"

Hears(a) == listening

\* Torrents that are about to be added to the pool, whatever becomes of their
\* files meanwhile: refills have chosen them, or the watcher announces them.
Chosen ==
    {doing[a].torrent : a \in {b \in Actor : doing[b].at = "hear"}}
      \cup (UNION {refill[r].hashes : r \in {s \in Refill : refill[s].at = "add"}})

Tell(a) ==
    /\ doing[a].at = "tell"
    /\ pool' = IF Hears(a) THEN pool \ {doing[a].torrent} ELSE pool
    /\ missed' = missed \cup (IF listening THEN {} ELSE {"unheard"})
                       \cup (IF doing[a].torrent \in Chosen THEN {"chosen"} ELSE {})
    /\ doing' = [doing EXCEPT ![a] = AfterDrop(a)]
    /\ UNCHANGED <<disk, mode, unscanned, events, catalogue, listening, refill, changes>>

\* on_file_create(): MockedTorrent::from_file, the map, then the listener.
Read ==
    LET p == doing["watcher"].path IN
    /\ doing["watcher"].at = "read"
    /\ doing' = [doing EXCEPT !["watcher"] =
           IF disk[p] \in Content THEN [@ EXCEPT !.at = "insert", !.torrent = disk[p]]
                                  ELSE [@ EXCEPT !.at = "archive"]]
    /\ UNCHANGED <<disk, mode, unscanned, events, catalogue, listening, pool,
                   refill, changes, missed>>

Insert ==
    LET p == doing["watcher"].path
        t == doing["watcher"].torrent IN
    /\ doing["watcher"].at = "insert"
    /\ catalogue' = [catalogue EXCEPT ![p] = t]
    /\ missed' = IF catalogue[p] \in {Absent, t} THEN missed ELSE missed \cup {"overwritten"}
    /\ doing' = [doing EXCEPT !["watcher"].at = "hear"]
    /\ UNCHANGED <<disk, mode, unscanned, events, listening, pool, refill, changes>>

\* on_torrent_file_added(), once the lock of the map is dropped: the torrent
\* is added if the pool has room, without another look at the catalogue.
Hear ==
    /\ doing["watcher"].at = "hear"
    /\ \/ listening /\ pool' = pool \cup {doing["watcher"].torrent}
       \/ UNCHANGED pool
    /\ doing' = [doing EXCEPT !["watcher"] = Rest]
    /\ UNCHANGED <<disk, mode, unscanned, events, catalogue, listening, refill,
                   changes, missed>>

\* archive_path(), rename_with_overwrite(): the move, which the watch reports
\* as a change of the path; or nothing, when the file is gone or cannot be
\* moved.
Archive(a) ==
    LET p == doing[a].path IN
    /\ doing[a].at = "archive"
    /\ \/ /\ disk[p] # Absent
          /\ disk' = [disk EXCEPT ![p] = Absent]
          /\ Notified("modify", p)
       \/ /\ missed' = IF disk[p] = Absent THEN missed ELSE missed \cup {"kept"}
          /\ UNCHANGED <<disk, events>>
    /\ doing' = [doing EXCEPT ![a] = Rest]
    /\ UNCHANGED <<mode, unscanned, catalogue, listening, pool, refill, changes>>

\* The orchestrator registers after its first refills.
Listen ==
    /\ mode = "on" /\ ~listening /\ listening' = TRUE
    /\ UNCHANGED <<disk, mode, unscanned, events, catalogue, doing, pool, refill,
                   changes, missed>>

\* add_torrent_from_directory(), of start() and of the detached tasks: the
\* hashes of the pool are read, get_torrent_not_in() is awaited for its lock
\* and may offer nothing, and what it offered is added.
Exclude(r) ==
    /\ mode = "on" /\ refill[r].at = "rest"
    /\ refill' = [refill EXCEPT ![r] = [at |-> "choose", hashes |-> pool]]
    /\ UNCHANGED <<disk, mode, unscanned, events, catalogue, doing, listening, pool,
                   changes, missed>>

Offer(r) ==
    LET offered == {catalogue[p] : p \in Path} \ ({Absent} \cup refill[r].hashes) IN
    /\ refill[r].at = "choose"
    /\ \/ offered = {} /\ refill' = [refill EXCEPT ![r] = NoRefill]
       \/ \E t \in offered : refill' = [refill EXCEPT ![r] = [at |-> "add", hashes |-> {t}]]
    /\ UNCHANGED <<disk, mode, unscanned, events, catalogue, doing, listening, pool,
                   changes, missed>>

AddTorrent(r) ==
    /\ refill[r].at = "add"
    /\ pool' = pool \cup refill[r].hashes
    /\ refill' = [refill EXCEPT ![r] = NoRefill]
    /\ UNCHANGED <<disk, mode, unscanned, events, catalogue, doing, listening,
                   changes, missed>>

DirNext ==
    \/ \E p \in Path : BeginCopy(p) \/ MoveOut(p) \/ Delete(p) \/ Scan(p)
    \/ \E p \in Path, t \in Content : EndCopy(p, t) \/ MoveIn(p, t)
    \/ Start \/ Watch \/ Stop \/ HandleEvent \/ Read \/ Insert \/ Hear \/ Listen
    \/ \E t \in Content : AskArchive(t)
    \/ \E r \in Refill : Exclude(r) \/ Offer(r) \/ AddTorrent(r)
    \/ \E a \in Actor : Drop(a) \/ Tell(a) \/ Archive(a)

DirSpec == DirInit /\ [][DirNext]_dirVars
-----------------------------------------------------------------------------
Settled == mode = "on" /\ events = <<>> /\ \A a \in Actor : doing[a] = Rest

\* Once everything reported has been handled, the catalogue holds the complete
\* files of the directory and nothing else, unless the event channel was full,
\* a file changed between the scan and the watch, or one could not be moved to
\* the archive and "remains in folder".
CatalogueMirrorsDisk ==
    Settled /\ missed \cap {"overflow", "gap", "kept"} = {}
        => \A p \in Path : catalogue[p] = (IF disk[p] \in Content THEN disk[p] ELSE Absent)

\* Once everything reported has been handled, the orchestrator keeps no torrent
\* whose file is gone.  Up to what it is told there are five ways for that to
\* fail and no sixth: a full channel, a change before the watch, a removal
\* before the listener was registered, a Create event for a path that still
\* holds another torrent, which on_file_create() overwrites without a word to
\* the listener, and a removal told while its torrent is chosen and not yet
\* added: no live announcer has it then, and nobody tells again.  (The stop the
\* orchestrator queues when it is told may still be lost: ClientOrchestrator.)
PoolHasFiles ==
    Settled /\ missed = {} => pool \subseteq {catalogue[p] : p \in Path}
=============================================================================
