----------------------- MODULE TorrentDirectoryProofs -----------------------
(***************************************************************************)
(* The catalogue and the pool follow the disk, for any paths, torrents and *)
(* channel, and any number of changes.                                     *)
(*                                                                         *)
(* Neither property is inductive, both speak of settled states only.  What *)
(* is kept for every path is that its entry is right, or that something is *)
(* under way that will put it right: the scan has still to come to it, its *)
(* last event is in the channel, or an actor is at work on it.  The event  *)
(* matters: a "remove" will not read the file and a "create" will not drop *)
(* the entry, so each must be the last word on its path.                   *)
(***************************************************************************)
EXTENDS TorrentDirectory, TLAPS

Job == [at : {"rest", "drop", "tell", "read", "insert", "hear", "archive"},
        path : Path \cup {Absent}, torrent : Content \cup {Absent}, again : BOOLEAN]

Typed ==
    /\ disk \in [Path -> Content \cup {Partial, Absent}]
    /\ mode \in {"off", "scanning", "on"}
    /\ unscanned \subseteq Path
    /\ events \in Seq(FileEvent) /\ Len(events) <= MaxEvents
    /\ catalogue \in [Path -> Content \cup {Absent}]
    /\ doing \in [Actor -> Job]
    /\ listening \in BOOLEAN
    /\ pool \subseteq Content
    /\ refill \in [Refill -> [at : {"rest", "choose", "add"}, hashes : SUBSET Content]]

\* An actor that is not at rest is at work on a path.
JobInv ==
    /\ \A a \in Actor :
          /\ doing[a] # Rest => doing[a].at # "rest" /\ doing[a].path \in Path
          /\ doing[a].at \in {"insert", "hear"} => doing[a].torrent \in Content
    /\ doing["archiver"].at \in {"rest", "drop", "tell", "archive"}
    /\ ~doing["archiver"].again

\* What it does last, telling of an addition, leaves disk and entry alone.
AtWork(p) ==
    doing["watcher"] # Rest /\ doing["watcher"].at # "hear" /\ doing["watcher"].path = p

\* What can be going on before, during and after the scan.
PhaseInv ==
    /\ mode # "on" => events = <<>> /\ \A r \in Refill : refill[r] = NoRefill
    /\ mode # "scanning" => unscanned = {}
    /\ mode = "off" => /\ doing["watcher"] = Rest
                       /\ catalogue = [p \in Path |-> Absent]
                       /\ pool = {}
    /\ mode = "scanning" => doing["watcher"].at \in {"rest", "read", "insert", "hear", "archive"}
    /\ \A p \in unscanned : catalogue[p] = Absent /\ ~AtWork(p)
    /\ doing["watcher"].at = "tell" => catalogue[doing["watcher"].path] = Absent

Excused == missed \cap {"overflow", "gap", "kept"} # {}

Right(p) == catalogue[p] = IF disk[p] \in Content THEN disk[p] ELSE Absent

\* The last event about the path is in the channel, and leads to the disk.
Announced(p) ==
    \E i \in DOMAIN events :
        /\ events[i].path = p
        /\ \A j \in DOMAIN events : j > i => events[j].path # p
        /\ events[i].kind = "remove" => disk[p] = Absent
        /\ events[i].kind = "create" => disk[p] = Partial

\* What the watcher is at will leave its path right, or another event will.
OnCourse(p) ==
    LET w == doing["watcher"] IN
    \/ Announced(p)
    \/ w.at \in {"drop", "tell"} /\ (w.again \/ disk[p] = Absent)
    \/ w.at = "read" /\ (disk[p] = Partial \/ catalogue[p] = Absent)
    \/ w.at = "insert" /\ disk[p] = w.torrent
    \/ w.at = "archive" /\ (disk[p] = Partial \/ (disk[p] = Absent /\ catalogue[p] = Absent))

\* The archiver has taken the path out and is about to move the file.
Leaving(p) ==
    LET a == doing["archiver"] IN
    a.path = p /\ a.at \in {"tell", "archive"} /\ catalogue[p] = Absent

Followed(p) == Right(p) \/ p \in unscanned \/ Announced(p) \/ AtWork(p) \/ Leaving(p)

\* A path with an event in the channel is announced.
Heard == \A i \in DOMAIN events : \A p \in Path : events[i].path = p => Announced(p)

Mirrored == Heard /\ \A p \in Path : Followed(p) /\ (AtWork(p) => OnCourse(p))

MirrorInv == mode # "off" /\ ~Excused => Mirrored

\* A torrent of the pool, or one about to be added to it, is in the catalogue,
\* or an actor is about to say that it is gone.
PoolInv ==
    missed \cap {"unheard", "overwritten", "chosen"} = {} =>
        \A t \in pool \cup Chosen :
            \/ \E p \in Path : catalogue[p] = t
            \/ \E a \in Actor : doing[a].at = "tell" /\ doing[a].torrent = t

IInv == Typed /\ JobInv /\ PhaseInv /\ MirrorInv /\ PoolInv
-----------------------------------------------------------------------------
LEMMA InitIInv == DirInit => IInv
<1>. SUFFICES ASSUME DirInit PROVE IInv
  OBVIOUS
<1>1. Typed
  <2>1. events = <<>> /\ events \in Seq(FileEvent) /\ Len(events) <= MaxEvents
    BY DirectoryAssumption DEF DirInit
  <2>2. doing \in [Actor -> Job]
    BY DEF DirInit, Job, Rest
  <2>3. NoRefill \in [at : {"rest", "choose", "add"}, hashes : SUBSET Content]
    BY DEF NoRefill
  <2>. QED  BY <2>1, <2>2, <2>3 DEF DirInit, Typed
<1>2. JobInv
  BY DEF DirInit, JobInv, Rest, Actor
<1>3. PhaseInv
  BY DEF DirInit, PhaseInv, Rest, Actor
<1>4. MirrorInv /\ PoolInv
  <2>1. Chosen = {}
    BY DEF DirInit, Chosen, NoRefill, Rest, Actor
  <2>. QED  BY <2>1 DEF DirInit, MirrorInv, PoolInv
<1>. QED  BY <1>1, <1>2, <1>3, <1>4 DEF IInv

\* A step of the file system or of the archive is reported, or excused.
LEMMA NotifiedTyped ==
    ASSUME Typed, NEW kind \in {"create", "modify", "remove"}, NEW p \in Path,
           Notified(kind, p)
    PROVE  /\ events' \in Seq(FileEvent) /\ Len(events') <= MaxEvents
           /\ missed \subseteq missed'
           /\ mode # "on" => events' = events
           /\ \/ mode = "off" /\ events' = events /\ missed' = missed
              \/ mode # "off" /\ Excused'
              \/ mode = "on" /\ events' = Append(events, [kind |-> kind, path |-> p])
                 /\ missed' = missed
<1>1. /\ events \in Seq(FileEvent) /\ Len(events) \in Nat /\ Len(events) <= MaxEvents
      /\ MaxEvents \in Nat /\ mode \in {"off", "scanning", "on"}
  BY DirectoryAssumption DEF Typed
<1>2. CASE mode = "on" /\ Len(events) < MaxEvents
  <2> DEFINE e == [kind |-> kind, path |-> p]
  <2>1. events' = Append(events, e) /\ missed' = missed
    BY <1>2 DEF Notified
  <2>2. e \in FileEvent
    BY DEF FileEvent
  <2>. HIDE DEF e
  <2>3. events' \in Seq(FileEvent) /\ Len(events') = Len(events) + 1
    BY <1>1, <2>1, <2>2
  <2>. QED  BY <1>1, <1>2, <2>1, <2>3 DEF e
<1>3. CASE mode = "on" /\ Len(events) = MaxEvents
  BY <1>1, <1>3 DEF Notified, Excused
<1>4. CASE mode = "scanning"
  BY <1>1, <1>4 DEF Notified, Excused
<1>5. CASE mode = "off"
  BY <1>1, <1>5 DEF Notified
<1>. QED  BY <1>1, <1>2, <1>3, <1>4, <1>5
-----------------------------------------------------------------------------
(* Types, jobs and phases. *)

\* What a change to the file of p does, whoever makes it.
Changed(p) == \E kind \in {"create", "modify", "remove"} :
    /\ disk' \in [Path -> Content \cup {Partial, Absent}]
    /\ \A q \in Path : q # p => disk'[q] = disk[q]
    /\ kind = "remove" => disk'[p] = Absent
    /\ kind = "create" => disk'[p] = Partial
    /\ Notified(kind, p)

LEMMA EditChanges ==
    ASSUME Typed, NEW p \in Path,
           \/ BeginCopy(p) \/ MoveOut(p) \/ Delete(p)
           \/ \E t \in Content : EndCopy(p, t) \/ MoveIn(p, t)
    PROVE  /\ Changed(p)
           /\ UNCHANGED <<mode, unscanned, catalogue, doing, listening, pool, refill>>
<1>1. ASSUME NEW v \in Content \cup {Partial, Absent},
             NEW kind \in {"create", "modify", "remove"},
             kind = "remove" => v = Absent, kind = "create" => v = Partial,
             Edit(p, v, kind)
      PROVE  /\ Changed(p)
             /\ UNCHANGED <<mode, unscanned, catalogue, doing, listening, pool, refill>>
  <2>1. disk' = [disk EXCEPT ![p] = v] /\ Notified(kind, p)
    BY <1>1 DEF Edit
  <2>2. /\ disk' \in [Path -> Content \cup {Partial, Absent}] /\ disk'[p] = v
        /\ \A q \in Path : q # p => disk'[q] = disk[q]
    BY <2>1 DEF Typed
  <2>. QED  BY <1>1, <2>1, <2>2 DEF Edit, Changed
<1>. QED  BY <1>1 DEF BeginCopy, MoveOut, Delete, EndCopy, MoveIn

\* The archive: the file goes, or stays where it is.
LEMMA ArchiveMoves ==
    ASSUME Typed, JobInv, NEW a \in Actor, Archive(a)
    PROVE  /\ doing[a].at = "archive" /\ doing[a].path \in Path
           /\ doing' = [doing EXCEPT ![a] = Rest]
           /\ UNCHANGED <<mode, unscanned, catalogue, listening, pool, refill>>
           /\ \/ Changed(doing[a].path) /\ disk'[doing[a].path] = Absent
              \/ /\ UNCHANGED <<disk, events>> /\ missed \subseteq missed'
                 /\ Excused' \/ (disk[doing[a].path] = Absent /\ missed' = missed)
<1> DEFINE p == doing[a].path
<1>1. /\ doing[a].at = "archive" /\ doing' = [doing EXCEPT ![a] = Rest]
      /\ UNCHANGED <<mode, unscanned, catalogue, listening, pool, refill>>
  BY DEF Archive
<1>2. \/ /\ disk' = [disk EXCEPT ![p] = Absent]
         /\ Notified("modify", p)
      \/ /\ missed' = IF disk[p] = Absent THEN missed ELSE missed \cup {"kept"}
         /\ UNCHANGED <<disk, events>>
  BY DEF Archive
<1>3. p \in Path
  BY <1>1 DEF JobInv, Rest
<1>. HIDE DEF p
<1>4. \/ Changed(p) /\ disk'[p] = Absent
      \/ /\ UNCHANGED <<disk, events>> /\ missed \subseteq missed'
         /\ Excused' \/ (disk[p] = Absent /\ missed' = missed)
  <2>1. CASE disk' = [disk EXCEPT ![p] = Absent] /\ Notified("modify", p)
    <3>1. /\ disk' \in [Path -> Content \cup {Partial, Absent}] /\ disk'[p] = Absent
          /\ \A q \in Path : q # p => disk'[q] = disk[q]
      BY <1>3, <2>1 DEF Typed
    <3>. QED  BY <2>1, <3>1 DEF Changed
  <2>2. CASE /\ missed' = IF disk[p] = Absent THEN missed ELSE missed \cup {"kept"}
             /\ UNCHANGED <<disk, events>>
    BY <2>2 DEF Excused
  <2>. QED  BY <1>2, <2>1, <2>2
<1>. QED  BY <1>1, <1>3, <1>4 DEF p

LEMMA ChangedTyped ==
    ASSUME Typed, NEW p \in Path, Changed(p)
    PROVE  /\ disk' \in [Path -> Content \cup {Partial, Absent}]
           /\ events' \in Seq(FileEvent) /\ Len(events') <= MaxEvents
           /\ missed \subseteq missed'
           /\ mode # "on" => events' = events
<1>1. PICK kind \in {"create", "modify", "remove"} :
        disk' \in [Path -> Content \cup {Partial, Absent}] /\ Notified(kind, p)
  BY DEF Changed
<1>. QED  BY <1>1, NotifiedTyped

\* A job that is begun, or carried on.
LEMMA JobTyped ==
    /\ Rest \in Job
    /\ \A j \in Job : \A at \in {"rest", "drop", "tell", "read", "insert", "hear", "archive"} :
         \A t \in Content \cup {Absent} :
            /\ [j EXCEPT !.at = at, !.torrent = t] \in Job
            /\ [j EXCEPT !.at = at, !.torrent = t, !.again = FALSE] \in Job
            /\ [j EXCEPT !.at = at] \in Job
BY ZenonT(60) DEF Job, Rest

\* A refill moves on: it has excluded the pool, holds a torrent of the catalogue,
\* or is done, and then the pool may have what it held.
LEMMA RefillSteps ==
    ASSUME Typed, NEW r \in Refill, Exclude(r) \/ Offer(r) \/ AddTorrent(r)
    PROVE  /\ UNCHANGED <<disk, mode, unscanned, events, catalogue, doing, listening, missed>>
           /\ refill' \in [Refill -> [at : {"rest", "choose", "add"}, hashes : SUBSET Content]]
           /\ pool' \subseteq Content
           /\ pool' \subseteq pool \cup Chosen
           /\ Chosen' \subseteq Chosen \cup {catalogue[p] : p \in Path}
           /\ mode = "on" \/ refill[r].at # "rest"
<1> DEFINE Step == [at : {"rest", "choose", "add"}, hashes : SUBSET Content]
<1>1. /\ refill \in [Refill -> Step] /\ pool \subseteq Content
      /\ catalogue \in [Path -> Content \cup {Absent}] /\ Absent \notin Content
  BY DirectoryAssumption DEF Typed
<1>2. /\ UNCHANGED <<disk, mode, unscanned, events, catalogue, doing, listening, missed>>
      /\ mode = "on" \/ refill[r].at # "rest"
  BY DEF Exclude, Offer, AddTorrent
<1>3. ASSUME NEW j \in Step, refill' = [refill EXCEPT ![r] = j],
             j.at = "add" => j.hashes \subseteq {catalogue[p] : p \in Path}
      PROVE  /\ refill' \in [Refill -> Step]
             /\ Chosen' \subseteq Chosen \cup {catalogue[p] : p \in Path}
  <2>1. /\ refill' \in [Refill -> Step] /\ refill'[r] = j
        /\ \A s \in Refill : s # r => refill'[s] = refill[s]
    BY <1>1, <1>3
  <2>. HIDE DEF Step
  <2>2. ASSUME NEW t \in Chosen' PROVE t \in Chosen \cup {catalogue[p] : p \in Path}
    <3>1. CASE \E s \in Refill : refill'[s].at = "add" /\ t \in refill'[s].hashes
      BY <1>3, <2>1, <3>1 DEF Chosen
    <3>2. CASE \E a \in Actor : doing'[a].at = "hear" /\ doing'[a].torrent = t
      BY <1>2, <3>2 DEF Chosen
    <3>. QED  BY <2>2, <3>1, <3>2 DEF Chosen
  <2>. QED  BY <2>1, <2>2
<1>4. CASE Exclude(r)
  <2> DEFINE j == [at |-> "choose", hashes |-> pool]
  <2>1. j \in Step /\ j.at # "add" /\ refill' = [refill EXCEPT ![r] = j] /\ pool' = pool
    BY <1>1, <1>4 DEF Exclude
  <2>. HIDE DEF j
  <2>. QED  BY <1>1, <1>2, <1>3, <2>1
<1>5. CASE Offer(r)
  <2> DEFINE offered == {catalogue[p] : p \in Path} \ ({Absent} \cup refill[r].hashes)
  <2>1. pool' = pool
    BY <1>5 DEF Offer
  <2>2. CASE refill' = [refill EXCEPT ![r] = NoRefill]
    <3>1. NoRefill \in Step /\ NoRefill.at # "add"
      BY DEF NoRefill
    <3>. QED  BY <1>1, <1>2, <1>3, <2>1, <2>2, <3>1
  <2>3. ASSUME NEW t \in offered, refill' = [refill EXCEPT ![r] = [at |-> "add", hashes |-> {t}]]
        PROVE  /\ refill' \in [Refill -> Step]
               /\ Chosen' \subseteq Chosen \cup {catalogue[p] : p \in Path}
    <3> DEFINE j == [at |-> "add", hashes |-> {t}]
    <3>1. t \in Content /\ t \in {catalogue[p] : p \in Path}
      BY <1>1
    <3>2. j \in Step /\ j.hashes \subseteq {catalogue[p] : p \in Path}
      BY <3>1
    <3>. HIDE DEF j, Step
    <3>. QED  BY <1>3, <2>3, <3>2 DEF j
  <2>. QED  BY <1>1, <1>2, <1>5, <2>1, <2>2, <2>3 DEF Offer
<1>6. CASE AddTorrent(r)
  <2>1. /\ refill' = [refill EXCEPT ![r] = NoRefill] /\ refill[r].at = "add"
        /\ pool' = pool \cup refill[r].hashes
    BY <1>6 DEF AddTorrent
  <2>2. NoRefill \in Step /\ NoRefill.at # "add"
    BY DEF NoRefill
  <2>3. refill[r].hashes \subseteq Content /\ refill[r].hashes \subseteq Chosen
    BY <1>1, <2>1 DEF Chosen
  <2>. QED  BY <1>1, <1>2, <1>3, <2>1, <2>2, <2>3
<1>. QED  BY <1>4, <1>5, <1>6

LEMMA NextTyped == IInv /\ [DirNext]_dirVars => Typed'
<1>. SUFFICES ASSUME IInv, [DirNext]_dirVars PROVE Typed'
  OBVIOUS
<1>1. /\ Typed /\ JobInv
      /\ disk \in [Path -> Content \cup {Partial, Absent}] /\ unscanned \subseteq Path
      /\ events \in Seq(FileEvent) /\ Len(events) <= MaxEvents
      /\ catalogue \in [Path -> Content \cup {Absent}] /\ doing \in [Actor -> Job]
      /\ listening \in BOOLEAN /\ pool \subseteq Content
      /\ refill \in [Refill -> [at : {"rest", "choose", "add"}, hashes : SUBSET Content]]
      /\ mode \in {"off", "scanning", "on"}
  BY DEF IInv, Typed
<1>2. ASSUME NEW p \in Path,
             \/ BeginCopy(p) \/ MoveOut(p) \/ Delete(p)
             \/ \E t \in Content : EndCopy(p, t) \/ MoveIn(p, t)
      PROVE  Typed'
  BY <1>1, <1>2, EditChanges, ChangedTyped DEF Typed
<1>3. ASSUME NEW a \in Actor, NEW j \in Job, doing' = [doing EXCEPT ![a] = j]
      PROVE  doing' \in [Actor -> Job]
  BY <1>1, <1>3
<1>4. \A at \in {"read", "drop"} : \A p \in Path : \A again \in BOOLEAN :
        [at |-> at, path |-> p, torrent |-> Absent, again |-> again] \in Job
  BY DEF Job
<1>5. ASSUME NEW p \in Path, Scan(p) PROVE Typed'
  BY <1>1, <1>3, <1>4, <1>5 DEF Scan, StartAt, Typed, Actor
<1>6. CASE Start \/ Watch \/ Listen
  BY <1>1, <1>6 DEF Start, Watch, Listen, Typed
<1>7. CASE Stop
  <2>1. <<>> \in Seq(FileEvent) /\ Len(<<>>) <= MaxEvents
    BY DirectoryAssumption
  <2>2. refill' \in [Refill -> [at : {"rest", "choose", "add"}, hashes : SUBSET Content]]
    BY <1>7 DEF Stop, NoRefill
  <2>. QED  BY <1>1, <1>3, <1>7, <2>1, <2>2, JobTyped DEF Stop, Typed, Actor
<1>8. CASE HandleEvent
  <2> DEFINE e == Head(events)
  <2>1. events # <<>> /\ events' = Tail(events)
    BY <1>8 DEF HandleEvent
  <2>2. /\ e \in FileEvent /\ Tail(events) \in Seq(FileEvent)
        /\ Len(Tail(events)) = Len(events) - 1 /\ Len(events) \in Nat
    BY <1>1, <2>1
  <2>3. Len(events') <= MaxEvents
    BY <1>1, <2>1, <2>2, DirectoryAssumption
  <2>4. e.path \in Path /\ FirstStep(e.kind) \in {"read", "drop"}
        /\ (e.kind = "modify") \in BOOLEAN
    BY <2>2 DEF FileEvent, FirstStep
  <2>5. doing' = [doing EXCEPT !["watcher"] =
                     [at |-> FirstStep(e.kind), path |-> e.path, torrent |-> Absent,
                      again |-> e.kind = "modify"]]
    BY <1>8 DEF HandleEvent, StartAt
  <2>. HIDE DEF e
  <2>6. doing' \in [Actor -> Job]
    BY <1>3, <1>4, <2>4, <2>5 DEF Actor
  <2>. QED  BY <1>1, <1>8, <2>1, <2>2, <2>3, <2>6 DEF HandleEvent, Typed
<1>9. ASSUME NEW t \in Content, AskArchive(t) PROVE Typed'
  BY <1>1, <1>3, <1>4, <1>9 DEF AskArchive, StartAt, Typed, Actor
<1>10. CASE Read
  <2> DEFINE j == doing["watcher"]
             k == IF disk[j.path] \in Content
                  THEN [j EXCEPT !.at = "insert", !.torrent = disk[j.path]]
                  ELSE [j EXCEPT !.at = "archive"]
  <2>1. doing' = [doing EXCEPT !["watcher"] = k]
    BY <1>1, <1>10 DEF Read, Actor
  <2>2. k \in Job
    BY <1>1, JobTyped DEF Actor
  <2>. HIDE DEF k
  <2>. QED  BY <1>1, <1>3, <1>10, <2>1, <2>2 DEF Read, Typed, Actor
<1>11. CASE Insert
  <2>1. doing["watcher"].torrent \in Content
    BY <1>1, <1>11 DEF Insert, JobInv, Actor
  <2>2. catalogue' \in [Path -> Content \cup {Absent}]
    BY <1>1, <1>11, <2>1 DEF Insert
  <2>3. [doing["watcher"] EXCEPT !.at = "hear"] \in Job
    BY <1>1, JobTyped DEF Actor
  <2>4. doing' = [doing EXCEPT !["watcher"] = [doing["watcher"] EXCEPT !.at = "hear"]]
    BY <1>1, <1>11 DEF Insert, Actor
  <2>5. doing' \in [Actor -> Job]
    BY <1>3, <2>3, <2>4 DEF Actor
  <2>. QED  BY <1>1, <1>11, <2>2, <2>5 DEF Insert, Typed
<1>12. ASSUME NEW a \in Actor PROVE AfterDrop(a) \in Job
  <2>1. doing[a] \in Job
    BY <1>1
  <2>. QED  BY <2>1, JobTyped DEF AfterDrop
<1>13. ASSUME NEW a \in Actor, Drop(a) PROVE Typed'
  <2> DEFINE p == doing[a].path
             k == IF catalogue[p] = Absent THEN AfterDrop(a)
                  ELSE [doing[a] EXCEPT !.at = "tell", !.torrent = catalogue[p]]
  <2>1. doing' = [doing EXCEPT ![a] = k]
    BY <1>13 DEF Drop
  <2>2. p \in Path
    BY <1>1, <1>13 DEF Drop, JobInv, Rest
  <2>3. k \in Job
    BY <1>1, <1>12, <2>2, JobTyped
  <2>4. catalogue' \in [Path -> Content \cup {Absent}]
    BY <1>1, <1>13 DEF Drop
  <2>. HIDE DEF k
  <2>. QED  BY <1>1, <1>3, <1>13, <2>1, <2>3, <2>4 DEF Drop, Typed
<1>14. ASSUME NEW a \in Actor, Tell(a) PROVE Typed'
  BY <1>1, <1>3, <1>12, <1>14 DEF Tell, Typed
<1>15. ASSUME NEW a \in Actor, Archive(a) PROVE Typed'
  <2>1. doing' \in [Actor -> Job]
    BY <1>1, <1>3, <1>15, ArchiveMoves, JobTyped
  <2>2. /\ disk' \in [Path -> Content \cup {Partial, Absent}]
        /\ events' \in Seq(FileEvent) /\ Len(events') <= MaxEvents
    BY <1>1, <1>15, ArchiveMoves, ChangedTyped
  <2>. QED  BY <1>1, <1>15, <2>1, <2>2, ArchiveMoves DEF Typed
<1>16. CASE UNCHANGED dirVars
  BY <1>1, <1>16 DEF dirVars, Typed
<1>17. CASE Hear
  <2>1. doing["watcher"].torrent \in Content
    BY <1>1, <1>17 DEF Hear, JobInv, Actor
  <2>2. doing' \in [Actor -> Job]
    BY <1>3, <1>17, JobTyped DEF Hear, Actor
  <2>. QED  BY <1>1, <1>17, <2>1, <2>2 DEF Hear, Typed
<1>18. ASSUME NEW r \in Refill, Exclude(r) \/ Offer(r) \/ AddTorrent(r) PROVE Typed'
  <2>1. /\ refill' \in [Refill -> [at : {"rest", "choose", "add"}, hashes : SUBSET Content]]
        /\ pool' \subseteq Content
    BY <1>1, <1>18, RefillSteps
  <2>. QED  BY <1>1, <1>18, <2>1 DEF Exclude, Offer, AddTorrent, Typed
<1>. QED  BY <1>2, <1>5, <1>6, <1>7, <1>8, <1>9, <1>10, <1>11, <1>13, <1>14, <1>15,
             <1>16, <1>17, <1>18 DEF DirNext

LEMMA JobStep ==
    ASSUME Typed, JobInv, NEW a \in Actor, NEW j,
           doing' = [doing EXCEPT ![a] = j],
           j # Rest => j.at # "rest" /\ j.path \in Path,
           j.at \in {"insert", "hear"} => j.torrent \in Content,
           a = "archiver" => j.at \in {"rest", "drop", "tell", "archive"} /\ ~j.again
    PROVE  JobInv'
<1>1. doing'[a] = j /\ \A b \in Actor : b # a => doing'[b] = doing[b]
  BY DEF Typed
<1>. QED  BY <1>1 DEF JobInv, Actor

LEMMA NextJob == IInv /\ [DirNext]_dirVars => JobInv'
<1>. SUFFICES ASSUME IInv, [DirNext]_dirVars PROVE JobInv'
  OBVIOUS
<1>1. Typed /\ JobInv /\ doing \in [Actor -> Job]
  BY DEF IInv, Typed
<1>2. CASE doing' = doing
  BY <1>1, <1>2 DEF JobInv
<1>3. ASSUME NEW a \in Actor, doing' = [doing EXCEPT ![a] = Rest] PROVE JobInv'
  <2>1. Rest.at = "rest" /\ ~Rest.again
    BY DEF Rest
  <2>. QED  BY <1>1, <1>3, <2>1, JobStep
<1>4. ASSUME NEW p \in Path, NEW at \in {"read", "drop"}, NEW again \in BOOLEAN,
             NEW a \in Actor, a = "archiver" => at = "drop" /\ ~again,
             StartAt(a, at, p, again)
      PROVE  JobInv'
  <2> DEFINE j == [at |-> at, path |-> p, torrent |-> Absent, again |-> again]
  <2>1. j.at = at /\ j.path = p /\ j.again = again
    OBVIOUS
  <2>2. doing' = [doing EXCEPT ![a] = j]
    BY <1>4 DEF StartAt
  <2>. HIDE DEF j
  <2>. QED  BY <1>1, <1>4, <2>1, <2>2, JobStep
<1>5. ASSUME NEW p \in Path, Scan(p) PROVE JobInv'
  BY <1>2, <1>4, <1>5 DEF Scan, Actor
<1>6. CASE HandleEvent
  <2> DEFINE e == Head(events)
  <2>1. events # <<>> /\ StartAt("watcher", FirstStep(e.kind), e.path, e.kind = "modify")
    BY <1>6 DEF HandleEvent
  <2>2. e \in FileEvent
    BY <1>1, <2>1 DEF Typed
  <2>3. e.path \in Path /\ FirstStep(e.kind) \in {"read", "drop"}
        /\ (e.kind = "modify") \in BOOLEAN
    BY <2>2 DEF FileEvent, FirstStep
  <2>. HIDE DEF e
  <2>. QED  BY <1>4, <2>1, <2>3 DEF Actor
<1>7. ASSUME NEW t \in Content, AskArchive(t) PROVE JobInv'
  BY <1>4, <1>7 DEF AskArchive, Actor
<1>8. CASE Stop
  BY <1>3, <1>8 DEF Stop, Actor
<1>9. CASE Read
  <2> DEFINE w == doing["watcher"]
             j == IF disk[w.path] \in Content
                  THEN [w EXCEPT !.at = "insert", !.torrent = disk[w.path]]
                  ELSE [w EXCEPT !.at = "archive"]
  <2>1. doing' = [doing EXCEPT !["watcher"] = j] /\ w.at = "read"
    BY <1>1, <1>9 DEF Read, Actor
  <2>2. w \in Job /\ w.path \in Path
    BY <1>1, <2>1 DEF JobInv, Rest, Actor
  <2>3. /\ j.at \in {"insert", "archive"} /\ j.path = w.path
        /\ j.at \in {"insert", "hear"} => j.torrent \in Content
    BY <2>2 DEF Job
  <2>. HIDE DEF j, w
  <2>. QED  BY <1>1, <2>1, <2>2, <2>3, JobStep DEF Actor
<1>10. CASE Insert
  <2> DEFINE w == doing["watcher"]
             j == [w EXCEPT !.at = "hear"]
  <2>1. doing' = [doing EXCEPT !["watcher"] = j] /\ w.at = "insert"
    BY <1>1, <1>10 DEF Insert, Actor
  <2>2. w \in Job /\ w.path \in Path /\ w.torrent \in Content
    BY <1>1, <2>1 DEF JobInv, Rest, Actor
  <2>3. j.at = "hear" /\ j.path = w.path /\ j.torrent = w.torrent
    BY <2>2 DEF Job
  <2>. HIDE DEF j, w
  <2>. QED  BY <1>1, <2>1, <2>2, <2>3, JobStep DEF Actor
<1>11. ASSUME NEW a \in Actor, doing[a].at \in {"drop", "tell"},
              doing' = [doing EXCEPT ![a] = AfterDrop(a)]
       PROVE  JobInv'
  <2>1. doing[a] \in Job /\ doing[a].path \in Path
    BY <1>1, <1>11 DEF JobInv, Rest
  <2>2. a = "archiver" => ~doing[a].again
    BY <1>1 DEF JobInv
  <2>3. CASE a = "archiver"
    <3> DEFINE j == [doing[a] EXCEPT !.at = "archive", !.torrent = Absent]
    <3>1. j.at = "archive" /\ j.path = doing[a].path /\ j.again = doing[a].again
      BY <2>1 DEF Job
    <3>2. AfterDrop(a) = j
      BY <2>2, <2>3 DEF AfterDrop
    <3>. HIDE DEF j
    <3>. QED  BY <1>1, <1>11, <2>1, <2>2, <3>1, <3>2, JobStep
  <2>4. CASE a # "archiver" /\ doing[a].again
    <3> DEFINE j == [doing[a] EXCEPT !.at = "read", !.again = FALSE, !.torrent = Absent]
    <3>1. j.at = "read" /\ j.path = doing[a].path
      BY <2>1 DEF Job
    <3>2. AfterDrop(a) = j
      BY <2>4 DEF AfterDrop
    <3>. HIDE DEF j
    <3>. QED  BY <1>1, <1>11, <2>1, <2>4, <3>1, <3>2, JobStep
  <2>5. CASE a # "archiver" /\ ~doing[a].again
    BY <1>3, <1>11, <2>5 DEF AfterDrop
  <2>. QED  BY <2>3, <2>4, <2>5
<1>12. ASSUME NEW a \in Actor, Drop(a) PROVE JobInv'
  <2>1. CASE catalogue[doing[a].path] = Absent
    BY <1>11, <1>12, <2>1 DEF Drop
  <2>2. CASE catalogue[doing[a].path] # Absent
    <3> DEFINE j == [doing[a] EXCEPT !.at = "tell", !.torrent = catalogue[doing[a].path]]
    <3>1. doing' = [doing EXCEPT ![a] = j] /\ doing[a].at = "drop"
      BY <1>12, <2>2 DEF Drop
    <3>2. doing[a] \in Job /\ doing[a].path \in Path
      BY <1>1, <3>1 DEF JobInv, Rest
    <3>3. j.at = "tell" /\ j.path = doing[a].path /\ j.again = doing[a].again
      BY <3>2 DEF Job
    <3>4. a = "archiver" => ~doing[a].again
      BY <1>1 DEF JobInv
    <3>. HIDE DEF j
    <3>. QED  BY <1>1, <3>1, <3>2, <3>3, <3>4, JobStep
  <2>. QED  BY <2>1, <2>2
<1>13. ASSUME NEW a \in Actor, Tell(a) PROVE JobInv'
  BY <1>11, <1>13 DEF Tell
<1>14. ASSUME NEW a \in Actor, Archive(a) PROVE JobInv'
  BY <1>3, <1>14 DEF Archive
<1>15. ASSUME NEW p \in Path,
              \/ BeginCopy(p) \/ MoveOut(p) \/ Delete(p)
              \/ \E t \in Content : EndCopy(p, t) \/ MoveIn(p, t)
       PROVE  JobInv'
  BY <1>1, <1>2, <1>15, EditChanges
<1>16. CASE Start \/ Watch \/ Listen \/ UNCHANGED dirVars
  BY <1>2, <1>16 DEF Start, Watch, Listen, dirVars
<1>17. CASE Hear
  BY <1>3, <1>17 DEF Hear, Actor
<1>18. ASSUME NEW r \in Refill, Exclude(r) \/ Offer(r) \/ AddTorrent(r) PROVE JobInv'
  BY <1>1, <1>2, <1>18, RefillSteps
<1>. QED  BY <1>5, <1>6, <1>7, <1>8, <1>9, <1>10, <1>12, <1>13, <1>14, <1>15, <1>16,
             <1>17, <1>18 DEF DirNext

LEMMA NextPhase == IInv /\ [DirNext]_dirVars => PhaseInv'
<1>. SUFFICES ASSUME IInv, [DirNext]_dirVars PROVE PhaseInv'
  OBVIOUS
<1>1. Typed /\ JobInv /\ PhaseInv /\ doing \in [Actor -> Job]
      /\ catalogue \in [Path -> Content \cup {Absent}]
      /\ unscanned \subseteq Path /\ mode \in {"off", "scanning", "on"}
  BY DEF IInv, Typed
<1>2. ASSUME UNCHANGED <<mode, unscanned, catalogue, pool, refill>>,
             doing'["watcher"] = doing["watcher"],
             mode # "on" => events' = events
      PROVE  PhaseInv'
  BY <1>1, <1>2 DEF PhaseInv, AtWork
<1>3. Rest.at = "rest" /\ Rest.path = Absent
  BY DEF Rest
<1>4. ASSUME NEW p \in Path,
             \/ BeginCopy(p) \/ MoveOut(p) \/ Delete(p)
             \/ \E t \in Content : EndCopy(p, t) \/ MoveIn(p, t)
      PROVE  PhaseInv'
  BY <1>1, <1>2, <1>4, EditChanges, ChangedTyped
<1>5. ASSUME NEW p \in Path, Scan(p) PROVE PhaseInv'
  <2>1. /\ mode = "scanning" /\ p \in unscanned /\ unscanned' = unscanned \ {p}
        /\ UNCHANGED <<mode, events, catalogue, pool, refill>>
        /\ doing["watcher"] = Rest
    BY <1>5 DEF Scan
  <2>2. doing'["watcher"] = Rest \/ (doing'["watcher"].at = "read" /\ doing'["watcher"].path = p)
    BY <1>1, <1>5 DEF Scan, StartAt, Actor
  <2>3. \A q \in unscanned' : catalogue'[q] = Absent /\ ~AtWork(q)'
    BY <1>1, <1>3, <2>1, <2>2 DEF PhaseInv, AtWork
  <2>. QED  BY <1>1, <1>3, <2>1, <2>2, <2>3 DEF PhaseInv
<1>6. CASE Start
  <2>1. /\ mode = "off" /\ mode' = "scanning"
        /\ UNCHANGED <<events, catalogue, doing, pool, refill>>
        /\ unscanned' \subseteq Path
    BY <1>6 DEF Start
  <2>2. /\ events = <<>> /\ doing["watcher"] = Rest /\ \A p \in Path : catalogue[p] = Absent
        /\ \A r \in Refill : refill[r] = NoRefill
    BY <1>1, <2>1 DEF PhaseInv
  <2>. QED  BY <1>3, <2>1, <2>2 DEF PhaseInv, AtWork
<1>7. CASE Watch
  <2>1. /\ mode = "scanning" /\ mode' = "on" /\ unscanned = {}
        /\ UNCHANGED <<events, unscanned, catalogue, doing, pool, refill>>
    BY <1>7 DEF Watch
  <2>. QED  BY <1>1, <2>1 DEF PhaseInv
<1>8. CASE Stop
  <2>1. /\ mode' = "off" /\ events' = <<>> /\ catalogue' = [p \in Path |-> Absent]
        /\ doing'["watcher"] = Rest /\ pool' = {} /\ unscanned' = {}
        /\ \A r \in Refill : refill'[r] = NoRefill
    BY <1>1, <1>8 DEF Stop, PhaseInv, Actor
  <2>. QED  BY <1>3, <2>1 DEF PhaseInv
<1>9. CASE HandleEvent
  <2>1. /\ mode = "on" /\ UNCHANGED <<mode, unscanned, catalogue, pool, refill>>
        /\ doing'["watcher"].at = FirstStep(Head(events).kind)
    BY <1>1, <1>9 DEF HandleEvent, StartAt, Actor
  <2>2. doing'["watcher"].at # "tell"
    BY <2>1 DEF FirstStep
  <2>. QED  BY <1>1, <2>1, <2>2 DEF PhaseInv
<1>10. ASSUME NEW t \in Content, AskArchive(t) PROVE PhaseInv'
  BY <1>1, <1>2, <1>10 DEF AskArchive, StartAt, Actor
<1>11. CASE Read
  <2> DEFINE w == doing["watcher"]
  <2>1. /\ w \in Job /\ w.at = "read"
        /\ UNCHANGED <<mode, unscanned, catalogue, events, pool, refill>>
        /\ doing'["watcher"] = IF disk[w.path] \in Content
                               THEN [w EXCEPT !.at = "insert", !.torrent = disk[w.path]]
                               ELSE [w EXCEPT !.at = "archive"]
    BY <1>1, <1>11 DEF Read, Actor
  <2>2. doing'["watcher"].at \in {"insert", "archive"} /\ doing'["watcher"].path = w.path
    BY <2>1 DEF Job
  <2>3. mode # "off" /\ w # Rest
    BY <1>1, <1>3, <2>1 DEF PhaseInv
  <2>4. \A q \in unscanned : catalogue[q] = Absent /\ ~AtWork(q)'
    <3>1. w.at # "hear"
      BY <2>1
    <3>. QED  BY <1>1, <2>2, <2>3, <3>1 DEF PhaseInv, AtWork
  <2>. QED  BY <1>1, <2>1, <2>2, <2>3, <2>4 DEF PhaseInv
<1>12. CASE Insert
  <2> DEFINE w == doing["watcher"]
  <2>1. /\ w.at = "insert"
        /\ UNCHANGED <<mode, unscanned, events, pool, refill>>
        /\ doing'["watcher"] = [w EXCEPT !.at = "hear"] /\ w \in Job
        /\ \A q \in Path : q # w.path => catalogue'[q] = catalogue[q]
    BY <1>1, <1>12 DEF Insert, Actor
  <2>2. mode # "off" /\ w # Rest /\ doing'["watcher"].at = "hear"
    BY <1>1, <1>3, <2>1 DEF PhaseInv, Job
  <2>3. \A q \in unscanned' : catalogue'[q] = Absent /\ ~AtWork(q)'
    BY <1>1, <2>1, <2>2 DEF PhaseInv, AtWork
  <2>. QED  BY <1>1, <1>3, <2>1, <2>2, <2>3 DEF PhaseInv
<1>13. ASSUME NEW a \in Actor, Drop(a) PROVE PhaseInv'
  <2> DEFINE p == doing[a].path
  <2>1. /\ doing[a].at = "drop" /\ UNCHANGED <<mode, unscanned, events, pool, refill>>
        /\ catalogue' = [catalogue EXCEPT ![p] = Absent]
        /\ doing' = [doing EXCEPT ![a] =
               IF catalogue[p] = Absent THEN AfterDrop(a)
               ELSE [doing[a] EXCEPT !.at = "tell", !.torrent = catalogue[p]]]
    BY <1>13 DEF Drop
  <2>2. p \in Path /\ doing[a] \in Job
    BY <1>1, <2>1 DEF JobInv, Rest
  <2>3. /\ catalogue'[p] = Absent
        /\ \A q \in Path : catalogue[q] = Absent => catalogue'[q] = Absent
        /\ mode = "off" => catalogue' = catalogue
    <3>1. mode = "off" => \A q \in Path : catalogue[q] = Absent
      BY <1>1 DEF PhaseInv
    <3>. QED  BY <1>1, <2>1, <2>2, <3>1
  <2>4. CASE a = "archiver"
    <3>1. doing'["watcher"] = doing["watcher"]
      BY <1>1, <2>1, <2>4
    <3>2. doing["watcher"].at = "tell" => doing["watcher"].path \in Path
      BY <1>1, <1>3 DEF JobInv, Actor
    <3>. QED  BY <1>1, <2>1, <2>3, <3>1, <3>2 DEF PhaseInv, AtWork
  <2>5. CASE a = "watcher"
    <3>1. mode = "on" /\ unscanned = {}
      BY <1>1, <1>3, <2>1, <2>5 DEF PhaseInv
    <3>2. doing'["watcher"].at = "tell" => doing'["watcher"].path = p
      BY <1>1, <1>3, <2>1, <2>2, <2>5 DEF AfterDrop, Job, Actor
    <3>. QED  BY <1>1, <2>1, <2>3, <3>1, <3>2 DEF PhaseInv
  <2>. QED  BY <2>4, <2>5 DEF Actor
<1>14. ASSUME NEW a \in Actor, Tell(a) PROVE PhaseInv'
  <2>1. /\ doing[a].at = "tell" /\ UNCHANGED <<mode, unscanned, catalogue, events, refill>>
        /\ doing' = [doing EXCEPT ![a] = AfterDrop(a)] /\ pool' \subseteq pool
    BY <1>14 DEF Tell
  <2>2. CASE a = "archiver"
    <3>1. doing'["watcher"] = doing["watcher"]
      BY <1>1, <2>1, <2>2
    <3>. QED  BY <1>1, <2>1, <3>1 DEF PhaseInv, AtWork
  <2>3. CASE a = "watcher"
    <3>1. mode = "on" /\ unscanned = {}
      BY <1>1, <1>3, <2>1, <2>3 DEF PhaseInv
    <3>2. doing["watcher"] \in Job
      BY <1>1 DEF Actor
    <3>3. doing'["watcher"].at # "tell"
      BY <1>1, <1>3, <2>1, <2>3, <3>2 DEF AfterDrop, Job, Actor
    <3>. QED  BY <1>1, <2>1, <3>1, <3>3 DEF PhaseInv
  <2>. QED  BY <2>2, <2>3 DEF Actor
<1>15. ASSUME NEW a \in Actor, Archive(a) PROVE PhaseInv'
  <2>1. /\ doing[a].at = "archive" /\ doing[a].path \in Path
        /\ doing' = [doing EXCEPT ![a] = Rest]
        /\ UNCHANGED <<mode, unscanned, catalogue, pool, refill>>
        /\ mode # "on" => events' = events
    BY <1>1, <1>15, ArchiveMoves, ChangedTyped
  <2>2. doing'["watcher"] \in {doing["watcher"], Rest}
    BY <1>1, <2>1 DEF Actor
  <2>. QED  BY <1>1, <1>2, <1>3, <2>1, <2>2 DEF PhaseInv, AtWork
<1>16. CASE Listen \/ UNCHANGED dirVars
  BY <1>1, <1>2, <1>16 DEF Listen, dirVars
<1>17. CASE Hear
  <2>1. /\ doing["watcher"].at = "hear" /\ UNCHANGED <<mode, unscanned, catalogue, events, refill>>
        /\ doing'["watcher"] = Rest
    BY <1>1, <1>17 DEF Hear, Actor
  <2>2. mode # "off"
    BY <1>1, <1>3, <2>1 DEF PhaseInv
  <2>. QED  BY <1>1, <1>3, <2>1, <2>2 DEF PhaseInv, AtWork
<1>18. ASSUME NEW r \in Refill, Exclude(r) \/ Offer(r) \/ AddTorrent(r) PROVE PhaseInv'
  <2>1. UNCHANGED <<mode, unscanned, catalogue, events, doing>>
    BY <1>1, <1>18, RefillSteps
  <2>2. mode = "on"
    <3>1. mode = "on" \/ refill[r].at # "rest"
      BY <1>1, <1>18, RefillSteps
    <3>2. NoRefill.at = "rest"
      BY DEF NoRefill
    <3>. QED  BY <1>1, <3>1, <3>2 DEF PhaseInv
  <2>. QED  BY <1>1, <2>1, <2>2 DEF PhaseInv, AtWork
<1>. QED  BY <1>4, <1>5, <1>6, <1>7, <1>8, <1>9, <1>10, <1>11, <1>12, <1>13, <1>14,
             <1>15, <1>16, <1>17, <1>18 DEF DirNext
-----------------------------------------------------------------------------
(* Every change is followed up. *)

LEMMA AnnouncedKept ==
    ASSUME NEW q \in Path, Announced(q), UNCHANGED events, disk'[q] = disk[q]
    PROVE  Announced(q)'
BY DEF Announced

\* A new event is the last word on its path, and leaves the others' alone.
LEMMA AnnouncedAppend ==
    ASSUME Typed, NEW kind \in {"create", "modify", "remove"}, NEW p \in Path,
           events' = Append(events, [kind |-> kind, path |-> p]),
           \A q \in Path : q # p => disk'[q] = disk[q],
           kind = "remove" => disk'[p] = Absent, kind = "create" => disk'[p] = Partial
    PROVE  /\ Announced(p)'
           /\ \A q \in Path : Announced(q) /\ q # p => Announced(q)'
           /\ Heard => Heard'
<1> DEFINE e == [kind |-> kind, path |-> p]
           n == Len(events)
<1>1. e.kind = kind /\ e.path = p /\ e \in FileEvent
  BY DEF FileEvent
<1>. HIDE DEF e
<1>2. /\ events \in Seq(FileEvent) /\ n \in Nat /\ events' = Append(events, e)
      /\ DOMAIN events = 1..n
  BY DEF Typed, e
<1>3. /\ DOMAIN events' = 1..n+1 /\ events'[n+1] = e
      /\ \A i \in 1..n : events'[i] = events[i]
  BY <1>1, <1>2
<1>4. Announced(p)'
  <2>1. n+1 \in DOMAIN events' /\ \A j \in DOMAIN events' : ~(j > n+1)
    BY <1>2, <1>3
  <2>. QED  BY <1>1, <1>3, <2>1 DEF Announced
<1>5. ASSUME NEW q \in Path, Announced(q), q # p PROVE Announced(q)'
  <2>1. PICK i \in 1..n :
          /\ events[i].path = q
          /\ \A j \in 1..n : j > i => events[j].path # q
          /\ events[i].kind = "remove" => disk[q] = Absent
          /\ events[i].kind = "create" => disk[q] = Partial
    BY <1>2, <1>5 DEF Announced
  <2>2. i \in DOMAIN events' /\ events'[i] = events[i]
    BY <1>2, <1>3
  <2>3. \A j \in DOMAIN events' : j > i => events'[j].path # q
    BY <1>1, <1>2, <1>3, <1>5, <2>1
  <2>. QED  BY <1>5, <2>1, <2>2, <2>3 DEF Announced
<1>6. ASSUME Heard PROVE Heard'
  <2>1. SUFFICES ASSUME NEW i \in DOMAIN events', NEW q \in Path, events'[i].path = q
                 PROVE  Announced(q)'
    BY DEF Heard
  <2>2. CASE q = p
    BY <1>4, <2>2
  <2>3. CASE q # p
    <3>1. i \in DOMAIN events /\ events'[i] = events[i]
      BY <1>1, <1>2, <1>3, <2>1, <2>3
    <3>2. Announced(q)
      BY <1>6, <2>1, <3>1 DEF Heard
    <3>. QED  BY <1>5, <2>3, <3>2
  <2>. QED  BY <2>2, <2>3
<1>. QED  BY <1>4, <1>5, <1>6

\* When the first event is taken, the others still speak for their paths; it
\* was the last word on its own path, or that is still to come.
LEMMA AnnouncedTail ==
    ASSUME Typed, events # <<>>, events' = Tail(events), UNCHANGED disk, Heard
    PROVE  /\ Head(events) \in FileEvent
           /\ \A q \in Path : Announced(q) /\ q # Head(events).path => Announced(q)'
           /\ Heard'
           /\ \A p \in Path : Head(events).path = p =>
                 \/ Announced(p)'
                 \/ /\ Head(events).kind = "remove" => disk[p] = Absent
                    /\ Head(events).kind = "create" => disk[p] = Partial
<1> DEFINE e == Head(events)
           n == Len(events)
<1>1. /\ events \in Seq(FileEvent) /\ n \in Nat /\ n > 0 /\ DOMAIN events = 1..n
      /\ e \in FileEvent /\ e = events[1]
  BY DEF Typed
<1>2. DOMAIN events' = 1..n-1 /\ \A i \in 1..n-1 : events'[i] = events[i+1]
  BY <1>1
<1>. HIDE DEF e, n
<1>3. ASSUME NEW q, Announced(q)
      PROVE  \/ Announced(q)'
             \/ /\ q = e.path /\ \A i \in 1..n-1 : events'[i].path # q
                /\ e.kind = "remove" => disk[q] = Absent
                /\ e.kind = "create" => disk[q] = Partial
  <2>1. PICK i \in 1..n :
          /\ events[i].path = q
          /\ \A j \in 1..n : j > i => events[j].path # q
          /\ events[i].kind = "remove" => disk[q] = Absent
          /\ events[i].kind = "create" => disk[q] = Partial
    BY <1>1, <1>3 DEF Announced
  <2>2. CASE i = 1
    <3>1. \A j \in 1..n-1 : j+1 \in 1..n /\ j+1 > 1
      BY <1>1
    <3>2. \A j \in 1..n-1 : events'[j].path # q
      BY <1>2, <2>1, <2>2, <3>1
    <3>. QED  BY <1>1, <2>1, <2>2, <3>2
  <2>3. CASE i # 1
    <3>1. i-1 \in 1..n-1 /\ (i-1)+1 = i
      BY <1>1, <2>3
    <3>2. events'[i-1] = events[i]
      BY <1>2, <3>1
    <3>3. \A j \in 1..n-1 : j > i-1 => j+1 \in 1..n /\ j+1 > i
      BY <1>1
    <3>4. \A j \in 1..n-1 : j > i-1 => events'[j].path # q
      BY <1>2, <2>1, <3>3
    <3>. QED  BY <1>2, <2>1, <3>1, <3>2, <3>4 DEF Announced
  <2>. QED  BY <2>2, <2>3
<1>4. Heard'
  <2>1. SUFFICES ASSUME NEW i \in DOMAIN events', NEW q \in Path, events'[i].path = q
                 PROVE  Announced(q)'
    BY DEF Heard
  <2>2. i+1 \in DOMAIN events /\ events'[i] = events[i+1] /\ i \in 1..n-1
    BY <1>1, <1>2
  <2>3. Announced(q)
    BY <2>1, <2>2 DEF Heard
  <2>. QED  BY <1>3, <2>1, <2>2, <2>3
<1>5. \A p \in Path : e.path = p => Announced(p)
  BY <1>1 DEF Heard
<1>. QED  BY <1>1, <1>3, <1>4, <1>5 DEF e

LEMMA ChangeFollowed ==
    ASSUME Typed, NEW p \in Path, Changed(p), mode # "off", ~Excused'
    PROVE  /\ ~Excused /\ Announced(p)'
           /\ \A q \in Path : q # p => disk'[q] = disk[q]
           /\ \A q \in Path : Announced(q) /\ q # p => Announced(q)'
           /\ Heard => Heard'
<1>1. PICK kind \in {"create", "modify", "remove"} :
        /\ \A q \in Path : q # p => disk'[q] = disk[q]
        /\ kind = "remove" => disk'[p] = Absent
        /\ kind = "create" => disk'[p] = Partial
        /\ Notified(kind, p)
  BY DEF Changed
<1>2. events' = Append(events, [kind |-> kind, path |-> p]) /\ missed' = missed
  BY <1>1, NotifiedTyped
<1>. QED  BY <1>1, <1>2, AnnouncedAppend DEF Excused

\* What keeps one path followed, and the watcher on course.
LEMMA FollowedKept ==
    ASSUME NEW q \in Path, Followed(q), disk'[q] = disk[q], catalogue'[q] = catalogue[q],
           q \in unscanned => q \in unscanned', Announced(q) => Announced(q)',
           AtWork(q) => AtWork(q)', Leaving(q) => Leaving(q)'
    PROVE  Followed(q)'
BY DEF Followed, Right

LEMMA OnCourseKept ==
    ASSUME NEW q \in Path, OnCourse(q), doing'["watcher"] = doing["watcher"],
           disk'[q] = disk[q], catalogue'[q] \in {catalogue[q], Absent},
           Announced(q) => Announced(q)'
    PROVE  OnCourse(q)'
BY DEF OnCourse

LEMMA HeardKept == UNCHANGED <<events, disk>> /\ Heard => Heard'
BY DEF Heard, Announced

\* Once the watcher has taken a path out, it is right, or read again.
LEMMA WatcherDrops ==
    ASSUME Typed, JobInv, Mirrored, UNCHANGED <<disk, events, unscanned>>, unscanned = {},
           NEW p \in Path, doing["watcher"].path = p, doing["watcher"].at \in {"drop", "tell"},
           catalogue'[p] = Absent, \A q \in Path : q # p => catalogue'[q] = catalogue[q],
           doing' = [doing EXCEPT !["watcher"] = AfterDrop("watcher")]
    PROVE  Mirrored'
<1> DEFINE w == doing["watcher"]
<1>1. /\ w \in Job /\ w # Rest /\ doing'["watcher"] = AfterDrop("watcher")
      /\ doing'["archiver"] = doing["archiver"]
  BY DEF Typed, Rest, Actor
<1>2. Heard'
  BY HeardKept DEF Mirrored
<1>3. OnCourse(p) /\ \A q \in Path : Announced(q) => Announced(q)'
  BY <1>1, AnnouncedKept DEF Mirrored, AtWork
<1>4. Announced(p)' \/ w.again \/ disk[p] = Absent
  BY <1>1, <1>3 DEF OnCourse
<1>5. CASE w.again
  <2>1. doing'["watcher"].at = "read" /\ doing'["watcher"].path = p
    <3> DEFINE j == [w EXCEPT !.at = "read", !.again = FALSE, !.torrent = Absent]
    <3>1. j.at = "read" /\ j.path = w.path
      BY <1>1 DEF Job
    <3>2. AfterDrop("watcher") = j
      BY <1>5 DEF AfterDrop
    <3>. HIDE DEF j
    <3>. QED  BY <1>1, <3>1, <3>2
  <2>2. AtWork(p)' /\ OnCourse(p)' /\ \A q \in Path : q # p => ~AtWork(q)'
    BY <2>1 DEF AtWork, OnCourse, Rest
  <2>3. \A q \in Path : q # p => Followed(q)'
    BY <1>1, <1>3 DEF Mirrored, Followed, Right, AtWork, Leaving
  <2>. QED  BY <1>2, <2>2, <2>3 DEF Mirrored, Followed
<1>6. CASE ~w.again
  <2>1. doing'["watcher"] = Rest
    BY <1>1, <1>6 DEF AfterDrop
  <2>2. \A q \in Path : ~AtWork(q)'
    BY <2>1 DEF AtWork
  <2>3. \A q \in Path : q # p => Followed(q)'
    BY <1>1, <1>3 DEF Mirrored, Followed, Right, AtWork, Leaving
  <2>4. Followed(p)'
    <3>1. Absent \notin Content
      BY DirectoryAssumption
    <3>. QED  BY <1>4, <1>6, <3>1 DEF Followed, Right
  <2>. QED  BY <1>2, <2>2, <2>3, <2>4 DEF Mirrored
<1>. QED  BY <1>5, <1>6

LEMMA NextMirror == IInv /\ [DirNext]_dirVars => MirrorInv'
<1>. SUFFICES ASSUME IInv, [DirNext]_dirVars, mode' # "off", ~Excused' PROVE Mirrored'
  BY DEF MirrorInv
<1>1. /\ Typed /\ JobInv /\ PhaseInv /\ doing \in [Actor -> Job]
      /\ catalogue \in [Path -> Content \cup {Absent}]
      /\ disk \in [Path -> Content \cup {Partial, Absent}]
      /\ Absent \notin Content /\ Partial \notin Content /\ Absent # Partial
  BY DirectoryAssumption DEF IInv, Typed, Absent, Partial
<1>2. ASSUME mode # "off", missed \subseteq missed' PROVE Mirrored
  BY <1>2 DEF IInv, MirrorInv, Excused
<1>3. \A q \in Path : UNCHANGED <<events, disk>> /\ Announced(q) => Announced(q)'
  BY AnnouncedKept
\* The steps at which the watcher stays where it is, and the disk too.
<1>4. ASSUME mode # "off", missed \subseteq missed', UNCHANGED <<disk, events>>,
             unscanned \subseteq unscanned', doing'["watcher"] = doing["watcher"],
             \A q \in Path : /\ catalogue'[q] \in {catalogue[q], Absent}
                             /\ Followed(q)' \/ (catalogue'[q] = catalogue[q]
                                                /\ (Leaving(q) => Leaving(q)'))
      PROVE  Mirrored'
  <2>1. Mirrored
    BY <1>2, <1>4
  <2>2. Heard'
    BY <1>4, <2>1, HeardKept DEF Mirrored
  <2>3. ASSUME NEW q \in Path PROVE Followed(q)' /\ (AtWork(q)' => OnCourse(q)')
    <3>1. AtWork(q)' = AtWork(q) /\ (Announced(q) => Announced(q)')
      BY <1>3, <1>4 DEF AtWork
    <3>2. Followed(q) /\ (AtWork(q) => OnCourse(q))
      BY <2>1 DEF Mirrored
    <3>3. Followed(q)'
      BY <1>4, <3>1, <3>2, FollowedKept
    <3>4. AtWork(q) => OnCourse(q)'
      BY <1>4, <3>1, <3>2, OnCourseKept
    <3>. QED  BY <3>1, <3>3, <3>4
  <2>. QED  BY <2>2, <2>3 DEF Mirrored
\* The steps at which the file of p changes, and nothing else is begun.
<1>5. ASSUME mode # "off", NEW p \in Path, Changed(p), UNCHANGED <<unscanned, catalogue>>,
             \A q \in Path \ {p} :
                /\ AtWork(q)' => AtWork(q)
                /\ AtWork(q) => doing'["watcher"] = doing["watcher"]
                /\ Leaving(q) => Leaving(q)'
      PROVE  Mirrored'
  <2>1. Mirrored
    BY <1>1, <1>2, <1>5, ChangedTyped
  <2>2. Heard' /\ Announced(p)'
    BY <1>1, <1>5, <2>1, ChangeFollowed DEF Mirrored
  <2>3. ASSUME NEW q \in Path PROVE Followed(q)' /\ (AtWork(q)' => OnCourse(q)')
    <3>1. CASE q = p
      BY <2>2, <3>1 DEF Followed, OnCourse
    <3>2. CASE q # p
      <4>1. disk'[q] = disk[q] /\ (Announced(q) => Announced(q)')
        BY <1>1, <1>5, <3>2, ChangeFollowed
      <4>2. Followed(q) /\ (AtWork(q) => OnCourse(q))
        BY <2>1 DEF Mirrored
      <4>3. AtWork(q) => AtWork(q)'
        BY <1>5, <3>2 DEF AtWork
      <4>4. Followed(q)'
        BY <1>5, <3>2, <4>1, <4>2, <4>3, FollowedKept
      <4>5. AtWork(q)' => OnCourse(q)'
        BY <1>5, <3>2, <4>1, <4>2, OnCourseKept
      <4>. QED  BY <4>4, <4>5
    <3>. QED  BY <3>1, <3>2
  <2>. QED  BY <2>2, <2>3 DEF Mirrored
<1>6. ASSUME NEW p \in Path,
             \/ BeginCopy(p) \/ MoveOut(p) \/ Delete(p)
             \/ \E t \in Content : EndCopy(p, t) \/ MoveIn(p, t)
      PROVE  Mirrored'
  <2>1. Changed(p) /\ UNCHANGED <<mode, unscanned, catalogue, doing>>
    BY <1>1, <1>6, EditChanges
  <2>2. \A q \in Path : /\ AtWork(q)' => AtWork(q)
                        /\ Leaving(q) => Leaving(q)'
    BY <2>1 DEF AtWork, Leaving
  <2>. QED  BY <1>5, <2>1, <2>2
<1>7. CASE Start
  <2>1. /\ mode = "off" /\ UNCHANGED <<disk, events, catalogue, doing>>
        /\ unscanned' = {p \in Path : disk[p] # Absent}
    BY <1>7 DEF Start
  <2>2. events = <<>> /\ doing["watcher"] = Rest /\ \A p \in Path : catalogue[p] = Absent
    BY <1>1, <2>1 DEF PhaseInv
  <2>3. Heard'
    BY <2>1, <2>2 DEF Heard
  <2>4. \A q \in Path : Followed(q)' /\ ~AtWork(q)'
    BY <1>1, <2>1, <2>2 DEF Followed, Right, AtWork
  <2>. QED  BY <2>3, <2>4 DEF Mirrored
<1>8. ASSUME NEW p \in Path, Scan(p) PROVE Mirrored'
  <2>1. /\ mode # "off" /\ doing["watcher"] = Rest /\ p \in unscanned
        /\ unscanned' = unscanned \ {p} /\ UNCHANGED <<disk, events, catalogue, missed>>
        /\ doing'["archiver"] = doing["archiver"]
    BY <1>1, <1>8 DEF Scan, StartAt, Actor
  <2>2. catalogue[p] = Absent
    BY <1>1, <2>1 DEF PhaseInv
  <2>3. Mirrored /\ Heard'
    BY <1>2, <2>1, HeardKept DEF Mirrored
  <2>4. \A q \in Path : Leaving(q) => Leaving(q)'
    BY <2>1 DEF Leaving
  <2>5. ASSUME NEW q \in Path, q # p PROVE Followed(q)'
    <3>1. Followed(q) /\ ~AtWork(q)
      BY <2>1, <2>3 DEF Mirrored, AtWork
    <3>. QED  BY <1>3, <2>1, <2>4, <2>5, <3>1 DEF Followed, Right
  <2>6. CASE disk[p] = Absent
    <3>1. doing'["watcher"] = Rest
      BY <1>8, <2>1, <2>6 DEF Scan
    <3>2. Followed(p)' /\ \A q \in Path : ~AtWork(q)'
      BY <1>1, <2>1, <2>2, <2>6, <3>1 DEF Followed, Right, AtWork
    <3>. QED  BY <2>3, <2>5, <3>2 DEF Mirrored
  <2>7. CASE disk[p] # Absent
    <3>1. doing'["watcher"].at = "read" /\ doing'["watcher"].path = p
      BY <1>1, <1>8, <2>7 DEF Scan, StartAt, Actor
    <3>2. AtWork(p)' /\ OnCourse(p)' /\ \A q \in Path : q # p => ~AtWork(q)'
      BY <2>1, <2>2, <3>1 DEF AtWork, OnCourse, Rest
    <3>. QED  BY <2>3, <2>5, <3>2 DEF Mirrored, Followed
  <2>. QED  BY <2>6, <2>7
<1>9. CASE Watch \/ Listen \/ (\E t \in Content : AskArchive(t)) \/ UNCHANGED dirVars
  <2>1. UNCHANGED <<disk, unscanned, events, catalogue, missed>> /\ mode # "off"
    BY <1>9 DEF Watch, Listen, AskArchive, dirVars
  <2>2. doing' = doing \/ (doing["archiver"] = Rest /\ doing'["watcher"] = doing["watcher"])
    BY <1>1, <1>9 DEF Watch, Listen, AskArchive, StartAt, dirVars, Actor
  <2>3. \A q \in Path : Leaving(q) => Leaving(q)'
    BY <2>1, <2>2 DEF Leaving, Rest
  <2>. QED  BY <1>4, <2>1, <2>2, <2>3
<1>10. CASE Stop
  BY <1>10 DEF Stop
<1>11. CASE HandleEvent
  <2> DEFINE e == Head(events)
  <2>1. /\ mode = "on" /\ doing["watcher"] = Rest /\ events # <<>> /\ events' = Tail(events)
        /\ UNCHANGED <<disk, unscanned, catalogue, missed>>
        /\ doing'["archiver"] = doing["archiver"]
    BY <1>1, <1>11 DEF HandleEvent, StartAt, Actor
  <2>2. doing'["watcher"] = [at |-> FirstStep(e.kind), path |-> e.path,
                             torrent |-> Absent, again |-> e.kind = "modify"]
    BY <1>1, <1>11 DEF HandleEvent, StartAt, Actor
  <2>3. Mirrored
    BY <1>2, <2>1
  <2>4. /\ e \in FileEvent /\ Heard'
        /\ \A q \in Path : Announced(q) /\ q # e.path => Announced(q)'
        /\ \A p \in Path : e.path = p =>
              \/ Announced(p)'
              \/ /\ e.kind = "remove" => disk[p] = Absent
                 /\ e.kind = "create" => disk[p] = Partial
    BY <1>1, <2>1, <2>3, AnnouncedTail DEF Mirrored
  <2>. HIDE DEF e
  <2>5. PICK p \in Path : e.path = p
    BY <2>4 DEF FileEvent
  <2>6. \A q \in Path : q # p => Followed(q)' /\ ~AtWork(q)'
    <3>1. TAKE q \in Path
    <3>2. Followed(q) /\ ~AtWork(q)
      BY <2>1, <2>3 DEF Mirrored, AtWork
    <3>3. Leaving(q) => Leaving(q)'
      BY <2>1 DEF Leaving
    <3>4. Announced(q) /\ q # p => Announced(q)'
      BY <2>4, <2>5
    <3>5. q # p => Followed(q)'
      BY <2>1, <3>2, <3>3, <3>4 DEF Followed, Right
    <3>6. q # p => ~AtWork(q)'
      BY <2>2, <2>5 DEF AtWork
    <3>. QED  BY <3>5, <3>6
  <2>7. /\ doing'["watcher"].at = FirstStep(e.kind) /\ doing'["watcher"].path = p
        /\ e.kind = "modify" => doing'["watcher"].again
    <3>1. /\ doing'["watcher"].at = FirstStep(e.kind) /\ doing'["watcher"].path = p
          /\ doing'["watcher"].again = (e.kind = "modify")
      BY <2>2, <2>5
    <3>. QED  BY <3>1, Zenon
  <2>8. AtWork(p)' /\ OnCourse(p)'
    <3>1. e.kind \in {"create", "modify", "remove"}
      BY <2>4 DEF FileEvent
    <3>2. CASE Announced(p)'
      BY <2>7, <3>1, <3>2 DEF AtWork, OnCourse, Rest, FirstStep
    <3>3. CASE e.kind = "remove" /\ disk[p] = Absent
      BY <2>1, <2>7, <3>3 DEF AtWork, OnCourse, Rest, FirstStep
    <3>4. CASE e.kind = "create" /\ disk[p] = Partial
      BY <2>1, <2>7, <3>4 DEF AtWork, OnCourse, Rest, FirstStep
    <3>5. CASE e.kind = "modify"
      BY <2>1, <2>7, <3>5 DEF AtWork, OnCourse, Rest, FirstStep
    <3>6. \/ Announced(p)'
          \/ /\ e.kind = "remove" => disk[p] = Absent
             /\ e.kind = "create" => disk[p] = Partial
      BY <2>4, <2>5
    <3>. QED  BY <3>1, <3>2, <3>3, <3>4, <3>5, <3>6
  <2>. QED  BY <2>4, <2>6, <2>8 DEF Mirrored, Followed
<1>12. CASE Read
  <2> DEFINE w == doing["watcher"]
  <2>1. PICK p \in Path : p = w.path /\ w # Rest
    BY <1>1, <1>12 DEF Read, JobInv, Rest, Actor
  <2>2. /\ w \in Job /\ w.at = "read"
        /\ UNCHANGED <<disk, mode, unscanned, catalogue, events, missed>>
        /\ doing'["watcher"] = IF disk[p] \in Content
                               THEN [w EXCEPT !.at = "insert", !.torrent = disk[p]]
                               ELSE [w EXCEPT !.at = "archive"]
        /\ doing'["archiver"] = doing["archiver"]
    BY <1>1, <1>12, <2>1 DEF Read, Actor
  <2>3. Mirrored /\ Heard'
    <3>1. mode # "off"
      BY <1>1, <2>1, <2>2 DEF PhaseInv
    <3>. QED  BY <1>2, <2>2, <3>1, HeardKept DEF Mirrored
  <2>4. /\ doing'["watcher"].path = p
        /\ \/ /\ disk[p] \in Content /\ doing'["watcher"].at = "insert"
              /\ doing'["watcher"].torrent = disk[p]
           \/ disk[p] \in {Partial, Absent} /\ doing'["watcher"].at = "archive"
    <3>1. CASE disk[p] \in Content
      BY <2>1, <2>2, <3>1 DEF Job
    <3>2. CASE disk[p] \notin Content
      <4>1. disk[p] \in {Partial, Absent}
        BY <1>1, <3>2
      <4>. QED  BY <2>1, <2>2, <3>2, <4>1 DEF Job
    <3>. QED  BY <3>1, <3>2
  <2>5. Announced(p)' \/ disk[p] = Partial \/ catalogue[p] = Absent
    BY <1>3, <2>1, <2>2, <2>3 DEF Mirrored, AtWork, OnCourse
  <2>6. AtWork(p)' /\ OnCourse(p)'
    <3>1. AtWork(p)'
      BY <2>4 DEF AtWork, Rest
    <3>2. CASE Announced(p)'
      BY <3>1, <3>2 DEF OnCourse
    <3>3. CASE disk[p] = Partial \/ catalogue[p] = Absent
      <4>1. disk'[p] = disk[p] /\ catalogue'[p] = catalogue[p]
        BY <2>2
      <4>2. OnCourse(p)'
        BY <1>1, <2>4, <3>3, <4>1 DEF OnCourse
      <4>. QED  BY <3>1, <4>2
    <3>. QED  BY <2>5, <3>2, <3>3
  <2>7. \A q \in Path : q # p => ~AtWork(q) /\ ~AtWork(q)'
    BY <2>1, <2>4 DEF AtWork
  <2>8. \A q \in Path : q # p => Followed(q)'
    BY <1>3, <2>2, <2>3, <2>7 DEF Mirrored, Followed, Right, Leaving
  <2>. QED  BY <2>3, <2>6, <2>7, <2>8 DEF Mirrored, Followed
<1>13. CASE Insert
  <2> DEFINE w == doing["watcher"]
  <2>1. PICK p \in Path : p = w.path /\ w # Rest
    BY <1>1, <1>13 DEF Insert, JobInv, Rest, Actor
  <2>2. /\ w.at = "insert" /\ w.torrent \in Content
        /\ UNCHANGED <<disk, mode, unscanned, events>> /\ missed \subseteq missed'
        /\ doing'["watcher"] = [w EXCEPT !.at = "hear"] /\ w \in Job
        /\ doing'["archiver"] = doing["archiver"]
        /\ catalogue' = [catalogue EXCEPT ![p] = w.torrent]
    BY <1>1, <1>13, <2>1 DEF Insert, JobInv, Actor
  <2>3. Mirrored /\ Heard'
    <3>1. mode # "off"
      BY <1>1, <2>1, <2>2 DEF PhaseInv
    <3>. QED  BY <1>2, <2>2, <3>1, HeardKept DEF Mirrored
  <2>4. Announced(p) \/ disk[p] = w.torrent
    BY <2>1, <2>2, <2>3 DEF Mirrored, AtWork, OnCourse
  <2>5. Followed(p)'
    <3>1. CASE Announced(p)
      BY <1>3, <2>2, <3>1 DEF Followed
    <3>2. CASE disk[p] = w.torrent
      BY <1>1, <2>2, <3>2 DEF Followed, Right
    <3>. QED  BY <2>4, <3>1, <3>2
  <2>6. \A q \in Path : ~AtWork(q)' /\ (q # p => ~AtWork(q))
    <3>1. doing'["watcher"].at = "hear"
      BY <2>2 DEF Job
    <3>. QED  BY <2>1, <3>1 DEF AtWork
  <2>7. \A q \in Path : q # p => Followed(q)'
    BY <1>1, <1>3, <2>2, <2>3, <2>6 DEF Mirrored, Followed, Right, Leaving
  <2>. QED  BY <2>3, <2>5, <2>6, <2>7 DEF Mirrored
<1>14. ASSUME NEW a \in Actor, Drop(a) PROVE Mirrored'
  <2>1. PICK p \in Path : p = doing[a].path
    BY <1>1, <1>14 DEF Drop, JobInv, Rest
  <2>2. /\ doing[a].at = "drop" /\ UNCHANGED <<disk, mode, unscanned, events, missed>>
        /\ catalogue'[p] = Absent /\ \A q \in Path : q # p => catalogue'[q] = catalogue[q]
        /\ doing' = [doing EXCEPT ![a] =
               IF catalogue[p] = Absent THEN AfterDrop(a)
               ELSE [doing[a] EXCEPT !.at = "tell", !.torrent = catalogue[p]]]
    BY <1>1, <1>14, <2>1 DEF Drop
  <2>3. CASE a = "archiver"
    <3>1. doing'["watcher"] = doing["watcher"] /\ doing["archiver"] \in Job
      BY <1>1, <2>2, <2>3 DEF Actor
    <3>2. doing'["archiver"].path = p /\ doing'["archiver"].at \in {"tell", "archive"}
      BY <1>1, <2>1, <2>2, <2>3, <3>1 DEF AfterDrop, JobInv, Job, Actor
    <3>3. Leaving(p)' /\ \A q \in Path : Leaving(q) => q = p
      BY <2>1, <2>2, <2>3, <3>2 DEF Leaving
    <3>4. \A q \in Path : Followed(q)' \/ (catalogue'[q] = catalogue[q]
                                          /\ (Leaving(q) => Leaving(q)'))
      BY <2>2, <3>3 DEF Followed
    <3>. QED  BY <1>4, <2>2, <3>1, <3>4
  <2>4. CASE a = "watcher"
    <3>1. mode = "on" /\ unscanned = {}
      BY <1>1, <2>2, <2>4 DEF PhaseInv, Rest, Typed
    <3>2. Mirrored
      BY <1>2, <2>2, <3>1
    <3>3. CASE catalogue[p] = Absent
      BY <1>1, <2>1, <2>2, <2>4, <3>1, <3>2, <3>3, WatcherDrops
    <3>4. CASE catalogue[p] # Absent
      <4>1. /\ doing["watcher"] \in Job /\ doing["watcher"] # Rest
            /\ doing'["archiver"] = doing["archiver"]
            /\ doing'["watcher"] = [doing["watcher"] EXCEPT !.at = "tell",
                                                            !.torrent = catalogue[p]]
        BY <1>1, <2>2, <2>4, <3>4 DEF Rest, Actor
      <4>2. /\ doing'["watcher"].at = "tell" /\ doing'["watcher"].path = p
            /\ doing["watcher"].again => doing'["watcher"].again
        BY <2>1, <2>4, <4>1 DEF Job
      <4>3. OnCourse(p)
        BY <2>1, <2>2, <2>4, <3>2, <4>1 DEF Mirrored, AtWork
      <4>4. OnCourse(p)' /\ AtWork(p)'
        <5>1. AtWork(p)'
          BY <4>2 DEF AtWork, Rest
        <5>2. Announced(p)' \/ doing["watcher"].again \/ disk[p] = Absent
          BY <1>3, <2>2, <2>4, <4>3 DEF OnCourse
        <5>3. doing'["watcher"].at = "tell" /\ disk'[p] = disk[p]
          BY <2>2, <4>2
        <5>4. Announced(p)' \/ doing'["watcher"].again \/ disk'[p] = Absent
          BY <4>2, <5>2, <5>3
        <5>5. OnCourse(p)'
          BY <5>3, <5>4 DEF OnCourse
        <5>. QED  BY <5>1, <5>5
      <4>5. \A q \in Path : q # p => ~AtWork(q) /\ ~AtWork(q)'
        BY <2>1, <2>4, <4>2 DEF AtWork
      <4>6. \A q \in Path : q # p => Followed(q)'
        BY <1>3, <2>2, <3>1, <3>2, <4>1, <4>5 DEF Mirrored, Followed, Right, Leaving
      <4>7. Heard'
        BY <2>2, <3>2, HeardKept DEF Mirrored
      <4>. QED  BY <4>4, <4>5, <4>6, <4>7 DEF Mirrored, Followed
    <3>. QED  BY <3>3, <3>4
  <2>. QED  BY <2>3, <2>4 DEF Actor
<1>15. ASSUME NEW a \in Actor, Tell(a) PROVE Mirrored'
  <2>1. PICK p \in Path : p = doing[a].path
    BY <1>1, <1>15 DEF Tell, JobInv, Rest
  <2>2. /\ doing[a].at = "tell" /\ UNCHANGED <<disk, mode, unscanned, events, catalogue>>
        /\ missed \subseteq missed' /\ doing' = [doing EXCEPT ![a] = AfterDrop(a)]
    BY <1>15 DEF Tell
  <2>3. CASE a = "archiver"
    <3>1. doing'["watcher"] = doing["watcher"] /\ doing["archiver"] \in Job
      BY <1>1, <2>2, <2>3 DEF Actor
    <3>2. doing'["archiver"].path = p /\ doing'["archiver"].at = "archive"
      BY <1>1, <2>1, <2>2, <2>3, <3>1 DEF AfterDrop, JobInv, Job, Actor
    <3>3. \A q \in Path : Leaving(q) => Leaving(q)'
      BY <2>1, <2>2, <2>3, <3>2 DEF Leaving
    <3>. QED  BY <1>4, <2>2, <3>1, <3>3
  <2>4. CASE a = "watcher"
    <3>1. mode = "on" /\ unscanned = {} /\ catalogue[p] = Absent
      BY <1>1, <2>1, <2>2, <2>4 DEF PhaseInv, Rest, Typed
    <3>2. Mirrored
      BY <1>2, <2>2, <3>1
    <3>. QED  BY <1>1, <2>1, <2>2, <2>4, <3>1, <3>2, WatcherDrops
  <2>. QED  BY <2>3, <2>4 DEF Actor
<1>16. ASSUME NEW a \in Actor, Archive(a) PROVE Mirrored'
  <2>1. PICK p \in Path : p = doing[a].path
    BY <1>1, <1>16, ArchiveMoves
  <2>2. /\ doing[a].at = "archive" /\ doing' = [doing EXCEPT ![a] = Rest]
        /\ UNCHANGED <<mode, unscanned, catalogue>> /\ mode # "off"
        /\ \/ Changed(p)
           \/ /\ UNCHANGED <<disk, events>> /\ missed' = missed
              /\ disk[p] = Absent
    BY <1>1, <1>16, <2>1, ArchiveMoves
  <2>3. /\ doing[a] # Rest /\ doing'[a] = Rest
        /\ \A b \in Actor : b # a => doing'[b] = doing[b]
    BY <1>1, <2>2 DEF Rest
  <2>4. \A q \in Path \ {p} :
          /\ AtWork(q)' => AtWork(q)
          /\ AtWork(q) => doing'["watcher"] = doing["watcher"]
          /\ Leaving(q) => Leaving(q)'
    BY <2>1, <2>2, <2>3 DEF AtWork, Leaving, Actor
  <2>5. CASE Changed(p)
    BY <1>5, <2>2, <2>4, <2>5
  <2>6. CASE UNCHANGED <<disk, events>> /\ missed' = missed /\ disk[p] = Absent
    <3>1. Mirrored /\ Heard'
      BY <1>2, <2>2, <2>6, HeardKept DEF Mirrored
    <3>2. CASE a = "watcher"
      <4>1. OnCourse(p)
        BY <2>1, <2>2, <2>3, <3>1, <3>2 DEF Mirrored, AtWork
      <4>2. Announced(p) \/ catalogue[p] = Absent
        BY <1>1, <2>2, <2>6, <3>2, <4>1 DEF OnCourse
      <4>3. Followed(p)'
        BY <1>1, <1>3, <2>2, <2>6, <4>2 DEF Followed, Right
      <4>4. \A q \in Path : ~AtWork(q)' /\ (q # p => ~AtWork(q))
        BY <2>1, <2>3, <3>2 DEF AtWork
      <4>5. \A q \in Path : q # p => Followed(q)'
        BY <1>3, <2>2, <2>4, <2>6, <3>1, <4>4 DEF Mirrored, Followed, Right
      <4>. QED  BY <3>1, <4>3, <4>4, <4>5 DEF Mirrored
    <3>3. CASE a = "archiver"
      <4>1. doing'["watcher"] = doing["watcher"]
        BY <2>3, <3>3 DEF Actor
      <4>2. Leaving(p) => Right(p)'
        BY <1>1, <2>2, <2>6 DEF Leaving, Right
      <4>3. \A q \in Path : Followed(q)' \/ (Leaving(q) => Leaving(q)')
        BY <2>4, <4>2 DEF Followed
      <4>. QED  BY <1>4, <2>2, <2>6, <4>1, <4>3
    <3>. QED  BY <3>2, <3>3 DEF Actor
  <2>. QED  BY <2>2, <2>5, <2>6
<1>17. CASE Hear
  <2>1. /\ doing["watcher"].at = "hear" /\ doing'["watcher"] = Rest
        /\ UNCHANGED <<disk, mode, unscanned, events, catalogue, missed>>
        /\ doing'["archiver"] = doing["archiver"]
    BY <1>1, <1>17 DEF Hear, Actor
  <2>2. Mirrored /\ Heard'
    BY <1>2, <2>1, HeardKept DEF Mirrored
  <2>3. \A q \in Path : /\ ~AtWork(q) /\ ~AtWork(q)'
                        /\ Leaving(q) => Leaving(q)'
    BY <2>1 DEF AtWork, Leaving
  <2>. QED  BY <1>3, <2>1, <2>2, <2>3 DEF Mirrored, Followed, Right
<1>18. ASSUME NEW r \in Refill, Exclude(r) \/ Offer(r) \/ AddTorrent(r) PROVE Mirrored'
  <2>1. UNCHANGED <<disk, mode, unscanned, events, catalogue, doing, missed>>
    BY <1>1, <1>18, RefillSteps
  <2>2. \A q \in Path : Leaving(q) => Leaving(q)'
    BY <2>1 DEF Leaving
  <2>. QED  BY <1>4, <2>1, <2>2
<1>. QED  BY <1>6, <1>7, <1>8, <1>9, <1>10, <1>11, <1>12, <1>13, <1>14, <1>15, <1>16,
             <1>17, <1>18 DEF DirNext
-----------------------------------------------------------------------------
(* The pool. *)

LEMMA NextPool == IInv /\ [DirNext]_dirVars => PoolInv'
<1> DEFINE Excuse == missed \cap {"unheard", "overwritten", "chosen"} # {}
           Kept(t) == \/ \E p \in Path : catalogue[p] = t
                      \/ \E a \in Actor : doing[a].at = "tell" /\ doing[a].torrent = t
<1>. SUFFICES ASSUME IInv, [DirNext]_dirVars, ~Excuse', NEW t \in (pool \cup Chosen)'
                PROVE  Kept(t)'
  BY DEF PoolInv
<1>1. /\ Typed /\ JobInv /\ doing \in [Actor -> Job] /\ pool \subseteq Content
      /\ catalogue \in [Path -> Content \cup {Absent}] /\ Absent \notin Content
  BY DirectoryAssumption DEF IInv, Typed
<1>2. t \in Content
  <2>1. Typed' /\ JobInv'
    BY NextTyped, NextJob
  <2>2. t \in pool' => t \in Content
    BY <2>1 DEF Typed
  <2>3. t \in Chosen' => t \in Content
    BY <2>1 DEF Typed, JobInv, Chosen
  <2>. QED  BY <2>2, <2>3
<1>3. ASSUME missed \subseteq missed', t \in pool \cup Chosen PROVE Kept(t)
  BY <1>3 DEF IInv, PoolInv
\* The steps at which nothing leaves the catalogue, and nothing is told.
<1>4. ASSUME missed \subseteq missed', t \in pool \cup Chosen, UNCHANGED catalogue,
             \A a \in Actor : doing[a].at = "tell" => doing'[a] = doing[a]
      PROVE  Kept(t)'
  BY <1>3, <1>4
\* The watcher tells of an addition once it has inserted; refills hold on.
<1>5. /\ refill' = refill /\ (\A a \in Actor : doing'[a].at = "hear" => doing'[a] = doing[a])
         => Chosen' \subseteq Chosen
  BY DEF Chosen
<1>6. ASSUME NEW p \in Path,
             \/ BeginCopy(p) \/ MoveOut(p) \/ Delete(p)
             \/ \E u \in Content : EndCopy(p, u) \/ MoveIn(p, u)
      PROVE  Kept(t)'
  <2>1. Changed(p) /\ UNCHANGED <<catalogue, doing, pool, refill>>
    BY <1>1, <1>6, EditChanges
  <2>2. missed \subseteq missed'
    BY <1>1, <2>1, ChangedTyped
  <2>. QED  BY <1>4, <1>5, <2>1, <2>2
<1>7. CASE \/ Start \/ Watch \/ Listen \/ HandleEvent \/ Read \/ UNCHANGED dirVars
           \/ (\E p \in Path : Scan(p)) \/ \E u \in Content : AskArchive(u)
  <2>1. UNCHANGED <<catalogue, pool, refill, missed>>
    BY <1>7 DEF Start, Watch, Listen, HandleEvent, Read, Scan, AskArchive, dirVars
  <2>2. \A a \in Actor : doing[a].at = "tell" => doing'[a] = doing[a]
    BY <1>1, <1>7 DEF Start, Watch, Listen, HandleEvent, Read, Scan, AskArchive, StartAt,
                      dirVars, Rest, Actor
  <2>3. \A a \in Actor : doing'[a].at = "hear" => doing'[a] = doing[a]
    <3>1. CASE \/ Start \/ Watch \/ Listen \/ UNCHANGED dirVars
               \/ (\E p \in Path : Scan(p)) \/ \E u \in Content : AskArchive(u)
      BY <1>1, <3>1 DEF Start, Watch, Listen, Scan, AskArchive, StartAt, dirVars, Actor
    <3>2. CASE HandleEvent
      <4>1. doing'["watcher"].at \in {"drop", "read"}
        BY <1>1, <3>2 DEF HandleEvent, StartAt, FirstStep, Actor
      <4>2. doing'["archiver"] = doing["archiver"]
        BY <1>1, <3>2 DEF HandleEvent, StartAt, Actor
      <4>. QED  BY <4>1, <4>2 DEF Actor
    <3>3. CASE Read
      <4>1. doing["watcher"] \in Job
        BY <1>1 DEF Actor
      <4>2. doing'["watcher"].at \in {"insert", "archive"}
        BY <1>1, <3>3, <4>1 DEF Read, Job, Actor
      <4>3. doing'["archiver"] = doing["archiver"]
        BY <1>1, <3>3 DEF Read, Actor
      <4>. QED  BY <4>2, <4>3 DEF Actor
    <3>. QED  BY <1>7, <3>1, <3>2, <3>3
  <2>. QED  BY <1>4, <1>5, <2>1, <2>2, <2>3
<1>8. CASE Stop
  <2>1. /\ pool' = {} /\ refill' = [r \in Refill |-> NoRefill] /\ doing'["watcher"] = Rest
        /\ doing'["archiver"] = doing["archiver"]
    BY <1>1, <1>8 DEF Stop, Actor
  <2>2. Chosen' = {}
    <3>1. doing'["archiver"].at # "hear" /\ doing'["watcher"].at # "hear"
      BY <1>1, <2>1 DEF JobInv, Rest
    <3>. QED  BY <2>1, <3>1 DEF Chosen, NoRefill, Actor
  <2>. QED  BY <2>1, <2>2
<1>9. CASE Insert
  <2> DEFINE p == doing["watcher"].path
             w == doing["watcher"].torrent
  <2>1. /\ doing["watcher"].at = "insert" /\ UNCHANGED <<pool, refill>> /\ missed \subseteq missed'
        /\ doing' = [doing EXCEPT !["watcher"].at = "hear"] /\ p \in Path
        /\ catalogue' = [catalogue EXCEPT ![p] = w]
        /\ catalogue[p] \in {Absent, w} \/ Excuse'
        /\ \A a \in Actor : doing[a].at = "tell" => doing'[a] = doing[a]
    BY <1>1, <1>9 DEF Insert, JobInv, Rest, Actor
  <2>3. ASSUME NEW q \in Path, catalogue[q] = t PROVE Kept(t)'
    <3>1. catalogue'[q] = t
      BY <1>1, <1>2, <2>1, <2>3
    <3>. QED  BY <3>1
  <2>2. CASE t = w
    <3>1. catalogue'[p] = t
      BY <1>1, <2>1, <2>2
    <3>. QED  BY <2>1, <3>1
  <2>4. CASE t # w
    <3>1. t \in pool \cup Chosen
      <4>1. doing'["watcher"].torrent = w /\ doing'["archiver"] = doing["archiver"]
        <5>1. doing["watcher"] \in Job
          BY <1>1 DEF Actor
        <5>. QED  BY <1>1, <2>1, <5>1 DEF Job, Actor
      <4>2. \A u \in Chosen' : u = w \/ u \in Chosen
        BY <2>1, <4>1 DEF Chosen, Actor
      <4>. QED  BY <2>1, <2>4, <4>2
    <3>. QED  BY <1>3, <2>1, <2>3, <3>1
  <2>. QED  BY <2>2, <2>4
<1>10. \A a \in Actor : AfterDrop(a).at # "hear"
  BY <1>1 DEF AfterDrop, Job, Rest
<1>11. ASSUME NEW a \in Actor, Drop(a) PROVE Kept(t)'
  <2> DEFINE p == doing[a].path
  <2>1. /\ doing[a].at = "drop" /\ UNCHANGED <<pool, refill, missed>> /\ p \in Path
        /\ catalogue' = [catalogue EXCEPT ![p] = Absent]
        /\ catalogue[p] # Absent =>
              doing'[a] = [doing[a] EXCEPT !.at = "tell", !.torrent = catalogue[p]]
        /\ \A b \in Actor : b # a => doing'[b] = doing[b]
    BY <1>1, <1>11 DEF Drop, JobInv, Rest
  <2>5. doing'[a].at # "hear"
    <3>1. CASE catalogue[p] # Absent
      BY <1>1, <2>1, <3>1 DEF Job
    <3>2. CASE catalogue[p] = Absent
      BY <1>1, <1>11, <1>10, <3>2 DEF Drop
    <3>. QED  BY <3>1, <3>2
  <2>2. Kept(t)
    BY <1>3, <1>5, <2>1, <2>5
  <2>3. ASSUME NEW q \in Path, catalogue[q] = t PROVE Kept(t)'
    <3>1. CASE q = p
      <4>1. catalogue[p] = t /\ catalogue[p] # Absent /\ doing[a] \in Job
        BY <1>1, <1>2, <2>1, <2>3, <3>1
      <4>2. doing'[a].at = "tell" /\ doing'[a].torrent = t
        BY <2>1, <4>1 DEF Job
      <4>. QED  BY <4>2
    <3>2. CASE q # p
      <4>1. catalogue'[q] = t
        BY <1>1, <2>1, <2>3, <3>2
      <4>. QED  BY <4>1
    <3>. QED  BY <3>1, <3>2
  <2>4. ASSUME NEW b \in Actor, doing[b].at = "tell", doing[b].torrent = t PROVE Kept(t)'
    BY <2>1, <2>4
  <2>. QED  BY <2>2, <2>3, <2>4
<1>12. ASSUME NEW a \in Actor, Tell(a) PROVE Kept(t)'
  <2> DEFINE w == doing[a].torrent
  <2>1. /\ UNCHANGED <<catalogue, refill>> /\ missed \subseteq missed'
        /\ doing'[a] = AfterDrop(a) /\ \A b \in Actor : b # a => doing'[b] = doing[b]
    BY <1>1, <1>12 DEF Tell
  <2>2. listening /\ w \notin Chosen
    BY <1>12 DEF Tell
  <2>3. pool' = pool \ {w}
    BY <1>12, <2>2 DEF Tell, Hears
  <2>4. Chosen' \subseteq Chosen
    BY <1>5, <1>10, <2>1
  <2>5. t # w /\ t \in pool \cup Chosen
    BY <2>2, <2>3, <2>4
  <2>. QED  BY <1>3, <2>1, <2>5
<1>13. ASSUME NEW a \in Actor, Archive(a) PROVE Kept(t)'
  <2>1. /\ doing[a].at = "archive" /\ doing' = [doing EXCEPT ![a] = Rest]
        /\ UNCHANGED <<catalogue, pool, refill>> /\ missed \subseteq missed'
    BY <1>1, <1>13, ArchiveMoves, ChangedTyped
  <2>2. \A b \in Actor : /\ doing[b].at = "tell" => doing'[b] = doing[b]
                         /\ doing'[b].at = "hear" => doing'[b] = doing[b]
    BY <1>1, <2>1 DEF Rest
  <2>. QED  BY <1>4, <1>5, <2>1, <2>2
<1>14. CASE Hear
  <2>1. /\ UNCHANGED <<catalogue, refill, missed>> /\ doing["watcher"].at = "hear"
        /\ pool' \subseteq pool \cup {doing["watcher"].torrent}
        /\ doing' = [doing EXCEPT !["watcher"] = Rest]
    BY <1>14 DEF Hear
  <2>2. doing["watcher"].torrent \in Chosen
    BY <2>1 DEF Chosen, Actor
  <2>3. \A b \in Actor : /\ doing[b].at = "tell" => doing'[b] = doing[b]
                         /\ doing'[b].at = "hear" => doing'[b] = doing[b]
    BY <1>1, <2>1 DEF Rest
  <2>. QED  BY <1>4, <1>5, <2>1, <2>2, <2>3
<1>15. ASSUME NEW r \in Refill, Exclude(r) \/ Offer(r) \/ AddTorrent(r) PROVE Kept(t)'
  <2>1. /\ UNCHANGED <<catalogue, doing, missed>> /\ pool' \subseteq pool \cup Chosen
        /\ Chosen' \subseteq Chosen \cup {catalogue[p] : p \in Path}
    BY <1>1, <1>15, RefillSteps
  <2>2. CASE t \in {catalogue[p] : p \in Path}
    BY <2>1, <2>2
  <2>3. CASE t \in pool \cup Chosen
    BY <1>4, <2>1, <2>3
  <2>. QED  BY <2>1, <2>2, <2>3
<1>. QED  BY <1>6, <1>7, <1>8, <1>9, <1>11, <1>12, <1>13, <1>14, <1>15 DEF DirNext
-----------------------------------------------------------------------------
LEMMA Invariance == DirSpec => []IInv
<1>1. IInv /\ [DirNext]_dirVars => IInv'
  BY NextTyped, NextJob, NextPhase, NextMirror, NextPool DEF IInv
<1>. QED  BY InitIInv, <1>1, PTL DEF DirSpec

\* The channel keeps to its capacity, the entries, the jobs of the two actors
\* and the pool to their types.
THEOREM DirectoryTypeCorrect == DirSpec => []DirTypeOK
<1>1. IInv => DirTypeOK
  <2>. SUFFICES ASSUME Typed PROVE DirTypeOK
    BY DEF IInv
  <2>1. \A a \in Actor : doing[a].at \in {"rest", "drop", "tell", "read", "insert", "hear", "archive"}
    BY DEF Typed, Job
  <2>. QED  BY <2>1 DEF Typed, DirTypeOK
<1>. QED  BY Invariance, <1>1, PTL

\* When every event has been handled and both actors are at rest, the catalogue
\* of the provider is the complete files of the directory, but for the three
\* excuses: whatever files come and go while others are scanned, read, dropped
\* and archived.
THEOREM CatalogueFollowsDisk == DirSpec => []CatalogueMirrorsDisk
<1>1. IInv => CatalogueMirrorsDisk
  <2>. SUFFICES ASSUME IInv, Settled, ~Excused, NEW p \in Path PROVE Right(p)
    BY DEF CatalogueMirrorsDisk, Excused, Right
  <2>1. mode = "on" /\ events = <<>> /\ \A a \in Actor : doing[a] = Rest
    BY DEF Settled
  <2>2. Followed(p) /\ unscanned = {}
    BY <2>1 DEF IInv, MirrorInv, Mirrored, PhaseInv
  <2>3. ~Announced(p) /\ ~AtWork(p) /\ ~Leaving(p)
    BY <2>1 DEF Announced, AtWork, Leaving, Rest, Actor
  <2>. QED  BY <2>2, <2>3 DEF Followed
<1>. QED  BY Invariance, <1>1, PTL

\* What the orchestrator keeps is in the catalogue, when nothing went unnoticed:
\* every removal, the watcher's or the archive's, has reached its listener, and
\* not between the choice of a torrent and its addition.  The induction covers
\* the torrents chosen as well as those of the pool.
THEOREM PoolFollowsDisk == DirSpec => []PoolHasFiles
<1>1. IInv => PoolHasFiles
  <2>. SUFFICES ASSUME IInv, Settled, missed = {}, NEW t \in pool
                PROVE  \E p \in Path : catalogue[p] = t
    BY DEF PoolHasFiles
  <2>1. \A a \in Actor : doing[a].at # "tell"
    BY DEF Settled, Rest
  <2>. QED  BY <2>1 DEF IInv, PoolInv
<1>. QED  BY Invariance, <1>1, PTL

\* The two together: no torrent is announced whose complete file is not in the
\* directory.
PoolIsOnDisk == Settled /\ missed = {} => \A t \in pool : \E p \in Path : disk[p] = t

THEOREM PoolStaysOnDisk == DirSpec => []PoolIsOnDisk
<1>1. DirTypeOK /\ CatalogueMirrorsDisk /\ PoolHasFiles => PoolIsOnDisk
  <2>. SUFFICES ASSUME DirTypeOK, CatalogueMirrorsDisk, PoolHasFiles, Settled, missed = {},
                       NEW t \in pool
                PROVE  \E p \in Path : disk[p] = t
    BY DEF PoolIsOnDisk
  <2>1. PICK p \in Path : catalogue[p] = t
    BY DEF PoolHasFiles
  <2>2. catalogue[p] = IF disk[p] \in Content THEN disk[p] ELSE Absent
    BY DEF CatalogueMirrorsDisk
  <2>3. t \in Content /\ Absent \notin Content
    BY DirectoryAssumption DEF DirTypeOK
  <2>. QED  BY <2>1, <2>2, <2>3
<1>. QED  BY DirectoryTypeCorrect, CatalogueFollowsDisk, PoolFollowsDisk, <1>1, PTL
=============================================================================
