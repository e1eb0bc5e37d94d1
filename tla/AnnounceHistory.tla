--------------------------- MODULE AnnounceHistory ---------------------------
(***************************************************************************)
(* What trackers have been told about each torrent, or about its announcer *)
(* since it joined the pool: history variables over ClientOrchestrator,    *)
(* and the properties of the announce sequence a tracker sees.  An         *)
(* announce counts as sent when its task gets a permit, that is when       *)
(* Announcer::announce is called.                                          *)
(***************************************************************************)
EXTENDS ClientOrchestrator

VARIABLES
    began,      \* torrents that have been announced started
    farewell,   \* torrents whose announcer has announced stopped, and no failure
                \* came back
    owed,       \* ... was told its download is complete and has not announced it
    leaving     \* ... was told its file is gone and had a stop queued

historyVars == <<began, farewell, owed, leaving>>
hvars == <<vars, historyVars>>

HInit == Init /\ began = {} /\ farewell = {} /\ owed = {} /\ leaving = {}

\* Torrents for which this step sends announce e, learns that a stopped announce
\* failed, puts a new announcer in the pool, sets the completed bit.
Sent(e)   == {h \in Torrent : \E t \in Task :
                /\ phase[t] = "waiting" /\ phase'[t] = "announcing"
                /\ event[t] = e /\ target[t] = h}
FailedNow == {h \in Torrent : \E t \in Task :
                /\ event[t] = "stopped" /\ outcome[t] = "none"
                /\ outcome'[t] = "failed" /\ target[t] = h}
Joined    == live' \ live
Marked    == completedBit' \ completedBit
Notified  == {h \in Torrent : \E a \in Actor :
                Notify(a) /\ doing[a].about = h /\ listening /\ h \in live}

Record ==
    /\ began' = began \cup Sent("started")
    /\ farewell' = (farewell \ (Joined \cup FailedNow)) \cup Sent("stopped")
    /\ owed' = (owed \ (Joined \cup Sent("completed"))) \cup Marked
    /\ leaving' = (leaving \ Joined) \cup Notified

HNext == Next /\ Record

HSpec == HInit /\ [][HNext]_hvars
-----------------------------------------------------------------------------
\* "The first announce JOAL sends after picking up a new torrent" is the started
\* one (request.rs:35-36): whatever replaces it in the queue, no other event is
\* sent before it.  Nothing is said of a torrent that leaves the pool and comes
\* back: when a refill that chose it long ago adds it again, a request left by its
\* earlier announcer may be drained before the new one's first announce is queued
\* (client.rs:306-321).
FirstAnnounceIsStarted ==
    [][\A e \in Event \ {"started"} : Sent(e) \subseteq began]_hvars

\* The stop announce is "fired once when a torrent leaves the seeding pool"
\* (request.rs:54-55): again only after a failure.
StoppedSentOnce == [][Sent("stopped") \cap farewell = {}]_hvars

\* A completed download is reported (snapshot.rs:110-113): from marking to
\* sending, the bit is set or a task that carries the event waits to send it.
\* The two exceptions are displacements: another request of the same torrent, a
\* stop or an announce-all, aborts that task before it has a permit
\* (announcer_executor.rs:108), or a refill that chose the torrent at the same
\* time as another one puts a second announcer in its place (client.rs:312).
Carried == {h \in Torrent :
               \/ h \in completedBit
               \/ \E t \in Task : /\ phase[t] = "waiting" /\ target[t] = h
                                  /\ event[t] = "completed"}

CompletionLostOnlyByDisplacement ==
    [][\A h \in (owed \cap owed' \cap live' \cap Carried) \ Carried' :
          \/ \E t \in Task : /\ target[t] = h /\ event[t] = "completed"
                             /\ phase[t] = "waiting" /\ phase'[t] = "ended"
          \/ \E a \in Actor : Add(a) /\ doing[a].pick = h]_hvars

\* "When a torrent is removed, schedule a `stopped` announce" (client.rs:6-8):
\* once scheduled, the stop stays queued, or is in progress, until the torrent
\* leaves the pool.
StopNotLost ==
    \A h \in leaving \cap live :
        \/ Stopping
        \/ "stopped" \in {pending[h], ready[h]}
        \/ \E t \in E!Unfinished :
              target[t] = h /\ (event[t] = "stopped" \/ outcome[t] = "tooMany")
        \/ \E a \in Actor : doing[a].about = h

=============================================================================
