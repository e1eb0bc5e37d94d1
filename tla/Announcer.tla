----------------------------- MODULE Announcer -----------------------------
(***************************************************************************)
(* announcer/state.rs, tracker.rs, request.rs: the announcers of a client  *)
(* and the client profile they share.                                      *)
(*                                                                         *)
(* Announcer::announce() builds the query, reads the tracker under the     *)
(* cursor and notes the attempt without an await (BuildQuery); it awaits   *)
(* the tracker; after a failure it moves the cursor under one lock         *)
(* (Rotate) and counts the failure under another (CountFailure).  Tasks    *)
(* of the executor call it, two at a time for one torrent when an announce *)
(* is replaced late; an abort ends a call at its await (Abort).            *)
(*                                                                         *)
(* The variables of the second group are history, not state of the code.   *)
(***************************************************************************)
EXTENDS RefreshPolicy, AnnounceQuery, SequencesExt

CONSTANTS
    Task,                    \* announce tasks
    Uri,                     \* tracker URIs
    Http,                    \* those whose scheme is http or https
    Announce,                \* [Torrent -> Uri]: the `announce` of the .torrent
    Tiers,                   \* [Torrent -> Seq(Seq(Uri))]: its `announce-list`
    Clients,                 \* the profiles to start from
    Addresses,               \* the public address, as ConnectionHandler knows it
    MaxConsecutiveFailures,  \* MAX_CONSECUTIVE_FAILURES
    MaxQueries, MaxTime      \* bounds of the exploration

ASSUME AnnouncerAssumption ==
    /\ Http \subseteq Uri
    /\ Announce \in [Torrent -> Uri]
    /\ Tiers \in [Torrent -> Seq(Seq(Uri))]
    /\ MaxConsecutiveFailures \in Nat \ {0}

\* The .client file names one of the policies, or it does not parse.
ASSUME ClientsAssumption == \A c \in Clients : c.peerId \in Policies

VARIABLES
    client,     \* the BitTorrentClient, fixed by start()
    address,    \* ConnectionHandler::ip_address
    peerId,     \* state of its peer id generator
    key,        \* state of its key generator
    now,        \* Instant::now()
    announcer,  \* [Torrent -> NoAnnouncer or its cursor and failure counter]
    call        \* [Task -> NoCall or the announce() it is inside]

VARIABLES
    built,      \* queries built so far
    carried,    \* [Torrent -> what its last query carried]
    shown,      \* whether a query other than a regular one was built
    dropped,    \* torrents a stop of which drew its ids and was not built
    alone,      \* calls that no other call of their torrent overlapped
    failedAt,   \* [Torrent -> where its last, unoverlapped, announce failed]
    missed,     \* [Torrent -> trackers that failed since the last success]
    clean       \* torrents with no overlapping calls since then

program == <<client, address, peerId, key, now, announcer, call>>
history == <<built, carried, shown, dropped, alone, failedAt, missed, clean>>
vars == <<program, history>>

NoAnnouncer == [cursor |-> 0, fails |-> 0]
NoCall == [stage |-> "none"]
Nothing == [starts |-> FALSE, ends |-> FALSE, peerId |-> 0, key |-> 0, at |-> 0]

\* announce-list when it names a tracker, the primary announce otherwise.
CollectTrackerUris(t) ==
    IF FlattenSeq(Tiers[t]) = <<>> THEN <<Announce[t]>> ELSE FlattenSeq(Tiers[t])

\* The lists the TrackerClientUriProviders cycle through.
Uris == [t \in Torrent |-> SelectSeq(CollectTrackerUris(t), LAMBDA u : u \in Http)]

\* Flattening and filtering lists of trackers gives lists of trackers.
ASSUME UrisAssumption == Uris \in [Torrent -> Seq(Uri)]

\* Deliberate mistake, to test the properties: the cursor stays at the end of
\* the list.
SlipStayAtEnd(t, cursor) == IF cursor < Len(Uris[t]) THEN cursor + 1 ELSE cursor

\* move_to_next(): cycles; positions count from 1.
MoveToNext(t, cursor) == (cursor % Len(Uris[t])) + 1

Calling(t) == {k \in Task : call[k] # NoCall /\ call[k].torrent = t}

\* AnnouncerFactory::create fails when no tracker of the torrent is http(s).
NewAnnouncer(t) ==
    IF Uris[t] = <<>> THEN NoAnnouncer ELSE [cursor |-> 1, fails |-> 0]

TypeOK ==
    /\ client \in Clients /\ ValidClient(client)
    /\ address \in Addresses
    /\ peerId \in Generator /\ key \in Generator
    /\ now \in 0..MaxTime
    /\ \A t \in Torrent :
         /\ announcer[t].fails \in 0..MaxQueries
         /\ IF Uris[t] = <<>> THEN announcer[t] = NoAnnouncer
                              ELSE announcer[t].cursor \in 1..Len(Uris[t])
    /\ \A k \in Task : call[k] # NoCall =>
         /\ call[k].stage \in {"awaiting", "failed"}
         /\ call[k].position \in 1..Len(Uris[call[k].torrent])

Init ==
    /\ client \in {c \in Clients : ValidClient(c)}
    /\ address \in Addresses
    /\ peerId = Fresh /\ key = Fresh
    /\ now = 0
    /\ announcer = [t \in Torrent |-> NewAnnouncer(t)]
    /\ call = [k \in Task |-> NoCall]
    /\ built = 0
    /\ carried = [t \in Torrent |-> Nothing]
    /\ shown = FALSE /\ dropped = {}
    /\ alone = {}
    /\ failedAt = [t \in Torrent |-> 0]
    /\ missed = [t \in Torrent |-> {}]
    /\ clean = Torrent

\* QueryValues::new asks for the peer id, then for the key if the template
\* holds one: a key that cannot be drawn leaves the peer id generator moved.
PeerIdOutcomes(t, event) == Get(client.peerId, peerId, t, event, now)

KeyOutcomes(t, event) ==
    IF RequiresKey(client.template) THEN Get(client.key, key, t, event, now)
                                    ELSE {Answer(1, key)}

\* Building the query fails: announce() returns before it touches the cursor
\* or the failure counter.  Any event may be asked for at any time: "announce
\* all" replaces whatever is queued for a torrent, its first start or a start
\* that fails again and again too, by a regular announce, and a torrent marked
\* complete by hand makes that one a completed announce.
QueryFails(t, event) ==
    /\ announcer[t] # NoAnnouncer
    /\ \E p \in PeerIdOutcomes(t, event) :
         /\ peerId' = p.gen
         /\ IF p.value = 0 THEN UNCHANGED <<key, dropped>>
            ELSE /\ \E q \in KeyOutcomes(t, event) :
                      /\ q.value # 0 => ~TemplateFits(client.template, event, address)
                      /\ key' = q.gen
                 /\ dropped' = IF event = "stopped" THEN dropped \cup {t} ELSE dropped
    /\ built < MaxQueries /\ built' = built + 1
    /\ UNCHANGED <<client, address, now, announcer, call,
                   carried, shown, alone, failedAt, missed, clean>>

BuildQuery(k, t, event) ==
    /\ announcer[t] # NoAnnouncer /\ call[k] = NoCall
    /\ TemplateFits(client.template, event, address)
    /\ \E p \in PeerIdOutcomes(t, event), q \in KeyOutcomes(t, event) :
         /\ p.value # 0 /\ q.value # 0
         /\ peerId' = p.gen /\ key' = q.gen
         /\ carried' = [carried EXCEPT ![t] =
                [starts |-> event = "started", ends |-> event = "stopped",
                 peerId |-> p.value, key |-> q.value, at |-> now]]
    /\ shown' = (shown \/ event # "none")
    /\ dropped' = dropped \ {t}
    /\ call' = [call EXCEPT ![k] =
           [stage |-> "awaiting", torrent |-> t, position |-> announcer[t].cursor]]
    /\ built < MaxQueries /\ built' = built + 1
    /\ IF Calling(t) = {}
       THEN alone' = alone \cup {k} /\ UNCHANGED clean
       ELSE alone' = alone \ Calling(t) /\ clean' = clean \ {t}
    /\ UNCHANGED <<client, address, now, announcer, failedAt, missed>>

Return(k) == call' = [call EXCEPT ![k] = NoCall] /\ alone' = alone \ {k}

\* A response with interval, complete and incomplete and no failure reason.
Succeed(k) ==
    LET t == call[k].torrent IN
    /\ call[k].stage = "awaiting"
    /\ announcer' = [announcer EXCEPT ![t].fails = 0]
    /\ Return(k)
    /\ failedAt' = [failedAt EXCEPT ![t] = 0]
    /\ missed' = [missed EXCEPT ![t] = {}]
    /\ clean' = IF Calling(t) = {k} THEN clean \cup {t} ELSE clean
    /\ UNCHANGED <<client, address, peerId, key, now, built, carried, shown, dropped>>

\* No answer in time, a broken one, an incomplete one or a failure reason.
Rotate(k) ==
    LET t == call[k].torrent IN
    /\ call[k].stage = "awaiting"
    /\ announcer' = [announcer EXCEPT ![t].cursor = MoveToNext(t, @)]
    /\ call' = [call EXCEPT ![k].stage = "failed"]
    /\ UNCHANGED <<client, address, peerId, key, now, history>>

CountFailure(k) ==
    LET t == call[k].torrent IN
    /\ call[k].stage = "failed"
    /\ announcer' = [announcer EXCEPT ![t].fails = @ + 1]
    /\ Return(k)
    /\ failedAt' = [failedAt EXCEPT ![t] = IF k \in alone THEN call[k].position ELSE 0]
    /\ missed' = [missed EXCEPT ![t] = @ \cup {call[k].position}]
    /\ UNCHANGED <<client, address, peerId, key, now, built, carried,
                   shown, dropped, clean>>

\* Deliberate mistake: the announce about to be made is counted as failed.
SlipTooManyFailures(t) == announcer[t].fails + 1 >= MaxConsecutiveFailures

\* The error announce() returns once it has counted the failure.
TooManyFailures(t) == announcer[t].fails >= MaxConsecutiveFailures

\* The executor replaces or denies the task: nothing after the await runs.
Abort(k) ==
    /\ call[k] # NoCall /\ call[k].stage = "awaiting"
    /\ Return(k)
    /\ UNCHANGED <<client, address, peerId, key, now, announcer, built, carried,
                   shown, dropped, failedAt, missed, clean>>

\* The torrent leaves the pool and is picked again: the factory makes another
\* announcer; calls on the old one only touch an object nobody reads.
Recreate(t) ==
    /\ announcer[t] # NoAnnouncer
    /\ announcer' = [announcer EXCEPT ![t] = NewAnnouncer(t)]
    /\ call' = [k \in Task |-> IF k \in Calling(t) THEN NoCall ELSE call[k]]
    /\ alone' = alone \ Calling(t)
    /\ failedAt' = [failedAt EXCEPT ![t] = 0]
    /\ missed' = [missed EXCEPT ![t] = {}]
    /\ clean' = clean \cup {t}
    /\ UNCHANGED <<client, address, peerId, key, now, built, carried, shown, dropped>>

Elapse ==
    /\ now < MaxTime /\ now' = now + 1
    /\ UNCHANGED <<client, address, peerId, key, announcer, call, history>>

Next ==
    \/ \E t \in Torrent, event \in Event :
         QueryFails(t, event) \/ \E k \in Task : BuildQuery(k, t, event)
    \/ \E k \in Task : call[k] # NoCall /\ (Succeed(k) \/ Rotate(k) \/ CountFailure(k) \/ Abort(k))
    \/ \E t \in Torrent : Recreate(t)
    \/ Elapse

Spec == Init /\ [][Next]_vars
-----------------------------------------------------------------------------
\* The step in which task k sends a query.
Sends(k) == call[k] = NoCall /\ call'[k] # NoCall

\* After an announce failed with no other announce of its torrent about, the
\* next one asks another entry of the tracker list (tracker.rs, announce():
\* "so the caller's retry sees a different tracker").  With a second announce
\* in flight both failures move the cursor and the retry may be back where it
\* began: the property says nothing then.
RetrySeesAnotherTracker ==
    [][ \A k \in Task : Sends(k) =>
          LET t == call'[k].torrent IN
          Calling(t) = {} /\ failedAt[t] # 0 /\ Len(Uris[t]) > 1
              => call'[k].position # failedAt[t] ]_vars

\* A torrent is not given up (TooManyFailures) while one of its trackers has
\* not failed since the last success, provided its announces did not overlap
\* and the list is no longer than the threshold.
GivesUpOnlyAfterTryingAll ==
    \A t \in clean :
        TooManyFailures(t) /\ Len(Uris[t]) <= MaxConsecutiveFailures
            => missed[t] = 1..Len(Uris[t])

\* A template the client cannot fill in shows when it is first used: once a
\* query was built, no regular announce of any torrent fails for the sake of
\* the template, and once one with an event was built, no announce at all (no
\* stop above all, which is retried without being counted).  When "announce
\* all" has replaced every start, a regular query is the first one built and
\* says nothing about the stop.
TemplateErrorsShowAtFirstUse ==
    /\ (\E t \in Torrent : carried[t] # Nothing)
         => TemplateFits(client.template, "none", address)
    /\ shown => \A event \in Event : TemplateFits(client.template, event, address)

\* What tracker-visible peer ids each policy promises.  `old` is what t's last
\* query carried, `new` what the one now built carries; the last queries of
\* the other torrents are in `carried`.
Kept(t, old, new) ==
    LET others == {u \in Torrent \ {t} : carried[u] # Nothing}
        before == {u \in Torrent : carried[u] # Nothing} IN
    CASE client.peerId = "NEVER" ->
           \A u \in before : new.peerId = carried[u].peerId
      [] client.peerId = "ALWAYS" ->
           \A u \in before : new.peerId # carried[u].peerId
      [] client.peerId = "TIMED" ->
           \A u \in before :
             /\ new.at - carried[u].at >= RefreshEvery => new.peerId # carried[u].peerId
             /\ new.at = carried[u].at => new.peerId = carried[u].peerId
      [] client.peerId = "TIMED_OR_AFTER_STARTED_ANNOUNCE" ->
           \A u \in before :
             \/ carried[u].starts
             \/ new.at - carried[u].at >= RefreshEvery
             => new.peerId # carried[u].peerId
      [] client.peerId = "TORRENT_VOLATILE" ->
           /\ \A u \in others : new.peerId # carried[u].peerId
           /\ old # Nothing /\ old.ends => new.peerId # old.peerId
           /\ old # Nothing /\ ~old.ends /\ t \notin dropped
                => new.peerId = old.peerId
      [] client.peerId = "TORRENT_PERSISTENT" ->
           /\ \A u \in others : new.peerId # carried[u].peerId
           /\ old # Nothing /\ new.at - old.at < Ttl => new.peerId = old.peerId

\* The peer ids a tracker sees follow the refresh policy of the .client file
\* over any run of announces of several torrents, of failed queries and of
\* time: per session for the volatile policy, as long as the torrent is heard
\* of within the time to live for the persistent one, and so on.  (A volatile
\* id is lost early when a stop has drawn it and then its key cannot be drawn
\* or its template not filled in: what is sent next carries another id than
\* the session it belongs to.)
PolicyKept ==
    [][ \A k \in Task : Sends(k) =>
          LET t == call'[k].torrent IN Kept(t, carried[t], carried'[t]) ]_vars
=============================================================================
