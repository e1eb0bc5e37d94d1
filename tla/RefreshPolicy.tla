--------------------------- MODULE RefreshPolicy ---------------------------
(***************************************************************************)
(* client/generator/refresh_policy.rs: when an emulated client draws a new *)
(* peer id (or key).  Each operator stands for one get(): it maps the      *)
(* state of a generator to the set of outcomes the call may have.  A call  *)
(* holds the generator's mutex from beginning to end, so it is atomic.     *)
(*                                                                         *)
(* Values are numbered in the order they are drawn, 0 standing for "none". *)
(* Two draws are taken to differ (they are random).  A draw may fail       *)
(* (a pattern that does not give 20 bytes, a key that is not UTF-8).       *)
(***************************************************************************)
EXTENDS Naturals

CONSTANTS
    Torrent,        \* info-hashes
    RefreshEvery,   \* refreshEvery of the .client file
    Ttl             \* TORRENT_PERSISTENT_TTL

ASSUME RefreshAssumption ==
    /\ RefreshEvery \in Nat \ {0}
    /\ Ttl \in Nat \ {0}

Policies == {"NEVER", "ALWAYS", "TIMED", "TIMED_OR_AFTER_STARTED_ANNOUNCE",
             "TORRENT_VOLATILE", "TORRENT_PERSISTENT"}

Entry == [value : Nat, at : Nat]
NoEntry == [value |-> 0, at |-> 0]

\* value, at: the TimedState; of: the per-torrent map; made: draws so far.
Generator == [value : Nat, at : Nat, of : [Torrent -> Entry], made : Nat]

Fresh == [value |-> 0, at |-> 0, of |-> [t \in Torrent |-> NoEntry], made |-> 0]

Answer(v, g) == [value |-> v, gen |-> g]
Error(g) == [value |-> 0, gen |-> g]

\* A successful draw into the shared value.
Regenerated(g, now) ==
    [g EXCEPT !.value = g.made + 1, !.at = now, !.made = @ + 1]

\* The shared value, drawn anew when `stale`.
Shared(g, stale, now) ==
    IF stale THEN {LET h == Regenerated(g, now) IN Answer(h.value, h), Error(g)}
             ELSE {Answer(g.value, g)}

Expired(g, now) == g.value = 0 \/ now - g.at >= RefreshEvery

Cached(g, now) == Shared(g, g.value = 0, now)

\* ALWAYS keeps nothing; only the numbering of the draws moves on.
Drawn(g) == {Answer(g.made + 1, [g EXCEPT !.made = @ + 1]), Error(g)}

Timed(g, now) == Shared(g, Expired(g, now), now)

\* A started announce takes the value there is and draws the next one; when
\* that second draw fails the call fails with it.
TimedOrStarted(g, event, now) ==
    IF event # "started" THEN Timed(g, now)
    ELSE UNION { IF o.value = 0 THEN {o}
                 ELSE {Answer(o.value, Regenerated(o.gen, now)), Error(o.gen)}
                 : o \in Timed(g, now) }

\* The generators in which t has an entry: g, or g with one drawn for t.
WithEntry(g, t, now) ==
    IF g.of[t] # NoEntry THEN {g}
    ELSE {[g EXCEPT !.of[t] = [value |-> g.made + 1, at |-> now], !.made = @ + 1]}

DrawFails(g, t) == IF g.of[t] = NoEntry THEN {Error(g)} ELSE {}

Volatile(g, t, event) ==
    { Answer(h.of[t].value,
             IF event = "stopped" THEN [h EXCEPT !.of[t] = NoEntry] ELSE h)
      : h \in WithEntry(g, t, 0) } \cup DrawFails(g, t)

\* Deliberate mistake: an entry is evicted one unit of time early.
SlipEvict(of, now) ==
    [u \in Torrent |-> IF now + 1 - of[u].at >= Ttl THEN NoEntry ELSE of[u]]

\* The access refreshes t's own entry before the idle ones are evicted.
Evict(of, now) ==
    [u \in Torrent |-> IF now - of[u].at >= Ttl THEN NoEntry ELSE of[u]]

Persistent(g, t, now) ==
    { Answer(h.of[t].value,
             [h EXCEPT !.of = Evict([@ EXCEPT ![t].at = now], now)])
      : h \in WithEntry(g, t, now) } \cup DrawFails(g, t)

Get(policy, g, t, event, now) ==
    CASE policy = "NEVER" -> Cached(g, now)
      [] policy = "ALWAYS" -> Drawn(g)
      [] policy = "TIMED" -> Timed(g, now)
      [] policy = "TIMED_OR_AFTER_STARTED_ANNOUNCE" -> TimedOrStarted(g, event, now)
      [] policy = "TORRENT_VOLATILE" -> Volatile(g, t, event)
      [] policy = "TORRENT_PERSISTENT" -> Persistent(g, t, now)
=============================================================================
