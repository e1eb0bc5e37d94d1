--------------------------- MODULE ReplacingQueue ---------------------------
(***************************************************************************)
(* What the engine relies on when it hands an announce request to the      *)
(* delay queue: at most one request is pending per torrent, a new request  *)
(* silently replaces the pending one, and a request leaves the queue only  *)
(* because it was drained, removed or replaced.  Time is abstracted away:  *)
(* a drain may hand out any set of pending requests, because the engine    *)
(* must be correct whatever the delays its trackers ask for.               *)
(***************************************************************************)
CONSTANTS
    Torrent,    \* info-hashes
    Event,      \* announce events a request may carry
    NoRequest   \* "nothing pending for this torrent"

VARIABLE pending   \* [Torrent -> Event \cup {NoRequest}]

TypeOK == pending \in [Torrent -> Event \cup {NoRequest}]

Init == pending = [h \in Torrent |-> NoRequest]

\* The value of the queue after torrent h is asked to announce event e.
Replaced(q, h, e) == [q EXCEPT ![h] = e]

\* The value of the queue once the requests of the torrents in S are gone.
Without(q, S) == [h \in Torrent |-> IF h \in S THEN NoRequest ELSE q[h]]

Put(h, e) == pending' = Replaced(pending, h, e)

Release(S) == pending' = Without(pending, S)

Next == \/ \E h \in Torrent, e \in Event : Put(h, e)
        \/ \E S \in SUBSET Torrent : Release(S)

Spec == Init /\ [][Next]_pending
=============================================================================
