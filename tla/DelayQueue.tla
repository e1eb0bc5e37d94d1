----------------------------- MODULE DelayQueue -----------------------------
(***************************************************************************)
(* orchestrator/delay_queue.rs: the queue of announce requests, one per    *)
(* info-hash, kept in a VecDeque ordered by (release_at, seq).  Every      *)
(* method holds the inner mutex for its whole body, so each one is a       *)
(* single action here.  The clock is tokio's monotonic Instant; an Elapse  *)
(* step lets time pass between any two calls.                              *)
(*                                                                         *)
(* The variable calls is history: it bounds the number of insertions.      *)
(***************************************************************************)
EXTENDS Integers, Sequences, FiniteSets, SequencesExt

CONSTANTS
    Torrent, Event, NoRequest,
    Delays,     \* the delays callers pass to add_or_replace
    MaxNow,     \* bound on the clock
    MaxCalls    \* bound on the number of insertions

VARIABLES
    items,      \* Inner.items: sequence of queued entries, front first
    now,        \* Instant::now()
    out,        \* what the last drain returned
    calls       \* history: number of insertions so far

queueVars == <<items, now, out, calls>>

ASSUME DelayQueueAssumption ==
    /\ Delays \subseteq Nat
    /\ MaxNow \in Nat
    /\ MaxCalls \in Nat
    /\ NoRequest \notin Event

Entry == [torrent : Torrent, event : Event, releaseAt : Nat, seq : Nat]

QueueTypeOK ==
    /\ items \in Seq(Entry)
    /\ now \in 0..MaxNow
    /\ out \in Seq(Entry)
    /\ calls \in 0..MaxCalls

QueueInit ==
    /\ items = <<>>
    /\ now = 0
    /\ out = <<>>
    /\ calls = 0
-----------------------------------------------------------------------------
\* (release_at, seq) of x is strictly greater than that of y.
After(x, y) == \/ x.releaseAt > y.releaseAt
               \/ x.releaseAt = y.releaseAt /\ x.seq > y.seq

\* Slips the runs must notice carry the name of what they spoil.  Here: the old
\* entry is kept.
RetainedAll(h) == items

\* items.retain(|e| e.info_hash() != h): the entries of the others, in order.
Retained(h) ==
    LET kept == {i \in DOMAIN items : items[i].torrent # h}
        \* where the k-th of them was
        was  == CHOOSE f \in [1..Cardinality(kept) -> kept] :
                    /\ \A i, j \in DOMAIN f : i < j => f[i] < f[j]
                    /\ \A k \in kept : \E i \in DOMAIN f : f[i] = k
    IN  [i \in 1..Cardinality(kept) |-> items[was[i]]]

\* Slip: number down from the front, so that ties fall in front.
NextSeqDownwards == IF items = <<>> THEN 0 ELSE Head(items).seq - 1

\* The tie-break number: one more than that of the LAST queued entry, read
\* before the entry of the same torrent is dropped.
NextSeq == IF items = <<>> THEN 0 ELSE Last(items).seq + 1

\* Slip: a plain FIFO.
InsertedLast(s, new) == Append(s, new)

\* Insert new in front of the first entry it must precede.
Inserted(s, new) ==
    LET later == {i \in DOMAIN s : After(s[i], new)}
        pos   == IF later = {} THEN Len(s) + 1
                 ELSE CHOOSE i \in later : \A j \in later : i <= j
    IN  InsertAt(s, pos, new)

AddOrReplace(h, e, delay) ==
    /\ calls < MaxCalls
    /\ items' = Inserted(Retained(h),
                    [torrent |-> h, event |-> e,
                     releaseAt |-> now + delay, seq |-> NextSeq])
    /\ calls' = calls + 1
    /\ UNCHANGED <<now, out>>

\* Slip: strict comparison with the clock.
DuePrefixStrict ==
    LET notDue == {i \in DOMAIN items : items[i].releaseAt >= now}
    IN  IF notDue = {} THEN Len(items)
        ELSE (CHOOSE i \in notDue : \A j \in notDue : i <= j) - 1

\* Number of entries get_availables pops: it stops at the first front entry
\* that is not due, whatever is queued behind it.
DuePrefix ==
    LET notDue == {i \in DOMAIN items : items[i].releaseAt > now}
    IN  IF notDue = {} THEN Len(items)
        ELSE (CHOOSE i \in notDue : \A j \in notDue : i <= j) - 1

GetAvailables ==
    /\ out' = SubSeq(items, 1, DuePrefix)
    /\ items' = SubSeq(items, DuePrefix + 1, Len(items))
    /\ UNCHANGED <<now, calls>>

DrainAll ==
    /\ out' = items
    /\ items' = <<>>
    /\ UNCHANGED <<now, calls>>

RemoveEntry(h) ==
    /\ items' = Retained(h)
    /\ UNCHANGED <<now, out, calls>>

Elapse ==
    /\ now < MaxNow
    /\ now' = now + 1
    /\ UNCHANGED <<items, out, calls>>

QueueNext ==
    \/ \E h \in Torrent, e \in Event, d \in Delays : AddOrReplace(h, e, d)
    \/ GetAvailables
    \/ DrainAll
    \/ \E h \in Torrent : RemoveEntry(h)
    \/ Elapse

QueueSpec == QueueInit /\ [][QueueNext]_queueVars
-----------------------------------------------------------------------------
\* What comes out next for each torrent, order and time forgotten.
PendingOf(s) ==
    [h \in Torrent |->
        LET own == {i \in DOMAIN s : s[i].torrent = h}
        IN  IF own = {} THEN NoRequest
            ELSE s[CHOOSE i \in own : \A j \in own : i <= j].event]

\* The queue implements the replacing map the engine is written against: a
\* request is dropped only by a drain, a removal or a newer request of the same
\* torrent, and the newer request always wins (delay_queue.rs:6-12).  Were an
\* older one left in the queue, it would come out first.
Abstract == INSTANCE ReplacingQueue WITH pending <- PendingOf(items)
ImplementsReplacingQueue == Abstract!Spec

\* A drain leaves nothing that is due, and hands out what it takes in
\* release-time order.  get_availables looks at the front only, so this needs
\* every insertion to keep the deque ordered, whatever was replaced or removed
\* in between (delay_queue.rs:9-10, 86, 98-116).
DrainsTheDueInOrder ==
    [][ /\ GetAvailables => \A i \in DOMAIN items' : items'[i].releaseAt > now
        /\ GetAvailables \/ DrainAll =>
             \A i, j \in DOMAIN out' : i < j => out'[i].releaseAt <= out'[j].releaseAt ]_queueVars
=============================================================================
