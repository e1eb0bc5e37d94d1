------------------------- MODULE BandwidthDispatcher -------------------------
(***************************************************************************)
(* bandwidth/dispatcher.rs with weight.rs and stats.rs: two global speeds, *)
(* redrawn every tick, shared among the registered torrents by weight, and *)
(* turned into the upload and download counters announced to trackers.     *)
(*                                                                         *)
(* One mutex guards it, so each method is one action.  Its callers are     *)
(* the tick task; the handler chains of the announces, for which ReadFlag, *)
(* RegisterTorrent and UpdateTorrentPeers are three separate calls; and    *)
(* the user's completed checkbox, handled by seed_manager.rs.  It talks to *)
(* the merger task through a bounded mailbox, by try_send.                 *)
(*                                                                         *)
(* Weights are f64 in the code and exact integers here: rounding errors    *)
(* are not modelled.  A zero-rated download provider is not a case of its  *)
(* own: its speed is 0 (see RandomSpeed).                                  *)
(***************************************************************************)
EXTENDS SpeedBand, FiniteSets, Sequences, SequencesExt

CONSTANTS
    Torrent,
    TotalSize,        \* [Torrent -> bytes]
    Peers,            \* peer counts of responses: records [seeders, leechers]
    Limits,           \* configured bands: [minUp, maxUp, minDown, maxDown]
    TickMs, Second,   \* the tick period and one second, in the same unit
    Capacity,         \* MERGER_POKE_CAPACITY
    Checkable         \* torrents whose checkbox the user touches (bound)

ASSUME DispatcherAssumption ==
    /\ TotalSize \in [Torrent -> 0..MaxWord]
    /\ Peers \subseteq [seeders : Nat, leechers : Nat]
    /\ Limits \subseteq [minUp : Nat, maxUp : Nat, minDown : Nat, maxDown : Nat]
    /\ \A l \in Limits : l.minUp <= l.maxUp /\ l.minDown <= l.maxDown
    /\ TickMs \in Nat
    /\ Second \in Nat \ {0}
    /\ Capacity \in Nat \ {0}
    /\ Checkable \subseteq Torrent

VARIABLES
    seeds,     \* the four maps keyed by registered torrent, as one
    weights,   \* WeightHolder.weights
    total,     \* WeightHolder.total_weight
    speed,     \* [up, down]: the providers' current speeds
    limits,    \* the providers' configured bands
    mailbox,   \* pokes the merger has not received
    joining,   \* [Torrent -> progress of the handler of a started announce]
    checkbox,  \* TorrentStateStore: torrents flagged initially completed
    forcing,   \* [Torrent -> a checkbox change stored but not yet applied]
    marked,    \* registered torrents whose announcer has pending_completed set
    finished   \* history: registered torrents whose download has come to its
               \* end and has not been reset

storeVars == <<joining, checkbox, forcing>>
vars == <<seeds, weights, total, speed, limits, mailbox, storeVars, marked,
          finished>>

Seed == [uploaded : 0..MaxWord, downloaded : 0..MaxWord, left : 0..MaxWord,
         up : Nat, down : Nat]

Rebuild      == <<"rebuild">>        \* SpeedRecomputed and AnnouncerUpdated
Completed(h) == <<"completed", h>>

TypeOK ==
    /\ DOMAIN seeds \subseteq Torrent
    /\ \A h \in DOMAIN seeds :
          /\ seeds[h] \in Seed
          /\ seeds[h].downloaded + seeds[h].left = TotalSize[h]
    /\ DOMAIN weights \subseteq Torrent
    /\ \A h \in DOMAIN weights : weights[h] \in Nat
    /\ total \in Nat
    /\ speed \in [up : 0..MaxWord, down : 0..MaxWord]
    /\ limits \in Limits
    /\ Len(mailbox) <= Capacity
    /\ ToSet(mailbox) \subseteq {Rebuild} \cup {Completed(h) : h \in Torrent}
    /\ joining \in [Torrent -> {"no", "fresh", "complete", "registered"}]
    /\ checkbox \subseteq Torrent
    /\ forcing \in [Torrent -> {"no", "check", "uncheck"}]
    /\ marked \subseteq Torrent
    /\ finished \subseteq DOMAIN seeds

Sampling(l) == [up   : Sampled(Bytes(l.minUp), Bytes(l.maxUp)),
                down : Sampled(Bytes(l.minDown), Bytes(l.maxDown))]

Stepping(s, l) == [up   : Stepped(s.up, Bytes(l.minUp), Bytes(l.maxUp)),
                   down : Stepped(s.down, Bytes(l.minDown), Bytes(l.maxDown))]

Init ==
    /\ seeds = <<>> /\ weights = <<>> /\ total = 0
    /\ limits \in Limits
    /\ speed \in Sampling(limits)
    /\ mailbox = <<>>
    /\ joining = [h \in Torrent |-> "no"]
    /\ checkbox = {}
    /\ forcing = [h \in Torrent |-> "no"]
    /\ marked = {} /\ finished = {}
-----------------------------------------------------------------------------
(* The maps, the split and the counters, as functions of their arguments.  *)

With(f, h, v) == [k \in DOMAIN f \cup {h} |-> IF k = h THEN v ELSE f[k]]
Weight(w, h)  == IF h \in DOMAIN w THEN w[h] ELSE 0

\* PeersAwareWeightCalculator: 100 * leechers * (share of leechers)^2.
PeersWeight(p) ==
    LET all == p.seeders + p.leechers
    IN  IF p.seeders = 0 \/ p.leechers = 0 THEN 0
        ELSE (100 * p.leechers * p.leechers * p.leechers) \div (all * all)

\* Slip the runs must notice: the previous weight is not taken back.
TotalWithAdded(h, w) == total + w

\* total_weight once torrent h weighs w.
TotalWith(h, w) == total - Weight(weights, h) + w

\* Slip: shares rounded up.
ShareUp(budget, w, sum) == IF sum = 0 THEN 0 ELSE (budget * w + sum - 1) \div sum

Share(budget, w, sum) == IF sum = 0 THEN 0 ELSE (budget * w) \div sum

\* Slip: every registered torrent counts as downloading.
DownloadingAll(e) == DOMAIN e

\* Torrents that still have bytes to download; a zero-sized one never has.
Downloading(e) == {h \in DOMAIN e : e[h].downloaded < TotalSize[h]}

\* Slip: the download budget is divided like the upload budget.
SplitByTotal(e, w, sum, s) ==
    [h \in DOMAIN e |->
        [e[h] EXCEPT
            !.up   = Share(s.up, Weight(w, h), sum),
            !.down = IF h \in Downloading(e)
                     THEN Share(s.down, Weight(w, h), sum) ELSE 0]]

\* recompute_speeds: registered torrents e, weights w with cached total sum,
\* global speeds s.  The download budget is divided among the downloading.
Split(e, w, sum, s) ==
    LET active == SumFunctionOnSet([h \in DOMAIN e |-> Weight(w, h)],
                                   Downloading(e))
    IN  [h \in DOMAIN e |->
           [e[h] EXCEPT
               !.up   = Share(s.up, Weight(w, h), sum),
               !.down = IF h \in Downloading(e)
                        THEN Share(s.down, Weight(w, h), active) ELSE 0]]

\* What a speed amounts to in one tick.
PerTick(v) == Saturated(v * TickMs) \div Second

\* Slip: left is not kept in step.
AddedKeepingLeft(e) ==
    [h \in DOMAIN e |->
        LET sum == e[h].downloaded + PerTick(e[h].down)
        IN  [e[h] EXCEPT
                !.uploaded   = Saturated(@ + PerTick(e[h].up)),
                !.downloaded = IF sum > TotalSize[h] THEN TotalSize[h] ELSE sum]]

\* accumulate_traffic: the counters of e after one tick.  Only a torrent with a
\* download speed downloads, and never beyond its size.
Added(e) ==
    [h \in DOMAIN e |->
        LET sum == Saturated(e[h].downloaded + PerTick(e[h].down))
            got == IF sum > TotalSize[h] THEN TotalSize[h] ELSE sum
        IN  [e[h] EXCEPT
                !.uploaded   = Saturated(@ + PerTick(e[h].up)),
                !.downloaded = IF e[h].down = 0 THEN @ ELSE got,
                !.left       = IF e[h].down = 0 THEN @ ELSE TotalSize[h] - got]]

\* Slip: the end of a download is missed when it is hit exactly.
JustCompletedBeyond(e, f) ==
    {h \in Downloading(e) : f[h].downloaded > TotalSize[h]}

\* DownloadEdge::JustCompleted, between the counters e and f.
JustCompleted(e, f) ==
    {h \in Downloading(e) : f[h].downloaded = TotalSize[h]}

\* The mailbox once try_send has been called for each poke of s: what does not
\* fit is dropped.
Sent(m, s) ==
    LET room == Capacity - Len(m)
    IN  m \o SubSeq(s, 1, IF Len(s) < room THEN Len(s) ELSE room)
-----------------------------------------------------------------------------
(* Announce handlers.                                                      *)

\* A started announce succeeded: is_initial_completed...
ReadFlag(h) ==
    /\ joining[h] = "no"
    /\ joining' = [joining EXCEPT ![h] =
                      IF h \in checkbox THEN "complete" ELSE "fresh"]
    /\ UNCHANGED <<seeds, weights, total, speed, limits, mailbox, checkbox,
                   forcing, marked, finished>>

\* ... then register_torrent, with the flag read before...
RegisterTorrent(h) ==
    /\ joining[h] \in {"fresh", "complete"}
    /\ LET done == IF joining[h] = "complete" THEN TotalSize[h] ELSE 0
       IN  seeds' = With(seeds, h, [uploaded |-> 0, downloaded |-> done,
                                    left |-> TotalSize[h] - done,
                                    up |-> 0, down |-> 0])
    /\ joining' = [joining EXCEPT ![h] = "registered"]
    /\ finished' = finished \ {h}
    /\ UNCHANGED <<weights, total, speed, limits, mailbox, checkbox, forcing,
                   marked>>

\* ... then update_torrent_peers.  A regular announce calls it too, whatever has
\* become of the torrent since it was sent.
UpdateTorrentPeers(h, p) ==
    /\ weights' = With(weights, h, PeersWeight(p))
    /\ total' = TotalWith(h, PeersWeight(p))
    /\ seeds' = Split(seeds, weights', total', speed)
    /\ mailbox' = Sent(mailbox, <<Rebuild>>)
    /\ joining' = [joining EXCEPT ![h] = IF @ = "registered" THEN "no" ELSE @]
    /\ UNCHANGED <<speed, limits, checkbox, forcing, marked, finished>>

\* A stopped announce succeeded, or one failure too many.
UnregisterTorrent(h) ==
    /\ weights' = Restrict(weights, DOMAIN weights \ {h})
    /\ total' = TotalWith(h, 0)
    /\ seeds' = Split(Restrict(seeds, DOMAIN seeds \ {h}), weights', total', speed)
    /\ mailbox' = Sent(mailbox, <<Rebuild>>)
    /\ marked' = marked \ {h}
    /\ finished' = finished \ {h}
    /\ UNCHANGED <<speed, limits, storeVars>>

\* MergerPokeNotifier, after every announce.
AnnouncerUpdated ==
    /\ mailbox' = Sent(mailbox, <<Rebuild>>)
    /\ UNCHANGED <<seeds, weights, total, speed, limits, storeVars, marked,
                   finished>>
-----------------------------------------------------------------------------
(* The tick, the configuration and the merger.                             *)

\* on_tick: step both providers, split, credit; when a download came to its end,
\* split again and poke, in the map's arbitrary order.
Tick ==
    /\ speed' \in Stepping(speed, limits)
    /\ LET before == Split(seeds, weights, total, speed')
           after  == Added(before)
           done   == JustCompleted(before, after)
       IN  /\ seeds' = IF done = {} THEN after
                       ELSE Split(after, weights, total, speed')
           /\ \E order \in SetToSeqs(done) :
                 mailbox' = Sent(mailbox,
                     (IF done = {} THEN <<Rebuild>> ELSE <<Rebuild, Rebuild>>)
                     \o [i \in DOMAIN order |-> Completed(order[i])])
    /\ finished' = finished \cup
                   {h \in Downloading(seeds) : h \notin Downloading(seeds')}
    /\ UNCHANGED <<weights, total, limits, storeVars, marked>>

\* update_limits, of the public interface.
UpdateLimits(l) ==
    /\ limits' = l
    /\ speed' = [up   |-> Clamped(speed.up, Bytes(l.minUp), Bytes(l.maxUp)),
                 down |-> Clamped(speed.down, Bytes(l.minDown), Bytes(l.maxDown))]
    /\ UNCHANGED <<seeds, weights, total, mailbox, storeVars, marked, finished>>

RefreshCurrentBandwidth ==
    /\ speed' \in Sampling(limits)
    /\ seeds' = Split(seeds, weights, total, speed')
    /\ mailbox' = Sent(mailbox, <<Rebuild>>)
    /\ UNCHANGED <<weights, total, limits, storeVars, marked, finished>>

\* The merger receives one poke; a completed torrent gets its announcer marked.
Merge ==
    /\ mailbox # <<>>
    /\ mailbox' = Tail(mailbox)
    /\ marked' = marked \cup
                 {h \in DOMAIN seeds : Head(mailbox) = Completed(h)}
    /\ UNCHANGED <<seeds, weights, total, speed, limits, storeVars, finished>>
-----------------------------------------------------------------------------
(* The completed checkbox: SeedManager::set_torrent_initial_completed.     *)

\* The store's map is updated, and its file is about to be written.  The user's
\* commands run one by one.
StoreFlag(h, completed) ==
    /\ h \in Checkable
    /\ \A k \in Torrent : forcing[k] = "no"
    /\ checkbox' = IF completed THEN checkbox \cup {h} ELSE checkbox \ {h}
    /\ forcing' = [forcing EXCEPT ![h] = IF completed THEN "check" ELSE "uncheck"]
    /\ UNCHANGED <<seeds, weights, total, speed, limits, mailbox, joining,
                   marked, finished>>

\* The file cannot be written: the error is returned and nothing else is done.
PersistFails(h) ==
    /\ forcing[h] # "no"
    /\ forcing' = [forcing EXCEPT ![h] = "no"]
    /\ UNCHANGED <<seeds, weights, total, speed, limits, mailbox, joining,
                   checkbox, marked, finished>>

\* force_initial_completed on a torrent that is not registered: nothing.
ForceAbsent(h) ==
    /\ h \notin DOMAIN seeds
    /\ PersistFails(h)

\* force_initial_completed, and the poke, or failing that the call, that marks
\* the announcer if the torrent was not already done.
ForceInitialCompleted(h) ==
    /\ forcing[h] # "no" /\ h \in DOMAIN seeds
    /\ LET check   == forcing[h] = "check"
           wasDone == /\ seeds[h].left = 0
                      /\ seeds[h].downloaded = TotalSize[h] /\ TotalSize[h] > 0
           got     == IF check THEN TotalSize[h] ELSE 0
           poked   == Sent(mailbox, <<Rebuild>>)
           flipped == check /\ ~wasDone
           full    == Len(poked) = Capacity
           forced  == [seeds EXCEPT ![h].downloaded = got,
                                    ![h].left = TotalSize[h] - got]
       IN  /\ seeds' = Split(forced, weights, total, speed)
           /\ mailbox' = IF flipped THEN Sent(poked, <<Completed(h)>>) ELSE poked
           /\ marked' = IF flipped /\ full THEN marked \cup {h} ELSE marked
           /\ finished' = IF flipped THEN finished \cup {h}
                          ELSE IF check THEN finished ELSE finished \ {h}
    /\ forcing' = [forcing EXCEPT ![h] = "no"]
    /\ UNCHANGED <<weights, total, speed, limits, joining, checkbox>>

Next ==
    \/ \E h \in Torrent :
          \/ ReadFlag(h) \/ RegisterTorrent(h) \/ UnregisterTorrent(h)
          \/ \E p \in Peers : UpdateTorrentPeers(h, p)
          \/ \E completed \in BOOLEAN : StoreFlag(h, completed)
          \/ PersistFails(h) \/ ForceAbsent(h) \/ ForceInitialCompleted(h)
    \/ AnnouncerUpdated \/ Tick \/ Merge
    \/ RefreshCurrentBandwidth
    \/ \E l \in Limits : UpdateLimits(l)

Spec == Init /\ [][Next]_vars
-----------------------------------------------------------------------------
Sum(field(_), S) == SumFunctionOnSet([h \in S |-> field(h)], S)

\* The cached total is the sum of the weights, through updates of known and
\* unknown torrents and removals (weight.rs:66-84).
WeightsAddUp == total = SumFunction(weights)

\* A torrent that has downloaded everything takes no download budget, however it
\* got there: by a tick, by the checkbox, by registration (dispatcher.rs:86-88).
CompletedTakesNoDownload ==
    \A h \in DOMAIN seeds :
        seeds[h].downloaded = TotalSize[h] => seeds[h].down = 0

\* One tick credits all torrents together with no more than one tick of the
\* global speeds, although shares, counters and weights change around it
\* (dispatcher.rs:10-15).
CreditWithinBudget ==
    [][Tick =>
        /\ Sum(LAMBDA h : seeds'[h].uploaded - seeds[h].uploaded, DOMAIN seeds)
              <= PerTick(speed'.up)
        /\ Sum(LAMBDA h : seeds'[h].downloaded - seeds[h].downloaded, DOMAIN seeds)
              <= PerTick(speed'.down)]_vars

\* The budget the torrents in S are left without is a rounding remainder.
Used(budget, field(_), S) == budget < Sum(field, S) + Cardinality(S)

Weighted(S) == {h \in S : Weight(weights, h) > 0}

\* After a tick the download budget is handed out, but for rounding, as long as
\* a torrent that downloads has a weight: none is "silently lost on completed
\* torrents" (dispatcher.rs:86-88).
DownloadBudgetUsed ==
    [][Tick => LET S == Weighted(Downloading(seeds'))
               IN  S # {} => Used(speed'.down, LAMBDA h : seeds'[h].down, S)]_vars

\* Completed torrents whose announcer knows, or will know from the mailbox.
Reported(h) == h \in marked \/ Completed(h) \in ToSet(mailbox)

\* The end of a download is forgotten in one case only: there was no room for
\* its poke.  Once in the mailbox it reaches the announcer, unless the torrent
\* leaves first; the checkbox never loses it (seed_manager.rs:354-362).
CompletionKept ==
    [][\A h \in finished' :
          ~Reported(h)' =>
             \/ h \in finished /\ ~Reported(h)
             \/ Tick /\ Len(mailbox') = Capacity]_vars

=============================================================================
