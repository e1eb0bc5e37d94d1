---------------------------- MODULE TorrentTable ----------------------------
(***************************************************************************)
(* ui/torrent_table.rs: which rows of the snapshot the table shows, in     *)
(* which order, and the cache that spares it from working that out in      *)
(* every frame.  The cache is keyed by the filter, the sort order and a    *)
(* fingerprint of the rows, so it is right only while the fingerprint      *)
(* covers every field the filter and the sort read.                        *)
(*                                                                         *)
(* Text is abstract: a row's name is its rank in the exact order of names, *)
(* LowerCase its rank in lower case, and Found says which names and hashes *)
(* a query occurs in.  Hash collisions of the fingerprint are left out.    *)
(***************************************************************************)
EXTENDS Integers, Sequences, SequencesExt, FiniteSets

CONSTANTS
    Snapshot,   \* what the merger publishes: sequences of TorrentStatus records
    Clicked,    \* columns the user sorts by (bound)
    LowerCase,  \* [name -> rank of the lower-case name]
    Query,      \* trimmed, lower-case search texts; "" among them
    Found       \* [Query -> set of names or hashes that contain it]

VARIABLES
    torrents,   \* snapshot.torrents
    search,     \* TableState: search_query, attention_only, sort_column and
    attention,  \*             sort_direction
    column,
    direction,
    cache       \* VisibleTorrentCache: key and visible_indices

tableVars == <<torrents, search, attention, column, direction, cache>>

Column == {"Name", "Progress", "UploadSpeed", "Uploaded", "DownloadSpeed",
           "Downloaded", "Seeders", "Leechers", "LastAnnounce", "Health"}
Direction == {"Ascending", "Descending"}
Unknown == -1     \* None of an Option of a number

OrZero(n) == IF n = Unknown THEN 0 ELSE n

\* progress_fraction() in thousandths; an empty torrent is complete.
ProgressFraction(r) ==
    IF r.total = 0 THEN 1000
    ELSE LET share == (1000 * r.downloaded) \div r.total
         IN IF share > 1000 THEN 1000 ELSE share

NeedsAttention(r) == r.fails > 0 \/ r.leechers = 0 \/ r.announced = Unknown

Severity(r) ==
    CASE r.fails > 3 -> 4
      [] r.fails \in 1..3 -> 3
      [] r.fails = 0 /\ r.leechers = 0 -> 2
      [] OTHER -> IF r.announced = Unknown THEN 1 ELSE 0

\* What a column orders rows by, compared component by component.
SortKey(r, c) ==
    CASE c = "Name"          -> <<LowerCase[r.name]>>
      [] c = "Progress"      -> <<ProgressFraction(r)>>
      [] c = "UploadSpeed"   -> <<r.up>>
      [] c = "Uploaded"      -> <<r.uploaded>>
      [] c = "DownloadSpeed" -> <<r.down>>
      [] c = "Downloaded"    -> <<r.downloaded>>
      [] c = "Seeders"       -> <<OrZero(r.seeders)>>
      [] c = "Leechers"      -> <<OrZero(r.leechers)>>
      [] c = "LastAnnounce"  -> <<r.announced>>
      [] c = "Health"        -> <<Severity(r), r.fails, OrZero(r.leechers)>>

\* The lexicographic order of key tuples.
Precedes(x, y) ==
    \E i \in DOMAIN x : x[i] < y[i] /\ \A j \in 1..(i - 1) : x[j] = y[j]

MatchesSearch(r, query) == query = "" \/ r.name \in Found[query] \/ r.hash \in Found[query]

\* compute_visible_torrent_indices(): filter, then a stable sort by the column
\* with the name, always ascending, as its second key.
ComputeVisible(ts, key) ==
    LET visible == {i \in DOMAIN ts : /\ MatchesSearch(ts[i], key.query)
                                      /\ key.attention => NeedsAttention(ts[i])}
        Before(i, j) ==
            LET x == SortKey(ts[i], key.column)
                y == SortKey(ts[j], key.column)
            IN  IF x # y
                THEN IF key.direction = "Ascending" THEN Precedes(x, y) ELSE Precedes(y, x)
                ELSE \/ ts[i].name < ts[j].name
                     \/ ts[i].name = ts[j].name /\ i < j
    IN  SetToSortSeq(visible, Before)

\* Deliberate mistake: a field the health column and the filter read is missing.
SlipFingerprint(ts) ==
    [i \in DOMAIN ts |->
        <<ts[i].hash, ts[i].name, ts[i].total, ts[i].uploaded, ts[i].downloaded, ts[i].left,
          ts[i].up, ts[i].down, ts[i].completed, ts[i].seeders, ts[i].leechers,
          ts[i].announced>>]

\* torrents_fingerprint(): every field but the announce interval.
Fingerprint(ts) ==
    [i \in DOMAIN ts |->
        <<ts[i].hash, ts[i].name, ts[i].total, ts[i].uploaded, ts[i].downloaded, ts[i].left,
          ts[i].up, ts[i].down, ts[i].completed, ts[i].seeders, ts[i].leechers, ts[i].fails,
          ts[i].announced>>]

CurrentKey ==
    [print |-> Fingerprint(torrents), query |-> search, attention |-> attention,
     column |-> column, direction |-> direction]

\* Fingerprint 0, which no snapshot has.
NoKey == [print |-> << <<>> >>, query |-> "", attention |-> FALSE, column |-> "Name",
          direction |-> "Ascending"]

TableTypeOK ==
    /\ \A i, j \in DOMAIN torrents : torrents[i].hash = torrents[j].hash => i = j
    /\ search \in Query /\ attention \in BOOLEAN
    /\ column \in Column /\ direction \in Direction
    /\ IsInjective(cache.indices)

TableInit ==
    /\ torrents = <<>>
    /\ search = "" /\ attention = FALSE
    /\ column = "Name" /\ direction = "Ascending"
    /\ cache = [key |-> NoKey, indices |-> <<>>]

\* poll_snapshot() takes over a frame of the merger: one row for each torrent.
NewSnapshot ==
    /\ torrents' \in Snapshot
    /\ UNCHANGED <<search, attention, column, direction, cache>>

EditSearch(q) ==
    /\ search' = q
    /\ UNCHANGED <<torrents, attention, column, direction, cache>>

ToggleAttention ==
    /\ attention' = ~attention
    /\ UNCHANGED <<torrents, search, column, direction, cache>>

Toggled(d) == IF d = "Ascending" THEN "Descending" ELSE "Ascending"
DefaultDirection(c) == IF c = "Name" THEN "Ascending" ELSE "Descending"

ToggleSort(c) ==
    /\ column' = c
    /\ direction' = IF c = column THEN Toggled(direction) ELSE DefaultDirection(c)
    /\ UNCHANGED <<torrents, search, attention, cache>>

\* The completed mark of a row changes in the snapshot at hand, before the
\* engine confirms it.
MarkCompleted(i) ==
    /\ torrents' = [torrents EXCEPT ![i].completed = ~@]
    /\ UNCHANGED <<search, attention, column, direction, cache>>

\* visible_indices()
Draw ==
    /\ cache' = IF cache.key = CurrentKey THEN cache
                ELSE [key |-> CurrentKey, indices |-> ComputeVisible(torrents, CurrentKey)]
    /\ UNCHANGED <<torrents, search, attention, column, direction>>

TableNext ==
    \/ NewSnapshot
    \/ \E q \in Query : EditSearch(q)
    \/ ToggleAttention
    \/ \E c \in Clicked : ToggleSort(c)
    \/ \E i \in DOMAIN torrents : MarkCompleted(i)
    \/ Draw

TableSpec == TableInit /\ [][TableNext]_tableVars
-----------------------------------------------------------------------------
\* The table never shows rows of an older snapshot, filter or order: whenever
\* the cache would be used, it holds what would be computed afresh.
CacheFresh ==
    cache.key = CurrentKey => cache.indices = ComputeVisible(torrents, CurrentKey)
=============================================================================
