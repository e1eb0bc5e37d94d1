------------------------------ MODULE UIProofs ------------------------------
(***************************************************************************)
(* The torrent table and the settings form, for any snapshots, queries,    *)
(* clients and numbers.                                                    *)
(*                                                                         *)
(* The table.  CacheFresh is not inductive: it says nothing while the key  *)
(* is stale, and a key may become current again.  What is kept is that the *)
(* cached rows were computed from SOME table with the fingerprint in the   *)
(* key; the fingerprint then has to tell any two tables apart.  It does,   *)
(* because the rows of a snapshot have no field that it leaves out but     *)
(* those no filter or order reads, which Row does not have.                *)
(*                                                                         *)
(* The form.  What is kept is what validated_config() has once made sure   *)
(* of: the configuration in the file has no complaint, its client was      *)
(* listed, its proxy is whole.  Rounding the ratio, the only thing the way *)
(* back to the form changes, must not spoil any of it.                     *)
(***************************************************************************)
EXTENDS TorrentTable, ConfigForm, TLAPS

(* The table. *)

\* A TorrentStatus, without last_known_interval, which only its own cell shows.
Row == [hash : Int, name : Int, total : Int, uploaded : Int, downloaded : Int,
        left : Int, up : Int, down : Int, completed : BOOLEAN, seeders : Int,
        leechers : Int, fails : Int, announced : Int]

RowsTyped == torrents \in Seq(Row)

\* The cache holds what was computed for a table with the fingerprint of its key.
CacheInv ==
    \/ cache.key = NoKey
    \/ \E ts \in Seq(Row) :
          /\ cache.key.print = Fingerprint(ts)
          /\ cache.indices = ComputeVisible(ts, cache.key)

TableInv == RowsTyped /\ CacheInv
-----------------------------------------------------------------------------
\* One row is told from another by the fields that are hashed.
LEMMA RowDetermined ==
    ASSUME NEW r \in Row, NEW s \in Row,
           <<r.hash, r.name, r.total, r.uploaded, r.downloaded, r.left, r.up, r.down,
             r.completed, r.seeders, r.leechers, r.fails, r.announced>>
           = <<s.hash, s.name, s.total, s.uploaded, s.downloaded, s.left, s.up, s.down,
               s.completed, s.seeders, s.leechers, s.fails, s.announced>>
    PROVE  r = s
BY DEF Row

\* A table is told from another by its fingerprint.
LEMMA FingerprintInjective ==
    ASSUME NEW ts \in Seq(Row), NEW us \in Seq(Row), Fingerprint(ts) = Fingerprint(us)
    PROVE  ts = us
<1>1. DOMAIN ts = DOMAIN us /\ Len(ts) = Len(us)
  BY DEF Fingerprint
<1>2. ASSUME NEW i \in DOMAIN ts PROVE ts[i] = us[i]
  <2>1. ts[i] \in Row /\ us[i] \in Row
    BY <1>1
  <2>2. Fingerprint(ts)[i] = Fingerprint(us)[i]
    OBVIOUS
  <2> QED
    BY <1>1, <2>1, <2>2, RowDetermined DEF Fingerprint
<1> QED
  BY <1>1, <1>2

LEMMA NoKeyUnused ==
    ASSUME NEW ts \in Seq(Row)
    PROVE  Fingerprint(ts) # NoKey.print
<1>1. NoKey.print = << <<>> >>
  BY DEF NoKey
<1>2. ASSUME Fingerprint(ts) = << <<>> >> PROVE FALSE
  <2>1. 1 \in DOMAIN ts /\ Fingerprint(ts)[1] = <<>>
    BY <1>2 DEF Fingerprint
  <2> QED
    BY <2>1 DEF Fingerprint
<1> QED
  BY <1>1, <1>2

-----------------------------------------------------------------------------
LEMMA CurrentKeyIs ==
    CurrentKey.print = Fingerprint(torrents)
BY DEF CurrentKey

LEMMA CacheFreshFollows == TableInv => CacheFresh
<1> SUFFICES ASSUME TableInv, cache.key = CurrentKey
             PROVE  cache.indices = ComputeVisible(torrents, CurrentKey)
  BY DEF CacheFresh
<1>1. cache.key # NoKey
  BY CurrentKeyIs, NoKeyUnused DEF TableInv, RowsTyped
<1>2. PICK ts \in Seq(Row) :
          /\ cache.key.print = Fingerprint(ts)
          /\ cache.indices = ComputeVisible(ts, cache.key)
  BY <1>1 DEF TableInv, CacheInv
<1>3. ts = torrents
  BY <1>2, CurrentKeyIs, FingerprintInjective DEF TableInv, RowsTyped
<1> QED
  BY <1>2, <1>3

LEMMA DrawKeeps ==
    ASSUME TableInv, Draw
    PROVE  TableInv'
<1>1. RowsTyped'
  BY DEF Draw, TableInv, RowsTyped
<1>2. CASE cache' = cache
  BY <1>1, <1>2 DEF TableInv, CacheInv
<1>3. CASE cache' = [key |-> CurrentKey, indices |-> ComputeVisible(torrents, CurrentKey)]
  <2>1. /\ cache'.key = CurrentKey
        /\ cache'.indices = ComputeVisible(torrents, CurrentKey)
    BY <1>3
  <2>2. torrents \in Seq(Row) /\ cache'.key.print = Fingerprint(torrents)
    BY <2>1, CurrentKeyIs DEF TableInv, RowsTyped
  <2> QED
    BY <1>1, <2>1, <2>2 DEF TableInv, CacheInv
<1> QED
  BY <1>2, <1>3 DEF Draw

LEMMA StepKeeps ==
    ASSUME Snapshot \subseteq Seq(Row), TableInv, [TableNext]_tableVars
    PROVE  TableInv'
<1>1. CASE Draw
  BY <1>1, DrawKeeps
<1>2. ASSUME cache' = cache, RowsTyped' PROVE TableInv'
  BY <1>2 DEF TableInv, CacheInv
<1>3. CASE NewSnapshot
  BY <1>2, <1>3 DEF NewSnapshot, RowsTyped
<1>4. ASSUME NEW i \in DOMAIN torrents, MarkCompleted(i) PROVE TableInv'
  <2>1. torrents[i] \in Row
    BY DEF TableInv, RowsTyped
  <2>2. [torrents[i] EXCEPT !.completed = ~@] \in Row
    BY <2>1 DEF Row
  <2>3. torrents' = [torrents EXCEPT ![i] = [torrents[i] EXCEPT !.completed = ~@]]
    BY <1>4 DEF MarkCompleted
  <2>4. RowsTyped'
    BY <2>2, <2>3 DEF TableInv, RowsTyped
  <2> QED
    BY <1>2, <1>4, <2>4 DEF MarkCompleted
<1>5. CASE \/ \E q \in Query : EditSearch(q)
           \/ ToggleAttention
           \/ \E c \in Clicked : ToggleSort(c)
           \/ UNCHANGED tableVars
  BY <1>2, <1>5 DEF EditSearch, ToggleAttention, ToggleSort, tableVars, TableInv, RowsTyped
<1> QED
  BY <1>1, <1>3, <1>4, <1>5 DEF TableNext

\* The table never shows rows of an older snapshot, filter or order, for any
\* sequence of snapshots, edits and clicks (torrent_table.rs, visible_indices).
THEOREM CacheAlwaysFresh ==
    ASSUME Snapshot \subseteq Seq(Row)
    PROVE  TableSpec => []CacheFresh
<1>1. ASSUME TableInit PROVE TableInv
  <2>1. torrents = <<>> /\ cache = [key |-> NoKey, indices |-> <<>>]
    BY <1>1 DEF TableInit
  <2>2. RowsTyped
    BY <2>1 DEF RowsTyped
  <2>3. CacheInv
    BY <2>1 DEF CacheInv
  <2> QED
    BY <2>2, <2>3 DEF TableInv
<1>2. TableInv /\ [TableNext]_tableVars => TableInv'
  BY StepKeeps
<1> QED
  BY <1>1, <1>2, CacheFreshFollows, PTL DEF TableSpec
-----------------------------------------------------------------------------
(* The form. *)

Field == {"minUp", "maxUp", "minDown", "maxDown", "seed", "ratio", "client",
          "host", "port"}

\* A configuration or a form: a value for every field.
Filled(c) == c = [x \in Field |-> c[x]]

\* What a configuration has been checked for before it is written.
Accepted(c) ==
    /\ Filled(c)
    /\ ProxyIssues(c) = {} /\ NumberIssues(c) = {} /\ Complaints(c) = {}
    /\ c.client \in Client
    /\ c.ratio \in Int

FormInv ==
    /\ Accepted(file)
    /\ Filled(form) /\ form.ratio \in Int
    /\ listed \in {{}, Client}

\* Rounding keeps a ratio that is not negative so, and one decimal as it is.
LEMMA RoundedRatio ==
    ASSUME NEW r \in Int, r \notin {NaN, Infinity}
    PROVE  /\ Rounded(r) \in Int
           /\ r >= 0 => Rounded(r) >= 0
           /\ r % 10 = 0 => Rounded(r) = r
<1>1. CASE r >= 0
  <2>1. Rounded(r) = 10 * ((r + 5) \div 10)
    BY <1>1 DEF Rounded
  <2>. QED  BY <1>1, <2>1
<1>2. CASE r < 0
  <2>1. Rounded(r) = -(10 * ((5 - r) \div 10))
    BY <1>2 DEF Rounded
  <2>. QED  BY <1>2, <2>1
<1>. QED  BY <1>1, <1>2

\* An accepted configuration is accepted again once its ratio is rounded.
LEMMA AcceptedAgain ==
    ASSUME NEW c, Accepted(c), c.ratio \notin {NaN, Infinity}
    PROVE  /\ Issues(FromConfig(c), Client) = {}
           /\ c.ratio % 10 = 0 => FromConfig(c) = c
<1> DEFINE d == FromConfig(c)
<1>1. /\ DOMAIN c = Field /\ DOMAIN d = Field
      /\ d.ratio = Rounded(c.ratio)
      /\ \A x \in Field : x # "ratio" => d[x] = c[x]
  BY DEF FromConfig, Accepted, Filled, Field
<1>2. /\ d.minUp = c.minUp /\ d.maxUp = c.maxUp /\ d.minDown = c.minDown
      /\ d.maxDown = c.maxDown /\ d.seed = c.seed /\ d.client = c.client
      /\ d.host = c.host /\ d.port = c.port
  BY <1>1 DEF Field
<1>3. c.ratio >= 0 \/ c.ratio = Disabled
  BY DEF Accepted, Complaints
<1>4. d.ratio \in Int /\ (d.ratio >= 0 \/ d.ratio = Disabled)
  <2>1. (-100) % 10 = 0
    OBVIOUS
  <2>. QED  BY <1>1, <1>3, <2>1, RoundedRatio DEF Accepted, Disabled, NaN, Infinity
<1>5. c.ratio % 10 = 0 => d = c
  <2>1. c.ratio % 10 = 0 => \A x \in Field : d[x] = c[x]
    BY <1>1, RoundedRatio DEF Accepted
  <2>2. d = [x \in Field |-> d[x]] /\ c = [x \in Field |-> c[x]]
    BY <1>1 DEF FromConfig, Accepted, Filled
  <2>. HIDE DEF d
  <2>. QED  BY <2>1, <2>2
<1>. HIDE DEF d
<1>6. ProxyIssues(d) = {}
  BY <1>2 DEF Accepted, ProxyIssues
<1>7. NumberIssues(d) = {}
  <2>1. Junk \notin {c.minUp, c.maxUp, c.minDown, c.maxDown, c.seed, c.ratio}
    BY DEF Accepted, NumberIssues
  <2>2. d.ratio # Junk
    BY <1>4 DEF Junk, Disabled
  <2>. QED  BY <1>2, <2>1, <2>2 DEF NumberIssues
<1>8. Complaints(d) = {}
  <2>1. /\ ~(c.maxUp < c.minUp) /\ ~(c.maxDown < c.minDown) /\ ~(c.seed < 1)
        /\ c.client # Empty
    BY DEF Accepted, Complaints
  <2>2. ~(d.ratio < 0 /\ d.ratio \notin {NaN, Disabled})
    BY <1>4
  <2>. QED  BY <1>2, <2>1, <2>2 DEF Complaints
<1>9. ClientIssues(d, Client) = {}
  BY <1>2 DEF Accepted, Complaints, ClientIssues
<1>. QED  BY <1>5, <1>6, <1>7, <1>8, <1>9 DEF Issues, d

LEMMA RoundTripFollows == FormInv => SettingsRoundTrip
BY AcceptedAgain DEF FormInv, Accepted, SettingsRoundTrip, Loads

\* A configuration is shown in the form with every field it has.
LEMMA FormShows ==
    ASSUME NEW c, Accepted(c)
    PROVE  Filled(FromConfig(c)) /\ FromConfig(c).ratio \in Int
<1>1. Filled(FromConfig(c)) /\ FromConfig(c).ratio = Rounded(c.ratio)
  BY DEF FromConfig, Accepted, Filled, Field
<1>2. c.ratio \in {NaN, Infinity} => Rounded(c.ratio) \in Int
  BY DEF Rounded, NaN, Infinity
<1>. QED  BY <1>1, <1>2, RoundedRatio DEF Accepted

LEMMA InitFormInv == FormInit => FormInv
<1>. SUFFICES ASSUME FormInit PROVE FormInv
  OBVIOUS
<1>1. /\ file \in [minUp : {0}, maxUp : {1}, minDown : {0}, maxDown : {0}, seed : {1},
                   client : Client, ratio : Ratios, host : {Empty}, port : {NoPort}]
      /\ Complaints(file) = {}
  BY DEF FormInit, Loads
<1>2. Accepted(file)
  <2>1. Filled(file) /\ file.client \in Client /\ file.ratio \in Ratios
    BY <1>1 DEF Filled, Field
  <2>2. ProxyIssues(file) = {}
    BY <1>1 DEF ProxyIssues
  <2>3. NumberIssues(file) = {}
    BY <1>1, FormAssumption DEF NumberIssues, Junk
  <2>. QED  BY <1>1, <2>1, <2>2, <2>3, FormAssumption DEF Accepted
<1>. QED  BY <1>2, FormShows DEF FormInit, FormInv

LEMMA NextFormInv == FormInv /\ [FormNext]_formVars => FormInv'
<1>. SUFFICES ASSUME FormInv, [FormNext]_formVars PROVE FormInv'
  OBVIOUS
<1>1. Accepted(file) /\ Filled(form) /\ form.ratio \in Int
  BY DEF FormInv
<1>2. ASSUME NEW x \in Field, NEW v, x = "ratio" => v \in Int, Type(x, v)
      PROVE  FormInv'
  <2>1. /\ form' = [form EXCEPT ![x] = v]
        /\ file' = file /\ listed' = listed
    BY <1>2 DEF Type
  <2>2. Filled(form') /\ form'.ratio \in Int
    BY <1>1, <1>2, <2>1 DEF Filled, Field
  <2>. QED  BY <2>1, <2>2 DEF FormInv
<1>3. CASE ListClients
  BY <1>3 DEF FormInv, Filled, ListClients
<1>4. CASE ApplyEdited
  <2>1. CASE file' = file
    BY <1>4, <2>1 DEF FormInv, Filled, ApplyEdited
  <2>2. CASE file' = form /\ Issues(form, listed) = {}
    <3>1. ClientIssues(form, listed) = {} /\ ProxyIssues(form) = {}
          /\ NumberIssues(form) = {} /\ Complaints(form) = {}
      BY <2>2 DEF Issues
    <3>2. form.client \in Client
      BY <3>1 DEF ClientIssues, FormInv
    <3>3. Accepted(form)
      BY <1>1, <3>1, <3>2 DEF Accepted
    <3>. QED  BY <1>4, <2>2, <3>3 DEF FormInv, Filled, ApplyEdited
  <2>. QED  BY <1>4, <2>1, <2>2 DEF ApplyEdited
<1>5. CASE Reopen
  BY <1>1, <1>5, FormShows DEF FormInv, Filled, Reopen
<1>6. CASE UNCHANGED formVars
  BY <1>6 DEF FormInv, Filled, formVars
<1>7. ASSUME FormNext, ~ListClients, ~ApplyEdited, ~Reopen
      PROVE  \E x \in Field : \E v : (x = "ratio" => v \in Int) /\ Type(x, v)
  <2>1. Ratios \cup {Junk, NaN, Infinity} \subseteq Int
    BY FormAssumption DEF Junk, NaN, Infinity
  <2>. QED  BY <1>7, <2>1 DEF FormNext, Field
<1>. QED  BY <1>2, <1>3, <1>4, <1>5, <1>6, <1>7

\* Whatever was typed, listed, applied and reopened before: what the form has
\* accepted is loaded again, is accepted again untouched, and is unchanged if
\* its ratio has one decimal.
THEOREM SettingsSurvive == FormSpec => []SettingsRoundTrip
BY InitFormInv, NextFormInv, RoundTripFollows, PTL DEF FormSpec
=============================================================================
