------------------------------ MODULE MC_Parts ------------------------------
(***************************************************************************)
(* Small instances for TLC of the parts that keep to themselves: the delay *)
(* queue, a speed provider, the torrent table, the settings form, the      *)
(* torrent directory and the bencode readers.  They share no state, so a   *)
(* behaviour exercises one of them and leaves the others where they start. *)
(***************************************************************************)
EXTENDS DelayQueue, RandomSpeed, TorrentTable, ConfigForm, TorrentDirectory

CONSTANT MaxFragments    \* of the bencode payload

VARIABLES part, input, fragments, read
-----------------------------------------------------------------------------
(* The table: a pair of rows before and after a failure, and another pair. *)

Row(hash, name, total, downloaded, leechers, fails, announced) ==
    [hash |-> hash, name |-> name, total |-> total, downloaded |-> downloaded,
     uploaded |-> 0, left |-> 0, up |-> 3, down |-> 0, completed |-> FALSE,
     seeders |-> leechers, leechers |-> leechers, fails |-> fails, announced |-> announced]

Half    == Row(11, 1, 2, 1, 1, 0, 5)
Unheard == Row(12, 2, 0, 0, 0, 0, -1)
Whole   == Row(12, 2, 2, 2, -1, 4, 6)

MCSnapshot == {<<Half, Unheard>>, <<[Half EXCEPT !.fails = 1], Unheard>>, <<Whole, Half>>}
MCLowerCase == <<2, 2>>
MCFound     == [q \in Query |-> IF q = "" THEN {} ELSE {1, 12}]
-----------------------------------------------------------------------------
(* The form.  -1.00 is the disabled ratio; 0.04 has two decimals. *)

MCRatios == {-100, -4, 4, 150}
-----------------------------------------------------------------------------
(* Bencode: n is the info key; two values differ, and so do two keys. *)

Fragment == {<<"d">>, <<"l">>, <<"e">>, <<"i", "-">>, <<"0">>,
             <<"1", ":", "n">>, <<"1", ":", "a">>, <<"i", "1", "e">>}
Info == <<"n">>

Readers == INSTANCE Bencode
-----------------------------------------------------------------------------
\* The torrents of the directory's files are not told apart.
Alike == Permutations(Content)
-----------------------------------------------------------------------------
bencodeVars == <<input, fragments, read>>

Part == {"queue", "speed", "table", "form", "directory", "bencode"}

\* A part that is not exercised starts in one of its initial states.
Init ==
    /\ part \in Part
    /\ IF part = "speed" THEN SpeedInit ELSE min = 0 /\ max = 0 /\ current = 0
    /\ FormInit /\ (part # "form" => file.ratio = -100)
    /\ DirInit /\ (part # "directory" => disk = [p \in Path |-> Absent])
    /\ QueueInit /\ TableInit /\ Readers!Init

QueueStep ==
    /\ part = "queue" /\ QueueNext
    /\ UNCHANGED <<part, speedVars, tableVars, formVars, dirVars, bencodeVars>>

SpeedStep ==
    /\ part = "speed" /\ SpeedNext
    /\ UNCHANGED <<part, queueVars, tableVars, formVars, dirVars, bencodeVars>>

TableStep ==
    /\ part = "table" /\ TableNext
    /\ UNCHANGED <<part, queueVars, speedVars, formVars, dirVars, bencodeVars>>

FormStep ==
    /\ part = "form" /\ FormNext
    /\ UNCHANGED <<part, queueVars, speedVars, tableVars, dirVars, bencodeVars>>

DirStep ==
    /\ part = "directory" /\ DirNext
    /\ UNCHANGED <<part, queueVars, speedVars, tableVars, formVars, bencodeVars>>

BencodeStep ==
    /\ part = "bencode" /\ Readers!Next
    /\ UNCHANGED <<part, queueVars, speedVars, tableVars, formVars, dirVars>>

Next == QueueStep \/ SpeedStep \/ TableStep \/ FormStep \/ DirStep \/ BencodeStep

partsVars == <<part, queueVars, speedVars, tableVars, formVars, dirVars, bencodeVars>>

Spec == Init /\ [][Next]_partsVars
-----------------------------------------------------------------------------
TypeOK ==
    /\ part \in Part
    /\ QueueTypeOK /\ SpeedTypeOK
    /\ TableTypeOK /\ FormTypeOK /\ DirTypeOK /\ Readers!TypeOK

\* The parsers and the scanner of bencode.rs speak of the same bytes.
ReadersAgree == Readers!ReadersAgree
=============================================================================
