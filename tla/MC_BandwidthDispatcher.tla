---------------------- MODULE MC_BandwidthDispatcher ----------------------
(* Small instances of the dispatcher for TLC. *)
EXTENDS BandwidthDispatcher

CONSTANTS a, b

OneEmpty == [h \in Torrent |-> IF h = a THEN 2 ELSE 0]

NoLeechers   == [seeders |-> 1, leechers |-> 0]
OneLeecher   == [seeders |-> 1, leechers |-> 1]
TwoLeechers  == [seeders |-> 1, leechers |-> 2]

AllPeers  == {NoLeechers, OneLeecher, TwoLeechers}

Band(up0, up1, down0, down1) ==
    [minUp |-> up0, maxUp |-> up1, minDown |-> down0, maxDown |-> down1]

TwoBands   == {Band(3, 3, 2, 2), Band(1, 1, 0, 0)}

\* What has been uploaded decides nothing.
DispatcherView ==
    <<[h \in DOMAIN seeds |-> <<seeds[h].downloaded, seeds[h].up, seeds[h].down>>],
      weights, total, speed, limits, mailbox, storeVars, marked, finished>>
=============================================================================
