--------------------------- MODULE MC_Announcer ---------------------------
(* A small instance of the announcers: one torrent with two trackers in two *)
(* tiers, one with a single tracker, one with none over http.               *)
EXTENDS Announcer

CONSTANTS a, b, c, u1, u2, udp

MCAnnounce == (a :> udp) @@ (b :> u1) @@ (c :> udp)
MCTiers == (a :> << <<u1>>, <<udp, u2>> >>) @@ (b :> << <<>> >>) @@ (c :> <<>>)

Plain == {{"infohash"}, {"peerid"}, {"event"}}
WithKey == Plain \cup {{"key"}}
WithAddress == Plain \cup {{"ip"}, {"ipv6"}}
BadAddress == Plain \cup {{"ip", "ipv6"}}
BadEvent == Plain \cup {{"event", "unknown"}}

Profile(peerPolicy, keyPolicy, template) ==
    [peerId |-> peerPolicy, key |-> keyPolicy, template |-> template,
     numwant |-> 200, numwantOnStop |-> 0]

\* Every policy; a key drawn under another policy than the peer id; templates
\* that fit, that fit some addresses only and that fit some events only; one
\* that the constructor refuses.
MCClients ==
    {Profile(p, "ABSENT", Plain)
       : p \in {"ALWAYS", "TIMED", "TORRENT_PERSISTENT"}}
    \cup {Profile("TORRENT_VOLATILE", "TIMED_OR_AFTER_STARTED_ANNOUNCE", WithKey),
          Profile("TORRENT_VOLATILE", "ABSENT", BadEvent),
          Profile("TIMED_OR_AFTER_STARTED_ANNOUNCE", "NEVER", WithKey),
          Profile("NEVER", "ABSENT", WithAddress),
          Profile("NEVER", "ABSENT", BadAddress),
          Profile("NEVER", "ABSENT", WithKey)}

\* Tasks are only compared for equality.
TaskSymmetry == Permutations(Task)
=============================================================================
