--------------------------- MODULE AnnounceQuery ---------------------------
(***************************************************************************)
(* client/bit_torrent_client.rs: the query template of a .client file and  *)
(* how one announce fills it in.  A template is a set of pairs (the text   *)
(* between two '&'); of a pair only the placeholders it holds matter.      *)
(* "unknown" stands for a {...} the program does not know, which it keeps  *)
(* as literal text.                                                        *)
(***************************************************************************)
EXTENDS Naturals

Placeholder == {"infohash", "uploaded", "downloaded", "left", "port", "numwant",
                "peerid", "event", "key", "ip", "ipv6", "unknown"}

Event == {"started", "none", "completed", "stopped"}
Address == {"unknown", "v4", "v6"}

\* An {ipv6} anywhere in the pair decides its family before an {ip} does.
Family(pair) ==
    CASE "ipv6" \in pair -> "v6"
      [] "ipv6" \notin pair /\ "ip" \in pair -> "v4"
      [] OTHER -> "any"

\* Deliberate mistake: the pair is left out of the started announce.
SlipShouldEmit(pair, event, address) ==
    /\ "event" \in pair => event # "started"
    /\ Family(pair) \in {"any", address}

ShouldEmit(pair, event, address) ==
    /\ "event" \in pair => event # "none"
    /\ Family(pair) \in {"any", address}

Emitted(template, event, address) ==
    {pair \in template : ShouldEmit(pair, event, address)}

\* What render() leaves between braces.
Unresolved(pair, address) ==
    (pair \cap {"unknown"})
    \cup (IF address # "v4" THEN pair \cap {"ip"} ELSE {})
    \cup (IF address # "v6" THEN pair \cap {"ipv6"} ELSE {})

\* create_request_query() refuses a query with a placeholder left in it.
TemplateFits(template, event, address) ==
    \A pair \in Emitted(template, event, address) : Unresolved(pair, address) = {}

RequiresKey(template) == \E pair \in template : "key" \in pair

\* What BitTorrentClient::new and the validate() it calls accept.
ValidClient(client) ==
    /\ client.template # {}
    /\ RequiresKey(client.template) => client.key # "ABSENT"
    /\ client.numwant >= 1
    /\ client.numwantOnStop >= 0
=============================================================================
