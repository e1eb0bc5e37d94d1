--------------------------- MODULE MC_Application ---------------------------
(* A small instance of the application: the user changes one torrent, and   *)
(* another one is marked from the start.                                    *)
EXTENDS Application, TLC

CONSTANTS a, b

MCClicks ==
    {Kind(k) : k \in {"list", "add", "stop", "start", "announce"}}
    \cup {c \in Change : c.torrent = a}

MCStored == {{b}}
=============================================================================
