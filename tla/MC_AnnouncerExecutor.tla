----------------------- MODULE MC_AnnouncerExecutor -----------------------
(* Small instances of the executor for TLC. *)
EXTENDS AnnouncerExecutor, TLC

\* Torrents and task slots are only compared for equality.
ExecutorSymmetry == Permutations(Torrent) \cup Permutations(Task)
=============================================================================
