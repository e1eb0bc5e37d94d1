CONSTANTS
    Torrent = {a}
    Task = {t1, t2}
    NoTask = NoTask
    MaxConcurrentAnnounces = 1
    NoRequest = NoRequest
    NoTorrent = NoTorrent
    Job = {j1, j2}
    Seed = 1
    KeepTorrentWithZeroLeechers = FALSE
    Unusable = {}
    Outcome = {"ok"}
    UserAction = {"complete"}
SYMMETRY OrchestratorSymmetry
VIEW OrchestratorView
SPECIFICATION Spec
CHECK_DEADLOCK FALSE
INVARIANT LiveHasWork
