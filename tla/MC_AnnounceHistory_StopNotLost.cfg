CONSTANTS
    Torrent = {a, b}
    Task = {t1, t2}
    NoTask = NoTask
    MaxConcurrentAnnounces = 1
    NoRequest = NoRequest
    NoTorrent = NoTorrent
    Job = {j1, j2}
    Seed = 1
    KeepTorrentWithZeroLeechers = FALSE
    Unusable = {}
    Outcome = {"ok"}
    UserAction = {"deleteFile"}
SYMMETRY OrchestratorSymmetry
VIEW OrchestratorView
SPECIFICATION HSpec
CHECK_DEADLOCK FALSE
INVARIANT StopNotLost
