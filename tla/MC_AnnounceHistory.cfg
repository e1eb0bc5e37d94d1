CONSTANTS
    Torrent = {a, b}
    Task = {t1, t2}
    NoTask = NoTask
    MaxConcurrentAnnounces = 1
    NoRequest = NoRequest
    NoTorrent = NoTorrent
    Job = {j1, j2}
    Seed = 1
    KeepTorrentWithZeroLeechers = FALSE
    Unusable = {}
    Outcome = {"ok", "ratio"}
    UserAction = {"complete"}
SYMMETRY OrchestratorSymmetry
VIEW OrchestratorView
SPECIFICATION HSpec
CHECK_DEADLOCK FALSE
INVARIANT PoolBound
PROPERTY FirstAnnounceIsStarted
PROPERTY StoppedSentOnce
PROPERTY CompletionLostOnlyByDisplacement
