CONSTANTS
    Torrent = {a, b}
    Task = {t1, t2}
    NoTask = NoTask
    MaxConcurrentAnnounces = 1
    NoRequest = NoRequest
    NoTorrent = NoTorrent
    Job = {j1, j2}
    Seed = 1
    KeepTorrentWithZeroLeechers = FALSE
    Unusable = {b}
    Outcome = {"ok", "noPeers", "ratio"}
    UserAction = {"deleteFile", "announceAll"}
SYMMETRY OrchestratorSymmetry
VIEW OrchestratorView
SPECIFICATION Spec
CHECK_DEADLOCK FALSE
PROPERTY ForgottenOnlyByLateDeny
