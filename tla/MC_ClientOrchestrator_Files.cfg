CONSTANTS
    Torrent = {a}
    Task = {t1, t2}
    NoTask = NoTask
    MaxConcurrentAnnounces = 1
    NoRequest = NoRequest
    NoTorrent = NoTorrent
    Job = {j1}
    Seed = 1
    KeepTorrentWithZeroLeechers = FALSE
    Unusable = {}
    Outcome = {"ok"}
    UserAction = {"complete", "addFile", "deleteFile", "changeFile"}
SYMMETRY OrchestratorSymmetry
VIEW OrchestratorView
SPECIFICATION Spec
CHECK_DEADLOCK FALSE
INVARIANT TypeOK
PROPERTY ForgottenOnlyByLateDeny
