CONSTANTS
    Torrent = {a}
    Task = {t1, t2}
    NoTask = NoTask
    MaxConcurrentAnnounces = 1
    NoRequest = NoRequest
    NoTorrent = NoTorrent
    Job = {j1}
    Seed = 1
    KeepTorrentWithZeroLeechers = FALSE
    Unusable = {}
    Outcome = {"ok", "failed", "tooMany"}
    UserAction = {"stop", "deleteFile"}
SPECIFICATION FairSpec
CHECK_DEADLOCK FALSE
PROPERTY LiveIsAnnounced
PROPERTY StopTerminates
