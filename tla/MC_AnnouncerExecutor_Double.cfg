CONSTANTS
    Torrent = {a}
    Task = {t1, t2, t3}
    NoTask = NoTask
    MaxConcurrentAnnounces = 2
SPECIFICATION Spec
CHECK_DEADLOCK FALSE
INVARIANT NoDoubleAnnounce
