CONSTANTS
    Torrent = {a, b}
    Task = {t1, t2, t3, t4}
    NoTask = NoTask
    MaxConcurrentAnnounces = 2
SPECIFICATION FairSpec
CHECK_DEADLOCK FALSE
INVARIANT PermitsConserved
PROPERTY OrphanedOnlyByAnotherTask
PROPERTY EveryAnnounceEnds
PROPERTY AwaitEnds
