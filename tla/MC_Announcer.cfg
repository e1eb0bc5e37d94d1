CONSTANTS
    a = a
    b = b
    c = c
    u1 = u1
    u2 = u2
    udp = udp
    Torrent = {a, b, c}
    Task = {k1, k2}
    Uri = {u1, u2, udp}
    Http = {u1, u2}
    Announce <- MCAnnounce
    Tiers <- MCTiers
    Clients <- MCClients
    Addresses = {"v6"}
    RefreshEvery = 2
    Ttl = 2
    MaxConsecutiveFailures = 2
    MaxQueries = 3
    MaxTime = 3
SYMMETRY TaskSymmetry
SPECIFICATION Spec
CHECK_DEADLOCK FALSE
INVARIANT GivesUpOnlyAfterTryingAll
INVARIANT TemplateErrorsShowAtFirstUse
PROPERTY RetrySeesAnotherTracker
PROPERTY PolicyKept
