CONSTANTS
    Torrent = {a, b, c}
    Event = {"regular", "stopped"}
    NoRequest = NoRequest
    Delays = {0, 1}
    MaxNow = 1
    MaxCalls = 4
    MaxWord = 40
    Unit = 3
    StepRatio = 5
    Rate = {0, 1, 4, 9, 13, 15}
    Snapshot <- MCSnapshot
    Clicked = {"Name", "Health"}
    LowerCase <- MCLowerCase
    Query = {"", "x"}
    Found <- MCFound
    Rates = {0, 1}
    Seeds = {0, 1}
    Ratios <- MCRatios
    Ports = {0, 80, 70000}
    Client = {"official"}
    Host = "proxy"
    MaxEdits = 2
    Path = {p}
    Content = {t, u}
    Refill = {r}
    MaxEvents = 2
    MaxChanges = 2
    MaxFragments = 6
SYMMETRY Alike
SPECIFICATION Spec
INVARIANT TypeOK
INVARIANT InBand
INVARIANT ReflectIsBouncing
INVARIANT CacheFresh
INVARIANT SettingsRoundTrip
INVARIANT CatalogueMirrorsDisk
INVARIANT PoolHasFiles
INVARIANT ReadersAgree
PROPERTY DrainsTheDueInOrder
PROPERTY ImplementsReplacingQueue
PROPERTY Gentle
CHECK_DEADLOCK FALSE
