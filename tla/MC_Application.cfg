CONSTANTS
    a = a
    b = b
    Torrent = {a, b}
    Clicks <- MCClicks
    Stored <- MCStored
    Config = {good, bad}
    Bootable = {good}
    Capacity = 1
    MaxSent = 3
    MaxBoots = 3
    MaxCrashes = 1
SPECIFICATION Spec
CHECK_DEADLOCK FALSE
INVARIANT RunningFlagTruthful
INVARIANT OneEngineOnSavedConfig
INVARIANT FlagSurvives
PROPERTY CleanExit
PROPERTY ApplyEnds
PROPERTY ExitReached
