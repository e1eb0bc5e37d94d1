CONSTANTS
    a = a
    b = b
    Torrent = {a, b}
    TotalSize <- OneEmpty
    Peers <- AllPeers
    Limits <- TwoBands
    MaxWord = 1000
    Unit = 1
    StepRatio = 50
    TickMs = 3
    Second = 2
    Capacity = 2
    Checkable = {a}
VIEW DispatcherView
SPECIFICATION Spec
INVARIANT TypeOK
INVARIANT WeightsAddUp
INVARIANT CompletedTakesNoDownload
PROPERTY CreditWithinBudget
PROPERTY DownloadBudgetUsed
PROPERTY CompletionKept
