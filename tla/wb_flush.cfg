CONSTANTS
    Key = {k1, k2}
    Client = {c1}
    NoEntry = NoEntry
    NoVal = NoVal
    UseCache = FALSE
    AutoClear = FALSE
    Shutdown = TRUE
    GroupSize = 1
    MaxRev = 1
    MaxGen = 2
    MaxVer = 1
    MaxFaults = 1
SPECIFICATION FairSpec
INVARIANTS
    NoLostUpdate
    RemoveSticks
PROPERTIES
    FinalFlushCovers
    ImplementsStore
    EventuallyDurable
