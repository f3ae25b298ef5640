CONSTANTS
    Key = {k1}
    Client = {c1, c2}
    NoEntry = NoEntry
    NoVal = NoVal
    UseCache = TRUE
    AutoClear = TRUE
    Shutdown = FALSE
    GroupSize = 1
    MaxRev = 1
    MaxGen = 2
    MaxVer = 1
    MaxFaults = 0
SPECIFICATION Spec
SYMMETRY Symmetry
INVARIANTS
    CleanIsDurable
