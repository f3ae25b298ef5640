SPECIFICATION FairReload
CONSTANTS
    Type = {t1}
    Reader = {r1, r2}
    Watcher = {w1}
    Hand = hand
    Loader = loader
    None = None
    Bad = Bad
    Empty = Empty
    MaxRev = 2
    MaxManual = 1
PROPERTIES
    GoodStays
    FreshInTheEnd
CHECK_DEADLOCK FALSE
