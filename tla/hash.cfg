SPECIFICATION HashSpec
CONSTANTS
    f1 = f1
    f2 = f2
    c1 = c1
    c2 = c2
    Field = {f1, f2}
    Client = {c1, c2}
    Owner <- MCOwner
    Uses <- MCUses
    Modes <- MCModes
    NoList = NoList
    NoEntry = NoEntry
    Saved = {f1}
    MaxWrites = 2
    MaxCalls <- MCCalls
    MaxFailures = 1
INVARIANTS
    HashIsExact
    SavedOrDirty
CHECK_DEADLOCK FALSE
