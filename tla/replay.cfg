CONSTANTS
    Table = {t1, t2}
    MaxRev = 2
    MaxFaults = 3
    MaxCrashes = 2
SPECIFICATION FairSpec
INVARIANTS
    OnePlace
PROPERTIES
    ReplayEnds
CHECK_DEADLOCK FALSE
