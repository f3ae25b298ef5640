CONSTANTS
    Caller = {c1, c2}
    MaxRuntime = 2
    MaxConcurrency = 1
    Limited = TRUE
    Capacity = 1
    Threshold = 2
SPECIFICATION FairSpec
INVARIANTS
    ProbeHasOwner
    ClosedBelowThreshold
PROPERTIES
    HalfOpenResolves
