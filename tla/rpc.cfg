CONSTANTS
    c1 = c1
    c2 = c2
    Node = {n1, n2}
    User = {u1}
    Call = {c1, c2}
    Uses <- RequestAndService
    Slots = 2
    Discovery = TRUE
    InProcess = TRUE
    PushGate = TRUE
    MaxUploads = 1
    None = None
SPECIFICATION Spec
SYMMETRY Symmetry
INVARIANTS
    SlotsBalance
    RemovedIsAvoided
PROPERTIES
    StaysPut
