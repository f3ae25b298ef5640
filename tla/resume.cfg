CONSTANTS
    Conn = {c1, c2}
    None = None
    MaxPush = 2
    BufferLimit = 1
    QueueCap = 1
SPECIFICATION FairSpec
INVARIANTS
    
    InOrder
    RightfulResume
PROPERTIES
    WindowCloses
CHECK_DEADLOCK FALSE
