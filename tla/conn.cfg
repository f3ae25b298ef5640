CONSTANTS
    s1 = s1
    Sender = {s1}
    MaxReq = 3
    LoginNo = 2
    RequiresMAC = TRUE
    ReqCap = 1
    QueueCap = 1
    WireCap = 1
SPECIFICATION FairSpec
INVARIANTS
    HonestIsAccepted
    AnswersInOrder
PROPERTIES
    OnlineIsAuthenticated
    AllGoroutinesEnd
    DeadWriterIsNoticed
CHECK_DEADLOCK FALSE
