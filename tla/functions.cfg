SPECIFICATION Spec
CONSTANTS
    SizeWrap = 16
    CodeWrap = 16
    MaxFrame = 30
    CompressMin = 2
    IntSpan = 64
    Int32Max = 1000000
    Second = 3
    MaxBody = 2
INVARIANTS
    
    
    
    RequestsAreAccounted
    TokensFollowSecret
    
CHECK_DEADLOCK FALSE
