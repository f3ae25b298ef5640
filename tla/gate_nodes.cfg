CONSTANTS
    c1 = c1
    c2 = c2
    n1 = n1
    n2 = n2
    Conn = {c1, c2}
    Node = {n1, n2}
    Home <- TwoNodes
    None = None
SPECIFICATION FairSpec
INVARIANTS
    SingleOnline
    
PROPERTIES
    LoginEnds
CHECK_DEADLOCK FALSE
