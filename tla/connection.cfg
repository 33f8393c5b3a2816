SPECIFICATION Spec
CONSTANTS
    c1 = c1
    c2 = c2
    None = None
    Conns <- TwoConns
    Requests <- MCRequests
    Users <- MCUsers
    SendBuffer = 1
    MaxPackets = 3
    MaxStops = 1
INVARIANTS
    IndInv
    HandedInOrder
    OnlyAuthenticated
    WillIsPublished
PROPERTIES
    SilentEnds
CHECK_DEADLOCK FALSE
