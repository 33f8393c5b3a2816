SPECIFICATION Spec
CONSTANTS
    c1 = c1
    c2 = c2
    c3 = c3
    n1 = n1
    f1 = f1
    Conns <- ThreeConns
    Clients = {n1}
    Filters = {f1}
    Ops = {"subscribe", "publish"}
    Qos = {1}
    KeepAlive = FALSE
    MaxPackets = 3
    MaxFaults = 1
    MaxSessions = 8
SYMMETRY Symmetry
INVARIANTS
    IndInv
    OneTaskPerSession
    CleanIsolates
    GrantedIsLive
CHECK_DEADLOCK FALSE
