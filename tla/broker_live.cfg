SPECIFICATION Spec
CONSTANTS
    c1 = c1
    c2 = c2
    c3 = c3
    n1 = n1
    f1 = f1
    Conns <- TwoConns
    Clients = {n1}
    Filters = {f1}
    Ops = {"subscribe", "unsubscribe", "publish"}
    Qos = {0, 1}
    KeepAlive = TRUE
    MaxPackets = 2
    MaxFaults = 1
    MaxSessions = 8
PROPERTIES
    SubscribeEnds
    ConnectEnds
CHECK_DEADLOCK FALSE
