CONSTANTS
    Conns = {c1, c2}
    NoClient = NoClient
    Router = Router
    Topics = {t1}
    MaxU16 = 2
    ClientMids = {0, 1}
    Retained <- MCRetained
    Disciplined = FALSE
    MaxMsgs = 1
    MaxGeneration = 1
    MaxRowId = 1
SPECIFICATION Spec
SYMMETRY Symmetric
INVARIANTS IndInv RestartLosesNothing 
PROPERTIES QoS2Once NoSessionMeansNone
