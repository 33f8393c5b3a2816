CONSTANTS
    Conns = {c1, c2}
    NoClient = NoClient
    Router = Router
    Topics = {}
    MaxU16 = 2
    ClientMids = {}
    Retained <- MCNoRetained
    Disciplined = TRUE
    MaxMsgs = 4
    MaxGeneration = 1
    MaxRowId = 3
SPECIFICATION Spec
VIEW WithoutOut
SYMMETRY Symmetric
INVARIANTS TypeOK QueueIndexed RestartLosesNothing QueueOrdered DupWasSent  
PROPERTY ImplementsMailbox
