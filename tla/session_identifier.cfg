CONSTANTS
    Conns = {c1, c2}
    NoClient = NoClient
    Router = Router
    Topics = {t1}
    MaxU16 = 2
    ClientMids = {}
    Retained <- MCNoRetained
    Disciplined = TRUE
    MaxMsgs = 3
    MaxGeneration = 1
    MaxRowId = 3
SPECIFICATION Spec
SYMMETRY Symmetric
INVARIANT IdentifierNonZero
