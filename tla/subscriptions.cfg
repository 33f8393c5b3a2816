CONSTANTS
    Sessions = {s1, s2}
    Paths <- MCPaths
    TopicNames <- MCTopicNames
    Qos = {0, 1}
    Payloads = {m1}
    NoMessage = NoMessage
    MaxGeneration = 1
    MaxTopicId = 3
SPECIFICATION Spec
SYMMETRY Symmetric
INVARIANTS IndInv TypeOK HeldHasId RowsWellFormed RestartKeepsTree GaugesCount StoredMeansRouted
