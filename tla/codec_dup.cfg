SPECIFICATION Spec
CONSTANTS
    Streams <- DupStreams
    Names <- MCNames
    PreAuth = 30
    PostAuth = 2097152
INVARIANT
    DupIsOnTheWire
CHECK_DEADLOCK FALSE
