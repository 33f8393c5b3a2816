SPECIFICATION Spec
CONSTANTS
    Streams <- WideStreams
    Names <- WideNames
    PreAuth = 30
    PostAuth = 2097152
INVARIANT
    GoodNamesAreAccepted
CHECK_DEADLOCK FALSE
