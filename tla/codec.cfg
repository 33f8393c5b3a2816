SPECIFICATION Spec
CONSTANTS
    Streams <- MCStreams
    Names <- MCNames
    PreAuth = 30
    PostAuth = 2097152
INVARIANTS
    PacketsParse
    DeliversWhatWasSent
    BufferInv
    StreamInv
    WaitsWithinLimit
    NothingHeldBack
CHECK_DEADLOCK FALSE
