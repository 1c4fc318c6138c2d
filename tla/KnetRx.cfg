SPECIFICATION FairSpec
CONSTANTS
    MAX_RX_DCBS = 3
    Bufs = {b1, b2, b3}
    NoBuf = NoBuf
    Budget = 3
    Sites = {"late", "api"}
    QuietResets = TRUE
    AbortClears = FALSE
    ApiChainLen = 1
    Overlap = FALSE
    MaxApiChains = 1
    MaxResets = 1
INVARIANTS
    RxAccounting
    BufferOwnership
    EngineOnBuffer
    NothingOverwritten
    RestartDue
    TakenInOrder
PROPERTIES
    SuspendHolds
    PacketsTaken
    ChannelRestarts
