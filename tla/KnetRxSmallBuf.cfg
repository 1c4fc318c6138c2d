SPECIFICATION FairSpec
CONSTANTS
    MAX_RX_DCBS = 2
    Bufs = {b1, b2, b3}
    NoBuf = NoBuf
    Budget = 2
    Sites = {"small"}
    QuietResets = TRUE
    AbortClears = FALSE
    ApiChainLen = 1
    Overlap = FALSE
    MaxApiChains = 1
    MaxResets = 0
PROPERTY
    PacketsTaken
CHECK_DEADLOCK FALSE
