SPECIFICATION Spec
CONSTANTS
    MAX_RX_DCBS = 3
    Bufs = {b1, b2, b3}
    NoBuf = NoBuf
    Budget = 2
    Sites = {"api"}
    QuietResets = TRUE
    AbortClears = FALSE
    ApiChainLen = 1
    Overlap = FALSE
    MaxApiChains = 1
    MaxResets = 0
PROPERTY
    SuspendHolds
