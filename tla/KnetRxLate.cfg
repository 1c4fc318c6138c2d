SPECIFICATION Spec
CONSTANTS
    MAX_RX_DCBS = 3
    Bufs = {b1, b2, b3}
    NoBuf = NoBuf
    Budget = 3
    Sites = {"both"}
    QuietResets = TRUE
    AbortClears = FALSE
    ApiChainLen = 2
    Overlap = FALSE
    MaxApiChains = 1
    MaxResets = 1
INVARIANT
    RestartDue
