SPECIFICATION Spec
CONSTANTS
    MAX_TX_DCBS = 3
    Netifs = {n1}
    Skbs = {s1, s2, s3}
    NoSkb = NoSkb
    BaseDevSuspend = TRUE
    RxTraffic = FALSE
    QuietResets = TRUE
    AbortClears = TRUE
    MaxApiChains = 2
    MaxResets = 0
INVARIANT NoOverrun
