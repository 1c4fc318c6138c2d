SPECIFICATION Spec
CONSTANTS
    MAX_TX_DCBS = 3
    Netifs = {n1}
    Skbs = {s1, s2, s3}
    NoSkb = NoSkb
    BaseDevSuspend = TRUE
    RxTraffic = TRUE
    QuietResets = FALSE
    AbortClears = FALSE
    MaxApiChains = 2
    MaxResets = 1
SYMMETRY Symmetry
INVARIANTS
    TypeOK
    RingAccounting
    SkbOwnership
    NoStrandedWork
