SPECIFICATION Spec
CONSTANTS
    MAX_TX_DCBS = 3
    Netifs = {n1, n2}
    Skbs = {s1, s2, s3}
    NoSkb = NoSkb
    BaseDevSuspend = FALSE
    RxTraffic = TRUE
    QuietResets = TRUE
    AbortClears = TRUE
    MaxApiChains = 2
    MaxResets = 2
SYMMETRY Symmetry
INVARIANTS
    NoOverrun
    NoFalseCompletion
PROPERTY
    ImplementsFifo
