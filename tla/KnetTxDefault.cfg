SPECIFICATION FairSpec
CONSTANTS
    MAX_TX_DCBS = 3
    Netifs = {n1}
    Skbs = {s1, s2, s3}
    NoSkb = NoSkb
    BaseDevSuspend = FALSE
    RxTraffic = TRUE
    QuietResets = TRUE
    AbortClears = TRUE
    MaxApiChains = 1
    MaxResets = 2
INVARIANTS
    NoOverrun
    NoFalseCompletion
PROPERTIES
    ImplementsFifo
    PacketsLeave
    QueuesResume
