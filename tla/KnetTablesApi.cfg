SPECIFICATION Spec
CONSTANTS
    Procs = {p1, p2}
    Ifaces = {i1, i2, i3}
    Filters = {f1, f2}
    Nil = Nil
    NDEVS_CHUNK = 3
    KCOM_FILTER_MAX = 3
    NumRxPrio = 1
    RxChans = 2
    Pkts = {"a", "b"}
    Kfs <- MCKfs
    CbKfs <- MCCbKfs
    use_rx_skb = FALSE
    KnownIdsOnly = TRUE
    MaxFails = 1
SYMMETRY Symmetry
INVARIANTS
    TypeOK
    LookupRight
    NoFreedUse
PROPERTIES
    RightFilter
    DeliveredRight
