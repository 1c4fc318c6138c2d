SPECIFICATION Spec
CONSTANTS
    NumDevices = 3
    Partitions <- MCPartitions
    TotalSize = 5
    Sizes = {1, 2, 4}
    OneAttach = TRUE
    OneVersion = TRUE
    SameSize = TRUE
    SamePartition = FALSE
INVARIANTS
    OwnEvents
