SPECIFICATION Spec
CONSTANTS
    Line = 2
    Bases = {}
    PoolSizes = {}
    Sizes = {1, 2, 5}
    Blocks <- MCBlocks
    ReqBlocks = 3
    MoreBlocks = 2
    BlkCntMax = 7
    BlockBytes = 4
    NumDevices = 3
    BusAddresses = {10, 20}
    FirstBlockGiven = TRUE
    Below4GB = TRUE
INVARIANTS
    LargestReturned
