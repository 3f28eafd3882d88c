SPECIFICATION MCSpec
CONSTANTS
    Jobs = {j1, j2}
    j1 = j1
    j2 = j2
    Midplanes = {"m1", "m2"}
    Dims <- PairDims
    Max <- PairMax
    Extent <- RowExtent
    Place <- PairPlace
    Cores = {0, 1}
    IoNodes = {"m1", "m2"}
    Link <- PairLink
    Connected <- PairConnected
    Requests <- AllRequests
    None = None
INVARIANT RemovedBlockKillsJobs
CHECK_DEADLOCK FALSE
