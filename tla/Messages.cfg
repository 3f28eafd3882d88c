SPECIFICATION MCSpec
CONSTANTS
    MaxStarts = 3
    MaxMessages = 3
    Links = {l1, l2}
    Muxes = {1, 2}
    Output <- MCOutput
    PacedJobs = {j1, j2}
    Stages = 3
    ToolNodes = {n1, n2}
    MaxTools = 1
    MaxAsked = 2
    MaxStirred = 1
    Counters = 2
    FifoSize = 2
    Regions = {"x", "y"}
    Workloads <- MCWorkloads
    Environments <- MCEnvironments
    MaxFences = 1
    Producers = {p1, p2, p3}
    QueueSize = 2
    RequestQueueSize = 2
    MaxRequests = 5
INVARIANTS
    FrontInFlight WrittenInOrder NotDeaf CallbackHeld OutputComplete
    PacedOneAtATime EndedForCause
    TotalsAgree BytesAccounted NoEarlyReuse RelatedInOrder
    PacedWithinMax SleepsOnlyWhenDone SlotOwned InOrderOnce
PROPERTIES
    Recovers ReaderResumes PacedJobsEnd HeartbeatEnds
    AllProcessed EveryRequestProcessed
CHECK_DEADLOCK FALSE
