SPECIFICATION MCSpec
CONSTANTS
    Threads = {t1, t2, t3}
    t1 = t1
    t2 = t2
    t3 = t3
    None = None
    Rounds = 3
    Generations = 2
    KThreads = {k1, k2, k3}
    k1 = k1
    k2 = k2
    k3 = k3
    Addresses = {"f", "g"}
    Values = {0, 1}
    NULL = NULL
    NumFutex = 3
    FutexCalls <- MCFutexCalls
    Stores <- MCStores
    MaxCalls = 4
    MaxSignals = 1
INVARIANTS
    QueuedIsBlocked NoWaiterLost NoMissedWake TimeoutKeepsWake
PROPERTIES
    ImplementsBarrier AllReturn
    ImplementsQueues SleepEnds
CHECK_DEADLOCK FALSE
