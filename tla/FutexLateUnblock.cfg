SPECIFICATION FSpec
CONSTANTS
    KThreads = {k1, k2, k3}
    k1 = k1
    k2 = k2
    k3 = k3
    Addresses = {"f", "g"}
    Values = {0, 1}
    NULL = NULL
    NumFutex = 3
    FutexCalls <- MCFutexCalls
    Stores <- MCStores
    MaxCalls = 4
    MaxSignals = 1
INVARIANT QueuedIsBlocked
CHECK_DEADLOCK FALSE
