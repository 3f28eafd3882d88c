SPECIFICATION MCSpec
CONSTANTS
    IoNodes = {n1, n2}
    n1 = n1
    n2 = n2
    Signals = {"TERM", "KILL", "HWFAIL"}
    Events = {"failure", "link", "mux", "client", "debug", "block", "restart", "timeout"}
    MaxPending = 2
    Scenarios = {"links", "failures", "restart", "reconnect", "client"}
SYMMETRY Symmetry
INVARIANTS StageOrder CleanRelease OutstandingAnswered NoSilentStall OrphanKilled
CHECK_DEADLOCK FALSE
