SPECIFICATION MCFairSpec
CONSTANTS
    IoNodes = {n1}
    n1 = n1
    Signals = {"TERM", "KILL", "HWFAIL"}
    Events = {"failure", "link", "mux", "client", "debug", "block", "restart", "timeout"}
    MaxPending = 2
    Scenarios = {"losses", "heartbeats"}
PROPERTIES KilledJobEnds FailoverRemoved
CHECK_DEADLOCK FALSE
