SPECIFICATION FairSpec
CONSTANTS
    IoNodes = {n1}
    n1 = n1
    Signals = {"KILL"}
    Events = {}
    MaxPending = 2
PROPERTIES KillEnds
CHECK_DEADLOCK FALSE
