SPECIFICATION Spec
CONSTANTS
    IoNodes = {n1}
    n1 = n1
    Signals = {}
    Events = {}
    MaxPending = 2
PROPERTIES EndedJobKeepsNodes
CHECK_DEADLOCK FALSE
