SPECIFICATION FairSpec
CONSTANTS
    IoNodes = {n1}
    n1 = n1
    Signals = {}
    Events = {"mux"}
    MaxPending = 2
PROPERTIES ForgottenClientAborts
CHECK_DEADLOCK FALSE
