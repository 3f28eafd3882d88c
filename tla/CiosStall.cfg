SPECIFICATION CiosSafety
CONSTANTS
    MaxStarts = 3
    MaxMessages = 3
INVARIANT PreviousIsSending
CHECK_DEADLOCK FALSE
