SPECIFICATION FairSpec
CONSTANTS
    BufNum = 2
    Reader = reader
    Cancellers = {c1}
    CallbackCancels = TRUE
    AppWaits = TRUE
    Faults <- NoFaults
    MaxRuns = 2
PROPERTIES
    CloseReturns
\* All calls made, or the device closed: nothing is left to do.
CHECK_DEADLOCK FALSE
