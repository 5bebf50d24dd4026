SPECIFICATION FairSpec
CONSTANTS
    BufNum = 2
    Reader = reader
    Cancellers = {c1}
    CallbackCancels = FALSE
    AppWaits = FALSE
    Faults <- NoFaults
    MaxRuns = 2
PROPERTIES
    SamplesFlow
\* All calls made, or the device closed: nothing is left to do.
CHECK_DEADLOCK FALSE
