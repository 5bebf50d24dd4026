SPECIFICATION FairSpec
CONSTANTS
    BufNum = 3
    Reader = reader
    Cancellers = {c1}
    CallbackCancels = FALSE
    AppWaits = TRUE
    Faults <- NoFaults
    MaxRuns = 2
INVARIANTS
    NoUseAfterFree
    ReadyAgain
PROPERTIES
    SamplesFlow
    CloseReturns
\* All calls made, or the device closed: nothing is left to do.
CHECK_DEADLOCK FALSE
