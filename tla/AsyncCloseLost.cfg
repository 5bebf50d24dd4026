SPECIFICATION Spec
CONSTANTS
    BufNum = 2
    Reader = reader
    Cancellers = {c1}
    CallbackCancels = FALSE
    AppWaits = TRUE
    Faults <- DeviceFaults
    MaxRuns = 2
INVARIANTS
    NoUseAfterFree
\* All calls made, or the device closed: nothing is left to do.
CHECK_DEADLOCK FALSE
