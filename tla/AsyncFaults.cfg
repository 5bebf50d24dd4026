SPECIFICATION Spec
CONSTANTS
    BufNum = 3
    Reader = reader
    Cancellers = {c1}
    CallbackCancels = TRUE
    AppWaits = TRUE
    Faults <- DeviceFaults
    MaxRuns = 2
INVARIANTS
    TypeOK
    BuffersHome
    FlagMeansCancel
PROPERTIES
    KeepsContract
\* All calls made, or the device closed: nothing is left to do.
CHECK_DEADLOCK FALSE
