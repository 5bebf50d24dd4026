SPECIFICATION Spec
CONSTANTS
    Rtl = {"dongle1", "dongle2"}
    Other = {"disk"}
    None = "none"
    CanUnplug = TRUE
    CanBeHeld = TRUE
INVARIANTS TypeOK OneAtATime NoLostDevice CrashHasCause
PROPERTY DongleServed
\* Every device came and went, or the application ended: nothing is left to do.
CHECK_DEADLOCK FALSE
