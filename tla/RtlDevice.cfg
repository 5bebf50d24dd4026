SPECIFICATION DongleSpec
CONSTANTS
    Tuners = {"R820T", "FC0012", "unknown"}
    CodeLengths = {3}
    BufferSizes = {2, 3}
    Aliased = TRUE
    MaxFaults = 1
    Cells = 2
    Values = {0, 1}
    MaxLen = 3
    MaxErrors = 2
INVARIANTS TypeOK TunerFound ModeAgrees QuietAfterClose PortAgrees
    RateExact NumbersExact EepromWritten
PROPERTIES  CodeKept ReceiverStarts IrServed
