SPECIFICATION Spec
CONSTANTS
    TunerTypes = {"R820T"}
    Freqs = {7000, 100000}
    Thresholds = {24000}
    Rates = {2048, 3200}
    Widths = {0, 300}
    Corrections = {0, 1}
    Xtals = {}
    TunerFails = FALSE
INVARIANT AutoSwitches
