SPECIFICATION Spec
CONSTANTS
    TunerTypes = {"R820T", "E4000"}
    Freqs = {7000, 100000}
    Thresholds = {24000}
    Rates = {2048, 3200}
    Widths = {0, 300}
    Corrections = {0, 1}
    Xtals = {28799}
    TunerFails = TRUE
INVARIANTS TypeOK TunedWithoutOffset TunerReachable AutoSettles
PROPERTY CallsReturn
