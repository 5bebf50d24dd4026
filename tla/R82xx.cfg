SPECIFICATION Spec
CONSTANTS
    Chips = {"R820T", "R828D"}
    Freqs <- MCFreqs
    Gains = {200}
    Widths = {300}
    FineTunes = {0}
    Locks = {0, 2}
    Tries <- MCTries
    MaxCalls = 4
    MaxFaults <- MCFaults
INVARIANTS TypeOK Coherent TunedAsAsked GainAsAsked FilterAsAsked InputFollows
    PllAccurate
PROPERTY SettingsKept
