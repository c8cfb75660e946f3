CONSTANTS
    LogCap = 3
    MaxBars = 2
    MaxFails = 1
    MaxAccruals = 1
    MaxEntries = 2
    MaxExposure = 2
    Faults = {"diagnostic", "abort", "lost", "edit", "partialExit", "partialLimit"}
SPECIFICATION Spec
INVARIANTS
    OneTradePerEntry
