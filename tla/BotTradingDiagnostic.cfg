CONSTANTS
    LogCap = 5
    MaxBars = 2
    MaxFails = 2
    MaxAccruals = 1
    MaxEntries = 2
    MaxExposure = 4
    Faults = {"diagnostic"}
SPECIFICATION Spec
INVARIANTS
    NoBlindEntry
