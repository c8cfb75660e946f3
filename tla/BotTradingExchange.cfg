CONSTANTS
    LogCap = 5
    MaxBars = 3
    MaxFails = 3
    MaxAccruals = 1
    MaxEntries = 3
    MaxExposure = 4
    Faults = {}
SPECIFICATION FairSpec
INVARIANTS
    NoBlindEntry
    FundingIsExact
PROPERTIES
    LedgerSpec
    ExitsAreRetried
