CONSTANTS
    k1 = k1
    NoOne = NoOne
    Bots = {b1}
    Creds = {k1}
    CredOf <- MCCredOf
    Loops = {t1, t2}
    Callers = {c1, c2}
    MaxEdits = 0
    MaxGen = 2
    ReadFaults = FALSE
SPECIFICATION FairSpec
INVARIANTS
    NeverStuck
PROPERTIES
    DeletedStaysDeleted
    CallsReturn
    OffLoopsEnd
    DisableTakesEffect
    KeepsTicking
