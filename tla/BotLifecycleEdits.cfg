CONSTANTS
    k1 = k1
    NoOne = NoOne
    Bots = {b1}
    Creds = {k1}
    CredOf <- MCCredOf
    Loops = {t1}
    Callers = {c1}
    MaxEdits = 1
    MaxGen = 2
    ReadFaults = FALSE
SPECIFICATION Spec
PROPERTIES
    EditsAreKept
