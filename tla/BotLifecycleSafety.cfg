CONSTANTS
    k1 = k1
    NoOne = NoOne
    Bots = {b1, b2}
    Creds = {k1}
    CredOf <- MCCredOf
    Loops = {t1, t2}
    Callers = {c1}
    MaxEdits = 1
    MaxGen = 2
    ReadFaults = TRUE
SPECIFICATION Spec
SYMMETRY MCBotSymmetry
INVARIANTS
    OneLoopPerBot
    QuietWhenOff
PROPERTIES
    OnlyEnableEnables
