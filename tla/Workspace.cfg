\* The app may stay off: a state without edits left is no deadlock
CONSTANTS
  Symbols = {s1}
  Groups = {g1}
  s1 = s1
  g1 = g1
  None = None
  MaxDepth = 2
  MaxBroadcast = 1
  MaxEdits = 2
  MaxSaves = 1
SPECIFICATION FairSpec
INVARIANT TypeOK
PROPERTIES RestoreKeepsTheLayout EditsAreSaved LinkedInLockstep
