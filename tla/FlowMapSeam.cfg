SPECIFICATION Spec
CONSTANTS
  Panes = {a, b}
  Keys = {1}
  MaxConns = 3
  MaxStarts = 2
  MaxColumns = 3
  MaxEpoch = 1
  MaxCrashes = 0
  MaxSessions = 1
  QueueCap = 2
  SnapshotCols = 2
  Backfill = 1
  MaxCalls = 2
  MaxCuts = 1
  a = a
  b = b
SYMMETRY Symmetry
INVARIANTS TypeOK SeamIsExact EpochsAreKnown OwnCursorIsExact
CHECK_DEADLOCK FALSE
