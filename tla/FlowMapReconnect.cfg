SPECIFICATION Spec
CONSTANTS
  Panes = {a}
  Keys = {1}
  MaxConns = 2
  MaxStarts = 2
  MaxColumns = 2
  MaxEpoch = 0
  MaxCrashes = 0
  MaxSessions = 1
  QueueCap = 2
  SnapshotCols = 1
  Backfill = 1
  MaxCalls = 1
  MaxCuts = 1
  a = a
INVARIANT OnlyResendsAreSwallowed
CHECK_DEADLOCK FALSE
