SPECIFICATION FairSpec
CONSTANTS
  Panes = {a, b}
  Keys = {1, 2}
  MaxConns = 3
  MaxStarts = 3
  MaxColumns = 0
  MaxEpoch = 0
  MaxCrashes = 1
  MaxSessions = 1
  QueueCap = 2
  SnapshotCols = 1
  Backfill = 0
  MaxCalls = 3
  MaxCuts = 1
  a = a
  b = b
INVARIANTS FeedsAreHeld FeedLimit CrashIsShown
 
CHECK_DEADLOCK FALSE
