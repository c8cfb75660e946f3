CONSTANTS
  Panes = {a, b}
  MaxStale = 4
  a = a
  b = b
SPECIFICATION FairSpec
INVARIANTS TypeOK OneWayForward LiveIsWatched
PROPERTIES SilenceShows PanesGoLive
