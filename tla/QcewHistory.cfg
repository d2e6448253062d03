SPECIFICATION Spec
CONSTANTS
  county = county
  metro = metro
  Call = {1, 2}
  Series = {county, metro}
  Last = 4
  Want = 2
  Lookback = 1
  LatestOnly = FALSE
  Concurrency = 2
  Timeout = 2
  Deadline = 3
  Worlds <- Lagging
  Plans <- Asking
  Pending = Pending
INVARIANTS TypeOK NoSilentGap AskAgain NothingOutlivesAnswer
PROPERTIES EveryCallEnds
CHECK_DEADLOCK FALSE
