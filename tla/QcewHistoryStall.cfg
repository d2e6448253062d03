SPECIFICATION Spec
CONSTANTS
  county = county
  metro = metro
  Call = {1}
  Series = {county, metro}
  Last = 4
  Want = 2
  Lookback = 1
  LatestOnly = FALSE
  Concurrency = 2
  Timeout = 3
  Deadline = 4
  Worlds <- Lagging
  Plans <- Once
  Pending = Pending
INVARIANTS StallGivesPartial
CHECK_DEADLOCK FALSE
