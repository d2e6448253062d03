SPECIFICATION Spec
CONSTANTS
  county = county
  metro = metro
  Call = {1}
  Series = {county, metro}
  Last = 5
  Want = 2
  Lookback = 1
  LatestOnly = FALSE
  Concurrency = 2
  Timeout = 2
  Deadline = 3
  Worlds <- Sparse
  Plans <- Once
  Pending = Pending
INVARIANTS EveryPeriodAccounted
CHECK_DEADLOCK FALSE
