SPECIFICATION Spec
CONSTANTS
  visitor = visitor
  operator = operator
  bls = bls
  Container = {c1, c2}
  Query = {q1, q2}
  Source = {bls}
  Caller = {visitor, operator}
  LastDay = 2
  Workload <- Traffic
  ServiceDaily <- Closed
  UpstreamDaily <- Upstream
  ToolCallsDaily <- ToolCalls
  NoLimit = NoLimit
  Everyone = Everyone
  AllSources = AllSources
  NoJob = NoJob
SYMMETRY Symmetric
INVARIANTS NothingPastMax
CHECK_DEADLOCK FALSE
