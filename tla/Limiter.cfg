SPECIFICATION Spec
CONSTANTS
  visitor = visitor
  operator = operator
  bls = bls
  Container = {c1, c2}
  Query = {q1, q2, q3}
  Source = {bls}
  Caller = {visitor, operator}
  LastDay = 2
  Workload <- Traffic
  ServiceDaily <- Daily
  UpstreamDaily <- Upstream
  ToolCallsDaily <- ToolCalls
  NoLimit = NoLimit
  Everyone = Everyone
  AllSources = AllSources
  NoJob = NoJob
SYMMETRY Symmetric
INVARIANTS TypeOK BudgetHeld ShareShieldsService OverIsSound
PROPERTIES RefusalIsJustified BudgetIsKept
CHECK_DEADLOCK FALSE
