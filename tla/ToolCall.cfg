SPECIFICATION Spec
CONSTANTS
  c1 = c1
  home = home
  work = work
  bot = bot
  Nobody = Nobody
  Container = {c1}
  Request = {1, 2}
  Home <- Placed
  Queries <- Making
  Offer <- Asking
  Address = {home, work, bot}
  NetworkOf <- Networks
  Pool = "pool"
  TestRun = {"run"}
  LastDay = 2
  UpstreamShare = 1
  ToolShare = 1
  TestLimit = 1
  ServiceDaily = 3
  OwnDaily = 2
  Elsewhere = 2
INVARIANTS TypeOK AnswersOwnRequest NotesAreOwn SharesArePaid BudgetsCoverQueries ShareAcrossMidnight CallerIsPeer LinesTellOutcome
PROPERTIES EveryRequestEnds
CHECK_DEADLOCK FALSE
