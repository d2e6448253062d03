SPECIFICATION Spec
CONSTANTS
  c1 = c1
  c2 = c2
  r1 = r1
  r2 = r2
  r3 = r3
  Container = {c1, c2}
  Request = {r1, r2}
  Home <- Spread
  AgencyLimit = 2
  Reserved = 2
  Minute = 3
  MaxWait = 3
  MaxAttempts = 3
INVARIANTS FleetWithinLimit
