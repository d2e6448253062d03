SPECIFICATION Spec
CONSTANTS
  c1 = c1
  c2 = c2
  r1 = r1
  r2 = r2
  r3 = r3
  Container = {c1}
  Request = {r1, r2, r3}
  Home <- Alone
  AgencyLimit = 5
  Reserved = 2
  Minute = 5
  MaxWait = 3
  MaxAttempts = 2
SYMMETRY Symmetric
INVARIANTS TypeOK BurstBounded WaitIsHonest
