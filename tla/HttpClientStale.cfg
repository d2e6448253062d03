SPECIFICATION Spec
CONSTANTS
  Call = {c1, c2}
  Key = {cached, uncached}
  Cacheable = {cached}
  FreshTtl = 1
  StaleTtl = 2
  Timeout = 1
  MaxAttempts = 3
  ErrorLimit = 2
  Minute = 2
  Horizon = 3
  NoEntry = NoEntry

PROPERTIES StaleWithinTtl
