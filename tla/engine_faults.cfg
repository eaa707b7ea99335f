SPECIFICATION FairSpec
CONSTANTS
  Keys = {k1}
  NoKey = NoKey
  Callers = {c1, c2}
  Refreshers = {r1, r2}
  MaxExecutes = 2
  MaxConcurrentRefreshes = 1
  MarkerMayExpire = TRUE
  SetMayFail = TRUE
  RereadMayFail = TRUE
PROPERTIES
  ExecuteReturns
  ComesToRest
