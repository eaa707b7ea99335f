SPECIFICATION Spec
CONSTANTS
  Keys = {k1, k2}
  NoKey = NoKey
  Callers = {c1, c2}
  Refreshers = {r1, r2}
  MaxExecutes = 2
  MaxConcurrentRefreshes = 1
  MarkerMayExpire = FALSE
  SetMayFail = FALSE
  RereadMayFail = FALSE
SYMMETRY Symmetry
INVARIANTS
  CounterMatchesHolders
  RefreshBound
  MarkerOwned
