SPECIFICATION Spec
CONSTANTS
  Keys = {k1}
  NoKey = NoKey
  Callers = {c1, c2}
  Refreshers = {r1, r2}
  MaxExecutes = 3
  MaxConcurrentRefreshes = 1
  MarkerMayExpire = FALSE
  SetMayFail = TRUE
  RereadMayFail = FALSE
SYMMETRY Symmetry
INVARIANT
  SingleUpstreamCall
