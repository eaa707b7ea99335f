SPECIFICATION TrialSpec
CONSTANTS
  Requests = {r1, r2}
  FailureThreshold = 2
  SuccessThreshold = 2
  MaxHalfOpenReqs = 1
  Timeout = 1
  MaxResets = 0
INVARIANT
  HalfOpenLimit
