SPECIFICATION FairSpec
CONSTANTS
  Requests = {r1, r2}
  FailureThreshold = 2
  SuccessThreshold = 2
  MaxHalfOpenReqs = 1
  Timeout = 1
  MaxResets = 1
INVARIANTS
  TypeOK
  SlotsExact
  PlacesBounded
PROPERTIES
  Recovers
  Trips
