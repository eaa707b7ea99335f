SPECIFICATION FairSpec
CONSTANTS
  Keys = {k1, k2}
  Requests = {r1, r2}
  Breakers = {b1, b2, b3}
  None = None
  NoOne = NoOne
  Resetter = Resetter
  FailureThreshold = 1
  Timeout = 0
  MaxKeyBreakers = 1
  MaxResets = 1
INVARIANTS
  TypeOK
  TablesAgree
  MapBounded
  RecordedWhereRead
PROPERTY
  KeysRecover
