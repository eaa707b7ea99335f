SPECIFICATION FairSpec
CONSTANTS
  Attempts = {a1, a2}
  NoAttempt = NoAttempt
  Users = {u1}
  Closers = {c1, c2}
  MaxRewrites = 2
  SuccessLimit = 1
  FailureLimit = 1
INVARIANTS
  TypeOK
  HandleOwned
  GCOnOpenHandle
  CloseMeansClosed
  GCPaced
PROPERTIES
  CloseReturns
  NewReturnsOnCancel
  AbandonedIsClosed
