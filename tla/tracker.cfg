SPECIFICATION FairSpec
CONSTANTS
  k1 = k1
  k2 = k2
  Keys = {k1, k2}
  NoKey = NoKey
  Workers = {w1, w2}
  Stoppers = {s1, s2}
  NumShards = 2
  ShardOf <- TwoShards
  TrackerTTL = 0
  RefreshTimeout = 1
  MinTTL = 2
INVARIANTS
  TypeOK
  OneRefreshPerKey
  SizeWithinCall
  StopMeansGone
PROPERTIES
  ImplementsLease
  ExpiredRemoved
  StopEnds
