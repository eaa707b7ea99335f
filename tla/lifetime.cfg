SPECIFICATION Spec
CONSTANTS
  Width = 64
  Second = 2
  Minute = 6
  MinTTL = 3
  NilTTLs <- SmallNilTTLs
  LegacyTTL = 20
  LegacyOffset = 6
  Writers = {w1}
  Readers = {r1}
  Others = {o1}
  Overrides <- SmallOverrides
  Calculated <- SmallCalculated
  Interval = 1
  Grace = 3
  MaxTime = 6
  SetBacks = 1
CONSTRAINT SetBackAlone
INVARIANTS
  TypeOK
  ClockBounded
  StatusTimely
  StorageTTLTimely
