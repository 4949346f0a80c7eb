SPECIFICATION TrustSpec
CONSTANTS
  Requests = {r1, r2}
  Keys = {k1, d1}
  Devices = {d1}
  DeviceLife = 3
  None = None
  MaxItems = 1
  L1TTL = 1
  Lives = {1, 3}
  MaxLag = 1
  MaxSets = 2
  MaxClock = 5
SYMMETRY Symmetry
INVARIANTS
  TrustTypeOK
  SizeBound
  AgeBound
  DeletedGoesAway
  TrustEnds
CHECK_DEADLOCK FALSE
