SPECIFICATION AccessSpec
CONSTANTS
  Requests = {r1, r2}
  Keys = {revoked, perms}
  Revoked = revoked
  Perms = perms
  None = None
  MaxItems = 1
  L1TTL = 1
  Lives = {2, 3}
  DefaultTTL = 2
  PermTTL = 2
  AccessLife = 6
  MaxLag = 1
  MaxSets = 3
  MaxClock = 5
SYMMETRY Symmetry
INVARIANTS
  AccessTypeOK
PROPERTIES
  SuspensionTakesEffect
  SignoutRefuses
CHECK_DEADLOCK FALSE
