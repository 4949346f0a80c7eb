SPECIFICATION AccessSpec
CONSTANTS
  Requests = {r1, r2}
  Keys = {revoked, perms}
  Revoked = revoked
  Perms = perms
  None = None
  MaxItems = 1
  L1TTL = 1
  Lives = {2, 3}
  DefaultTTL = 2
  PermTTL = 2
  AccessLife = 6
  MaxLag = 1
  MaxSets = 3
  MaxClock = 6
SYMMETRY Symmetry
INVARIANTS
  SignoutLasts
CHECK_DEADLOCK FALSE
