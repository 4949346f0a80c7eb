SPECIFICATION Spec
CONSTANTS
  Requests = {r1, r2}
  Tokens = {t1, t2, t3}
  NoToken = NoToken
  Lifetime = 1
  TxTimeout = 1
  MaxClock = 2
SYMMETRY Symmetry
INVARIANTS
  SignoutEndsSession
CHECK_DEADLOCK FALSE
