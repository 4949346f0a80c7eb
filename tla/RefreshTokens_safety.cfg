SPECIFICATION FairSpec
CONSTANTS
  Requests = {r1, r2, r3}
  Tokens = {t1, t2, t3}
  NoToken = NoToken
  Lifetime = 1
  TxTimeout = 1
  MaxClock = 3
INVARIANTS
  TypeOK
  RotationIsAtomic
  SuccessorBound
  SessionLifetime
  OneTokenPerSession
PROPERTIES
  RotationEnds
  ImplementsSessions
CHECK_DEADLOCK FALSE
