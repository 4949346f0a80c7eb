SPECIFICATION Spec
CONSTANTS
  Requests = {r1, r2, r3}
  MaxCodes = 2
  MaxAttempts = 2
  CodeLife = 1
  AccessLife = 2
  MaxLost = 1
  MaxClock = 2
SYMMETRY Symmetry
INVARIANTS
  TypeOK
  GuessBound
  OneSessionPerCode
  SessionsEarned
  MailedIsStored
CHECK_DEADLOCK FALSE
