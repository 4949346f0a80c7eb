SPECIFICATION Spec
CONSTANTS
  Requests = {r1, r2}
  Emails = {e1, e2}
  Names = {n1}
  Generated = {g1}
  None = None
  LinkLife = 0
  MaxUsers = 2
  MaxClock = 1
SYMMETRY Symmetry
PROPERTIES
  UsernameOptional
CHECK_DEADLOCK FALSE
