SPECIFICATION Spec
CONSTANTS
  Conns = {c1, c2, c3}
  MaxSignals = 2
INVARIANTS
  LifecycleTypeOK
  GracefulExit
PROPERTIES
  AnswersDontWait
  Drains
CHECK_DEADLOCK FALSE
