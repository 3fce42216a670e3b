SPECIFICATION Spec
CONSTANTS
  Threads = {t1, t2}
  Messages = {m1, m2}
  Commands = {m2}
  Steering = TRUE
  Orderly = FALSE
  None = None
SYMMETRY Symmetric
ACTION_CONSTRAINT Within
INVARIANTS
  StoppedStaysStopped
PROPERTY KeepsPromise
CHECK_DEADLOCK FALSE
