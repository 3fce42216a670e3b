SPECIFICATION FairSpec
CONSTANTS
  Threads = {t1}
  Messages = {m1, m2}
  Commands = {}
  Steering = FALSE
  Orderly = TRUE
  None = None
INVARIANT OneAtATime
PROPERTIES
  LineKeepsOrder
  QueueDrains
CHECK_DEADLOCK FALSE
