SPECIFICATION SpecAny
CONSTANTS
  Callers = {k1, k2}
  RetrySafe = {k1}
  Nobody = Nobody
  NoConn = NoConn
  NoReply = NoReply
  MaxConns = 2
  QueueSize = 1
  MaxResets = 0
  Impatient = TRUE
INVARIANTS
  RunAtMostOnce
  LossHandledOnce
  OneTransport
PROPERTIES
  CallsEndInTime
CHECK_DEADLOCK FALSE
