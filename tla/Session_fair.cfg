SPECIFICATION FairSpec
CONSTANTS
  PendingTurn = PendingTurn
  NoTurn = NoTurn
  Requests = {r1, r2}
  Threads = {t1}
  Turns = {u1, u2}
  Methods = {"turn/start", "turn/steer"}
  Serial = TRUE
  RetryErrors = FALSE
  Timeouts = FALSE
  MaxOutput = 2
INVARIANTS
  LiveTurnTracked
  DeadTurnReported
PROPERTIES
  StoppedCallsReturn
CHECK_DEADLOCK FALSE
