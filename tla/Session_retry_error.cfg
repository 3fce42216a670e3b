SPECIFICATION Spec
CONSTANTS
  PendingTurn = PendingTurn
  NoTurn = NoTurn
  Requests = {r1, r2}
  Threads = {t1}
  Turns = {u1}
  Methods = {"turn/start"}
  Serial = TRUE
  RetryErrors = TRUE
  Timeouts = FALSE
  MaxOutput = 2
INVARIANTS
  LiveTurnTracked
CHECK_DEADLOCK FALSE
