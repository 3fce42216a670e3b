SPECIFICATION Spec
CONSTANTS
  PendingTurn = PendingTurn
  NoTurn = NoTurn
  Requests = {r1, r2}
  Threads = {t1}
  Turns = {u1, u2}
  Methods <- AllMethods
  Serial = FALSE
  RetryErrors = TRUE
  Timeouts = TRUE
  MaxOutput = 2
SYMMETRY CallSymmetry
INVARIANTS
  TypeOK
  NoStrandedRequest
  NoLeftovers
  MarkerHasOwner
  OneErrorPerThread
CHECK_DEADLOCK FALSE
