SPECIFICATION SpecParts
CONSTANTS
  s1 = s1
  Sends = {s1, s2}
  Autos = {a1}
  Steering = TRUE
  MaxStops = 1
  Unset = Unset
  None = None
  Pending = Pending
INVARIANTS
  Agrees
  RecordFollows
PROPERTIES
  StopHolds
  StopEndsInTime
  RetryInTime
CHECK_DEADLOCK FALSE
