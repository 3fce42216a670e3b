SPECIFICATION SpecAny
CONSTANTS
  w2 = w2
  c2 = c2
  Workspaces = {w1}
  Sources = {k}
  Runtimes = {r1, r2}
  Bins = {b1, b2}
  Profiles = {p1}
  Args = {a1}
  Overrides = {}
  Connects = {c1}
  Removes = {}
  Switches = {s}
  Turns = {t1}
  Reviews = {v1}
  MaxChanges = 1
  Idles = TRUE
  Exits = FALSE
  None = None
PROPERTIES
  AllCallsEnd
CHECK_DEADLOCK FALSE
