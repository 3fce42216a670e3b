SPECIFICATION SpecParts
CONSTANTS
  c2 = c2
  p2 = p2
  a2 = a2
  Workspaces = {w1, w2}
  Sources = {k}
  Runtimes = {r1, r2, r3}
  Bins = {b1, b2}
  Profiles = {p1, p2}
  Args = {a1, a2}
  Overrides = {a1, a2}
  Connects = {c1, c2}
  Removes = {v}
  Switches = {s}
  Turns = {t1}
  Reviews = {}
  MaxChanges = 2
  Idles = FALSE
  Exits = TRUE
  None = None
SYMMETRY Symmetric
INVARIANTS
  OneProcessPerBin
  NoStrays
PROPERTIES
  SwitchSparesTurns
  PublishedIsTarget
  SwitchLeavesOneMaking
CHECK_DEADLOCK FALSE
