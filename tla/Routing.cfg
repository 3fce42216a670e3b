SPECIFICATION SpecParts
CONSTANTS
  w1 = w1
  t1 = t1
  dir = dir
  NoThread = NoThread
  NoOwner = NoOwner
  NoCwd = NoCwd
  Threads = {t1, t2}
  Workspaces = {w1, w2}
  Cwds = {dir}
  Covers <- InW1
  MaxDeferred = 2
  MaxNotes = 4
  MaxClaims = 2
INVARIANTS
  NothingVanishes
  EvidenceWins
PROPERTIES
  DeliveredInOrder
  HiddenStaysHidden
  ClaimReleasesWithin
