SPECIFICATION SpecAny
CONSTANTS
  Owners = {o1, o2}
  Resources <- Tree
  MaxClaims = 3
  Calls = {1, 2}
  Fields = {"model", "effort"}
  Verified <- Allowed
  Registrations <- Approvals
  Observations <- Sights
  Lifetime = 2
  MaxKept = 1
  MaxTime = 4
  Documents <- AnyBindings
  Blank <- NoBindings
  Torn = Torn
  None = None
SYMMETRY Symmetric
INVARIANTS
  ClashOnlyByRedeclaring
  EvidenceIsOrderless
  MatchedIsDeserved
PROPERTIES
  FileIsAtomic
CHECK_DEADLOCK FALSE
