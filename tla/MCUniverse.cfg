CONSTANTS
  Symbols = {s1, s2}
  Anchor = "anchor"
  Getters = {"get"}
  EnrichLimit = 1
  TopN = 2
  Batch = 1
  TTL = 1
  MaxClock = 2
  MaxSyncs = 2
  MaxGets = 1

SPECIFICATION Spec
SYMMETRY Symmetry
CHECK_DEADLOCK FALSE

INVARIANTS
  
  OneSelectionPerSync
PROPERTIES
  FailedIsLastResort
