CONSTANTS
  s1 = s1
  s2 = s2
  Symbols = {s1, s2}
  Retries = 1
  EnoughProposals = 3
  MaxSyncs = 2
  MaxSwitches = 2
  MaxCrashes = 1

SPECIFICATION Spec
SYMMETRY Symmetry
CHECK_DEADLOCK FALSE

INVARIANTS
  MockIsMarked
  CohortsAreTrue
  CompletedBatchIsWhole
