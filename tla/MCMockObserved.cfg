CONSTANTS
  s1 = s1
  s2 = s2
  Symbols = {s1, s2}
  Retries = 0
  EnoughProposals = 3
  MaxSyncs = 2
  MaxSwitches = 0
  MaxCrashes = 0

SPECIFICATION Spec
CHECK_DEADLOCK FALSE

INVARIANTS
  SuggestionsCountReal
