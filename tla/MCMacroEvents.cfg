CONSTANTS
  Providers = {"fred"}
  Symbols = {"s1", "s2"}
  Getters = {"get"}
  TicksPerDay = 1
  MaxAge = 0
  FallbackLimit = 1
  MaxClock = 1
  MaxFailures = 1
  MaxCrashes = 1

SPECIFICATION Spec

INVARIANTS
  DigestsNameStoredEvents
PROPERTIES
  EventuallyDigested
