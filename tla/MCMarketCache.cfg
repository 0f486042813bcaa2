CONSTANTS
  Callers = {c1, c2}
  TradeDates = {1, 2, 4}
  Tolerated = 1
  Lookback = 2
  LastDay = 4
SPECIFICATION Spec
SYMMETRY Symmetry
INVARIANTS
  HolesHaveACause
  LoadedIsWhole
