CONSTANTS
  r1 = r1
  r2 = r2
  p1 = p1
  p2 = p2
  Runs = {r1}
  Grid = {p1, p2}
  Starts <- MCStarts
  LastDate <- MCLastDate
  Trains <- MCTrains
  Tests <- MCTests
  Steps <- MCSteps
  FirstYear = 2021
  FinalYear = 2026
  Capital = 20
  Prices = {2, 3}
  FeeNum = 1
  FeeDen = 10
  MaxBars = 4
  MaxFaults = 1

SPECIFICATION Spec
CHECK_DEADLOCK FALSE

INVARIANTS
  BooksBalance
  TestWindowsTile
PROPERTIES
  RunsEnd
