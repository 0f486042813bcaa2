CONSTANTS
  p1 = p1
  p2 = p2
  tracker = tracker
  None = None
  NoRow = NoRow
  Proposals = {p1, p2}
  SymbolOf <- OneSymbol
  Prices <- OnePrice
  Capital = 4
  SizingPercent = 50
  PausePercent = 25
  MaxSyncs = 3
  MaxFaults = 1

SPECIFICATION Spec

INVARIANTS
  TypeOK
  AuditMeansWritten
  RuntimeFileLeads
  OnceUnlessCutOff
  FilesAgree
  SalesAreCovered

PROPERTY ExecutionHealsTheFiles
