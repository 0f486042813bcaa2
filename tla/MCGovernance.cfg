CONSTANTS
  PromoteThreshold = 760
  KeepThreshold = 690
  ChallengerMinDelta = 25
  CooldownDays = 4
  RequireBacktest = TRUE
  BlockOnMacroDegrade = TRUE
  Scores <- MCScores
  Days <- MCDays
  KnowledgeSets <- MCKnowledgeSets

SPECIFICATION ReviewSpec

INVARIANTS
  RefusalIsExplained
  OnlyMockBypassesReasons
  RunbookConditions

PROPERTY NeverWorse

CHECK_DEADLOCK FALSE
