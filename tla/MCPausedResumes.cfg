CONSTANTS
  hk = hk
  hsi = hsi
  p1 = p1
  p2 = p2
  p3 = p3
  None = None
  Proposals <- MCProposals
  Symbols <- MCSymbols
  Batches <- MCBatches
  Reviews <- MCReviews
  MaxBlueprints = 2
  RetentionLimit = 1
  MaxAgeDays = 1
  RejectedDays = 1
  DayGaps <- MCGaps
  MaxDay = 2
  MaxTick = 2
  RaisesMidSwap = FALSE
  PromoteThreshold = 6
  KeepThreshold = 4
  ChallengerMinDelta = 2
  CooldownDays = 2
  RequireBacktest = TRUE
  BlockOnMacroDegrade = TRUE

SPECIFICATION Spec
SYMMETRY MCSymmetry

INVARIANT PausedNeedsFreshDecision
