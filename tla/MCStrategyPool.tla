--------------------------- MODULE MCStrategyPool ---------------------------
(* Small instances of the strategy pool: scores in points, short ages. *)
EXTENDS StrategyPool, TLC

CONSTANTS hk, hsi, p1, p2, p3

MCProposals == {p1, p2, p3}
MCSymmetry == Permutations(MCProposals)
MCSymbols == {hk, hsi}
MCBatches == {<<hk>>, <<hsi, hk>>}

Review(src, score, backtest) ==
  [source |-> src, score |-> score, backtest |-> backtest, knowledge |-> {}]

MCReviews ==
  {Review("minimax", 6, "go"), Review("minimax", 8, "go"),
   Review("minimax", 5, "go"),
   Review("mock", 6, "go")}

MCGaps == {0, 2}
=============================================================================
