---------------------------- MODULE MCMarketCache ----------------------------
(***************************************************************************)
(* The callers of the cache are interchangeable, and every property of it  *)
(* is an invariant, so their permutations are a symmetry of the runs.      *)
(***************************************************************************)
EXTENDS MarketCache, TLC

Symmetry == Permutations(Callers)
=============================================================================
