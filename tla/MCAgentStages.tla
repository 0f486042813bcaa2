---------------------------- MODULE MCAgentStages ----------------------------
(***************************************************************************)
(* No action tells one symbol from another, and every property is a safety *)
(* property, so the permutations of the symbols are a symmetry.            *)
(***************************************************************************)
EXTENDS AgentStages, TLC

Symmetry == Permutations(Symbols)
=============================================================================
