---------------------------- MODULE MCUniverse -------------------------------
(***************************************************************************)
(* No action tells one candidate from another, and every property is a     *)
(* safety property, so the permutations of the candidates are a symmetry.  *)
(***************************************************************************)
EXTENDS Universe

Symmetry == Permutations(Symbols)
=============================================================================
