--------------------------- MODULE MCPaperLedger ---------------------------
(* A small instance of the paper ledger: two strategies of one symbol. *)
EXTENDS PaperLedger, TLC

CONSTANTS p1, p2, tracker

OneSymbol == (p1 :> tracker) @@ (p2 :> tracker)
OnePrice == {1}
=============================================================================
