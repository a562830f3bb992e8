---------------------------- MODULE MCKitchenPrint -----------------------------
(* Two network printers, of which one falls back to a Windows queue.              *)
EXTENDS KitchenPrint, TLC

CONSTANTS grill, bar, front  \* printers

MCPrinters == {grill, bar, front}
MCTcp == {grill, bar}
MCPrinterOf == (1 :> grill) @@ (2 :> bar)
MCFallbackOf == (1 :> {}) @@ (2 :> {front})
=============================================================================
