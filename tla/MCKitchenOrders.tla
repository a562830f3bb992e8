--------------------------- MODULE MCKitchenOrders ---------------------------
(* A dish of the grill, of which an amendment can take a part, and a drink of  *)
(* the bar.                                                                    *)
EXTENDS KitchenOrders, TLC

CONSTANTS dish, drink

MCStationOf == (dish :> "GRILL") @@ (drink :> "BAR")
MCMaxQty    == (dish :> 2) @@ (drink :> 1)
=============================================================================
