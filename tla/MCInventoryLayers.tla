------------------------- MODULE MCInventoryLayers -------------------------
(* An instance of InventoryLayers for TLC: a receipt of 2 units, a         *)
(* correction of -1, two sales, and an opening balance, dated before or    *)
(* after the receipt, that is stated up to twice, at any moment.           *)
EXTENDS InventoryLayers, TLC

CONSTANTS p1, p2, g1, down

MCPosters == {p1, p2}
MCGrns == {g1}
MCAdjustments == {down}
MCOrders == {1, 2}
MCPeriods == {1}
MCQuantities == {1, 2}
MCQtyOf == (g1 :> 2) @@ (down :> -1) @@ (1 :> 1) @@ (2 :> 2)
MCDateOf == (g1 :> 2) @@ (down :> 1)
MCOpenDates == (1 :> {1, 3}) @@ (2 :> {1})
MCSymmetry == Permutations(MCPosters)
=============================================================================
