------------------------- MODULE MCWarehouseLoader -------------------------
(* Instances of WarehouseLoader: two products of one name and one of another, *)
(* a listing that changes its product, two payloads of one event, a price     *)
(* that overflows the column and one that the column rounds.                  *)
EXTENDS WarehouseLoader, TLC

CONSTANTS e1, e2, x1, x2, red, blue, hat, l1, l2

MCNameOf == red :> "shirt" @@ blue :> "shirt" @@ hat :> "hat"
R(e, x, p, m) == [event |-> e, listing |-> x, product |-> p, mills |-> m]

\* The second row contradicts the first; the last one overflows.
MCRow == {R(e1, x1, red, 990), R(e1, x1, blue, 1000), R(e2, x2, hat, 990), R(e2, x1, blue, 5000)}
MCFineRow == {R(e1, x1, red, 995), R(e2, x2, blue, 990)}
=============================================================================
