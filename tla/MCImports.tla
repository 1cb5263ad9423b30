------------------------------ MODULE MCImports ------------------------------
(* A file that lists the same part thrice.                                  *)
EXTENDS Imports

CONSTANTS helmet, depot

Line(fate) == [sku |-> helmet, at |-> depot, qty |-> 1, fate |-> fate]
ThreeRows == <<Line("valid"), Line("skipped"), Line("valid")>>
=============================================================================
