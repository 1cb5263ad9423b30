---------------------------- MODULE MCInventory ----------------------------
(* One product in two warehouses, one demand line on each row, or one      *)
(* warehouse with two lines that compete for the same row.                 *)
EXTENDS Inventory, TLC

CONSTANTS p1, p2, w1, w2, l1, l2

RivalLines == [l \in Line |-> <<p1, w1>>]

Symmetry == Permutations(Line)
=============================================================================
