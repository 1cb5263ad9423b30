--------------------------- MODULE MCOrderRequests ---------------------------
(* A transfer of two lines and an issue that draw on the same row.          *)
EXTENDS OrderRequests, TLC

CONSTANTS r1, r2, l1, l2, l3, src, dst

TwoAndOne == [l \in Line |-> IF l = l3 THEN r2 ELSE r1]
FromSrc == [l \in Line |-> src]
ToDst == [l \in Line |-> dst]

Symmetry == Permutations({l1, l2})
=============================================================================
