------------------------------- MODULE MCUnits -------------------------------
(* One motorcycle and a part, at a depot and a shop.                        *)
EXTENDS Units, TLC

CONSTANTS depot, shop

AtDepot == [w \in Warehouse |-> IF w = depot THEN MaxStock ELSE 0]

Documentary == Permutations(Note) \union Permutations(Loan) \union Permutations(Parcel)
                 \union Permutations(Invoice)
=============================================================================
