---------------------------- MODULE MCProcurement ----------------------------
(* Two orders that may be received line by line, and reorder requests that  *)
(* share the recommendations.                                               *)
EXTENDS Procurement, TLC

Symmetry == Permutations(PO) \union Permutations(Rec) \union Permutations(Product)
              \union Permutations(Session)
=============================================================================
