------------------------------- MODULE MCSales -------------------------------
(* Two orders that compete for the same stock, with their documents.       *)
EXTENDS Quotations, TLC

Symmetry == Permutations(Order) \union Permutations(Note) \union Permutations(Invoice)
              \union Permutations(Return) \union Permutations(Credit)
=============================================================================
