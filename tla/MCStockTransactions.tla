------------------------ MODULE MCStockTransactions ------------------------
(* Two requests on two rows.                                               *)
EXTENDS StockTransactions, TLC

CONSTANTS t1, t2, a, b

RowOrder == [r \in Row |-> IF r = a THEN 1 ELSE 2]

\* Bound: an import may make the ledger drift from the balances; how far is
\* cut off.
LedgerNearby == \A r \in Row : posted[r] \in -1..MaxBalance + 1

Symmetry == Permutations(Txn)
=============================================================================
