----------------------------- MODULE AtomicStock -----------------------------
(***************************************************************************)
(* What concurrent stock requests promise their callers: every request      *)
(* takes effect at once or not at all, never takes a row below zero, and    *)
(* the running balance moves together with the movement ledger.  This is    *)
(* how Inventory sees its operations; StockTransactions shows the row locks  *)
(* that make it true.  An inventory import reads the balance unlocked: all it *)
(* promises is its movement, and no row but its own is touched.              *)
(***************************************************************************)
EXTENDS Integers

CONSTANTS
  Row, MaxQty,
  Imports       \* whether there are inventory imports

VARIABLES
  onHand,       \* inventory.qty_on_hand
  ledger        \* sum of the row's stock_movements

Init == onHand = [r \in Row |-> 0] /\ ledger = [r \in Row |-> 0]

Move(d) ==
  /\ \A r \in Row : onHand[r] + d[r] >= 0
  /\ onHand' = [r \in Row |-> onHand[r] + d[r]]
  /\ ledger' = [r \in Row |-> ledger[r] + d[r]]

\* The balance is what the import made of the one it read, some time ago.
Overwrite(r, q) ==
  /\ Imports
  /\ onHand'[r] >= q
  /\ onHand' = [onHand EXCEPT ![r] = onHand'[r]]
  /\ ledger' = [ledger EXCEPT ![r] = @ + q]

Next ==
  \/ \E d \in [Row -> -MaxQty..MaxQty] : Move(d)
  \/ \E r \in Row, q \in 1..MaxQty : Overwrite(r, q)

Spec == Init /\ [][Next]_<<onHand, ledger>>
=============================================================================
