------------------------------ MODULE Inventory ------------------------------
(***************************************************************************)
(* The stock core: the inventory table (one row per product and warehouse), *)
(* the append-only stock_movements ledger, the inventory_reservations table *)
(* and the sales_daily demand feed, as written by                           *)
(*   backend/app/services/inventory_service.py                              *)
(*   backend/app/repositories/inventory_repo.py, reservation_repo.py        *)
(*   backend/app/order_requests/repository.py (stock half)                  *)
(*   backend/app/sales/repository.py (reserve_line, release_reservation)    *)
(*   backend/app/demand/repository.py (aggregate_issues)                    *)
(*                                                                          *)
(* Every operation is one database transaction, so it is one action here;   *)
(* StockTransactions models the interleaving of the transactions and the    *)
(* row locks that justify this.  Quantities are NUMERIC(18,4), that is,     *)
(* exact: integers in units of 0.0001.  An operation whose checks fail      *)
(* raises and rolls back, which is a step that changes nothing.             *)
(***************************************************************************)
EXTENDS Integers, FiniteSets

CONSTANTS
  Product,      \* products
  Warehouse,    \* stock locations
  Line,         \* demand lines that may hold stock (sales-order, request, ...)
  LineCell,     \* the inventory row each demand line draws on
  MaxStock,     \* bound: on-hand (and damaged) units of one row
  MaxQty,       \* bound: quantity of one request line
  MaxIssued     \* bound: units ever issued from one row

Cell == Product \X Warehouse

ASSUME LineCellAssumption == LineCell \in [Line -> Cell]
ASSUME BoundsAssumption ==
  /\ MaxStock \in Nat
  /\ MaxQty \in Nat
  /\ MaxIssued \in Nat

VARIABLES
  onHand,       \* inventory.qty_on_hand
  reserved,     \* inventory.qty_reserved
  damaged,      \* inventory.qty_damaged
  ledger,       \* per row: the sum of its movements, by kind of movement
  hold,         \* per line: its inventory_reservations row
  demand        \* per row: sales_daily.qty_sold by source (one day)

vars == <<onHand, reserved, damaged, ledger, hold, demand>>

HoldStatus == {"none", "active", "consumed", "released"}

\* "stock" sums receipt, opening_balance, adjustment, transfer_in and
\* transfer_out movements, "reserve" sums reserve and unreserve.
MovementKind == {"stock", "issue", "reserve", "damage"}

\* One request to one warehouse names several products; two lines of the same
\* product are one entry, since the checks of the code add up.
Basket == {b \in [Product -> 0..MaxQty] : \E p \in Product : b[p] > 0}

Lesser(a, b) == IF a <= b THEN a ELSE b
Greater(a, b) == IF a >= b THEN a ELSE b

Available(c) == onHand[c] - reserved[c] - damaged[c]

HoldRow == [qty : 0..MaxStock, status : HoldStatus]

\* Units held by a reservation row, and by the active reservation of a line.
Held(row) == IF row.status = "active" THEN row.qty ELSE 0
OwnHold(l) == Held(hold[l])

\* A movement added to a row's sums.
Posted(row, kind, q) == [row EXCEPT ![kind] = @ + q]
Post(c, kind, q) == [ledger EXCEPT ![c] = Posted(@, kind, q)]

Init ==
  /\ onHand = [c \in Cell |-> 0]
  /\ reserved = [c \in Cell |-> 0]
  /\ damaged = [c \in Cell |-> 0]
  /\ ledger = [c \in Cell |-> [k \in MovementKind |-> 0]]
  /\ hold = [l \in Line |-> [status |-> "none", qty |-> 0]]
  /\ demand = [c \in Cell |-> [sale |-> 0, issue |-> 0]]

-----------------------------------------------------------------------------
(* InventoryService                                                        *)

Receive(w, basket) ==
  /\ \A p \in Product : onHand[<<p, w>>] + basket[p] <= MaxStock
  /\ onHand' = [c \in Cell |->
                  IF c[2] = w THEN onHand[c] + basket[c[1]] ELSE onHand[c]]
  /\ ledger' = [c \in Cell |->
                  IF c[2] = w
                    THEN Posted(ledger[c], "stock", basket[c[1]])
                    ELSE ledger[c]]
  /\ UNCHANGED <<reserved, damaged, hold, demand>>

OpeningBalance(c, q) ==
  /\ onHand[c] + q <= MaxStock
  /\ onHand' = [onHand EXCEPT ![c] = @ + q]
  /\ ledger' = Post(c, "stock", q)
  /\ UNCHANGED <<reserved, damaged, hold, demand>>

\* Every line must fit in the free stock of its row, or the request fails.
Issue(w, basket) ==
  /\ \A p \in Product : basket[p] > 0 => Available(<<p, w>>) >= basket[p]
  /\ \A p \in Product : basket[p] - ledger[<<p, w>>]["issue"] <= MaxIssued
  /\ onHand' = [c \in Cell |->
                  IF c[2] = w THEN onHand[c] - basket[c[1]] ELSE onHand[c]]
  /\ ledger' = [c \in Cell |->
                  IF c[2] = w
                    THEN Posted(ledger[c], "issue", -basket[c[1]])
                    ELSE ledger[c]]
  /\ UNCHANGED <<reserved, damaged, hold, demand>>

Adjust(c, delta) ==
  /\ delta # 0
  /\ onHand[c] + delta \in 0..MaxStock
  /\ onHand' = [onHand EXCEPT ![c] = @ + delta]
  /\ ledger' = Post(c, "stock", delta)
  /\ UNCHANGED <<reserved, damaged, hold, demand>>

\* Faulty variant: the stock of the source is not looked at.
TransferUnchecked(p, from, to, q) ==
  LET src == <<p, from>>
      dst == <<p, to>>
  IN  /\ from # to
      /\ onHand[dst] + q <= MaxStock
      /\ onHand' = [onHand EXCEPT ![src] = @ - q, ![dst] = @ + q]
      /\ ledger' = [ledger EXCEPT ![src] = Posted(@, "stock", -q),
                                  ![dst] = Posted(@, "stock", q)]
      /\ UNCHANGED <<reserved, damaged, hold, demand>>

Transfer(p, from, to, q) ==
  LET src == <<p, from>>
      dst == <<p, to>>
  IN  /\ from # to
      /\ Available(src) >= q
      /\ onHand[dst] + q <= MaxStock
      /\ onHand' = [onHand EXCEPT ![src] = @ - q, ![dst] = @ + q]
      /\ ledger' = [ledger EXCEPT ![src] = Posted(@, "stock", -q),
                                  ![dst] = Posted(@, "stock", q)]
      /\ UNCHANGED <<reserved, damaged, hold, demand>>

-----------------------------------------------------------------------------
(* ReservationRepository: the row is locked by the caller.                 *)

\* The effect of consume(): drop the hold for the units about to leave.  A
\* line without an active reservation consumes nothing.
ConsumeHold(l, q) ==
  LET take == Lesser(q, OwnHold(l))
      left == OwnHold(l) - take
  IN  IF take <= 0 THEN UNCHANGED <<reserved, hold>>
      ELSE /\ reserved' = [reserved EXCEPT ![LineCell[l]] = Greater(0, @ - take)]
           /\ hold' = [hold EXCEPT ![l] =
                [qty |-> left,
                 status |-> IF left <= 0 THEN "consumed" ELSE "active"]]

\* Faulty variant: consume() writes no unreserve movement.
PostConsumedSilently(l, q, kind) == Post(LineCell[l], kind, -q)

\* consume() and the caller's outflow write one movement each.
PostConsumed(l, q, kind) ==
  [ledger EXCEPT ![LineCell[l]] =
     Posted(Posted(@, "reserve", Lesser(q, OwnHold(l))), kind, -q)]

\* reserve_line of a sales or a request line, with its availability check.
Reserve(l, q) ==
  LET c == LineCell[l]
  IN  /\ hold[l].status = "none"
      /\ Available(c) >= q
      /\ reserved' = [reserved EXCEPT ![c] = @ + q]
      /\ hold' = [hold EXCEPT ![l] = [qty |-> q, status |-> "active"]]
      /\ ledger' = Post(c, "reserve", -q)
      /\ UNCHANGED <<onHand, damaged, demand>>

\* Faulty variant: the reservation keeps its quantity and stays active.
ReleaseKeepsHold(l) ==
  LET c == LineCell[l]
  IN  /\ hold[l].status = "active"
      /\ reserved' = [reserved EXCEPT ![c] = Greater(0, @ - hold[l].qty)]
      /\ ledger' = Post(c, "reserve", hold[l].qty)
      /\ UNCHANGED <<onHand, damaged, hold, demand>>

Release(l) ==
  LET c == LineCell[l]
      q == hold[l].qty
  IN  /\ hold[l].status = "active"
      /\ reserved' = [reserved EXCEPT ![c] = Greater(0, @ - q)]
      /\ hold' = [hold EXCEPT ![l] = [qty |-> 0, status |-> "released"]]
      /\ ledger' = Post(c, "reserve", q)
      /\ UNCHANGED <<onHand, damaged, demand>>

-----------------------------------------------------------------------------
(* Issues drawn on a hold                                                  *)

\* issue_against_reservation: a delivery takes its own hold and free stock;
\* isSale is a caller that names a demand source (sales delivery, POS).
IssueAgainstReservation(l, q, isSale) ==
  LET c == LineCell[l]
  IN  /\ onHand[c] >= q
      /\ Available(c) + OwnHold(l) >= q
      /\ q - ledger[c]["issue"] <= MaxIssued
      /\ ConsumeHold(l, q)
      /\ onHand' = [onHand EXCEPT ![c] = @ - q]
      /\ ledger' = PostConsumed(l, q, "issue")
      /\ demand' = IF isSale
                     THEN [demand EXCEPT ![c].sale = @ + q] ELSE demand
      /\ UNCHANGED damaged

\* Faulty variant: only on-hand is checked, not what others hold.
IssueFreeOfHolds(c, q, isSale) ==
  /\ onHand[c] >= q
  /\ q - ledger[c]["issue"] <= MaxIssued
  /\ onHand' = [onHand EXCEPT ![c] = @ - q]
  /\ ledger' = Post(c, "issue", -q)
  /\ demand' = IF isSale
                 THEN [demand EXCEPT ![c].sale = @ + q] ELSE demand
  /\ UNCHANGED <<reserved, damaged, hold>>

\* The same call without a reservation reference: a point-of-sale line.
IssueFree(c, q, isSale) ==
  /\ onHand[c] >= q
  /\ Available(c) >= q
  /\ q - ledger[c]["issue"] <= MaxIssued
  /\ onHand' = [onHand EXCEPT ![c] = @ - q]
  /\ ledger' = Post(c, "issue", -q)
  /\ demand' = IF isSale
                 THEN [demand EXCEPT ![c].sale = @ + q] ELSE demand
  /\ UNCHANGED <<reserved, damaged, hold>>

\* issue_line / transfer_line of an approved request: only on-hand is checked.
\* The caller clamps q to approved - issued, which is what the line still holds
\* (OrderRequests checks that).
IssueRequestLine(l, q, kind) ==
  LET c == LineCell[l]
  IN  /\ hold[l].status = "active"
      /\ q <= hold[l].qty
      /\ onHand[c] >= q
      /\ kind = "issue" => q - ledger[c]["issue"] <= MaxIssued
      /\ ConsumeHold(l, q)
      /\ onHand' = [onHand EXCEPT ![c] = @ - q]
      /\ ledger' = PostConsumed(l, q, kind)
      /\ UNCHANGED <<damaged, demand>>

\* receive_line credits a transfer's destination with deltas, negative when a
\* receipt is corrected; the CHECKs of the table refuse a negative quantity.
ReceiveTransferLine(c, good, bad) ==
  /\ good # 0 \/ bad # 0
  /\ onHand[c] + good \in 0..MaxStock
  /\ damaged[c] + bad \in 0..MaxStock
  /\ onHand' = [onHand EXCEPT ![c] = @ + good]
  /\ damaged' = [damaged EXCEPT ![c] = @ + bad]
  /\ ledger' = [ledger EXCEPT ![c] =
                  Posted(Posted(@, "stock", good), "damage", bad)]
  /\ UNCHANGED <<reserved, hold, demand>>

-----------------------------------------------------------------------------
(* DemandRepository                                                        *)

\* Faulty variant: the upsert adds to the day's figure instead of replacing it.
RebuildDemandAdds ==
  /\ \A c \in Cell : demand[c].issue <= MaxIssued
  /\ demand' = [c \in Cell |-> [demand[c] EXCEPT !.issue = @ - ledger[c]["issue"]]]
  /\ UNCHANGED <<onHand, reserved, damaged, ledger, hold>>

\* aggregate_issues recomputes the 'issue' rows of every inventory row that
\* has an issue movement.
RebuildDemand ==
  /\ demand' = [c \in Cell |-> [demand[c] EXCEPT !.issue = -ledger[c]["issue"]]]
  /\ UNCHANGED <<onHand, reserved, damaged, ledger, hold>>

-----------------------------------------------------------------------------
Next ==
  \/ \E w \in Warehouse, b \in Basket : Receive(w, b) \/ Issue(w, b)
  \/ \E c \in Cell, q \in 0..MaxQty : OpeningBalance(c, q)
  \/ \E c \in Cell, d \in -MaxQty..MaxQty : Adjust(c, d)
  \/ \E p \in Product, from, to \in Warehouse, q \in 1..MaxQty :
       Transfer(p, from, to, q)
  \/ \E l \in Line, q \in 1..MaxQty : Reserve(l, q)
  \/ \E l \in Line : Release(l)
  \/ \E l \in Line, q \in 1..MaxQty, s \in BOOLEAN :
       IssueAgainstReservation(l, q, s)
  \/ \E c \in Cell, q \in 1..MaxQty, s \in BOOLEAN : IssueFree(c, q, s)
  \/ \E l \in Line, q \in 1..MaxQty, k \in {"issue", "stock"} :
       IssueRequestLine(l, q, k)
  \/ \E c \in Cell, good, bad \in -MaxQty..MaxQty :
       ReceiveTransferLine(c, good, bad)
  \/ RebuildDemand

Spec == Init /\ [][Next]_vars

-----------------------------------------------------------------------------
(* Properties                                                              *)

\* Every table holds what its columns and CHECK constraints allow.
TypeOK ==
  /\ onHand \in [Cell -> 0..MaxStock]
  /\ reserved \in [Cell -> Nat]
  /\ damaged \in [Cell -> 0..MaxStock]
  /\ ledger \in [Cell -> [MovementKind -> Int]]
  /\ hold \in [Line -> HoldRow]
  /\ demand \in [Cell -> [sale : Nat, issue : Nat]]

\* The running balance is explained by the ledger: what the movements of a row
\* add up to is what the row says, for on-hand, reserved and damaged units
\* (schema.sql: "the running balance maintained transactionally alongside each
\* movement insert").
LedgerExplainsBalance ==
  \A c \in Cell :
    /\ onHand[c] = ledger[c]["stock"] + ledger[c]["issue"]
    /\ reserved[c] = -ledger[c]["reserve"]
    /\ damaged[c] = ledger[c]["damage"]

\* The units that active reservations hold on a row, one element per unit.
HeldUnits(c) ==
  {u \in Line \X (1..MaxStock) :
     LineCell[u[1]] = c /\ u[2] <= OwnHold(u[1])}

\* qty_reserved is exactly the total of the active reservations of the row, so
\* the max(0, ..) of consume() and release() never hides a lost unit.
ReservedIsActiveHolds ==
  \A c \in Cell : reserved[c] = Cardinality(HeldUnits(c))

\* A reservation that is not active holds nothing, an active one holds something.
HoldMatchesStatus ==
  \A l \in Line : hold[l].qty > 0 <=> hold[l].status = "active"

\* Nobody but a manual correction (adjust, or a transfer receipt that is
\* corrected or reports damage) may promise more than is there: no sale,
\* issue, transfer or reservation eats into what others hold.
PromisesKept ==
  [][ (\E c \in Cell : Available(c)' < 0 /\ Available(c)' < Available(c))
      => \E c \in Cell, d, e \in -MaxQty..MaxQty :
           Adjust(c, d) \/ ReceiveTransferLine(c, d, e) ]_vars

\* Stock that leaves on a hold leaves the free stock of others alone: units
\* drawn within the line's own hold do not change what is available.
OwnHoldIsFree ==
  [][ \A l \in Line, q \in 1..MaxQty, k \in {"issue", "stock"} :
        IssueRequestLine(l, q, k) =>
          Available(LineCell[l])' = Available(LineCell[l]) ]_vars

\* A reservation that ended (consumed or released) never holds stock again.
EndedHoldsStayEnded ==
  [][ \A l \in Line : hold[l].status \in {"consumed", "released"}
        => hold'[l] = hold[l] ]_vars

\* Neither source of the demand feed ever counts more units than were issued,
\* however often the feed is rebuilt.
DemandWithinIssues ==
  \A c \in Cell :
    /\ demand[c].sale <= -ledger[c]["issue"]
    /\ demand[c].issue <= -ledger[c]["issue"]

\* What the movements of each row that change its stock add up to.
StockMoved == [c \in Cell |-> ledger[c]["stock"] + ledger[c]["issue"]]

Operations == INSTANCE AtomicStock WITH
  Row <- Cell, MaxQty <- MaxQty, Imports <- FALSE, onHand <- onHand, ledger <- StockMoved

\* Every operation is one move of the specification that the row-locking
\* transactions implement: it changes some rows at once, each by no more than one
\* line and never below zero, and the movements that change stock by the same units.
OperationsAreAtomic == Operations!Spec
=============================================================================
