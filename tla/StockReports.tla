---------------------------- MODULE StockReports ----------------------------
(***************************************************************************)
(* The reports on stock and on suppliers, computed from the ledger and from    *)
(* the documents.                                                           *)
(*   backend/app/reports/compute.py, repository.py, service.py               *)
(* Quantities are whole numbers, an instant is a number of seconds.  The      *)
(* ledger of one product at one location is the sequence of its movements in  *)
(* the order the report reads them: by the time stored, then by identifier.   *)
(***************************************************************************)
EXTENDS Integers, Sequences, Functions, FiniteSets

CONSTANTS Location, Item, Supplier

-----------------------------------------------------------------------------
(* Inventory aging                                                         *)

Day == 24 * 60 * 60
Movement == [qty : Int, at : Int]

AtLeastZero(x) == IF x >= 0 THEN x ELSE 0

\* What is left in the layers before the k-th.
Before(left, k) == SumFunctionOnSet(left, 1..(k - 1))

\* Oldest first: a layer gives what the older ones could not; need that no layer
\* can cover is dropped.
Consumed(left, need) ==
  [k \in DOMAIN left |-> AtLeastZero(left[k] - AtLeastZero(need - Before(left, k)))]

\* The n-th movement: a receipt is a layer of its own, an issue takes from them.
Moved(left, n, qty) ==
  IF qty >= 0 THEN [left EXCEPT ![n] = qty] ELSE Consumed(left, -qty)

\* What is left of each movement after the first n of the ledger.
Layers(rows) ==
  LET after[n \in 0..Len(rows)] ==
        IF n = 0 THEN [k \in 1..Len(rows) |-> 0]
        ELSE Moved(after[n - 1], n, rows[n].qty)
  IN  after

Buckets == {"0-30", "31-60", "61-90", "90+"}
BucketLabel(days) ==
  IF days <= 30 THEN "0-30" ELSE IF days <= 60 THEN "31-60"
  ELSE IF days <= 90 THEN "61-90" ELSE "90+"

AgeInDays(movement, asOf) == AtLeastZero((asOf - movement.at) \div Day)

\* The item of the report: the stock still on hand, whole and by age.
AgedOnHand(rows) == SumFunctionOnSet(Layers(rows)[Len(rows)], 1..Len(rows))
AgedBucket(rows, asOf, label) ==
  SumFunctionOnSet(Layers(rows)[Len(rows)],
    {k \in 1..Len(rows) : BucketLabel(AgeInDays(rows[k], asOf)) = label})

\* The balance of the ledger after n movements, which is the stock on hand.
LedgerBalance(rows, n) == SumFunctionOnSet([k \in 1..Len(rows) |-> rows[k].qty], 1..n)

-----------------------------------------------------------------------------
(* Stock position                                                          *)

\* A request line: where to, what, whether its request is in transit, and how much
\* of it is issued and how much received, missing or damaged.
TransitLine == [at : Location, product : Item, moving : BOOLEAN, issued : Nat, accounted : Nat]

Key(line) == <<line.at, line.product>>
Moving(lines) == {l \in DOMAIN lines : lines[l].moving}
Outstanding(lines) == [l \in DOMAIN lines |-> lines[l].issued - lines[l].accounted]

\* In transit, by destination and product.
InTransit(lines, key) ==
  SumFunctionOnSet(Outstanding(lines), {l \in Moving(lines) : Key(lines[l]) = key})

\* The rows shown to a branch: the stock rows of its locations, and what is on
\* its way to a location that has no stock row yet.
PositionKeys(stock, lines, branchOf, branch) ==
  {key \in DOMAIN stock \union {Key(lines[l]) : l \in Moving(lines)} :
     /\ branchOf[key[1]] = branch
     /\ key \in DOMAIN stock \/ InTransit(lines, key) # 0}

StockPosition(stock, lines, branchOf, branch) ==
  [key \in PositionKeys(stock, lines, branchOf, branch) |->
     [onHand |-> IF key \in DOMAIN stock THEN stock[key] ELSE 0,
      inTransit |-> InTransit(lines, key)]]

-----------------------------------------------------------------------------
(* Supplier performance                                                    *)

POStatus == {"draft", "pending_approval", "approved", "rejected", "sent",
             "partially_received", "received", "cancelled"}
NonFillStatuses == {"draft", "cancelled", "rejected"}

\* A purchase order as the report reads it: how late it was received, in days
\* after the date expected (negative: early), and the days from order to receipt;
\* the dates are known or not.
PurchaseOrder == [supplier : Supplier, status : POStatus, ordered : Nat, filled : Nat,
                  hasReceipt : BOOLEAN, hasDate : BOOLEAN, late : Int, lead : Int]

Of(pos, s) == {p \in DOMAIN pos : pos[p].supplier = s}
Received(pos, s) == {p \in Of(pos, s) : pos[p].status = "received"}
WithDate(pos, s) == {p \in Received(pos, s) : pos[p].hasReceipt /\ pos[p].hasDate}
OnTime(pos, s) == {p \in WithDate(pos, s) : pos[p].late <= 0}
Leads(pos, s) == {p \in Received(pos, s) : pos[p].hasReceipt /\ pos[p].lead >= 0}
Filling(pos, s) == {p \in Of(pos, s) : pos[p].status \notin NonFillStatuses}

\* The rates as a part and a whole.
OnTimeRate(pos, s) == <<Cardinality(OnTime(pos, s)), Cardinality(WithDate(pos, s))>>
LeadTime(pos, s) ==
  <<SumFunctionOnSet([p \in DOMAIN pos |-> pos[p].lead], Leads(pos, s)), Cardinality(Leads(pos, s))>>
FillRate(pos, s) ==
  <<SumFunctionOnSet([p \in DOMAIN pos |-> pos[p].filled], Filling(pos, s)),
    SumFunctionOnSet([p \in DOMAIN pos |-> pos[p].ordered], Filling(pos, s))>>
=============================================================================
