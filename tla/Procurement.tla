----------------------------- MODULE Procurement -----------------------------
(***************************************************************************)
(* Purchase orders from the reorder recommendation to the goods receipt.    *)
(*   backend/app/procurement/service.py, procurement/domain/states.py,       *)
(*   procurement/domain/receiving.py: the order's life, under a row lock      *)
(*   backend/app/reorder/service.py (run, create_purchase_orders): both read  *)
(*   without locks and write later in the same transaction                    *)
(* One warehouse, one supplier; a purchase order has one line per product     *)
(* (UNIQUE (po_id, product_id)).                                             *)
(***************************************************************************)
EXTENDS ReorderMath, FiniteSets, FiniteSetsExt, Functions

CONSTANTS
  PO,           \* purchase orders
  Rec,          \* reorder recommendations
  Product,
  Session,      \* concurrent reorder requests
  Point,        \* reorder point of every product
  Target,       \* order-up-to level
  Carton,       \* units per carton
  Moq,          \* minimum order quantity of the supplier
  MaxQty,       \* bound: quantity of a purchase-order line
  MaxStock,     \* bound: units on hand
  MaxConsumed,  \* bound: units that leave the warehouse
  None

ASSUME ProcurementAssumption ==
  /\ Point \in Nat /\ Target \in Nat /\ Point <= Target
  /\ Carton \in Nat \ {0} /\ Moq \in Nat
  /\ \A raw \in 0..Target : EnforceOrderQuantity(raw, Carton, Moq) <= MaxQty
  /\ MaxQty \in Nat /\ MaxStock \in Nat /\ MaxConsumed \in Nat
  /\ None \notin Rec \union Product
  /\ IsFiniteSet(PO)

VARIABLES
  status,       \* purchase_orders.status, "none" before create
  ordered,      \* purchase_order_lines.ordered_qty, 0: no such line
  received,     \* purchase_order_lines.received_qty
  sources,      \* recommendations an order was made from (audit of reorder.convert)
  follows,      \* orders of conversions that committed before its own read (history)
  rec,          \* reorder_recommendations
  task,         \* what each reorder request has read so far
  onHand,       \* inventory.qty_on_hand
  consumed      \* units that left the warehouse, of all products (history)

orders == <<status, ordered, received, sources, follows>>
stock == <<onHand, consumed>>
vars == <<orders, rec, task, stock>>

Statuses == {"none", "draft", "pending_approval", "approved", "rejected", "sent",
             "partially_received", "received", "cancelled"}
Open == {"draft", "pending_approval", "approved", "sent", "partially_received"}
Terminal == {"received", "cancelled", "rejected"}

\* _TRANSITIONS: (status, action) -> status.
Transitions ==
  {<<"draft", "submit", "pending_approval">>, <<"draft", "cancel", "cancelled">>,
   <<"pending_approval", "approve", "approved">>, <<"pending_approval", "reject", "rejected">>,
   <<"pending_approval", "cancel", "cancelled">>, <<"approved", "send", "sent">>,
   <<"approved", "cancel", "cancelled">>}

Actions == {"submit", "approve", "reject", "cancel", "send"}
Receivable == {"sent", "partially_received"}

Lines == [Product -> 0..MaxQty]
Named(lines) == {p \in Product : lines[p] > 0}

NoRec == [product |-> None, qty |-> 0, status |-> "none"]
Idle == [kind |-> "idle"]

Remaining(o, p) == ordered[o][p] - received[o][p]

\* on_order_qty: what open orders still have to deliver.
OnOrder(p) ==
  SumFunctionOnSet([o \in PO |-> Remaining(o, p)], {o \in PO : status[o] \in Open})

Init ==
  /\ status = [o \in PO |-> "none"]
  /\ ordered = [o \in PO |-> [p \in Product |-> 0]]
  /\ received = [o \in PO |-> [p \in Product |-> 0]]
  /\ sources = [o \in PO |-> {}]
  /\ follows = [o \in PO |-> {}]
  /\ rec = [r \in Rec |-> NoRec]
  /\ task = [s \in Session |-> Idle]
  /\ onHand = [p \in Product |-> 0]
  /\ consumed = 0

-----------------------------------------------------------------------------
(* The life of an order                                                    *)

NewOrder(o, lines, made, before) ==
  /\ status[o] = "none"
  /\ status' = [status EXCEPT ![o] = "draft"]
  /\ ordered' = [ordered EXCEPT ![o] = lines]
  /\ sources' = [sources EXCEPT ![o] = made]
  /\ follows' = [follows EXCEPT ![o] = before]
  /\ UNCHANGED received

CreatePO(o, lines) ==
  /\ Named(lines) # {}
  /\ NewOrder(o, lines, {}, {})
  /\ UNCHANGED <<rec, task, stock>>

\* The lines of a draft are deleted and written again.
UpdatePO(o, lines) ==
  /\ status[o] = "draft" /\ Named(lines) # {}
  /\ ordered' = [ordered EXCEPT ![o] = lines]
  /\ UNCHANGED <<status, received, sources, follows, rec, task, stock>>

ApplyAction(o, action) ==
  \E target \in Statuses :
    /\ <<status[o], action, target>> \in Transitions
    /\ status' = [status EXCEPT ![o] = target]
    /\ UNCHANGED <<ordered, received, sources, follows, rec, task, stock>>

\* Faulty variant: complete as soon as the lines of this receipt are.
ReceivedStatusOfThisReceipt(o, now) ==
  IF \A p \in Named(now) : received[o][p] + now[p] = ordered[o][p]
    THEN "received" ELSE "partially_received"

\* apply_receipt: the status follows from what has arrived in total, ...
ReceivedStatus(o, now) ==
  IF \A p \in Product : received[o][p] + now[p] = ordered[o][p]
    THEN "received" ELSE "partially_received"

\* ... and nothing may arrive that is not on the order or beyond what remains.
Applicable(o, now) ==
  /\ Named(now) # {}
  /\ \A p \in Named(now) : now[p] <= Remaining(o, p)

\* One receipt: several lines, in part or in full; the order, its lines and the
\* inventory rows are locked.
Receive(o, now) ==
  /\ status[o] \in Receivable
  /\ Applicable(o, now)
  /\ \A p \in Product : onHand[p] + now[p] <= MaxStock
  /\ received' = [received EXCEPT ![o] = [p \in Product |-> @[p] + now[p]]]
  /\ onHand' = [p \in Product |-> onHand[p] + now[p]]
  /\ status' = [status EXCEPT ![o] = ReceivedStatus(o, now)]
  /\ UNCHANGED <<ordered, sources, follows, rec, task, consumed>>

\* Stock leaves the warehouse (InventoryService.issue).
Consume(p) ==
  /\ onHand[p] > 0
  /\ consumed < MaxConsumed
  /\ onHand' = [onHand EXCEPT ![p] = @ - 1]
  /\ consumed' = consumed + 1
  /\ UNCHANGED <<orders, rec, task>>

-----------------------------------------------------------------------------
(* Reorder requests                                                        *)

\* A run evaluates every product in turn: it reads the stock, ...
ReadStock(s, p) ==
  /\ task[s].kind = "idle"
  /\ task' = [task EXCEPT ![s] =
       [kind |-> "run", product |-> p, available |-> onHand[p]]]
  /\ UNCHANGED <<orders, rec, stock>>

\* ... then what is on order, and persists a recommendation if the position it
\* put together is at or below the reorder point.
Recommend(s) ==
  /\ task[s].kind = "run"
  /\ LET p == task[s].product
         position == task[s].available + OnOrder(p)
         qty == EnforceOrderQuantity(Larger(0, Target - position), Carton, Moq)
     IN  IF position <= Point /\ qty > 0
           THEN \E r \in Rec :
                  /\ rec[r] = NoRec
                  /\ rec' = [rec EXCEPT ![r] = [product |-> p, qty |-> qty, status |-> "pending"]]
           ELSE UNCHANGED rec
  /\ task' = [task EXCEPT ![s] = Idle]
  /\ UNCHANGED <<orders, stock>>

\* The orders that conversions have made so far.
Converted == {o \in PO : sources[o] # {}}

\* A conversion reads the recommendations it was given and keeps the pending
\* ones (the others are skipped), ...
ReadRecs(s, R) ==
  /\ task[s].kind = "idle"
  /\ LET kept == {r \in R : rec[r].status = "pending"}
     IN  /\ kept # {}
         /\ task' = [task EXCEPT ![s] = [kind |-> "convert", recs |-> kept, before |-> Converted]]
  /\ UNCHANGED <<orders, rec, stock>>

\* One line per product: the largest of the recommended quantities.
LargestOf(R) ==
  [p \in Product |-> Max({0} \union {rec[r].qty : r \in {r \in R : rec[r].product = p}})]

\* Faulty variant: of the recommendations of one product only the one that made
\* it into the order is marked.
MarkOrderedBest(R) ==
  LET Best(p) == CHOOSE r \in R : rec[r].product = p /\ rec[r].qty = LargestOf(R)[p]
  IN  [r \in Rec |-> IF r \in R /\ r = Best(rec[r].product)
                       THEN [rec[r] EXCEPT !.status = "ordered"] ELSE rec[r]]

MarkOrdered(R) ==
  [r \in Rec |-> IF r \in R THEN [rec[r] EXCEPT !.status = "ordered"] ELSE rec[r]]

\* ... and later, without having locked them or looking at them again, creates the
\* order and marks them.
Convert(s, o) ==
  /\ task[s].kind = "convert"
  /\ NewOrder(o, LargestOf(task[s].recs), task[s].recs, task[s].before)
  /\ rec' = MarkOrdered(task[s].recs)
  /\ task' = [task EXCEPT ![s] = Idle]
  /\ UNCHANGED stock

\* A request that fails, or finds nothing to do, leaves no trace.
Abandon(s) ==
  /\ task[s].kind # "idle"
  /\ task' = [task EXCEPT ![s] = Idle]
  /\ UNCHANGED <<orders, rec, stock>>

-----------------------------------------------------------------------------
Next ==
  \/ \E o \in PO :
       \/ \E lines \in Lines : CreatePO(o, lines) \/ UpdatePO(o, lines) \/ Receive(o, lines)
       \/ \E action \in Actions : ApplyAction(o, action)
       \/ \E s \in Session : Convert(s, o)
  \/ \E p \in Product : Consume(p) \/ (\E s \in Session : ReadStock(s, p))
  \/ \E s \in Session : Recommend(s) \/ Abandon(s) \/ (\E R \in SUBSET Rec : ReadRecs(s, R))

Spec == Init /\ [][Next]_vars

-----------------------------------------------------------------------------
(* Properties                                                              *)

TaskType ==
  {Idle} \union [kind : {"run"}, product : Product, available : 0..MaxStock]
         \union [kind : {"convert"}, recs : SUBSET Rec, before : SUBSET PO]

\* Every column holds what its type and CHECK constraints allow; no line gets
\* more than was ordered (CHECK (received_qty <= ordered_qty)).
TypeOK ==
  /\ status \in [PO -> Statuses]
  /\ ordered \in [PO -> Lines]
  /\ received \in [PO -> Lines]
  /\ sources \in [PO -> SUBSET Rec]
  /\ follows \in [PO -> SUBSET PO]
  /\ rec \in [Rec -> [product : Product \union {None}, qty : 0..MaxQty,
                      status : {"none", "pending", "ordered"}]]
  /\ task \in [Session -> TaskType]
  /\ onHand \in [Product -> 0..MaxStock]
  /\ consumed \in 0..MaxConsumed
  /\ \A o \in PO, p \in Product : received[o][p] <= ordered[o][p]

\* The status of an order tells what has arrived of it, over any number of
\* partial receipts: nothing before it was sent, something but not all of it,
\* or every unit of every line.
StatusTellsReceipts ==
  \A o \in PO :
    LET arrived == {p \in Product : received[o][p] > 0}
        due == {p \in Product : received[o][p] < ordered[o][p]}
    IN  CASE status[o] = "received" -> arrived # {} /\ due = {}
          [] status[o] = "partially_received" -> arrived # {} /\ due # {}
          [] OTHER -> arrived = {}

\* Two orders share a recommendation only if their conversions ran at the same
\* time, each having read it before the other committed: a conversion that starts
\* after another one never orders again what that one ordered
\* (create_purchase_orders marks the whole group and skips what is marked).
OrderedOnce ==
  \A o, q \in PO : q \in follows[o] => sources[o] \intersect sources[q] = {}
=============================================================================
