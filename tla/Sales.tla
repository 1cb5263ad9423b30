-------------------------------- MODULE Sales --------------------------------
(***************************************************************************)
(* Spare-part sales: the order, its reservation and deliveries, invoices,   *)
(* payments, returns and credit notes, and the sale's reversal.             *)
(*   backend/app/sales/service.py, repository.py, domain/status.py           *)
(* Every handler is one transaction that locks the document it changes, so   *)
(* it is one action.  One product at one location, at the price of one unit  *)
(* of money: prices, VAT, discounts and exchange rates are left out, and so  *)
(* are motorcycles.  Finance is active for the branch.                       *)
(***************************************************************************)
EXTENDS Integers, FiniteSets, Functions

CONSTANTS
  Order,        \* sales orders (of one line)
  Note,         \* delivery notes
  Invoice,      \* invoices
  Return,       \* returns
  Credit,       \* credit notes
  Supply,       \* units in stock before the first sale
  MaxQty,       \* bound: quantity of an order, a return or a tender
  MaxStock,     \* bound: units on hand
  None

ASSUME SalesAssumption ==
  /\ Supply \in Nat /\ MaxQty \in Nat /\ MaxStock \in Nat /\ Supply <= MaxStock
  /\ None \notin Note \union Order \union Invoice \union Return
  /\ IsFiniteSet(Order) /\ IsFiniteSet(Note) /\ IsFiniteSet(Invoice)
  /\ IsFiniteSet(Return) /\ IsFiniteSet(Credit)

VARIABLES
  order,        \* sales_orders and their line
  hold,         \* units of the line's active reservation
  note,         \* sales_deliveries
  invoice,      \* sales_invoices
  banked,       \* per invoice: money-in movements of finance not reversed yet
  return,       \* sales_returns
  credit,       \* sales_credit_notes
  onHand,       \* inventory.qty_on_hand
  voids         \* how often each invoice was voided (history)

documents == <<order, note, invoice, return, credit>>
vars == <<documents, hold, banked, onHand, voids>>

OrderStatus == {"none", "draft", "confirmed", "partially_delivered", "delivered", "cancelled"}
Deliverable == {"confirmed", "partially_delivered"}
Cancellable == {"draft", "confirmed"}

InvoiceStatus == {"none", "sent", "partially_paid", "paid", "voided"}
Payable == {"sent", "partially_paid"}
Voidable == {"sent", "partially_paid", "paid"}

CreditStatus == {"none", "draft", "approved", "applied", "cancelled"}

\* _CN_ALLOWED
CreditAllowed ==
  {<<"draft", "approved">>, <<"draft", "cancelled">>,
   <<"approved", "applied">>, <<"approved", "cancelled">>}

Lesser(a, b) == IF a <= b THEN a ELSE b

Held == SumFunctionOnSet(hold, Order)
Available == onHand - Held

Settled(v) == v.paid + v.credit
Balance(v) == v.total - Settled(v)

\* invoice_status_after_payment
StatusAfter(v) ==
  IF Settled(v) >= v.total /\ v.total > 0 THEN "paid"
  ELSE IF Settled(v) > 0 THEN "partially_paid" ELSE "sent"

Resettled(v) == [v EXCEPT !.status = StatusAfter(v)]
Paid(v, amount) == Resettled([v EXCEPT !.paid = @ + amount])
Credited(v, amount) == Resettled([v EXCEPT !.credit = @ + amount])

NoOrder == [status |-> "none", qty |-> 0, delivered |-> 0]
NoNote == [order |-> None, qty |-> 0]
NoInvoice == [status |-> "none", note |-> None, total |-> 0, paid |-> 0, credit |-> 0]
NoReturn == [invoice |-> None, qty |-> 0, status |-> "none"]
NoCredit == [return |-> None, total |-> 0, status |-> "none"]

NewInvoice(d, total) ==
  [status |-> "sent", note |-> d, total |-> total, paid |-> 0, credit |-> 0]

Init ==
  /\ order = [o \in Order |-> NoOrder]
  /\ hold = [o \in Order |-> 0]
  /\ note = [d \in Note |-> NoNote]
  /\ invoice = [i \in Invoice |-> NoInvoice]
  /\ banked = [i \in Invoice |-> 0]
  /\ return = [r \in Return |-> NoReturn]
  /\ credit = [c \in Credit |-> NoCredit]
  /\ onHand = Supply
  /\ voids = [i \in Invoice |-> 0]

-----------------------------------------------------------------------------
(* Orders and deliveries                                                   *)

CreateSalesOrder(o, q) ==
  /\ order[o] = NoOrder
  /\ order' = [order EXCEPT ![o] = [status |-> "draft", qty |-> q, delivered |-> 0]]
  /\ UNCHANGED <<hold, note, invoice, return, credit, banked, onHand, voids>>

\* The whole order is held, or the confirmation fails.
ConfirmSalesOrder(o) ==
  /\ order[o].status = "draft"
  /\ Available >= order[o].qty
  /\ order' = [order EXCEPT ![o].status = "confirmed"]
  /\ hold' = [hold EXCEPT ![o] = order[o].qty]
  /\ UNCHANGED <<note, invoice, return, credit, banked, onHand, voids>>

\* Faulty variant: the reservation of a cancelled order is not released.
CancelKeepsHold(o) ==
  /\ order[o].status \in Cancellable
  /\ order' = [order EXCEPT ![o].status = "cancelled"]
  /\ UNCHANGED <<hold, note, invoice, return, credit, banked, onHand, voids>>

CancelSalesOrder(o) ==
  /\ order[o].status \in Cancellable
  /\ order' = [order EXCEPT ![o].status = "cancelled"]
  /\ hold' = [hold EXCEPT ![o] = 0]
  /\ UNCHANGED <<note, invoice, return, credit, banked, onHand, voids>>

\* so_delivery_outcome
DeliveryOutcome(delivered, qty) ==
  IF delivered >= qty THEN "delivered" ELSE "partially_delivered"

Outstanding(o) == order[o].qty - order[o].delivered

\* What is wanted, clamped to what is outstanding, leaves through
\* issue_against_reservation: the order's own hold first.
CreateDelivery(o, d, wanted) ==
  LET q == Lesser(wanted, Outstanding(o))
      delivered == order[o].delivered + q
  IN  /\ order[o].status \in Deliverable /\ note[d] = NoNote
      /\ q > 0
      /\ onHand >= q /\ Available + hold[o] >= q
      /\ onHand' = onHand - q
      /\ hold' = [hold EXCEPT ![o] = @ - Lesser(q, @)]
      /\ note' = [note EXCEPT ![d] = [order |-> o, qty |-> q]]
      /\ order' = [order EXCEPT ![o].delivered = delivered,
                                ![o].status = DeliveryOutcome(delivered, order[o].qty)]
      /\ UNCHANGED <<invoice, return, credit, banked, voids>>

-----------------------------------------------------------------------------
(* Invoices and payments                                                   *)

\* A delivery is invoiced for what it delivered, an order for what was ordered;
\* neither is locked and nothing says how often, or in which status.
CreateInvoice(i) ==
  /\ invoice[i] = NoInvoice
  /\ \/ \E d \in Note : /\ note[d] # NoNote
                        /\ invoice' = [invoice EXCEPT ![i] = NewInvoice(d, note[d].qty)]
     \/ \E o \in Order : /\ order[o] # NoOrder
                         /\ invoice' = [invoice EXCEPT ![i] = NewInvoice(None, order[o].qty)]
  /\ UNCHANGED <<order, hold, note, return, credit, banked, onHand, voids>>

\* _settle: amount_paid and the status follow, finance gets the money.
Settle(i, v, amount) ==
  /\ invoice' = [invoice EXCEPT ![i] = Paid(v, amount)]
  /\ banked' = [banked EXCEPT ![i] = @ + amount]

\* Faulty variant: whatever is not paid yet may be paid, a voided invoice too.
RecordPaymentOnAny(i, amount) ==
  /\ invoice[i].status # "none"
  /\ amount <= Balance(invoice[i])
  /\ Settle(i, invoice[i], amount)
  /\ UNCHANGED <<order, hold, note, return, credit, onHand, voids>>

RecordPayment(i, amount) ==
  /\ invoice[i].status \in Payable
  /\ amount <= Balance(invoice[i])
  /\ Settle(i, invoice[i], amount)
  /\ UNCHANGED <<order, hold, note, return, credit, onHand, voids>>

FreeForTill(q) == onHand >= q /\ Available >= q

\* Order, delivery, invoice and payment at once.  A single tender is snapped to
\* the balance; several tenders are taken as they are.
PosCheckout(o, d, i, q, tender) ==
  /\ order[o] = NoOrder /\ note[d] = NoNote /\ invoice[i] = NoInvoice
  /\ FreeForTill(q)
  /\ order' = [order EXCEPT ![o] = [status |-> "delivered", qty |-> q, delivered |-> q]]
  /\ onHand' = onHand - q
  /\ note' = [note EXCEPT ![d] = [order |-> o, qty |-> q]]
  /\ Settle(i, NewInvoice(d, q), tender)
  /\ UNCHANGED <<hold, return, credit, voids>>

-----------------------------------------------------------------------------
(* Reversal, returns and credit notes                                      *)

\* Faulty variant: what was billed is restored, delivered or not.
RestoredBilled(i) == invoice[i].total

\* The stock a void restores: that of the invoice's delivery, if it has one.
Restored(i) == IF invoice[i].note = None THEN 0 ELSE note[invoice[i].note].qty

\* Faulty variant: only a sale that was paid in full has its money reversed.
VoidInvoicePaidOnly(i) ==
  /\ invoice[i].status \in Voidable
  /\ onHand + Restored(i) <= MaxStock
  /\ onHand' = onHand + Restored(i)
  /\ banked' = [banked EXCEPT ![i] = IF invoice[i].status = "paid" THEN 0 ELSE @]
  /\ invoice' = [invoice EXCEPT ![i].status = "voided"]
  /\ voids' = [voids EXCEPT ![i] = @ + 1]
  /\ UNCHANGED <<order, hold, note, return, credit>>

\* void_invoice: restock, reverse_reference (every movement not reversed yet).
VoidInvoice(i) ==
  /\ invoice[i].status \in Voidable
  /\ onHand + Restored(i) <= MaxStock
  /\ onHand' = onHand + Restored(i)
  /\ banked' = [banked EXCEPT ![i] = 0]
  /\ invoice' = [invoice EXCEPT ![i].status = "voided"]
  /\ voids' = [voids EXCEPT ![i] = @ + 1]
  /\ UNCHANGED <<order, hold, note, return, credit>>

\* Goods come back against an invoice, in any status and any quantity.
CreateReturn(r, i, q) ==
  /\ return[r] = NoReturn /\ invoice[i] # NoInvoice
  /\ onHand + q <= MaxStock
  /\ return' = [return EXCEPT ![r] = [invoice |-> i, qty |-> q, status |-> "received"]]
  /\ onHand' = onHand + q
  /\ UNCHANGED <<order, hold, note, invoice, credit, banked, voids>>

CreateCreditNote(c, r) ==
  /\ credit[c] = NoCredit /\ return[r] # NoReturn
  /\ credit' = [credit EXCEPT ![c] = [return |-> r, total |-> return[r].qty, status |-> "draft"]]
  /\ return' = [return EXCEPT ![r].status = "credited"]
  /\ UNCHANGED <<order, hold, note, invoice, banked, onHand, voids>>

\* An applied credit note offsets the invoice, whose status is recomputed,
\* whatever it is.
AppliedTo(i, amount) == [invoice EXCEPT ![i] = Credited(@, amount)]

\* Faulty variant: an applied credit note can be applied again.
CreditNoteReapplied(c, new) ==
  /\ \/ <<credit[c].status, new>> \in CreditAllowed
     \/ credit[c].status = "applied" /\ new = "applied"
  /\ credit' = [credit EXCEPT ![c].status = new]
  /\ invoice' = IF new = "applied"
                  THEN AppliedTo(return[credit[c].return].invoice, credit[c].total) ELSE invoice
  /\ UNCHANGED <<order, hold, note, return, banked, onHand, voids>>

CreditNoteTransition(c, new) ==
  /\ <<credit[c].status, new>> \in CreditAllowed
  /\ credit' = [credit EXCEPT ![c].status = new]
  /\ invoice' = IF new = "applied"
                  THEN AppliedTo(return[credit[c].return].invoice, credit[c].total) ELSE invoice
  /\ UNCHANGED <<order, hold, note, return, banked, onHand, voids>>

-----------------------------------------------------------------------------
Next ==
  \/ \E o \in Order :
       \/ \E q \in 1..MaxQty : CreateSalesOrder(o, q)
       \/ ConfirmSalesOrder(o)
       \/ CancelSalesOrder(o)
       \/ \E d \in Note, q \in 1..MaxQty : CreateDelivery(o, d, q)
       \/ \E d \in Note, i \in Invoice, q \in 1..MaxQty :
            \E tender \in {q} \union 2..MaxQty : PosCheckout(o, d, i, q, tender)
  \/ \E i \in Invoice :
       \/ CreateInvoice(i)
       \/ \E amount \in 1..MaxQty : RecordPayment(i, amount)
       \/ VoidInvoice(i)
       \/ \E r \in Return, q \in 1..MaxQty : CreateReturn(r, i, q)
  \/ \E c \in Credit :
       \/ \E r \in Return : CreateCreditNote(c, r)
       \/ \E new \in CreditStatus : CreditNoteTransition(c, new)

Spec == Init /\ [][Next]_vars

-----------------------------------------------------------------------------
(* Properties                                                              *)

\* Every document holds what its columns allow.
TypeOK ==
  /\ order \in [Order -> [status : OrderStatus, qty : 0..MaxQty, delivered : 0..MaxQty]]
  /\ hold \in [Order -> 0..MaxQty]
  /\ note \in [Note -> [order : Order \union {None}, qty : 0..MaxQty]]
  /\ invoice \in [Invoice -> [status : InvoiceStatus, note : Note \union {None},
                              total : 0..MaxQty, paid : Nat, credit : Nat]]
  /\ banked \in [Invoice -> Nat]
  /\ return \in [Return -> [invoice : Invoice \union {None}, qty : 0..MaxQty,
                            status : {"none", "received", "credited"}]]
  /\ credit \in [Credit -> [return : Return \union {None}, total : 0..MaxQty,
                            status : CreditStatus]]
  /\ onHand \in 0..MaxStock
  /\ voids \in [Invoice -> Nat]

\* An order that can still be delivered holds exactly what it still owes its
\* customer, over any number of partial deliveries, and no other order holds
\* stock; what all orders hold together is in stock: no till, delivery or other
\* confirmation sells it away.
OrdersHoldWhatTheyOwe ==
  /\ \A o \in Order :
       hold[o] = IF order[o].status \in Deliverable THEN Outstanding(o) ELSE 0
  /\ Held <= onHand

\* The units that a delivery took, that a return brought back, and that the voids
\* of an invoice restored.
Left == [d \in Note |-> note[d].qty]
Back == [r \in Return |-> return[r].qty]
Undone ==
  [i \in Invoice |-> IF invoice[i].note = None THEN 0 ELSE voids[i] * note[invoice[i].note].qty]

\* What an order counts as delivered is what its delivery notes say, and never
\* more than was ordered.  Stock is what there was, less what was delivered, plus
\* what came back by a return or by voiding the invoice of a delivery.
StockIsAccountedFor ==
  /\ \A o \in Order :
       /\ order[o].delivered = SumFunctionOnSet(Left, {d \in Note : note[d].order = o})
       /\ order[o].delivered <= order[o].qty
  /\ onHand = Supply - SumFunctionOnSet(Left, Note) + SumFunctionOnSet(Undone, Invoice)
                + SumFunctionOnSet(Back, Return)

Amounts == [c \in Credit |-> credit[c].total]
Applied(i) ==
  {c \in Credit : credit[c].status = "applied" /\ return[credit[c].return].invoice = i}

\* The status of an invoice in force tells how much of it is settled, by
\* payments and credit notes together; its credit is what its applied credit notes
\* amount to: none is counted twice and none is lost.
StatusTellsSettlement ==
  \A i \in Invoice :
    LET v == invoice[i]
    IN  /\ v.credit = SumFunctionOnSet(Amounts, Applied(i))
        /\ v.status \in Voidable =>
             /\ v.status = "sent" <=> Settled(v) = 0
             /\ v.status = "paid" <=> Settled(v) >= v.total

\* Finance holds the payments of an invoice until it is voided, and nothing of
\* one that is.
BankedFollowsInvoice ==
  \A i \in Invoice :
    /\ invoice[i].status = "voided" => banked[i] = 0
    /\ voids[i] = 0 => banked[i] = invoice[i].paid

\* A voided invoice comes back into force only by a credit note applied to it, so
\* every void of it but the first, and the restock that goes with it, has an applied
\* credit note of its own: none serves twice.
RevivedByCredit ==
  \A i \in Invoice :
    voids[i] <= Cardinality(Applied(i)) + IF invoice[i].status = "voided" THEN 1 ELSE 0

\* A voided sale stays voided: it is "kept for audit; excluded from active
\* sales" (void_invoice).
VoidedStaysVoided ==
  [][ \A i \in Invoice : invoice[i].status = "voided" => invoice'[i].status = "voided" ]_vars
=============================================================================
