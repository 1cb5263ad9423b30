------------------------------ MODULE Quotations ------------------------------
(***************************************************************************)
(* Quotations of spare parts beside the sales they lead to.                 *)
(*   backend/app/sales/service.py, domain/status.py                          *)
(* Every handler locks the quotation and is one transaction.  A quotation    *)
(* holds no stock; its validity date is shown and never enforced.            *)
(***************************************************************************)
EXTENDS Sales

CONSTANT Quote          \* quotations (of one line)

ASSUME QuoteAssumption == None \notin Quote

VARIABLES
  quote,        \* sales_quotations and their line
  origin        \* per order: sales_orders.quotation_id

quotations == <<quote, origin>>
quoteVars == <<vars, quotations>>

QuoteStatus == {"none", "draft", "sent", "accepted", "rejected", "expired", "cancelled"}

\* _QUOTE_ALLOWED
QuoteAllowed ==
  ({"draft"} \X {"sent", "accepted", "cancelled"})
    \union ({"sent"} \X {"accepted", "rejected", "expired", "cancelled"})
    \union {<<"accepted", "cancelled">>}

\* QUOTE_CONVERTIBLE
Convertible == {"draft", "sent", "accepted"}

QuotationsInit ==
  /\ Init
  /\ quote = [q \in Quote |-> [status |-> "none", qty |-> 0]]
  /\ origin = [o \in Order |-> None]

CreateQuotation(q, qty) ==
  /\ quote[q].status = "none"
  /\ quote' = [quote EXCEPT ![q] = [status |-> "draft", qty |-> qty]]
  /\ UNCHANGED <<vars, origin>>

QuoteTransition(q, new) ==
  /\ <<quote[q].status, new>> \in QuoteAllowed
  /\ quote' = [quote EXCEPT ![q].status = new]
  /\ UNCHANGED <<vars, origin>>

\* Faulty variant: the quotation stays as it was.
AcceptedOnce(q) == quote

\* A conversion accepts the quotation, and may be repeated.
Accepted(q) == [quote EXCEPT ![q].status = "accepted"]

FromQuote(q, o) ==
  /\ quote[q].status \in Convertible /\ order[o] = NoOrder
  /\ quote' = Accepted(q)
  /\ origin' = [origin EXCEPT ![o] = q]

\* The quoted line becomes a draft order.
ConvertQuotation(q, o) ==
  /\ FromQuote(q, o)
  /\ order' = [order EXCEPT ![o] =
                 [status |-> "draft", qty |-> quote[q].qty, delivered |-> 0]]
  /\ UNCHANGED <<hold, note, invoice, return, credit, banked, onHand, voids>>

\* Convert, confirm, deliver everything and invoice the delivery, or nothing of it.
InvoiceQuotation(q, o, d, i) ==
  LET qty == quote[q].qty
  IN  /\ FromQuote(q, o)
      /\ note[d] = NoNote /\ invoice[i] = NoInvoice
      /\ Available >= qty
      /\ order' = [order EXCEPT ![o] =
                     [status |-> "delivered", qty |-> qty, delivered |-> qty]]
      /\ onHand' = onHand - qty
      /\ note' = [note EXCEPT ![d] = [order |-> o, qty |-> qty]]
      /\ invoice' = [invoice EXCEPT ![i] = NewInvoice(d, qty)]
      /\ UNCHANGED <<hold, return, credit, banked, voids>>

QuotationsNext ==
  \/ Next /\ UNCHANGED quotations
  \/ \E q \in Quote :
       \/ \E qty \in 1..MaxQty : CreateQuotation(q, qty)
       \/ \E new \in QuoteStatus : QuoteTransition(q, new)
       \/ \E o \in Order :
            \/ ConvertQuotation(q, o)
            \/ \E d \in Note, i \in Invoice : InvoiceQuotation(q, o, d, i)

QuotationsSpec == QuotationsInit /\ [][QuotationsNext]_quoteVars

-----------------------------------------------------------------------------
(* Properties                                                              *)

\* An order that came from a quotation is for what was quoted, whatever happens to
\* either afterwards, and the customer has accepted it: a quotation that was
\* rejected or has expired is behind no order, and one that led to an order can
\* only be cancelled.
QuotesBindOrders ==
  /\ \A q \in Quote : quote[q].status \in QuoteStatus /\ quote[q].qty \in 0..MaxQty
  /\ \A o \in Order :
       origin[o] # None =>
         /\ order[o].qty = quote[origin[o]].qty
         /\ quote[origin[o]].status \in {"accepted", "cancelled"}
=============================================================================
