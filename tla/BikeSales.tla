------------------------------ MODULE BikeSales ------------------------------
(***************************************************************************)
(* Promising and selling units, voiding the sale, and handing the unit over. *)
(*   backend/app/sales/service.py (sell_bike, sell_bikes_bulk, void_invoice) *)
(*   backend/app/motorcycles/service.py (reserve, sell, revert_sale_...)     *)
(*   backend/app/customer_handovers/service.py, domain/status.py             *)
(*                                                                          *)
(* Selling asks the loans and the consignments whether the unit is out.      *)
(* Money is left out: an invoice is issued or voided (see Sales), and a       *)
(* handover is ready once its balance is settled and it is signed.           *)
(***************************************************************************)
EXTENDS Loans, Parcels

VARIABLE
  handover      \* customer_handovers, at most one per unit

\* A draft is "ready" while completion_errors finds nothing to say.
Handover == {"none", "draft", "ready", "completed"}

SalesInit ==
  /\ invoice = [i \in Invoice |-> "none"]
  /\ handover = [u \in Unit |-> "none"]

Out(u) == OnLoan(u) \/ OnConsignment(u)

Reserve(u, c) ==
  /\ status[u] \in ReservableFrom
  /\ ~Out(u)
  /\ status' = [status EXCEPT ![u] = "reserved"]
  /\ customer' = [customer EXCEPT ![u] = c]
  /\ UNCHANGED <<place, soldOn, built, owed, handed, imported, parts, handover, invoice>>

\* Faulty variant: a sale asks for the unit's status only.
MarkSoldWherever(S, i, c, A) ==
  /\ \A u \in S : status[u] \in SellableFrom
  /\ status' = [u \in Unit |-> IF u \in S THEN "sold" ELSE status[u]]
  /\ soldOn' = [u \in Unit |-> IF u \in S THEN i ELSE soldOn[u]]
  /\ customer' = [u \in Unit |-> IF u \in S THEN c ELSE customer[u]]
  /\ owed' = [u \in Unit |-> IF u \in S THEN ~built[u] /\ u \in A ELSE owed[u]]
  /\ UNCHANGED <<place, built, handed, imported, parts>>

\* MotorcycleService.sell of each unit of S: a sold unit owes its assembly if it
\* was not built, unless the buyer assembles it (it is not in A).
MarkSold(S, i, c, A) ==
  /\ \A u \in S : status[u] \in SellableFrom /\ ~Out(u)
  /\ status' = [u \in Unit |-> IF u \in S THEN "sold" ELSE status[u]]
  /\ soldOn' = [u \in Unit |-> IF u \in S THEN i ELSE soldOn[u]]
  /\ customer' = [u \in Unit |-> IF u \in S THEN c ELSE customer[u]]
  /\ owed' = [u \in Unit |-> IF u \in S THEN ~built[u] /\ u \in A ELSE owed[u]]
  /\ UNCHANGED <<place, built, handed, imported, parts>>

\* The sell endpoint: one unit against any invoice that exists.
SellUnit(u, i, c, A) ==
  /\ invoice[i] # "none"
  /\ MarkSold({u}, i, c, A)
  /\ UNCHANGED <<handover, invoice>>

\* sell_bike, sell_bikes_bulk: one new invoice for the units, all or nothing.
SellBikes(S, i, c, A) ==
  /\ S # {} /\ invoice[i] = "none"
  /\ \A u \in S : "sold" \in Allowed(status[u])
  /\ MarkSold(S, i, c, A)
  /\ invoice' = [invoice EXCEPT ![i] = "issued"]
  /\ UNCHANGED handover

\* create_invoice: an invoice for parts, which a unit may be sold against too.
RaiseInvoice(i) ==
  /\ invoice[i] = "none"
  /\ invoice' = [invoice EXCEPT ![i] = "issued"]
  /\ UNCHANGED <<registry, parts, handover>>

\* revert_sale_for_invoice: the one unit the query returns goes back to stock.
RevertSale(u) ==
  /\ status' = [status EXCEPT ![u] = IF built[u] THEN "assembled" ELSE "unassembled"]
  /\ owed' = [owed EXCEPT ![u] = FALSE]
  /\ soldOn' = [soldOn EXCEPT ![u] = None]
  /\ customer' = [customer EXCEPT ![u] = None]
  /\ UNCHANGED <<place, built, handed, imported, parts>>

VoidInvoice(i) ==
  LET sold == {u \in Unit : soldOn[u] = i}
  IN  /\ invoice[i] = "issued"
      /\ \/ \E u \in sold : RevertSale(u)
         \/ sold = {} /\ UNCHANGED <<registry, parts>>
      /\ invoice' = [invoice EXCEPT ![i] = "voided"]
      /\ UNCHANGED handover

Draft(ready) == IF ready THEN "ready" ELSE "draft"

\* create: a handover is drafted for a sold unit, once.
DraftHandover(u, ready) ==
  /\ status[u] = "sold"
  /\ handover[u] = "none"
  /\ handover' = [handover EXCEPT ![u] = Draft(ready)]
  /\ UNCHANGED <<registry, parts, invoice>>

\* update: the balance and the signatures are edited.
EditHandover(u, ready) ==
  /\ handover[u] \in {"draft", "ready"}
  /\ handover' = [handover EXCEPT ![u] = Draft(ready)]
  /\ UNCHANGED <<registry, parts, invoice>>

\* complete: the fields of the call are edited first, and have to make it ready;
\* the unit's sale is not looked at again.
CompleteHandover(u, ready) ==
  /\ handover[u] \in {"draft", "ready"}
  /\ ready
  /\ handover' = [handover EXCEPT ![u] = "completed"]
  /\ handed' = [handed EXCEPT ![u] = TRUE]
  /\ UNCHANGED <<status, place, customer, soldOn, built, owed, imported, parts, invoice>>

SalesNext ==
  \/ \E u \in Unit, c \in Customer : Reserve(u, c)
  \/ \E i \in Invoice, c \in Customer :
       \/ \E u \in Unit : \E A \in SUBSET {u} : SellUnit(u, i, c, A)
       \/ \E S \in SUBSET Unit : \E A \in SUBSET S : SellBikes(S, i, c, A)
  \/ \E i \in Invoice : RaiseInvoice(i) \/ VoidInvoice(i)
  \/ \E u \in Unit, ready \in BOOLEAN :
       DraftHandover(u, ready) \/ EditHandover(u, ready) \/ CompleteHandover(u, ready)

SalesTypeOK == handover \in [Unit -> Handover]
=============================================================================
