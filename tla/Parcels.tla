------------------------------- MODULE Parcels -------------------------------
(***************************************************************************)
(* Deliveries to customers.  In sale mode a delivery is the proof that what  *)
(* an invoice sold was handed over, and moves nothing; in consignment mode    *)
(* parts are held and units are out at a reseller until each is settled as    *)
(* sold or returned.                                                         *)
(*   backend/app/customer_delivery/service.py, repository.py, domain/status.py *)
(***************************************************************************)
EXTENDS Motorcycles

CONSTANT Parcel \* customer_deliveries

VARIABLES
  parcel,       \* customer_deliveries.status, "none" before create
  parcelRow,    \* its mode, buyer, units, quantity of the part, location
  soldUnits,    \* units of a consignment settled as sold
  backUnits,    \* units of a consignment that came back unsold
  parcelPart,   \* settled_qty and returned_qty of its part line
  invoice       \* invoices: "none", "issued" or "voided"

parcels == <<parcel, parcelRow, soldUnits, backUnits, parcelPart>>

ParcelStatus == {"none", "draft", "delivered", "out_at_reseller", "partially_settled",
                 "settled", "returned", "cancelled"}
OpenConsignment == {"out_at_reseller", "partially_settled"}
ParcelRow == [mode : {"sale", "consignment"}, buyer : Customer, units : SUBSET Unit,
              qty : 0..MaxQty, at : Warehouse]
\* A consignment of units only has no part line to tell apart.
NewConsignment == {row \in ParcelRow :
  row.mode = "consignment" /\ (row.qty = 0 => row.at = Home /\ row.units # {})}
PartLine == [settled : 0..MaxQty, returned : 0..MaxQty]

Smaller(a, b) == IF a <= b THEN a ELSE b

ParcelsInit ==
  /\ parcel = [d \in Parcel |-> "none"]
  /\ parcelRow = [d \in Parcel |-> None]
  /\ soldUnits = [d \in Parcel |-> {}]
  /\ backUnits = [d \in Parcel |-> {}]
  /\ parcelPart = [d \in Parcel |-> [settled |-> 0, returned |-> 0]]

\* Units of a consignment that are neither sold nor back.
UnitsOut(d) == parcelRow[d].units \ (soldUnits[d] \union backUnits[d])
PartOut(d) == parcelRow[d].qty - parcelPart[d].settled - parcelPart[d].returned

\* unit_on_open_consignment
OnConsignment(u) == \E d \in Parcel : parcel[d] \in OpenConsignment /\ u \in UnitsOut(d)

\* create, sale mode: the units are those whose sale names the invoice (its part
\* lines are listed too, but a sale's delivery moves nothing).
CreateSaleDelivery(d, i, c) ==
  /\ parcel[d] = "none"
  /\ invoice[i] # "none"
  /\ \E u \in Unit : soldOn[u] = i
  /\ parcel' = [parcel EXCEPT ![d] = "draft"]
  /\ parcelRow' = [parcelRow EXCEPT ![d] =
       [mode |-> "sale", buyer |-> c, units |-> {u \in Unit : soldOn[u] = i},
        qty |-> 0, at |-> Home]]
  /\ UNCHANGED <<soldUnits, backUnits, parcelPart, invoice, registry, parts>>

\* create, consignment mode
CreateConsignment(d, row) ==
  /\ parcel[d] = "none"
  /\ \A u \in row.units : Registered(u) /\ status[u] # "sold" /\ ~OnConsignment(u)
  /\ parcel' = [parcel EXCEPT ![d] = "draft"]
  /\ parcelRow' = [parcelRow EXCEPT ![d] = row]
  /\ UNCHANGED <<soldUnits, backUnits, parcelPart, invoice, registry, parts>>

\* deliver, sale mode: a unit whose assembly is owed needs a manager's override.
HandOut(d, override) ==
  /\ parcel[d] = "draft" /\ parcelRow[d].mode = "sale"
  /\ override \/ \A u \in parcelRow[d].units : ~owed[u]
  /\ parcel' = [parcel EXCEPT ![d] = "delivered"]
  /\ UNCHANGED <<parcelRow, soldUnits, backUnits, parcelPart, invoice, registry, parts>>

\* deliver, consignment mode: the units are not looked at again.
Consign(d) ==
  /\ parcel[d] = "draft" /\ parcelRow[d].mode = "consignment"
  /\ HoldPart(parcelRow[d].at, parcelRow[d].qty)
  /\ parcel' = [parcel EXCEPT ![d] = "out_at_reseller"]
  /\ UNCHANGED <<parcelRow, soldUnits, backUnits, parcelPart, invoice, registry>>

\* reconcile_outcome
ReconcileOutcome(sold, out, part, qty) ==
  IF out # {} \/ part.settled + part.returned < qty THEN "partially_settled"
  ELSE IF part.settled > 0 \/ sold # {} THEN "settled" ELSE "returned"

\* settle: some units were sold, each on an invoice that exists, some came back;
\* the part line takes what it can of both quantities.
Settle(d, sale, back, settled, returned) ==
  LET row == parcelRow[d]
      sold == DOMAIN sale
      s == Smaller(settled, PartOut(d))
      r == Smaller(returned, PartOut(d) - s)
  IN  /\ parcel[d] \in OpenConsignment
      /\ sold \subseteq UnitsOut(d) /\ back \subseteq UnitsOut(d) \ sold
      /\ \A u \in sold : invoice[sale[u]] # "none"
      /\ EndHold(row.at, s, r)
      /\ status' = [u \in Unit |-> IF u \in sold THEN "sold" ELSE status[u]]
      /\ soldOn' = [u \in Unit |-> IF u \in sold THEN sale[u] ELSE soldOn[u]]
      /\ customer' = [u \in Unit |-> IF u \in sold THEN row.buyer ELSE customer[u]]
      /\ soldUnits' = [soldUnits EXCEPT ![d] = @ \union sold]
      /\ backUnits' = [backUnits EXCEPT ![d] = @ \union back]
      /\ parcelPart' = [parcelPart EXCEPT
           ![d] = [settled |-> @.settled + s, returned |-> @.returned + r]]
      /\ parcel' = [parcel EXCEPT ![d] =
           ReconcileOutcome(soldUnits'[d], row.units \ (soldUnits'[d] \union backUnits'[d]),
                            parcelPart'[d], row.qty)]
      /\ UNCHANGED <<parcelRow, invoice, place, built, owed, handed, imported>>

CancelParcel(d) ==
  /\ parcel[d] = "draft"
  /\ parcel' = [parcel EXCEPT ![d] = "cancelled"]
  /\ UNCHANGED <<parcelRow, soldUnits, backUnits, parcelPart, invoice, registry, parts>>

ParcelsNext ==
  \E d \in Parcel :
    \/ \E i \in Invoice, c \in Customer : CreateSaleDelivery(d, i, c)
    \/ \E row \in NewConsignment : CreateConsignment(d, row)
    \/ \E override \in BOOLEAN : HandOut(d, override)
    \/ Consign(d)
    \/ \E sold, back \in SUBSET Unit, s, r \in 0..MaxQty :
         \E sale \in [sold -> Invoice] : Settle(d, sale, back, s, r)
    \/ CancelParcel(d)

ParcelsTypeOK ==
  /\ parcel \in [Parcel -> ParcelStatus]
  /\ parcelRow \in [Parcel -> ParcelRow \union {None}]
  /\ soldUnits \in [Parcel -> SUBSET Unit]
  /\ backUnits \in [Parcel -> SUBSET Unit]
  /\ parcelPart \in [Parcel -> PartLine]
  /\ invoice \in [Invoice -> {"none", "issued", "voided"}]
=============================================================================
