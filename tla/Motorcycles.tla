----------------------------- MODULE Motorcycles -----------------------------
(***************************************************************************)
(* The registry of serialized motorcycles and the one part the documents of *)
(* this group move beside them, as written by                               *)
(*   backend/app/motorcycles/service.py, repository.py, domain/lifecycle.py *)
(*                                                                          *)
(* A unit is one chassis: it is never counted in qty_on_hand, and it moves   *)
(* through its own sale status.  Every operation locks the unit's row and is *)
(* one transaction, so it is one action.  Documents that lend, consign, move, *)
(* repair, sell or hand over units extend this module; Units composes them.  *)
(* The place of a unit is its warehouse: the branch beside it decides only    *)
(* who may see the unit.  Names, prices, dates and the registration and       *)
(* inspection facts are left out.                                            *)
(***************************************************************************)
EXTENDS Integers, FiniteSetsExt

CONSTANTS
  Unit,         \* motorcycle_units
  Warehouse,    \* stock locations
  Customer,     \* customers
  Invoice,      \* invoices
  None,         \* a NULL column
  Opening,      \* units of the part each location starts with
  MaxQty,       \* bound: quantity of a part line
  MaxStock      \* bound: units of the part at one location

ASSUME MotorcycleAssumption ==
  /\ Warehouse # {} /\ Opening \in [Warehouse -> 0..MaxStock]
  /\ MaxQty \in Nat /\ MaxStock \in Nat
  /\ None \notin Warehouse \union Customer \union Invoice

VARIABLES
  status,       \* motorcycle_units.status, "none" before create_unit
  place,        \* .warehouse_id, NULL in transit, or because none was given
  customer,     \* .customer_id
  soldOn,       \* .sold_ref, the invoice of the sale
  built,        \* .assembled_date IS NOT NULL
  owed,         \* .assembly_pending, sold before assembly
  handed,       \* .delivered
  imported,     \* .import_job_id IS NOT NULL, registered by an import
  onHand,       \* inventory.qty_on_hand of the part, per location
  held          \* inventory.qty_reserved of the part, per location

registry == <<status, place, customer, soldOn, built, owed, handed, imported>>
parts == <<onHand, held>>

SaleStatus == {"unassembled", "assembled", "reserved", "on_hold", "sold"}

\* _ALLOWED, the guard of every transition.
Allowed(old) ==
  CASE old = "unassembled" -> {"assembled", "on_hold", "reserved", "sold"}
    [] old = "assembled" -> {"reserved", "sold", "on_hold"}
    [] old = "reserved" -> {"sold", "assembled"}
    [] old = "on_hold" -> {"assembled", "unassembled"}
    [] OTHER -> {}

ReservableFrom == {"assembled", "unassembled"}
SellableFrom == {"assembled", "reserved", "unassembled"}

\* The location named by a document that has no line of the part.
Home == CHOOSE w \in Warehouse : TRUE

Registered(u) == status[u] # "none"

Init ==
  /\ status = [u \in Unit |-> "none"]
  /\ place = [u \in Unit |-> None]
  /\ customer = [u \in Unit |-> None]
  /\ soldOn = [u \in Unit |-> None]
  /\ built = [u \in Unit |-> FALSE]
  /\ owed = [u \in Unit |-> FALSE]
  /\ handed = [u \in Unit |-> FALSE]
  /\ imported = [u \in Unit |-> FALSE]
  /\ onHand = Opening
  /\ held = [w \in Warehouse |-> 0]

-----------------------------------------------------------------------------
(* The part, at one location                                               *)

Available(w) == onHand[w] - held[w]

\* Faulty variant: what others hold is issued too, and more than there is.
IssueHeldPart(w, q) ==
  /\ onHand' = [onHand EXCEPT ![w] = @ - q]
  /\ UNCHANGED held

\* InventoryService.issue: what is on hand and not held leaves the location.
IssuePart(w, q) ==
  /\ q > 0 => Available(w) >= q
  /\ onHand' = [onHand EXCEPT ![w] = @ - q]
  /\ UNCHANGED held

\* The availability check and ReservationRepository.reserve.
HoldPart(w, q) ==
  /\ Available(w) >= q
  /\ held' = [held EXCEPT ![w] = @ + q]
  /\ UNCHANGED onHand

\* A line's hold shrinks by what leaves for good and by what comes back.
EndHold(w, gone, back) ==
  /\ gone <= onHand[w]
  /\ onHand' = [onHand EXCEPT ![w] = @ - gone]
  /\ held' = [held EXCEPT ![w] = @ - gone - back]

-----------------------------------------------------------------------------
(* The registry                                                            *)

\* create_unit: a unit that needs no assembly is ready at once; it need not be
\* at any warehouse.
CreateUnit(u, w, needsAssembly) ==
  /\ ~Registered(u)
  /\ status' = [status EXCEPT ![u] = IF needsAssembly THEN "unassembled" ELSE "assembled"]
  /\ built' = [built EXCEPT ![u] = ~needsAssembly]
  /\ place' = [place EXCEPT ![u] = w]
  /\ UNCHANGED <<customer, soldOn, owed, handed, imported, parts>>

\* The customer a row of the sheet may name: a sold or reserved unit has one, a
\* unit on hold has none, and the others may.
ImportedCustomer(s) ==
  CASE s \in {"sold", "reserved"} -> Customer
    [] s = "on_hold" -> {None}
    [] OTHER -> Customer \union {None}

\* commit of the import of units, for one row: any status, with or without an
\* assembly date, on no invoice and at no warehouse.
ImportUnit(u, s, c, assembled) ==
  /\ ~Registered(u)
  /\ c \in ImportedCustomer(s)
  /\ status' = [status EXCEPT ![u] = s]
  /\ customer' = [customer EXCEPT ![u] = c]
  /\ built' = [built EXCEPT ![u] = assembled]
  /\ imported' = [imported EXCEPT ![u] = TRUE]
  /\ UNCHANGED <<place, soldOn, owed, handed, parts>>

\* Faulty variant: putting a unit on hold keeps the customer it was promised to.
TransitionKeepsCustomer(u, new) ==
  /\ new \notin {"reserved", "sold"}
  /\ new \in Allowed(status[u])
  /\ status' = [status EXCEPT ![u] = new]
  /\ built' = [built EXCEPT ![u] = @ \/ new = "assembled"]
  /\ UNCHANGED <<customer, place, soldOn, owed, handed, imported, parts>>

\* transition: reserving and selling have actions of their own.
Transition(u, new) ==
  /\ new \notin {"reserved", "sold"}
  /\ new \in Allowed(status[u])
  /\ status' = [status EXCEPT ![u] = new]
  /\ customer' = [customer EXCEPT ![u] =
       IF new = "on_hold" \/ (status[u] = "reserved" /\ new = "assembled") THEN None ELSE @]
  /\ built' = [built EXCEPT ![u] = @ \/ new = "assembled"]
  /\ UNCHANGED <<place, soldOn, owed, handed, imported, parts>>

\* mark_assembled: a fact of its own, whatever the sale status.
MarkAssembled(u) ==
  /\ Registered(u)
  /\ ~built[u] \/ owed[u]
  /\ status' = [status EXCEPT ![u] = IF @ = "unassembled" THEN "assembled" ELSE @]
  /\ built' = [built EXCEPT ![u] = TRUE]
  /\ owed' = [owed EXCEPT ![u] = FALSE]
  /\ UNCHANGED <<place, customer, soldOn, handed, imported, parts>>

\* transfer: a unit that is not sold moves to another branch, and to a warehouse
\* there when one is named (w # None).
TransferUnit(u, w) ==
  /\ Registered(u) /\ status[u] # "sold"
  /\ place' = [place EXCEPT ![u] = IF w = None THEN @ ELSE w]
  /\ UNCHANGED <<status, customer, soldOn, built, owed, handed, imported, parts>>

\* update_unit: the warehouse is one of the columns an edit may set, or clear, on
\* any unit.
EditUnit(u, w) ==
  /\ Registered(u)
  /\ place' = [place EXCEPT ![u] = w]
  /\ UNCHANGED <<status, customer, soldOn, built, owed, handed, imported, parts>>

RegistryNext ==
  \E u \in Unit :
    \/ \E w \in Warehouse \union {None}, needsAssembly \in BOOLEAN : CreateUnit(u, w, needsAssembly)
    \/ \E s \in SaleStatus, c \in Customer \union {None}, assembled \in BOOLEAN :
         ImportUnit(u, s, c, assembled)
    \/ \E new \in SaleStatus : Transition(u, new)
    \/ MarkAssembled(u)
    \/ \E w \in Warehouse \union {None} : TransferUnit(u, w) \/ EditUnit(u, w)

\* Every column holds what its type and CHECK constraints allow.
RegistryTypeOK ==
  /\ status \in [Unit -> SaleStatus \union {"none"}]
  /\ place \in [Unit -> Warehouse \union {None}]
  /\ customer \in [Unit -> Customer \union {None}]
  /\ soldOn \in [Unit -> Invoice \union {None}]
  /\ built \in [Unit -> BOOLEAN]
  /\ owed \in [Unit -> BOOLEAN]
  /\ handed \in [Unit -> BOOLEAN]
  /\ imported \in [Unit -> BOOLEAN]
  /\ onHand \in [Warehouse -> 0..MaxStock]
  /\ held \in [Warehouse -> 0..MaxStock]
=============================================================================
