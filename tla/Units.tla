-------------------------------- MODULE Units --------------------------------
(***************************************************************************)
(* The documents that act on the same motorcycles and the same part, working *)
(* at the same time: the registry, delivery notes, loans, consignments,      *)
(* repairs, sales and handovers.  None of them knows all the others, which    *)
(* is where the interesting behaviours are.                                  *)
(***************************************************************************)
EXTENDS DispatchNotes, Repairs, BikeSales, Functions

CONSTANT MaxDocuments   \* bound: documents of all kinds together

ASSUME MaxDocumentsAssumption == MaxDocuments \in Nat

ASSUME FiniteDocuments ==
  IsFiniteSet(Note) /\ IsFiniteSet(Loan) /\ IsFiniteSet(Parcel) /\ IsFiniteSet(Repair)

vars == <<registry, parts, notes, loans, parcels, invoice, repairs, handover>>

InitAll == Init /\ NotesInit /\ LoansInit /\ ParcelsInit /\ RepairsInit /\ SalesInit

Documents ==
  Cardinality({n \in Note : note[n] # "none"}) + Cardinality({l \in Loan : loan[l] # "none"})
  + Cardinality({d \in Parcel : parcel[d] # "none"})
  + Cardinality({r \in Repair : repair[r] # "none"})
  + Cardinality({i \in Invoice : invoice[i] # "none"})

Next ==
  /\ \/ RegistryNext /\ UNCHANGED <<notes, loans, parcels, invoice, repairs, handover>>
     \/ NotesNext /\ UNCHANGED <<loans, parcels, invoice, repairs, handover>>
     \/ LoansNext /\ UNCHANGED <<notes, parcels, invoice, repairs, handover>>
     \/ ParcelsNext /\ UNCHANGED <<notes, loans, repairs, handover>>
     \/ RepairsNext /\ UNCHANGED <<notes, loans, parcels, invoice, handover>>
     \/ SalesNext /\ UNCHANGED <<notes, loans, parcels, repairs>>
  /\ Documents' <= MaxDocuments

Spec == InitAll /\ [][Next]_vars

-----------------------------------------------------------------------------
(* Properties                                                              *)

\* Every column of every document holds what its type allows.
TypeOK ==
  /\ RegistryTypeOK
  /\ NotesTypeOK
  /\ LoansTypeOK
  /\ ParcelsTypeOK
  /\ RepairsTypeOK
  /\ SalesTypeOK

\* The sale status of a unit agrees with its other columns whichever document
\* wrote it last: a reserved or sold unit has a customer and one on hold has none;
\* a unit with a customer in another status, sold on no invoice, or assembled
\* without a date came so from the import of the registry, which may write what no
\* document does; an invoice that sold a unit exists, if only as voided; a unit is
\* delivered exactly when its handover is completed.
StatusTellsFacts ==
  \A u \in Unit :
    /\ status[u] \in {"reserved", "sold"} => customer[u] # None
    /\ customer[u] # None => \/ status[u] \in {"reserved", "sold"}
                             \/ imported[u] /\ status[u] \in {"unassembled", "assembled"}
    /\ status[u] = "sold" => soldOn[u] # None \/ imported[u]
    /\ soldOn[u] # None => Registered(u) /\ invoice[soldOn[u]] # "none"
    /\ status[u] = "assembled" => built[u] \/ imported[u]
    /\ handed[u] <=> handover[u] = "completed"

\* A registered unit at no warehouse that no note has on the way.
Lost(u) ==
  /\ Registered(u) /\ place[u] = None
  /\ ~\E n \in Note : note[n] = "in_transit" /\ u \in noteRow[n].units

\* No document loses a unit: one that was at a warehouse or on the way stays so
\* when it is received, in whole or in part, by one of the notes that carry it, and
\* whatever else moves it meanwhile; only an edit of the unit may clear its
\* warehouse (and a unit may be registered without one).
NoUnitIsLost ==
  [][ \A u \in Unit :
        Registered(u) /\ ~Lost(u) /\ Lost(u)' => EditUnit(u, None) ]_vars

\* What each document did to the part at location w, or still holds of it.
Sent(n, w) ==
  IF note[n] \in {"in_transit", "partially_received", "received"} /\ noteRow[n].src = w
    THEN noteRow[n].qty ELSE 0
Came(n, w) == IF note[n] # "none" /\ noteRow[n].dst = w THEN credited[n] ELSE 0

IssuedAt(l, w) == loan[l] \in OpenLoan \union {"returned"} /\ loanRow[l].at = w
Used(l, w) ==
  IF ~IssuedAt(l, w) THEN 0
  ELSE loanLost[l] + IF loanRow[l].kind = "consumable" THEN loanRow[l].qty ELSE 0
Lent(l, w) == IF IssuedAt(l, w) THEN loanHold[l] ELSE 0

ParcelAt(d, w) == parcel[d] # "none" /\ parcelRow[d].at = w
Sold(d, w) == IF ParcelAt(d, w) THEN parcelPart[d].settled ELSE 0
Consigned(d, w) == IF ParcelAt(d, w) /\ parcel[d] \in OpenConsignment THEN PartOut(d) ELSE 0

Spent(r, w) == IF repair[r] = "resolved" /\ repairRow[r].at = w THEN planned[r] ELSE 0

Total(f) == SumFunctionOnSet(f, DOMAIN f)

\* What left location w for good, and what is held there.
Gone(w) ==
  Total([n \in Note |-> Sent(n, w)]) - Total([n \in Note |-> Came(n, w)])
  + Total([l \in Loan |-> Used(l, w)]) + Total([d \in Parcel |-> Sold(d, w)])
  + Total([r \in Repair |-> Spent(r, w)])
Kept(w) == Total([l \in Loan |-> Lent(l, w)]) + Total([d \in Parcel |-> Consigned(d, w)])

\* The documents explain the part's stock at every location: what is there is what
\* was there, less what notes sent away, loans used up or lost, consignments sold
\* and repairs consumed, plus what notes brought; and what is held is what lent
\* lines still hold and open consignments still have out.  A loan that is closed
\* holds no returnable part, and never is more held than there is.
DocumentsExplainStock ==
  /\ \A w \in Warehouse : /\ onHand[w] = Opening[w] - Gone(w)
                          /\ held[w] = Kept(w)
                          /\ held[w] <= onHand[w]
  /\ \A l \in Loan :
       loan[l] = "returned" /\ loanRow[l].kind = "returnable" => loanHold[l] = 0

\* A unit on an open, unreturned loan line or an open, unsettled consignment line.
LentOut(u) ==
  \/ \E l \in Loan : /\ loan[l] \in {"out_on_loan", "partially_returned"}
                     /\ u \in loanRow[l].units /\ u \notin loanBack[l]
  \/ \E d \in Parcel : /\ parcel[d] \in {"out_at_reseller", "partially_settled"}
                       /\ u \in parcelRow[d].units
                       /\ u \notin soldUnits[d] \union backUnits[d]

\* A unit that is out on loan or on consignment, and stays out, is neither promised
\* nor sold meanwhile, by whichever of the five ways to sell it; only the
\* settlement of a consignment it is on may sell it.
LentUnitsStayOurs ==
  [][ \A u \in Unit :
        LentOut(u) /\ LentOut(u)' /\ status'[u] \in {"reserved", "sold"} =>
          \/ status'[u] = status[u] /\ soldOn'[u] = soldOn[u]
          \/ \E d \in Parcel : u \in soldUnits'[d] \ soldUnits[d] ]_vars

\* A sale lasts as long as its invoice.  A sold unit leaves the sold status only
\* when the invoice of its sale is voided, or when it comes back from a loan in need
\* of attention: a repair, a transition, a reservation or a receipt never takes it
\* from its buyer.  And when that invoice is voided it goes back, unless another
\* unit sold on the same invoice does.
SoldUnitsStaySold ==
  [][ \A u \in Unit :
        LET Voided == soldOn[u] # None /\ invoice'[soldOn[u]] = "voided"
                        /\ invoice[soldOn[u]] # "voided"
        IN  /\ status[u] = "sold" /\ status'[u] # "sold" =>
                 Voided \/ \E l \in Loan : u \in loanBack'[l] \ loanBack[l]
            /\ status'[u] = "sold" /\ Voided =>
                 \E v \in Unit \ {u} : soldOn[v] = soldOn[u] /\ soldOn'[v] = None ]_vars

\* A note never credits its destination with more than left the source (status.py:
\* a line reconciles when received + missing + damaged = dispatched).
NoteCreditsOnce ==
  \A n \in Note : noteRow[n] # None => credited[n] <= noteRow[n].qty
=============================================================================
