----------------------------- MODULE UnitsProofs -----------------------------
(***************************************************************************)
(* What the documents that act on the same motorcycles and the same part      *)
(* guarantee together, for any number of them: the types, what the status of  *)
(* a unit tells, that no document loses a unit, and that they explain the     *)
(* stock of the part.                                                        *)
(***************************************************************************)
EXTENDS Units, Sums

\* Every column has its type; the stock is a whole number for now.
UnitTypes ==
  /\ status \in [Unit -> SaleStatus \union {"none"}]
  /\ place \in [Unit -> Warehouse \union {None}]
  /\ customer \in [Unit -> Customer \union {None}]
  /\ soldOn \in [Unit -> Invoice \union {None}]
  /\ built \in [Unit -> BOOLEAN]
  /\ owed \in [Unit -> BOOLEAN]
  /\ handed \in [Unit -> BOOLEAN]
  /\ imported \in [Unit -> BOOLEAN]

StockTypes == onHand \in [Warehouse -> Int] /\ held \in [Warehouse -> Int]

\* What the status of a document says of its other columns.
NoteOK(n) ==
  /\ note[n] # "none" => noteRow[n] \in NoteRow
  /\ note[n] \in {"none", "checked", "draft", "cancelled", "in_transit"} => credited[n] = 0

LoanOK(l) ==
  /\ loan[l] # "none" => loanRow[l] \in LoanRow
  /\ loan[l] \notin OpenLoan \union {"returned"} => loanHold[l] = 0 /\ loanLost[l] = 0
  /\ loanHold[l] > 0 => loanLost[l] = 0
  /\ loan[l] = "returned" /\ loanRow[l].kind = "returnable" => loanHold[l] = 0

ParcelOK(d) ==
  /\ parcel[d] # "none" =>
       /\ parcelRow[d] \in ParcelRow
       /\ parcelPart[d].settled + parcelPart[d].returned <= parcelRow[d].qty
  /\ parcel[d] \in {"none", "draft", "delivered", "cancelled"} =>
       parcelPart[d].settled = 0 /\ parcelPart[d].returned = 0

RepairOK(r) ==
  repair[r] # "none" =>
    /\ repairRow[r] \in RepairRow
    /\ status[repairRow[r].unit] # "none"
    /\ repairRow[r].prior = "assembled" =>
         built[repairRow[r].unit] \/ imported[repairRow[r].unit]

UnitOK(u) ==
  /\ status[u] \in {"reserved", "sold"} => customer[u] # None
  /\ customer[u] # None => \/ status[u] \in {"reserved", "sold"}
                           \/ imported[u] /\ status[u] \in {"unassembled", "assembled"}
  /\ status[u] = "sold" => soldOn[u] # None \/ imported[u]
  /\ soldOn[u] # None => invoice[soldOn[u]] # "none"
  /\ status[u] = "assembled" => built[u] \/ imported[u]
  /\ handed[u] <=> handover[u] = "completed"

Balanced(w) ==
  /\ onHand[w] = Opening[w] - Gone(w)
  /\ held[w] = Kept(w)
  /\ held[w] <= onHand[w] /\ onHand[w] <= MaxStock

NotesOK == NotesTypeOK /\ \A n \in Note : NoteOK(n)
LoansOK == LoansTypeOK /\ \A l \in Loan : LoanOK(l)
ParcelsOK == ParcelsTypeOK /\ \A d \in Parcel : ParcelOK(d)
RepairsOK == RepairsTypeOK /\ \A r \in Repair : RepairOK(r)
UnitsOK == \A u \in Unit : UnitOK(u)

\* A unit on a loan or a delivery, and a unit that was sold, is registered.
KnownSales == \A u \in Unit : soldOn[u] # None => status[u] # "none"

Known ==
  /\ \A l \in Loan : loan[l] # "none" => \A u \in loanRow[l].units : status[u] # "none"
  /\ \A d \in Parcel : parcel[d] # "none" => \A u \in parcelRow[d].units : status[u] # "none"
  /\ KnownSales

DocumentsOK == NotesOK /\ LoansOK /\ ParcelsOK /\ RepairsOK

\* The inductive invariant: TypeOK and the properties of the documents together
\* need the columns of every document to agree with its status, and the units
\* that a document names to be registered.
UInv ==
  /\ UnitTypes /\ StockTypes /\ SalesTypeOK /\ DocumentsOK
  /\ Known
  /\ UnitsOK
  /\ \A w \in Warehouse : Balanced(w)

-----------------------------------------------------------------------------
(* The columns of each document                                            *)

LEMMA NotesKept ==
  ASSUME NotesOK, UNCHANGED notes
  PROVE  NotesOK'
BY DEF NotesOK, NotesTypeOK, NoteOK, notes

LEMMA LoansKept ==
  ASSUME LoansOK, UNCHANGED loans
  PROVE  LoansOK'
BY DEF LoansOK, LoansTypeOK, LoanOK, loans

LEMMA ParcelsKept ==
  ASSUME ParcelsOK, UNCHANGED parcels, invoice' \in [Invoice -> {"none", "issued", "voided"}]
  PROVE  ParcelsOK'
BY DEF ParcelsOK, ParcelsTypeOK, ParcelOK, parcels

LEMMA NotesStep ==
  ASSUME MotorcycleAssumption, NotesOK, NotesNext
  PROVE  NotesOK'
<1>0. note \in [Note -> NoteStatus] /\ noteRow \in [Note -> NoteRow \union {None}]
      /\ credited \in [Note -> Nat] /\ \A n \in Note : NoteOK(n)
  BY DEF NotesOK, NotesTypeOK
<1>1. ASSUME NEW n \in Note, NEW row \in NoteRow, CheckNote(n, row)
      PROVE  NotesOK'
  <2>1. NotesTypeOK'
    BY <1>0, <1>1 DEF CheckNote, NotesTypeOK, NoteStatus
  <2>2. \A m \in Note : NoteOK(m)'
    BY <1>0, <1>1 DEF CheckNote, NoteOK
  <2> QED BY <2>1, <2>2 DEF NotesOK
<1>2. ASSUME NEW n \in Note, DraftNote(n)
      PROVE  NotesOK'
  <2>1. NotesTypeOK'
    BY <1>0, <1>2 DEF DraftNote, NotesTypeOK, NoteStatus
  <2>2. \A m \in Note : NoteOK(m)'
    BY <1>0, <1>2 DEF DraftNote, NoteOK
  <2> QED BY <2>1, <2>2 DEF NotesOK
<1>3. ASSUME NEW n \in Note, CancelNote(n)
      PROVE  NotesOK'
  <2>1. NotesTypeOK'
    BY <1>0, <1>3 DEF CancelNote, NotesTypeOK, NoteStatus
  <2>2. \A m \in Note : NoteOK(m)'
    BY <1>0, <1>3 DEF CancelNote, NoteOK
  <2> QED BY <2>1, <2>2 DEF NotesOK
<1>4. ASSUME NEW n \in Note, Dispatch(n)
      PROVE  NotesOK'
  <2>0. note' = [note EXCEPT ![n] = "in_transit"] /\ UNCHANGED <<noteRow, credited>> /\ note[n] = "draft"
    BY <1>4 DEF Dispatch
  <2>1. NotesTypeOK'
    BY <1>0, <2>0 DEF NotesTypeOK, NoteStatus
  <2>2. \A m \in Note : NoteOK(m)'
    BY <1>0, <2>0 DEF NoteOK
  <2> QED BY <2>1, <2>2 DEF NotesOK
<1>5. ASSUME NEW n \in Note, NEW got \in 0..MaxQty, NEW confirmed, ReceiveNote(n, got, confirmed)
      PROVE  NotesOK'
  <2>1. PICK s \in {"received", "partially_received"} : s = ReceiveOutcome(noteRow[n], got, confirmed)
    BY DEF ReceiveOutcome
  <2>2. PICK c \in Nat : c = credited[n] + got
    BY <1>0, MotorcycleAssumption
  <2>3. /\ note' = [note EXCEPT ![n] = s] /\ noteRow' = noteRow
        /\ credited' = [credited EXCEPT ![n] = c] /\ note[n] \in Receivable
    BY <1>0, <1>5, <2>1, <2>2 DEF ReceiveNote
  <2>4. NotesTypeOK'
    BY <1>0, <2>3 DEF NotesTypeOK, NoteStatus
  <2>5. \A m \in Note : NoteOK(m)'
    BY <1>0, <2>3 DEF NoteOK, Receivable
  <2> QED BY <2>4, <2>5 DEF NotesOK
<1> QED BY <1>1, <1>2, <1>3, <1>4, <1>5 DEF NotesNext

LEMMA LoansStep ==
  ASSUME MotorcycleAssumption, LoansOK, LoansNext
  PROVE  LoansOK'
<1>0. /\ loan \in [Loan -> LoanStatus] /\ loanRow \in [Loan -> LoanRow \union {None}]
      /\ loanBack \in [Loan -> SUBSET Unit] /\ loanHold \in [Loan -> 0..MaxQty]
      /\ loanLost \in [Loan -> 0..MaxQty] /\ \A l \in Loan : LoanOK(l)
      /\ MaxQty \in Nat
  BY MotorcycleAssumption DEF LoansOK, LoansTypeOK
<1>1. ASSUME NEW l \in Loan, NEW row \in NewLoanRow, CreateLoan(l, row)
      PROVE  LoansOK'
  <2>0. row \in LoanRow
    BY DEF NewLoanRow
  <2>1. LoansTypeOK'
    BY <1>0, <1>1, <2>0 DEF CreateLoan, LoansTypeOK, LoanStatus
  <2>2. \A m \in Loan : LoanOK(m)'
    BY <1>0, <1>1, <2>0 DEF CreateLoan, LoanOK, OpenLoan
  <2> QED BY <2>1, <2>2 DEF LoansOK
<1>2. ASSUME NEW l \in Loan, IssueLoan(l)
      PROVE  LoansOK'
  <2>1. loanRow[l] \in LoanRow /\ loan[l] = "draft" /\ loanHold[l] = 0 /\ loanLost[l] = 0
    BY <1>0, <1>2 DEF IssueLoan, LoanOK, OpenLoan
  <2>2. PICK h \in 0..MaxQty : h = IF loanRow[l].kind = "consumable" THEN 0 ELSE loanRow[l].qty
    BY <1>0, <2>1 DEF LoanRow
  <2>3. /\ loan' = [loan EXCEPT ![l] = "out_on_loan"] /\ loanHold' = [loanHold EXCEPT ![l] = h]
        /\ UNCHANGED <<loanRow, loanBack, loanLost>>
    BY <1>2, <2>2 DEF IssueLoan
  <2>4. LoansTypeOK'
    BY <1>0, <2>3 DEF LoansTypeOK, LoanStatus
  <2>5. \A m \in Loan : LoanOK(m)'
    BY <1>0, <2>1, <2>3 DEF LoanOK, OpenLoan
  <2> QED BY <2>4, <2>5 DEF LoansOK
<1>3. ASSUME NEW l \in Loan, NEW back \in SUBSET Unit, NEW bad, NEW settles \in BOOLEAN,
             NEW missing \in 0..MaxQty, ReturnLoan(l, back, bad, settles, missing)
      PROVE  LoansOK'
  <2>1. PICK closes \in BOOLEAN : closes = (settles /\ loanHold[l] > 0)
    OBVIOUS
  <2>2. PICK h \in 0..MaxQty, x \in 0..MaxQty :
          h = (IF closes THEN 0 ELSE loanHold[l]) /\ x = (IF closes THEN missing ELSE loanLost[l])
    BY <1>0
  <2>3. PICK B \in SUBSET Unit : B = loanBack[l] \union back
    BY <1>0
  <2>4. PICK s \in {"returned", "partially_returned"} : s = LoanOutcome(loanRow[l], B, h > 0)
    BY DEF LoanOutcome
  <2>5. /\ loanHold' = [loanHold EXCEPT ![l] = h] /\ loanLost' = [loanLost EXCEPT ![l] = x]
        /\ loanBack' = [loanBack EXCEPT ![l] = B] /\ loanRow' = loanRow
        /\ loan[l] \in OpenLoan
    BY <1>0, <1>3, <2>1, <2>2, <2>3 DEF ReturnLoan
  <2>6. loan' = [loan EXCEPT ![l] = s]
    <3>1. loanBack'[l] = B /\ loanHold'[l] = h
      BY <1>0, <2>5
    <3> QED BY <1>3, <2>4, <3>1 DEF ReturnLoan
  <2>7. LoansTypeOK'
    BY <1>0, <2>5, <2>6 DEF LoansTypeOK, LoanStatus
  <2>8. LoanOK(l)'
    <3>1. loan'[l] = s /\ loanHold'[l] = h /\ loanLost'[l] = x /\ loanRow'[l] = loanRow[l]
      BY <1>0, <2>5, <2>6
    <3>2. loanRow[l] \in LoanRow /\ (loanHold[l] > 0 => loanLost[l] = 0)
      BY <1>0, <2>5 DEF LoanOK, OpenLoan
    <3>3. s = "returned" /\ loanRow[l].kind = "returnable" => h = 0
      BY <2>4 DEF LoanOutcome
    <3>4. h > 0 => x = 0
      BY <2>2, <3>2
    <3> QED BY <2>4, <3>1, <3>2, <3>3, <3>4 DEF LoanOK, OpenLoan
  <2>9. ASSUME NEW m \in Loan, m # l PROVE LoanOK(m)'
    BY <1>0, <2>5, <2>6, <2>9 DEF LoanOK
  <2> QED BY <2>7, <2>8, <2>9 DEF LoansOK
<1>4. ASSUME NEW l \in Loan, CancelLoan(l)
      PROVE  LoansOK'
  <2>1. LoansTypeOK'
    BY <1>0, <1>4 DEF CancelLoan, LoansTypeOK, LoanStatus
  <2>2. \A m \in Loan : LoanOK(m)'
    BY <1>0, <1>4 DEF CancelLoan, LoanOK, OpenLoan
  <2> QED BY <2>1, <2>2 DEF LoansOK
<1> QED BY <1>1, <1>2, <1>3, <1>4 DEF LoansNext

\* Every order of two columns of a part line.
LEMMA SmallerIs ==
  ASSUME NEW a \in Nat, NEW b \in Nat
  PROVE  Smaller(a, b) \in Nat /\ Smaller(a, b) <= a /\ Smaller(a, b) <= b
BY DEF Smaller

\* What a consignment settles of its part line.
SettledNow(d, settled) == Smaller(settled, PartOut(d))
ReturnedNow(d, settled, returned) == Smaller(returned, PartOut(d) - SettledNow(d, settled))

LEMMA SettleAmounts ==
  ASSUME MotorcycleAssumption, ParcelsOK, NEW d \in Parcel, parcel[d] # "none",
         NEW settled \in 0..MaxQty, NEW returned \in 0..MaxQty,
         NEW s, NEW r, s = SettledNow(d, settled), r = ReturnedNow(d, settled, returned)
  PROVE  /\ s \in Nat /\ r \in Nat /\ PartOut(d) \in Nat
         /\ s + r <= PartOut(d) /\ parcelPart[d].settled + s \in 0..MaxQty
         /\ parcelPart[d].returned + r \in 0..MaxQty
<1>0. parcelPart[d] \in PartLine /\ parcelRow[d] \in ParcelRow /\ MaxQty \in Nat
      /\ parcelPart[d].settled + parcelPart[d].returned <= parcelRow[d].qty
  BY MotorcycleAssumption DEF ParcelsOK, ParcelsTypeOK, ParcelOK
<1>1. PICK x \in Nat, y \in Nat, q \in 0..MaxQty :
        x = parcelPart[d].settled /\ y = parcelPart[d].returned /\ q = parcelRow[d].qty /\ x + y <= q
  BY <1>0 DEF PartLine, ParcelRow
<1>2. PICK p \in Nat : p = PartOut(d) /\ p = q - x - y
  BY <1>1 DEF PartOut
<1>3. s \in Nat /\ s <= p
  BY <1>0, <1>2, SmallerIs DEF SettledNow
<1>4. PICK z \in Nat : z = p - s
  BY <1>3
<1>5. r = Smaller(returned, z)
  BY <1>2, <1>4 DEF ReturnedNow
<1>6. r \in Nat /\ r <= z
  BY <1>0, <1>5, SmallerIs
<1> QED BY <1>0, <1>1, <1>2, <1>3, <1>4, <1>6

LEMMA ParcelsStep ==
  ASSUME MotorcycleAssumption, ParcelsOK, ParcelsNext
  PROVE  ParcelsOK'
<1>0. /\ parcel \in [Parcel -> ParcelStatus] /\ parcelRow \in [Parcel -> ParcelRow \union {None}]
      /\ soldUnits \in [Parcel -> SUBSET Unit] /\ backUnits \in [Parcel -> SUBSET Unit]
      /\ parcelPart \in [Parcel -> PartLine] /\ \A d \in Parcel : ParcelOK(d)
      /\ invoice \in [Invoice -> {"none", "issued", "voided"}] /\ MaxQty \in Nat
  BY MotorcycleAssumption DEF ParcelsOK, ParcelsTypeOK
<1>1. ASSUME NEW d \in Parcel, NEW row \in ParcelRow, parcel[d] = "none",
             parcel' = [parcel EXCEPT ![d] = "draft"], parcelRow' = [parcelRow EXCEPT ![d] = row],
             UNCHANGED <<soldUnits, backUnits, parcelPart, invoice>>
      PROVE  ParcelsOK'
  <2>1. ParcelsTypeOK'
    BY <1>0, <1>1 DEF ParcelsTypeOK, ParcelStatus
  <2>2. ParcelOK(d)'
    <3>1. parcelPart[d].settled = 0 /\ parcelPart[d].returned = 0
      BY <1>0, <1>1 DEF ParcelOK
    <3>2. row.qty \in Nat
      BY <1>0 DEF ParcelRow
    <3>3. parcel'[d] = "draft" /\ parcelRow'[d] = row /\ parcelPart'[d] = parcelPart[d]
      BY <1>0, <1>1
    <3> QED BY <3>1, <3>2, <3>3 DEF ParcelOK
  <2>3. ASSUME NEW e \in Parcel, e # d PROVE ParcelOK(e)'
    BY <1>0, <1>1, <2>3 DEF ParcelOK
  <2> QED BY <2>1, <2>2, <2>3 DEF ParcelsOK
<1>2. ASSUME NEW d \in Parcel, NEW i \in Invoice, NEW c \in Customer, CreateSaleDelivery(d, i, c)
      PROVE  ParcelsOK'
  <2>1. PICK row : row = [mode |-> "sale", buyer |-> c, units |-> {u \in Unit : soldOn[u] = i},
                          qty |-> 0, at |-> Home]
    OBVIOUS
  <2>2. Home \in Warehouse
    BY MotorcycleAssumption DEF Home
  <2>3. row \in ParcelRow
    BY <1>0, <2>1, <2>2 DEF ParcelRow
  <2> QED BY <1>1, <1>2, <2>1, <2>3 DEF CreateSaleDelivery
<1>3. ASSUME NEW d \in Parcel, NEW row \in NewConsignment, CreateConsignment(d, row)
      PROVE  ParcelsOK'
  BY <1>1, <1>3 DEF CreateConsignment, NewConsignment
<1>4. ASSUME NEW d \in Parcel, NEW s \in {"delivered", "out_at_reseller", "cancelled"},
             parcel[d] = "draft", parcel' = [parcel EXCEPT ![d] = s],
             UNCHANGED <<parcelRow, soldUnits, backUnits, parcelPart, invoice>>
      PROVE  ParcelsOK'
  <2>1. ParcelsTypeOK'
    BY <1>0, <1>4 DEF ParcelsTypeOK, ParcelStatus
  <2>2. \A e \in Parcel : ParcelOK(e)'
    BY <1>0, <1>4 DEF ParcelOK
  <2> QED BY <2>1, <2>2 DEF ParcelsOK
<1>5. ASSUME NEW d \in Parcel, NEW override, HandOut(d, override) \/ Consign(d) \/ CancelParcel(d)
      PROVE  ParcelsOK'
  BY <1>4, <1>5 DEF HandOut, Consign, CancelParcel
<1>6. ASSUME NEW d \in Parcel, NEW sold \in SUBSET Unit, NEW back \in SUBSET Unit,
             NEW settled \in 0..MaxQty, NEW returned \in 0..MaxQty, NEW sale \in [sold -> Invoice],
             Settle(d, sale, back, settled, returned)
      PROVE  ParcelsOK'
  <2>0. parcel[d] \in OpenConsignment /\ parcel[d] # "none"
    BY <1>6 DEF Settle, OpenConsignment
  <2>1. PICK s, r : s = SettledNow(d, settled) /\ r = ReturnedNow(d, settled, returned)
    OBVIOUS
  <2>2. s \in Nat /\ r \in Nat /\ s + r <= PartOut(d)
        /\ parcelPart[d].settled + s \in 0..MaxQty /\ parcelPart[d].returned + r \in 0..MaxQty
    BY <2>0, <2>1, SettleAmounts
  <2>3. PICK line \in PartLine :
          line = [settled |-> parcelPart[d].settled + s, returned |-> parcelPart[d].returned + r]
    BY <2>2 DEF PartLine
  <2>4. PICK S1 \in SUBSET Unit, B1 \in SUBSET Unit :
          S1 = soldUnits[d] \union sold /\ B1 = backUnits[d] \union back
    BY <1>0
  <2>5. /\ soldUnits' = [soldUnits EXCEPT ![d] = S1] /\ backUnits' = [backUnits EXCEPT ![d] = B1]
        /\ parcelPart' = [parcelPart EXCEPT ![d] = line] /\ UNCHANGED <<parcelRow, invoice>>
    BY <1>0, <1>6, <2>1, <2>3, <2>4 DEF Settle, SettledNow, ReturnedNow
  <2>6. PICK now \in {"partially_settled", "settled", "returned"} :
          parcel' = [parcel EXCEPT ![d] = now]
    <3>1. \A S2, o, p, q : ReconcileOutcome(S2, o, p, q) \in {"partially_settled", "settled", "returned"}
      BY DEF ReconcileOutcome
    <3> QED BY <1>6, <3>1 DEF Settle
  <2>7. ParcelsTypeOK'
    BY <1>0, <2>5, <2>6 DEF ParcelsTypeOK, ParcelStatus
  <2>8. ParcelOK(d)'
    <3>1. parcel'[d] = now /\ parcelPart'[d] = line /\ parcelRow'[d] = parcelRow[d]
      BY <1>0, <2>5, <2>6
    <3>2. parcelRow[d] \in ParcelRow
      BY <1>0, <2>0 DEF ParcelOK
    <3>3. line.settled + line.returned <= parcelRow[d].qty
      <4>1. PICK x \in Int, y \in Int, q \in Int :
              x = parcelPart[d].settled /\ y = parcelPart[d].returned /\ q = parcelRow[d].qty
        BY <1>0, <3>2 DEF PartLine, ParcelRow
      <4>2. s + r <= q - x - y
        BY <2>2, <4>1 DEF PartOut
      <4>3. line.settled = x + s /\ line.returned = y + r
        BY <2>3, <4>1
      <4> QED BY <2>2, <4>1, <4>2, <4>3
    <3> QED BY <3>1, <3>2, <3>3 DEF ParcelOK
  <2>9. ASSUME NEW e \in Parcel, e # d PROVE ParcelOK(e)'
    BY <1>0, <2>5, <2>6, <2>9 DEF ParcelOK
  <2> QED BY <2>7, <2>8, <2>9 DEF ParcelsOK
<1> QED BY <1>2, <1>3, <1>5, <1>6 DEF ParcelsNext

-----------------------------------------------------------------------------
(* The registry                                                            *)

\* A unit, once registered, stays registered and where it was registered from; once
\* built it stays built.
Lasts(u) ==
  status[u] # "none" => /\ status'[u] # "none" /\ (built[u] => built'[u])
                        /\ imported[u] => imported'[u]

LEMMA RepairsKept ==
  ASSUME RepairsOK, UNCHANGED repairs, \A u \in Unit : Lasts(u)
  PROVE  RepairsOK'
<1>1. ASSUME NEW r \in Repair PROVE RepairOK(r)'
  <2>1. RepairOK(r) /\ repair'[r] = repair[r] /\ repairRow'[r] = repairRow[r]
    BY DEF RepairsOK, repairs
  <2>2. repair[r] # "none" => repairRow[r].unit \in Unit
    BY <2>1 DEF RepairOK, RepairRow
  <2> QED BY <2>1, <2>2 DEF RepairOK, Lasts
<1>2. RepairsTypeOK'
  BY DEF RepairsOK, RepairsTypeOK, repairs
<1> QED BY <1>1, <1>2 DEF RepairsOK

LEMMA RegistryStep ==
  ASSUME MotorcycleAssumption, UnitTypes, StockTypes, RegistryNext
  PROVE  UnitTypes' /\ StockTypes' /\ \A u \in Unit : Lasts(u)
<1>1. ASSUME NEW u \in Unit, NEW w \in Warehouse \union {None}, NEW b \in BOOLEAN, CreateUnit(u, w, b)
      PROVE  UnitTypes' /\ StockTypes' /\ \A v \in Unit : Lasts(v)
  <2>1. PICK s \in {"unassembled", "assembled"}, c \in BOOLEAN :
          s = (IF b THEN "unassembled" ELSE "assembled") /\ c = ~b
    OBVIOUS
  <2>2. /\ status' = [status EXCEPT ![u] = s] /\ built' = [built EXCEPT ![u] = c]
        /\ place' = [place EXCEPT ![u] = w] /\ status[u] = "none"
        /\ UNCHANGED <<customer, soldOn, owed, handed, imported, onHand, held>>
    BY <1>1, <2>1 DEF CreateUnit, parts, Registered
  <2>3. UnitTypes'
    BY <2>2 DEF UnitTypes, SaleStatus
  <2>4. ASSUME NEW v \in Unit PROVE Lasts(v)
    <3>1. CASE v = u
      BY <2>2, <3>1 DEF Lasts, UnitTypes
    <3>2. CASE v # u
      BY <2>2, <3>2 DEF Lasts, UnitTypes
    <3> QED BY <3>1, <3>2
  <2> QED BY <2>2, <2>3, <2>4 DEF StockTypes
<1>2. ASSUME NEW u \in Unit, NEW new \in SaleStatus, Transition(u, new)
      PROVE  UnitTypes' /\ StockTypes' /\ \A v \in Unit : Lasts(v)
  <2>1. PICK c \in Customer \union {None} : customer' = [customer EXCEPT ![u] = c]
    <3>1. customer[u] \in Customer \union {None}
      BY DEF UnitTypes
    <3> QED BY <1>2, <3>1 DEF Transition, UnitTypes
  <2>2. PICK b \in BOOLEAN : built' = [built EXCEPT ![u] = b] /\ (built[u] => b)
    <3>1. built[u] \in BOOLEAN
      BY DEF UnitTypes
    <3> QED BY <1>2, <3>1 DEF Transition, UnitTypes
  <2>3. status' = [status EXCEPT ![u] = new] /\ UNCHANGED <<place, soldOn, owed, handed, imported, onHand, held>>
    BY <1>2 DEF Transition, parts
  <2>4. new # "none"
    BY DEF SaleStatus
  <2>5. UnitTypes'
    BY <2>1, <2>2, <2>3 DEF UnitTypes
  <2>6. \A v \in Unit : Lasts(v)
    BY <2>2, <2>3, <2>4 DEF UnitTypes, Lasts
  <2> QED BY <2>3, <2>5, <2>6 DEF StockTypes
<1>3. ASSUME NEW u \in Unit, MarkAssembled(u)
      PROVE  UnitTypes' /\ StockTypes' /\ \A v \in Unit : Lasts(v)
  BY <1>3 DEF MarkAssembled, UnitTypes, StockTypes, Lasts, parts, SaleStatus, Registered
<1>4. ASSUME NEW u \in Unit, NEW w \in Warehouse \union {None}, TransferUnit(u, w) \/ EditUnit(u, w)
      PROVE  UnitTypes' /\ StockTypes' /\ \A v \in Unit : Lasts(v)
  <2>1. PICK p \in Warehouse \union {None} : place' = [place EXCEPT ![u] = p]
    <3>1. place[u] \in Warehouse \union {None}
      BY DEF UnitTypes
    <3> QED BY <1>4, <3>1 DEF TransferUnit, EditUnit, UnitTypes
  <2>2. UNCHANGED <<status, customer, soldOn, built, owed, handed, imported, onHand, held>>
    BY <1>4 DEF TransferUnit, EditUnit, parts
  <2> QED BY <2>1, <2>2 DEF UnitTypes, StockTypes, Lasts
<1>5. ASSUME NEW u \in Unit, NEW s \in SaleStatus, NEW c \in Customer \union {None},
             NEW b \in BOOLEAN, ImportUnit(u, s, c, b)
      PROVE  UnitTypes' /\ StockTypes' /\ \A v \in Unit : Lasts(v)
  <2>1. /\ status' = [status EXCEPT ![u] = s] /\ customer' = [customer EXCEPT ![u] = c]
        /\ built' = [built EXCEPT ![u] = b] /\ imported' = [imported EXCEPT ![u] = TRUE]
        /\ status[u] = "none"
        /\ UNCHANGED <<place, soldOn, owed, handed, onHand, held>>
    BY <1>5 DEF ImportUnit, parts, Registered
  <2>2. UnitTypes' /\ StockTypes'
    BY <2>1 DEF UnitTypes, StockTypes
  <2>3. ASSUME NEW v \in Unit PROVE Lasts(v)
    <3>1. CASE v = u
      BY <2>1, <3>1 DEF Lasts
    <3>2. CASE v # u
      BY <2>1, <3>2 DEF Lasts, UnitTypes
    <3> QED BY <3>1, <3>2
  <2> QED BY <2>2, <2>3
<1> QED BY <1>1, <1>2, <1>3, <1>4, <1>5 DEF RegistryNext

LEMMA NotesRegistry ==
  ASSUME MotorcycleAssumption, UnitTypes, StockTypes, NotesOK, NotesNext
  PROVE  UnitTypes' /\ StockTypes' /\ \A u \in Unit : Lasts(u)
<1>1. ASSUME NEW n \in Note, NEW row, CheckNote(n, row) \/ DraftNote(n) \/ CancelNote(n)
      PROVE  UnitTypes' /\ StockTypes' /\ \A u \in Unit : Lasts(u)
  BY <1>1 DEF CheckNote, DraftNote, CancelNote, UnitTypes, StockTypes, Lasts, registry, parts
<1>2. ASSUME NEW n \in Note, Dispatch(n)
      PROVE  UnitTypes' /\ StockTypes' /\ \A u \in Unit : Lasts(u)
  <2>1. noteRow[n] \in NoteRow
    BY <1>2 DEF Dispatch, NotesOK, NoteOK
  <2>2. PICK row \in NoteRow : row = noteRow[n]
    BY <2>1
  <2>3. row.qty \in Int /\ row.src \in Warehouse
    BY MotorcycleAssumption DEF NoteRow
  <2>4. StockTypes'
    BY <1>2, <2>2, <2>3 DEF Dispatch, IssuePart, StockTypes
  <2>5. UnitTypes' /\ \A u \in Unit : Lasts(u)
    BY <1>2 DEF Dispatch, UnitTypes, Lasts
  <2> QED BY <2>4, <2>5
<1>3. ASSUME NEW n \in Note, NEW got \in 0..MaxQty, NEW confirmed, ReceiveNote(n, got, confirmed)
      PROVE  UnitTypes' /\ StockTypes' /\ \A u \in Unit : Lasts(u)
  <2>1. noteRow[n] \in NoteRow
    BY <1>3 DEF ReceiveNote, Receivable, NotesOK, NoteOK
  <2>2. PICK row \in NoteRow : row = noteRow[n]
    BY <2>1
  <2>3. row.dst \in Warehouse /\ row.src \in Warehouse /\ got \in Int
    BY MotorcycleAssumption DEF NoteRow
  <2>4. StockTypes'
    BY <1>3, <2>2, <2>3 DEF ReceiveNote, StockTypes
  <2>5. place' \in [Unit -> Warehouse \union {None}]
    BY <1>3, <2>2, <2>3 DEF ReceiveNote, Arrival, UnitTypes
  <2>6. UnitTypes' /\ \A u \in Unit : Lasts(u)
    BY <1>3, <2>5 DEF ReceiveNote, UnitTypes, Lasts
  <2> QED BY <2>4, <2>6
<1> QED BY <1>1, <1>2, <1>3 DEF NotesNext

LEMMA LoansRegistry ==
  ASSUME MotorcycleAssumption, UnitTypes, StockTypes, LoansOK, LoansNext
  PROVE  UnitTypes' /\ StockTypes' /\ \A u \in Unit : Lasts(u)
<1>0. MaxQty \in Nat /\ \A l \in Loan : loanHold[l] \in 0..MaxQty
  BY MotorcycleAssumption DEF LoansOK, LoansTypeOK
<1>1. ASSUME NEW l \in Loan, NEW row, CreateLoan(l, row) \/ CancelLoan(l)
      PROVE  UnitTypes' /\ StockTypes' /\ \A u \in Unit : Lasts(u)
  BY <1>1 DEF CreateLoan, CancelLoan, UnitTypes, StockTypes, Lasts, registry, parts
<1>2. ASSUME NEW l \in Loan, IssueLoan(l)
      PROVE  UnitTypes' /\ StockTypes' /\ \A u \in Unit : Lasts(u)
  <2>1. PICK row \in LoanRow : row = loanRow[l]
    BY <1>2 DEF IssueLoan, LoansOK, LoanOK
  <2>2. row.qty \in Int /\ row.at \in Warehouse
    BY <1>0 DEF LoanRow
  <2>3. IssuePart(row.at, row.qty) \/ HoldPart(row.at, row.qty)
    BY <1>2, <2>1 DEF IssueLoan
  <2>4. StockTypes'
    BY <2>2, <2>3 DEF IssuePart, HoldPart, StockTypes
  <2>5. UnitTypes' /\ \A u \in Unit : Lasts(u)
    BY <1>2 DEF IssueLoan, UnitTypes, Lasts, registry
  <2> QED BY <2>4, <2>5
<1>3. ASSUME NEW l \in Loan, NEW back \in SUBSET Unit, NEW bad \in SUBSET back,
             NEW settles \in BOOLEAN, NEW missing \in 0..MaxQty,
             ReturnLoan(l, back, bad, settles, missing)
      PROVE  UnitTypes' /\ StockTypes' /\ \A u \in Unit : Lasts(u)
  <2>1. PICK row \in LoanRow : row = loanRow[l]
    BY <1>3 DEF ReturnLoan, OpenLoan, LoansOK, LoanOK
  <2>2. PICK h \in Int, x \in Int : h = loanHold[l] - missing /\ x = missing
    BY <1>0
  <2>3. row.at \in Warehouse
    BY DEF LoanRow
  <2>4. EndHold(row.at, x, h) \/ UNCHANGED parts
    BY <1>3, <2>1, <2>2 DEF ReturnLoan, SettlePartReturn
  <2>5. StockTypes'
    BY <2>2, <2>3, <2>4 DEF EndHold, StockTypes, parts
  <2>6. UnitTypes' /\ \A u \in Unit : Lasts(u)
    BY <1>3 DEF ReturnLoan, UnitTypes, Lasts, SaleStatus
  <2> QED BY <2>5, <2>6
<1> QED BY <1>1, <1>2, <1>3 DEF LoansNext

LEMMA ParcelsRegistry ==
  ASSUME MotorcycleAssumption, UnitTypes, StockTypes, ParcelsOK, ParcelsNext
  PROVE  UnitTypes' /\ StockTypes' /\ \A u \in Unit : Lasts(u)
<1>0. MaxQty \in Nat
  BY MotorcycleAssumption
<1>1. ASSUME NEW d \in Parcel, NEW i, NEW c, NEW row, NEW o,
             CreateSaleDelivery(d, i, c) \/ CreateConsignment(d, row) \/ HandOut(d, o) \/ CancelParcel(d)
      PROVE  UnitTypes' /\ StockTypes' /\ \A u \in Unit : Lasts(u)
  BY <1>1 DEF CreateSaleDelivery, CreateConsignment, HandOut, CancelParcel,
              UnitTypes, StockTypes, Lasts, registry, parts
<1>2. ASSUME NEW d \in Parcel, Consign(d)
      PROVE  UnitTypes' /\ StockTypes' /\ \A u \in Unit : Lasts(u)
  <2>1. PICK row \in ParcelRow : row = parcelRow[d]
    BY <1>2 DEF Consign, ParcelsOK, ParcelOK
  <2>2. row.qty \in Int /\ row.at \in Warehouse
    BY <1>0 DEF ParcelRow
  <2>3. StockTypes'
    BY <1>2, <2>1, <2>2 DEF Consign, HoldPart, StockTypes
  <2>4. UnitTypes' /\ \A u \in Unit : Lasts(u)
    BY <1>2 DEF Consign, UnitTypes, Lasts, registry
  <2> QED BY <2>3, <2>4
<1>3. ASSUME NEW d \in Parcel, NEW sold \in SUBSET Unit, NEW back \in SUBSET Unit,
             NEW settled \in 0..MaxQty, NEW returned \in 0..MaxQty, NEW sale \in [sold -> Invoice],
             Settle(d, sale, back, settled, returned)
      PROVE  UnitTypes' /\ StockTypes' /\ \A u \in Unit : Lasts(u)
  <2>0. parcel[d] # "none"
    BY <1>3 DEF Settle, OpenConsignment
  <2>1. PICK row \in ParcelRow : row = parcelRow[d]
    BY <2>0 DEF ParcelsOK, ParcelOK
  <2>2. PICK s, r : s = SettledNow(d, settled) /\ r = ReturnedNow(d, settled, returned)
    OBVIOUS
  <2>3. s \in Int /\ r \in Int
    BY <2>0, <2>2, SettleAmounts
  <2>4. row.at \in Warehouse /\ row.buyer \in Customer
    BY DEF ParcelRow
  <2>5. EndHold(row.at, s, r)
    BY <1>3, <2>1, <2>2 DEF Settle, SettledNow, ReturnedNow
  <2>6. StockTypes'
    BY <2>3, <2>4, <2>5 DEF EndHold, StockTypes
  <2>7. /\ status' = [u \in Unit |-> IF u \in sold THEN "sold" ELSE status[u]]
        /\ soldOn' = [u \in Unit |-> IF u \in sold THEN sale[u] ELSE soldOn[u]]
        /\ customer' = [u \in Unit |-> IF u \in sold THEN row.buyer ELSE customer[u]]
        /\ UNCHANGED <<place, built, owed, handed, imported>>
    BY <1>3, <2>1 DEF Settle
  <2>8. UnitTypes' /\ \A u \in Unit : Lasts(u)
    BY <2>4, <2>7 DEF UnitTypes, Lasts, SaleStatus
  <2> QED BY <2>6, <2>8
<1> QED BY <1>1, <1>2, <1>3 DEF ParcelsNext

LEMMA RepairsStep ==
  ASSUME MotorcycleAssumption, UnitTypes, StockTypes, RepairsOK, RepairsNext, UnitsOK
  PROVE  UnitTypes' /\ StockTypes' /\ RepairsOK' /\ \A u \in Unit : Lasts(u)
<1>0. /\ repair \in [Repair -> ActiveRepair \union {"none", "resolved"}]
      /\ repairRow \in [Repair -> RepairRow \union {None}]
      /\ planned \in [Repair -> 0..MaxQty] /\ \A r \in Repair : RepairOK(r)
      /\ MaxQty \in Nat
  BY MotorcycleAssumption DEF RepairsOK, RepairsTypeOK
<1>1. ASSUME NEW r \in Repair, NEW u \in Unit, NEW w \in Warehouse, NEW q \in 0..MaxQty,
             OpenRepair(r, u, w, q)
      PROVE  UnitTypes' /\ StockTypes' /\ RepairsOK' /\ \A v \in Unit : Lasts(v)
  <2>1. UnitTypes' /\ StockTypes'
    BY <1>1 DEF OpenRepair, UnitTypes, StockTypes, parts, SaleStatus
  <2>2. \A v \in Unit : Lasts(v)
    BY <1>1 DEF OpenRepair, UnitTypes, Lasts
  <2>3. PICK row \in RepairRow : row = [unit |-> u, prior |-> status[u], at |-> w]
    BY <1>1 DEF OpenRepair, RepairRow
  <2>4. /\ repair' = [repair EXCEPT ![r] = "open"] /\ repairRow' = [repairRow EXCEPT ![r] = row]
        /\ planned' = [planned EXCEPT ![r] = q]
    BY <1>1, <2>3 DEF OpenRepair
  <2>5. RepairsTypeOK'
    BY <1>0, <2>4 DEF RepairsTypeOK, ActiveRepair
  <2>6. RepairOK(r)'
    <3>1. repairRow'[r] = row /\ row.unit = u /\ row.prior = status[u]
      BY <1>0, <2>3, <2>4
    <3>2. status[u] # "none" /\ (status[u] = "assembled" => built[u] \/ imported[u])
      BY <1>1 DEF OpenRepair, OpenableFrom, UnitsOK, UnitOK
    <3> QED BY <2>2, <3>1, <3>2 DEF RepairOK, Lasts
  <2>7. ASSUME NEW m \in Repair, m # r PROVE RepairOK(m)'
    <3>1. repair'[m] = repair[m] /\ repairRow'[m] = repairRow[m] /\ RepairOK(m)
      BY <1>0, <2>4, <2>7
    <3>2. repair[m] # "none" => repairRow[m].unit \in Unit
      BY <3>1 DEF RepairOK, RepairRow
    <3> QED BY <2>2, <3>1, <3>2 DEF RepairOK, Lasts
  <2> QED BY <2>1, <2>2, <2>5, <2>6, <2>7 DEF RepairsOK
<1>2. ASSUME NEW r \in Repair, NEW q \in 0..MaxQty, PlanParts(r, q) \/ StartRepair(r)
      PROVE  UnitTypes' /\ StockTypes' /\ RepairsOK' /\ \A v \in Unit : Lasts(v)
  <2>1. UnitTypes' /\ StockTypes' /\ \A v \in Unit : Lasts(v)
    BY <1>2 DEF PlanParts, StartRepair, UnitTypes, StockTypes, Lasts, registry, parts
  <2>2. RepairsTypeOK'
    BY <1>0, <1>2 DEF PlanParts, StartRepair, RepairsTypeOK, ActiveRepair
  <2>3. \A m \in Repair : RepairOK(m)'
    BY <1>0, <1>2 DEF PlanParts, StartRepair, RepairOK, registry
  <2> QED BY <2>1, <2>2, <2>3 DEF RepairsOK
<1>3. ASSUME NEW r \in Repair, ResolveRepair(r)
      PROVE  UnitTypes' /\ StockTypes' /\ RepairsOK' /\ \A v \in Unit : Lasts(v)
  <2>0. repair[r] # "none"
    BY <1>3 DEF ResolveRepair, ActiveRepair
  <2>1. PICK row \in RepairRow : row = repairRow[r]
    BY <1>0, <2>0 DEF RepairOK
  <2>2. row.unit \in Unit /\ row.prior \in OpenableFrom /\ row.at \in Warehouse /\ planned[r] \in Int
    BY <1>0 DEF RepairRow
  <2>3. PICK s \in SaleStatus \union {"none"} : s = Released(row.unit, row.prior)
                                            /\ (status[row.unit] # "none" => s # "none")
    BY <2>2 DEF Released, UnitTypes, OpenableFrom, SaleStatus
  <2>4. /\ status' = [status EXCEPT ![row.unit] = s] /\ repair' = [repair EXCEPT ![r] = "resolved"]
        /\ UNCHANGED <<repairRow, planned, place, customer, soldOn, built, owed, handed, imported>>
    BY <1>3, <2>1, <2>3 DEF ResolveRepair
  <2>5. UnitTypes'
    BY <2>4 DEF UnitTypes
  <2>6. StockTypes'
    BY <1>3, <2>1, <2>2 DEF ResolveRepair, IssuePart, StockTypes
  <2>7. ASSUME NEW v \in Unit PROVE Lasts(v)
    BY <2>3, <2>4 DEF Lasts, UnitTypes
  <2>8. RepairsTypeOK'
    BY <1>0, <2>4 DEF RepairsTypeOK
  <2>9. ASSUME NEW m \in Repair PROVE RepairOK(m)'
    <3>1. repairRow'[m] = repairRow[m] /\ RepairOK(m) /\ (repair'[m] # "none" => repair[m] # "none")
      BY <1>0, <2>0, <2>4
    <3>2. repair[m] # "none" => repairRow[m].unit \in Unit
      BY <3>1 DEF RepairOK, RepairRow
    <3> QED BY <2>7, <3>1, <3>2 DEF RepairOK, Lasts
  <2> QED BY <2>5, <2>6, <2>7, <2>8, <2>9 DEF RepairsOK
<1> QED BY <1>1, <1>2, <1>3 DEF RepairsNext

LEMMA SalesStep ==
  ASSUME MotorcycleAssumption, UnitTypes, StockTypes, SalesTypeOK, ParcelsTypeOK, SalesNext
  PROVE  /\ UnitTypes' /\ StockTypes' /\ SalesTypeOK'
         /\ invoice' \in [Invoice -> {"none", "issued", "voided"}]
         /\ \A u \in Unit : Lasts(u)
<1> DEFINE Goal == /\ UnitTypes' /\ StockTypes' /\ SalesTypeOK'
                   /\ invoice' \in [Invoice -> {"none", "issued", "voided"}]
                   /\ \A u \in Unit : Lasts(u)
<1>0. invoice \in [Invoice -> {"none", "issued", "voided"}]
  BY DEF ParcelsTypeOK
<1>1. ASSUME NEW u \in Unit, NEW c \in Customer, Reserve(u, c)
      PROVE  Goal
  BY <1>0, <1>1 DEF Reserve, UnitTypes, StockTypes, SalesTypeOK, Lasts, parts, SaleStatus
<1>2. ASSUME NEW S \in SUBSET Unit, NEW i \in Invoice, NEW c \in Customer, NEW A, MarkSold(S, i, c, A)
      PROVE  UnitTypes' /\ StockTypes' /\ \A v \in Unit : Lasts(v)
  <2>1. status' \in [Unit -> SaleStatus \union {"none"}]
    BY <1>2 DEF MarkSold, UnitTypes, SaleStatus
  <2>2. soldOn' \in [Unit -> Invoice \union {None}] /\ customer' \in [Unit -> Customer \union {None}]
    BY <1>2 DEF MarkSold, UnitTypes
  <2>3. owed' \in [Unit -> BOOLEAN]
    BY <1>2 DEF MarkSold, UnitTypes
  <2>4. \A v \in Unit : Lasts(v)
    BY <1>2 DEF MarkSold, Lasts
  <2>5. UNCHANGED <<place, built, handed, imported, onHand, held>>
    BY <1>2 DEF MarkSold, parts
  <2> QED BY <2>1, <2>2, <2>3, <2>4, <2>5 DEF UnitTypes, StockTypes
<1>3. ASSUME NEW i \in Invoice, NEW c \in Customer, NEW u \in Unit, NEW A, SellUnit(u, i, c, A)
      PROVE  Goal
  <2>1. MarkSold({u}, i, c, A) /\ UNCHANGED <<handover, invoice>> /\ {u} \in SUBSET Unit
    BY <1>3 DEF SellUnit
  <2>2. UnitTypes' /\ StockTypes' /\ \A v \in Unit : Lasts(v)
    BY <1>2, <2>1
  <2> QED BY <1>0, <2>1, <2>2 DEF SalesTypeOK
<1>4. ASSUME NEW i \in Invoice, NEW c \in Customer, NEW S \in SUBSET Unit, NEW A, SellBikes(S, i, c, A)
      PROVE  Goal
  <2>1. MarkSold(S, i, c, A) /\ invoice' = [invoice EXCEPT ![i] = "issued"]
        /\ UNCHANGED handover
    BY <1>4 DEF SellBikes
  <2>2. UnitTypes' /\ StockTypes' /\ \A v \in Unit : Lasts(v)
    BY <1>2, <2>1
  <2> QED BY <1>0, <2>1, <2>2 DEF SalesTypeOK
<1>5. ASSUME NEW i \in Invoice, RaiseInvoice(i)
      PROVE  Goal
  BY <1>0, <1>5 DEF RaiseInvoice, UnitTypes, StockTypes, SalesTypeOK, Lasts, registry, parts
<1>6. ASSUME NEW i \in Invoice, VoidInvoice(i)
      PROVE  Goal
  <2>1. invoice' \in [Invoice -> {"none", "issued", "voided"}] /\ UNCHANGED handover
    BY <1>0, <1>6 DEF VoidInvoice
  <2>2. ASSUME NEW u \in Unit, RevertSale(u)
        PROVE  UnitTypes' /\ StockTypes' /\ \A v \in Unit : Lasts(v)
    <3>1. PICK s \in {"assembled", "unassembled"} : s = IF built[u] THEN "assembled" ELSE "unassembled"
      OBVIOUS
    <3>2. status' = [status EXCEPT ![u] = s]
      BY <2>2, <3>1 DEF RevertSale
    <3>3. UnitTypes'
      BY <2>2, <3>2 DEF RevertSale, UnitTypes, SaleStatus
    <3>4. \A v \in Unit : Lasts(v)
      BY <2>2, <3>2 DEF RevertSale, UnitTypes, Lasts
    <3> QED BY <2>2, <3>3, <3>4 DEF RevertSale, StockTypes, parts
  <2>3. CASE UNCHANGED <<registry, parts>>
    BY <2>1, <2>3 DEF UnitTypes, StockTypes, SalesTypeOK, Lasts, registry, parts
  <2> QED BY <1>6, <2>1, <2>2, <2>3 DEF VoidInvoice, SalesTypeOK
<1>7. ASSUME NEW u \in Unit, NEW ready \in BOOLEAN, DraftHandover(u, ready) \/ EditHandover(u, ready)
      PROVE  Goal
  BY <1>0, <1>7 DEF DraftHandover, EditHandover, Draft, Handover, UnitTypes, StockTypes, SalesTypeOK,
                    Lasts, registry, parts
<1>8. ASSUME NEW u \in Unit, NEW ready \in BOOLEAN, CompleteHandover(u, ready)
      PROVE  Goal
  BY <1>0, <1>8 DEF CompleteHandover, Handover, UnitTypes, StockTypes, SalesTypeOK, Lasts, parts
<1> QED BY <1>1, <1>3, <1>4, <1>5, <1>6, <1>7, <1>8 DEF SalesNext

-----------------------------------------------------------------------------
(* What the status of a unit tells                                         *)

\* A step that leaves the columns of a unit alone, or puts the unit on hold.
LEMMA UnitSame ==
  ASSUME NEW u \in Unit, UnitOK(u), invoice' = invoice, handover'[u] = handover[u],
         status'[u] = status[u], customer'[u] = customer[u], soldOn'[u] = soldOn[u],
         built'[u] = built[u], handed'[u] = handed[u], imported'[u] = imported[u]
  PROVE  UnitOK(u)'
BY DEF UnitOK

LEMMA UnitHeld ==
  ASSUME NEW u \in Unit, UnitOK(u), invoice' = invoice, handover'[u] = handover[u],
         status'[u] = "on_hold", customer'[u] = None, soldOn'[u] = soldOn[u],
         built'[u] = built[u], handed'[u] = handed[u], imported'[u] = imported[u]
  PROVE  UnitOK(u)'
BY DEF UnitOK

LEMMA RegistryUnits ==
  ASSUME MotorcycleAssumption, UnitTypes, \A u \in Unit : UnitOK(u), RegistryNext, UNCHANGED <<invoice, handover>>
  PROVE  \A u \in Unit : UnitOK(u)'
<1>0. \A u \in Unit : UnitOK(u)
  OBVIOUS
<1>1. ASSUME NEW u \in Unit, NEW w, NEW b \in BOOLEAN, CreateUnit(u, w, b), NEW v \in Unit
      PROVE  UnitOK(v)'
  <2>1. CASE v = u
    <3>1. status[u] = "none" /\ status'[u] \in {"unassembled", "assembled"} /\ built'[u] = ~b
          /\ (b => status'[u] = "unassembled")
      BY <1>1 DEF CreateUnit, UnitTypes, Registered
    <3>2. UNCHANGED <<customer, soldOn, handed, imported>>
      BY <1>1 DEF CreateUnit
    <3>3. UnitOK(u)
      BY <1>0
    <3>4. customer[u] = None
      BY <3>1, <3>3 DEF UnitOK
    <3> QED BY <2>1, <3>1, <3>2, <3>3, <3>4 DEF UnitOK
  <2>2. CASE v # u
    <3>1. status'[v] = status[v] /\ built'[v] = built[v]
      BY <1>1, <2>2 DEF CreateUnit, UnitTypes
    <3> QED BY <1>0, <1>1, <3>1, UnitSame DEF CreateUnit
  <2> QED BY <2>1, <2>2
<1>2. ASSUME NEW u \in Unit, NEW new \in SaleStatus, Transition(u, new), NEW v \in Unit
      PROVE  UnitOK(v)'
  <2>1. CASE v = u
    <3>1. /\ status'[u] = new /\ new \notin {"reserved", "sold"} /\ new \in Allowed(status[u])
          /\ built'[u] = (built[u] \/ new = "assembled")
          /\ UNCHANGED <<soldOn, handed, imported>>
      BY <1>2 DEF Transition, UnitTypes
    <3>2. customer'[u] = IF new = "on_hold" \/ (status[u] = "reserved" /\ new = "assembled")
                           THEN None ELSE customer[u]
      BY <1>2 DEF Transition, UnitTypes
    <3>3. UnitOK(u)
      BY <1>0
    <3>4. customer'[u] = None \/ (imported[u] /\ new \in {"unassembled", "assembled"})
      <4>1. CASE status[u] = "reserved"
        <5>1. new = "assembled"
          BY <3>1, <4>1 DEF Allowed
        <5> QED BY <3>2, <4>1, <5>1
      <4>2. CASE status[u] = "sold"
        BY <3>1, <4>2 DEF Allowed
      <4>3. CASE status[u] \notin {"reserved", "sold"} /\ new # "on_hold"
        <5>1. new \in {"unassembled", "assembled"}
          BY <3>1, <4>3 DEF SaleStatus
        <5> QED BY <3>2, <3>3, <4>3, <5>1 DEF UnitOK
      <4>4. CASE new = "on_hold"
        BY <3>2, <4>4
      <4> QED BY <4>1, <4>2, <4>3, <4>4
    <3>5. new = "assembled" => built'[u]
      BY <3>1
    <3> QED BY <2>1, <3>1, <3>3, <3>4, <3>5 DEF UnitOK
  <2>2. CASE v # u
    <3>1. status'[v] = status[v] /\ built'[v] = built[v] /\ customer'[v] = customer[v]
      BY <1>2, <2>2 DEF Transition, UnitTypes
    <3> QED BY <1>0, <1>2, <3>1, UnitSame DEF Transition
  <2> QED BY <2>1, <2>2
<1>3. ASSUME NEW u \in Unit, MarkAssembled(u), NEW v \in Unit
      PROVE  UnitOK(v)'
  <2>1. /\ status'[v] = (IF v = u /\ status[u] = "unassembled" THEN "assembled" ELSE status[v])
        /\ (v = u => built'[v]) /\ (v # u => built'[v] = built[v])
        /\ UNCHANGED <<customer, soldOn, handed, imported>>
    BY <1>3 DEF MarkAssembled, UnitTypes
  <2>2. UnitOK(v)
    BY <1>0
  <2> QED BY <2>1, <2>2 DEF UnitOK
<1>4. ASSUME NEW u \in Unit, NEW w, TransferUnit(u, w) \/ EditUnit(u, w), NEW v \in Unit
      PROVE  UnitOK(v)'
  <2>1. UNCHANGED <<status, customer, soldOn, built, handed, imported>>
    BY <1>4 DEF TransferUnit, EditUnit
  <2> QED BY <1>0, <2>1, UnitSame
<1>5. ASSUME NEW u \in Unit, NEW s \in SaleStatus, NEW c, NEW b, ImportUnit(u, s, c, b), NEW v \in Unit
      PROVE  UnitOK(v)'
  <2>0. UNCHANGED <<soldOn, handed>> /\ status[u] = "none" /\ c \in ImportedCustomer(s)
    BY <1>5 DEF ImportUnit, Registered
  <2>1. CASE v = u
    <3>1. status'[u] = s /\ customer'[u] = c /\ imported'[u] = TRUE
      BY <1>5 DEF ImportUnit, UnitTypes
    <3>2. s \in {"reserved", "sold"} => c # None
      BY <2>0, MotorcycleAssumption DEF ImportedCustomer
    <3>3. c # None => s \in {"reserved", "sold", "unassembled", "assembled"}
      BY <2>0 DEF ImportedCustomer, SaleStatus
    <3> QED BY <1>0, <2>0, <2>1, <3>1, <3>2, <3>3 DEF UnitOK
  <2>2. CASE v # u
    <3>1. /\ status'[v] = status[v] /\ built'[v] = built[v]
          /\ customer'[v] = customer[v] /\ imported'[v] = imported[v]
      BY <1>5, <2>2 DEF ImportUnit, UnitTypes
    <3> QED BY <1>0, <2>0, <3>1, UnitSame
  <2> QED BY <2>1, <2>2
<1> QED BY <1>1, <1>2, <1>3, <1>4, <1>5 DEF RegistryNext

LEMMA NotesUnits ==
  ASSUME \A u \in Unit : UnitOK(u), NotesNext, UNCHANGED <<invoice, handover>>
  PROVE  \A u \in Unit : UnitOK(u)'
<1>1. UNCHANGED <<status, customer, soldOn, built, handed, imported>>
  BY DEF NotesNext, CheckNote, DraftNote, Dispatch, ReceiveNote, CancelNote, registry
<1> QED BY <1>1, UnitSame

LEMMA LoansUnits ==
  ASSUME \A u \in Unit : UnitOK(u), LoansNext, UNCHANGED <<invoice, handover>>
  PROVE  \A u \in Unit : UnitOK(u)'
<1>1. ASSUME UNCHANGED registry
      PROVE  \A u \in Unit : UnitOK(u)'
  BY <1>1, UnitSame DEF registry
<1>2. ASSUME NEW l \in Loan, NEW back, NEW bad, NEW settles, NEW missing,
             ReturnLoan(l, back, bad, settles, missing), NEW u \in Unit
      PROVE  UnitOK(u)'
  <2>1. /\ status'[u] = IF u \in bad THEN "on_hold" ELSE status[u]
        /\ customer'[u] = IF u \in bad THEN None ELSE customer[u]
        /\ UNCHANGED <<soldOn, built, handed, imported>>
    BY <1>2 DEF ReturnLoan
  <2>2. CASE u \in bad
    BY <2>1, <2>2, UnitHeld
  <2>3. CASE u \notin bad
    BY <2>1, <2>3, UnitSame
  <2> QED BY <2>2, <2>3
<1> QED BY <1>1, <1>2 DEF LoansNext, CreateLoan, IssueLoan, CancelLoan

LEMMA ParcelsUnits ==
  ASSUME MotorcycleAssumption, ParcelsOK, \A u \in Unit : UnitOK(u), ParcelsNext, UNCHANGED handover
  PROVE  \A u \in Unit : UnitOK(u)'
<1>1. ASSUME UNCHANGED <<registry, invoice>>
      PROVE  \A u \in Unit : UnitOK(u)'
  BY <1>1, UnitSame DEF registry
<1>2. ASSUME NEW d \in Parcel, NEW sold \in SUBSET Unit, NEW back, NEW settled, NEW returned,
             NEW sale \in [sold -> Invoice], Settle(d, sale, back, settled, returned), NEW u \in Unit
      PROVE  UnitOK(u)'
  <2>0. parcelRow[d].buyer \in Customer
    BY <1>2 DEF Settle, OpenConsignment, ParcelsOK, ParcelOK, ParcelRow
  <2>1. /\ status'[u] = IF u \in sold THEN "sold" ELSE status[u]
        /\ soldOn'[u] = IF u \in sold THEN sale[u] ELSE soldOn[u]
        /\ customer'[u] = IF u \in sold THEN parcelRow[d].buyer ELSE customer[u]
        /\ UNCHANGED <<invoice, built, handed, imported>>
    BY <1>2 DEF Settle
  <2>2. CASE u \in sold
    <3>1. sale[u] \in Invoice /\ invoice[sale[u]] # "none"
      BY <1>2, <2>2 DEF Settle
    <3>2. sale[u] # None /\ parcelRow[d].buyer # None
      BY <2>0, <3>1, MotorcycleAssumption
    <3>3. UnitOK(u)
      OBVIOUS
    <3> QED BY <2>1, <2>2, <3>1, <3>2, <3>3 DEF UnitOK
  <2>3. CASE u \notin sold
    BY <2>1, <2>3, UnitSame
  <2> QED BY <2>2, <2>3
<1> QED BY <1>1, <1>2 DEF ParcelsNext, CreateSaleDelivery, CreateConsignment, HandOut, Consign, CancelParcel

LEMMA RepairsUnits ==
  ASSUME UnitTypes, RepairsOK, \A u \in Unit : UnitOK(u), RepairsNext, UNCHANGED <<invoice, handover>>
  PROVE  \A u \in Unit : UnitOK(u)'
<1>1. ASSUME UNCHANGED registry
      PROVE  \A u \in Unit : UnitOK(u)'
  BY <1>1, UnitSame DEF registry
<1>2. ASSUME NEW r \in Repair, NEW u \in Unit, NEW w, NEW q, OpenRepair(r, u, w, q), NEW v \in Unit
      PROVE  UnitOK(v)'
  <2>1. CASE v = u
    <3>1. status'[u] = "on_hold" /\ customer'[u] = None /\ UNCHANGED <<soldOn, built, handed, imported>>
      BY <1>2 DEF OpenRepair, UnitTypes
    <3> QED BY <2>1, <3>1, UnitHeld
  <2>2. CASE v # u
    <3>1. status'[v] = status[v] /\ customer'[v] = customer[v] /\ UNCHANGED <<soldOn, built, handed, imported>>
      BY <1>2, <2>2 DEF OpenRepair, UnitTypes
    <3> QED BY <3>1, UnitSame
  <2> QED BY <2>1, <2>2
<1>3. ASSUME NEW r \in Repair, ResolveRepair(r), NEW v \in Unit
      PROVE  UnitOK(v)'
  <2>1. RepairOK(r) /\ repair[r] # "none"
    BY <1>3 DEF RepairsOK, ResolveRepair, ActiveRepair
  <2>2. PICK row \in RepairRow : row = repairRow[r]
    BY <2>1 DEF RepairOK
  <2>3. row.unit \in Unit /\ row.prior \in OpenableFrom /\ (row.prior = "assembled" => built[row.unit] \/ imported[row.unit])
    BY <2>1, <2>2 DEF RepairOK, RepairRow
  <2>4. /\ status'[v] = (IF v = row.unit /\ status[v] = "on_hold" THEN row.prior ELSE status[v])
        /\ UNCHANGED <<customer, soldOn, built, handed, imported>>
    BY <1>3, <2>2, <2>3 DEF ResolveRepair, Released, UnitTypes
  <2>5. UnitOK(v)
    OBVIOUS
  <2>6. CASE v = row.unit /\ status[v] = "on_hold"
    <3>1. customer[v] = None
      BY <2>5, <2>6 DEF UnitOK
    <3>2. status'[v] \in {"unassembled", "assembled"} /\ (status'[v] = "assembled" => built[v] \/ imported[v])
      BY <2>3, <2>4, <2>6 DEF OpenableFrom
    <3> QED BY <2>4, <2>5, <3>1, <3>2 DEF UnitOK
  <2>7. CASE ~(v = row.unit /\ status[v] = "on_hold")
    BY <2>4, <2>7, UnitSame
  <2> QED BY <2>6, <2>7
<1> QED BY <1>1, <1>2, <1>3 DEF RepairsNext, PlanParts, StartRepair

LEMMA SalesUnits ==
  ASSUME MotorcycleAssumption, UnitTypes, SalesTypeOK, ParcelsTypeOK, \A u \in Unit : UnitOK(u), SalesNext
  PROVE  \A u \in Unit : UnitOK(u)'
<1>0. invoice \in [Invoice -> {"none", "issued", "voided"}] /\ \A u \in Unit : UnitOK(u)
  BY DEF ParcelsTypeOK
<1>n. /\ \A c \in Customer : c # None
      /\ \A i \in Invoice : i # None
      /\ \A u \in Unit : soldOn[u] \in Invoice \union {None}
  BY MotorcycleAssumption DEF UnitTypes
<1>1. ASSUME NEW u \in Unit, NEW c \in Customer, Reserve(u, c), NEW v \in Unit
      PROVE  UnitOK(v)'
  <2>1. /\ status'[v] = (IF v = u THEN "reserved" ELSE status[v])
        /\ customer'[v] = (IF v = u THEN c ELSE customer[v])
        /\ UNCHANGED <<soldOn, built, handed, imported, invoice, handover>>
    BY <1>1 DEF Reserve, UnitTypes
  <2>2. UnitOK(v)
    BY <1>0
  <2> QED BY <1>n, <2>1, <2>2 DEF UnitOK
<1>2. ASSUME NEW S \in SUBSET Unit, NEW i \in Invoice, NEW c \in Customer, NEW A, MarkSold(S, i, c, A),
             \A j \in Invoice : invoice[j] # "none" => invoice'[j] # "none", invoice'[i] # "none",
             UNCHANGED handover, NEW v \in Unit
      PROVE  UnitOK(v)'
  <2>1. /\ status'[v] = (IF v \in S THEN "sold" ELSE status[v])
        /\ soldOn'[v] = (IF v \in S THEN i ELSE soldOn[v])
        /\ customer'[v] = (IF v \in S THEN c ELSE customer[v])
        /\ UNCHANGED <<built, handed, imported>>
    BY <1>2 DEF MarkSold
  <2>2. UnitOK(v)
    BY <1>0
  <2>3. soldOn'[v] # None => invoice'[soldOn'[v]] # "none"
    <3>1. CASE v \in S
      BY <1>2, <2>1, <3>1
    <3>2. CASE v \notin S
      <4>1. soldOn[v] # None => soldOn[v] \in Invoice /\ invoice[soldOn[v]] # "none"
        BY <1>n, <2>2 DEF UnitOK
      <4> QED BY <1>2, <2>1, <3>2, <4>1
    <3> QED BY <3>1, <3>2
  <2>4. status'[v] \in {"reserved", "sold"} => customer'[v] # None
    BY <1>n, <2>1, <2>2 DEF UnitOK
  <2>5. status'[v] \in {"reserved", "sold"}
          \/ (imported'[v] /\ status'[v] \in {"unassembled", "assembled"}) \/ customer'[v] = None
    BY <2>1, <2>2 DEF UnitOK
  <2>6. status'[v] = "sold" => soldOn'[v] # None \/ imported'[v]
    BY <1>n, <2>1, <2>2 DEF UnitOK
  <2>7. (status'[v] = "assembled" => built'[v] \/ imported'[v]) /\ (handed'[v] <=> handover'[v] = "completed")
    BY <1>2, <2>1, <2>2 DEF UnitOK
  <2> QED BY <2>3, <2>4, <2>5, <2>6, <2>7 DEF UnitOK
<1>3. ASSUME NEW i \in Invoice, NEW c \in Customer, NEW u \in Unit, NEW A, SellUnit(u, i, c, A)
      PROVE  \A v \in Unit : UnitOK(v)'
  <2>1. MarkSold({u}, i, c, A) /\ UNCHANGED <<handover, invoice>> /\ {u} \in SUBSET Unit
        /\ invoice[i] # "none"
    BY <1>3 DEF SellUnit
  <2> QED BY <1>2, <2>1
<1>4. ASSUME NEW i \in Invoice, NEW c \in Customer, NEW S \in SUBSET Unit, NEW A, SellBikes(S, i, c, A)
      PROVE  \A v \in Unit : UnitOK(v)'
  <2>1. MarkSold(S, i, c, A) /\ invoice' = [invoice EXCEPT ![i] = "issued"] /\ UNCHANGED handover
    BY <1>4 DEF SellBikes
  <2>2. invoice'[i] # "none" /\ \A j \in Invoice : invoice[j] # "none" => invoice'[j] # "none"
    BY <1>0, <2>1
  <2> QED BY <1>2, <2>1, <2>2
<1>5. ASSUME NEW i \in Invoice, RaiseInvoice(i), NEW v \in Unit
      PROVE  UnitOK(v)'
  <2>1. UNCHANGED <<status, customer, soldOn, built, handed, imported, handover>>
    BY <1>5 DEF RaiseInvoice, registry
  <2>2. \A j \in Invoice : invoice[j] # "none" => invoice'[j] # "none"
    BY <1>0, <1>5 DEF RaiseInvoice
  <2>3. UnitOK(v)
    BY <1>0
  <2> QED BY <1>n, <2>1, <2>2, <2>3 DEF UnitOK
<1>6. ASSUME NEW i \in Invoice, VoidInvoice(i), NEW v \in Unit
      PROVE  UnitOK(v)'
  <2>1. (\A j \in Invoice : invoice[j] # "none" => invoice'[j] # "none") /\ UNCHANGED handover
    BY <1>0, <1>6 DEF VoidInvoice
  <2>2. UnitOK(v)
    BY <1>0
  <2>3. ASSUME NEW u \in Unit, RevertSale(u)
        PROVE  UnitOK(v)'
    <3>1. /\ status'[v] = (IF v = u THEN IF built[u] THEN "assembled" ELSE "unassembled" ELSE status[v])
          /\ soldOn'[v] = (IF v = u THEN None ELSE soldOn[v])
          /\ customer'[v] = (IF v = u THEN None ELSE customer[v])
          /\ UNCHANGED <<built, handed, imported>>
      BY <2>3 DEF RevertSale, UnitTypes
    <3> QED BY <1>n, <2>1, <2>2, <3>1 DEF UnitOK
  <2>4. CASE UNCHANGED registry
    BY <1>n, <2>1, <2>2, <2>4 DEF UnitOK, registry
  <2> QED BY <1>6, <2>3, <2>4 DEF VoidInvoice
<1>7. ASSUME NEW u \in Unit, NEW ready \in BOOLEAN, DraftHandover(u, ready) \/ EditHandover(u, ready),
             NEW v \in Unit
      PROVE  UnitOK(v)'
  <2>1. UNCHANGED <<status, customer, soldOn, built, handed, imported, invoice>>
    BY <1>7 DEF DraftHandover, EditHandover, registry
  <2>2. handover'[v] = "completed" <=> handover[v] = "completed"
    BY <1>7 DEF DraftHandover, EditHandover, Draft, SalesTypeOK
  <2>3. UnitOK(v)
    BY <1>0
  <2> QED BY <2>1, <2>2, <2>3 DEF UnitOK
<1>8. ASSUME NEW u \in Unit, NEW ready \in BOOLEAN, CompleteHandover(u, ready), NEW v \in Unit
      PROVE  UnitOK(v)'
  <2>1. UNCHANGED <<status, customer, soldOn, built, imported, invoice>>
    BY <1>8 DEF CompleteHandover
  <2>2. /\ handed'[v] = (IF v = u THEN TRUE ELSE handed[v])
        /\ handover'[v] = (IF v = u THEN "completed" ELSE handover[v])
    BY <1>8 DEF CompleteHandover, SalesTypeOK, UnitTypes
  <2>3. UnitOK(v)
    BY <1>0
  <2> QED BY <2>1, <2>2, <2>3 DEF UnitOK
<1> QED BY <1>1, <1>3, <1>4, <1>5, <1>6, <1>7, <1>8 DEF SalesNext

-----------------------------------------------------------------------------
(* Known units                                                             *)

LEMMA KnownLoans ==
  ASSUME \A u \in Unit : Lasts(u), LoansOK, LoansNext,
         \A l \in Loan : loan[l] # "none" => \A u \in loanRow[l].units : status[u] # "none"
  PROVE  \A l \in Loan : loan'[l] # "none" => \A u \in loanRow'[l].units : status'[u] # "none"
<1>0. /\ loan \in [Loan -> LoanStatus] /\ loanRow \in [Loan -> LoanRow \union {None}]
      /\ \A l \in Loan : LoanOK(l)
  BY DEF LoansOK, LoansTypeOK
<1>s. ASSUME NEW l \in Loan, loan[l] # "none", NEW u \in loanRow[l].units
      PROVE  status'[u] # "none"
  <2>1. u \in Unit /\ status[u] # "none"
    BY <1>0, <1>s DEF LoanOK, LoanRow
  <2> QED BY <2>1 DEF Lasts
<1>1. ASSUME NEW l \in Loan, NEW row \in NewLoanRow, CreateLoan(l, row)
      PROVE  \A m \in Loan : loan'[m] # "none" => \A u \in loanRow'[m].units : status'[u] # "none"
  <2>1. row.units \subseteq Unit /\ \A u \in row.units : status[u] # "none"
    BY <1>1 DEF CreateLoan, NewLoanRow, LoanRow, Registered
  <2>2. \A u \in row.units : status'[u] # "none"
    BY <2>1 DEF Lasts
  <2>3. /\ loanRow'[l] = row
        /\ \A m \in Loan : m # l => loanRow'[m] = loanRow[m] /\ loan'[m] = loan[m]
    BY <1>0, <1>1 DEF CreateLoan
  <2> QED BY <1>s, <2>2, <2>3
<1>2. ASSUME NEW l \in Loan, loan[l] # "none", NEW s, loan' = [loan EXCEPT ![l] = s], UNCHANGED loanRow
      PROVE  \A m \in Loan : loan'[m] # "none" => \A u \in loanRow'[m].units : status'[u] # "none"
  <2>1. \A m \in Loan : loan'[m] # "none" => loan[m] # "none"
    BY <1>0, <1>2
  <2> QED BY <1>2, <1>s, <2>1
<1>3. ASSUME NEW l \in Loan, NEW back, NEW bad, NEW settles, NEW missing,
             IssueLoan(l) \/ CancelLoan(l) \/ ReturnLoan(l, back, bad, settles, missing)
      PROVE  /\ loan[l] # "none" /\ UNCHANGED loanRow
             /\ \E s : loan' = [loan EXCEPT ![l] = s]
  BY <1>3 DEF IssueLoan, CancelLoan, ReturnLoan, OpenLoan
<1> QED BY <1>1, <1>2, <1>3 DEF LoansNext

LEMMA KnownParcels ==
  ASSUME \A u \in Unit : Lasts(u), ParcelsOK, ParcelsNext, Known
  PROVE  \A d \in Parcel : parcel'[d] # "none" => \A u \in parcelRow'[d].units : status'[u] # "none"
<1>0. /\ parcel \in [Parcel -> ParcelStatus] /\ parcelRow \in [Parcel -> ParcelRow \union {None}]
      /\ \A d \in Parcel : ParcelOK(d)
  BY DEF ParcelsOK, ParcelsTypeOK
<1>s. ASSUME NEW d \in Parcel, parcel[d] # "none", NEW u \in parcelRow[d].units
      PROVE  status'[u] # "none"
  <2>1. u \in Unit /\ status[u] # "none"
    BY <1>0, <1>s DEF ParcelOK, ParcelRow, Known
  <2> QED BY <2>1 DEF Lasts
<1>1. ASSUME NEW d \in Parcel, NEW row, row.units \subseteq Unit, \A u \in row.units : status[u] # "none",
             parcel' = [parcel EXCEPT ![d] = "draft"], parcelRow' = [parcelRow EXCEPT ![d] = row]
      PROVE  \A e \in Parcel : parcel'[e] # "none" => \A u \in parcelRow'[e].units : status'[u] # "none"
  <2>2. \A u \in row.units : status'[u] # "none"
    BY <1>1 DEF Lasts
  <2>3. /\ parcelRow'[d] = row
        /\ \A e \in Parcel : e # d => parcelRow'[e] = parcelRow[e] /\ parcel'[e] = parcel[e]
    BY <1>0, <1>1
  <2> QED BY <1>s, <2>2, <2>3
<1>2. ASSUME NEW d \in Parcel, NEW i, NEW c, CreateSaleDelivery(d, i, c), i # None
      PROVE  \A e \in Parcel : parcel'[e] # "none" => \A u \in parcelRow'[e].units : status'[u] # "none"
  <2>1. PICK row : row = [mode |-> "sale", buyer |-> c, units |-> {u \in Unit : soldOn[u] = i},
                          qty |-> 0, at |-> Home]
    OBVIOUS
  <2>2. row.units \subseteq Unit /\ \A u \in row.units : status[u] # "none"
    BY <1>2, <2>1 DEF Known, KnownSales
  <2>3. parcel' = [parcel EXCEPT ![d] = "draft"] /\ parcelRow' = [parcelRow EXCEPT ![d] = row]
    BY <1>2, <2>1 DEF CreateSaleDelivery
  <2> QED BY <1>1, <2>2, <2>3
<1>3. ASSUME NEW d \in Parcel, NEW row \in NewConsignment, CreateConsignment(d, row)
      PROVE  \A e \in Parcel : parcel'[e] # "none" => \A u \in parcelRow'[e].units : status'[u] # "none"
  <2>1. row.units \subseteq Unit /\ \A u \in row.units : status[u] # "none"
    BY <1>3 DEF CreateConsignment, NewConsignment, ParcelRow, Registered
  <2> QED BY <1>1, <1>3, <2>1 DEF CreateConsignment
<1>4. ASSUME NEW d \in Parcel, parcel[d] # "none", NEW s, parcel' = [parcel EXCEPT ![d] = s], UNCHANGED parcelRow
      PROVE  \A e \in Parcel : parcel'[e] # "none" => \A u \in parcelRow'[e].units : status'[u] # "none"
  <2>1. \A e \in Parcel : parcel'[e] # "none" => parcel[e] # "none"
    BY <1>0, <1>4
  <2> QED BY <1>4, <1>s, <2>1
<1>5. ASSUME NEW d \in Parcel, NEW o, NEW sale, NEW back, NEW x, NEW y,
             HandOut(d, o) \/ Consign(d) \/ CancelParcel(d) \/ Settle(d, sale, back, x, y)
      PROVE  /\ parcel[d] # "none" /\ UNCHANGED parcelRow
             /\ \E s : parcel' = [parcel EXCEPT ![d] = s]
  BY <1>5 DEF HandOut, Consign, CancelParcel, Settle, OpenConsignment
<1>6. \A i \in Invoice : i # None
  BY MotorcycleAssumption
<1> QED BY <1>2, <1>3, <1>4, <1>5, <1>6 DEF ParcelsNext

\* The documents of another kind leave the units of loans and deliveries alone.
LEMMA KnownKept ==
  ASSUME \A u \in Unit : Lasts(u), Known, LoansOK, ParcelsOK
  PROVE  /\ UNCHANGED loans =>
              \A l \in Loan : loan'[l] # "none" => \A u \in loanRow'[l].units : status'[u] # "none"
         /\ UNCHANGED parcels =>
              \A d \in Parcel : parcel'[d] # "none" => \A u \in parcelRow'[d].units : status'[u] # "none"
<1>1. ASSUME UNCHANGED loans, NEW l \in Loan, loan'[l] # "none", NEW u \in loanRow'[l].units
      PROVE  status'[u] # "none"
  <2>1. loan[l] # "none" /\ u \in loanRow[l].units
    BY <1>1 DEF loans
  <2>2. u \in Unit /\ status[u] # "none"
    BY <2>1 DEF LoansOK, LoanOK, LoanRow, Known
  <2> QED BY <2>2 DEF Lasts
<1>2. ASSUME UNCHANGED parcels, NEW d \in Parcel, parcel'[d] # "none", NEW u \in parcelRow'[d].units
      PROVE  status'[u] # "none"
  <2>1. parcel[d] # "none" /\ u \in parcelRow[d].units
    BY <1>2 DEF parcels
  <2>2. u \in Unit /\ status[u] # "none"
    BY <2>1 DEF ParcelsOK, ParcelOK, ParcelRow, Known
  <2> QED BY <2>2 DEF Lasts
<1> QED BY <1>1, <1>2

\* A step that sells nothing.
LEMMA KnownSame ==
  ASSUME \A u \in Unit : Lasts(u), KnownSales, UNCHANGED soldOn
  PROVE  KnownSales'
BY DEF Lasts, KnownSales

LEMMA KnownSettled ==
  ASSUME \A u \in Unit : Lasts(u), KnownSales, ParcelsNext
  PROVE  KnownSales'
<1>1. ASSUME NEW d \in Parcel, NEW sale, NEW back, NEW x, NEW y, Settle(d, sale, back, x, y)
      PROVE  KnownSales'
  BY <1>1 DEF Settle, KnownSales, Lasts
<1> QED BY <1>1, KnownSame DEF ParcelsNext, CreateSaleDelivery, CreateConsignment, HandOut, Consign,
           CancelParcel, registry

LEMMA KnownSold ==
  ASSUME UnitTypes, \A u \in Unit : Lasts(u), KnownSales, SalesNext
  PROVE  KnownSales'
<1>1. ASSUME NEW S, NEW i, NEW c, NEW A, MarkSold(S, i, c, A)
      PROVE  KnownSales'
  BY <1>1 DEF MarkSold, KnownSales, Lasts
<1>2. ASSUME NEW u \in Unit, RevertSale(u)
      PROVE  KnownSales'
  BY <1>2 DEF RevertSale, KnownSales, Lasts, UnitTypes
<1> QED BY <1>1, <1>2, KnownSame DEF SalesNext, Reserve, SellUnit, SellBikes, RaiseInvoice, VoidInvoice,
           DraftHandover, EditHandover, CompleteHandover, registry

-----------------------------------------------------------------------------
(* Where the units are                                                     *)

\* The note a unit is on: one in transit that carries it.
OnTheWay(u) == \E n \in Note : note[n] = "in_transit" /\ u \in noteRow[n].units

\* A step that leaves the notes and the place of a unit alone does not lose it.
LEMMA StillThere ==
  ASSUME NEW u \in Unit, Registered(u), ~Lost(u), UNCHANGED <<note, noteRow>>, place'[u] = place[u]
  PROVE  ~Lost(u)'
BY DEF Lost

LEMMA RegistryLosesNone ==
  ASSUME MotorcycleAssumption, UnitTypes, RegistryNext, UNCHANGED notes,
         NEW u \in Unit, Registered(u), ~Lost(u), ~EditUnit(u, None)
  PROVE  ~Lost(u)'
<1>0. UNCHANGED <<note, noteRow>> /\ \A w \in Warehouse : w # None
  BY MotorcycleAssumption DEF notes
<1>1. ASSUME NEW v \in Unit, NEW w \in Warehouse \union {None}, TransferUnit(v, w) \/ EditUnit(v, w)
      PROVE  ~Lost(u)'
  <2>1. place'[u] = place[u] \/ place'[u] \in Warehouse
    <3>1. CASE v = u
      <4>1. CASE EditUnit(v, w)
        <5>1. w # None
          BY <3>1, <4>1
        <5> QED BY <3>1, <4>1, <5>1 DEF EditUnit, UnitTypes
      <4>2. CASE TransferUnit(v, w)
        BY <3>1, <4>2 DEF TransferUnit, UnitTypes
      <4> QED BY <1>1, <4>1, <4>2
    <3>2. CASE v # u
      BY <1>1, <3>2 DEF TransferUnit, EditUnit, UnitTypes
    <3> QED BY <3>1, <3>2
  <2>2. CASE place'[u] = place[u]
    BY <1>0, <2>2, StillThere
  <2>3. CASE place'[u] \in Warehouse
    BY <1>0, <2>3 DEF Lost
  <2> QED BY <2>1, <2>2, <2>3
<1>2. ASSUME NEW v \in Unit, NEW w, NEW b, CreateUnit(v, w, b)
      PROVE  place'[u] = place[u]
  <2>1. v # u
    BY <1>2 DEF CreateUnit
  <2> QED BY <1>2, <2>1 DEF CreateUnit, UnitTypes
<1>3. ASSUME NEW v \in Unit, NEW new, NEW s, NEW c, NEW b,
             Transition(v, new) \/ MarkAssembled(v) \/ ImportUnit(v, s, c, b)
      PROVE  place'[u] = place[u]
  BY <1>3 DEF Transition, MarkAssembled, ImportUnit
<1> QED BY <1>0, <1>1, <1>2, <1>3, StillThere DEF RegistryNext

LEMMA NotesLoseNone ==
  ASSUME MotorcycleAssumption, UnitTypes, NotesOK, NotesNext, NEW u \in Unit, Registered(u), ~Lost(u)
  PROVE  ~Lost(u)'
<1>0. /\ note \in [Note -> NoteStatus] /\ noteRow \in [Note -> NoteRow \union {None}]
      /\ \A n \in Note : NoteOK(n)
      /\ \A w \in Warehouse : w # None
  BY MotorcycleAssumption DEF NotesOK, NotesTypeOK
<1>a. place[u] # None \/ OnTheWay(u)
  BY DEF Lost, OnTheWay
\* Only the note of the step changes, and it was not on the way.
<1>1. ASSUME NEW n \in Note, note[n] # "in_transit", place' = place,
             \A m \in Note : m # n => note'[m] = note[m] /\ noteRow'[m] = noteRow[m]
      PROVE  ~Lost(u)'
  <2>1. CASE OnTheWay(u)
    <3> PICK m \in Note : note[m] = "in_transit" /\ u \in noteRow[m].units
      BY <2>1 DEF OnTheWay
    <3> QED BY <1>1 DEF Lost
  <2>2. CASE place[u] # None
    BY <1>1, <2>2 DEF Lost
  <2> QED BY <1>a, <2>1, <2>2
<1>2. ASSUME NEW n \in Note, NEW row, CheckNote(n, row) \/ DraftNote(n) \/ CancelNote(n)
      PROVE  ~Lost(u)'
  <2>1. note[n] # "in_transit" /\ place' = place
    BY <1>2 DEF CheckNote, DraftNote, CancelNote, registry
  <2>2. \A m \in Note : m # n => note'[m] = note[m] /\ noteRow'[m] = noteRow[m]
    BY <1>0, <1>2 DEF CheckNote, DraftNote, CancelNote
  <2> QED BY <1>1, <2>1, <2>2
<1>3. ASSUME NEW n \in Note, Dispatch(n)
      PROVE  ~Lost(u)'
  <2>1. /\ note' = [note EXCEPT ![n] = "in_transit"] /\ note[n] = "draft" /\ noteRow' = noteRow
        /\ place'[u] = IF u \in noteRow[n].units THEN None ELSE place[u]
    BY <1>3 DEF Dispatch
  <2>2. CASE u \in noteRow[n].units
    BY <1>0, <2>1, <2>2 DEF Lost
  <2>3. CASE u \notin noteRow[n].units /\ OnTheWay(u)
    <3> PICK m \in Note : note[m] = "in_transit" /\ u \in noteRow[m].units
      BY <2>3 DEF OnTheWay
    <3>1. note'[m] = "in_transit"
      BY <1>0, <2>1
    <3> QED BY <2>1, <3>1 DEF Lost
  <2>4. CASE u \notin noteRow[n].units /\ place[u] # None
    BY <2>1, <2>4 DEF Lost
  <2> QED BY <1>a, <2>2, <2>3, <2>4
<1>4. ASSUME NEW n \in Note, NEW got, NEW confirmed, ReceiveNote(n, got, confirmed)
      PROVE  ~Lost(u)'
  <2>1. noteRow[n] \in NoteRow
    BY <1>0, <1>4 DEF ReceiveNote, Receivable, NoteOK
  <2>2. PICK row \in NoteRow : row = noteRow[n]
    BY <2>1
  <2>3. row.src \in Warehouse /\ row.dst \in Warehouse
    BY DEF NoteRow
  <2>4. PICK s : note' = [note EXCEPT ![n] = s]
    BY <1>4 DEF ReceiveNote
  <2>5. /\ noteRow' = noteRow /\ confirmed \subseteq row.units
        /\ place'[u] = IF u \in confirmed THEN row.dst
                       ELSE IF u \in row.units THEN row.src ELSE place[u]
    BY <1>4, <2>2 DEF ReceiveNote, Arrival
  <2>6. CASE u \in row.units
    BY <1>0, <2>3, <2>5, <2>6 DEF Lost
  <2>7. CASE u \notin row.units /\ OnTheWay(u)
    <3> PICK m \in Note : note[m] = "in_transit" /\ u \in noteRow[m].units
      BY <2>7 DEF OnTheWay
    <3>1. note'[m] = "in_transit" /\ noteRow'[m] = noteRow[m]
      BY <1>0, <2>2, <2>4, <2>5, <2>7
    <3> QED BY <3>1 DEF Lost
  <2>8. CASE u \notin row.units /\ place[u] # None
    BY <2>5, <2>8 DEF Lost
  <2> QED BY <1>a, <2>6, <2>7, <2>8
<1> QED BY <1>2, <1>3, <1>4 DEF NotesNext

\* The steps of the other documents move no unit.
LEMMA OthersMoveNone ==
  ASSUME LoansNext \/ ParcelsNext \/ RepairsNext \/ SalesNext
  PROVE  UNCHANGED place
<1>1. CASE LoansNext
  BY <1>1 DEF LoansNext, CreateLoan, IssueLoan, ReturnLoan, CancelLoan, registry
<1>2. CASE ParcelsNext
  BY <1>2 DEF ParcelsNext, CreateSaleDelivery, CreateConsignment, HandOut, Consign, Settle,
              CancelParcel, registry
<1>3. CASE RepairsNext
  BY <1>3 DEF RepairsNext, OpenRepair, PlanParts, StartRepair, ResolveRepair, registry
<1>4. CASE SalesNext
  BY <1>4 DEF SalesNext, Reserve, SellUnit, SellBikes, MarkSold, RaiseInvoice, VoidInvoice,
              RevertSale, DraftHandover, EditHandover, CompleteHandover, registry
<1> QED BY <1>1, <1>2, <1>3, <1>4

-----------------------------------------------------------------------------
(* What the documents explain                                              *)

LEMMA TotalInt ==
  ASSUME NEW S, IsFiniteSet(S), NEW f \in [S -> Int]
  PROVE  Total(f) \in Int
BY SumType DEF Total

LEMMA TotalNat ==
  ASSUME NEW S, IsFiniteSet(S), NEW f \in [S -> Nat]
  PROVE  Total(f) \in Nat
BY SumNat DEF Total

LEMMA TotalChange ==
  ASSUME NEW S, IsFiniteSet(S), NEW a \in S, NEW f \in [S -> Nat], NEW g \in [S -> Nat],
         \A x \in S : x # a => g[x] = f[x]
  PROVE  Total(g) = Total(f) + g[a] - f[a]
<1>1. DOMAIN f = S /\ DOMAIN g = S
  OBVIOUS
<1>2. DifferAt(a, f, g, S)
  BY DEF DifferAt
<1> QED BY <1>1, <1>2, SumChange DEF Total

\* The terms of the two sums of each document.
LEMMA NoteTerms ==
  ASSUME MotorcycleAssumption
  PROVE  /\ NotesOK => \A n \in Note : \A w : Sent(n, w) \in Nat /\ Came(n, w) \in Nat
         /\ NotesOK' => \A n \in Note : \A w : Sent(n, w)' \in Nat /\ Came(n, w)' \in Nat
<1>1. MaxQty \in Nat
  BY MotorcycleAssumption
<1>2. ASSUME NotesOK, NEW n \in Note, NEW w
      PROVE  Sent(n, w) \in Nat /\ Came(n, w) \in Nat
  BY <1>1, <1>2 DEF NotesOK, NotesTypeOK, NoteOK, NoteRow, Sent, Came
<1>3. ASSUME NotesOK', NEW n \in Note, NEW w
      PROVE  Sent(n, w)' \in Nat /\ Came(n, w)' \in Nat
  BY <1>1, <1>3 DEF NotesOK, NotesTypeOK, NoteOK, NoteRow, Sent, Came
<1> QED BY <1>2, <1>3

LEMMA LoanTerms ==
  ASSUME MotorcycleAssumption
  PROVE  /\ LoansOK => \A l \in Loan : \A w : Used(l, w) \in Nat /\ Lent(l, w) \in Nat
         /\ LoansOK' => \A l \in Loan : \A w : Used(l, w)' \in Nat /\ Lent(l, w)' \in Nat
<1>1. MaxQty \in Nat
  BY MotorcycleAssumption
<1>2. ASSUME LoansOK, NEW l \in Loan, NEW w
      PROVE  Used(l, w) \in Nat /\ Lent(l, w) \in Nat
  BY <1>1, <1>2 DEF LoansOK, LoansTypeOK, LoanOK, LoanRow, Used, Lent, IssuedAt, OpenLoan
<1>3. ASSUME LoansOK', NEW l \in Loan, NEW w
      PROVE  Used(l, w)' \in Nat /\ Lent(l, w)' \in Nat
  BY <1>1, <1>3 DEF LoansOK, LoansTypeOK, LoanOK, LoanRow, Used, Lent, IssuedAt, OpenLoan
<1> QED BY <1>2, <1>3

LEMMA ParcelTerms ==
  ASSUME MotorcycleAssumption
  PROVE  /\ ParcelsOK => \A d \in Parcel : \A w : Sold(d, w) \in Nat /\ Consigned(d, w) \in Nat
         /\ ParcelsOK' => \A d \in Parcel : \A w : Sold(d, w)' \in Nat /\ Consigned(d, w)' \in Nat
<1>1. MaxQty \in Nat
  BY MotorcycleAssumption
<1>2. ASSUME ParcelsOK, NEW d \in Parcel, NEW w
      PROVE  Sold(d, w) \in Nat /\ Consigned(d, w) \in Nat
  BY <1>1, <1>2 DEF ParcelsOK, ParcelsTypeOK, ParcelOK, ParcelRow, PartLine, Sold, Consigned,
                    ParcelAt, PartOut
<1>3. ASSUME ParcelsOK', NEW d \in Parcel, NEW w
      PROVE  Sold(d, w)' \in Nat /\ Consigned(d, w)' \in Nat
  BY <1>1, <1>3 DEF ParcelsOK, ParcelsTypeOK, ParcelOK, ParcelRow, PartLine, Sold, Consigned,
                    ParcelAt, PartOut
<1> QED BY <1>2, <1>3

LEMMA RepairTerms ==
  ASSUME MotorcycleAssumption
  PROVE  /\ RepairsOK => \A r \in Repair : \A w : Spent(r, w) \in Nat
         /\ RepairsOK' => \A r \in Repair : \A w : Spent(r, w)' \in Nat
<1>1. MaxQty \in Nat
  BY MotorcycleAssumption
<1>2. ASSUME RepairsOK, NEW r \in Repair, NEW w
      PROVE  Spent(r, w) \in Nat
  BY <1>1, <1>2 DEF RepairsOK, RepairsTypeOK, Spent
<1>3. ASSUME RepairsOK', NEW r \in Repair, NEW w
      PROVE  Spent(r, w)' \in Nat
  BY <1>1, <1>3 DEF RepairsOK, RepairsTypeOK, Spent
<1> QED BY <1>2, <1>3

\* The sums over the documents of one kind.
SentAll(w) == Total([n \in Note |-> Sent(n, w)])
CameAll(w) == Total([n \in Note |-> Came(n, w)])
UsedAll(w) == Total([l \in Loan |-> Used(l, w)])
LentAll(w) == Total([l \in Loan |-> Lent(l, w)])
SoldAll(w) == Total([d \in Parcel |-> Sold(d, w)])
ConsignedAll(w) == Total([d \in Parcel |-> Consigned(d, w)])
SpentAll(w) == Total([r \in Repair |-> Spent(r, w)])

LEMMA AllTyped ==
  ASSUME FiniteDocuments, MotorcycleAssumption, NotesOK, LoansOK, ParcelsOK, RepairsOK, NEW w
  PROVE  /\ SentAll(w) \in Nat /\ CameAll(w) \in Nat /\ UsedAll(w) \in Nat /\ LentAll(w) \in Nat
         /\ SoldAll(w) \in Nat /\ ConsignedAll(w) \in Nat /\ SpentAll(w) \in Nat
<1>0. IsFiniteSet(Note) /\ IsFiniteSet(Loan) /\ IsFiniteSet(Parcel) /\ IsFiniteSet(Repair)
  BY FiniteDocuments
<1>1. /\ [n \in Note |-> Sent(n, w)] \in [Note -> Nat]
      /\ [n \in Note |-> Came(n, w)] \in [Note -> Nat]
  BY NoteTerms
<1>2. /\ [l \in Loan |-> Used(l, w)] \in [Loan -> Nat]
      /\ [l \in Loan |-> Lent(l, w)] \in [Loan -> Nat]
  BY LoanTerms
<1>3. /\ [d \in Parcel |-> Sold(d, w)] \in [Parcel -> Nat]
      /\ [d \in Parcel |-> Consigned(d, w)] \in [Parcel -> Nat]
  BY ParcelTerms
<1>4. [r \in Repair |-> Spent(r, w)] \in [Repair -> Nat]
  BY RepairTerms
<1> QED BY <1>0, <1>1, <1>2, <1>3, <1>4, TotalNat
        DEF SentAll, CameAll, UsedAll, LentAll, SoldAll, ConsignedAll, SpentAll

LEMMA OneNote ==
  ASSUME FiniteDocuments, MotorcycleAssumption, NotesOK, NotesOK', NEW n \in Note,
         \A m \in Note : m # n => /\ note'[m] = note[m] /\ noteRow'[m] = noteRow[m]
                                  /\ credited'[m] = credited[m],
         NEW w
  PROVE  /\ SentAll(w)' = SentAll(w) + Sent(n, w)' - Sent(n, w)
         /\ CameAll(w)' = CameAll(w) + Came(n, w)' - Came(n, w)
<1>0. IsFiniteSet(Note)
  BY FiniteDocuments
<1>1. PICK f, g : f = [m \in Note |-> Sent(m, w)] /\ g = [m \in Note |-> Sent(m, w)']
  OBVIOUS
<1>2. PICK h, k : h = [m \in Note |-> Came(m, w)] /\ k = [m \in Note |-> Came(m, w)']
  OBVIOUS
<1>3. f \in [Note -> Nat] /\ g \in [Note -> Nat] /\ h \in [Note -> Nat] /\ k \in [Note -> Nat]
  BY <1>1, <1>2, NoteTerms
<1>4. \A m \in Note : m # n => g[m] = f[m] /\ k[m] = h[m]
  BY <1>1, <1>2 DEF Sent, Came
<1>5. Total(g) = Total(f) + g[n] - f[n]
  BY <1>0, <1>3, <1>4, TotalChange
<1>6. Total(k) = Total(h) + k[n] - h[n]
  BY <1>0, <1>3, <1>4, TotalChange
<1>7. SentAll(w) = Total(f) /\ SentAll(w)' = Total(g) /\ CameAll(w) = Total(h) /\ CameAll(w)' = Total(k)
  BY <1>1, <1>2 DEF SentAll, CameAll
<1> QED BY <1>1, <1>2, <1>5, <1>6, <1>7

LEMMA OneLoan ==
  ASSUME FiniteDocuments, MotorcycleAssumption, LoansOK, LoansOK', NEW l \in Loan,
         \A m \in Loan : m # l => /\ loan'[m] = loan[m] /\ loanRow'[m] = loanRow[m]
                                  /\ loanHold'[m] = loanHold[m] /\ loanLost'[m] = loanLost[m],
         NEW w
  PROVE  /\ UsedAll(w)' = UsedAll(w) + Used(l, w)' - Used(l, w)
         /\ LentAll(w)' = LentAll(w) + Lent(l, w)' - Lent(l, w)
<1>0. IsFiniteSet(Loan)
  BY FiniteDocuments
<1>1. PICK f, g : f = [m \in Loan |-> Used(m, w)] /\ g = [m \in Loan |-> Used(m, w)']
  OBVIOUS
<1>2. PICK h, k : h = [m \in Loan |-> Lent(m, w)] /\ k = [m \in Loan |-> Lent(m, w)']
  OBVIOUS
<1>3. f \in [Loan -> Nat] /\ g \in [Loan -> Nat] /\ h \in [Loan -> Nat] /\ k \in [Loan -> Nat]
  BY <1>1, <1>2, LoanTerms
<1>4. \A m \in Loan : m # l => g[m] = f[m] /\ k[m] = h[m]
  BY <1>1, <1>2 DEF Used, Lent, IssuedAt
<1>5. Total(g) = Total(f) + g[l] - f[l]
  BY <1>0, <1>3, <1>4, TotalChange
<1>6. Total(k) = Total(h) + k[l] - h[l]
  BY <1>0, <1>3, <1>4, TotalChange
<1>7. UsedAll(w) = Total(f) /\ UsedAll(w)' = Total(g) /\ LentAll(w) = Total(h) /\ LentAll(w)' = Total(k)
  BY <1>1, <1>2 DEF UsedAll, LentAll
<1> QED BY <1>1, <1>2, <1>5, <1>6, <1>7

LEMMA OneParcel ==
  ASSUME FiniteDocuments, MotorcycleAssumption, ParcelsOK, ParcelsOK', NEW d \in Parcel,
         \A e \in Parcel : e # d => /\ parcel'[e] = parcel[e] /\ parcelRow'[e] = parcelRow[e]
                                    /\ parcelPart'[e] = parcelPart[e],
         NEW w
  PROVE  /\ SoldAll(w)' = SoldAll(w) + Sold(d, w)' - Sold(d, w)
         /\ ConsignedAll(w)' = ConsignedAll(w) + Consigned(d, w)' - Consigned(d, w)
<1>0. IsFiniteSet(Parcel)
  BY FiniteDocuments
<1>1. PICK f, g : f = [e \in Parcel |-> Sold(e, w)] /\ g = [e \in Parcel |-> Sold(e, w)']
  OBVIOUS
<1>2. PICK h, k : h = [e \in Parcel |-> Consigned(e, w)] /\ k = [e \in Parcel |-> Consigned(e, w)']
  OBVIOUS
<1>3. f \in [Parcel -> Nat] /\ g \in [Parcel -> Nat] /\ h \in [Parcel -> Nat] /\ k \in [Parcel -> Nat]
  BY <1>1, <1>2, ParcelTerms
<1>4. \A e \in Parcel : e # d => g[e] = f[e] /\ k[e] = h[e]
  BY <1>1, <1>2 DEF Sold, Consigned, ParcelAt, PartOut
<1>5. Total(g) = Total(f) + g[d] - f[d]
  BY <1>0, <1>3, <1>4, TotalChange
<1>6. Total(k) = Total(h) + k[d] - h[d]
  BY <1>0, <1>3, <1>4, TotalChange
<1>7. /\ SoldAll(w) = Total(f) /\ SoldAll(w)' = Total(g)
      /\ ConsignedAll(w) = Total(h) /\ ConsignedAll(w)' = Total(k)
  BY <1>1, <1>2 DEF SoldAll, ConsignedAll
<1> QED BY <1>1, <1>2, <1>5, <1>6, <1>7

LEMMA OneRepair ==
  ASSUME FiniteDocuments, MotorcycleAssumption, RepairsOK, RepairsOK', NEW r \in Repair,
         \A s \in Repair : s # r => /\ repair'[s] = repair[s] /\ repairRow'[s] = repairRow[s]
                                    /\ planned'[s] = planned[s],
         NEW w
  PROVE  SpentAll(w)' = SpentAll(w) + Spent(r, w)' - Spent(r, w)
<1>0. IsFiniteSet(Repair)
  BY FiniteDocuments
<1>1. PICK f, g : f = [s \in Repair |-> Spent(s, w)] /\ g = [s \in Repair |-> Spent(s, w)']
  OBVIOUS
<1>3. f \in [Repair -> Nat] /\ g \in [Repair -> Nat]
  BY <1>1, RepairTerms
<1>4. \A s \in Repair : s # r => g[s] = f[s]
  BY <1>1 DEF Spent
<1>5. Total(g) = Total(f) + g[r] - f[r]
  BY <1>0, <1>3, <1>4, TotalChange
<1>7. SpentAll(w) = Total(f) /\ SpentAll(w)' = Total(g)
  BY <1>1 DEF SpentAll
<1> QED BY <1>1, <1>5, <1>7

\* Never is more held than there is, and never is there more than the bound.
Safe(w) == held[w] <= onHand[w] /\ onHand[w] <= MaxStock

LEMMA NotesMove ==
  ASSUME FiniteDocuments, MotorcycleAssumption, StockTypes, NotesOK, NotesOK', NotesNext,
         NEW w \in Warehouse, Safe(w)
  PROVE  /\ onHand'[w] = onHand[w] - (SentAll(w)' - SentAll(w)) + (CameAll(w)' - CameAll(w))
         /\ held'[w] = held[w] /\ Safe(w)'
<1>0. /\ note \in [Note -> NoteStatus] /\ noteRow \in [Note -> NoteRow \union {None}]
      /\ credited \in [Note -> Nat] /\ MaxQty \in Nat /\ \A n \in Note : NoteOK(n)
  BY MotorcycleAssumption DEF NotesOK, NotesTypeOK
<1>h. /\ onHand \in [Warehouse -> Int] /\ held \in [Warehouse -> Int]
      /\ onHand[w] \in Int /\ held[w] \in Int
  BY DEF StockTypes
<1>f. IsFiniteSet(Note)
  BY FiniteDocuments
<1>t. SentAll(w) \in Int /\ CameAll(w) \in Int
  <2>1. /\ [n \in Note |-> Sent(n, w)] \in [Note -> Nat]
        /\ [n \in Note |-> Came(n, w)] \in [Note -> Nat]
    BY NoteTerms
  <2> QED BY <1>f, <2>1, TotalNat DEF SentAll, CameAll
\* A note whose terms stay zero.
<1>1. ASSUME NEW n \in Note, UNCHANGED parts,
             \A m \in Note : m # n => /\ note'[m] = note[m] /\ noteRow'[m] = noteRow[m]
                                      /\ credited'[m] = credited[m],
             Sent(n, w) = 0, Came(n, w) = 0, Sent(n, w)' = 0, Came(n, w)' = 0
      PROVE  /\ onHand'[w] = onHand[w] - (SentAll(w)' - SentAll(w)) + (CameAll(w)' - CameAll(w))
             /\ held'[w] = held[w] /\ Safe(w)'
  <2>1. SentAll(w)' = SentAll(w) /\ CameAll(w)' = CameAll(w)
    BY <1>t, <1>1, OneNote
  <2> QED BY <1>1, <1>h, <1>t, <2>1 DEF Safe, parts
<1>2. ASSUME NEW n \in Note, NEW row, CheckNote(n, row) \/ DraftNote(n) \/ CancelNote(n)
      PROVE  /\ onHand'[w] = onHand[w] - (SentAll(w)' - SentAll(w)) + (CameAll(w)' - CameAll(w))
             /\ held'[w] = held[w] /\ Safe(w)'
  <2>1. /\ note[n] \in {"none", "checked", "draft"} /\ note'[n] \in {"checked", "draft", "cancelled"}
        /\ UNCHANGED <<credited, parts>>
        /\ \A m \in Note : m # n => note'[m] = note[m] /\ noteRow'[m] = noteRow[m]
    BY <1>0, <1>2 DEF CheckNote, DraftNote, CancelNote
  <2>2. credited[n] = 0 /\ credited'[n] = 0
    BY <1>0, <2>1 DEF NoteOK
  <2>3. Sent(n, w) = 0 /\ Came(n, w) = 0 /\ Sent(n, w)' = 0 /\ Came(n, w)' = 0
    BY <2>1, <2>2 DEF Sent, Came
  <2> QED BY <1>1, <2>1, <2>3
<1>3. ASSUME NEW n \in Note, Dispatch(n)
      PROVE  /\ onHand'[w] = onHand[w] - (SentAll(w)' - SentAll(w)) + (CameAll(w)' - CameAll(w))
             /\ held'[w] = held[w] /\ Safe(w)'
  <2>1. noteRow[n] \in NoteRow /\ credited[n] = 0
    BY <1>0, <1>3 DEF Dispatch, NoteOK
  <2>2. PICK row \in NoteRow : row = noteRow[n]
    BY <2>1
  <2>3. row.qty \in Nat /\ row.src \in Warehouse
    BY <1>0 DEF NoteRow
  <2>4. PICK q \in Nat, s \in Warehouse : q = row.qty /\ s = row.src
    BY <2>3
  <2>5. /\ note' = [note EXCEPT ![n] = "in_transit"] /\ note[n] = "draft"
        /\ UNCHANGED <<noteRow, credited, held>> /\ onHand' = [onHand EXCEPT ![s] = @ - q]
        /\ q > 0 => onHand[s] - held[s] >= q
    BY <1>3, <2>2, <2>4 DEF Dispatch, IssuePart, Available
  <2>6. \A m \in Note : m # n => note'[m] = note[m] /\ noteRow'[m] = noteRow[m] /\ credited'[m] = credited[m]
    BY <1>0, <2>5
  <2>7. Sent(n, w) = 0 /\ Came(n, w) = 0 /\ Came(n, w)' = 0 /\ Sent(n, w)' = IF w = s THEN q ELSE 0
    BY <1>0, <2>1, <2>2, <2>4, <2>5 DEF Sent, Came
  <2>8. PICK a \in Nat : a = IF w = s THEN q ELSE 0
    OBVIOUS
  <2>9. SentAll(w)' = SentAll(w) + a /\ CameAll(w)' = CameAll(w)
    BY <1>t, <2>6, <2>7, <2>8, OneNote
  <2>10. onHand'[w] = onHand[w] - a /\ held'[w] = held[w] /\ Safe(w)'
    BY <1>h, <2>5, <2>8 DEF Safe
  <2> QED BY <1>h, <1>t, <2>9, <2>10
<1>4. ASSUME NEW n \in Note, NEW got \in 0..MaxQty, NEW confirmed, ReceiveNote(n, got, confirmed)
      PROVE  /\ onHand'[w] = onHand[w] - (SentAll(w)' - SentAll(w)) + (CameAll(w)' - CameAll(w))
             /\ held'[w] = held[w] /\ Safe(w)'
  <2>1. noteRow[n] \in NoteRow /\ note[n] \in Receivable
    BY <1>0, <1>4 DEF ReceiveNote, Receivable, NoteOK
  <2>2. PICK row \in NoteRow : row = noteRow[n]
    BY <2>1
  <2>3. row.dst \in Warehouse
    BY DEF NoteRow
  <2>4. PICK q \in Nat, s \in Warehouse, c \in Nat : q = got /\ s = row.dst /\ c = credited[n]
    BY <1>0, <2>3
  <2>5. PICK now \in {"received", "partially_received"} : note' = [note EXCEPT ![n] = now]
    BY <1>4 DEF ReceiveNote, ReceiveOutcome
  <2>6. /\ UNCHANGED <<noteRow, held>> /\ onHand' = [onHand EXCEPT ![s] = @ + q]
        /\ credited' = [credited EXCEPT ![n] = @ + q] /\ onHand[s] + q <= MaxStock
    BY <1>4, <2>2, <2>4 DEF ReceiveNote
  <2>7. \A m \in Note : m # n => note'[m] = note[m] /\ noteRow'[m] = noteRow[m] /\ credited'[m] = credited[m]
    BY <1>0, <2>5, <2>6
  <2>8. PICK a \in Nat, b \in Nat, e \in Nat :
          a = (IF w = s THEN q ELSE 0) /\ b = Sent(n, w) /\ e = Came(n, w)
    BY NoteTerms
  <2>9. Sent(n, w)' = b
    BY <1>0, <2>1, <2>5, <2>6, <2>8 DEF Sent, Receivable
  <2>10. Came(n, w)' = e + a
    <3>1. note[n] # "none" /\ note'[n] # "none" /\ noteRow'[n] = row /\ credited'[n] = c + q
      BY <1>0, <2>1, <2>2, <2>4, <2>5, <2>6 DEF Receivable
    <3>2. e = IF s = w THEN c ELSE 0
      BY <2>2, <2>4, <2>8, <3>1 DEF Came
    <3>3. Came(n, w)' = IF s = w THEN c + q ELSE 0
      BY <2>4, <3>1 DEF Came
    <3> QED BY <2>8, <3>2, <3>3
  <2>11. SentAll(w)' = SentAll(w) /\ CameAll(w)' = CameAll(w) + a
    <3>1. /\ SentAll(w)' = SentAll(w) + Sent(n, w)' - Sent(n, w)
          /\ CameAll(w)' = CameAll(w) + Came(n, w)' - Came(n, w)
      BY <2>7, OneNote
    <3> QED BY <1>t, <2>8, <2>9, <2>10, <3>1
  <2>12. onHand'[w] = onHand[w] + a /\ held'[w] = held[w] /\ Safe(w)'
    BY <1>h, <2>6, <2>8, MotorcycleAssumption DEF Safe
  <2> QED BY <1>h, <1>t, <2>11, <2>12
<1> QED BY <1>2, <1>3, <1>4 DEF NotesNext

LEMMA LoansMove ==
  ASSUME FiniteDocuments, MotorcycleAssumption, StockTypes, LoansOK, LoansOK', LoansNext,
         NEW w \in Warehouse, Safe(w)
  PROVE  /\ onHand'[w] = onHand[w] - (UsedAll(w)' - UsedAll(w))
         /\ held'[w] = held[w] + (LentAll(w)' - LentAll(w)) /\ Safe(w)'
<1>0. /\ loan \in [Loan -> LoanStatus] /\ loanRow \in [Loan -> LoanRow \union {None}]
      /\ loanHold \in [Loan -> 0..MaxQty] /\ loanLost \in [Loan -> 0..MaxQty]
      /\ MaxQty \in Nat /\ \A l \in Loan : LoanOK(l)
  BY MotorcycleAssumption DEF LoansOK, LoansTypeOK
<1>h. /\ onHand \in [Warehouse -> Int] /\ held \in [Warehouse -> Int]
      /\ onHand[w] \in Int /\ held[w] \in Int
  BY DEF StockTypes
<1>f. IsFiniteSet(Loan)
  BY FiniteDocuments
<1>t. UsedAll(w) \in Int /\ LentAll(w) \in Int
  <2>1. /\ [l \in Loan |-> Used(l, w)] \in [Loan -> Nat]
        /\ [l \in Loan |-> Lent(l, w)] \in [Loan -> Nat]
    BY LoanTerms
  <2> QED BY <1>f, <2>1, TotalNat DEF UsedAll, LentAll
\* What a loan uses up leaves the location, what it lends is held there.
<1>1. ASSUME NEW l \in Loan, NEW gone \in Int, NEW kept \in Int,
             \A m \in Loan : m # l => /\ loan'[m] = loan[m] /\ loanRow'[m] = loanRow[m]
                                      /\ loanHold'[m] = loanHold[m] /\ loanLost'[m] = loanLost[m],
             Used(l, w)' = Used(l, w) + gone, Lent(l, w)' = Lent(l, w) + kept,
             onHand'[w] = onHand[w] - gone, held'[w] = held[w] + kept, Safe(w)'
      PROVE  /\ onHand'[w] = onHand[w] - (UsedAll(w)' - UsedAll(w))
             /\ held'[w] = held[w] + (LentAll(w)' - LentAll(w)) /\ Safe(w)'
  <2>1. Used(l, w) \in Int /\ Lent(l, w) \in Int
    BY LoanTerms
  <2>2. /\ UsedAll(w)' = UsedAll(w) + Used(l, w)' - Used(l, w)
        /\ LentAll(w)' = LentAll(w) + Lent(l, w)' - Lent(l, w)
    BY <1>1, OneLoan
  <2>3. UsedAll(w)' = UsedAll(w) + gone /\ LentAll(w)' = LentAll(w) + kept
    BY <1>1, <1>t, <2>1, <2>2
  <2> QED BY <1>1, <1>h, <1>t, <2>3
<1>2. ASSUME NEW l \in Loan, NEW row, CreateLoan(l, row) \/ CancelLoan(l)
      PROVE  /\ onHand'[w] = onHand[w] - (UsedAll(w)' - UsedAll(w))
             /\ held'[w] = held[w] + (LentAll(w)' - LentAll(w)) /\ Safe(w)'
  <2>1. /\ loan[l] \in {"none", "draft"} /\ loan'[l] \in {"draft", "cancelled"}
        /\ UNCHANGED <<loanHold, loanLost, parts>>
        /\ \A m \in Loan : m # l => loan'[m] = loan[m] /\ loanRow'[m] = loanRow[m]
    BY <1>0, <1>2 DEF CreateLoan, CancelLoan
  <2>2. Used(l, w) = 0 /\ Lent(l, w) = 0 /\ Used(l, w)' = 0 /\ Lent(l, w)' = 0
    BY <2>1 DEF Used, Lent, IssuedAt, OpenLoan
  <2>3. onHand'[w] = onHand[w] - 0 /\ held'[w] = held[w] + 0 /\ Safe(w)'
    BY <1>h, <2>1 DEF Safe, parts
  <2> QED BY <1>1, <2>1, <2>2, <2>3
<1>3. ASSUME NEW l \in Loan, IssueLoan(l)
      PROVE  /\ onHand'[w] = onHand[w] - (UsedAll(w)' - UsedAll(w))
             /\ held'[w] = held[w] + (LentAll(w)' - LentAll(w)) /\ Safe(w)'
  <2>1. loanRow[l] \in LoanRow /\ loan[l] = "draft" /\ loanHold[l] = 0 /\ loanLost[l] = 0
    BY <1>0, <1>3 DEF IssueLoan, LoanOK, OpenLoan
  <2>2. PICK row \in LoanRow : row = loanRow[l]
    BY <2>1
  <2>c. PICK c \in BOOLEAN : c = (row.kind = "consumable")
    OBVIOUS
  <2>3. PICK q \in Nat, s \in Warehouse : q = row.qty /\ s = row.at
    BY <1>0 DEF LoanRow
  <2>4. PICK h : h = IF c THEN 0 ELSE q
    OBVIOUS
  <2>5. /\ loan' = [loan EXCEPT ![l] = "out_on_loan"] /\ loanHold' = [loanHold EXCEPT ![l] = h]
        /\ UNCHANGED <<loanRow, loanLost>>
    BY <1>3, <2>2, <2>c, <2>3, <2>4 DEF IssueLoan
  <2>6. \A m \in Loan : m # l => /\ loan'[m] = loan[m] /\ loanRow'[m] = loanRow[m]
                                 /\ loanHold'[m] = loanHold[m] /\ loanLost'[m] = loanLost[m]
    BY <1>0, <2>5
  <2>7. Used(l, w) = 0 /\ Lent(l, w) = 0
    BY <2>1 DEF Used, Lent, IssuedAt, OpenLoan
  <2>8. loan'[l] = "out_on_loan" /\ loanRow'[l] = row /\ loanHold'[l] = h /\ loanLost'[l] = 0
    BY <1>0, <2>1, <2>2, <2>5
  <2>i. IssuedAt(l, w)' = (w = s)
    BY <2>3, <2>8 DEF IssuedAt, OpenLoan
  <2>9. /\ Used(l, w)' = IF w = s /\ c THEN q ELSE 0
        /\ Lent(l, w)' = IF w = s THEN h ELSE 0
    <3>1. CASE w = s
      <4>1. Used(l, w)' = 0 + IF c THEN q ELSE 0
        BY <2>c, <2>3, <2>8, <2>i, <3>1 DEF Used
      <4>2. Lent(l, w)' = h
        BY <2>8, <2>i, <3>1 DEF Lent
      <4> QED BY <3>1, <4>1, <4>2
    <3>2. CASE w # s
      <4>1. Used(l, w)' = 0 /\ Lent(l, w)' = 0
        BY <2>i, <3>2 DEF Used, Lent
      <4> QED BY <3>2, <4>1
    <3> QED BY <3>1, <3>2
  <2>10. CASE c
    <3>1. onHand' = [onHand EXCEPT ![s] = @ - q] /\ UNCHANGED held /\ (q > 0 => onHand[s] - held[s] >= q)
      BY <1>3, <2>2, <2>c, <2>3, <2>10 DEF IssueLoan, IssuePart, Available
    <3>2. PICK a \in Int : a = IF w = s THEN q ELSE 0
      OBVIOUS
    <3>3. Used(l, w)' = Used(l, w) + a /\ Lent(l, w)' = Lent(l, w) + 0
      BY <2>4, <2>7, <2>9, <2>10, <3>2
    <3>4. onHand'[w] = onHand[w] - a /\ held'[w] = held[w] + 0 /\ Safe(w)'
      BY <1>h, <3>1, <3>2 DEF Safe
    <3> QED BY <1>1, <2>6, <3>3, <3>4
  <2>11. CASE ~c
    <3>1. held' = [held EXCEPT ![s] = @ + q] /\ UNCHANGED onHand /\ onHand[s] - held[s] >= q
      BY <1>3, <2>2, <2>c, <2>3, <2>11 DEF IssueLoan, HoldPart, Available
    <3>2. PICK a \in Int : a = IF w = s THEN q ELSE 0
      OBVIOUS
    <3>3. Used(l, w)' = Used(l, w) + 0 /\ Lent(l, w)' = Lent(l, w) + a
      BY <2>4, <2>7, <2>9, <2>11, <3>2
    <3>4. onHand'[w] = onHand[w] - 0 /\ held'[w] = held[w] + a /\ Safe(w)'
      BY <1>h, <3>1, <3>2 DEF Safe
    <3> QED BY <1>1, <2>6, <3>3, <3>4
  <2> QED BY <2>10, <2>11
<1>4. ASSUME NEW l \in Loan, NEW back, NEW bad, NEW settles \in BOOLEAN, NEW missing \in 0..MaxQty,
             ReturnLoan(l, back, bad, settles, missing)
      PROVE  /\ onHand'[w] = onHand[w] - (UsedAll(w)' - UsedAll(w))
             /\ held'[w] = held[w] + (LentAll(w)' - LentAll(w)) /\ Safe(w)'
  <2>1. loan[l] \in OpenLoan /\ loanRow[l] \in LoanRow /\ (loanHold[l] > 0 => loanLost[l] = 0)
    BY <1>0, <1>4 DEF ReturnLoan, LoanOK, OpenLoan
  <2>2. PICK row \in LoanRow : row = loanRow[l]
    BY <2>1
  <2>3. PICK s \in Warehouse, h \in Nat, x \in Nat, y \in Nat :
          s = row.at /\ h = loanHold[l] /\ x = missing /\ y = loanLost[l]
    BY <1>0 DEF LoanRow
  <2>4. PICK now \in {"returned", "partially_returned"} : loan' = [loan EXCEPT ![l] = now]
    BY <1>4 DEF ReturnLoan, LoanOutcome
  <2>5. PICK q \in Nat : q = IF row.kind = "consumable" THEN row.qty ELSE 0
    BY <1>0 DEF LoanRow
  <2>6. UNCHANGED loanRow /\ x <= h
    BY <1>4, <2>3 DEF ReturnLoan
  <2>7. Used(l, w) = (IF s = w THEN y + q ELSE 0) /\ Lent(l, w) = (IF s = w THEN h ELSE 0)
    BY <2>1, <2>2, <2>3, <2>5 DEF Used, Lent, IssuedAt
  <2>8. CASE settles /\ h > 0
    <3>1. /\ loanHold' = [loanHold EXCEPT ![l] = 0] /\ loanLost' = [loanLost EXCEPT ![l] = x]
          /\ EndHold(s, x, h - x)
      BY <1>4, <2>2, <2>3, <2>8 DEF ReturnLoan, SettlePartReturn
    <3>2. \A m \in Loan : m # l => /\ loan'[m] = loan[m] /\ loanRow'[m] = loanRow[m]
                                   /\ loanHold'[m] = loanHold[m] /\ loanLost'[m] = loanLost[m]
      BY <1>0, <2>4, <2>6, <3>1
    <3>3. loan'[l] = now /\ loanRow'[l] = row /\ loanHold'[l] = 0 /\ loanLost'[l] = x /\ y = 0
      BY <1>0, <2>1, <2>2, <2>3, <2>4, <2>6, <2>8, <3>1
    <3>4. Used(l, w)' = (IF s = w THEN x + q ELSE 0) /\ Lent(l, w)' = 0
      <4>1. IssuedAt(l, w)' = (s = w)
        BY <2>3, <2>4, <3>3 DEF IssuedAt, OpenLoan
      <4>2. CASE s = w
        <5>1. Used(l, w)' = x + q
          BY <2>5, <3>3, <4>1, <4>2 DEF Used
        <5>2. Lent(l, w)' = 0
          BY <3>3, <4>1, <4>2 DEF Lent
        <5> QED BY <4>2, <5>1, <5>2
      <4>3. CASE s # w
        BY <4>1, <4>3 DEF Used, Lent
      <4> QED BY <4>2, <4>3
    <3>5. PICK a \in Int, b \in Int : a = (IF s = w THEN x ELSE 0) /\ b = (IF s = w THEN 0 - h ELSE 0)
      OBVIOUS
    <3>6. Used(l, w)' = Used(l, w) + a /\ Lent(l, w)' = Lent(l, w) + b
      BY <2>7, <3>3, <3>4, <3>5
    <3>7. onHand'[w] = onHand[w] - a /\ held'[w] = held[w] + b /\ Safe(w)'
      BY <1>h, <2>6, <3>1, <3>5 DEF Safe, EndHold
    <3> QED BY <1>1, <3>2, <3>6, <3>7
  <2>9. CASE ~(settles /\ h > 0)
    <3>1. UNCHANGED <<onHand, held>>
      BY <1>4, <2>3, <2>9 DEF ReturnLoan, parts
    <3>2. loanHold' = [loanHold EXCEPT ![l] = h] /\ loanLost' = [loanLost EXCEPT ![l] = y]
      BY <1>4, <2>3, <2>9 DEF ReturnLoan
    <3>3. \A m \in Loan : m # l => /\ loan'[m] = loan[m] /\ loanRow'[m] = loanRow[m]
                                   /\ loanHold'[m] = loanHold[m] /\ loanLost'[m] = loanLost[m]
      BY <1>0, <2>4, <2>6, <3>2
    <3>4. loan'[l] = now /\ loanRow'[l] = row /\ loanHold'[l] = h /\ loanLost'[l] = y
      BY <1>0, <2>2, <2>3, <2>4, <2>6, <3>2
    <3>5. Used(l, w)' = (IF s = w THEN y + q ELSE 0) /\ Lent(l, w)' = (IF s = w THEN h ELSE 0)
      <4>1. IssuedAt(l, w)' = (s = w)
        BY <2>3, <2>4, <3>4 DEF IssuedAt, OpenLoan
      <4>2. CASE s = w
        <5>1. Used(l, w)' = y + q
          BY <2>5, <3>4, <4>1, <4>2 DEF Used
        <5>2. Lent(l, w)' = h
          BY <3>4, <4>1, <4>2 DEF Lent
        <5> QED BY <4>2, <5>1, <5>2
      <4>3. CASE s # w
        BY <4>1, <4>3 DEF Used, Lent
      <4> QED BY <4>2, <4>3
    <3>6. Used(l, w)' = Used(l, w) + 0 /\ Lent(l, w)' = Lent(l, w) + 0
      BY <2>7, <3>5
    <3>7. onHand'[w] = onHand[w] - 0 /\ held'[w] = held[w] + 0 /\ Safe(w)'
      BY <1>h, <3>1 DEF Safe
    <3> QED BY <1>1, <3>3, <3>6, <3>7
  <2> QED BY <2>8, <2>9
<1> QED BY <1>2, <1>3, <1>4 DEF LoansNext

LEMMA ParcelsMove ==
  ASSUME FiniteDocuments, MotorcycleAssumption, StockTypes, ParcelsOK, ParcelsOK', ParcelsNext,
         NEW w \in Warehouse, Safe(w)
  PROVE  /\ onHand'[w] = onHand[w] - (SoldAll(w)' - SoldAll(w))
         /\ held'[w] = held[w] + (ConsignedAll(w)' - ConsignedAll(w)) /\ Safe(w)'
<1>0. /\ parcel \in [Parcel -> ParcelStatus] /\ parcelRow \in [Parcel -> ParcelRow \union {None}]
      /\ parcelPart \in [Parcel -> PartLine] /\ \A d \in Parcel : ParcelOK(d)
      /\ MaxQty \in Nat /\ \A d \in Parcel : ParcelOK(d)'
  BY MotorcycleAssumption DEF ParcelsOK, ParcelsTypeOK
<1>h. /\ onHand \in [Warehouse -> Int] /\ held \in [Warehouse -> Int]
      /\ onHand[w] \in Int /\ held[w] \in Int
  BY DEF StockTypes
<1>f. IsFiniteSet(Parcel)
  BY FiniteDocuments
<1>t. SoldAll(w) \in Int /\ ConsignedAll(w) \in Int
  <2>1. /\ [d \in Parcel |-> Sold(d, w)] \in [Parcel -> Nat]
        /\ [d \in Parcel |-> Consigned(d, w)] \in [Parcel -> Nat]
    BY ParcelTerms
  <2> QED BY <1>f, <2>1, TotalNat DEF SoldAll, ConsignedAll
\* What a consignment sells leaves the location, what is out is held there.
<1>1. ASSUME NEW d \in Parcel, NEW gone \in Int, NEW kept \in Int,
             \A e \in Parcel : e # d => /\ parcel'[e] = parcel[e] /\ parcelRow'[e] = parcelRow[e]
                                        /\ parcelPart'[e] = parcelPart[e],
             Sold(d, w)' = Sold(d, w) + gone, Consigned(d, w)' = Consigned(d, w) + kept,
             onHand'[w] = onHand[w] - gone, held'[w] = held[w] + kept, Safe(w)'
      PROVE  /\ onHand'[w] = onHand[w] - (SoldAll(w)' - SoldAll(w))
             /\ held'[w] = held[w] + (ConsignedAll(w)' - ConsignedAll(w)) /\ Safe(w)'
  <2>1. Sold(d, w) \in Int /\ Consigned(d, w) \in Int
    BY ParcelTerms
  <2>2. /\ SoldAll(w)' = SoldAll(w) + Sold(d, w)' - Sold(d, w)
        /\ ConsignedAll(w)' = ConsignedAll(w) + Consigned(d, w)' - Consigned(d, w)
    BY <1>1, OneParcel
  <2>3. SoldAll(w)' = SoldAll(w) + gone /\ ConsignedAll(w)' = ConsignedAll(w) + kept
    BY <1>1, <1>t, <2>1, <2>2
  <2> QED BY <1>1, <1>h, <1>t, <2>3
<1>2. ASSUME NEW d \in Parcel, NEW i, NEW c, NEW row, NEW o,
             CreateSaleDelivery(d, i, c) \/ CreateConsignment(d, row) \/ HandOut(d, o) \/ CancelParcel(d)
      PROVE  /\ onHand'[w] = onHand[w] - (SoldAll(w)' - SoldAll(w))
             /\ held'[w] = held[w] + (ConsignedAll(w)' - ConsignedAll(w)) /\ Safe(w)'
  <2>1. /\ parcel[d] \in {"none", "draft"} /\ parcel'[d] \in {"draft", "delivered", "cancelled"}
        /\ UNCHANGED <<parcelPart, parts>>
        /\ \A e \in Parcel : e # d => parcel'[e] = parcel[e] /\ parcelRow'[e] = parcelRow[e]
    BY <1>0, <1>2 DEF CreateSaleDelivery, CreateConsignment, HandOut, CancelParcel
  <2>2. parcelPart[d].settled = 0 /\ parcelPart'[d].settled = 0
    BY <1>0, <2>1 DEF ParcelOK
  <2>3. Sold(d, w) = 0 /\ Sold(d, w)' = 0
    BY <2>2 DEF Sold
  <2>4. Consigned(d, w) = 0 /\ Consigned(d, w)' = 0
    BY <2>1 DEF Consigned, OpenConsignment
  <2>5. onHand'[w] = onHand[w] - 0 /\ held'[w] = held[w] + 0 /\ Safe(w)'
    BY <1>h, <2>1 DEF Safe, parts
  <2> QED BY <1>1, <2>1, <2>3, <2>4, <2>5
<1>3. ASSUME NEW d \in Parcel, Consign(d)
      PROVE  /\ onHand'[w] = onHand[w] - (SoldAll(w)' - SoldAll(w))
             /\ held'[w] = held[w] + (ConsignedAll(w)' - ConsignedAll(w)) /\ Safe(w)'
  <2>1. parcelRow[d] \in ParcelRow /\ parcel[d] = "draft"
        /\ parcelPart[d].settled = 0 /\ parcelPart[d].returned = 0
    BY <1>0, <1>3 DEF Consign, ParcelOK
  <2>2. PICK row \in ParcelRow : row = parcelRow[d]
    BY <2>1
  <2>3. PICK q \in Nat, s \in Warehouse : q = row.qty /\ s = row.at
    BY <1>0 DEF ParcelRow
  <2>4. /\ parcel' = [parcel EXCEPT ![d] = "out_at_reseller"] /\ UNCHANGED <<parcelRow, parcelPart>>
        /\ held' = [held EXCEPT ![s] = @ + q] /\ UNCHANGED onHand /\ onHand[s] - held[s] >= q
    BY <1>3, <2>2, <2>3 DEF Consign, HoldPart, Available
  <2>5. \A e \in Parcel : e # d => /\ parcel'[e] = parcel[e] /\ parcelRow'[e] = parcelRow[e]
                                   /\ parcelPart'[e] = parcelPart[e]
    BY <1>0, <2>4
  <2>6. Sold(d, w) = 0 /\ Sold(d, w)' = 0 /\ Consigned(d, w) = 0
    BY <2>1, <2>4 DEF Sold, Consigned, OpenConsignment
  <2>7. parcel'[d] = "out_at_reseller" /\ parcelRow'[d] = row /\ PartOut(d)' = q
    BY <1>0, <2>1, <2>2, <2>3, <2>4 DEF PartOut
  <2>8. PICK a \in Int : a = IF s = w THEN q ELSE 0
    OBVIOUS
  <2>9. Consigned(d, w)' = a
    BY <2>3, <2>7, <2>8 DEF Consigned, ParcelAt, OpenConsignment
  <2>10. onHand'[w] = onHand[w] - 0 /\ held'[w] = held[w] + a /\ Safe(w)'
    BY <1>h, <2>4, <2>8 DEF Safe
  <2> QED BY <1>1, <2>5, <2>6, <2>9, <2>10
<1>4. ASSUME NEW d \in Parcel, NEW sold \in SUBSET Unit, NEW back \in SUBSET Unit,
             NEW settled \in 0..MaxQty, NEW returned \in 0..MaxQty, NEW sale \in [sold -> Invoice],
             Settle(d, sale, back, settled, returned)
      PROVE  /\ onHand'[w] = onHand[w] - (SoldAll(w)' - SoldAll(w))
             /\ held'[w] = held[w] + (ConsignedAll(w)' - ConsignedAll(w)) /\ Safe(w)'
  <2>0. parcel[d] \in OpenConsignment /\ parcel[d] # "none"
    BY <1>4 DEF Settle, OpenConsignment
  <2>1. PICK row \in ParcelRow : row = parcelRow[d]
    BY <1>0, <2>0 DEF ParcelOK
  <2>2. PICK s, r : s = SettledNow(d, settled) /\ r = ReturnedNow(d, settled, returned)
    OBVIOUS
  <2>3. s \in Nat /\ r \in Nat /\ PartOut(d) \in Nat /\ s + r <= PartOut(d)
    BY <2>0, <2>2, SettleAmounts
  <2>4. PICK q \in Nat, at \in Warehouse, x \in Nat, y \in Nat :
          q = row.qty /\ at = row.at /\ x = parcelPart[d].settled /\ y = parcelPart[d].returned
    BY <1>0 DEF ParcelRow, PartLine
  <2>5. PICK line : line = [settled |-> x + s, returned |-> y + r]
    OBVIOUS
  <2>6. /\ EndHold(at, s, r) /\ UNCHANGED parcelRow
        /\ parcelPart' = [parcelPart EXCEPT ![d] = line]
    BY <1>0, <1>4, <2>1, <2>2, <2>4, <2>5 DEF Settle, SettledNow, ReturnedNow
  <2>7. PICK out, S1 : /\ S1 = soldUnits'[d] /\ out = row.units \ (soldUnits'[d] \union backUnits'[d])
    OBVIOUS
  <2>8. PICK now : now = ReconcileOutcome(S1, out, line, q)
    OBVIOUS
  <2>9. parcel' = [parcel EXCEPT ![d] = now]
    <3>1. parcelPart'[d] = line
      BY <1>0, <2>6
    <3> QED BY <1>4, <2>1, <2>4, <2>7, <2>8, <3>1 DEF Settle
  <2>10. /\ now \in {"partially_settled", "settled", "returned"}
         /\ now # "partially_settled" => (x + s) + (y + r) >= q
    BY <2>3, <2>4, <2>5, <2>8 DEF ReconcileOutcome
  <2>11. \A e \in Parcel : e # d => /\ parcel'[e] = parcel[e] /\ parcelRow'[e] = parcelRow[e]
                                    /\ parcelPart'[e] = parcelPart[e]
    BY <1>0, <2>6, <2>9
  <2>12. parcel'[d] = now /\ parcelRow'[d] = row /\ parcelPart'[d] = line /\ parcelRow[d] = row
    BY <1>0, <2>1, <2>6, <2>9
  <2>13. PICK p \in Nat : p = PartOut(d) /\ p = q - x - y
    BY <2>1, <2>3, <2>4 DEF PartOut
  <2>14. PartOut(d)' = p - s - r
    <3>1. line.settled = x + s /\ line.returned = y + r
      BY <2>5
    <3> QED BY <2>3, <2>4, <2>12, <2>13, <3>1 DEF PartOut
  <2>15. Sold(d, w) = (IF at = w THEN x ELSE 0) /\ Consigned(d, w) = (IF at = w THEN p ELSE 0)
    BY <2>0, <2>4, <2>12, <2>13 DEF Sold, Consigned, ParcelAt
  <2>16. Sold(d, w)' = (IF at = w THEN x + s ELSE 0)
    BY <2>4, <2>5, <2>10, <2>12 DEF Sold, ParcelAt
  <2>17. Consigned(d, w)' = (IF at = w THEN p - s - r ELSE 0)
    <3>1. CASE now = "partially_settled"
      BY <2>4, <2>12, <2>14, <3>1 DEF Consigned, ParcelAt, OpenConsignment
    <3>2. CASE now # "partially_settled"
      <4>1. Consigned(d, w)' = 0
        BY <2>10, <2>12, <3>2 DEF Consigned, OpenConsignment
      <4>2. p - s - r = 0
        BY <2>3, <2>10, <2>13, <3>2
      <4> QED BY <4>1, <4>2
    <3> QED BY <3>1, <3>2
  <2>18. PICK a \in Int, b \in Int :
           a = (IF at = w THEN s ELSE 0) /\ b = (IF at = w THEN 0 - s - r ELSE 0)
    <3>1. s \in Int /\ 0 - s - r \in Int
      BY <2>3
    <3> QED BY <3>1
  <2>19. Sold(d, w)' = Sold(d, w) + a /\ Consigned(d, w)' = Consigned(d, w) + b
    BY <2>3, <2>15, <2>16, <2>17, <2>18
  <2>20. onHand'[w] = onHand[w] - a /\ held'[w] = held[w] + b /\ Safe(w)'
    BY <1>h, <2>3, <2>6, <2>18 DEF Safe, EndHold
  <2> QED BY <1>1, <2>11, <2>19, <2>20
<1> QED BY <1>2, <1>3, <1>4 DEF ParcelsNext

LEMMA RepairsMove ==
  ASSUME FiniteDocuments, MotorcycleAssumption, StockTypes, RepairsOK, RepairsOK', RepairsNext,
         NEW w \in Warehouse, Safe(w)
  PROVE  /\ onHand'[w] = onHand[w] - (SpentAll(w)' - SpentAll(w))
         /\ held'[w] = held[w] /\ Safe(w)'
<1>0. /\ repair \in [Repair -> ActiveRepair \union {"none", "resolved"}]
      /\ repairRow \in [Repair -> RepairRow \union {None}]
      /\ planned \in [Repair -> 0..MaxQty] /\ \A r \in Repair : RepairOK(r)
      /\ MaxQty \in Nat
  BY MotorcycleAssumption DEF RepairsOK, RepairsTypeOK
<1>h. /\ onHand \in [Warehouse -> Int] /\ held \in [Warehouse -> Int]
      /\ onHand[w] \in Int /\ held[w] \in Int
  BY DEF StockTypes
<1>f. IsFiniteSet(Repair)
  BY FiniteDocuments
<1>t. SpentAll(w) \in Int
  <2>1. [r \in Repair |-> Spent(r, w)] \in [Repair -> Nat]
    BY RepairTerms
  <2> QED BY <1>f, <2>1, TotalNat DEF SpentAll
<1>1. ASSUME NEW r \in Repair, NEW gone \in Int,
             \A s \in Repair : s # r => /\ repair'[s] = repair[s] /\ repairRow'[s] = repairRow[s]
                                        /\ planned'[s] = planned[s],
             Spent(r, w) = 0, Spent(r, w)' = gone,
             onHand'[w] = onHand[w] - gone, held'[w] = held[w], Safe(w)'
      PROVE  /\ onHand'[w] = onHand[w] - (SpentAll(w)' - SpentAll(w))
             /\ held'[w] = held[w] /\ Safe(w)'
  <2>1. SpentAll(w)' = SpentAll(w) + Spent(r, w)' - Spent(r, w)
    BY <1>1, OneRepair
  <2>2. SpentAll(w)' = SpentAll(w) + gone
    BY <1>1, <1>t, <2>1
  <2> QED BY <1>1, <1>h, <1>t, <2>2
<1>2. ASSUME NEW r \in Repair, NEW u, NEW x, NEW q,
             OpenRepair(r, u, x, q) \/ PlanParts(r, q) \/ StartRepair(r)
      PROVE  /\ onHand'[w] = onHand[w] - (SpentAll(w)' - SpentAll(w))
             /\ held'[w] = held[w] /\ Safe(w)'
  <2>1. /\ repair[r] # "resolved" /\ repair'[r] # "resolved" /\ UNCHANGED parts
        /\ \A s \in Repair : s # r => /\ repair'[s] = repair[s] /\ repairRow'[s] = repairRow[s]
                                      /\ planned'[s] = planned[s]
    BY <1>0, <1>2 DEF OpenRepair, PlanParts, StartRepair, ActiveRepair
  <2>2. Spent(r, w) = 0 /\ Spent(r, w)' = 0
    BY <2>1 DEF Spent
  <2>3. onHand'[w] = onHand[w] - 0 /\ held'[w] = held[w] /\ Safe(w)'
    BY <1>h, <2>1 DEF Safe, parts
  <2> QED BY <1>1, <2>1, <2>2, <2>3
<1>3. ASSUME NEW r \in Repair, ResolveRepair(r)
      PROVE  /\ onHand'[w] = onHand[w] - (SpentAll(w)' - SpentAll(w))
             /\ held'[w] = held[w] /\ Safe(w)'
  <2>1. PICK row \in RepairRow : row = repairRow[r] /\ repair[r] \in ActiveRepair
    BY <1>0, <1>3 DEF ResolveRepair, ActiveRepair, RepairOK
  <2>2. PICK q \in Nat, s \in Warehouse : q = planned[r] /\ s = row.at
    BY <1>0 DEF RepairRow
  <2>3. /\ repair' = [repair EXCEPT ![r] = "resolved"] /\ UNCHANGED <<repairRow, planned, held>>
        /\ onHand' = [onHand EXCEPT ![s] = @ - q] /\ (q > 0 => onHand[s] - held[s] >= q)
    BY <1>3, <2>1, <2>2 DEF ResolveRepair, IssuePart, Available
  <2>4. \A m \in Repair : m # r => /\ repair'[m] = repair[m] /\ repairRow'[m] = repairRow[m]
                                   /\ planned'[m] = planned[m]
    BY <1>0, <2>3
  <2>5. PICK a \in Int : a = IF s = w THEN q ELSE 0
    OBVIOUS
  <2>6. Spent(r, w) = 0 /\ Spent(r, w)' = a
    BY <1>0, <2>1, <2>2, <2>3, <2>5 DEF Spent, ActiveRepair
  <2>7. onHand'[w] = onHand[w] - a /\ held'[w] = held[w] /\ Safe(w)'
    BY <1>h, <2>3, <2>5 DEF Safe
  <2> QED BY <1>1, <2>4, <2>6, <2>7
<1> QED BY <1>2, <1>3 DEF RepairsNext

\* The sums over documents that a step leaves alone.
LEMMA SumsKept ==
  ASSUME NEW w
  PROVE  /\ UNCHANGED notes => SentAll(w)' = SentAll(w) /\ CameAll(w)' = CameAll(w)
         /\ UNCHANGED loans => UsedAll(w)' = UsedAll(w) /\ LentAll(w)' = LentAll(w)
         /\ UNCHANGED parcels => SoldAll(w)' = SoldAll(w) /\ ConsignedAll(w)' = ConsignedAll(w)
         /\ UNCHANGED repairs => SpentAll(w)' = SpentAll(w)
<1>1. ASSUME UNCHANGED notes PROVE SentAll(w)' = SentAll(w) /\ CameAll(w)' = CameAll(w)
  BY <1>1 DEF SentAll, CameAll, Sent, Came, notes
<1>2. ASSUME UNCHANGED loans PROVE UsedAll(w)' = UsedAll(w) /\ LentAll(w)' = LentAll(w)
  BY <1>2 DEF UsedAll, LentAll, Used, Lent, IssuedAt, loans
<1>3. ASSUME UNCHANGED parcels PROVE SoldAll(w)' = SoldAll(w) /\ ConsignedAll(w)' = ConsignedAll(w)
  BY <1>3 DEF SoldAll, ConsignedAll, Sold, Consigned, ParcelAt, PartOut, parcels
<1>4. ASSUME UNCHANGED repairs PROVE SpentAll(w)' = SpentAll(w)
  BY <1>4 DEF SpentAll, Spent, repairs
<1> QED BY <1>1, <1>2, <1>3, <1>4

\* The seven sums at a location are numbers.
SumsTyped(w) ==
  /\ SentAll(w) \in Nat /\ CameAll(w) \in Nat /\ UsedAll(w) \in Nat /\ LentAll(w) \in Nat
  /\ SoldAll(w) \in Nat /\ ConsignedAll(w) \in Nat /\ SpentAll(w) \in Nat

LEMMA SumsAreTyped ==
  ASSUME FiniteDocuments, MotorcycleAssumption, DocumentsOK, NEW w
  PROVE  SumsTyped(w)
BY AllTyped DEF DocumentsOK, SumsTyped

LEMMA SumsAreTypedNext ==
  ASSUME FiniteDocuments, MotorcycleAssumption, DocumentsOK', NEW w
  PROVE  SumsTyped(w)'
<1>0. IsFiniteSet(Note) /\ IsFiniteSet(Loan) /\ IsFiniteSet(Parcel) /\ IsFiniteSet(Repair)
  BY FiniteDocuments
<1>1. PICK f, g : f = [n \in Note |-> Sent(n, w)'] /\ g = [n \in Note |-> Came(n, w)']
  OBVIOUS
<1>2. PICK h, k : h = [l \in Loan |-> Used(l, w)'] /\ k = [l \in Loan |-> Lent(l, w)']
  OBVIOUS
<1>3. PICK p, q : p = [d \in Parcel |-> Sold(d, w)'] /\ q = [d \in Parcel |-> Consigned(d, w)']
  OBVIOUS
<1>4. PICK r : r = [x \in Repair |-> Spent(x, w)']
  OBVIOUS
<1>5. f \in [Note -> Nat] /\ g \in [Note -> Nat]
  BY <1>1, NoteTerms DEF DocumentsOK
<1>6. h \in [Loan -> Nat] /\ k \in [Loan -> Nat]
  BY <1>2, LoanTerms DEF DocumentsOK
<1>7. p \in [Parcel -> Nat] /\ q \in [Parcel -> Nat]
  BY <1>3, ParcelTerms DEF DocumentsOK
<1>8. r \in [Repair -> Nat]
  BY <1>4, RepairTerms DEF DocumentsOK
<1>9. /\ Total(f) \in Nat /\ Total(g) \in Nat /\ Total(h) \in Nat /\ Total(k) \in Nat
      /\ Total(p) \in Nat /\ Total(q) \in Nat /\ Total(r) \in Nat
  BY <1>0, <1>5, <1>6, <1>7, <1>8, TotalNat
<1>10. SentAll(w)' = Total(f) /\ CameAll(w)' = Total(g) /\ UsedAll(w)' = Total(h) /\ LentAll(w)' = Total(k)
  BY <1>1, <1>2 DEF SentAll, CameAll, UsedAll, LentAll
<1>11. SoldAll(w)' = Total(p) /\ ConsignedAll(w)' = Total(q) /\ SpentAll(w)' = Total(r)
  BY <1>3, <1>4 DEF SoldAll, ConsignedAll, SpentAll
<1> QED BY <1>9, <1>10, <1>11 DEF SumsTyped

LEMMA GoneIs ==
  ASSUME NEW w
  PROVE  /\ Gone(w) = SentAll(w) - CameAll(w) + UsedAll(w) + SoldAll(w) + SpentAll(w)
         /\ Kept(w) = LentAll(w) + ConsignedAll(w)
         /\ Gone(w)' = SentAll(w)' - CameAll(w)' + UsedAll(w)' + SoldAll(w)' + SpentAll(w)'
         /\ Kept(w)' = LentAll(w)' + ConsignedAll(w)'
BY DEF Gone, Kept, SentAll, CameAll, UsedAll, SoldAll, SpentAll, LentAll, ConsignedAll

\* What each document books is what it explains.
Moved(w) ==
  /\ onHand'[w] = onHand[w] - (Gone(w)' - Gone(w))
  /\ held'[w] = held[w] + (Kept(w)' - Kept(w))
  /\ Safe(w)'

LEMMA StockMoves ==
  ASSUME FiniteDocuments, MotorcycleAssumption, StockTypes, DocumentsOK, DocumentsOK', NEW w \in Warehouse,
         Safe(w), Next
  PROVE  Moved(w)
<1>0. /\ onHand[w] \in Int /\ held[w] \in Int /\ SumsTyped(w) /\ SumsTyped(w)'
  BY SumsAreTyped, SumsAreTypedNext DEF StockTypes
<1>n. CASE NotesNext /\ UNCHANGED <<loans, parcels, repairs>>
  <2>1. /\ onHand'[w] = onHand[w] - (SentAll(w)' - SentAll(w)) + (CameAll(w)' - CameAll(w))
        /\ held'[w] = held[w] /\ Safe(w)'
    BY <1>n, NotesMove DEF DocumentsOK
  <2>2. /\ UsedAll(w)' = UsedAll(w) /\ LentAll(w)' = LentAll(w)
        /\ SoldAll(w)' = SoldAll(w) /\ ConsignedAll(w)' = ConsignedAll(w)
        /\ SpentAll(w)' = SpentAll(w)
    BY <1>n, SumsKept
  <2> QED BY <1>0, <2>1, <2>2, GoneIs DEF Moved, SumsTyped
<1>l. CASE LoansNext /\ UNCHANGED <<notes, parcels, repairs>>
  <2>1. /\ onHand'[w] = onHand[w] - (UsedAll(w)' - UsedAll(w))
        /\ held'[w] = held[w] + (LentAll(w)' - LentAll(w)) /\ Safe(w)'
    BY <1>l, LoansMove DEF DocumentsOK
  <2>2. /\ SentAll(w)' = SentAll(w) /\ CameAll(w)' = CameAll(w)
        /\ SoldAll(w)' = SoldAll(w) /\ ConsignedAll(w)' = ConsignedAll(w)
        /\ SpentAll(w)' = SpentAll(w)
    BY <1>l, SumsKept
  <2> QED BY <1>0, <2>1, <2>2, GoneIs DEF Moved, SumsTyped
<1>p. CASE ParcelsNext /\ UNCHANGED <<notes, loans, repairs>>
  <2>1. /\ onHand'[w] = onHand[w] - (SoldAll(w)' - SoldAll(w))
        /\ held'[w] = held[w] + (ConsignedAll(w)' - ConsignedAll(w)) /\ Safe(w)'
    BY <1>p, ParcelsMove DEF DocumentsOK
  <2>2. /\ SentAll(w)' = SentAll(w) /\ CameAll(w)' = CameAll(w)
        /\ UsedAll(w)' = UsedAll(w) /\ LentAll(w)' = LentAll(w)
        /\ SpentAll(w)' = SpentAll(w)
    BY <1>p, SumsKept
  <2> QED BY <1>0, <2>1, <2>2, GoneIs DEF Moved, SumsTyped
<1>r. CASE RepairsNext /\ UNCHANGED <<notes, loans, parcels>>
  <2>1. /\ onHand'[w] = onHand[w] - (SpentAll(w)' - SpentAll(w))
        /\ held'[w] = held[w] /\ Safe(w)'
    BY <1>r, RepairsMove DEF DocumentsOK
  <2>2. /\ SentAll(w)' = SentAll(w) /\ CameAll(w)' = CameAll(w)
        /\ UsedAll(w)' = UsedAll(w) /\ LentAll(w)' = LentAll(w)
        /\ SoldAll(w)' = SoldAll(w) /\ ConsignedAll(w)' = ConsignedAll(w)
    BY <1>r, SumsKept
  <2> QED BY <1>0, <2>1, <2>2, GoneIs DEF Moved, SumsTyped
<1>s. CASE (RegistryNext \/ SalesNext) /\ UNCHANGED <<notes, loans, parcels, repairs>>
  <2>1. UNCHANGED parts
    BY <1>s DEF RegistryNext, CreateUnit, ImportUnit, Transition, MarkAssembled, TransferUnit, EditUnit,
                SalesNext, Reserve, SellUnit, SellBikes, MarkSold, RaiseInvoice, VoidInvoice,
                RevertSale, DraftHandover, EditHandover, CompleteHandover
  <2>2. /\ SentAll(w)' = SentAll(w) /\ CameAll(w)' = CameAll(w)
        /\ UsedAll(w)' = UsedAll(w) /\ LentAll(w)' = LentAll(w)
        /\ SoldAll(w)' = SoldAll(w) /\ ConsignedAll(w)' = ConsignedAll(w)
        /\ SpentAll(w)' = SpentAll(w)
    BY <1>s, SumsKept
  <2>3. onHand'[w] = onHand[w] /\ held'[w] = held[w] /\ Safe(w)'
    BY <2>1 DEF parts, Safe
  <2> QED BY <1>0, <2>2, <2>3, GoneIs DEF Moved, SumsTyped
<1> QED BY <1>n, <1>l, <1>p, <1>r, <1>s DEF Next

-----------------------------------------------------------------------------
(* The inductive invariant                                                 *)

LEMMA BalanceStep ==
  ASSUME FiniteDocuments, MotorcycleAssumption, UInv, DocumentsOK', Next, NEW w \in Warehouse
  PROVE  Balanced(w)'
<1>1. Balanced(w) /\ StockTypes /\ DocumentsOK
  BY DEF UInv
<1>2. Safe(w)
  BY <1>1 DEF Balanced, Safe
<1>3. Moved(w)
  BY <1>1, <1>2, StockMoves
<1>4. Gone(w) \in Int /\ Kept(w) \in Int /\ Gone(w)' \in Int /\ Kept(w)' \in Int
  BY <1>1, SumsAreTyped, SumsAreTypedNext, GoneIs DEF SumsTyped
<1>5. Opening[w] \in Int
  BY MotorcycleAssumption
<1> QED BY <1>1, <1>3, <1>4, <1>5 DEF Balanced, Moved, Safe

LEMMA UnitsInit ==
  ASSUME FiniteDocuments, MotorcycleAssumption, InitAll
  PROVE  UInv
<1>0. MaxQty \in Nat /\ MaxStock \in Nat /\ Opening \in [Warehouse -> 0..MaxStock]
  BY MotorcycleAssumption
<1>1. UnitTypes /\ StockTypes /\ SalesTypeOK
  BY <1>0 DEF InitAll, Init, SalesInit, UnitTypes, StockTypes, SalesTypeOK, Handover
<1>2. NotesOK
  BY DEF InitAll, NotesInit, NotesOK, NotesTypeOK, NoteOK, NoteStatus
<1>3. LoansOK
  BY <1>0 DEF InitAll, LoansInit, LoansOK, LoansTypeOK, LoanOK, LoanStatus
<1>4. ParcelsOK
  BY <1>0 DEF InitAll, ParcelsInit, SalesInit, ParcelsOK, ParcelsTypeOK, ParcelOK, ParcelStatus, PartLine
<1>5. RepairsOK
  BY <1>0 DEF InitAll, RepairsInit, RepairsOK, RepairsTypeOK, RepairOK
<1>6. Known
  BY DEF InitAll, Init, LoansInit, ParcelsInit, Known, KnownSales
<1>7. \A u \in Unit : UnitOK(u)
  BY DEF InitAll, Init, SalesInit, UnitOK
<1>8. ASSUME NEW w \in Warehouse PROVE Balanced(w)
  <2>0. IsFiniteSet(Note) /\ IsFiniteSet(Loan) /\ IsFiniteSet(Parcel) /\ IsFiniteSet(Repair)
    BY FiniteDocuments
  <2>z. ASSUME NEW S, IsFiniteSet(S), NEW f, f = [x \in S |-> 0] PROVE Total(f) = 0
    BY <2>z, SumZero DEF Total
  <2>1. /\ [n \in Note |-> Sent(n, w)] = [n \in Note |-> 0]
        /\ [n \in Note |-> Came(n, w)] = [n \in Note |-> 0]
    BY DEF InitAll, NotesInit, Sent, Came
  <2>2. /\ [l \in Loan |-> Used(l, w)] = [l \in Loan |-> 0]
        /\ [l \in Loan |-> Lent(l, w)] = [l \in Loan |-> 0]
    BY DEF InitAll, LoansInit, Used, Lent, IssuedAt, OpenLoan
  <2>3. /\ [d \in Parcel |-> Sold(d, w)] = [d \in Parcel |-> 0]
        /\ [d \in Parcel |-> Consigned(d, w)] = [d \in Parcel |-> 0]
    BY DEF InitAll, ParcelsInit, Sold, Consigned, ParcelAt
  <2>4. [r \in Repair |-> Spent(r, w)] = [r \in Repair |-> 0]
    BY DEF InitAll, RepairsInit, Spent
  <2>5. SentAll(w) = 0 /\ CameAll(w) = 0 /\ UsedAll(w) = 0 /\ LentAll(w) = 0
    BY <2>0, <2>z, <2>1, <2>2 DEF SentAll, CameAll, UsedAll, LentAll
  <2>6. SoldAll(w) = 0 /\ ConsignedAll(w) = 0 /\ SpentAll(w) = 0
    BY <2>0, <2>z, <2>3, <2>4 DEF SoldAll, ConsignedAll, SpentAll
  <2>7. Gone(w) = 0 /\ Kept(w) = 0
    BY <2>5, <2>6, GoneIs
  <2>8. Opening[w] \in 0..MaxStock
    BY <1>0
  <2>9. onHand[w] = Opening[w] /\ held[w] = 0
    BY DEF InitAll, Init
  <2> QED BY <1>0, <2>7, <2>8, <2>9 DEF Balanced
<1> QED BY <1>1, <1>2, <1>3, <1>4, <1>5, <1>6, <1>7, <1>8 DEF UInv, UnitsOK, DocumentsOK

LEMMA UnitsStep ==
  ASSUME FiniteDocuments, MotorcycleAssumption, UInv, Next
  PROVE  UInv'
<1> DEFINE Rest == /\ UnitTypes' /\ StockTypes' /\ SalesTypeOK' /\ DocumentsOK' /\ Known'
                   /\ \A u \in Unit : UnitOK(u)'
<1>0. /\ UnitTypes /\ StockTypes /\ SalesTypeOK /\ NotesOK /\ LoansOK /\ ParcelsOK /\ RepairsOK
      /\ Known /\ \A u \in Unit : UnitOK(u)
  BY DEF UInv, UnitsOK, DocumentsOK
<1>i. invoice \in [Invoice -> {"none", "issued", "voided"}] /\ ParcelsTypeOK
  BY <1>0 DEF ParcelsOK, ParcelsTypeOK
<1>k. KnownSales /\ \A l \in Loan : loan[l] # "none" => \A u \in loanRow[l].units : status[u] # "none"
  BY <1>0 DEF Known, KnownSales
\* Known of the next state, from its three parts.
<1>j. ASSUME \A l \in Loan : loan'[l] # "none" => \A u \in loanRow'[l].units : status'[u] # "none",
             \A d \in Parcel : parcel'[d] # "none" => \A u \in parcelRow'[d].units : status'[u] # "none",
             KnownSales'
      PROVE  Known'
  BY <1>j DEF Known, KnownSales
<1>s. ASSUME UNCHANGED handover PROVE SalesTypeOK'
  BY <1>0, <1>s DEF SalesTypeOK
<1>1. ASSUME RegistryNext, UNCHANGED <<notes, loans, parcels, invoice, repairs, handover>>
      PROVE  Rest
  <2>1. UnitTypes' /\ StockTypes' /\ \A u \in Unit : Lasts(u)
    BY <1>0, <1>1, RegistryStep
  <2>2. NotesOK' /\ LoansOK' /\ ParcelsOK' /\ RepairsOK'
    BY <1>0, <1>1, <1>i, <2>1, NotesKept, LoansKept, ParcelsKept, RepairsKept
  <2>3. UNCHANGED soldOn
    BY <1>1 DEF RegistryNext, CreateUnit, ImportUnit, Transition, MarkAssembled, TransferUnit, EditUnit
  <2>4. KnownSales'
    BY <1>k, <2>1, <2>3, KnownSame
  <2>5. Known'
    BY <1>0, <1>1, <1>j, <2>1, <2>4, KnownKept
  <2>6. \A u \in Unit : UnitOK(u)'
    BY <1>0, <1>1, <1>s, RegistryUnits
  <2> QED BY <1>1, <1>s, <2>1, <2>2, <2>5, <2>6 DEF DocumentsOK
<1>2. ASSUME NotesNext, UNCHANGED <<loans, parcels, invoice, repairs, handover>>
      PROVE  Rest
  <2>1. UnitTypes' /\ StockTypes' /\ \A u \in Unit : Lasts(u)
    BY <1>0, <1>2, NotesRegistry
  <2>2. NotesOK' /\ LoansOK' /\ ParcelsOK' /\ RepairsOK'
    BY <1>0, <1>2, <1>i, <2>1, NotesStep, LoansKept, ParcelsKept, RepairsKept
  <2>3. UNCHANGED soldOn
    BY <1>2 DEF NotesNext, CheckNote, DraftNote, Dispatch, ReceiveNote, CancelNote, registry
  <2>4. KnownSales'
    BY <1>k, <2>1, <2>3, KnownSame
  <2>5. Known'
    BY <1>0, <1>2, <1>j, <2>1, <2>4, KnownKept
  <2>6. \A u \in Unit : UnitOK(u)'
    BY <1>0, <1>2, <1>s, NotesUnits
  <2> QED BY <1>2, <1>s, <2>1, <2>2, <2>5, <2>6 DEF DocumentsOK
<1>3. ASSUME LoansNext, UNCHANGED <<notes, parcels, invoice, repairs, handover>>
      PROVE  Rest
  <2>1. UnitTypes' /\ StockTypes' /\ \A u \in Unit : Lasts(u)
    BY <1>0, <1>3, LoansRegistry
  <2>2. NotesOK' /\ LoansOK' /\ ParcelsOK' /\ RepairsOK'
    BY <1>0, <1>3, <1>i, <2>1, NotesKept, LoansStep, ParcelsKept, RepairsKept
  <2>3. UNCHANGED soldOn
    BY <1>3 DEF LoansNext, CreateLoan, IssueLoan, ReturnLoan, CancelLoan, registry
  <2>4. KnownSales'
    BY <1>k, <2>1, <2>3, KnownSame
  <2>5. \A l \in Loan : loan'[l] # "none" => \A u \in loanRow'[l].units : status'[u] # "none"
    BY <1>0, <1>3, <1>k, <2>1, KnownLoans
  <2>6. Known'
    BY <1>0, <1>3, <1>j, <2>1, <2>4, <2>5, KnownKept
  <2>7. \A u \in Unit : UnitOK(u)'
    BY <1>0, <1>3, <1>s, LoansUnits
  <2> QED BY <1>3, <1>s, <2>1, <2>2, <2>6, <2>7 DEF DocumentsOK
<1>4. ASSUME ParcelsNext, UNCHANGED <<notes, loans, repairs, handover>>
      PROVE  Rest
  <2>1. UnitTypes' /\ StockTypes' /\ \A u \in Unit : Lasts(u)
    BY <1>0, <1>4, ParcelsRegistry
  <2>2. NotesOK' /\ LoansOK' /\ ParcelsOK' /\ RepairsOK'
    BY <1>0, <1>4, <2>1, NotesKept, LoansKept, ParcelsStep, RepairsKept
  <2>4. KnownSales'
    BY <1>k, <1>4, <2>1, KnownSettled
  <2>5. \A d \in Parcel : parcel'[d] # "none" => \A u \in parcelRow'[d].units : status'[u] # "none"
    BY <1>0, <1>4, <2>1, KnownParcels
  <2>6. Known'
    BY <1>0, <1>4, <1>j, <2>1, <2>4, <2>5, KnownKept
  <2>7. \A u \in Unit : UnitOK(u)'
    BY <1>0, <1>4, <1>s, ParcelsUnits
  <2> QED BY <1>4, <1>s, <2>1, <2>2, <2>6, <2>7 DEF DocumentsOK
<1>5. ASSUME RepairsNext, UNCHANGED <<notes, loans, parcels, invoice, handover>>
      PROVE  Rest
  <2>1. UnitTypes' /\ StockTypes' /\ RepairsOK' /\ \A u \in Unit : Lasts(u)
    BY <1>0, <1>5, RepairsStep DEF UnitsOK
  <2>2. NotesOK' /\ LoansOK' /\ ParcelsOK'
    BY <1>0, <1>5, <1>i, <2>1, NotesKept, LoansKept, ParcelsKept
  <2>3. UNCHANGED soldOn
    BY <1>5 DEF RepairsNext, OpenRepair, PlanParts, StartRepair, ResolveRepair, registry
  <2>4. KnownSales'
    BY <1>k, <2>1, <2>3, KnownSame
  <2>5. Known'
    BY <1>0, <1>5, <1>j, <2>1, <2>4, KnownKept
  <2>6. \A u \in Unit : UnitOK(u)'
    BY <1>0, <1>5, <1>s, RepairsUnits
  <2> QED BY <1>5, <1>s, <2>1, <2>2, <2>5, <2>6 DEF DocumentsOK
<1>6. ASSUME SalesNext, UNCHANGED <<notes, loans, parcels, repairs>>
      PROVE  Rest
  <2>1. /\ UnitTypes' /\ StockTypes' /\ SalesTypeOK'
        /\ invoice' \in [Invoice -> {"none", "issued", "voided"}]
        /\ \A u \in Unit : Lasts(u)
    BY <1>0, <1>6, <1>i, SalesStep
  <2>2. NotesOK' /\ LoansOK' /\ ParcelsOK' /\ RepairsOK'
    <3>1. NotesOK' /\ LoansOK' /\ RepairsOK'
      BY <1>0, <1>6, <2>1, NotesKept, LoansKept, RepairsKept
    <3>2. ParcelsOK'
      BY <1>0, <1>6, <2>1, ParcelsKept
    <3> QED BY <3>1, <3>2
  <2>4. KnownSales'
    BY <1>0, <1>k, <1>6, <2>1, KnownSold
  <2>5. Known'
    BY <1>0, <1>6, <1>j, <2>1, <2>4, KnownKept
  <2>6. \A u \in Unit : UnitOK(u)'
    BY <1>0, <1>6, <1>i, SalesUnits
  <2> QED BY <2>1, <2>2, <2>5, <2>6 DEF DocumentsOK
<1>7. Rest
  BY <1>1, <1>2, <1>3, <1>4, <1>5, <1>6 DEF Next
<1>8. \A w \in Warehouse : Balanced(w)'
  BY <1>7, BalanceStep
<1> QED BY <1>7, <1>8 DEF UInv, UnitsOK

LEMMA UnitsStutter ==
  ASSUME UInv, UNCHANGED vars
  PROVE  UInv'
<1>0. /\ UNCHANGED <<registry, parts, notes, loans, parcels, invoice, repairs, handover>>
      /\ UNCHANGED <<status, place, customer, soldOn, built, owed, handed, imported, onHand, held>>
  BY DEF vars, registry, parts
<1>1. UnitTypes' /\ StockTypes' /\ SalesTypeOK'
  BY <1>0 DEF UInv, UnitTypes, StockTypes, SalesTypeOK
<1>2. DocumentsOK'
  <2>1. \A u \in Unit : Lasts(u)
    BY <1>0 DEF Lasts
  <2>2. NotesOK' /\ LoansOK' /\ RepairsOK'
    BY <1>0, <2>1, NotesKept, LoansKept, RepairsKept DEF UInv, DocumentsOK
  <2>3. invoice' \in [Invoice -> {"none", "issued", "voided"}]
    BY <1>0 DEF UInv, DocumentsOK, ParcelsOK, ParcelsTypeOK
  <2>4. ParcelsOK'
    BY <1>0, <2>3, ParcelsKept DEF UInv, DocumentsOK
  <2> QED BY <2>2, <2>4 DEF DocumentsOK
<1>3. Known'
  BY <1>0 DEF UInv, Known, KnownSales, loans, parcels
<1>4. UnitsOK'
  BY <1>0 DEF UInv, UnitsOK, UnitOK
<1>5. ASSUME NEW w \in Warehouse PROVE Balanced(w)'
  <2>1. Balanced(w)
    BY DEF UInv
  <2>2. Gone(w)' = Gone(w) /\ Kept(w)' = Kept(w)
    BY <1>0, SumsKept, GoneIs
  <2> QED BY <1>0, <2>1, <2>2 DEF Balanced
<1> QED BY <1>1, <1>2, <1>3, <1>4, <1>5 DEF UInv

LEMMA UnitsInvariant == Spec => []UInv
<1>1. InitAll => UInv
  BY UnitsInit, FiniteDocuments, MotorcycleAssumption
<1>2. UInv /\ [Next]_vars => UInv'
  BY UnitsStep, UnitsStutter, FiniteDocuments, MotorcycleAssumption
<1> QED BY <1>1, <1>2, PTL DEF Spec

-----------------------------------------------------------------------------
(* Theorems                                                                *)

\* Every column of every document holds what its type and its CHECK constraints
\* allow: in particular no document issues, holds or releases more of the part
\* than its location has (inventory's qty_on_hand and qty_reserved stay natural).
THEOREM UnitsTyped == Spec => []TypeOK
<1>1. ASSUME UInv, FiniteDocuments, MotorcycleAssumption PROVE TypeOK
  <2>0. MaxStock \in Nat /\ UnitTypes /\ StockTypes /\ DocumentsOK /\ SalesTypeOK
    BY <1>1 DEF UInv
  <2>1. ASSUME NEW w \in Warehouse PROVE onHand[w] \in 0..MaxStock /\ held[w] \in 0..MaxStock
    <3>1. Balanced(w) /\ onHand[w] \in Int /\ held[w] \in Int
      BY <1>1, <2>0 DEF UInv, StockTypes
    <3>2. Kept(w) \in Nat
      BY <1>1, <2>0, SumsAreTyped, GoneIs DEF SumsTyped
    <3> QED BY <2>0, <3>1, <3>2 DEF Balanced
  <2>2. RegistryTypeOK
    BY <2>0, <2>1 DEF RegistryTypeOK, UnitTypes, StockTypes
  <2> QED BY <2>0, <2>2 DEF TypeOK, DocumentsOK, NotesOK, LoansOK, ParcelsOK, RepairsOK
<1>2. UInv => TypeOK
  BY <1>1, FiniteDocuments, MotorcycleAssumption
<1> QED BY <1>2, UnitsInvariant, PTL

\* The sale status of a unit agrees with its customer, its invoice, its assembly and
\* its handover, whichever of the seven kinds of document wrote it last, but for what
\* the import of the registry may write: a sale on no invoice, an assembly without a
\* date, a customer of a unit that is not promised.
THEOREM StatusIsTold == Spec => []StatusTellsFacts
<1>1. UInv => StatusTellsFacts
  BY DEF UInv, UnitsOK, UnitOK, Known, KnownSales, Registered, StatusTellsFacts
<1> QED BY <1>1, UnitsInvariant, PTL

\* A unit that is at a warehouse, or on a note in transit, stays at one or on one
\* whatever the documents do: only an edit of the unit itself may clear its warehouse.
LEMMA LosesNone ==
  ASSUME MotorcycleAssumption, UInv, Next, NEW u \in Unit, Registered(u), ~Lost(u), Lost(u)'
  PROVE  EditUnit(u, None)
<1>0. UnitTypes /\ NotesOK
  BY DEF UInv, DocumentsOK
<1>1. CASE RegistryNext /\ UNCHANGED notes
  BY <1>0, <1>1, RegistryLosesNone
<1>2. CASE NotesNext
  BY <1>0, <1>2, NotesLoseNone
<1>3. CASE (LoansNext \/ ParcelsNext \/ RepairsNext \/ SalesNext) /\ UNCHANGED notes
  <2>1. UNCHANGED <<note, noteRow, place>>
    BY <1>3, OthersMoveNone DEF notes
  <2> QED BY <2>1, StillThere
<1> QED BY <1>1, <1>2, <1>3 DEF Next

THEOREM UnitsAreSomewhere == Spec => NoUnitIsLost
<1> DEFINE FoundAgain == \A u \in Unit : Registered(u) /\ ~Lost(u) /\ Lost(u)' => EditUnit(u, None)
<1>1. UInv /\ [Next]_vars => [FoundAgain]_vars
  BY LosesNone, MotorcycleAssumption
<1> HIDE DEF FoundAgain
<1>2. Spec => [][FoundAgain]_vars
  BY <1>1, UnitsInvariant, PTL DEF Spec
<1> QED BY <1>2 DEF NoUnitIsLost, FoundAgain

\* The stock of the part is its opening stock, less and plus what the documents
\* say; its holds are what loans and consignments have out, and never exceed it.
THEOREM StockIsExplained == Spec => []DocumentsExplainStock
<1>1. UInv => DocumentsExplainStock
  BY DEF UInv, Balanced, DocumentsOK, LoansOK, LoanOK, DocumentsExplainStock
<1> QED BY <1>1, UnitsInvariant, PTL

\* A unit that stays out on loan or on consignment is not promised or sold.
LEMMA LentStep ==
  ASSUME UInv, Next, NEW u \in Unit, LentOut(u), status'[u] \in {"reserved", "sold"}
  PROVE  \/ status'[u] = status[u] /\ soldOn'[u] = soldOn[u]
         \/ \E d \in Parcel : u \in soldUnits'[d] \ soldUnits[d]
<1>0. /\ UnitTypes /\ StockTypes /\ DocumentsOK
      /\ soldUnits \in [Parcel -> SUBSET Unit]
  BY DEF UInv, DocumentsOK, ParcelsOK, ParcelsTypeOK
<1>o. Out(u)
  BY DEF LentOut, Out, OnLoan, OnConsignment, OpenLoan, OpenConsignment, UnitsOut
<1>r. status[u] # "none"
  BY DEF LentOut, UInv, Known
<1>1. CASE RegistryNext
  <2>1. ASSUME NEW v \in Unit, NEW w, NEW b, CreateUnit(v, w, b)
        PROVE  status'[u] = status[u] /\ soldOn'[u] = soldOn[u]
    BY <1>0, <2>1 DEF CreateUnit, UnitTypes
  <2>2. ASSUME NEW v \in Unit, NEW new, Transition(v, new)
        PROVE  status'[u] = status[u] /\ soldOn'[u] = soldOn[u]
    BY <1>0, <2>2 DEF Transition, UnitTypes
  <2>3. ASSUME NEW v \in Unit, MarkAssembled(v)
        PROVE  status'[u] = status[u] /\ soldOn'[u] = soldOn[u]
    BY <1>0, <2>3 DEF MarkAssembled, UnitTypes
  <2>4. ASSUME NEW v \in Unit, NEW w, TransferUnit(v, w) \/ EditUnit(v, w)
        PROVE  status'[u] = status[u] /\ soldOn'[u] = soldOn[u]
    BY <2>4 DEF TransferUnit, EditUnit
  <2>5. ASSUME NEW v \in Unit, NEW s, NEW c, NEW b, ImportUnit(v, s, c, b)
        PROVE  status'[u] = status[u] /\ soldOn'[u] = soldOn[u]
    <3>1. v # u
      BY <1>r, <2>5 DEF ImportUnit, Registered
    <3> QED BY <1>0, <2>5, <3>1 DEF ImportUnit, UnitTypes
  <2> QED BY <1>1, <2>1, <2>2, <2>3, <2>4, <2>5 DEF RegistryNext
<1>2. CASE NotesNext
  BY <1>2 DEF NotesNext, CheckNote, DraftNote, Dispatch, ReceiveNote, CancelNote, registry
<1>3. CASE LoansNext
  <2>1. ASSUME NEW l \in Loan, NEW back, NEW bad, NEW settles, NEW missing,
               ReturnLoan(l, back, bad, settles, missing)
        PROVE  status'[u] = status[u] /\ soldOn'[u] = soldOn[u]
    BY <2>1 DEF ReturnLoan
  <2> QED BY <1>3, <2>1 DEF LoansNext, CreateLoan, IssueLoan, CancelLoan, registry
<1>4. CASE ParcelsNext
  <2>1. ASSUME NEW d \in Parcel, NEW sale, NEW back, NEW x, NEW y, Settle(d, sale, back, x, y)
        PROVE  \/ status'[u] = status[u] /\ soldOn'[u] = soldOn[u]
               \/ u \in soldUnits'[d] \ soldUnits[d]
    <3>1. /\ status'[u] = IF u \in DOMAIN sale THEN "sold" ELSE status[u]
          /\ soldOn'[u] = IF u \in DOMAIN sale THEN sale[u] ELSE soldOn[u]
          /\ DOMAIN sale \subseteq UnitsOut(d)
          /\ soldUnits'[d] = soldUnits[d] \union DOMAIN sale
      BY <1>0, <2>1 DEF Settle
    <3> QED BY <3>1 DEF UnitsOut
  <2> QED BY <1>4, <2>1 DEF ParcelsNext, CreateSaleDelivery, CreateConsignment, HandOut, Consign,
                            CancelParcel, registry
<1>5. CASE RepairsNext
  <2>1. ASSUME NEW r \in Repair, NEW v \in Unit, NEW w, NEW q, OpenRepair(r, v, w, q)
        PROVE  status'[u] = status[u] /\ soldOn'[u] = soldOn[u]
    BY <1>0, <2>1 DEF OpenRepair, UnitTypes
  <2>2. ASSUME NEW r \in Repair, ResolveRepair(r)
        PROVE  status'[u] = status[u] /\ soldOn'[u] = soldOn[u]
    <3>1. PICK row \in RepairRow : row = repairRow[r]
      BY <1>0, <2>2 DEF DocumentsOK, RepairsOK, RepairOK, ResolveRepair, ActiveRepair
    <3>2. row.prior \in OpenableFrom
      BY DEF RepairRow
    <3>3. PICK s : s = Released(row.unit, row.prior)
      OBVIOUS
    <3>4. status' = [status EXCEPT ![row.unit] = s] /\ UNCHANGED soldOn
      BY <2>2, <3>1, <3>3 DEF ResolveRepair
    <3>5. s = status[row.unit] \/ s \in {"unassembled", "assembled"}
      BY <3>2, <3>3 DEF Released, OpenableFrom
    <3> QED BY <1>0, <3>4, <3>5 DEF UnitTypes
  <2> QED BY <1>5, <2>1, <2>2 DEF RepairsNext, PlanParts, StartRepair, registry
<1>6. CASE SalesNext
  <2>1. ASSUME NEW S, NEW i, NEW c, NEW A, MarkSold(S, i, c, A)
        PROVE  status'[u] = status[u] /\ soldOn'[u] = soldOn[u]
    BY <1>o, <2>1 DEF MarkSold
  <2>2. ASSUME NEW v \in Unit, NEW c, Reserve(v, c)
        PROVE  status'[u] = status[u] /\ soldOn'[u] = soldOn[u]
    BY <1>0, <1>o, <2>2 DEF Reserve, UnitTypes
  <2>3. ASSUME NEW v \in Unit, RevertSale(v)
        PROVE  status'[u] = status[u] /\ soldOn'[u] = soldOn[u]
    BY <1>0, <2>3 DEF RevertSale, UnitTypes
  <2> QED BY <1>6, <2>1, <2>2, <2>3 DEF SalesNext, SellUnit, SellBikes, RaiseInvoice, VoidInvoice,
           DraftHandover, EditHandover, CompleteHandover, registry
<1> QED BY <1>1, <1>2, <1>3, <1>4, <1>5, <1>6 DEF Next

\* A unit that is out on loan or on consignment, and stays out, is neither promised
\* nor sold, by whichever way to sell it, except by the settlement that says so.
THEOREM LentUnitsAreKept == Spec => LentUnitsStayOurs
<1> DEFINE Ours == \A u \in Unit :
        LentOut(u) /\ LentOut(u)' /\ status'[u] \in {"reserved", "sold"} =>
          \/ status'[u] = status[u] /\ soldOn'[u] = soldOn[u]
          \/ \E d \in Parcel : u \in soldUnits'[d] \ soldUnits[d]
<1>1. UInv /\ [Next]_vars => [Ours]_vars
  BY LentStep
<1>2. Spec => [][Ours]_vars
  BY <1>1, UnitsInvariant, PTL DEF Spec
<1> QED BY <1>2 DEF LentUnitsStayOurs

\* The invoice of the unit's sale is voided.
SaleVoided(u) ==
  soldOn[u] # None /\ invoice'[soldOn[u]] = "voided" /\ invoice[soldOn[u]] # "voided"

\* A sold unit stays sold.
LEMMA SoldStep ==
  ASSUME UInv, Next, MotorcycleAssumption, NEW u \in Unit, status[u] = "sold", status'[u] # "sold"
  PROVE  SaleVoided(u) \/ \E l \in Loan : u \in loanBack'[l] \ loanBack[l]
<1>0. /\ UnitTypes /\ DocumentsOK
      /\ loanBack \in [Loan -> SUBSET Unit]
      /\ invoice \in [Invoice -> {"none", "issued", "voided"}]
  BY DEF UInv, DocumentsOK, LoansOK, LoansTypeOK, ParcelsOK, ParcelsTypeOK
<1>1. ASSUME RegistryNext PROVE FALSE
  <2>1. ASSUME NEW v \in Unit, NEW w, NEW b, CreateUnit(v, w, b) PROVE FALSE
    BY <1>0, <2>1 DEF CreateUnit, UnitTypes, Registered
  <2>2. ASSUME NEW v \in Unit, NEW new, Transition(v, new) PROVE FALSE
    <3>1. v # u
      BY <2>2 DEF Transition, Allowed
    <3> QED BY <1>0, <2>2, <3>1 DEF Transition, UnitTypes
  <2>3. ASSUME NEW v \in Unit, MarkAssembled(v) PROVE FALSE
    BY <1>0, <2>3 DEF MarkAssembled, UnitTypes
  <2>4. ASSUME NEW v \in Unit, NEW w, TransferUnit(v, w) \/ EditUnit(v, w) PROVE FALSE
    BY <2>4 DEF TransferUnit, EditUnit
  <2>5. ASSUME NEW v \in Unit, NEW s, NEW c, NEW b, ImportUnit(v, s, c, b) PROVE FALSE
    BY <1>0, <2>5 DEF ImportUnit, UnitTypes, Registered
  <2> QED BY <1>1, <2>1, <2>2, <2>3, <2>4, <2>5 DEF RegistryNext
<1>2. ASSUME NotesNext PROVE FALSE
  BY <1>2 DEF NotesNext, CheckNote, DraftNote, Dispatch, ReceiveNote, CancelNote, registry
<1>3. CASE LoansNext
  <2>1. ASSUME NEW l \in Loan, NEW back, NEW bad \in SUBSET back, NEW settles, NEW missing,
               ReturnLoan(l, back, bad, settles, missing)
        PROVE  u \in loanBack'[l] \ loanBack[l]
    <3>1. /\ status'[u] = IF u \in bad THEN "on_hold" ELSE status[u]
          /\ back \subseteq loanRow[l].units \ loanBack[l]
          /\ loanBack'[l] = loanBack[l] \union back
      BY <1>0, <2>1 DEF ReturnLoan
    <3> QED BY <3>1
  <2> QED BY <1>3, <2>1 DEF LoansNext, CreateLoan, IssueLoan, CancelLoan, registry
<1>4. ASSUME ParcelsNext PROVE FALSE
  <2>1. ASSUME NEW d \in Parcel, NEW sale, NEW back, NEW x, NEW y, Settle(d, sale, back, x, y)
        PROVE  FALSE
    BY <2>1 DEF Settle
  <2> QED BY <1>4, <2>1 DEF ParcelsNext, CreateSaleDelivery, CreateConsignment, HandOut, Consign,
                            CancelParcel, registry
<1>5. ASSUME RepairsNext PROVE FALSE
  <2>1. ASSUME NEW r \in Repair, NEW v \in Unit, NEW w, NEW q, OpenRepair(r, v, w, q) PROVE FALSE
    BY <1>0, <2>1 DEF OpenRepair, OpenableFrom, UnitTypes
  <2>2. ASSUME NEW r \in Repair, ResolveRepair(r) PROVE FALSE
    <3>1. PICK row, s : row = repairRow[r] /\ s = Released(row.unit, row.prior)
      OBVIOUS
    <3>2. status' = [status EXCEPT ![row.unit] = s]
      BY <2>2, <3>1 DEF ResolveRepair
    <3>3. status[row.unit] = "sold" => s = "sold"
      BY <3>1 DEF Released
    <3> QED BY <1>0, <3>2, <3>3 DEF UnitTypes
  <2> QED BY <1>5, <2>1, <2>2 DEF RepairsNext, PlanParts, StartRepair, registry
<1>6. CASE SalesNext
  <2>1. ASSUME NEW S, NEW i, NEW c, NEW A, MarkSold(S, i, c, A) PROVE FALSE
    BY <2>1 DEF MarkSold
  <2>2. ASSUME NEW v \in Unit, NEW c, Reserve(v, c) PROVE FALSE
    BY <1>0, <2>2 DEF Reserve, ReservableFrom, UnitTypes
  <2>3. ASSUME NEW i \in Invoice, VoidInvoice(i)
        PROVE  SaleVoided(u)
    <3>1. ASSUME NEW v \in Unit, soldOn[v] = i, RevertSale(v)
          PROVE  soldOn[u] = i
      BY <1>0, <3>1 DEF RevertSale, UnitTypes
    <3>2. soldOn[u] = i
      BY <2>3, <3>1 DEF VoidInvoice, registry
    <3> QED BY <1>0, <2>3, <3>2, MotorcycleAssumption DEF VoidInvoice, SaleVoided
  <2> QED BY <1>6, <2>1, <2>2, <2>3 DEF SalesNext, SellUnit, SellBikes, RaiseInvoice,
           DraftHandover, EditHandover, CompleteHandover, registry
<1> QED BY <1>1, <1>2, <1>3, <1>4, <1>5, <1>6 DEF Next

\* An invoice that sold units is voided: one of them goes back.
LEMMA VoidStep ==
  ASSUME UInv, Next, NEW u \in Unit, SaleVoided(u)
  PROVE  \E v \in Unit : soldOn[v] = soldOn[u] /\ RevertSale(v)
<1>0. UnitTypes /\ invoice \in [Invoice -> {"none", "issued", "voided"}] /\ soldOn[u] \in Invoice
  BY DEF UInv, DocumentsOK, ParcelsOK, ParcelsTypeOK, UnitTypes, SaleVoided
<1>1. ASSUME invoice' = invoice PROVE FALSE
  BY <1>1 DEF SaleVoided
<1>2. ASSUME NEW i \in Invoice, invoice' = [invoice EXCEPT ![i] = "issued"] PROVE FALSE
  BY <1>0, <1>2 DEF SaleVoided
<1>3. ASSUME NEW i \in Invoice, VoidInvoice(i)
      PROVE  \E v \in Unit : soldOn[v] = soldOn[u] /\ RevertSale(v)
  <2>1. invoice' = [invoice EXCEPT ![i] = "voided"]
    BY <1>3 DEF VoidInvoice
  <2>2. soldOn[u] = i
    BY <1>0, <2>1 DEF SaleVoided
  <2> QED BY <1>3, <2>2 DEF VoidInvoice
<1>4. CASE (RegistryNext \/ NotesNext \/ LoansNext \/ RepairsNext) /\ UNCHANGED invoice
  BY <1>1, <1>4
<1>5. CASE ParcelsNext
  BY <1>1, <1>5 DEF ParcelsNext, CreateSaleDelivery, CreateConsignment, HandOut, Consign, Settle,
                    CancelParcel
<1>6. CASE SalesNext
  BY <1>1, <1>2, <1>3, <1>6 DEF SalesNext, Reserve, SellUnit, SellBikes, RaiseInvoice,
     DraftHandover, EditHandover, CompleteHandover
<1> QED BY <1>4, <1>5, <1>6 DEF Next

\* A sold unit leaves the sold status only when the invoice of its sale is voided, or
\* when it comes back from a loan in need of attention; and it outlives its invoice
\* only if another unit of that invoice went back when it was voided.
THEOREM SoldUnitsAreKept == Spec => SoldUnitsStaySold
<1> DEFINE Stays == \A u \in Unit :
        LET Voided == soldOn[u] # None /\ invoice'[soldOn[u]] = "voided"
                        /\ invoice[soldOn[u]] # "voided"
        IN  /\ status[u] = "sold" /\ status'[u] # "sold" =>
                 Voided \/ \E l \in Loan : u \in loanBack'[l] \ loanBack[l]
            /\ status'[u] = "sold" /\ Voided =>
                 \E v \in Unit \ {u} : soldOn[v] = soldOn[u] /\ soldOn'[v] = None
<1>1. UInv /\ [Next]_vars => [Stays]_vars
  <2>1. ASSUME UInv, Next, NEW u \in Unit, status'[u] = "sold", SaleVoided(u)
        PROVE  \E v \in Unit \ {u} : soldOn[v] = soldOn[u] /\ soldOn'[v] = None
    <3>1. PICK v \in Unit : soldOn[v] = soldOn[u] /\ RevertSale(v)
      BY <2>1, VoidStep
    <3>2. soldOn'[v] = None /\ status'[v] # "sold"
      BY <2>1, <3>1 DEF RevertSale, UInv, UnitTypes
    <3> QED BY <2>1, <3>1, <3>2
  <2> QED BY <2>1, SoldStep, MotorcycleAssumption DEF SaleVoided
<1>2. Spec => [][Stays]_vars
  BY <1>1, UnitsInvariant, PTL DEF Spec
<1> QED BY <1>2 DEF SoldUnitsStaySold

\* How the sale status of a unit may change: along the graph of the lifecycle, when it
\* is registered, or by one of the three documents that write it without asking the
\* graph: a loan it comes back from, a consignment that is settled, an invoice that is
\* voided.
FollowsLifecycle(u) ==
  status'[u] # status[u] =>
    \/ status[u] = "none" /\ (status'[u] \in {"unassembled", "assembled"} \/ imported'[u])
    \/ status'[u] \in Allowed(status[u])
    \/ status'[u] = "on_hold" /\ \E l \in Loan : u \in loanBack'[l] \ loanBack[l]
    \/ status'[u] = "sold" /\ \E d \in Parcel : u \in soldUnits'[d] \ soldUnits[d]
    \/ /\ status'[u] = IF built[u] THEN "assembled" ELSE "unassembled"
       /\ soldOn[u] # None /\ invoice[soldOn[u]] = "issued" /\ invoice'[soldOn[u]] = "voided"

\* While a unit stays sold it stays with its buyer and on its invoice, but for a
\* consignment that sells it once more.
KeepsBuyer(u) ==
  status[u] = "sold" /\ status'[u] = "sold" =>
    \/ customer'[u] = customer[u] /\ soldOn'[u] = soldOn[u]
    \/ \E d \in Parcel : u \in soldUnits'[d] \ soldUnits[d]

LEMMA LifecycleStep ==
  ASSUME UInv, Next, NEW u \in Unit
  PROVE  FollowsLifecycle(u) /\ KeepsBuyer(u)
<1>0. /\ UnitTypes /\ DocumentsOK
      /\ loanBack \in [Loan -> SUBSET Unit]
      /\ soldUnits \in [Parcel -> SUBSET Unit]
      /\ invoice \in [Invoice -> {"none", "issued", "voided"}]
  BY DEF UInv, DocumentsOK, LoansOK, LoansTypeOK, ParcelsOK, ParcelsTypeOK
<1>1. ASSUME status'[u] = status[u], customer'[u] = customer[u], soldOn'[u] = soldOn[u]
      PROVE  FollowsLifecycle(u) /\ KeepsBuyer(u)
  BY <1>1 DEF FollowsLifecycle, KeepsBuyer
<1>2. ASSUME status[u] # "sold",
             \/ status'[u] \in Allowed(status[u])
             \/ status[u] = "none" /\ (status'[u] \in {"unassembled", "assembled"} \/ imported'[u])
      PROVE  FollowsLifecycle(u) /\ KeepsBuyer(u)
  BY <1>2 DEF FollowsLifecycle, KeepsBuyer
<1>3. CASE RegistryNext
  <2>1. ASSUME NEW v \in Unit, NEW w, NEW b, CreateUnit(v, w, b)
        PROVE  FollowsLifecycle(u) /\ KeepsBuyer(u)
    <3>1. CASE v = u
      <4>1. status[u] = "none" /\ status'[u] \in {"unassembled", "assembled"}
        BY <1>0, <2>1, <3>1 DEF CreateUnit, Registered, UnitTypes
      <4> QED BY <1>2, <4>1
    <3>2. CASE v # u
      BY <1>0, <1>1, <2>1, <3>2 DEF CreateUnit, UnitTypes
    <3> QED BY <3>1, <3>2
  <2>2. ASSUME NEW v \in Unit, NEW new \in SaleStatus, Transition(v, new)
        PROVE  FollowsLifecycle(u) /\ KeepsBuyer(u)
    <3>1. CASE v = u
      <4>1. status'[u] = new /\ new \in Allowed(status[u])
        BY <1>0, <2>2, <3>1 DEF Transition, UnitTypes
      <4>2. status[u] # "sold"
        BY <4>1 DEF Allowed
      <4> QED BY <1>2, <4>1, <4>2
    <3>2. CASE v # u
      BY <1>0, <1>1, <2>2, <3>2 DEF Transition, UnitTypes
    <3> QED BY <3>1, <3>2
  <2>3. ASSUME NEW v \in Unit, MarkAssembled(v)
        PROVE  FollowsLifecycle(u) /\ KeepsBuyer(u)
    <3>1. CASE v = u /\ status[u] = "unassembled"
      <4>1. status'[u] = "assembled" /\ "assembled" \in Allowed(status[u])
        BY <1>0, <2>3, <3>1 DEF MarkAssembled, UnitTypes, Allowed
      <4> QED BY <1>2, <3>1, <4>1
    <3>2. CASE v # u \/ status[u] # "unassembled"
      BY <1>0, <1>1, <2>3, <3>2 DEF MarkAssembled, UnitTypes
    <3> QED BY <3>1, <3>2
  <2>4. ASSUME NEW v \in Unit, NEW w, TransferUnit(v, w) \/ EditUnit(v, w)
        PROVE  FollowsLifecycle(u) /\ KeepsBuyer(u)
    BY <1>1, <2>4 DEF TransferUnit, EditUnit
  <2>5. ASSUME NEW v \in Unit, NEW s, NEW c, NEW b, ImportUnit(v, s, c, b)
        PROVE  FollowsLifecycle(u) /\ KeepsBuyer(u)
    <3>1. CASE v = u
      <4>1. status[u] = "none" /\ imported'[u]
        BY <1>0, <2>5, <3>1 DEF ImportUnit, Registered, UnitTypes
      <4> QED BY <1>2, <4>1
    <3>2. CASE v # u
      BY <1>0, <1>1, <2>5, <3>2 DEF ImportUnit, UnitTypes
    <3> QED BY <3>1, <3>2
  <2> QED BY <1>3, <2>1, <2>2, <2>3, <2>4, <2>5 DEF RegistryNext
<1>4. CASE NotesNext
  BY <1>1, <1>4 DEF NotesNext, CheckNote, DraftNote, Dispatch, ReceiveNote, CancelNote, registry
<1>5. CASE LoansNext
  <2>1. ASSUME NEW l \in Loan, NEW back, NEW bad \in SUBSET back, NEW settles, NEW missing,
               ReturnLoan(l, back, bad, settles, missing)
        PROVE  FollowsLifecycle(u) /\ KeepsBuyer(u)
    <3>1. /\ status'[u] = IF u \in bad THEN "on_hold" ELSE status[u]
          /\ customer'[u] = IF u \in bad THEN None ELSE customer[u]
          /\ soldOn'[u] = soldOn[u]
          /\ back \subseteq loanRow[l].units \ loanBack[l]
          /\ loanBack'[l] = loanBack[l] \union back
      BY <1>0, <2>1 DEF ReturnLoan
    <3>2. CASE u \in bad
      BY <3>1, <3>2 DEF FollowsLifecycle, KeepsBuyer
    <3>3. CASE u \notin bad
      BY <1>1, <3>1, <3>3
    <3> QED BY <3>2, <3>3
  <2> QED BY <1>1, <1>5, <2>1 DEF LoansNext, CreateLoan, IssueLoan, CancelLoan, registry
<1>6. CASE ParcelsNext
  <2>1. ASSUME NEW d \in Parcel, NEW sale, NEW back, NEW x, NEW y, Settle(d, sale, back, x, y)
        PROVE  FollowsLifecycle(u) /\ KeepsBuyer(u)
    <3>1. /\ status'[u] = IF u \in DOMAIN sale THEN "sold" ELSE status[u]
          /\ soldOn'[u] = IF u \in DOMAIN sale THEN sale[u] ELSE soldOn[u]
          /\ customer'[u] = IF u \in DOMAIN sale THEN parcelRow[d].buyer ELSE customer[u]
          /\ DOMAIN sale \subseteq UnitsOut(d)
          /\ soldUnits'[d] = soldUnits[d] \union DOMAIN sale
      BY <1>0, <2>1 DEF Settle
    <3>2. CASE u \in DOMAIN sale
      <4>1. status'[u] = "sold" /\ u \in soldUnits'[d] \ soldUnits[d]
        BY <3>1, <3>2 DEF UnitsOut
      <4> QED BY <4>1 DEF FollowsLifecycle, KeepsBuyer
    <3>3. CASE u \notin DOMAIN sale
      BY <1>1, <3>1, <3>3
    <3> QED BY <3>2, <3>3
  <2> QED BY <1>1, <1>6, <2>1 DEF ParcelsNext, CreateSaleDelivery, CreateConsignment, HandOut,
                                  Consign, CancelParcel, registry
<1>7. CASE RepairsNext
  <2>1. ASSUME NEW r \in Repair, NEW v \in Unit, NEW w, NEW q, OpenRepair(r, v, w, q)
        PROVE  FollowsLifecycle(u) /\ KeepsBuyer(u)
    <3>1. CASE v = u
      <4>1. status[u] \in {"unassembled", "assembled"} /\ status'[u] = "on_hold"
        BY <1>0, <2>1, <3>1 DEF OpenRepair, OpenableFrom, UnitTypes
      <4>2. "on_hold" \in Allowed(status[u])
        BY <4>1 DEF Allowed
      <4> QED BY <1>2, <4>1, <4>2
    <3>2. CASE v # u
      BY <1>0, <1>1, <2>1, <3>2 DEF OpenRepair, UnitTypes
    <3> QED BY <3>1, <3>2
  <2>2. ASSUME NEW r \in Repair, ResolveRepair(r)
        PROVE  FollowsLifecycle(u) /\ KeepsBuyer(u)
    <3>1. PICK row \in RepairRow : row = repairRow[r]
      BY <1>0, <2>2 DEF DocumentsOK, RepairsOK, RepairOK, ResolveRepair, ActiveRepair
    <3>2. row.prior \in OpenableFrom
      BY DEF RepairRow
    <3>3. PICK s : s = Released(row.unit, row.prior)
      OBVIOUS
    <3>4. status' = [status EXCEPT ![row.unit] = s] /\ UNCHANGED <<customer, soldOn>>
      BY <2>2, <3>1, <3>3 DEF ResolveRepair
    <3>5. CASE row.unit = u /\ status[u] = "on_hold"
      <4>1. status'[u] \in {"unassembled", "assembled"}
        BY <1>0, <3>2, <3>3, <3>4, <3>5 DEF Released, OpenableFrom, UnitTypes
      <4>2. status'[u] \in Allowed(status[u])
        BY <3>5, <4>1 DEF Allowed
      <4> QED BY <1>2, <3>5, <4>2
    <3>6. CASE row.unit # u \/ status[u] # "on_hold"
      <4>1. status'[u] = status[u]
        BY <1>0, <3>3, <3>4, <3>6 DEF Released, UnitTypes
      <4> QED BY <1>1, <3>4, <4>1
    <3> QED BY <3>5, <3>6
  <2> QED BY <1>1, <1>7, <2>1, <2>2 DEF RepairsNext, PlanParts, StartRepair, registry
<1>8. CASE SalesNext
  <2>1. ASSUME NEW S, NEW i, NEW c, NEW A, MarkSold(S, i, c, A)
        PROVE  FollowsLifecycle(u) /\ KeepsBuyer(u)
    <3>1. CASE u \in S
      <4>1. status[u] \in SellableFrom /\ status'[u] = "sold"
        BY <2>1, <3>1 DEF MarkSold
      <4>2. status[u] # "sold" /\ "sold" \in Allowed(status[u])
        BY <4>1 DEF SellableFrom, Allowed
      <4> QED BY <1>2, <4>1, <4>2
    <3>2. CASE u \notin S
      BY <1>1, <2>1, <3>2 DEF MarkSold
    <3> QED BY <3>1, <3>2
  <2>2. ASSUME NEW v \in Unit, NEW c, Reserve(v, c)
        PROVE  FollowsLifecycle(u) /\ KeepsBuyer(u)
    <3>1. CASE v = u
      <4>1. status[u] \in ReservableFrom /\ status'[u] = "reserved"
        BY <1>0, <2>2, <3>1 DEF Reserve, UnitTypes
      <4>2. status[u] # "sold" /\ "reserved" \in Allowed(status[u])
        BY <4>1 DEF ReservableFrom, Allowed
      <4> QED BY <1>2, <4>1, <4>2
    <3>2. CASE v # u
      BY <1>0, <1>1, <2>2, <3>2 DEF Reserve, UnitTypes
    <3> QED BY <3>1, <3>2
  <2>3. ASSUME NEW i \in Invoice, VoidInvoice(i)
        PROVE  FollowsLifecycle(u) /\ KeepsBuyer(u)
    <3>1. invoice[i] = "issued" /\ invoice'[i] = "voided"
      BY <1>0, <2>3 DEF VoidInvoice
    <3>2. ASSUME NEW v \in Unit, soldOn[v] = i, RevertSale(v)
          PROVE  FollowsLifecycle(u) /\ KeepsBuyer(u)
      <4>1. CASE v = u
        <5>1. status'[u] = IF built[u] THEN "assembled" ELSE "unassembled"
          BY <1>0, <3>2, <4>1 DEF RevertSale, UnitTypes
        <5>2. i # None
          BY MotorcycleAssumption
        <5> QED BY <3>1, <3>2, <4>1, <5>1, <5>2 DEF FollowsLifecycle, KeepsBuyer
      <4>2. CASE v # u
        BY <1>0, <1>1, <3>2, <4>2 DEF RevertSale, UnitTypes
      <4> QED BY <4>1, <4>2
    <3> QED BY <1>1, <2>3, <3>2 DEF VoidInvoice, registry
  <2> QED BY <1>1, <1>8, <2>1, <2>2, <2>3 DEF SalesNext, SellUnit, SellBikes, RaiseInvoice,
           DraftHandover, EditHandover, CompleteHandover, registry
<1> QED BY <1>3, <1>4, <1>5, <1>6, <1>7, <1>8 DEF Next

\* The transition graph of the lifecycle ("the single source of truth for legality")
\* holds for every document that writes a sale status, although most of them assign it
\* without asking the graph; the exceptions are a bad return from a loan, the
\* settlement of a consignment, and the void of the unit's own invoice, which takes it
\* back to where its assembly left it.  A unit that stays sold keeps its buyer and its
\* invoice, unless a consignment sells it once more.
THEOREM LifecycleIsKept ==
  Spec => [][\A u \in Unit : FollowsLifecycle(u) /\ KeepsBuyer(u)]_vars
<1> DEFINE All == \A u \in Unit : FollowsLifecycle(u) /\ KeepsBuyer(u)
<1>1. UInv /\ [Next]_vars => [All]_vars
  BY LifecycleStep
<1> HIDE DEF All
<1>2. Spec => [][All]_vars
  BY <1>1, UnitsInvariant, PTL DEF Spec
<1> QED BY <1>2 DEF All

\* A note that comes to credit its destination with more than left the source was
\* received in part before.
OvercreditsOnReReceipt(n) ==
  noteRow[n] # None /\ credited[n] <= noteRow[n].qty /\ credited'[n] > noteRow'[n].qty =>
    note[n] = "partially_received" /\ note'[n] \in {"received", "partially_received"}

LEMMA NoteCredits ==
  ASSUME UInv, Next, NEW n \in Note
  PROVE  OvercreditsOnReReceipt(n)
<1>0. /\ NotesOK /\ note \in [Note -> NoteStatus] /\ noteRow \in [Note -> NoteRow \union {None}]
      /\ credited \in [Note -> Nat] /\ NoteOK(n)
  BY DEF UInv, DocumentsOK, NotesOK, NotesTypeOK
<1>1. ASSUME noteRow'[n] = noteRow[n], credited'[n] = credited[n] PROVE OvercreditsOnReReceipt(n)
  <2>1. CASE noteRow[n] \in NoteRow
    <3>1. credited[n] \in Nat /\ noteRow[n].qty \in Int
      BY <1>0, <2>1, MotorcycleAssumption DEF NoteRow
    <3> QED BY <1>1, <3>1 DEF OvercreditsOnReReceipt
  <2>2. CASE noteRow[n] = None
    BY <2>2 DEF OvercreditsOnReReceipt
  <2> QED BY <1>0, <2>1, <2>2
<1>2. CASE NotesNext
  <2>1. ASSUME NEW m \in Note, NEW row \in NoteRow, CheckNote(m, row)
        PROVE  OvercreditsOnReReceipt(n)
    <3>1. CASE m = n
      <4>1. credited'[n] = 0 /\ noteRow'[n] = row
        BY <1>0, <2>1, <3>1 DEF CheckNote, NoteOK
      <4>2. row.qty \in Nat
        BY MotorcycleAssumption DEF NoteRow
      <4> QED BY <4>1, <4>2 DEF OvercreditsOnReReceipt
    <3>2. CASE m # n
      BY <1>0, <1>1, <2>1, <3>2 DEF CheckNote
    <3> QED BY <3>1, <3>2
  <2>2. ASSUME NEW m \in Note, NEW got \in 0..MaxQty, NEW confirmed,
               ReceiveNote(m, got, confirmed)
        PROVE  OvercreditsOnReReceipt(n)
    <3>1. CASE m = n
      <4>1. /\ noteRow' = noteRow /\ credited'[n] = credited[n] + got
            /\ note[n] \in {"in_transit", "partially_received"}
            /\ got \in 0..noteRow[n].qty
            /\ note'[n] = ReceiveOutcome(noteRow[n], got, confirmed)
        BY <1>0, <2>2, <3>1 DEF ReceiveNote, Receivable
      <4>2. note'[n] \in {"received", "partially_received"}
        BY <4>1 DEF ReceiveOutcome
      <4>3. noteRow[n] \in NoteRow
        BY <1>0, <4>1 DEF NoteOK
      <4>4. noteRow[n].qty \in Nat /\ got \in Nat
        BY <4>3, MotorcycleAssumption DEF NoteRow
      <4>5. CASE note[n] = "in_transit"
        <5>1. credited'[n] = got /\ got <= noteRow[n].qty
          BY <1>0, <4>1, <4>4, <4>5 DEF NoteOK
        <5> QED BY <4>1, <4>4, <5>1 DEF OvercreditsOnReReceipt
      <4> QED BY <4>1, <4>2, <4>5 DEF OvercreditsOnReReceipt
    <3>2. CASE m # n
      BY <1>0, <1>1, <2>2, <3>2 DEF ReceiveNote
    <3> QED BY <3>1, <3>2
  <2> QED BY <1>1, <1>2, <2>1, <2>2 DEF NotesNext, DraftNote, Dispatch, CancelNote
<1>3. CASE ~NotesNext
  <2>1. UNCHANGED notes
    BY <1>3 DEF Next, RegistryNext
  <2> QED BY <1>1, <2>1 DEF notes
<1> QED BY <1>2, <1>3

\* The finding on notes credited twice has one cause: the first receipt of a note never
\* credits its destination with more than was dispatched, only a second receipt of a
\* note received in part can, since it books every line from the start.
THEOREM OnlyReReceiptsOvercredit == Spec => [][\A n \in Note : OvercreditsOnReReceipt(n)]_vars
<1> DEFINE All == \A n \in Note : OvercreditsOnReReceipt(n)
<1>1. UInv /\ [Next]_vars => [All]_vars
  BY NoteCredits
<1> HIDE DEF All
<1>2. Spec => [][All]_vars
  BY <1>1, UnitsInvariant, PTL DEF Spec
<1> QED BY <1>2 DEF All
=============================================================================
