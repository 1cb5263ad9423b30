-------------------------------- MODULE Loans --------------------------------
(***************************************************************************)
(* Internal issuances: parts and units lent to a department, and parts it    *)
(* uses up.  A lent part is held until it comes back or is written off; a     *)
(* lent unit stays in the registry and is marked out by its open line.       *)
(*   backend/app/issuance/service.py, repository.py, domain/status.py        *)
(*                                                                          *)
(* One line of the part and any units; a line of the part is returnable,     *)
(* consumable, or neither (kept).                                            *)
(***************************************************************************)
EXTENDS Motorcycles

CONSTANT Loan   \* issuances

VARIABLES
  loan,         \* issuances.status, "none" before create
  loanRow,      \* its lines: units, quantity and kind of the part, location
  loanBack,     \* units whose line has a returned_at
  loanHold,     \* units of the part its line's reservation holds
  loanLost      \* missing_qty of its part line

loans == <<loan, loanRow, loanBack, loanHold, loanLost>>

LoanStatus == {"none", "draft", "out_on_loan", "partially_returned", "returned", "cancelled"}
OpenLoan == {"out_on_loan", "partially_returned"}
LoanRow == [units : SUBSET Unit, qty : 0..MaxQty,
            kind : {"returnable", "consumable", "kept"}, at : Warehouse]
\* A loan of units only has no part line to tell apart.
NewLoanRow == {row \in LoanRow : row.qty = 0 => row.kind = "kept" /\ row.at = Home /\ row.units # {}}

LoansInit ==
  /\ loan = [l \in Loan |-> "none"]
  /\ loanRow = [l \in Loan |-> None]
  /\ loanBack = [l \in Loan |-> {}]
  /\ loanHold = [l \in Loan |-> 0]
  /\ loanLost = [l \in Loan |-> 0]

\* Faulty variant: a loan that came back in part no longer counts.
OnLoanUntouched(u) == \E l \in Loan : loan[l] = "out_on_loan" /\ u \in loanRow[l].units \ loanBack[l]

\* unit_out_on_loan
OnLoan(u) == \E l \in Loan : loan[l] \in OpenLoan /\ u \in loanRow[l].units \ loanBack[l]

CreateLoan(l, row) ==
  /\ loan[l] = "none"
  /\ \A u \in row.units : Registered(u) /\ status[u] # "sold" /\ ~OnLoan(u)
  /\ loan' = [loan EXCEPT ![l] = "draft"]
  /\ loanRow' = [loanRow EXCEPT ![l] = row]
  /\ UNCHANGED <<loanBack, loanHold, loanLost, registry, parts>>

\* issue: the units are not looked at again.
IssueLoan(l) ==
  LET row == loanRow[l]
      consumed == row.kind = "consumable"
  IN  /\ loan[l] = "draft"
      /\ IF consumed THEN IssuePart(row.at, row.qty) ELSE HoldPart(row.at, row.qty)
      /\ loanHold' = [loanHold EXCEPT ![l] = IF consumed THEN 0 ELSE row.qty]
      /\ loan' = [loan EXCEPT ![l] = "out_on_loan"]
      /\ UNCHANGED <<loanRow, loanBack, loanLost, registry>>

\* return_outcome, over the lines that are expected back.
LoanOutcome(row, back, partOut) ==
  IF back = row.units /\ (row.kind = "returnable" => ~partOut)
    THEN "returned" ELSE "partially_returned"

\* Faulty variant: what is missing is deducted and its hold kept.
SettleLossOnly(w, missing, back) == EndHold(w, missing, 0)

\* _settle_part_return: the loss is issued from the hold, the rest released.
SettlePartReturn(w, missing, back) == EndHold(w, missing, back)

\* return_items: some units come back, those in bad need attention and go on
\* hold whatever their sale status; the part line settles once, or not now.
ReturnLoan(l, back, bad, settles, missing) ==
  LET row == loanRow[l]
      closes == settles /\ loanHold[l] > 0
  IN  /\ loan[l] \in OpenLoan
      /\ back \subseteq row.units \ loanBack[l] /\ bad \subseteq back
      /\ missing <= loanHold[l]
      /\ IF closes THEN SettlePartReturn(row.at, missing, loanHold[l] - missing)
                   ELSE UNCHANGED parts
      /\ loanHold' = [loanHold EXCEPT ![l] = IF closes THEN 0 ELSE @]
      /\ loanLost' = [loanLost EXCEPT ![l] = IF closes THEN missing ELSE @]
      /\ loanBack' = [loanBack EXCEPT ![l] = @ \union back]
      /\ status' = [u \in Unit |-> IF u \in bad THEN "on_hold" ELSE status[u]]
      /\ customer' = [u \in Unit |-> IF u \in bad THEN None ELSE customer[u]]
      /\ loan' = [loan EXCEPT ![l] = LoanOutcome(row, loanBack'[l], loanHold'[l] > 0)]
      /\ UNCHANGED <<loanRow, place, soldOn, built, owed, handed, imported>>

CancelLoan(l) ==
  /\ loan[l] = "draft"
  /\ loan' = [loan EXCEPT ![l] = "cancelled"]
  /\ UNCHANGED <<loanRow, loanBack, loanHold, loanLost, registry, parts>>

LoansNext ==
  \E l \in Loan :
    \/ \E row \in NewLoanRow : CreateLoan(l, row)
    \/ IssueLoan(l)
    \/ \E back \in SUBSET Unit, settles \in BOOLEAN, missing \in 0..MaxQty :
         \E bad \in SUBSET back :
           (settles \/ missing = 0) /\ ReturnLoan(l, back, bad, settles, missing)
    \/ CancelLoan(l)

LoansTypeOK ==
  /\ loan \in [Loan -> LoanStatus]
  /\ loanRow \in [Loan -> LoanRow \union {None}]
  /\ loanBack \in [Loan -> SUBSET Unit]
  /\ loanHold \in [Loan -> 0..MaxQty]
  /\ loanLost \in [Loan -> 0..MaxQty]
=============================================================================
