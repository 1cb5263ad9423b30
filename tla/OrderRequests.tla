---------------------------- MODULE OrderRequests ----------------------------
(***************************************************************************)
(* Order requests and stock transfers: the request header's status machine, *)
(* the quantities of its lines, the stock held for them and the stock that  *)
(* leaves the source and arrives at the destination, as written by          *)
(*   backend/app/order_requests/service.py, repository.py, domain/status.py *)
(*                                                                          *)
(* Every handler locks the header first (SELECT ... FOR UPDATE) and runs in *)
(* one transaction, so it is one action; a check that fails raises and      *)
(* rolls back.  qty_reserved of a row is the sum of its holds, which is     *)
(* what Inventory proves (ReservedUnits), so it is computed here.           *)
(***************************************************************************)
EXTENDS Integers, FiniteSets, Functions

CONSTANTS
  Request,      \* request headers
  Line,         \* request lines
  Cell,         \* inventory rows (product and location)
  LineRequest,  \* the request of each line
  SourceCell,   \* the row each line draws on
  DestCell,     \* the row each line of a transfer is received into
  Transfers,    \* requests with a destination location
  None,         \* a receipt not captured yet (received_qty IS NULL)
  MaxQty,       \* bound: a quantity of a line
  MaxStock      \* bound: units of a row

\* What is captured of one line.
Receipt == [received : 0..MaxQty, missing : 0..MaxQty, damaged : 0..MaxQty, extra : 0..MaxQty]

ASSUME RequestAssumption ==
  /\ LineRequest \in [Line -> Request]
  /\ SourceCell \in [Line -> Cell]
  /\ DestCell \in [Line -> Cell]
  /\ \A l \in Line : SourceCell[l] # DestCell[l]
  /\ IsFiniteSet(Line) /\ None \notin Receipt
  /\ Transfers \subseteq Request
  /\ MaxQty \in Nat /\ MaxStock \in Nat

VARIABLES
  status,       \* request_headers.status, "none" before create
  asked, approved, issued,  \* request_lines.requested_qty, .approved_qty, .issued_qty
  receipt,      \* request_lines.received_qty, missing_qty, damaged_qty, extra_qty
  hold,         \* units of the line's active reservation
  onHand,       \* inventory.qty_on_hand
  damaged,      \* inventory.qty_damaged
  corrected     \* what stock corrections put into each row (history)

stock == <<onHand, damaged, corrected>>
vars == <<status, asked, approved, issued, receipt, hold, stock>>

ApprovedStates == {"approved", "partially_approved"}
Terminal == {"rejected", "cancelled", "completed"}
Status == {"none", "draft", "pending", "partially_issued", "issued", "in_transit",
           "partially_received", "received"} \union ApprovedStates \union Terminal

\* _ALLOWED, the guard of every transition.
Allowed(old) ==
  CASE old = "draft" -> {"pending", "cancelled"}
    [] old = "pending" -> ApprovedStates \union {"rejected", "cancelled"}
    [] old \in ApprovedStates -> {"partially_issued", "issued", "in_transit", "cancelled"}
    [] old = "partially_issued" -> {"partially_issued", "issued", "in_transit",
                                    "partially_received", "received"}
    [] old = "issued" -> {"in_transit", "partially_received", "received", "completed"}
    [] old = "in_transit" -> {"partially_received", "received", "completed"}
    [] old = "partially_received" -> {"partially_received", "received", "completed"}
    [] old = "received" -> {"completed"}
    [] OTHER -> {}

LinesOf(r) == {l \in Line : LineRequest[l] = r}

Lesser(a, b) == IF a <= b THEN a ELSE b
Greater(a, b) == IF a >= b THEN a ELSE b

\* What leaves, or arrives at, row c when each line l moves units[l].
Drawn(units, c) == SumFunctionOnSet(units, {l \in Line : SourceCell[l] = c})
Brought(units, c) == SumFunctionOnSet(units, {l \in Line : DestCell[l] = c})

Reserved(c) == Drawn(hold, c)
Available(c) == onHand[c] - Reserved(c) - damaged[c]

\* received + missing + damaged = issued + extra
IsBalanced(l, rc) ==
  rc.received + rc.missing + rc.damaged = issued[l] + rc.extra

Init ==
  /\ status = [r \in Request |-> "none"]
  /\ asked = [l \in Line |-> 0]
  /\ approved = [l \in Line |-> 0]
  /\ issued = [l \in Line |-> 0]
  /\ receipt = [l \in Line |-> None]
  /\ hold = [l \in Line |-> 0]
  /\ onHand = [c \in Cell |-> 0]
  /\ damaged = [c \in Cell |-> 0]
  /\ corrected = [c \in Cell |-> 0]

-----------------------------------------------------------------------------
(* Raising and deciding                                                    *)

Create(r, want, submit) ==
  /\ status[r] = "none"
  /\ status' = [status EXCEPT ![r] = IF submit THEN "pending" ELSE "draft"]
  /\ asked' = [l \in Line |-> IF l \in LinesOf(r) THEN want[l] ELSE asked[l]]
  /\ UNCHANGED <<approved, issued, receipt, hold, stock>>

Submit(r) ==
  /\ "pending" \in Allowed(status[r])
  /\ status' = [status EXCEPT ![r] = "pending"]
  /\ UNCHANGED <<asked, approved, issued, receipt, hold, stock>>

ApprovalOutcome(r, grant) ==
  IF \A l \in LinesOf(r) : grant[l] >= asked[l] THEN "approved" ELSE "partially_approved"

\* clamp_approved
Clamp(qty, l) == Greater(0, Lesser(qty, asked[l]))

\* What a request is granted of an offer, and nothing for other lines.
Grant(r, offer) ==
  [l \in Line |-> IF l \in LinesOf(r) THEN Clamp(offer[l], l) ELSE 0]

Grants(r, grant) ==
  /\ status[r] = "pending"
  /\ \E l \in LinesOf(r) : grant[l] > 0
  /\ approved' = [l \in Line |-> IF l \in LinesOf(r) THEN grant[l] ELSE approved[l]]
  /\ hold' = [l \in Line |-> IF l \in LinesOf(r) THEN grant[l] ELSE hold[l]]
  /\ status' = [status EXCEPT ![r] = ApprovalOutcome(r, grant)]
  /\ UNCHANGED <<asked, issued, receipt, stock>>

\* Faulty variant: the hold is checked against on-hand, not available, stock.
ApproveFromOnHand(r, offer) ==
  /\ \A c \in Cell : Drawn(Grant(r, offer), c) <= onHand[c]
  /\ Grants(r, Grant(r, offer))

\* A line with nothing approved needs no stock; the others must all fit.
Approve(r, offer) ==
  /\ \A c \in Cell : Drawn(Grant(r, offer), c) > 0 => Available(c) >= Drawn(Grant(r, offer), c)
  /\ Grants(r, Grant(r, offer))

Reject(r) ==
  /\ "rejected" \in Allowed(status[r])
  /\ status' = [status EXCEPT ![r] = "rejected"]
  /\ UNCHANGED <<asked, approved, issued, receipt, hold, stock>>

\* Faulty variant: only a fully approved request releases its holds.
CancelReleasesApproved(r) ==
  /\ "cancelled" \in Allowed(status[r])
  /\ hold' = [l \in Line |->
                IF l \in LinesOf(r) /\ status[r] = "approved" THEN 0 ELSE hold[l]]
  /\ status' = [status EXCEPT ![r] = "cancelled"]
  /\ UNCHANGED <<asked, approved, issued, receipt, stock>>

Cancel(r) ==
  /\ "cancelled" \in Allowed(status[r])
  /\ hold' = [l \in Line |->
                IF l \in LinesOf(r) /\ status[r] \in ApprovedStates THEN 0 ELSE hold[l]]
  /\ status' = [status EXCEPT ![r] = "cancelled"]
  /\ UNCHANGED <<asked, approved, issued, receipt, stock>>

-----------------------------------------------------------------------------
(* Issuing and receiving                                                   *)

IssueOutcome(r, out) ==
  IF \E l \in LinesOf(r) : out[l] < approved[l] THEN "partially_issued"
  ELSE IF r \in Transfers THEN "in_transit" ELSE "issued"

StillOwed(l) == approved[l] - issued[l]

\* The wanted quantity of each line, clamped to what is still owed, is drawn
\* from the line's hold and leaves the source.
Issue(r, wanted) ==
  LET take == [l \in Line |->
                 IF l \in LinesOf(r) THEN Greater(0, Lesser(wanted[l], StillOwed(l))) ELSE 0]
      out == [l \in Line |-> issued[l] + take[l]]
  IN  /\ "issued" \in Allowed(status[r])
      /\ \A c \in Cell : Drawn(take, c) <= onHand[c]
      /\ \E l \in LinesOf(r) : out[l] > 0
      /\ issued' = out
      /\ hold' = [l \in Line |-> hold[l] - Lesser(take[l], hold[l])]
      /\ onHand' = [c \in Cell |-> onHand[c] - Drawn(take, c)]
      /\ status' = [status EXCEPT ![r] = IssueOutcome(r, out)]
      /\ UNCHANGED <<asked, approved, receipt, damaged, corrected>>

Good(l) == IF receipt[l] = None THEN 0 ELSE receipt[l].received
Broken(l) == IF receipt[l] = None THEN 0 ELSE receipt[l].damaged

\* The row of each line of a transfer is credited, within the CHECKs of the
\* inventory table, which refuse a correction of stock that is gone.
Credit(r, given, good, broken) ==
  LET credited == IF r \in Transfers THEN DOMAIN given ELSE {}
      sound == [l \in Line |-> IF l \in credited THEN good[l] ELSE 0]
      faulty == [l \in Line |-> IF l \in credited THEN broken[l] ELSE 0]
  IN  /\ onHand' = [c \in Cell |-> onHand[c] + Brought(sound, c)]
      /\ damaged' = [c \in Cell |-> damaged[c] + Brought(faulty, c)]
      /\ \A c \in Cell : onHand'[c] \in 0..MaxStock /\ damaged'[c] \in 0..MaxStock

Capture(given) ==
  /\ \A l \in DOMAIN given : IsBalanced(l, given[l])
  /\ receipt' = [l \in Line |-> IF l \in DOMAIN given THEN given[l] ELSE receipt[l]]

\* Faulty variant: a corrected receipt credits the destination in full again.
RecordReceiptsInFull(r, given) ==
  /\ Capture(given)
  /\ Credit(r, given, [l \in DOMAIN given |-> given[l].received],
                     [l \in DOMAIN given |-> given[l].damaged])

\* _record_receipts: each submitted line must reconcile, and a transfer credits
\* the destination with what changed since the last receipt of the line.
RecordReceipts(r, given) ==
  /\ Capture(given)
  /\ Credit(r, given, [l \in DOMAIN given |-> given[l].received - Good(l)],
                     [l \in DOMAIN given |-> given[l].damaged - Broken(l)])

\* Every unit of an issued line has been counted.
Accounted(l, rc) ==
  issued[l] > 0 =>
    rc # None /\ rc.received + rc.missing + rc.damaged >= issued[l] + rc.extra

Reconciled(l, rc) == issued[l] > 0 => rc # None /\ IsBalanced(l, rc)

Receive(r, given) ==
  /\ "received" \in Allowed(status[r])
  /\ RecordReceipts(r, given)
  /\ status' = [status EXCEPT ![r] =
       IF \A l \in LinesOf(r) : Accounted(l, receipt'[l])
         THEN "received" ELSE "partially_received"]
  /\ UNCHANGED <<asked, approved, issued, hold, corrected>>

\* Faulty variant: only the lines of this call are looked at.
CompleteUnchecked(r, given) ==
  /\ "completed" \in Allowed(status[r])
  /\ RecordReceipts(r, given)
  /\ \A l \in DOMAIN given : Reconciled(l, receipt'[l])
  /\ status' = [status EXCEPT ![r] = "completed"]
  /\ UNCHANGED <<asked, approved, issued, hold, corrected>>

Complete(r, given) ==
  /\ "completed" \in Allowed(status[r])
  /\ RecordReceipts(r, given)
  /\ \A l \in LinesOf(r) : Reconciled(l, receipt'[l])
  /\ status' = [status EXCEPT ![r] = "completed"]
  /\ UNCHANGED <<asked, approved, issued, hold, corrected>>

\* InventoryService.adjust on a row: the stock the requests compete for.
Correct(c, delta) ==
  /\ onHand[c] + delta \in 0..MaxStock
  /\ onHand' = [onHand EXCEPT ![c] = @ + delta]
  /\ corrected' = [corrected EXCEPT ![c] = @ + delta]
  /\ UNCHANGED <<status, asked, approved, issued, receipt, hold, damaged>>

-----------------------------------------------------------------------------
\* The receipts that reconcile, for any subset of the lines; others are refused.
Counting(l) == {rc \in Receipt : IsBalanced(l, rc)}

Counts(r) ==
  UNION {{given \in [S -> UNION {Counting(l) : l \in S}] : \A l \in S : given[l] \in Counting(l)} :
           S \in SUBSET LinesOf(r)}

Next ==
  \/ \E r \in Request :
       \/ \E want \in [LinesOf(r) -> 1..MaxQty], submit \in BOOLEAN : Create(r, want, submit)
       \/ Submit(r)
       \/ \E offer \in [LinesOf(r) -> 0..MaxQty] : Approve(r, offer)
       \/ Reject(r)
       \/ Cancel(r)
       \/ \E wanted \in [LinesOf(r) -> 0..MaxQty] : Issue(r, wanted)
       \/ \E given \in Counts(r) : Receive(r, given) \/ Complete(r, given)
  \/ \E c \in Cell, delta \in {-1, 1} : Correct(c, delta)

Spec == Init /\ [][Next]_vars

-----------------------------------------------------------------------------
(* Properties                                                              *)

\* Every column holds what its type and CHECK constraints allow.
TypeOK ==
  /\ status \in [Request -> Status]
  /\ asked \in [Line -> 0..MaxQty]
  /\ approved \in [Line -> 0..MaxQty]
  /\ issued \in [Line -> 0..MaxQty]
  /\ receipt \in [Line -> Receipt \union {None}]
  /\ hold \in [Line -> 0..MaxQty]
  /\ onHand \in [Cell -> 0..MaxStock]
  /\ damaged \in [Cell -> 0..MaxStock]
  /\ corrected \in [Cell -> Int]

Unapproved == {"none", "draft", "pending", "rejected", "cancelled"}

\* Once a request was approved, each line holds exactly what it is still owed,
\* however often it was issued in part, and is never given more than was approved
\* (this is what lets issue_line look at on-hand stock only); a request that was
\* never approved, or was cancelled, holds nothing.  What a request received
\* before it was fully issued is still owed stays held when it is completed.
HoldIsWhatIsOwed ==
  \A l \in Line :
    /\ hold[l] = IF status[LineRequest[l]] \in Unapproved THEN 0 ELSE approved[l] - issued[l]
    /\ issued[l] <= approved[l] /\ approved[l] <= asked[l]

\* Stock is conserved: what a row says is what corrections put there, less what
\* was issued from it, plus what transfers were counted into it; a receipt that
\* is repeated or corrected is not credited twice.
StockIsAccountedFor ==
  LET transferred == {l \in Line : LineRequest[l] \in Transfers}
      good == [l \in Line |-> IF l \in transferred THEN Good(l) ELSE 0]
      broken == [l \in Line |-> IF l \in transferred THEN Broken(l) ELSE 0]
  IN  \A c \in Cell :
        /\ onHand[c] = corrected[c] - Drawn(issued, c) + Brought(good, c)
        /\ damaged[c] = Brought(broken, c)

\* Units that left the source and are not yet counted never go negative, and a
\* completed request has none (status.py: "must reconcile before completion").
NothingLostInTransit ==
  \A l \in Line :
    /\ receipt[l] # None => IsBalanced(l, receipt[l])
    /\ status[LineRequest[l]] = "completed" /\ issued[l] > 0 => receipt[l] # None

\* Approving promises only stock nobody else was promised: available stock goes
\* negative by a correction or a recount, never by a request.
ApprovalsArePromises ==
  [][ \A c \in Cell :
        Available(c)' < 0 /\ Available(c)' < Available(c) =>
          \/ \E delta \in {-1, 1} : Correct(c, delta)
          \/ receipt' # receipt ]_vars
=============================================================================
