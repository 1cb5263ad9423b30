------------------------- MODULE OrderRequestsProofs -------------------------
(***************************************************************************)
(* What holds of order requests and transfers for every number of requests,  *)
(* lines and rows and every quantity: holds, receipts and the stock.         *)
(***************************************************************************)
EXTENDS OrderRequests, Sums

USE RequestAssumption

-----------------------------------------------------------------------------
(* Statuses and inputs                                                     *)

Received == {"partially_received", "received", "completed"}
Undecided == {"none", "draft", "pending", "rejected"}

\* Where the transitions may come from.
LEMMA AllowedFrom ==
  ASSUME NEW old \in Status
  PROVE  /\ "pending" \in Allowed(old) => old = "draft"
         /\ "rejected" \in Allowed(old) => old = "pending"
         /\ "cancelled" \in Allowed(old) => old \in {"draft", "pending"} \union ApprovedStates
         /\ "issued" \in Allowed(old) => old \in {"partially_issued"} \union ApprovedStates
         /\ "received" \in Allowed(old) =>
              old \in {"partially_issued", "issued", "in_transit", "partially_received"}
         /\ "completed" \in Allowed(old) =>
              old \in {"issued", "in_transit", "partially_received", "received"}
  BY DEF Allowed, Status, ApprovedStates, Terminal

\* The receipts of a call: some lines of the request, each of them balanced.
LEMMA CountsType ==
  ASSUME NEW r \in Request, NEW given \in Counts(r)
  PROVE  /\ DOMAIN given \subseteq LinesOf(r)
         /\ \A l \in DOMAIN given : given[l] \in Receipt /\ IsBalanced(l, given[l])
  BY DEF Counts, Counting

\* The columns of requests and lines.
LineTypes ==
  /\ status \in [Request -> Status]
  /\ asked \in [Line -> 0..MaxQty]
  /\ approved \in [Line -> 0..MaxQty]
  /\ issued \in [Line -> 0..MaxQty]
  /\ receipt \in [Line -> Receipt \union {None}]
  /\ hold \in [Line -> 0..MaxQty]

\* Nothing is approved of a request that was not decided for, and nothing is
\* issued any more of one whose receipt was captured.
DecidedOnce == \A l \in Line : status[LineRequest[l]] \in Undecided => approved[l] = 0
CountedAfterIssue ==
  \A l \in Line : receipt[l] # None => status[LineRequest[l]] \in Received

LInv == LineTypes /\ HoldIsWhatIsOwed /\ NothingLostInTransit /\ DecidedOnce /\ CountedAfterIssue

-----------------------------------------------------------------------------
(* Requests, lines and holds                                               *)

LEMMA InitLInv ==
  ASSUME Init
  PROVE  LInv
  BY DEF Init, LInv, LineTypes, HoldIsWhatIsOwed, NothingLostInTransit, DecidedOnce,
         CountedAfterIssue, Status, Unapproved

LEMMA CreateLInv ==
  ASSUME LInv, NEW r \in Request, NEW want \in [LinesOf(r) -> 1..MaxQty], NEW submit \in BOOLEAN,
         Create(r, want, submit)
  PROVE  LInv'
<1>1. /\ status[r] = "none" /\ status' = [status EXCEPT ![r] = IF submit THEN "pending" ELSE "draft"]
      /\ asked' = [l \in Line |-> IF l \in LinesOf(r) THEN want[l] ELSE asked[l]]
      /\ UNCHANGED <<approved, issued, receipt, hold>>
  BY DEF Create
<1>2. LineTypes'
  BY <1>1 DEF LInv, LineTypes, Status
<1>3. HoldIsWhatIsOwed'
  BY <1>1 DEF LInv, LineTypes, HoldIsWhatIsOwed, DecidedOnce, LinesOf, Unapproved, Undecided
<1>4. DecidedOnce' /\ CountedAfterIssue' /\ NothingLostInTransit'
  BY <1>1 DEF LInv, LineTypes, DecidedOnce, CountedAfterIssue, NothingLostInTransit, Undecided,
              Received, IsBalanced
<1> QED BY <1>2, <1>3, <1>4 DEF LInv

LEMMA DecisionLInv ==
  ASSUME LInv, NEW r \in Request, Submit(r) \/ Reject(r)
  PROVE  LInv'
<1> PICK now \in {"pending", "rejected"} :
      /\ status[r] \in {"draft", "pending"} /\ status' = [status EXCEPT ![r] = now]
      /\ UNCHANGED <<asked, approved, issued, receipt, hold>>
  BY AllowedFrom DEF Submit, Reject, LInv, LineTypes
<1>2. LineTypes'
  BY DEF LInv, LineTypes, Status, Terminal
<1>3. HoldIsWhatIsOwed'
  BY DEF LInv, LineTypes, HoldIsWhatIsOwed, Unapproved
<1>4. DecidedOnce' /\ CountedAfterIssue' /\ NothingLostInTransit'
  BY DEF LInv, LineTypes, DecidedOnce, CountedAfterIssue, NothingLostInTransit, Undecided,
         Received, IsBalanced
<1> QED BY <1>2, <1>3, <1>4 DEF LInv

\* What is granted of an offer is within what was asked.
LEMMA GrantType ==
  ASSUME LineTypes, NEW r \in Request, NEW offer \in [LinesOf(r) -> 0..MaxQty]
  PROVE  /\ Grant(r, offer) \in [Line -> 0..MaxQty]
         /\ \A l \in Line : Grant(r, offer)[l] <= asked[l]
         /\ \A l \in Line : l \notin LinesOf(r) => Grant(r, offer)[l] = 0
  BY DEF LineTypes, Grant, Clamp, Greater, Lesser, LinesOf

LEMMA ApproveLInv ==
  ASSUME LInv, NEW r \in Request, NEW offer \in [LinesOf(r) -> 0..MaxQty], Approve(r, offer)
  PROVE  LInv'
<1> PICK grant \in [Line -> 0..MaxQty] :
      /\ \A l \in Line : grant[l] <= asked[l]
      /\ Grants(r, grant)
  BY GrantType DEF Approve, LInv
<1> PICK now \in ApprovedStates :
      /\ status[r] = "pending" /\ status' = [status EXCEPT ![r] = now]
      /\ approved' = [l \in Line |-> IF l \in LinesOf(r) THEN grant[l] ELSE approved[l]]
      /\ hold' = [l \in Line |-> IF l \in LinesOf(r) THEN grant[l] ELSE hold[l]]
      /\ UNCHANGED <<asked, issued, receipt>>
  BY DEF Grants, ApprovalOutcome, ApprovedStates
<1>1. \A l \in LinesOf(r) : approved[l] = 0 /\ issued[l] = 0
  BY DEF LInv, LineTypes, HoldIsWhatIsOwed, DecidedOnce, LinesOf, Undecided
<1>2. LineTypes'
  BY DEF LInv, LineTypes, Status
<1>3. HoldIsWhatIsOwed'
  BY <1>1 DEF LInv, LineTypes, HoldIsWhatIsOwed, LinesOf, Unapproved, ApprovedStates
<1>4. DecidedOnce' /\ CountedAfterIssue' /\ NothingLostInTransit'
  BY DEF LInv, LineTypes, DecidedOnce, CountedAfterIssue, NothingLostInTransit, Undecided,
         Received, IsBalanced, ApprovedStates, LinesOf
<1> QED BY <1>2, <1>3, <1>4 DEF LInv

LEMMA CancelLInv ==
  ASSUME LInv, NEW r \in Request, Cancel(r)
  PROVE  LInv'
<1>1. /\ status[r] \in {"draft", "pending"} \union ApprovedStates
      /\ status' = [status EXCEPT ![r] = "cancelled"]
      /\ hold' = [l \in Line |->
                    IF l \in LinesOf(r) /\ status[r] \in ApprovedStates THEN 0 ELSE hold[l]]
      /\ UNCHANGED <<asked, approved, issued, receipt>>
  BY AllowedFrom DEF Cancel, LInv, LineTypes
<1>2. LineTypes'
  BY <1>1 DEF LInv, LineTypes, Status, Terminal
<1>3. HoldIsWhatIsOwed'
  BY <1>1 DEF LInv, LineTypes, HoldIsWhatIsOwed, LinesOf, Unapproved
<1>4. DecidedOnce' /\ CountedAfterIssue' /\ NothingLostInTransit'
  BY <1>1 DEF LInv, LineTypes, DecidedOnce, CountedAfterIssue, NothingLostInTransit, Undecided,
         Received, IsBalanced, ApprovedStates
<1> QED BY <1>2, <1>3, <1>4 DEF LInv

\* What an issue takes is owed and held.
Takes(r, take) ==
  /\ take \in [Line -> 0..MaxQty]
  /\ \A l \in Line : take[l] <= approved[l] - issued[l] /\ take[l] <= hold[l]
  /\ issued' = [l \in Line |-> issued[l] + take[l]]
  /\ hold' = [l \in Line |-> hold[l] - take[l]]
  /\ onHand' = [c \in Cell |-> onHand[c] - Drawn(take, c)]
  /\ \A c \in Cell : Drawn(take, c) <= onHand[c]
  /\ \A l \in Line : l \notin LinesOf(r) => take[l] = 0
  /\ status[r] \in {"partially_issued"} \union ApprovedStates
  /\ \E now \in {"partially_issued", "issued", "in_transit"} :
       status' = [status EXCEPT ![r] = now]
  /\ UNCHANGED <<asked, approved, receipt, damaged, corrected>>

LEMMA IssueTakes ==
  ASSUME LInv, NEW r \in Request, NEW wanted \in [LinesOf(r) -> 0..MaxQty], Issue(r, wanted)
  PROVE  \E take : Takes(r, take)
<1> DEFINE take == [l \in Line |->
                 IF l \in LinesOf(r) THEN Greater(0, Lesser(wanted[l], StillOwed(l))) ELSE 0]
<1>1. status[r] \in {"partially_issued"} \union ApprovedStates
  BY AllowedFrom DEF Issue, LInv, LineTypes
<1>2. \A l \in LinesOf(r) : hold[l] = approved[l] - issued[l]
  BY <1>1 DEF LInv, HoldIsWhatIsOwed, LinesOf, Unapproved, ApprovedStates
<1>3. \A l \in Line : /\ issued[l] \in 0..MaxQty /\ approved[l] \in 0..MaxQty /\ hold[l] \in 0..MaxQty
                      /\ issued[l] <= approved[l]
  BY DEF LInv, LineTypes, HoldIsWhatIsOwed
<1>4. \A l \in Line : /\ take[l] \in 0..MaxQty
                      /\ take[l] <= approved[l] - issued[l] /\ take[l] <= hold[l]
                      /\ (l \notin LinesOf(r) => take[l] = 0)
  BY <1>2, <1>3 DEF Greater, Lesser, StillOwed
<1>5. take \in [Line -> 0..MaxQty]
  BY <1>4
<1>6. /\ issued' = [l \in Line |-> issued[l] + take[l]]
      /\ hold' = [l \in Line |-> hold[l] - Lesser(take[l], hold[l])]
      /\ onHand' = [c \in Cell |-> onHand[c] - Drawn(take, c)]
      /\ \A c \in Cell : Drawn(take, c) <= onHand[c]
      /\ UNCHANGED <<asked, approved, receipt, damaged, corrected>>
      /\ status' = [status EXCEPT ![r] = IssueOutcome(r, [l \in Line |-> issued[l] + take[l]])]
  BY DEF Issue
<1> HIDE DEF take
<1>7. hold' = [l \in Line |-> hold[l] - take[l]]
  <2>1. \A l \in Line : Lesser(take[l], hold[l]) = take[l]
    BY <1>4 DEF Lesser
  <2> QED BY <1>6, <2>1
<1>8. \E now \in {"partially_issued", "issued", "in_transit"} :
        status' = [status EXCEPT ![r] = now]
  BY <1>6 DEF IssueOutcome
<1> QED BY <1>1, <1>4, <1>5, <1>6, <1>7, <1>8 DEF Takes

LEMMA IssueLInv ==
  ASSUME LInv, NEW r \in Request, NEW wanted \in [LinesOf(r) -> 0..MaxQty], Issue(r, wanted)
  PROVE  LInv'
<1> PICK take : Takes(r, take)
  BY IssueTakes
<1> PICK now \in {"partially_issued", "issued", "in_transit"} :
      status' = [status EXCEPT ![r] = now]
  BY DEF Takes
<1>1. /\ take \in [Line -> 0..MaxQty]
      /\ \A l \in Line : take[l] <= approved[l] - issued[l] /\ take[l] <= hold[l]
      /\ issued' = [l \in Line |-> issued[l] + take[l]]
      /\ hold' = [l \in Line |-> hold[l] - take[l]]
      /\ \A l \in Line : l \notin LinesOf(r) => take[l] = 0
      /\ status[r] \in {"partially_issued"} \union ApprovedStates
      /\ UNCHANGED <<asked, approved, receipt>>
  BY DEF Takes
<1>2. LineTypes'
  BY <1>1 DEF LInv, LineTypes, Status
<1>3. HoldIsWhatIsOwed'
  BY <1>1 DEF LInv, LineTypes, HoldIsWhatIsOwed, LinesOf, Unapproved, ApprovedStates
<1>4. DecidedOnce' /\ CountedAfterIssue'
  BY <1>1 DEF LInv, LineTypes, DecidedOnce, CountedAfterIssue, Undecided, Received, ApprovedStates,
              LinesOf
<1>5. NothingLostInTransit'
  <2>1. \A l \in LinesOf(r) : receipt[l] = None
    BY <1>1 DEF LInv, CountedAfterIssue, LinesOf, ApprovedStates, Received
  <2>2. \A l \in Line : l \notin LinesOf(r) => issued'[l] = issued[l]
    BY <1>1 DEF LInv, LineTypes
  <2> QED BY <1>1, <2>1, <2>2 DEF LInv, LineTypes, NothingLostInTransit, IsBalanced, LinesOf
<1> QED BY <1>2, <1>3, <1>4, <1>5 DEF LInv

\* A receipt, or the one that completes the request.
LEMMA CountLInv ==
  ASSUME LInv, NEW r \in Request, NEW given \in Counts(r), Receive(r, given) \/ Complete(r, given)
  PROVE  LInv'
<1>1. /\ receipt' = [l \in Line |-> IF l \in DOMAIN given THEN given[l] ELSE receipt[l]]
      /\ UNCHANGED <<asked, approved, issued, hold>>
  BY DEF Receive, Complete, RecordReceipts, Capture
<1>2. /\ DOMAIN given \subseteq LinesOf(r)
      /\ \A l \in DOMAIN given : given[l] \in Receipt /\ IsBalanced(l, given[l])
  BY CountsType
<1> PICK now \in Received :
      /\ status[r] \in {"partially_issued", "issued", "in_transit", "partially_received", "received"}
      /\ status' = [status EXCEPT ![r] = now]
      /\ now = "completed" => \A l \in LinesOf(r) : Reconciled(l, receipt'[l])
  BY AllowedFrom DEF Receive, Complete, LInv, LineTypes, Received
<1>3. LineTypes'
  BY <1>1, <1>2 DEF LInv, LineTypes, Status, Received, Terminal, LinesOf
<1>4. HoldIsWhatIsOwed'
  BY <1>1 DEF LInv, LineTypes, HoldIsWhatIsOwed, Unapproved, Received
<1>5. DecidedOnce' /\ CountedAfterIssue'
  BY <1>1, <1>2 DEF LInv, LineTypes, DecidedOnce, CountedAfterIssue, Undecided, Received, LinesOf
<1>6. NothingLostInTransit'
  <2>1. \A l \in Line : receipt'[l] # None => IsBalanced(l, receipt'[l])
    BY <1>1, <1>2 DEF LInv, NothingLostInTransit, IsBalanced
  <2>2. \A l \in Line : status'[LineRequest[l]] = "completed" /\ issued'[l] > 0 => receipt'[l] # None
    <3> SUFFICES ASSUME NEW l \in Line, status'[LineRequest[l]] = "completed", issued[l] > 0
                 PROVE  receipt'[l] # None
      BY <1>1
    <3>1. CASE LineRequest[l] = r
      BY <1>1, <3>1 DEF Reconciled, LinesOf, LInv, LineTypes
    <3>2. CASE LineRequest[l] # r
      BY <1>1, <1>2, <3>2 DEF LinesOf, LInv, LineTypes, NothingLostInTransit
    <3> QED BY <3>1, <3>2
  <2> QED BY <1>1, <2>1, <2>2 DEF NothingLostInTransit, IsBalanced
<1> QED BY <1>3, <1>4, <1>5, <1>6 DEF LInv

\* Corrections, and steps that change nothing of a request.
LEMMA QuietLInv ==
  ASSUME LInv, UNCHANGED <<status, asked, approved, issued, receipt, hold>>
  PROVE  LInv'
  BY DEF LInv, LineTypes, HoldIsWhatIsOwed, NothingLostInTransit, DecidedOnce, CountedAfterIssue,
         IsBalanced

LEMMA StepLInv ==
  ASSUME LInv, [Next]_vars
  PROVE  LInv'
<1>1. CASE UNCHANGED vars
  BY <1>1, QuietLInv DEF vars
<1>2. ASSUME NEW c \in Cell, NEW delta \in {-1, 1}, Correct(c, delta)
      PROVE  LInv'
  BY <1>2, QuietLInv DEF Correct
<1>3. ASSUME NEW r \in Request, NEW want \in [LinesOf(r) -> 1..MaxQty], NEW submit \in BOOLEAN,
             Create(r, want, submit)
      PROVE  LInv'
  BY <1>3, CreateLInv
<1>4. ASSUME NEW r \in Request, NEW offer \in [LinesOf(r) -> 0..MaxQty],
             Approve(r, offer) \/ Issue(r, offer)
      PROVE  LInv'
  BY <1>4, ApproveLInv, IssueLInv
<1>5. ASSUME NEW r \in Request, NEW given \in Counts(r), Receive(r, given) \/ Complete(r, given)
      PROVE  LInv'
  BY <1>5, CountLInv
<1>6. ASSUME NEW r \in Request, Submit(r) \/ Reject(r) \/ Cancel(r)
      PROVE  LInv'
  BY <1>6, DecisionLInv, CancelLInv
<1> QED BY <1>1, <1>2, <1>3, <1>4, <1>5, <1>6 DEF Next

-----------------------------------------------------------------------------
(* The stock                                                               *)

LEMMA LinesAtFinite ==
  ASSUME NEW c
  PROVE  IsFiniteSet({l \in Line : SourceCell[l] = c}) /\ IsFiniteSet({l \in Line : DestCell[l] = c})
  BY FS_Subset

\* Sums of lines that agree, of natural numbers, and of sums.
LEMMA MovedType ==
  ASSUME NEW units, \A l \in Line : units[l] \in Nat, NEW c
  PROVE  Drawn(units, c) \in Nat /\ Brought(units, c) \in Nat
  BY LinesAtFinite, SumNat DEF Drawn, Brought

LEMMA MovedInt ==
  ASSUME NEW units, \A l \in Line : units[l] \in Int, NEW c
  PROVE  Drawn(units, c) \in Int /\ Brought(units, c) \in Int
  BY LinesAtFinite, SumType DEF Drawn, Brought

LEMMA MovedZero ==
  ASSUME NEW units, \A l \in Line : units[l] = 0, NEW c
  PROVE  Drawn(units, c) = 0 /\ Brought(units, c) = 0
  BY LinesAtFinite, SumZero DEF Drawn, Brought

LEMMA MovedPlus ==
  ASSUME NEW units, NEW more, NEW now,
         \A l \in Line : units[l] \in Int /\ more[l] \in Int /\ now[l] = units[l] + more[l],
         NEW c
  PROVE  /\ Drawn(now, c) = Drawn(units, c) + Drawn(more, c)
         /\ Brought(now, c) = Brought(units, c) + Brought(more, c)
<1>1. ASSUME NEW S \in SUBSET Line, IsFiniteSet(S)
      PROVE  SumFunctionOnSet(now, S) = SumFunctionOnSet(units, S) + SumFunctionOnSet(more, S)
  BY <1>1, SumPlus
<1>2. Drawn(now, c) = Drawn(units, c) + Drawn(more, c)
  BY <1>1, LinesAtFinite DEF Drawn
<1>3. Brought(now, c) = Brought(units, c) + Brought(more, c)
  BY <1>1, LinesAtFinite DEF Brought
<1> QED BY <1>2, <1>3

LEMMA MovedEqual ==
  ASSUME NEW units, NEW same, \A l \in Line : units[l] = same[l], NEW c
  PROVE  Drawn(units, c) = Drawn(same, c) /\ Brought(units, c) = Brought(same, c)
  BY LinesAtFinite, SumEqual DEF Drawn, Brought

\* What transfers were counted, by line.
GoodIn == [l \in Line |-> IF LineRequest[l] \in Transfers THEN Good(l) ELSE 0]
BrokenIn == [l \in Line |-> IF LineRequest[l] \in Transfers THEN Broken(l) ELSE 0]

RowTypes ==
  /\ onHand \in [Cell -> 0..MaxStock]
  /\ damaged \in [Cell -> 0..MaxStock]
  /\ corrected \in [Cell -> Int]

Balanced ==
  \A c \in Cell :
    /\ onHand[c] = corrected[c] - Drawn(issued, c) + Brought(GoodIn, c)
    /\ damaged[c] = Brought(BrokenIn, c)

LEMMA BalancedIsAccounted ==
  Balanced <=> StockIsAccountedFor
<1> DEFINE transferred == {l \in Line : LineRequest[l] \in Transfers}
           good == [l \in Line |-> IF l \in transferred THEN Good(l) ELSE 0]
           broken == [l \in Line |-> IF l \in transferred THEN Broken(l) ELSE 0]
<1>1. GoodIn = good /\ BrokenIn = broken
  BY DEF GoodIn, BrokenIn
<1> QED BY <1>1 DEF Balanced, StockIsAccountedFor

SInv == LInv /\ RowTypes /\ Balanced

LEMMA CountedType ==
  ASSUME LineTypes, NEW l \in Line
  PROVE  Good(l) \in Nat /\ Broken(l) \in Nat /\ GoodIn[l] \in Nat /\ BrokenIn[l] \in Nat
  BY DEF LineTypes, Good, Broken, GoodIn, BrokenIn, Receipt

\* Steps that move no stock and count no receipt.
LEMMA QuietSInv ==
  ASSUME SInv, LInv', UNCHANGED <<issued, receipt, onHand, damaged, corrected>>
  PROVE  SInv'
  BY DEF SInv, RowTypes, Balanced, GoodIn, BrokenIn, Good, Broken, Drawn, Brought

LEMMA CorrectSInv ==
  ASSUME SInv, LInv', NEW c \in Cell, NEW delta \in {-1, 1}, Correct(c, delta)
  PROVE  SInv'
<1>1. /\ onHand[c] + delta \in 0..MaxStock
      /\ onHand' = [onHand EXCEPT ![c] = @ + delta]
      /\ corrected' = [corrected EXCEPT ![c] = @ + delta]
      /\ UNCHANGED <<issued, receipt, damaged>>
  BY DEF Correct
<1>2. RowTypes'
  BY <1>1 DEF SInv, RowTypes
<1>3. GoodIn' = GoodIn /\ BrokenIn' = BrokenIn
  BY <1>1 DEF GoodIn, BrokenIn, Good, Broken
<1>4. ASSUME NEW d \in Cell
      PROVE  /\ onHand'[d] = corrected'[d] - Drawn(issued, d) + Brought(GoodIn, d)
             /\ damaged'[d] = Brought(BrokenIn, d)
  <2>1. Drawn(issued, d) \in Nat /\ Brought(GoodIn, d) \in Nat
    BY MovedType, CountedType DEF SInv, LInv, LineTypes
  <2> QED BY <1>1, <2>1 DEF SInv, RowTypes, Balanced
<1>5. Balanced'
  BY <1>1, <1>3, <1>4 DEF Balanced, Drawn, Brought
<1> QED BY <1>2, <1>5 DEF SInv

\* What is issued leaves the source.
LEMMA IssueSInv ==
  ASSUME SInv, LInv', NEW r \in Request, NEW take, Takes(r, take)
  PROVE  SInv'
<1>1. /\ take \in [Line -> 0..MaxQty]
      /\ issued' = [l \in Line |-> issued[l] + take[l]]
      /\ onHand' = [c \in Cell |-> onHand[c] - Drawn(take, c)]
      /\ \A c \in Cell : Drawn(take, c) <= onHand[c]
      /\ UNCHANGED <<receipt, damaged, corrected>>
  BY DEF Takes
<1>2. GoodIn' = GoodIn /\ BrokenIn' = BrokenIn
  BY <1>1 DEF GoodIn, BrokenIn, Good, Broken
<1>3. ASSUME NEW c \in Cell
      PROVE  /\ Drawn(take, c) \in Nat
             /\ Drawn(issued', c) = Drawn(issued, c) + Drawn(take, c)
             /\ Drawn(issued, c) \in Nat /\ Brought(GoodIn, c) \in Nat
  <2>1. \A l \in Line : issued[l] \in Nat /\ take[l] \in Nat /\ issued'[l] = issued[l] + take[l]
    BY <1>1 DEF SInv, LInv, LineTypes
  <2>2. Drawn(issued', c) = Drawn(issued, c) + Drawn(take, c)
    BY <2>1, MovedPlus
  <2> QED BY <2>1, <2>2, MovedType, CountedType DEF SInv, LInv
<1>4. RowTypes'
  <2>1. \A c \in Cell : onHand[c] - Drawn(take, c) \in 0..MaxStock
    <3> SUFFICES ASSUME NEW c \in Cell
                 PROVE  onHand[c] - Drawn(take, c) \in 0..MaxStock
      OBVIOUS
    <3>1. onHand[c] \in 0..MaxStock
      BY DEF SInv, RowTypes
    <3> PICK taken \in Nat : taken = Drawn(take, c)
      BY <1>3
    <3>2. taken <= onHand[c]
      BY <1>1
    <3> QED BY <3>1, <3>2
  <2> QED BY <1>1, <2>1 DEF SInv, RowTypes
<1>5. ASSUME NEW c \in Cell
      PROVE  onHand'[c] = corrected[c] - Drawn(issued', c) + Brought(GoodIn, c)
  BY <1>1, <1>3 DEF SInv, RowTypes, Balanced
<1>6. Balanced'
  BY <1>1, <1>2, <1>5 DEF SInv, Balanced, Drawn, Brought
<1> QED BY <1>4, <1>6 DEF SInv

\* What is counted arrives, less what was counted before.
LEMMA CountSInv ==
  ASSUME SInv, LInv', NEW r \in Request, NEW given \in Counts(r),
         RecordReceipts(r, given), UNCHANGED <<issued, corrected>>
  PROVE  SInv'
<1> DEFINE credited == IF r \in Transfers THEN DOMAIN given ELSE {}
           sound == [l \in Line |-> IF l \in credited THEN given[l].received - Good(l) ELSE 0]
           faulty == [l \in Line |-> IF l \in credited THEN given[l].damaged - Broken(l) ELSE 0]
<1>0. /\ DOMAIN given \subseteq LinesOf(r)
      /\ \A l \in DOMAIN given : given[l] \in Receipt /\ given[l] # None
  BY CountsType
<1>1. /\ receipt' = [l \in Line |-> IF l \in DOMAIN given THEN given[l] ELSE receipt[l]]
      /\ onHand' = [c \in Cell |-> onHand[c] + Brought(sound, c)]
      /\ damaged' = [c \in Cell |-> damaged[c] + Brought(faulty, c)]
      /\ \A c \in Cell : onHand'[c] \in 0..MaxStock /\ damaged'[c] \in 0..MaxStock
  <2> DEFINE good == [l \in DOMAIN given |-> given[l].received - Good(l)]
             broken == [l \in DOMAIN given |-> given[l].damaged - Broken(l)]
  <2>1. sound = [l \in Line |-> IF l \in credited THEN good[l] ELSE 0]
    OBVIOUS
  <2>2. faulty = [l \in Line |-> IF l \in credited THEN broken[l] ELSE 0]
    OBVIOUS
  <2> HIDE DEF sound, faulty
  <2> QED BY <2>1, <2>2 DEF RecordReceipts, Capture, Credit
<1>2. \A l \in Line : /\ sound[l] \in Int /\ faulty[l] \in Int
                      /\ GoodIn'[l] = GoodIn[l] + sound[l]
                      /\ BrokenIn'[l] = BrokenIn[l] + faulty[l]
  <2> SUFFICES ASSUME NEW l \in Line
               PROVE  /\ sound[l] \in Int /\ faulty[l] \in Int
                      /\ GoodIn'[l] = GoodIn[l] + sound[l]
                      /\ BrokenIn'[l] = BrokenIn[l] + faulty[l]
    OBVIOUS
  <2>1. Good(l) \in Nat /\ Broken(l) \in Nat
    BY CountedType DEF SInv, LInv
  <2>2. CASE l \in DOMAIN given
    <3>1. given[l].received \in Nat /\ given[l].damaged \in Nat
      BY <1>0, <2>2 DEF Receipt
    <3>2. Good(l)' = given[l].received /\ Broken(l)' = given[l].damaged
      BY <1>0, <1>1, <2>2 DEF Good, Broken
    <3>3. LineRequest[l] = r
      BY <1>0, <2>2 DEF LinesOf
    <3> QED BY <2>1, <2>2, <3>1, <3>2, <3>3 DEF GoodIn, BrokenIn
  <2>3. CASE l \notin DOMAIN given
    <3>1. Good(l)' = Good(l) /\ Broken(l)' = Broken(l)
      BY <1>1, <2>3 DEF Good, Broken
    <3> QED BY <2>1, <2>3, <3>1 DEF GoodIn, BrokenIn
  <2> QED BY <2>2, <2>3
<1> HIDE DEF sound, faulty
<1>3. ASSUME NEW c \in Cell
      PROVE  /\ onHand'[c] = corrected[c] - Drawn(issued, c) + Brought(GoodIn', c)
             /\ damaged'[c] = Brought(BrokenIn', c)
  <2>1. /\ Drawn(issued, c) \in Nat /\ Brought(GoodIn, c) \in Nat /\ Brought(BrokenIn, c) \in Nat
    BY MovedType, CountedType DEF SInv, LInv, LineTypes
  <2>2. Brought(sound, c) \in Int /\ Brought(faulty, c) \in Int
    BY <1>2, MovedInt
  <2>3. \A l \in Line : GoodIn[l] \in Int /\ BrokenIn[l] \in Int
    BY CountedType DEF SInv, LInv
  <2> PICK goodWas, goodNow : goodWas = GoodIn /\ goodNow = GoodIn'
    OBVIOUS
  <2> PICK brokenWas, brokenNow : brokenWas = BrokenIn /\ brokenNow = BrokenIn'
    OBVIOUS
  <2>6. \A l \in Line : /\ goodWas[l] \in Int /\ sound[l] \in Int
                        /\ goodNow[l] = goodWas[l] + sound[l]
    BY <1>2, <2>3
  <2>7. \A l \in Line : /\ brokenWas[l] \in Int /\ faulty[l] \in Int
                        /\ brokenNow[l] = brokenWas[l] + faulty[l]
    BY <1>2, <2>3
  <2>4. Brought(goodNow, c) = Brought(goodWas, c) + Brought(sound, c)
    BY <2>6, MovedPlus
  <2>5. Brought(brokenNow, c) = Brought(brokenWas, c) + Brought(faulty, c)
    BY <2>7, MovedPlus
  <2> QED BY <1>1, <2>1, <2>2, <2>4, <2>5 DEF SInv, RowTypes, Balanced
<1>4. Balanced'
  BY <1>3 DEF Balanced, Drawn, Brought
<1>5. RowTypes'
  BY <1>1 DEF SInv, RowTypes
<1> QED BY <1>4, <1>5 DEF SInv

LEMMA InitSInv ==
  ASSUME Init
  PROVE  SInv
<1>1. \A l \in Line : issued[l] = 0 /\ GoodIn[l] = 0 /\ BrokenIn[l] = 0
  BY DEF Init, GoodIn, BrokenIn, Good, Broken
<1>2. \A c \in Cell : /\ Drawn(issued, c) = 0
                      /\ Brought(GoodIn, c) = 0 /\ Brought(BrokenIn, c) = 0
  BY <1>1, MovedZero
<1>3. Balanced
  BY <1>2 DEF Init, Balanced
<1>4. RowTypes
  BY DEF Init, RowTypes
<1> QED BY <1>3, <1>4, InitLInv DEF SInv

LEMMA StepSInv ==
  ASSUME SInv, [Next]_vars
  PROVE  SInv'
<1>0. LInv'
  BY StepLInv DEF SInv
<1>1. CASE UNCHANGED vars
  BY <1>0, <1>1, QuietSInv DEF vars, stock
<1>2. ASSUME NEW c \in Cell, NEW delta \in {-1, 1}, Correct(c, delta)
      PROVE  SInv'
  BY <1>0, <1>2, CorrectSInv
<1>3. ASSUME NEW r \in Request, NEW want \in [LinesOf(r) -> 1..MaxQty], NEW submit \in BOOLEAN,
             Create(r, want, submit)
      PROVE  SInv'
  BY <1>0, <1>3, QuietSInv DEF Create, stock
<1>4. ASSUME NEW r \in Request, NEW offer \in [LinesOf(r) -> 0..MaxQty], Approve(r, offer)
      PROVE  SInv'
  BY <1>0, <1>4, QuietSInv DEF Approve, Grants, stock
<1>5. ASSUME NEW r \in Request, Submit(r) \/ Reject(r) \/ Cancel(r)
      PROVE  SInv'
  BY <1>0, <1>5, QuietSInv DEF Submit, Reject, Cancel, stock
<1>6. ASSUME NEW r \in Request, NEW wanted \in [LinesOf(r) -> 0..MaxQty], Issue(r, wanted)
      PROVE  SInv'
  <2>1. PICK take : Takes(r, take)
    BY <1>6, IssueTakes DEF SInv
  <2> QED BY <1>0, <2>1, IssueSInv
<1>7. ASSUME NEW r \in Request, NEW given \in Counts(r), Receive(r, given) \/ Complete(r, given)
      PROVE  SInv'
  <2>1. RecordReceipts(r, given) /\ UNCHANGED <<issued, corrected>>
    BY <1>7 DEF Receive, Complete
  <2> QED BY <1>0, <2>1, CountSInv
<1> QED BY <1>1, <1>2, <1>3, <1>4, <1>5, <1>6, <1>7 DEF Next

\* The columns keep their types and CHECKs.
THEOREM Typing == Spec => []TypeOK
<1>1. SInv => TypeOK
  BY DEF SInv, LInv, LineTypes, RowTypes, TypeOK
<1> QED BY InitSInv, StepSInv, <1>1, PTL DEF Spec

\* Once approved a line holds exactly what it is owed, and never more is issued
\* than was approved: issue_line may look at on-hand stock only.
THEOREM HoldsAreOwed == Spec => []HoldIsWhatIsOwed
<1>1. SInv => HoldIsWhatIsOwed
  BY DEF SInv, LInv
<1> QED BY InitSInv, StepSInv, <1>1, PTL DEF Spec

\* What left the source is counted or still on its way; completion needs both.
THEOREM TransitIsCounted == Spec => []NothingLostInTransit
<1>1. SInv => NothingLostInTransit
  BY DEF SInv, LInv
<1> QED BY InitSInv, StepSInv, <1>1, PTL DEF Spec

\* Every unit of a row is explained by corrections, issues and receipts, however
\* many lines share the row and however often a receipt is corrected.
THEOREM StockIsConserved == Spec => []StockIsAccountedFor
<1>1. SInv => StockIsAccountedFor
  BY BalancedIsAccounted DEF SInv
<1> QED BY InitSInv, StepSInv, <1>1, PTL DEF Spec

-----------------------------------------------------------------------------
(* Promises                                                                *)

LEMMA AvailableType ==
  ASSUME SInv, NEW c \in Cell
  PROVE  /\ Drawn(hold, c) \in Nat /\ onHand[c] \in Int /\ damaged[c] \in Int
         /\ Available(c) \in Int
  BY MovedType DEF SInv, LInv, LineTypes, RowTypes, Available, Reserved

\* What a grant adds to the holds.
LEMMA GrantedHold ==
  ASSUME SInv, NEW r \in Request, NEW offer \in [LinesOf(r) -> 0..MaxQty],
         Grants(r, Grant(r, offer)), NEW c \in Cell
  PROVE  /\ Drawn(Grant(r, offer), c) \in Nat
         /\ Drawn(hold', c) = Drawn(hold, c) + Drawn(Grant(r, offer), c)
<1>1. PICK grant : grant = Grant(r, offer)
  OBVIOUS
<1>2. /\ grant \in [Line -> 0..MaxQty]
      /\ \A l \in Line : l \notin LinesOf(r) => grant[l] = 0
  BY <1>1, GrantType DEF SInv, LInv
<1>3. \A l \in LinesOf(r) : hold[l] = 0
  BY DEF Grants, SInv, LInv, HoldIsWhatIsOwed, LinesOf, Unapproved
<1>4. hold' = [l \in Line |-> IF l \in LinesOf(r) THEN grant[l] ELSE hold[l]]
  BY <1>1 DEF Grants
<1>5. \A l \in Line : hold[l] \in Nat
  BY DEF SInv, LInv, LineTypes
<1>6. \A l \in Line : hold[l] \in Nat /\ grant[l] \in Nat /\ hold'[l] = hold[l] + grant[l]
  BY <1>2, <1>3, <1>4, <1>5 DEF LinesOf
<1>7. Drawn(hold', c) = Drawn(hold, c) + Drawn(grant, c)
  BY <1>6, MovedPlus
<1> QED BY <1>1, <1>6, <1>7, MovedType

LEMMA ApprovePromise ==
  ASSUME SInv, SInv', NEW r \in Request, NEW offer \in [LinesOf(r) -> 0..MaxQty],
         Approve(r, offer), NEW c \in Cell
  PROVE  Available(c)' >= 0 \/ Available(c)' = Available(c)
<1>1. PICK taken \in Nat : taken = Drawn(Grant(r, offer), c)
  BY GrantedHold DEF Approve
<1>2. Drawn(hold', c) = Drawn(hold, c) + taken
  BY <1>1, GrantedHold DEF Approve
<1>3. onHand' = onHand /\ damaged' = damaged
  BY DEF Approve, Grants, stock
<1>4. taken > 0 => Available(c) >= taken
  BY <1>1 DEF Approve
<1>5. Available(c)' = onHand[c] - Drawn(hold', c) - damaged[c]
  BY <1>3 DEF Available, Reserved, Drawn
<1>6. Available(c) = onHand[c] - Drawn(hold, c) - damaged[c]
  BY DEF Available, Reserved
<1> QED BY <1>1, <1>2, <1>4, <1>5, <1>6, AvailableType

LEMMA CancelPromise ==
  ASSUME SInv, SInv', NEW r \in Request, Cancel(r), NEW c \in Cell
  PROVE  Available(c)' >= Available(c)
<1>1. /\ hold' = [l \in Line |->
                    IF l \in LinesOf(r) /\ status[r] \in ApprovedStates THEN 0 ELSE hold[l]]
      /\ onHand' = onHand /\ damaged' = damaged
  BY DEF Cancel, stock
<1>2. \A l \in Line : hold[l] \in Int /\ hold'[l] \in Int /\ hold'[l] <= hold[l]
  BY <1>1 DEF SInv, LInv, LineTypes
<1>3. Drawn(hold', c) <= Drawn(hold, c)
  BY <1>2, LinesAtFinite, SumMonotone DEF Drawn
<1>4. Drawn(hold', c) \in Nat
  BY MovedType DEF SInv, LInv, LineTypes
<1>5. Available(c)' = onHand[c] - Drawn(hold', c) - damaged[c]
  BY <1>1 DEF Available, Reserved, Drawn
<1> QED BY <1>3, <1>4, <1>5, AvailableType DEF Available, Reserved

LEMMA IssuePromise ==
  ASSUME SInv, SInv', NEW r \in Request, NEW take, Takes(r, take), NEW c \in Cell
  PROVE  Available(c)' = Available(c)
<1>1. /\ take \in [Line -> 0..MaxQty]
      /\ hold' = [l \in Line |-> hold[l] - take[l]]
      /\ onHand' = [d \in Cell |-> onHand[d] - Drawn(take, d)]
      /\ damaged' = damaged
  BY DEF Takes
<1>2. \A l \in Line : hold'[l] \in Nat /\ take[l] \in Nat /\ hold[l] = hold'[l] + take[l]
  BY <1>1 DEF SInv, LInv, LineTypes
<1>3. Drawn(hold, c) = Drawn(hold', c) + Drawn(take, c)
  BY <1>2, MovedPlus
<1>4. Drawn(hold', c) \in Nat /\ Drawn(take, c) \in Nat
  BY <1>2, MovedType
<1>5. Available(c)' = onHand[c] - Drawn(take, c) - Drawn(hold', c) - damaged[c]
  BY <1>1 DEF Available, Reserved, Drawn
<1> QED BY <1>3, <1>4, <1>5, AvailableType DEF Available, Reserved

\* A receipt that repeats what was counted moves nothing.
LEMMA RecountPromise ==
  ASSUME SInv, SInv', UNCHANGED <<issued, receipt, hold, corrected>>, NEW c \in Cell
  PROVE  Available(c)' = Available(c)
<1>1. GoodIn' = GoodIn /\ BrokenIn' = BrokenIn
  BY DEF GoodIn, BrokenIn, Good, Broken
<1>2. onHand'[c] = onHand[c] /\ damaged'[c] = damaged[c]
  BY <1>1 DEF SInv, Balanced, Drawn, Brought
<1> QED BY <1>2 DEF Available, Reserved, Drawn

PromiseStep(c) ==
  Available(c)' < 0 /\ Available(c)' < Available(c) =>
    \/ \E delta \in {-1, 1} : Correct(c, delta)
    \/ receipt' # receipt

LEMMA KeptPromise ==
  ASSUME SInv, SInv', [Next]_vars, NEW c \in Cell
  PROVE  PromiseStep(c)
<1>0. Available(c) \in Int /\ Available(c)' \in Int
  <2>1. Drawn(hold', c) \in Nat /\ onHand'[c] \in Int /\ damaged'[c] \in Int
    BY MovedType DEF SInv, LInv, LineTypes, RowTypes
  <2> QED BY <2>1, AvailableType DEF Available, Reserved, Drawn
<1>1. CASE UNCHANGED <<onHand, damaged, hold>>
  <2>1. Available(c)' = Available(c)
    BY <1>1 DEF Available, Reserved, Drawn
  <2> QED BY <1>0, <2>1 DEF PromiseStep
<1>2. ASSUME NEW d \in Cell, NEW delta \in {-1, 1}, Correct(d, delta)
      PROVE  PromiseStep(c)
  <2>1. CASE d = c
    BY <1>2, <2>1 DEF PromiseStep
  <2>2. CASE d # c
    <3>1. Available(c)' = Available(c)
      BY <1>2, <2>2 DEF Correct, Available, Reserved, Drawn, SInv, RowTypes
    <3> QED BY <1>0, <3>1 DEF PromiseStep
  <2> QED BY <2>1, <2>2
<1>3. ASSUME NEW r \in Request, NEW offer \in [LinesOf(r) -> 0..MaxQty], Approve(r, offer)
      PROVE  PromiseStep(c)
  <2>1. Available(c)' >= 0 \/ Available(c)' = Available(c)
    BY <1>3, ApprovePromise
  <2> QED BY <1>0, <2>1 DEF PromiseStep
<1>4. ASSUME NEW r \in Request, Cancel(r)
      PROVE  PromiseStep(c)
  <2>1. Available(c)' >= Available(c)
    BY <1>4, CancelPromise
  <2> QED BY <1>0, <2>1 DEF PromiseStep
<1>5. ASSUME NEW r \in Request, NEW wanted \in [LinesOf(r) -> 0..MaxQty], Issue(r, wanted)
      PROVE  PromiseStep(c)
  <2>1. PICK take : Takes(r, take)
    BY <1>5, IssueTakes DEF SInv
  <2>2. Available(c)' = Available(c)
    BY <2>1, IssuePromise
  <2> QED BY <1>0, <2>2 DEF PromiseStep
<1>6. ASSUME NEW r \in Request, NEW given \in Counts(r), Receive(r, given) \/ Complete(r, given)
      PROVE  PromiseStep(c)
  <2>1. CASE receipt' # receipt
    BY <2>1 DEF PromiseStep
  <2>2. CASE receipt' = receipt
    <3>1. Available(c)' = Available(c)
      BY <1>6, <2>2, RecountPromise DEF Receive, Complete
    <3> QED BY <1>0, <3>1 DEF PromiseStep
  <2> QED BY <2>1, <2>2
<1>7. ASSUME NEW r \in Request, NEW want \in [LinesOf(r) -> 1..MaxQty], NEW submit \in BOOLEAN,
             Create(r, want, submit)
      PROVE  PromiseStep(c)
  BY <1>1, <1>7 DEF Create, stock
<1>8. ASSUME NEW r \in Request, Submit(r) \/ Reject(r)
      PROVE  PromiseStep(c)
  BY <1>1, <1>8 DEF Submit, Reject, stock
<1>9. CASE UNCHANGED vars
  BY <1>1, <1>9 DEF vars, stock
<1> QED BY <1>2, <1>3, <1>4, <1>5, <1>6, <1>7, <1>8, <1>9 DEF Next

\* Approvals, issues and cancellations never promise one unit twice.
THEOREM PromisesAreKept == Spec => ApprovalsArePromises
<1> DEFINE Kept == \A c \in Cell : PromiseStep(c)
<1>1. ASSUME SInv, SInv', [Next]_vars
      PROVE  [Kept]_vars
  BY <1>1, KeptPromise
<1>2. Spec => [][Kept]_vars
  BY InitSInv, StepSInv, <1>1, PTL DEF Spec
<1> QED BY <1>2 DEF ApprovalsArePromises, PromiseStep
=============================================================================
