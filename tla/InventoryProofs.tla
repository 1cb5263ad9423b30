--------------------------- MODULE InventoryProofs ---------------------------
(***************************************************************************)
(* Proofs about the stock core, for any products, warehouses, demand lines *)
(* and bounds.  The inductive invariant IInv is built in layers: typing,    *)
(* then the reservations (which needs a count of held units), then the      *)
(* ledger (which needs the reservations, because consume() and release()    *)
(* clip qty_reserved at zero), then the demand feed.  The requests that       *)
(* interleave on this state follow (StockTransactions), and the reports on    *)
(* stock and suppliers that read it: what their figures add up to.            *)
(***************************************************************************)
EXTENDS Inventory, StockTransactions, StockReports, Sums, SequenceTheorems

USE DEF Cell, MovementKind, HoldStatus, HoldRow, Lesser, Greater, Held, OwnHold

-----------------------------------------------------------------------------
(* Typing                                                                  *)

\* Issue movements only ever take stock out.
IssuesAreOutflows == \A c \in Cell : ledger[c]["issue"] <= 0

TypeInv == TypeOK /\ IssuesAreOutflows

LEMMA InitTypeInv == Init => TypeInv
  BY BoundsAssumption DEF Init, TypeInv, TypeOK, IssuesAreOutflows

LEMMA BasketType ==
  ASSUME NEW b \in Basket, NEW p \in Product
  PROVE  b[p] \in Nat
  BY BoundsAssumption DEF Basket

LEMMA CellParts ==
  ASSUME NEW c \in Cell
  PROVE  c[1] \in Product /\ c[2] \in Warehouse /\ c = <<c[1], c[2]>>
  OBVIOUS

\* What a row of the ledger adds up to, and what posting a movement does to it.
RowSums == {r \in [MovementKind -> Int] : r["issue"] <= 0}
LedgerType == [Cell -> RowSums]

LEMMA PostedAt ==
  ASSUME NEW r \in RowSums, NEW k \in MovementKind, NEW q \in Int
  PROVE  /\ \A j \in MovementKind :
              Posted(r, k, q)[j] = IF j = k THEN r[j] + q ELSE r[j]
         /\ (k = "issue" => q <= 0) => Posted(r, k, q) \in RowSums
  BY DEF Posted, RowSums

LEMMA LedgerUpdate ==
  ASSUME NEW f \in LedgerType, NEW c \in Cell, NEW r \in RowSums
  PROVE  [f EXCEPT ![c] = r] \in LedgerType
  BY DEF LedgerType

LEMMA LedgerTypeInv == TypeInv => ledger \in LedgerType
  BY DEF TypeInv, TypeOK, IssuesAreOutflows, LedgerType, RowSums

LEMMA PostTyped ==
  ASSUME TypeInv, NEW c \in Cell, NEW k \in MovementKind, NEW q \in Int,
         k = "issue" => q <= 0
  PROVE  Post(c, k, q) \in LedgerType
<1>1. Posted(ledger[c], k, q) \in RowSums
  BY LedgerTypeInv, PostedAt DEF LedgerType
<1> QED BY <1>1, LedgerTypeInv, LedgerUpdate DEF Post

\* Typing of the successor state, from its parts.
LEMMA TypeInvParts ==
  ASSUME onHand' \in [Cell -> 0..MaxStock], reserved' \in [Cell -> Nat],
         damaged' \in [Cell -> 0..MaxStock], ledger' \in LedgerType,
         hold' \in [Line -> HoldRow],
         demand' \in [Cell -> [sale : Nat, issue : Nat]]
  PROVE  TypeInv'
  BY DEF TypeInv, TypeOK, IssuesAreOutflows, LedgerType, RowSums

LEMMA ReceiveTyped ==
  ASSUME TypeInv, NEW w \in Warehouse, NEW b \in Basket, Receive(w, b)
  PROVE  TypeInv'
<1>1. ASSUME NEW c \in Cell
      PROVE  onHand'[c] \in 0..MaxStock
  <2>1. c[1] \in Product /\ c = <<c[1], c[2]>> /\ b[c[1]] \in Nat
    BY CellParts, BasketType
  <2>2. onHand[c] \in 0..MaxStock
    BY DEF TypeInv, TypeOK
  <2>3. CASE c[2] = w
    <3>1. onHand[c] + b[c[1]] <= MaxStock
      BY <2>1, <2>3 DEF Receive
    <3>2. onHand'[c] = onHand[c] + b[c[1]]
      BY <2>3 DEF Receive
    <3> QED BY <2>1, <2>2, <3>1, <3>2, BoundsAssumption
  <2>4. CASE c[2] # w
    BY <2>2, <2>4 DEF Receive
  <2> QED BY <2>3, <2>4
<1>2. ASSUME NEW c \in Cell
      PROVE  ledger'[c] \in RowSums
  <2>1. b[c[1]] \in Int /\ ledger[c] \in RowSums
    BY CellParts, BasketType, LedgerTypeInv DEF LedgerType
  <2>2. Posted(ledger[c], "stock", b[c[1]]) \in RowSums
    BY <2>1, PostedAt
  <2> QED BY <2>1, <2>2 DEF Receive
<1>3. onHand' \in [Cell -> 0..MaxStock] /\ ledger' \in LedgerType
  BY <1>1, <1>2 DEF Receive, LedgerType
<1> QED
  BY <1>3, TypeInvParts DEF Receive, TypeInv, TypeOK

LEMMA IssueTyped ==
  ASSUME TypeInv, NEW w \in Warehouse, NEW b \in Basket, Issue(w, b)
  PROVE  TypeInv'
<1>1. ASSUME NEW c \in Cell
      PROVE  onHand'[c] \in 0..MaxStock
  <2>1. c[1] \in Product /\ c = <<c[1], c[2]>> /\ b[c[1]] \in Nat
    BY CellParts, BasketType
  <2>2. onHand[c] \in 0..MaxStock /\ reserved[c] \in Nat /\ damaged[c] \in Nat
    BY DEF TypeInv, TypeOK
  <2>3. CASE c[2] = w
    <3>1. b[c[1]] > 0 => Available(c) >= b[c[1]]
      BY <2>1, <2>3 DEF Issue
    <3>2. onHand'[c] = onHand[c] - b[c[1]]
      BY <2>3 DEF Issue
    <3> QED BY <2>1, <2>2, <3>1, <3>2, BoundsAssumption DEF Available
  <2>4. CASE c[2] # w
    BY <2>2, <2>4 DEF Issue
  <2> QED BY <2>3, <2>4
<1>2. ASSUME NEW c \in Cell
      PROVE  ledger'[c] \in RowSums
  <2>1. -b[c[1]] \in Int /\ -b[c[1]] <= 0 /\ ledger[c] \in RowSums
    BY CellParts, BasketType, LedgerTypeInv DEF LedgerType
  <2>2. Posted(ledger[c], "issue", -b[c[1]]) \in RowSums
    BY <2>1, PostedAt
  <2> QED BY <2>1, <2>2 DEF Issue
<1>3. onHand' \in [Cell -> 0..MaxStock] /\ ledger' \in LedgerType
  BY <1>1, <1>2 DEF Issue, LedgerType
<1> QED
  BY <1>3, TypeInvParts DEF Issue, TypeInv, TypeOK

LEMMA RowOpsTyped ==
  ASSUME TypeInv, NEW c \in Cell, NEW q \in Int
  PROVE  /\ q >= 0 /\ OpeningBalance(c, q) => TypeInv'
         /\ Adjust(c, q) => TypeInv'
         /\ q >= 0 /\ (\E s \in BOOLEAN : IssueFree(c, q, s)) => TypeInv'
         /\ \A e \in Int : ReceiveTransferLine(c, q, e) => TypeInv'
<1>1. q >= 0 /\ OpeningBalance(c, q) => TypeInv'
  BY BoundsAssumption, PostTyped, TypeInvParts DEF OpeningBalance, TypeInv, TypeOK
<1>2. Adjust(c, q) => TypeInv'
  BY BoundsAssumption, PostTyped, TypeInvParts DEF Adjust, TypeInv, TypeOK
<1>3. ASSUME q >= 0, NEW s \in BOOLEAN, IssueFree(c, q, s)
      PROVE  TypeInv'
  <2>1. Post(c, "issue", -q) \in LedgerType
    BY <1>3, PostTyped
  <2>2. onHand' \in [Cell -> 0..MaxStock]
    BY <1>3, BoundsAssumption DEF IssueFree, TypeInv, TypeOK
  <2>3. demand' \in [Cell -> [sale : Nat, issue : Nat]]
    <3>1. demand[c].sale \in Nat /\ demand[c].issue \in Nat
      BY DEF TypeInv, TypeOK
    <3>2. [demand[c] EXCEPT !.sale = @ + q] \in [sale : Nat, issue : Nat]
      BY <1>3, <3>1 DEF TypeInv, TypeOK
    <3>3. \/ demand' = [demand EXCEPT ![c] = [demand[c] EXCEPT !.sale = @ + q]]
          \/ demand' = demand
      BY <1>3 DEF IssueFree
    <3> QED BY <3>2, <3>3 DEF TypeInv, TypeOK
  <2> QED
    BY <1>3, <2>1, <2>2, <2>3, TypeInvParts DEF IssueFree, TypeInv, TypeOK
<1>4. ASSUME NEW e \in Int, ReceiveTransferLine(c, q, e)
      PROVE  TypeInv'
  <2>1. Posted(ledger[c], "stock", q) \in RowSums
    BY LedgerTypeInv, PostedAt DEF LedgerType
  <2>2. Posted(Posted(ledger[c], "stock", q), "damage", e) \in RowSums
    BY <2>1, PostedAt
  <2>3. ledger' \in LedgerType
    BY <1>4, <2>2, LedgerTypeInv, LedgerUpdate DEF ReceiveTransferLine
  <2>4. onHand' \in [Cell -> 0..MaxStock] /\ damaged' \in [Cell -> 0..MaxStock]
    BY <1>4 DEF ReceiveTransferLine, TypeInv, TypeOK
  <2> QED
    BY <1>4, <2>3, <2>4, TypeInvParts DEF ReceiveTransferLine, TypeInv, TypeOK
<1> QED BY <1>1, <1>2, <1>3, <1>4

LEMMA TransferTyped ==
  ASSUME TypeInv, NEW p \in Product, NEW from \in Warehouse, NEW to \in Warehouse,
         NEW q \in Nat, Transfer(p, from, to, q)
  PROVE  TypeInv'
<1> DEFINE src == <<p, from>>
           dst == <<p, to>>
<1>1. src \in Cell /\ dst \in Cell /\ src # dst
  BY DEF Transfer
<1> HIDE DEF src, dst
<1>2. /\ Available(src) >= q
      /\ onHand[dst] + q <= MaxStock
      /\ onHand' = [onHand EXCEPT ![src] = @ - q, ![dst] = @ + q]
      /\ ledger' = [ledger EXCEPT ![src] = Posted(@, "stock", -q),
                                  ![dst] = Posted(@, "stock", q)]
      /\ UNCHANGED <<reserved, damaged, hold, demand>>
  BY DEF Transfer, src, dst
<1>3. onHand' \in [Cell -> 0..MaxStock]
  BY <1>1, <1>2, BoundsAssumption DEF Available, TypeInv, TypeOK
<1>4. ledger' \in LedgerType
  <2>1. /\ Posted(ledger[src], "stock", -q) \in RowSums
        /\ Posted(ledger[dst], "stock", q) \in RowSums
    BY <1>1, LedgerTypeInv, PostedAt DEF LedgerType
  <2> QED BY <1>1, <1>2, <2>1, LedgerTypeInv DEF LedgerType
<1> QED BY <1>2, <1>3, <1>4, TypeInvParts DEF TypeInv, TypeOK

LEMMA ReserveTyped ==
  ASSUME TypeInv, NEW l \in Line, NEW q \in Nat, Reserve(l, q)
  PROVE  TypeInv'
<1>1. LineCell[l] \in Cell
  BY LineCellAssumption
<1>2. q <= onHand[LineCell[l]]
  BY <1>1 DEF Reserve, Available, TypeInv, TypeOK
<1>3. q \in 0..MaxStock
  BY <1>1, <1>2, BoundsAssumption DEF TypeInv, TypeOK
<1>4. ledger' \in LedgerType
  BY <1>1, PostTyped DEF Reserve
<1>5. reserved' \in [Cell -> Nat] /\ hold' \in [Line -> HoldRow]
  BY <1>1, <1>3 DEF Reserve, TypeInv, TypeOK
<1> QED BY <1>4, <1>5, TypeInvParts DEF Reserve, TypeInv, TypeOK

LEMMA ReleaseTyped ==
  ASSUME TypeInv, NEW l \in Line, Release(l)
  PROVE  TypeInv'
<1> DEFINE c == LineCell[l]
           q == hold[l].qty
<1>1. c \in Cell /\ q \in Nat
  BY LineCellAssumption, BoundsAssumption DEF TypeInv, TypeOK
<1>2. reserved' \in [Cell -> Nat]
  <2>1. Greater(0, reserved[c] - q) \in Nat
    BY <1>1 DEF TypeInv, TypeOK
  <2>2. reserved' = [reserved EXCEPT ![c] = Greater(0, reserved[c] - q)]
    BY DEF Release
  <2> QED BY <2>1, <2>2 DEF TypeInv, TypeOK
<1>3. hold' \in [Line -> HoldRow]
  BY BoundsAssumption DEF Release, TypeInv, TypeOK
<1>4. ledger' \in LedgerType
  BY <1>1, PostTyped DEF Release
<1> QED
  BY <1>2, <1>3, <1>4, TypeInvParts DEF Release, TypeInv, TypeOK

LEMMA ConsumeHoldTyped ==
  ASSUME TypeInv, NEW l \in Line, NEW q \in Nat, ConsumeHold(l, q)
  PROVE  reserved' \in [Cell -> Nat] /\ hold' \in [Line -> HoldRow]
<1>1. OwnHold(l) \in 0..MaxStock
  BY BoundsAssumption DEF TypeInv, TypeOK
<1>2. CASE Lesser(q, OwnHold(l)) <= 0
  BY <1>2 DEF ConsumeHold, TypeInv, TypeOK
<1>3. CASE Lesser(q, OwnHold(l)) > 0
  <2> DEFINE left == OwnHold(l) - Lesser(q, OwnHold(l))
  <2>1. left \in 0..MaxStock
    BY <1>1, <1>3, BoundsAssumption
  <2>2. hold' = [hold EXCEPT ![l] =
           [qty |-> left, status |-> IF left <= 0 THEN "consumed" ELSE "active"]]
    BY <1>1, <1>3 DEF ConsumeHold
  <2>3. hold' \in [Line -> HoldRow]
    BY <2>1, <2>2 DEF TypeInv, TypeOK
  <2>4. reserved' \in [Cell -> Nat]
    <3>1. LineCell[l] \in Cell
      BY LineCellAssumption
    <3>2. Greater(0, reserved[LineCell[l]] - Lesser(q, OwnHold(l))) \in Nat
      BY <1>1, <3>1 DEF TypeInv, TypeOK
    <3>3. reserved' = [reserved EXCEPT ![LineCell[l]] =
                         Greater(0, reserved[LineCell[l]] - Lesser(q, OwnHold(l)))]
      BY <1>1, <1>3 DEF ConsumeHold
    <3> QED BY <3>1, <3>2, <3>3 DEF TypeInv, TypeOK
  <2> QED BY <2>3, <2>4
<1> QED BY <1>1, <1>2, <1>3

LEMMA HeldIssuesTyped ==
  ASSUME TypeInv, NEW l \in Line, NEW q \in Nat
  PROVE  /\ \A s \in BOOLEAN : IssueAgainstReservation(l, q, s) => TypeInv'
         /\ \A k \in {"issue", "stock"} : IssueRequestLine(l, q, k) => TypeInv'
<1>1. LineCell[l] \in Cell /\ OwnHold(l) \in Nat
  BY LineCellAssumption, BoundsAssumption DEF TypeInv, TypeOK
<1>2. ASSUME NEW k \in {"issue", "stock"}
      PROVE  PostConsumed(l, q, k) \in LedgerType
  <2> DEFINE take == Lesser(q, OwnHold(l))
  <2>0. take \in Int /\ ledger[LineCell[l]] \in RowSums
    BY <1>1, LedgerTypeInv DEF LedgerType
  <2> HIDE DEF take
  <2>1. Posted(ledger[LineCell[l]], "reserve", take) \in RowSums
    BY <2>0, PostedAt
  <2>2. Posted(Posted(ledger[LineCell[l]], "reserve", take), k, -q) \in RowSums
    <3> PICK r \in RowSums : r = Posted(ledger[LineCell[l]], "reserve", take)
      BY <2>1
    <3>1. k \in MovementKind /\ -q \in Int /\ -q <= 0
      BY DEF MovementKind
    <3>2. Posted(r, k, -q) \in RowSums
      BY <3>1, PostedAt
    <3> QED BY <3>2
  <2> QED BY <1>1, <2>2, LedgerTypeInv, LedgerUpdate DEF PostConsumed, take
<1>3. ASSUME onHand[LineCell[l]] >= q, onHand' = [onHand EXCEPT ![LineCell[l]] = @ - q]
      PROVE  onHand' \in [Cell -> 0..MaxStock]
  BY <1>1, <1>3, BoundsAssumption DEF TypeInv, TypeOK
<1>4. ASSUME NEW s \in BOOLEAN, IssueAgainstReservation(l, q, s)
      PROVE  TypeInv'
  <2>1. demand' \in [Cell -> [sale : Nat, issue : Nat]]
    BY <1>1, <1>4 DEF IssueAgainstReservation, TypeInv, TypeOK
  <2> QED BY <1>2, <1>3, <1>4, <2>1, ConsumeHoldTyped, TypeInvParts
          DEF IssueAgainstReservation, TypeInv, TypeOK
<1>5. ASSUME NEW k \in {"issue", "stock"}, IssueRequestLine(l, q, k)
      PROVE  TypeInv'
  BY <1>2, <1>3, <1>5, ConsumeHoldTyped, TypeInvParts
  DEF IssueRequestLine, TypeInv, TypeOK
<1> QED BY <1>4, <1>5

LEMMA RebuildTyped ==
  ASSUME TypeInv, RebuildDemand
  PROVE  TypeInv'
<1>1. ASSUME NEW c \in Cell
      PROVE  /\ demand'[c] = [demand[c] EXCEPT !.issue = -ledger[c]["issue"]]
             /\ -ledger[c]["issue"] \in Nat
             /\ demand[c] \in [sale : Nat, issue : Nat]
  BY DEF RebuildDemand, TypeInv, TypeOK, IssuesAreOutflows
<1>2. \A c \in Cell : demand'[c] \in [sale : Nat, issue : Nat]
  BY <1>1
<1> QED
  BY <1>2 DEF RebuildDemand, TypeInv, TypeOK, IssuesAreOutflows

LEMMA NextTypeInv == TypeInv /\ [Next]_vars => TypeInv'
<1> SUFFICES ASSUME TypeInv, [Next]_vars PROVE TypeInv'
  OBVIOUS
<1>1. CASE UNCHANGED vars
  BY <1>1 DEF vars, TypeInv, TypeOK, IssuesAreOutflows
<1>2. CASE Next
  <2>1. 0..MaxQty \subseteq Nat /\ 1..MaxQty \subseteq Nat /\ -MaxQty..MaxQty \subseteq Int
    BY BoundsAssumption
  <2> QED
    BY <1>2, <2>1, ReceiveTyped, IssueTyped, RowOpsTyped, TransferTyped,
       ReserveTyped, ReleaseTyped, HeldIssuesTyped, RebuildTyped
    DEF Next
<1> QED BY <1>1, <1>2

\* Every row of every table stays within its columns' CHECK constraints, for
\* any products, warehouses and demand lines.
THEOREM Typing == Spec => []TypeOK
<1>1. TypeInv => TypeOK
  BY DEF TypeInv
<1> QED BY InitTypeInv, NextTypeInv, <1>1, PTL DEF Spec
-----------------------------------------------------------------------------
(* Reservations: counting the held units of a row                          *)

\* The held units of a row as a function of the reservation table h.
Units(h, c) ==
  {u \in Line \X (1..MaxStock) : LineCell[u[1]] = c /\ u[2] <= Held(h[u[1]])}

\* The units of one line, numbered from 1.
LineUnits(l, n) == {l} \X (1..n)

HoldsInv ==
  /\ \A c \in Cell : IsFiniteSet(Units(hold, c)) /\ reserved[c] = Cardinality(Units(hold, c))
  /\ HoldMatchesStatus

\* n units of a line are n units.
LEMMA LineUnitsCount ==
  ASSUME NEW l, NEW n \in Nat
  PROVE  IsFiniteSet(LineUnits(l, n)) /\ Cardinality(LineUnits(l, n)) = n
<1> DEFINE f == [i \in 1..n |-> <<l, i>>]
<1>1. f \in Bijection(1..n, LineUnits(l, n))
  BY DEF Bijection, Injection, Surjection, LineUnits, IsInjective
<1>2. ExistsBijection(1..n, LineUnits(l, n))
  BY <1>1 DEF ExistsBijection
<1> QED BY <1>2, FS_NatBijection, FS_CountingElements

LEMMA DisjointCount ==
  ASSUME NEW S, NEW T, IsFiniteSet(S), IsFiniteSet(T), S \cap T = {}
  PROVE  IsFiniteSet(S \cup T) /\ Cardinality(S \cup T) = Cardinality(S) + Cardinality(T)
<1>1. Cardinality(S) \in Nat /\ Cardinality(T) \in Nat
  BY FS_CardinalityType
<1> QED BY <1>1, FS_Union, FS_EmptySet

UnitsMoved(h, l, row, g, c) ==
  /\ IsFiniteSet(Units(g, c))
  /\ Cardinality(Units(g, c)) =
       IF LineCell[l] = c
         THEN Cardinality(Units(h, c)) - Held(h[l]) + Held(row)
         ELSE Cardinality(Units(h, c))
  /\ LineCell[l] = c => Cardinality(Units(h, c)) >= Held(h[l])

\* Overwriting the reservation of one line moves the count of that line's row
\* by the difference of the units held, and leaves every other row alone.
LEMMA UnitsUpdate ==
  ASSUME NEW h \in [Line -> HoldRow], NEW l \in Line, NEW row \in HoldRow,
         NEW c \in Cell, IsFiniteSet(Units(h, c)),
         NEW g, g = [h EXCEPT ![l] = row]
  PROVE  UnitsMoved(h, l, row, g, c)
<1> DEFINE rest == {u \in Units(h, c) : u[1] # l}
           before == LineUnits(l, Held(h[l]))
           after == LineUnits(l, Held(row))
<1>1. Held(h[l]) \in 0..MaxStock /\ Held(row) \in 0..MaxStock
  BY BoundsAssumption
<1>2. IsFiniteSet(rest) /\ Cardinality(rest) \in Nat
  BY FS_Subset, FS_CardinalityType
<1>3. /\ IsFiniteSet(before) /\ Cardinality(before) = Held(h[l])
      /\ IsFiniteSet(after) /\ Cardinality(after) = Held(row)
  BY <1>1, LineUnitsCount
<1>4. rest \cap before = {} /\ rest \cap after = {}
  BY DEF LineUnits
<1>5. CASE LineCell[l] = c
  <2>1. Units(h, c) = rest \cup before
    <3>1. before \subseteq Units(h, c)
      BY <1>1, <1>5, BoundsAssumption DEF LineUnits, Units
    <3>2. ASSUME NEW u \in Units(h, c), u[1] = l
          PROVE  u \in before
      BY <1>1, <3>2, BoundsAssumption DEF LineUnits, Units
    <3> QED BY <3>1, <3>2
  <2>2. Units(g, c) = rest \cup after
    <3>1. after \subseteq Units(g, c)
      BY <1>1, <1>5, BoundsAssumption DEF LineUnits, Units
    <3>2. ASSUME NEW u \in Units(g, c)
          PROVE  u \in rest \cup after
      BY <1>1, <3>2, BoundsAssumption DEF LineUnits, Units
    <3>3. rest \subseteq Units(g, c)
      BY DEF Units
    <3> QED BY <3>1, <3>2, <3>3
  <2> HIDE DEF rest, before, after
  <2>3. Cardinality(Units(h, c)) = Cardinality(rest) + Held(h[l])
    BY <1>2, <1>3, <1>4, <2>1, DisjointCount
  <2>4. IsFiniteSet(Units(g, c)) /\ Cardinality(Units(g, c)) = Cardinality(rest) + Held(row)
    <3>1. IsFiniteSet(rest \cup after) /\ Cardinality(rest \cup after) = Cardinality(rest) + Held(row)
      BY <1>2, <1>3, <1>4, DisjointCount
    <3> QED BY <2>2, <3>1
  <2> QED BY <1>1, <1>2, <1>5, <2>3, <2>4 DEF UnitsMoved
<1>6. CASE LineCell[l] # c
  <2>1. Units(g, c) = Units(h, c)
    BY <1>6 DEF Units
  <2> QED BY <1>6, <2>1 DEF UnitsMoved
<1> QED BY <1>5, <1>6

LEMMA InitHolds == Init => HoldsInv
<1> SUFFICES ASSUME Init PROVE HoldsInv
  OBVIOUS
<1>1. ASSUME NEW c \in Cell PROVE Units(hold, c) = {}
  BY DEF Init, Units
<1>2. ASSUME NEW c \in Cell
      PROVE  IsFiniteSet(Units(hold, c)) /\ reserved[c] = Cardinality(Units(hold, c))
  <2>1. reserved[c] = 0
    BY DEF Init
  <2> QED BY <1>1, <2>1, FS_EmptySet
<1>3. HoldMatchesStatus
  BY DEF Init, HoldMatchesStatus
<1> QED BY <1>2, <1>3 DEF HoldsInv

\* One line's reservation and its row's qty_reserved move together.
LEMMA HoldsUpdate ==
  ASSUME TypeInv, HoldsInv, NEW l \in Line, NEW row \in HoldRow,
         row.qty > 0 <=> row.status = "active",
         hold' = [hold EXCEPT ![l] = row],
         reserved' = [reserved EXCEPT ![LineCell[l]] = @ - OwnHold(l) + Held(row)]
  PROVE  HoldsInv'
<1>1. hold \in [Line -> HoldRow] /\ reserved \in [Cell -> Nat] /\ LineCell[l] \in Cell
  BY LineCellAssumption DEF TypeInv, TypeOK
<1>2. ASSUME NEW c \in Cell
      PROVE  IsFiniteSet(Units(hold', c)) /\ reserved'[c] = Cardinality(Units(hold', c))
  <2>1. IsFiniteSet(Units(hold, c)) /\ reserved[c] = Cardinality(Units(hold, c))
    BY DEF HoldsInv
  <2>2. /\ IsFiniteSet(Units(hold', c))
        /\ Cardinality(Units(hold', c)) =
             IF LineCell[l] = c THEN Cardinality(Units(hold, c)) - Held(hold[l]) + Held(row)
                                ELSE Cardinality(Units(hold, c))
    <3>1. ASSUME NEW g, g = [hold EXCEPT ![l] = row]
          PROVE  UnitsMoved(hold, l, row, g, c)
      BY <1>1, <2>1, <3>1, UnitsUpdate
    <3> QED BY <3>1 DEF UnitsMoved
  <2>4. reserved'[c] = IF LineCell[l] = c THEN reserved[c] - Held(hold[l]) + Held(row)
                                          ELSE reserved[c]
    BY <1>1
  <2> HIDE DEF Held
  <2> QED BY <2>1, <2>2, <2>4
<1>3. HoldMatchesStatus'
  BY <1>1 DEF HoldsInv, HoldMatchesStatus
<1>4. \A c \in Cell : IsFiniteSet(Units(hold, c)') /\ (reserved[c])' = Cardinality(Units(hold, c)')
  BY <1>2 DEF Units
<1> QED BY <1>3, <1>4 DEF HoldsInv

\* The clip at zero in consume() and release() is never reached.
LEMMA OwnWithinReserved ==
  ASSUME TypeInv, HoldsInv, NEW l \in Line
  PROVE  OwnHold(l) \in 0..MaxStock /\ reserved[LineCell[l]] >= OwnHold(l)
<1>1. hold \in [Line -> HoldRow] /\ LineCell[l] \in Cell /\ hold[l] \in HoldRow
  BY LineCellAssumption DEF TypeInv, TypeOK
<1>2. /\ IsFiniteSet(Units(hold, LineCell[l]))
      /\ reserved[LineCell[l]] = Cardinality(Units(hold, LineCell[l]))
  BY <1>1 DEF HoldsInv
<1>3. Cardinality(Units(hold, LineCell[l])) >= Held(hold[l])
  <2>1. UnitsMoved(hold, l, hold[l], [hold EXCEPT ![l] = hold[l]], LineCell[l])
    BY <1>1, <1>2, UnitsUpdate
  <2> QED BY <2>1 DEF UnitsMoved
<1> QED BY <1>1, <1>2, <1>3, BoundsAssumption

LEMMA HoldsUnchanged ==
  ASSUME HoldsInv, UNCHANGED <<reserved, hold>>
  PROVE  HoldsInv'
  BY DEF HoldsInv, HoldMatchesStatus, Units

LEMMA ConsumeHoldHolds ==
  ASSUME TypeInv, HoldsInv, NEW l \in Line, NEW q \in Nat, ConsumeHold(l, q)
  PROVE  /\ HoldsInv'
         /\ reserved' = [reserved EXCEPT ![LineCell[l]] = @ - Lesser(q, OwnHold(l))]
<1>1. OwnHold(l) \in 0..MaxStock /\ reserved[LineCell[l]] >= OwnHold(l)
  BY OwnWithinReserved
<1>2. reserved \in [Cell -> Nat] /\ LineCell[l] \in Cell /\ hold[l] \in HoldRow
  BY LineCellAssumption DEF TypeInv, TypeOK
<1> DEFINE take == Lesser(q, OwnHold(l))
           left == OwnHold(l) - take
<1>3. CASE take <= 0
  <2>1. UNCHANGED <<reserved, hold>> /\ take = 0
    BY <1>1, <1>3 DEF ConsumeHold
  <2> QED BY <1>2, <2>1, HoldsUnchanged
<1>4. CASE take > 0
  <2> DEFINE row == [qty |-> left, status |-> IF left <= 0 THEN "consumed" ELSE "active"]
  <2>1. hold' = [hold EXCEPT ![l] = row]
    BY <1>1, <1>4 DEF ConsumeHold
  <2>2. row \in HoldRow /\ Held(row) = left /\ (row.qty > 0 <=> row.status = "active")
    BY <1>1, <1>4, BoundsAssumption
  <2>3. take \in Nat /\ take <= OwnHold(l)
    BY <1>1, <1>4
  <2>4. Greater(0, reserved[LineCell[l]] - take) = reserved[LineCell[l]] - take
    BY <1>1, <1>2, <2>3
  <2>5. reserved' = [reserved EXCEPT ![LineCell[l]] = reserved[LineCell[l]] - take]
    BY <1>1, <1>4, <2>4 DEF ConsumeHold
  <2>6. reserved' = [reserved EXCEPT ![LineCell[l]] = @ - OwnHold(l) + Held(row)]
    <3>1. reserved[LineCell[l]] - take = reserved[LineCell[l]] - OwnHold(l) + Held(row)
      BY <1>1, <1>2, <2>2, <2>3
    <3> QED BY <2>5, <3>1
  <2> HIDE DEF row
  <2>7. HoldsInv'
    BY <2>1, <2>2, <2>6, HoldsUpdate
  <2> QED BY <2>5, <2>7
<1> QED BY <1>1, <1>3, <1>4

\* A step changes the reservations only through Reserve, Release and consume().
LEMMA NextHolds == TypeInv /\ HoldsInv /\ [Next]_vars => HoldsInv'
<1> SUFFICES ASSUME TypeInv, HoldsInv, [Next]_vars PROVE HoldsInv'
  OBVIOUS
<1>1. CASE UNCHANGED <<reserved, hold>>
  BY <1>1, HoldsUnchanged
<1>2. ASSUME NEW l \in Line, NEW q \in 1..MaxQty, Reserve(l, q)
      PROVE  HoldsInv'
  <2>1. /\ hold \in [Line -> HoldRow] /\ reserved \in [Cell -> Nat]
        /\ LineCell[l] \in Cell /\ q \in Nat /\ q > 0
    BY LineCellAssumption, BoundsAssumption DEF TypeInv, TypeOK
  <2>a. OwnHold(l) = 0
    BY <1>2 DEF Reserve
  <2> DEFINE row == [qty |-> q, status |-> "active"]
  <2>2. q \in 0..MaxStock
    BY <1>2, <2>1, BoundsAssumption DEF Reserve, Available, TypeInv, TypeOK
  <2>3. row \in HoldRow /\ Held(row) = q /\ row.qty > 0 /\ row.status = "active"
    BY <2>1, <2>2
  <2>4. reserved' = [reserved EXCEPT ![LineCell[l]] = @ - OwnHold(l) + Held(row)]
    <3>1. reserved[LineCell[l]] + q = reserved[LineCell[l]] - OwnHold(l) + Held(row)
      BY <2>1, <2>a, <2>3
    <3>2. reserved' = [reserved EXCEPT ![LineCell[l]] = reserved[LineCell[l]] + q]
      BY <1>2 DEF Reserve
    <3> QED BY <3>1, <3>2
  <2>5. hold' = [hold EXCEPT ![l] = row]
    BY <1>2 DEF Reserve
  <2> HIDE DEF row
  <2> QED BY <2>3, <2>4, <2>5, HoldsUpdate
<1>3. ASSUME NEW l \in Line, Release(l)
      PROVE  HoldsInv'
  <2> DEFINE row == [qty |-> 0, status |-> "released"]
  <2>1. row \in HoldRow /\ Held(row) = 0 /\ ~(row.qty > 0) /\ row.status # "active"
    BY BoundsAssumption
  <2>2. /\ reserved \in [Cell -> Nat] /\ LineCell[l] \in Cell
        /\ OwnHold(l) = hold[l].qty /\ OwnHold(l) \in Nat
        /\ reserved[LineCell[l]] >= OwnHold(l)
    <3>1. OwnHold(l) = hold[l].qty
      BY <1>3 DEF Release
    <3>2. OwnHold(l) \in 0..MaxStock /\ reserved[LineCell[l]] >= OwnHold(l)
      BY OwnWithinReserved
    <3> QED BY <3>1, <3>2, LineCellAssumption, BoundsAssumption DEF TypeInv, TypeOK
  <2>3. Greater(0, reserved[LineCell[l]] - hold[l].qty)
          = reserved[LineCell[l]] - OwnHold(l) + Held(row)
    BY <2>1, <2>2
  <2>4. reserved' = [reserved EXCEPT ![LineCell[l]] = @ - OwnHold(l) + Held(row)]
    <3>1. reserved' = [reserved EXCEPT ![LineCell[l]] =
                         Greater(0, reserved[LineCell[l]] - hold[l].qty)]
      BY <1>3 DEF Release
    <3> QED BY <2>3, <3>1
  <2>5. hold' = [hold EXCEPT ![l] = row]
    BY <1>3 DEF Release
  <2> HIDE DEF row
  <2> QED BY <2>1, <2>4, <2>5, HoldsUpdate
<1>4. ASSUME NEW l \in Line, NEW q \in 1..MaxQty, ConsumeHold(l, q)
      PROVE  HoldsInv'
  BY <1>4, ConsumeHoldHolds, BoundsAssumption
<1>5. ASSUME NEW w \in Warehouse, NEW b \in Basket, Receive(w, b) \/ Issue(w, b)
      PROVE  HoldsInv'
  BY <1>1, <1>5 DEF Receive, Issue
<1>6. ASSUME NEW c \in Cell, NEW q \in 0..MaxQty, OpeningBalance(c, q)
      PROVE  HoldsInv'
  BY <1>1, <1>6 DEF OpeningBalance
<1>7. ASSUME NEW c \in Cell, NEW d \in -MaxQty..MaxQty, Adjust(c, d)
      PROVE  HoldsInv'
  BY <1>1, <1>7 DEF Adjust
<1>8. ASSUME NEW p \in Product, NEW from \in Warehouse, NEW to \in Warehouse,
             NEW q \in 1..MaxQty, Transfer(p, from, to, q)
      PROVE  HoldsInv'
  BY <1>1, <1>8 DEF Transfer
<1>9. ASSUME NEW l \in Line, NEW q \in 1..MaxQty, NEW s \in BOOLEAN,
             IssueAgainstReservation(l, q, s)
      PROVE  HoldsInv'
  BY <1>1, <1>4, <1>9 DEF IssueAgainstReservation
<1>10. ASSUME NEW c \in Cell, NEW q \in 1..MaxQty, NEW s \in BOOLEAN, IssueFree(c, q, s)
       PROVE  HoldsInv'
  BY <1>1, <1>10 DEF IssueFree
<1>11. ASSUME NEW l \in Line, NEW q \in 1..MaxQty, NEW k \in {"issue", "stock"},
              IssueRequestLine(l, q, k)
       PROVE  HoldsInv'
  BY <1>1, <1>4, <1>11 DEF IssueRequestLine
<1>12. ASSUME NEW c \in Cell, NEW good \in -MaxQty..MaxQty, NEW bad \in -MaxQty..MaxQty,
              ReceiveTransferLine(c, good, bad)
       PROVE  HoldsInv'
  BY <1>1, <1>12 DEF ReceiveTransferLine
<1>13. CASE RebuildDemand
  BY <1>1, <1>13 DEF RebuildDemand
<1>14. CASE Next
  BY <1>2, <1>3, <1>5, <1>6, <1>7, <1>8, <1>9, <1>10, <1>11, <1>12, <1>13, <1>14 DEF Next
<1> QED BY <1>1, <1>14 DEF vars

LEMMA HoldsAlways == Spec => [](TypeInv /\ HoldsInv)
<1>1. TypeInv /\ HoldsInv /\ [Next]_vars => (TypeInv /\ HoldsInv)'
  BY NextTypeInv, NextHolds
<1> QED BY InitTypeInv, InitHolds, <1>1, PTL DEF Spec

\* The quantity a row reserves is exactly the units its active reservations
\* hold, for any set of demand lines.
THEOREM ReservedUnits == Spec => []ReservedIsActiveHolds
<1>1. HoldsInv => ReservedIsActiveHolds
  BY DEF HoldsInv, ReservedIsActiveHolds, HeldUnits, Units
<1> QED BY HoldsAlways, <1>1, PTL

\* Only active reservations hold units, and they always hold some.
THEOREM HoldStatuses == Spec => []HoldMatchesStatus
<1>1. HoldsInv => HoldMatchesStatus
  BY DEF HoldsInv
<1> QED BY HoldsAlways, <1>1, PTL

-----------------------------------------------------------------------------
(* The ledger                                                              *)

Explains(sums, h, r, d) ==
  h = sums["stock"] + sums["issue"] /\ r = -sums["reserve"] /\ d = sums["damage"]

LEMMA InitLedger == Init => LedgerExplainsBalance
<1>1. ASSUME NEW c \in Cell, Init
      PROVE  /\ onHand[c] = 0 /\ reserved[c] = 0 /\ damaged[c] = 0
             /\ ledger[c] = [k \in MovementKind |-> 0]
  BY <1>1 DEF Init
<1>2. {"stock", "issue", "reserve", "damage"} \subseteq MovementKind
  BY DEF MovementKind
<1>3. ASSUME NEW c \in Cell, Init
      PROVE  /\ onHand[c] = ledger[c]["stock"] + ledger[c]["issue"]
             /\ reserved[c] = -ledger[c]["reserve"]
             /\ damaged[c] = ledger[c]["damage"]
  <2>1. /\ ledger[c]["stock"] = 0 /\ ledger[c]["issue"] = 0
        /\ ledger[c]["reserve"] = 0 /\ ledger[c]["damage"] = 0
    BY <1>1, <1>2, <1>3
  <2> QED BY <1>1, <1>3, <2>1
<1> QED BY <1>3 DEF LedgerExplainsBalance

\* A movement explains the change of one column of a row.
LEMMA PostExplains ==
  ASSUME NEW sums \in RowSums, NEW h \in Int, NEW r \in Int, NEW d \in Int,
         Explains(sums, h, r, d), NEW q \in Int
  PROVE  /\ Explains(Posted(sums, "stock", q), h + q, r, d)
         /\ Explains(Posted(sums, "issue", q), h + q, r, d)
         /\ Explains(Posted(sums, "reserve", q), h, r - q, d)
         /\ Explains(Posted(sums, "damage", q), h, r, d + q)
<1>1. ASSUME NEW k \in MovementKind
      PROVE  \A j \in MovementKind : Posted(sums, k, q)[j] = IF j = k THEN sums[j] + q ELSE sums[j]
  BY DEF Posted, RowSums
<1>2. \A k \in MovementKind : sums[k] \in Int
  BY DEF RowSums
<1>3. {"stock", "issue", "reserve", "damage"} \subseteq MovementKind
  BY DEF MovementKind
<1>4. ASSUME NEW k \in {"stock", "issue", "reserve", "damage"}
      PROVE  /\ Posted(sums, k, q)["stock"] = IF k = "stock" THEN sums["stock"] + q ELSE sums["stock"]
             /\ Posted(sums, k, q)["issue"] = IF k = "issue" THEN sums["issue"] + q ELSE sums["issue"]
             /\ Posted(sums, k, q)["reserve"] =
                  IF k = "reserve" THEN sums["reserve"] + q ELSE sums["reserve"]
             /\ Posted(sums, k, q)["damage"] =
                  IF k = "damage" THEN sums["damage"] + q ELSE sums["damage"]
  BY <1>1, <1>3
<1>5. /\ sums["stock"] \in Int /\ sums["issue"] \in Int
      /\ sums["reserve"] \in Int /\ sums["damage"] \in Int
  BY <1>2, <1>3
<1>6. Explains(Posted(sums, "stock", q), h + q, r, d)
  BY <1>4, <1>5 DEF Explains
<1>7. Explains(Posted(sums, "issue", q), h + q, r, d)
  BY <1>4, <1>5 DEF Explains
<1>8. Explains(Posted(sums, "reserve", q), h, r - q, d)
  BY <1>4, <1>5 DEF Explains
<1>9. Explains(Posted(sums, "damage", q), h, r, d + q)
  BY <1>4, <1>5 DEF Explains
<1> QED BY <1>6, <1>7, <1>8, <1>9

\* Only row c moved, and its movements explain what it says now.
LEMMA OneRowExplained ==
  ASSUME LedgerExplainsBalance, NEW c \in Cell,
         \A d \in Cell \ {c} :
           /\ ledger'[d] = ledger[d] /\ onHand'[d] = onHand[d]
           /\ reserved'[d] = reserved[d] /\ damaged'[d] = damaged[d],
         Explains(ledger'[c], onHand'[c], reserved'[c], damaged'[c])
  PROVE  LedgerExplainsBalance'
  BY DEF LedgerExplainsBalance, Explains

LEMMA RowFacts ==
  ASSUME TypeInv, LedgerExplainsBalance, NEW c \in Cell
  PROVE  /\ ledger[c] \in RowSums
         /\ onHand[c] \in Int /\ reserved[c] \in Int /\ damaged[c] \in Int
         /\ Explains(ledger[c], onHand[c], reserved[c], damaged[c])
<1>1. ledger[c] \in RowSums
  BY LedgerTypeInv DEF LedgerType
<1>2. onHand[c] \in Int /\ reserved[c] \in Int /\ damaged[c] \in Int
  BY DEF TypeInv, TypeOK
<1> QED BY <1>1, <1>2 DEF LedgerExplainsBalance, Explains

\* An issue drawn on a hold: the unreserve movement explains qty_reserved, the
\* outflow explains qty_on_hand.
LEMMA HeldIssueExplained ==
  ASSUME TypeInv, HoldsInv, LedgerExplainsBalance, NEW l \in Line, NEW q \in Nat,
         NEW k \in {"issue", "stock"}, ConsumeHold(l, q),
         onHand' = [onHand EXCEPT ![LineCell[l]] = @ - q],
         ledger' = PostConsumed(l, q, k), damaged' = damaged
  PROVE  LedgerExplainsBalance'
<1> DEFINE c == LineCell[l]
           take == Lesser(q, OwnHold(l))
           freed == Posted(ledger[c], "reserve", take)
<1>1. c \in Cell /\ take \in Int
  BY LineCellAssumption, OwnWithinReserved
<1>2. reserved' = [reserved EXCEPT ![c] = @ - take]
  BY ConsumeHoldHolds
<1>3. ledger' = [ledger EXCEPT ![c] = Posted(freed, k, -q)]
  BY DEF PostConsumed
<1> HIDE DEF c, take, freed
<1>4. freed \in RowSums /\ Explains(freed, onHand[c], reserved[c] - take, damaged[c])
  BY <1>1, RowFacts, PostedAt, PostExplains DEF freed
<1>5. Explains(Posted(freed, k, -q), onHand[c] + -q, reserved[c] - take, damaged[c])
  BY <1>1, <1>4, RowFacts, PostExplains
<1>6. /\ ledger'[c] = Posted(freed, k, -q) /\ onHand'[c] = onHand[c] + -q
      /\ reserved'[c] = reserved[c] - take /\ damaged'[c] = damaged[c]
  BY <1>1, <1>2, <1>3, RowFacts DEF TypeInv, TypeOK, c
<1>7. \A d \in Cell \ {c} :
        /\ ledger'[d] = ledger[d] /\ onHand'[d] = onHand[d]
        /\ reserved'[d] = reserved[d] /\ damaged'[d] = damaged[d]
  BY <1>1, <1>2, <1>3 DEF TypeInv, TypeOK, c
<1> QED BY <1>1, <1>5, <1>6, <1>7, OneRowExplained

LEMMA NextLedger ==
  TypeInv /\ HoldsInv /\ LedgerExplainsBalance /\ [Next]_vars => LedgerExplainsBalance'
<1> SUFFICES ASSUME TypeInv, HoldsInv, LedgerExplainsBalance, [Next]_vars
             PROVE  LedgerExplainsBalance'
  OBVIOUS
<1>0. /\ onHand \in [Cell -> Int] /\ reserved \in [Cell -> Int] /\ damaged \in [Cell -> Int]
      /\ ledger \in [Cell -> RowSums]
  BY LedgerTypeInv DEF TypeInv, TypeOK, LedgerType
<1>1. CASE UNCHANGED <<onHand, reserved, damaged, ledger>>
  BY <1>1 DEF LedgerExplainsBalance
<1>2. ASSUME NEW w \in Warehouse, NEW b \in Basket, Receive(w, b) \/ Issue(w, b)
      PROVE  LedgerExplainsBalance'
  <2>1. ASSUME NEW c \in Cell
        PROVE  Explains(ledger'[c], onHand'[c], reserved'[c], damaged'[c])
    <3> DEFINE q == b[c[1]]
    <3>1. q \in Int /\ -q \in Int
      BY CellParts, BasketType
    <3>2. reserved'[c] = reserved[c] /\ damaged'[c] = damaged[c]
      BY <1>2 DEF Receive, Issue
    <3>3. CASE c[2] # w
      BY <1>2, <3>2, <3>3, RowFacts DEF Receive, Issue
    <3>4. CASE c[2] = w /\ Receive(w, b)
      <4>1. ledger'[c] = Posted(ledger[c], "stock", q) /\ onHand'[c] = onHand[c] + q
        BY <3>4 DEF Receive
      <4> HIDE DEF q
      <4> QED BY <3>1, <3>2, <4>1, RowFacts, PostExplains
    <3>5. CASE c[2] = w /\ Issue(w, b)
      <4>1. ledger'[c] = Posted(ledger[c], "issue", -q) /\ onHand'[c] = onHand[c] - q
        BY <3>5 DEF Issue
      <4> HIDE DEF q
      <4>2. onHand[c] - q = onHand[c] + -q
        BY <3>1, RowFacts
      <4> QED BY <3>1, <3>2, <4>1, <4>2, RowFacts, PostExplains
    <3> QED BY <1>2, <3>3, <3>4, <3>5
  <2> QED BY <2>1 DEF LedgerExplainsBalance, Explains
<1>3. ASSUME NEW c \in Cell, NEW q \in Int,
             onHand' = [onHand EXCEPT ![c] = @ + q], ledger' = Post(c, "stock", q),
             UNCHANGED <<reserved, damaged>>
      PROVE  LedgerExplainsBalance'
  <2>1. /\ ledger'[c] = Posted(ledger[c], "stock", q) /\ onHand'[c] = onHand[c] + q
        /\ reserved'[c] = reserved[c] /\ damaged'[c] = damaged[c]
    BY <1>0, <1>3 DEF Post
  <2>2. Explains(ledger'[c], onHand'[c], reserved'[c], damaged'[c])
    BY <2>1, RowFacts, PostExplains
  <2> QED BY <1>0, <1>3, <2>2, OneRowExplained DEF Post
<1>4. ASSUME NEW p \in Product, NEW from \in Warehouse, NEW to \in Warehouse,
             NEW q \in Nat, Transfer(p, from, to, q)
      PROVE  LedgerExplainsBalance'
  <2> DEFINE src == <<p, from>>
             dst == <<p, to>>
  <2>1. src \in Cell /\ dst \in Cell /\ src # dst
    BY <1>4 DEF Transfer
  <2>2. /\ onHand' = [onHand EXCEPT ![src] = @ - q, ![dst] = @ + q]
        /\ ledger' = [ledger EXCEPT ![src] = Posted(@, "stock", -q),
                                    ![dst] = Posted(@, "stock", q)]
        /\ UNCHANGED <<reserved, damaged>>
    BY <1>4 DEF Transfer
  <2> HIDE DEF src, dst
  <2>3. Explains(ledger'[src], onHand'[src], reserved'[src], damaged'[src])
    <3>1. ledger'[src] = Posted(ledger[src], "stock", -q) /\ onHand'[src] = onHand[src] + -q
      BY <1>0, <2>1, <2>2
    <3> QED BY <2>1, <2>2, <3>1, RowFacts, PostExplains
  <2>4. Explains(ledger'[dst], onHand'[dst], reserved'[dst], damaged'[dst])
    <3>1. ledger'[dst] = Posted(ledger[dst], "stock", q) /\ onHand'[dst] = onHand[dst] + q
      BY <1>0, <2>1, <2>2
    <3> QED BY <2>1, <2>2, <3>1, RowFacts, PostExplains
  <2>5. ASSUME NEW d \in Cell, d # src, d # dst
        PROVE  Explains(ledger'[d], onHand'[d], reserved'[d], damaged'[d])
    BY <1>0, <2>1, <2>2, <2>5, RowFacts
  <2> QED BY <2>3, <2>4, <2>5 DEF LedgerExplainsBalance, Explains
<1>5. ASSUME NEW c \in Cell, NEW q \in Int, NEW s,
             reserved' = [reserved EXCEPT ![c] = s], s = reserved[c] - q,
             ledger' = Post(c, "reserve", q), UNCHANGED <<onHand, damaged>>
      PROVE  LedgerExplainsBalance'
  <2>1. /\ ledger'[c] = Posted(ledger[c], "reserve", q) /\ reserved'[c] = reserved[c] - q
        /\ onHand'[c] = onHand[c] /\ damaged'[c] = damaged[c]
    BY <1>0, <1>5 DEF Post
  <2>2. Explains(ledger'[c], onHand'[c], reserved'[c], damaged'[c])
    BY <2>1, RowFacts, PostExplains
  <2> QED BY <1>0, <1>5, <2>2, OneRowExplained DEF Post
<1>6. ASSUME NEW l \in Line, NEW q \in Nat, Reserve(l, q)
      PROVE  LedgerExplainsBalance'
  <2>1. LineCell[l] \in Cell /\ reserved[LineCell[l]] + q = reserved[LineCell[l]] - -q
    BY <1>0, LineCellAssumption
  <2>2. /\ reserved' = [reserved EXCEPT ![LineCell[l]] = reserved[LineCell[l]] + q]
        /\ ledger' = Post(LineCell[l], "reserve", -q) /\ UNCHANGED <<onHand, damaged>>
    BY <1>6 DEF Reserve
  <2>3. -q \in Int
    OBVIOUS
  <2> QED BY <1>5, <2>1, <2>2, <2>3
<1>7. ASSUME NEW l \in Line, Release(l)
      PROVE  LedgerExplainsBalance'
  <2>1. /\ LineCell[l] \in Cell /\ hold[l].qty \in Int
        /\ Greater(0, reserved[LineCell[l]] - hold[l].qty) = reserved[LineCell[l]] - hold[l].qty
    <3>1. OwnHold(l) = hold[l].qty
      BY <1>7 DEF Release
    <3>2. OwnHold(l) \in 0..MaxStock /\ reserved[LineCell[l]] >= OwnHold(l)
      BY OwnWithinReserved
    <3> QED BY <1>0, <3>1, <3>2, LineCellAssumption, BoundsAssumption
  <2> QED BY <1>5, <1>7, <2>1 DEF Release
<1>8. ASSUME NEW c \in Cell, NEW q \in Nat, NEW s \in BOOLEAN, IssueFree(c, q, s)
      PROVE  LedgerExplainsBalance'
  <2>1. /\ ledger'[c] = Posted(ledger[c], "issue", -q) /\ onHand'[c] = onHand[c] + -q
        /\ reserved'[c] = reserved[c] /\ damaged'[c] = damaged[c]
    BY <1>0, <1>8 DEF IssueFree, Post
  <2>2. Explains(ledger'[c], onHand'[c], reserved'[c], damaged'[c])
    BY <2>1, RowFacts, PostExplains
  <2> QED BY <1>0, <1>8, <2>2, OneRowExplained DEF IssueFree, Post
<1>9. ASSUME NEW c \in Cell, NEW good \in Int, NEW bad \in Int,
             ReceiveTransferLine(c, good, bad)
      PROVE  LedgerExplainsBalance'
  <2> DEFINE mid == Posted(ledger[c], "stock", good)
  <2>1. mid \in RowSums /\ Explains(mid, onHand[c] + good, reserved[c], damaged[c])
    BY RowFacts, PostedAt, PostExplains
  <2>2. /\ ledger'[c] = Posted(mid, "damage", bad) /\ onHand'[c] = onHand[c] + good
        /\ reserved'[c] = reserved[c] /\ damaged'[c] = damaged[c] + bad
    BY <1>0, <1>9 DEF ReceiveTransferLine
  <2> HIDE DEF mid
  <2>3. onHand[c] + good \in Int
    BY RowFacts
  <2>4. Explains(ledger'[c], onHand'[c], reserved'[c], damaged'[c])
    BY <2>1, <2>2, <2>3, RowFacts, PostExplains
  <2> QED BY <1>0, <1>9, <2>4, OneRowExplained DEF ReceiveTransferLine
<1>10. CASE Next
  <2>1. 0..MaxQty \subseteq Nat /\ 1..MaxQty \subseteq Nat /\ -MaxQty..MaxQty \subseteq Int
    BY BoundsAssumption
  <2>2. ASSUME NEW l \in Line, NEW q \in 1..MaxQty, NEW s \in BOOLEAN,
               IssueAgainstReservation(l, q, s)
        PROVE  LedgerExplainsBalance'
    BY <2>1, <2>2, HeldIssueExplained DEF IssueAgainstReservation
  <2>3. ASSUME NEW l \in Line, NEW q \in 1..MaxQty, NEW k \in {"issue", "stock"},
               IssueRequestLine(l, q, k)
        PROVE  LedgerExplainsBalance'
    BY <2>1, <2>3, HeldIssueExplained DEF IssueRequestLine
  <2>4. ASSUME NEW c \in Cell, NEW q \in Int, OpeningBalance(c, q) \/ Adjust(c, q)
        PROVE  LedgerExplainsBalance'
    BY <1>3, <2>4 DEF OpeningBalance, Adjust
  <2>5. RebuildDemand => LedgerExplainsBalance'
    BY <1>1 DEF RebuildDemand
  <2> QED
    BY <1>2, <1>4, <1>6, <1>7, <1>8, <1>9, <1>10, <2>1, <2>2, <2>3, <2>4, <2>5 DEF Next
<1> QED BY <1>1, <1>10 DEF vars

\* The balance of every row is what its movements add up to, for any products,
\* warehouses, demand lines and quantities.
THEOREM BalanceIsLedger == Spec => []LedgerExplainsBalance
<1>1. TypeInv /\ HoldsInv /\ LedgerExplainsBalance /\ [Next]_vars => LedgerExplainsBalance'
  BY NextLedger
<1> QED BY InitLedger, HoldsAlways, <1>1, PTL DEF Spec

-----------------------------------------------------------------------------
(* The demand feed                                                         *)

LEMMA InitDemand == Init => DemandWithinIssues
<1>1. ASSUME NEW c \in Cell, Init
      PROVE  /\ demand[c].sale = 0 /\ demand[c].issue = 0
             /\ \A k \in MovementKind : ledger[c][k] = 0
  BY <1>1 DEF Init
<1> QED BY <1>1 DEF DemandWithinIssues

\* Issued units of a row never shrink.
LEMMA IssuesGrow ==
  ASSUME NEW r \in RowSums, NEW k \in MovementKind, NEW q \in Int,
         k = "issue" => q <= 0
  PROVE  /\ r["issue"] \in Int
         /\ Posted(r, k, q)["issue"] \in Int
         /\ Posted(r, k, q)["issue"] <= r["issue"]
         /\ k = "issue" => Posted(r, k, q)["issue"] = r["issue"] + q
         /\ k # "issue" => Posted(r, k, q)["issue"] = r["issue"]
         /\ Posted(r, k, q) \in RowSums
<1>1. Posted(r, k, q)["issue"] = IF "issue" = k THEN r["issue"] + q ELSE r["issue"]
  BY PostedAt
<1>2. r["issue"] \in Int
  BY DEF RowSums
<1>3. Posted(r, k, q) \in RowSums
  BY PostedAt
<1> QED BY <1>1, <1>2, <1>3

LEMMA IssuePosted ==
  ASSUME NEW r \in RowSums, NEW q \in Nat
  PROVE  /\ r["issue"] \in Int
         /\ Posted(r, "issue", -q)["issue"] = r["issue"] - q
<1>1. -q \in Int /\ -q <= 0 /\ "issue" \in MovementKind /\ r["issue"] \in Int
  BY DEF RowSums
<1>2. Posted(r, "issue", -q)["issue"] = IF "issue" = "issue" THEN r["issue"] + -q ELSE r["issue"]
  BY <1>1, PostedAt
<1> QED BY <1>1, <1>2

LEMMA DemandKept ==
  ASSUME TypeInv, DemandWithinIssues,
         \A c \in Cell : ledger'[c]["issue"] \in Int /\ ledger'[c]["issue"] <= ledger[c]["issue"],
         demand' = demand
  PROVE  DemandWithinIssues'
<1>1. \A c \in Cell : /\ ledger[c]["issue"] \in Int
                      /\ demand[c].sale \in Int /\ demand[c].issue \in Int
  BY DEF TypeInv, TypeOK
<1> QED BY <1>1 DEF DemandWithinIssues

\* A sale posts the issue movement it counts.
LEMMA DemandSold ==
  ASSUME TypeInv, DemandWithinIssues, NEW c \in Cell, NEW q \in Nat,
         ledger' \in LedgerType, ledger'[c]["issue"] = ledger[c]["issue"] - q,
         \A d \in Cell \ {c} : ledger'[d] = ledger[d],
         demand' = [demand EXCEPT ![c].sale = @ + q]
  PROVE  DemandWithinIssues'
<1>1. ASSUME NEW d \in Cell
      PROVE  /\ ledger[d]["issue"] \in Int
             /\ demand[d].sale \in Int /\ demand[d].issue \in Int
             /\ demand'[d].sale = IF d = c THEN demand[d].sale + q ELSE demand[d].sale
             /\ demand'[d].issue = demand[d].issue
  BY DEF TypeInv, TypeOK
<1> QED BY <1>1 DEF DemandWithinIssues

LEMMA NextDemand ==
  TypeInv /\ DemandWithinIssues /\ [Next]_vars => DemandWithinIssues'
<1> SUFFICES ASSUME TypeInv, DemandWithinIssues, [Next]_vars PROVE DemandWithinIssues'
  OBVIOUS
<1>0. ledger \in [Cell -> RowSums] /\ ledger' \in [Cell -> RowSums]
  BY LedgerTypeInv, NextTypeInv DEF TypeInv, TypeOK, LedgerType, IssuesAreOutflows, RowSums
<1>1. CASE UNCHANGED <<ledger, demand>>
  BY <1>1 DEF DemandWithinIssues
<1>2. ASSUME NEW w \in Warehouse, NEW b \in Basket, Receive(w, b) \/ Issue(w, b)
      PROVE  DemandWithinIssues'
  <2>1. ASSUME NEW c \in Cell
        PROVE  ledger'[c]["issue"] \in Int /\ ledger'[c]["issue"] <= ledger[c]["issue"]
    <3>1. b[c[1]] \in Int /\ -b[c[1]] \in Int /\ -b[c[1]] <= 0
      BY CellParts, BasketType
    <3>2. /\ ledger[c] \in RowSums /\ ledger'[c] \in RowSums
          /\ \/ ledger'[c] = ledger[c]
             \/ ledger'[c] = Posted(ledger[c], "stock", b[c[1]])
             \/ ledger'[c] = Posted(ledger[c], "issue", -b[c[1]])
      BY <1>0, <1>2 DEF Receive, Issue
    <3> QED BY <3>1, <3>2, IssuesGrow
  <2> QED BY <1>2, <2>1, DemandKept DEF Receive, Issue
<1>3. ASSUME NEW c \in Cell, NEW k \in MovementKind, NEW q \in Int,
             k = "issue" => q <= 0, ledger' = Post(c, k, q), demand' = demand
      PROVE  DemandWithinIssues'
  <2>1. ASSUME NEW d \in Cell
        PROVE  ledger'[d]["issue"] \in Int /\ ledger'[d]["issue"] <= ledger[d]["issue"]
    <3>1. ledger'[d] = IF d = c THEN Posted(ledger[d], k, q) ELSE ledger[d]
      BY <1>0, <1>3 DEF Post
    <3>2. ledger[d] \in RowSums
      BY <1>0
    <3> QED BY <1>3, <3>1, <3>2, IssuesGrow
  <2> QED BY <1>3, <2>1, DemandKept
<1>4. ASSUME NEW p \in Product, NEW from \in Warehouse, NEW to \in Warehouse,
             NEW q \in Nat, Transfer(p, from, to, q)
      PROVE  DemandWithinIssues'
  <2>1. /\ <<p, from>> \in Cell /\ <<p, to>> \in Cell /\ <<p, from>> # <<p, to>>
        /\ -q \in Int
    BY <1>4 DEF Transfer
  <2>2. ASSUME NEW d \in Cell
        PROVE  ledger'[d]["issue"] \in Int /\ ledger'[d]["issue"] <= ledger[d]["issue"]
    <3>1. \E m \in Int : ledger'[d] = ledger[d] \/ ledger'[d] = Posted(ledger[d], "stock", m)
      BY <1>0, <1>4, <2>1 DEF Transfer
    <3>2. ledger[d] \in RowSums
      BY <1>0
    <3> QED BY <3>1, <3>2, IssuesGrow
  <2> QED BY <1>4, <2>2, DemandKept DEF Transfer
<1>5. ASSUME NEW c \in Cell, NEW q \in Nat, NEW s \in BOOLEAN, IssueFree(c, q, s)
      PROVE  DemandWithinIssues'
  <2>1. CASE s
    <3>1. ledger'[c] = Posted(ledger[c], "issue", -q) /\ ledger[c] \in RowSums /\ -q \in Int
      BY <1>0, <1>5 DEF IssueFree, Post
    <3>2. ledger'[c]["issue"] = ledger[c]["issue"] - q
      BY <3>1, IssuePosted
    <3>3. demand' = [demand EXCEPT ![c].sale = @ + q]
      BY <1>5, <2>1 DEF IssueFree
    <3>4. \A d \in Cell \ {c} : ledger'[d] = ledger[d]
      BY <1>0, <1>5 DEF IssueFree, Post
    <3> QED BY <1>0, <3>2, <3>3, <3>4, DemandSold DEF LedgerType
  <2>2. CASE ~s
    BY <1>3, <1>5, <2>2 DEF IssueFree
  <2> QED BY <2>1, <2>2
<1>6. ASSUME NEW l \in Line, NEW q \in Nat, NEW k \in {"issue", "stock"},
             ledger' = PostConsumed(l, q, k),
             demand' = demand \/ (k = "issue" /\ demand' = [demand EXCEPT ![LineCell[l]].sale = @ + q])
      PROVE  DemandWithinIssues'
  <2> DEFINE c == LineCell[l]
             take == Lesser(q, OwnHold(l))
             mid == Posted(ledger[c], "reserve", take)
  <2>1. c \in Cell /\ take \in Int /\ -q \in Int /\ -q <= 0
    BY LineCellAssumption, BoundsAssumption DEF TypeInv, TypeOK
  <2>2. ledger' = [ledger EXCEPT ![c] = Posted(mid, k, -q)]
    BY <1>6 DEF PostConsumed
  <2> HIDE DEF c, take
  <2>3. /\ mid \in RowSums /\ ledger[c]["issue"] \in Int
        /\ mid["issue"] = ledger[c]["issue"]
    BY <1>0, <2>1, IssuesGrow
  <2> HIDE DEF mid
  <2>4. /\ Posted(mid, k, -q)["issue"] <= ledger[c]["issue"]
        /\ k = "issue" => Posted(mid, k, -q)["issue"] = ledger[c]["issue"] - q
    <3>1. CASE k = "issue"
      BY <2>3, <3>1, IssuePosted
    <3>2. CASE k = "stock"
      BY <2>1, <2>3, <3>2, IssuesGrow
    <3> QED BY <3>1, <3>2
  <2>5. /\ ledger'[c] = Posted(mid, k, -q)
        /\ \A d \in Cell \ {c} : ledger'[d] = ledger[d]
    BY <1>0, <2>1, <2>2
  <2>6. CASE demand' = demand
    <3>1. \A d \in Cell : ledger'[d]["issue"] \in Int /\ ledger'[d]["issue"] <= ledger[d]["issue"]
      BY <1>0, <2>1, <2>4, <2>5 DEF RowSums
    <3> QED BY <2>6, <3>1, DemandKept
  <2>7. CASE k = "issue" /\ demand' = [demand EXCEPT ![LineCell[l]].sale = @ + q]
    <3>1. demand' = [demand EXCEPT ![c].sale = @ + q]
      BY <2>7 DEF c
    <3>2. ledger' \in LedgerType /\ ledger'[c]["issue"] = ledger[c]["issue"] - q
      BY <1>0, <2>4, <2>5, <2>7 DEF LedgerType
    <3> QED BY <2>1, <2>5, <3>1, <3>2, DemandSold
  <2> QED BY <1>6, <2>6, <2>7
<1>7. ASSUME NEW c \in Cell, NEW good \in Int, NEW bad \in Int,
             ReceiveTransferLine(c, good, bad)
      PROVE  DemandWithinIssues'
  <2> DEFINE mid == Posted(ledger[c], "stock", good)
  <2>1. mid \in RowSums /\ mid["issue"] <= ledger[c]["issue"]
    BY <1>0, IssuesGrow
  <2>2. /\ ledger'[c] = Posted(mid, "damage", bad)
        /\ \A d \in Cell \ {c} : ledger'[d] = ledger[d]
    BY <1>0, <1>7 DEF ReceiveTransferLine
  <2> HIDE DEF mid
  <2>3. Posted(mid, "damage", bad)["issue"] <= mid["issue"] /\ mid["issue"] \in Int
    BY <2>1, IssuesGrow
  <2>4. \A d \in Cell : ledger'[d]["issue"] \in Int /\ ledger'[d]["issue"] <= ledger[d]["issue"]
    BY <1>0, <2>1, <2>2, <2>3 DEF RowSums
  <2> QED BY <1>7, <2>4, DemandKept DEF ReceiveTransferLine
<1>8. CASE RebuildDemand
  <2>1. ASSUME NEW c \in Cell
        PROVE  /\ demand'[c].sale = demand[c].sale
               /\ demand'[c].issue = -ledger[c]["issue"]
               /\ ledger'[c]["issue"] = ledger[c]["issue"] /\ ledger[c]["issue"] \in Int
    BY <1>8 DEF RebuildDemand, TypeInv, TypeOK
  <2> QED BY <2>1 DEF DemandWithinIssues
<1>9. CASE Next
  <2>1. 0..MaxQty \subseteq Nat /\ 1..MaxQty \subseteq Nat /\ -MaxQty..MaxQty \subseteq Int
    BY BoundsAssumption
  <2>2. ASSUME NEW c \in Cell, NEW q \in Int, OpeningBalance(c, q) \/ Adjust(c, q)
        PROVE  DemandWithinIssues'
    BY <1>3, <2>2 DEF OpeningBalance, Adjust
  <2>3. ASSUME NEW l \in Line, NEW q \in Nat, Reserve(l, q) \/ Release(l)
        PROVE  DemandWithinIssues'
    <3>1. LineCell[l] \in Cell /\ -q \in Int /\ hold[l].qty \in Int
      BY LineCellAssumption, BoundsAssumption DEF TypeInv, TypeOK
    <3> QED BY <1>3, <2>3, <3>1 DEF Reserve, Release
  <2>4. ASSUME NEW l \in Line, NEW q \in Nat, NEW s \in BOOLEAN,
               IssueAgainstReservation(l, q, s)
        PROVE  DemandWithinIssues'
    BY <1>6, <2>4 DEF IssueAgainstReservation
  <2>5. ASSUME NEW l \in Line, NEW q \in Nat, NEW k \in {"issue", "stock"},
               IssueRequestLine(l, q, k)
        PROVE  DemandWithinIssues'
    BY <1>6, <2>5 DEF IssueRequestLine
  <2>6. ASSUME NEW l \in Line, Release(l) PROVE DemandWithinIssues'
    BY <2>3, <2>6
  <2> QED
    BY <1>2, <1>4, <1>5, <1>7, <1>8, <1>9, <2>1, <2>2, <2>3, <2>4, <2>5, <2>6 DEF Next
<1> QED BY <1>1, <1>9 DEF vars

\* However the feed is rebuilt, neither source counts more than was issued.
THEOREM DemandBounded == Spec => []DemandWithinIssues
<1>1. Spec => []TypeInv
  BY InitTypeInv, NextTypeInv, PTL DEF Spec
<1> QED BY InitDemand, NextDemand, <1>1, PTL DEF Spec

-----------------------------------------------------------------------------
(* What a step never does                                                  *)

\* A reservation that was consumed or released never holds stock again.
THEOREM EndedHolds == Spec => EndedHoldsStayEnded
<1> DEFINE Stay == \A l \in Line : hold[l].status \in {"consumed", "released"}
                                      => hold'[l] = hold[l]
<1>1. TypeInv /\ [Next]_vars => Stay
  <2> SUFFICES ASSUME TypeInv, [Next]_vars PROVE Stay
    OBVIOUS
  <2>1. CASE UNCHANGED hold
    BY <2>1
  <2>2. ASSUME NEW l \in Line, NEW q \in Nat, ConsumeHold(l, q)
        PROVE  Stay
    <3>1. CASE hold[l].status = "active"
      BY <2>2, <3>1 DEF ConsumeHold, TypeInv, TypeOK
    <3>2. CASE hold[l].status # "active"
      BY <2>2, <3>2 DEF ConsumeHold
    <3> QED BY <3>1, <3>2
  <2>3. ASSUME NEW l \in Line, NEW q, Reserve(l, q)
        PROVE  Stay
    BY <2>3 DEF Reserve, TypeInv, TypeOK
  <2>4. ASSUME NEW l \in Line, Release(l)
        PROVE  Stay
    BY <2>4 DEF Release, TypeInv, TypeOK
  <2>5. ASSUME NEW l \in Line, NEW q \in 1..MaxQty, NEW x,
               IssueAgainstReservation(l, q, x) \/ IssueRequestLine(l, q, x)
        PROVE  Stay
    <3>1. q \in Nat
      BY BoundsAssumption
    <3> QED BY <2>2, <2>5, <3>1 DEF IssueAgainstReservation, IssueRequestLine
  <2>6. CASE Next
    <3>1. \/ UNCHANGED hold
          \/ \E l \in Line, q \in 1..MaxQty : Reserve(l, q)
          \/ \E l \in Line : Release(l)
          \/ \E l \in Line, q \in 1..MaxQty, x \in BOOLEAN \union {"issue", "stock"} :
               IssueAgainstReservation(l, q, x) \/ IssueRequestLine(l, q, x)
      BY <2>6
      DEF Next, Receive, Issue, OpeningBalance, Adjust, Transfer, IssueFree, ReceiveTransferLine,
          RebuildDemand
    <3> QED BY <2>1, <2>3, <2>4, <2>5, <3>1
  <2> QED BY <2>1, <2>6 DEF vars
<1>2. Spec => []TypeInv
  BY InitTypeInv, NextTypeInv, PTL DEF Spec
<1> QED BY <1>1, <1>2, PTL DEF Spec, EndedHoldsStayEnded

\* Drawing on a hold: what is available drops only by what the hold lacks.
LEMMA HeldIssueAvailable ==
  ASSUME TypeInv, HoldsInv, NEW l \in Line, NEW q \in Nat, ConsumeHold(l, q),
         onHand' = [onHand EXCEPT ![LineCell[l]] = @ - q], damaged' = damaged
  PROVE  /\ Available(LineCell[l])' =
              Available(LineCell[l]) - (q - Lesser(q, OwnHold(l)))
         /\ \A c \in Cell \ {LineCell[l]} : Available(c)' = Available(c)
<1>1. /\ LineCell[l] \in Cell /\ OwnHold(l) \in Nat
      /\ onHand \in [Cell -> Int] /\ reserved \in [Cell -> Int] /\ damaged \in [Cell -> Int]
  BY LineCellAssumption, BoundsAssumption DEF TypeInv, TypeOK
<1>2. reserved' = [reserved EXCEPT ![LineCell[l]] = @ - Lesser(q, OwnHold(l))]
  BY ConsumeHoldHolds
<1>3. \A c \in Cell \ {LineCell[l]} : Available(c)' = Available(c)
  BY <1>1, <1>2 DEF Available
<1>4. /\ onHand'[LineCell[l]] = onHand[LineCell[l]] - q
      /\ reserved'[LineCell[l]] = reserved[LineCell[l]] - Lesser(q, OwnHold(l))
      /\ Lesser(q, OwnHold(l)) \in Int
  BY <1>1, <1>2
<1>5. Available(LineCell[l])' = onHand'[LineCell[l]] - reserved'[LineCell[l]] - damaged[LineCell[l]]
  BY DEF Available
<1> QED BY <1>1, <1>3, <1>4, <1>5 DEF Available

\* An issue of an approved request leaves the free stock of others alone.
THEOREM RequestIssuesFree == Spec => OwnHoldIsFree
<1> DEFINE Free == \A l \in Line, q \in 1..MaxQty, k \in {"issue", "stock"} :
                     IssueRequestLine(l, q, k) =>
                       Available(LineCell[l])' = Available(LineCell[l])
<1>1. TypeInv /\ HoldsInv => Free
  <2> SUFFICES ASSUME TypeInv, HoldsInv, NEW l \in Line, NEW q \in 1..MaxQty,
                      NEW k \in {"issue", "stock"}, IssueRequestLine(l, q, k)
               PROVE  Available(LineCell[l])' = Available(LineCell[l])
    OBVIOUS
  <2>1. q \in Nat /\ hold[l].qty \in Nat /\ LineCell[l] \in Cell
    BY BoundsAssumption, LineCellAssumption DEF TypeInv, TypeOK
  <2>2. Lesser(q, OwnHold(l)) = q
    BY <2>1 DEF IssueRequestLine
  <2>3. Available(LineCell[l])' = Available(LineCell[l]) - (q - q)
    BY <2>1, <2>2, HeldIssueAvailable DEF IssueRequestLine
  <2>4. Available(LineCell[l]) \in Int
    BY <2>1 DEF Available, TypeInv, TypeOK
  <2> QED BY <2>1, <2>3, <2>4
<1> QED BY HoldsAlways, <1>1, PTL DEF Spec, OwnHoldIsFree

\* No sale, issue, transfer or reservation promises stock that is not there.
THEOREM Promises == Spec => PromisesKept
<1> DEFINE Kept == \A c \in Cell : Available(c)' >= 0 \/ Available(c)' >= Available(c)
           Correction == \E c \in Cell, d, e \in -MaxQty..MaxQty :
                           Adjust(c, d) \/ ReceiveTransferLine(c, d, e)
<1>1. TypeInv /\ HoldsInv /\ [Next]_vars => Kept \/ Correction
  <2> SUFFICES ASSUME TypeInv, HoldsInv, [Next]_vars, ~Correction PROVE Kept
    OBVIOUS
  <2>0. /\ onHand \in [Cell -> Int] /\ reserved \in [Cell -> Int] /\ damaged \in [Cell -> Int]
        /\ \A c \in Cell : Available(c) \in Int
    BY DEF TypeInv, TypeOK, Available
  <2>1. CASE UNCHANGED <<onHand, reserved, damaged>>
    BY <2>0, <2>1 DEF Available
  <2>2. ASSUME NEW w \in Warehouse, NEW b \in Basket, Receive(w, b) \/ Issue(w, b)
        PROVE  Kept
    <3> SUFFICES ASSUME NEW c \in Cell
                 PROVE  Available(c)' >= 0 \/ Available(c)' >= Available(c)
      OBVIOUS
    <3>1. c[1] \in Product /\ c = <<c[1], c[2]>> /\ b[c[1]] \in Nat
      BY CellParts, BasketType
    <3>2. reserved'[c] = reserved[c] /\ damaged'[c] = damaged[c]
      BY <2>2 DEF Receive, Issue
    <3>3. \/ onHand'[c] = onHand[c]
          \/ onHand'[c] = onHand[c] + b[c[1]]
          \/ /\ onHand'[c] = onHand[c] - b[c[1]]
             /\ b[c[1]] > 0 => Available(c) >= b[c[1]]
      BY <2>2, <3>1 DEF Receive, Issue
    <3>4. PICK n \in Nat : n = b[c[1]]
      BY <3>1
    <3>5. onHand[c] \in Int /\ reserved[c] \in Int /\ damaged[c] \in Int
      BY <2>0
    <3> QED BY <3>2, <3>3, <3>4, <3>5 DEF Available
  <2>3. ASSUME NEW c \in Cell, NEW q \in 0..MaxQty, OpeningBalance(c, q)
        PROVE  Kept
    BY <2>0, <2>3, BoundsAssumption DEF OpeningBalance, Available
  <2>4. ASSUME NEW p \in Product, NEW from \in Warehouse, NEW to \in Warehouse,
               NEW q \in 1..MaxQty, Transfer(p, from, to, q)
        PROVE  Kept
    <3> DEFINE src == <<p, from>>
               dst == <<p, to>>
    <3>1. src \in Cell /\ dst \in Cell /\ src # dst /\ q \in Nat
      BY <2>4, BoundsAssumption DEF Transfer
    <3>2. /\ Available(src) >= q /\ UNCHANGED <<reserved, damaged>>
          /\ onHand' = [onHand EXCEPT ![src] = @ - q, ![dst] = @ + q]
      BY <2>4 DEF Transfer
    <3> HIDE DEF src, dst
    <3> QED BY <2>0, <3>1, <3>2 DEF Available
  <2>5. ASSUME NEW l \in Line, NEW q \in 1..MaxQty, Reserve(l, q)
        PROVE  Kept
    <3>1. LineCell[l] \in Cell /\ q \in Nat
      BY LineCellAssumption, BoundsAssumption
    <3> QED BY <2>0, <2>5, <3>1 DEF Reserve, Available
  <2>6. ASSUME NEW l \in Line, Release(l)
        PROVE  Kept
    <3> DEFINE r == Greater(0, reserved[LineCell[l]] - hold[l].qty)
    <3>1. /\ LineCell[l] \in Cell /\ hold[l].qty \in Nat /\ reserved[LineCell[l]] \in Nat
      BY LineCellAssumption, BoundsAssumption DEF TypeInv, TypeOK
    <3>2. r \in Int /\ r <= reserved[LineCell[l]]
      BY <3>1
    <3>3. reserved' = [reserved EXCEPT ![LineCell[l]] = r] /\ UNCHANGED <<onHand, damaged>>
      BY <2>6 DEF Release
    <3> HIDE DEF r
    <3> QED BY <2>0, <3>1, <3>2, <3>3 DEF Available
  <2>7. ASSUME NEW l \in Line, NEW q \in 1..MaxQty, NEW s \in BOOLEAN,
               IssueAgainstReservation(l, q, s)
        PROVE  Kept
    <3>1. LineCell[l] \in Cell /\ q \in Nat /\ OwnHold(l) \in Nat
      BY LineCellAssumption, BoundsAssumption DEF TypeInv, TypeOK
    <3>2. /\ Available(LineCell[l])' = Available(LineCell[l]) - (q - Lesser(q, OwnHold(l)))
          /\ \A c \in Cell \ {LineCell[l]} : Available(c)' = Available(c)
      BY <2>7, <3>1, HeldIssueAvailable DEF IssueAgainstReservation
    <3>3. Available(LineCell[l]) + OwnHold(l) >= q
      BY <2>7 DEF IssueAgainstReservation
    <3>4. Available(LineCell[l])' >= 0 \/ Available(LineCell[l])' >= Available(LineCell[l])
      <4> HIDE DEF OwnHold
      <4> QED BY <2>0, <3>1, <3>2, <3>3
    <3> QED BY <2>0, <3>2, <3>4
  <2>8. ASSUME NEW c \in Cell, NEW q \in 1..MaxQty, NEW s \in BOOLEAN, IssueFree(c, q, s)
        PROVE  Kept
    BY <2>0, <2>8, BoundsAssumption DEF IssueFree, Available
  <2>9. ASSUME NEW l \in Line, NEW q \in 1..MaxQty, NEW k \in {"issue", "stock"},
               IssueRequestLine(l, q, k)
        PROVE  Kept
    <3>1. LineCell[l] \in Cell /\ q \in Nat /\ hold[l].qty \in Nat
      BY LineCellAssumption, BoundsAssumption DEF TypeInv, TypeOK
    <3>2. Lesser(q, OwnHold(l)) = q
      BY <2>9, <3>1 DEF IssueRequestLine
    <3>3. /\ Available(LineCell[l])' = Available(LineCell[l]) - (q - q)
          /\ \A c \in Cell \ {LineCell[l]} : Available(c)' = Available(c)
      BY <2>9, <3>1, <3>2, HeldIssueAvailable DEF IssueRequestLine
    <3> QED BY <2>0, <3>1, <3>3
  <2>10. CASE Next
    <3>1. RebuildDemand => Kept
      BY <2>1 DEF RebuildDemand
    <3> HIDE DEF Kept
    <3> QED
      BY <2>2, <2>3, <2>4, <2>5, <2>6, <2>7, <2>8, <2>9, <2>10, <3>1 DEF Next
  <2> QED BY <2>1, <2>10 DEF vars
<1>2. TypeInv /\ HoldsInv /\ [Next]_vars =>
        ((\E c \in Cell : Available(c)' < 0 /\ Available(c)' < Available(c)) => Correction)
  <2>1. TypeInv /\ HoldsInv /\ [Next]_vars => (TypeInv /\ HoldsInv)'
    BY NextTypeInv, NextHolds
  <2>2. ASSUME TypeInv, TypeInv', NEW c \in Cell
        PROVE  Available(c) \in Int /\ Available(c)' \in Int
    BY <2>2 DEF Available, TypeInv, TypeOK
  <2> QED BY <1>1, <2>1, <2>2
<1> QED BY HoldsAlways, <1>2, PTL DEF Spec, PromisesKept

-----------------------------------------------------------------------------
(* The operations are moves of the abstract specification                  *)

\* No operation moves more of one row than one line of a request may name.
LEMMA MovesOneLine ==
  ASSUME TypeInv, Next, NEW c \in Cell
  PROVE  onHand'[c] - onHand[c] \in -MaxQty..MaxQty
<1>0. onHand \in [Cell -> Int] /\ MaxQty \in Nat /\ onHand[c] \in Int
  BY BoundsAssumption DEF TypeInv, TypeOK
<1>1. ASSUME onHand' = onHand PROVE onHand'[c] - onHand[c] \in -MaxQty..MaxQty
  BY <1>0, <1>1
<1>2. ASSUME NEW x \in Cell, NEW q \in -MaxQty..MaxQty, onHand' = [onHand EXCEPT ![x] = @ + q]
      PROVE  onHand'[c] - onHand[c] \in -MaxQty..MaxQty
  <2>1. onHand'[c] = onHand[c] \/ onHand'[c] = onHand[c] + q
    BY <1>0, <1>2
  <2> QED BY <1>0, <2>1
<1>3. ASSUME NEW x \in Cell, NEW q \in 1..MaxQty, onHand' = [onHand EXCEPT ![x] = @ - q]
      PROVE  onHand'[c] - onHand[c] \in -MaxQty..MaxQty
  <2>1. onHand'[c] = onHand[c] \/ onHand'[c] = onHand[c] - q
    BY <1>0, <1>3
  <2> QED BY <1>0, <2>1
<1>4. ASSUME NEW w \in Warehouse, NEW b \in Basket, Receive(w, b) \/ Issue(w, b)
      PROVE  onHand'[c] - onHand[c] \in -MaxQty..MaxQty
  <2>1. PICK n \in 0..MaxQty : n = b[c[1]]
    BY CellParts DEF Basket
  <2>2. onHand'[c] = onHand[c] \/ onHand'[c] = onHand[c] + n \/ onHand'[c] = onHand[c] - n
    BY <1>4, <2>1 DEF Receive, Issue
  <2> QED BY <1>0, <2>1, <2>2
<1>5. ASSUME NEW p \in Product, NEW from \in Warehouse, NEW to \in Warehouse,
             NEW q \in 1..MaxQty, Transfer(p, from, to, q)
      PROVE  onHand'[c] - onHand[c] \in -MaxQty..MaxQty
  <2>1. PICK src \in Cell, dst \in Cell : src = <<p, from>> /\ dst = <<p, to>>
    OBVIOUS
  <2>2. src # dst /\ onHand' = [onHand EXCEPT ![src] = @ - q, ![dst] = @ + q]
    BY <1>5, <2>1 DEF Transfer
  <2>3. onHand'[c] = onHand[c] \/ onHand'[c] = onHand[c] + q \/ onHand'[c] = onHand[c] - q
    BY <1>0, <2>2
  <2> QED BY <1>0, <2>3
<1>6. ASSUME NEW x \in Cell, NEW q \in 0..MaxQty, OpeningBalance(x, q)
      PROVE  onHand'[c] - onHand[c] \in -MaxQty..MaxQty
  BY <1>0, <1>2, <1>6 DEF OpeningBalance
<1>7. ASSUME NEW l \in Line, NEW q \in 1..MaxQty, NEW k,
             (\E s \in BOOLEAN : IssueAgainstReservation(l, q, s)) \/ IssueRequestLine(l, q, k)
      PROVE  onHand'[c] - onHand[c] \in -MaxQty..MaxQty
  BY <1>3, <1>7, LineCellAssumption DEF IssueAgainstReservation, IssueRequestLine
<1> QED
  BY <1>1, <1>2, <1>3, <1>4, <1>5, <1>6, <1>7
  DEF Next, Adjust, Reserve, Release, IssueFree, ReceiveTransferLine, RebuildDemand

\* Every operation is a move, or shows nothing of itself.
LEMMA OperationMoves ==
  ASSUME TypeInv, TypeInv', LedgerExplainsBalance, LedgerExplainsBalance', Next
  PROVE  Operations!Next
<1> DEFINE d == [c \in Cell |-> onHand'[c] - onHand[c]]
<1>1. /\ onHand \in [Cell -> Nat] /\ onHand' \in [Cell -> Nat]
      /\ \A c \in Cell : onHand[c] \in Int /\ onHand'[c] \in Int /\ onHand'[c] >= 0
  BY BoundsAssumption DEF TypeInv, TypeOK
<1>2. d \in [Cell -> -MaxQty..MaxQty]
  BY MovesOneLine
<1>3. \A c \in Cell : StockMoved[c] = onHand[c] /\ StockMoved'[c] = onHand'[c]
  BY DEF StockMoved, LedgerExplainsBalance
<1>4. \A c \in Cell : onHand[c] + d[c] = onHand'[c] /\ StockMoved[c] + d[c] = onHand'[c]
  BY <1>1, <1>3
<1>5. onHand' = [c \in Cell |-> onHand[c] + d[c]]
  BY <1>1, <1>4
<1>6. StockMoved' = [c \in Cell |-> StockMoved[c] + d[c]]
  <2>1. StockMoved' = [c \in Cell |-> StockMoved'[c]]
    BY DEF StockMoved
  <2>2. \A c \in Cell : StockMoved'[c] = StockMoved[c] + d[c]
    BY <1>3, <1>4
  <2> HIDE DEF d
  <2> QED BY <2>1, <2>2
<1>7. \A c \in Cell : onHand[c] + d[c] >= 0
  BY <1>1, <1>4
<1> HIDE DEF d
<1>8. Operations!Move(d)
  BY <1>5, <1>6, <1>7 DEF Operations!Move
<1> QED BY <1>2, <1>8 DEF Operations!Next

\* What callers of the stock core see is what its concurrent transactions promise
\* (Refinement): each operation moves some rows at once, by no more than a line each and
\* never below zero, together with the ledger.  The core and its row locks implement one
\* abstract specification.
THEOREM OperationsAreMoves == Spec => OperationsAreAtomic
<1> DEFINE Inv == TypeInv /\ HoldsInv /\ LedgerExplainsBalance
<1>1. Init => Operations!Init
  <2> SUFFICES ASSUME Init PROVE Operations!Init
    OBVIOUS
  <2>1. \A c \in Cell : ledger[c]["stock"] = 0 /\ ledger[c]["issue"] = 0
    BY DEF Init
  <2>2. StockMoved = [c \in Cell |-> 0]
    BY <2>1 DEF StockMoved
  <2> QED BY <2>2 DEF Init, Operations!Init
<1>2. TypeInv /\ HoldsInv /\ LedgerExplainsBalance /\ [Next]_vars => LedgerExplainsBalance'
  BY NextLedger
<1>3. TypeInv /\ TypeInv' /\ LedgerExplainsBalance /\ LedgerExplainsBalance' /\ [Next]_vars
        => [Operations!Next]_<<onHand, StockMoved>>
  BY OperationMoves DEF vars, StockMoved
<1> QED
  BY <1>1, <1>2, <1>3, InitLedger, HoldsAlways, PTL DEF Spec, OperationsAreAtomic, Operations!Spec

-----------------------------------------------------------------------------
(***************************************************************************)
(* What row locks buy, for any number of concurrent requests and rows: when *)
(* no request reads a row it has not locked (no "import" among Kinds), what  *)
(* each one read stays true until it ends; the run that admits the import    *)
(* shows the assumption is needed.  Whatever the kinds, every request takes   *)
(* effect as AtomicStock promises, an import on its own row only, and a       *)
(* circle of requests that wait for each other has one in it that locks       *)
(* several rows as they come.                                                *)
(***************************************************************************)

HIDE DEF Cell, MovementKind, HoldStatus, HoldRow, Lesser, Greater, Held, OwnHold

\* Only a request that is under way holds a row or wants one; what it read of the row it
\* holds is what is committed, unless it is an import, which names one row; a row that is
\* not committed has nothing on hand.
Guarded ==
  /\ \A r \in Row : owner[r] # None =>
       /\ kind[owner[r]] # None
       /\ kind[owner[r]] # "import" => seen[owner[r]][r] = balance[r]
  /\ \A r \in Row : ~exists[r] => balance[r] = 0
  /\ \A t \in Txn : stage[t] = "update" => kind[t] = "import"
  /\ \A t \in Txn : kind[t] = None => want[t] = None /\ todo[t] = {} /\ stage[t] # "update"
  /\ \A t \in Txn : kind[t] # None /\ kind[t] = "import" => delta[t] \in Request("import")

TInv == RequestsTypeOK /\ Guarded

-----------------------------------------------------------------------------
LEMMA RequestIsDeltas == \A k \in Kinds : Request(k) \subseteq Deltas
BY DEF Request

LEMMA NoneIsNot == None \notin Txn /\ None \notin Row
BY RowAssumption

LEMMA TypeInit == RequestsInit => RequestsTypeOK
<1>1. 0 \in 0..MaxBalance /\ 0 \in -MaxLineQty..MaxLineQty
  BY RowAssumption
<1> QED
  BY <1>1 DEF RequestsInit, RequestsTypeOK, Deltas

LEMMA EndTypes ==
  ASSUME RequestsTypeOK, NEW t \in Txn, End(t)
  PROVE  /\ owner' \in [Row -> Txn \union {None}]
         /\ kind' \in [Txn -> Kinds \union {None}]
         /\ delta' \in [Txn -> Deltas]
         /\ todo' \in [Txn -> SUBSET Row]
         /\ want' \in [Txn -> Row \union {None}]
         /\ stage' \in [Txn -> {"select", "insert", "update"}]
         /\ seen' \in [Txn -> [Row -> 0..MaxBalance]]
<1>1. 0 \in 0..MaxBalance /\ 0 \in -MaxLineQty..MaxLineQty
  BY RowAssumption
<1>2. [r \in Row |-> 0] \in Deltas /\ [r \in Row |-> 0] \in [Row -> 0..MaxBalance]
  BY <1>1 DEF Deltas
<1> QED
  BY <1>2 DEF RequestsTypeOK, End

LEMMA TakeTypes ==
  ASSUME RequestsTypeOK, NEW t \in Txn, NEW r \in Row, NEW v \in 0..MaxBalance, Take(t, r, v)
  PROVE  RequestsTypeOK'
BY DEF RequestsTypeOK, Take, data

LEMMA RollbackTypes ==
  ASSUME RequestsTypeOK, NEW t \in Txn, Rollback(t)
  PROVE  RequestsTypeOK'
<1>1. End(t) /\ UNCHANGED <<balance, posted, exists>>
  BY DEF Rollback, data
<1> QED
  BY <1>1, EndTypes DEF RequestsTypeOK

LEMMA CommitTypes ==
  ASSUME RequestsTypeOK, NEW t \in Txn, Commit(t)
  PROVE  RequestsTypeOK'
<1>1. End(t)
  BY DEF Commit
<1>2. balance' \in [Row -> 0..MaxBalance]
  BY DEF RequestsTypeOK, Commit, Fits
<1>3. posted' \in [Row -> Int]
  <2>1. \A r \in Row : delta[t][r] \in Int
    BY RowAssumption DEF RequestsTypeOK, Deltas
  <2> QED
    BY <2>1 DEF RequestsTypeOK, Commit
<1>4. exists' \in [Row -> BOOLEAN]
  BY DEF RequestsTypeOK, Commit
<1> QED
  BY <1>1, <1>2, <1>3, <1>4, EndTypes DEF RequestsTypeOK

LEMMA TypeStep == RequestsTypeOK /\ [RequestsNext]_requestVars => RequestsTypeOK'
<1> SUFFICES ASSUME RequestsTypeOK, [RequestsNext]_requestVars
             PROVE  RequestsTypeOK'
  OBVIOUS
<1>1. CASE UNCHANGED requestVars
  BY <1>1 DEF RequestsTypeOK, requestVars, data
<1>2. ASSUME NEW t \in Txn, NEW k \in Kinds, NEW d \in Request(k), Begin(t, k, d)
      PROVE  RequestsTypeOK'
  <2>1. d \in Deltas /\ Touched(d) \subseteq Row
    BY RequestIsDeltas DEF Touched
  <2> QED
    BY <1>2, <2>1 DEF RequestsTypeOK, Begin, data
<1>3. ASSUME NEW t \in Txn, NEW r \in Row, Ask(t, r)
      PROVE  RequestsTypeOK'
  BY <1>3 DEF RequestsTypeOK, Ask, data
<1>4. ASSUME NEW t \in Txn, NEW r \in Row, Lock(t, r)
      PROVE  RequestsTypeOK'
  <2>1. balance[r] \in 0..MaxBalance
    BY DEF RequestsTypeOK
  <2> QED
    BY <1>4, <2>1, TakeTypes DEF Lock
<1>5. ASSUME NEW t \in Txn, NEW r \in Row, ReadUnlocked(t, r)
      PROVE  RequestsTypeOK'
  BY <1>5 DEF RequestsTypeOK, ReadUnlocked, data
<1>6. ASSUME NEW t \in Txn, NEW r \in Row, Overwrite(t, r)
      PROVE  RequestsTypeOK'
  <2>1. seen[t][r] \in 0..MaxBalance
    BY DEF RequestsTypeOK
  <2> QED
    BY <1>6, <2>1, TakeTypes DEF Overwrite
<1>7. ASSUME NEW t \in Txn, NEW r \in Row, Missing(t, r)
      PROVE  RequestsTypeOK'
  BY <1>7 DEF RequestsTypeOK, Missing, data
<1>8. ASSUME NEW t \in Txn, NEW r \in Row, Insert(t, r)
      PROVE  RequestsTypeOK'
  <2>1. 0 \in 0..MaxBalance
    BY RowAssumption
  <2> QED
    BY <1>8, <2>1, TakeTypes DEF Insert
<1>9. ASSUME NEW t \in Txn, Commit(t)
      PROVE  RequestsTypeOK'
  BY <1>9, CommitTypes
<1>10. ASSUME NEW t \in Txn, Rollback(t)
       PROVE  RequestsTypeOK'
  BY <1>10, RollbackTypes
<1> QED
  BY <1>1, <1>2, <1>3, <1>4, <1>5, <1>6, <1>7, <1>8, <1>9, <1>10
  DEF RequestsNext, Step, Refuse, DeadlockAbort

\* Every variable keeps its type, and no balance is ever below zero, whatever
\* the requests are and however they interleave.
THEOREM RequestTypes == RequestsSpec => []RequestsTypeOK
BY TypeInit, TypeStep, PTL DEF RequestsSpec

-----------------------------------------------------------------------------
LEMMA GuardedInit == RequestsInit => Guarded
BY DEF RequestsInit, Guarded

LEMMA EndGuarded ==
  ASSUME TInv, NEW t \in Txn, End(t), exists' \in [Row -> BOOLEAN],
         \A r \in Row : owner[r] # t => balance'[r] = balance[r],
         \A r \in Row : ~exists'[r] => ~exists[r] /\ balance'[r] = balance[r]
  PROVE  Guarded'
<1>1. \A r \in Row : owner'[r] # None => owner[r] # t /\ owner'[r] = owner[r]
  BY DEF TInv, RequestsTypeOK, End
<1>2. \A u \in Txn : u # t => kind'[u] = kind[u] /\ seen'[u] = seen[u]
  BY DEF TInv, RequestsTypeOK, End
<1>3. \A u \in Txn : stage'[u] = "update" => kind'[u] = "import"
  BY DEF TInv, RequestsTypeOK, Guarded, End
<1>6. \A u \in Txn : kind'[u] = None => want'[u] = None /\ todo'[u] = {} /\ stage'[u] # "update"
  BY DEF TInv, RequestsTypeOK, Guarded, End
<1>7. \A u \in Txn : kind'[u] # None /\ kind'[u] = "import" => delta'[u] \in Request("import")
  BY DEF TInv, RequestsTypeOK, Guarded, End
<1>4. \A r \in Row : owner'[r] # None =>
        /\ kind'[owner'[r]] # None
        /\ kind'[owner'[r]] # "import" => seen'[owner'[r]][r] = balance'[r]
  <2> SUFFICES ASSUME NEW r \in Row, owner'[r] # None
               PROVE  /\ kind'[owner'[r]] # None
                      /\ kind'[owner'[r]] # "import" => seen'[owner'[r]][r] = balance'[r]
    OBVIOUS
  <2>1. owner[r] \in Txn /\ owner[r] # t /\ owner'[r] = owner[r]
    BY <1>1 DEF TInv, RequestsTypeOK
  <2>2. kind[owner[r]] # None /\ (kind[owner[r]] # "import" => seen[owner[r]][r] = balance[r])
    BY <2>1, NoneIsNot DEF TInv, Guarded
  <2> QED
    BY <2>1, <2>2, <1>2
<1>5. \A r \in Row : ~exists'[r] => balance'[r] = 0
  BY DEF TInv, Guarded
<1>8. Request("import")' = Request("import")
  BY DEF Request
<1> QED
  BY <1>3, <1>4, <1>5, <1>6, <1>7, <1>8 DEF Guarded

LEMMA TakeGuarded ==
  ASSUME TInv, NEW t \in Txn, NEW r \in Row, kind[t] # None, owner[r] = None,
         NEW v, Take(t, r, v), kind[t] # "import" => v = balance[r]
  PROVE  Guarded'
<1>1. UNCHANGED <<balance, posted, exists, kind, delta, stage>>
  BY DEF Take, data
<1>2. \A s \in Row : owner'[s] = IF s = r THEN t ELSE owner[s]
  BY DEF TInv, RequestsTypeOK, Take
<1>3. seen'[t][r] = v
  BY DEF TInv, RequestsTypeOK, Take
<1>4. \A u \in Txn, s \in Row : s # r => seen'[u][s] = seen[u][s]
  BY DEF TInv, RequestsTypeOK, Take
<1>5. ASSUME NEW s \in Row, owner'[s] # None
      PROVE  /\ kind'[owner'[s]] # None
             /\ kind'[owner'[s]] # "import" => seen'[owner'[s]][s] = balance'[s]
  <2>1. CASE s = r
    BY <2>1, <1>1, <1>2, <1>3
  <2>2. CASE s # r
    <3>1. owner'[s] = owner[s] /\ owner[s] \in Txn
      BY <2>2, <1>2, <1>5 DEF TInv, RequestsTypeOK
    <3> QED
      BY <2>2, <3>1, <1>1, <1>4, <1>5 DEF TInv, Guarded
  <2> QED
    BY <2>1, <2>2
<1>6. \A u \in Txn : kind'[u] = None => want'[u] = None /\ todo'[u] = {} /\ stage'[u] # "update"
  BY <1>1 DEF TInv, RequestsTypeOK, Guarded, Take
<1> QED
  BY <1>1, <1>5, <1>6 DEF TInv, Guarded, Request

LEMMA RollbackGuarded ==
  ASSUME TInv, NEW t \in Txn, Rollback(t)
  PROVE  Guarded'
<1>1. End(t) /\ UNCHANGED <<balance, posted, exists>>
  BY DEF Rollback, data
<1>2. exists' \in [Row -> BOOLEAN]
  BY <1>1 DEF TInv, RequestsTypeOK
<1> QED
  BY <1>1, <1>2, EndGuarded

LEMMA CommitGuarded ==
  ASSUME TInv, NEW t \in Txn, Commit(t)
  PROVE  Guarded'
<1>1. End(t)
  BY DEF Commit
<1>2. exists' \in [Row -> BOOLEAN]
  BY DEF TInv, RequestsTypeOK, Commit
<1>3. \A r \in Row : owner[r] # t => balance'[r] = balance[r]
  BY DEF Commit
<1>4. \A r \in Row : ~exists'[r] => ~exists[r] /\ balance'[r] = balance[r]
  BY DEF Commit
<1> QED
  BY <1>1, <1>2, <1>3, <1>4, EndGuarded

LEMMA GuardedStep ==
  ASSUME TInv, [RequestsNext]_requestVars
  PROVE  Guarded'
<1>0. Request("import")' = Request("import")
  BY DEF Request
<1>1. CASE UNCHANGED requestVars
  BY <1>0, <1>1 DEF TInv, Guarded, requestVars, data
<1>2. ASSUME NEW t \in Txn, NEW k \in Kinds, NEW d \in Request(k), Begin(t, k, d)
      PROVE  Guarded'
  <2>1. k # None
    BY KindsAssumption, RowAssumption
  <2> QED
    BY <1>0, <1>2, <2>1 DEF TInv, RequestsTypeOK, Guarded, Begin, data
<1>3. ASSUME NEW t \in Txn, NEW r \in Row, Ask(t, r)
      PROVE  Guarded'
  BY <1>0, <1>3 DEF TInv, RequestsTypeOK, Guarded, Ask, NextRow, data
<1>4. ASSUME NEW t \in Txn, NEW r \in Row, Lock(t, r)
      PROVE  Guarded'
  <2>1. kind[t] # None /\ owner[r] = None /\ Take(t, r, balance[r])
    BY <1>4, NoneIsNot DEF TInv, Guarded, Lock
  <2> QED
    BY <2>1, TakeGuarded
<1>5. ASSUME NEW t \in Txn, NEW r \in Row, ReadUnlocked(t, r)
      PROVE  Guarded'
  <2>1. kind[t] = "import" /\ kind[t] # None /\ UNCHANGED <<data, owner, kind, delta, todo, want>>
    BY <1>5, NoneIsNot DEF TInv, Guarded, ReadUnlocked
  <2>2. \A u \in Txn : u # t => seen'[u] = seen[u] /\ stage'[u] = stage[u]
    BY <1>5 DEF TInv, RequestsTypeOK, ReadUnlocked
  <2>3. ASSUME NEW s \in Row, owner'[s] # None
        PROVE  /\ kind'[owner'[s]] # None
               /\ kind'[owner'[s]] # "import" => seen'[owner'[s]][s] = balance'[s]
    BY <2>1, <2>2, <2>3 DEF TInv, RequestsTypeOK, Guarded, data
  <2> QED
    BY <1>0, <2>1, <2>2, <2>3 DEF TInv, RequestsTypeOK, Guarded, data
<1>10. ASSUME NEW t \in Txn, NEW r \in Row, Overwrite(t, r)
       PROVE  Guarded'
  <2>1. kind[t] # None /\ owner[r] = None /\ Take(t, r, seen[t][r]) /\ kind[t] = "import"
    BY <1>10, NoneIsNot DEF TInv, Guarded, Overwrite
  <2> QED
    BY <2>1, TakeGuarded
<1>6. ASSUME NEW t \in Txn, NEW r \in Row, Missing(t, r)
      PROVE  Guarded'
  BY <1>0, <1>6, NoneIsNot DEF TInv, RequestsTypeOK, Guarded, Missing, data
<1>7. ASSUME NEW t \in Txn, NEW r \in Row, Insert(t, r)
      PROVE  Guarded'
  <2>1. kind[t] # None /\ owner[r] = None /\ Take(t, r, 0) /\ balance[r] = 0
    BY <1>7, NoneIsNot DEF TInv, Guarded, Insert
  <2> QED
    BY <2>1, TakeGuarded
<1>8. ASSUME NEW t \in Txn, Commit(t)
      PROVE  Guarded'
  BY <1>8, CommitGuarded
<1>9. ASSUME NEW t \in Txn, Rollback(t)
      PROVE  Guarded'
  BY <1>9, RollbackGuarded
<1> QED
  BY <1>1, <1>2, <1>3, <1>4, <1>5, <1>6, <1>7, <1>8, <1>9, <1>10
  DEF RequestsNext, Step, Refuse, DeadlockAbort

LEMMA TInvStep == TInv /\ [RequestsNext]_requestVars => TInv'
BY TypeStep, GuardedStep DEF TInv

LEMMA TInvAlways == RequestsSpec => []TInv
<1>1. RequestsInit => TInv
  BY TypeInit, GuardedInit DEF TInv
<1> QED
  BY <1>1, TInvStep, PTL DEF RequestsSpec

\* If every kind of request locks what it reads, what a request read of a row
\* it holds stays true until it ends.
THEOREM LockedReads ==
  ASSUME "import" \notin Kinds
  PROVE  RequestsSpec => []ReadsStayTrue
<1>1. TInv => ReadsStayTrue
  <2>1. TInv => \A t \in Txn : kind[t] # None => kind[t] # "import"
    BY DEF TInv, RequestsTypeOK
  <2> QED
    BY <2>1 DEF TInv, RequestsTypeOK, Guarded, ReadsStayTrue
<1> QED
  BY <1>1, TInvAlways, PTL

-----------------------------------------------------------------------------
(* Deadlocks                                                               *)

\* Where a request stands in its lines: what it holds it is through with, what it
\* wants is among the rest, and a transfer goes through its rows in their order.
Lines(t) ==
  /\ kind[t] = None => want[t] = None /\ todo[t] = {} /\ \A r \in Row : owner[r] # t
  /\ todo[t] \subseteq Touched(delta[t])
  /\ \A r \in Row : owner[r] = t => r \in Touched(delta[t]) /\ r \notin todo[t]
  /\ want[t] # None => want[t] \in todo[t]
  /\ kind[t] = "transfer" =>
       /\ want[t] # None => \A s \in todo[t] : Rank[want[t]] <= Rank[s]
       /\ \A r \in Row : owner[r] = t => \A s \in todo[t] : Rank[r] < Rank[s]

OInv == RequestsTypeOK /\ \A t \in Txn : Lines(t)

LEMMA OthersLines ==
  ASSUME OInv, NEW t \in Txn, NEW u \in Txn, u # t,
         kind'[u] = kind[u], delta'[u] = delta[u], todo'[u] = todo[u], want'[u] = want[u],
         \A r \in Row : owner'[r] = u => owner[r] = u
  PROVE  Lines(u)'
<1>1. Lines(u)
  BY DEF OInv
<1> QED BY <1>1 DEF Lines, Touched

LEMMA TakeLines ==
  ASSUME OInv, NEW t \in Txn, NEW r \in Row, NEW v, want[t] = r, owner[r] = None, Take(t, r, v)
  PROVE  \A u \in Txn : Lines(u)'
<1>1. kind' = kind /\ delta' = delta
  BY DEF Take
<1>2. \A s \in Row : owner'[s] = IF s = r THEN t ELSE owner[s]
  BY DEF OInv, RequestsTypeOK, Take
<1>3. \A u \in Txn : /\ todo'[u] = IF u = t THEN todo[t] \ {r} ELSE todo[u]
                     /\ want'[u] = IF u = t THEN None ELSE want[u]
  BY DEF OInv, RequestsTypeOK, Take
<1>4. ASSUME NEW u \in Txn, u # t PROVE Lines(u)'
  <2>1. \A s \in Row : owner'[s] = u => owner[s] = u
    BY <1>2, <1>4
  <2> QED BY <1>1, <1>3, <1>4, <2>1, OthersLines
<1>5. Lines(t)'
  <2>1. Lines(t) /\ r # None /\ todo[t] \subseteq Row
    BY NoneIsNot DEF OInv, RequestsTypeOK
  <2>2. todo'[t] = todo[t] \ {r} /\ want'[t] = None /\ r \in todo[t] /\ kind[t] # None
    BY <1>3, <2>1, NoneIsNot DEF Lines
  <2>3. Touched(delta[t])' = Touched(delta[t])
    BY <1>1 DEF Touched
  <2>4. todo'[t] \subseteq Touched(delta[t])'
    BY <2>1, <2>2, <2>3 DEF Lines
  <2>5. \A s \in Row : owner'[s] = t => s \in Touched(delta[t])' /\ s \notin todo'[t]
    BY <1>2, <2>1, <2>2, <2>3 DEF Lines
  <2>6. ASSUME kind[t] = "transfer", NEW q \in Row, owner'[q] = t, NEW s \in todo'[t]
        PROVE  Rank[q] < Rank[s]
    <3>1. Rank[r] <= Rank[s] /\ s # r /\ s \in Row
      BY <2>1, <2>2, <2>6 DEF Lines
    <3>2. CASE q = r
      BY <3>1, <3>2, RowAssumption
    <3>3. CASE q # r
      BY <1>2, <2>1, <2>2, <2>6, <3>3 DEF Lines
    <3> QED BY <3>2, <3>3
  <2> QED BY <1>1, <2>2, <2>4, <2>5, <2>6 DEF Lines
<1> QED BY <1>4, <1>5

LEMMA EndLines ==
  ASSUME OInv, NEW t \in Txn, End(t)
  PROVE  \A u \in Txn : Lines(u)'
<1>1. \A s \in Row : owner'[s] = IF owner[s] = t THEN None ELSE owner[s]
  BY DEF End
<1>2. \A u \in Txn : u # t =>
        kind'[u] = kind[u] /\ delta'[u] = delta[u] /\ todo'[u] = todo[u] /\ want'[u] = want[u]
  BY DEF OInv, RequestsTypeOK, End
<1>3. ASSUME NEW u \in Txn, u # t PROVE Lines(u)'
  <2>1. \A s \in Row : owner'[s] = u => owner[s] = u
    BY <1>1, NoneIsNot
  <2> QED BY <1>2, <1>3, <2>1, OthersLines
<1>4. kind'[t] = None /\ todo'[t] = {} /\ want'[t] = None /\ \A s \in Row : owner'[s] # t
  <2>1. \A s \in Row : owner'[s] # t
    BY <1>1, NoneIsNot
  <2> QED BY <2>1 DEF OInv, RequestsTypeOK, End
<1>5. Lines(t)'
  BY <1>4 DEF Lines
<1> QED BY <1>3, <1>5

LEMMA OInvStart == RequestsInit => OInv
<1> SUFFICES ASSUME RequestsInit PROVE \A t \in Txn : Lines(t)
  BY TypeInit DEF OInv
<1> QED BY NoneIsNot DEF RequestsInit, Lines

LEMMA OInvStep == OInv /\ [RequestsNext]_requestVars => OInv'
<1> SUFFICES ASSUME OInv, [RequestsNext]_requestVars PROVE \A u \in Txn : Lines(u)'
  BY TypeStep DEF OInv
<1>1. CASE UNCHANGED requestVars
  BY <1>1 DEF OInv, Lines, Touched, requestVars, data
<1>2. ASSUME NEW t \in Txn, NEW k \in Kinds, NEW d \in Request(k), Begin(t, k, d), NEW u \in Txn
      PROVE  Lines(u)'
  <2>0. UNCHANGED <<owner, want>>
    BY <1>2 DEF Begin
  <2>1. CASE u # t
    <3>1. kind'[u] = kind[u] /\ delta'[u] = delta[u] /\ todo'[u] = todo[u]
      BY <1>2, <2>1 DEF Begin, OInv, RequestsTypeOK
    <3> QED BY <2>0, <2>1, <3>1, OthersLines
  <2>2. CASE u = t
    <3>1. Lines(t) /\ kind[t] = None
      BY <1>2 DEF OInv, Begin
    <3>2. kind'[t] = k /\ k # None /\ delta'[t] = d /\ todo'[t] = Touched(d)
      BY <1>2, KindsAssumption DEF Begin, OInv, RequestsTypeOK
    <3>3. want'[t] = None /\ \A r \in Row : owner'[r] # t
      BY <2>0, <3>1 DEF Lines
    <3> QED BY <2>2, <3>2, <3>3 DEF Lines
  <2> QED BY <2>1, <2>2
<1>3. ASSUME NEW t \in Txn, NEW r \in Row, Ask(t, r), NEW u \in Txn
      PROVE  Lines(u)'
  <2>0. UNCHANGED <<owner, kind, delta, todo>>
    BY <1>3 DEF Ask
  <2>1. CASE u # t
    <3>1. want'[u] = want[u]
      BY <1>3, <2>1 DEF Ask, OInv, RequestsTypeOK
    <3> QED BY <2>0, <2>1, <3>1, OthersLines
  <2>2. CASE u = t
    <3>1. Lines(t) /\ want'[t] = r /\ NextRow(t, r)
      BY <1>3 DEF OInv, RequestsTypeOK, Ask
    <3>2. r \in todo[t] /\ kind[t] # None
      <4>1. r \in todo[t]
        BY <3>1 DEF NextRow
      <4> QED BY <3>1, <4>1 DEF Lines
    <3> QED BY <2>0, <2>2, <3>1, <3>2 DEF Lines, NextRow, Touched
  <2> QED BY <2>1, <2>2
<1>4. ASSUME NEW t \in Txn, NEW r \in Row, ReadUnlocked(t, r) \/ Missing(t, r), NEW u \in Txn
      PROVE  Lines(u)'
  <2>1. UNCHANGED <<owner, kind, delta, todo, want>>
    BY <1>4 DEF ReadUnlocked, Missing
  <2>2. Lines(u)
    BY DEF OInv
  <2> QED BY <2>1, <2>2 DEF Lines, Touched
<1>5. ASSUME NEW t \in Txn, NEW r \in Row, Lock(t, r) \/ Overwrite(t, r) \/ Insert(t, r)
      PROVE  \A u \in Txn : Lines(u)'
  <2>1. CASE Lock(t, r)
    BY <2>1, TakeLines DEF Lock
  <2>2. CASE Overwrite(t, r)
    BY <2>2, TakeLines DEF Overwrite
  <2>3. CASE Insert(t, r)
    BY <2>3, TakeLines DEF Insert
  <2> QED BY <1>5, <2>1, <2>2, <2>3
<1>6. ASSUME NEW t \in Txn, Commit(t) \/ Rollback(t)
      PROVE  \A u \in Txn : Lines(u)'
  BY <1>6, EndLines DEF Commit, Rollback
<1> QED
  BY <1>1, <1>2, <1>3, <1>4, <1>5, <1>6 DEF RequestsNext, Step, Refuse, DeadlockAbort

\* Whoever is waited for in a circle waits as well, so it names two rows; if it is a
\* transfer, for a row that comes later.
LEMMA WaitsForLater ==
  ASSUME OInv, IsFiniteSet(Row), NEW t \in Txn, NEW u \in Txn,
         Blocker(t) = u, Blocker(u) # None,
         kind[u] # "transfer" => ~(Cardinality(Touched(delta[u])) > 1)
  PROVE  want[t] \in Row /\ want[u] \in Row /\ Rank[want[t]] < Rank[want[u]]
<1>1. want[t] # None /\ owner[want[t]] = u /\ want[u] # None
  BY NoneIsNot DEF Blocker
<1>2. want[t] \in Row /\ want[u] \in Row
  BY <1>1 DEF OInv, RequestsTypeOK
<1>3. PICK p \in Row, q \in Row : p = want[t] /\ q = want[u]
  BY <1>2
<1>4. Lines(u)
  BY DEF OInv
<1>5. p \in Touched(delta[u]) /\ q \in Touched(delta[u]) /\ p # q /\ q \in todo[u]
  BY <1>1, <1>3, <1>4 DEF Lines
<1>6. kind[u] = "transfer"
  <2>1. IsFiniteSet(Touched(delta[u]))
    BY FS_Subset DEF Touched
  <2>2. Cardinality({p, q}) = 2
    <3>1. IsFiniteSet({p}) /\ Cardinality({p}) = 1 /\ q \notin {p}
      BY <1>5, FS_Singleton
    <3>2. Cardinality({p} \union {q}) = Cardinality({p}) + 1
      BY <3>1, FS_AddElement
    <3>3. {p} \union {q} = {p, q}
      OBVIOUS
    <3> QED BY <3>1, <3>2, <3>3
  <2>3. {p, q} \subseteq Touched(delta[u])
    BY <1>5
  <2>4. Cardinality({p, q}) <= Cardinality(Touched(delta[u]))
    BY <2>1, <2>3, FS_Subset
  <2>5. Cardinality(Touched(delta[u])) \in Nat
    BY <2>1, FS_CardinalityType
  <2>6. Cardinality(Touched(delta[u])) > 1
    BY <2>2, <2>4, <2>5
  <2> QED BY <2>6
<1>7. Rank[p] < Rank[q]
  BY <1>1, <1>3, <1>4, <1>5, <1>6 DEF Lines
<1> QED BY <1>3, <1>7

LEMMA CirclesAreUnsorted ==
  ASSUME OInv, IsFiniteSet(Txn), IsFiniteSet(Row)
  PROVE  OnlyUnsortedLinesDeadlock
<1> SUFFICES ASSUME NEW S \in SUBSET Txn, Circle(S),
                    \A t \in S : kind[t] # "transfer" => ~(Cardinality(Touched(delta[t])) > 1)
             PROVE  FALSE
  BY DEF OnlyUnsortedLinesDeadlock
<1>1. \A t \in S : Blocker(t) \in S /\ Blocker(t) \in Txn /\ Blocker(t) # None
  BY NoneIsNot DEF Circle
<1>2. ASSUME NEW t \in S
      PROVE  want[t] \in Row /\ Rank[want[t]] < Rank[want[Blocker(t)]]
  <2>1. PICK u \in S : u = Blocker(t)
    BY <1>1
  <2>2. Blocker(u) # None /\ u \in Txn /\ t \in Txn
    BY <1>1
  <2> QED BY <2>1, <2>2, WaitsForLater
<1>3. PICK f : f = [t \in S |-> Rank[want[t]]]
  OBVIOUS
<1>4. \A t \in S : f[t] \in Int
  BY <1>2, <1>3, RowAssumption
<1>5. IsFiniteSet(S) /\ S # {}
  BY FS_Subset DEF Circle
<1>6. PICK t \in S : \A u \in S : f[u] <= f[t]
  BY <1>4, <1>5, LastOne
<1>7. PICK u \in S : u = Blocker(t)
  BY <1>1
<1>8. f[t] < f[u] /\ f[u] <= f[t]
  BY <1>2, <1>3, <1>6, <1>7
<1> QED BY <1>4, <1>8

\* Neither transfers nor requests of one row, nor both together, ever wait for each
\* other in a circle, whatever the kinds of request and however many there are
\* (transfer: "deterministic order ... to avoid deadlocks").
THEOREM OrderedRequestsNeverDeadlock ==
  ASSUME IsFiniteSet(Txn), IsFiniteSet(Row)
  PROVE  RequestsSpec => []OnlyUnsortedLinesDeadlock
<1>1. OInv => OnlyUnsortedLinesDeadlock
  BY CirclesAreUnsorted
<1> QED BY <1>1, OInvStart, OInvStep, PTL DEF RequestsSpec

-----------------------------------------------------------------------------
(* Progress                                                                *)

\* Requests that all wait for one another have a circle among them: the smallest of the
\* sets of requests that wait for each other.
LEMMA CircleExists ==
  ASSUME NEW S \in SUBSET Txn, IsFiniteSet(S), S # {}, \A t \in S : Blocker(t) \in S
  PROVE  \E C \in SUBSET Txn : C \subseteq S /\ Circle(C)
<1> DEFINE Closed == {C \in SUBSET S : C # {} /\ \A t \in C : Blocker(t) \in C}
           size == [C \in Closed |-> -Cardinality(C)]
<1>1. IsFiniteSet(Closed) /\ Closed # {}
  <2>1. IsFiniteSet(SUBSET S)
    BY FS_SUBSET
  <2>2. S \in Closed
    OBVIOUS
  <2> QED BY <2>1, <2>2, FS_Subset
<1>2. ASSUME NEW C \in Closed PROVE IsFiniteSet(C) /\ Cardinality(C) \in Nat
  BY FS_Subset, FS_CardinalityType
<1>3. \A C \in Closed : size[C] \in Int
  BY <1>2
<1>4. PICK C \in Closed : \A D \in Closed : size[D] <= size[C]
  <2> HIDE DEF Closed, size
  <2> QED BY <1>1, <1>3, LastOne
<1>5. ASSUME NEW u \in C, \A t \in C : Blocker(t) # u PROVE FALSE
  <2>1. C \ {u} \in Closed
    <3>1. Blocker(u) \in C \ {u}
      BY <1>5
    <3> QED BY <1>5, <3>1
  <2>2. Cardinality(C \ {u}) = Cardinality(C) - 1
    BY <1>2, FS_RemoveElement
  <2>3. -Cardinality(C \ {u}) <= -Cardinality(C)
    BY <1>4, <2>1
  <2> QED BY <1>2, <2>2, <2>3
<1>6. Circle(C)
  BY <1>5 DEF Circle
<1> QED BY <1>6

\* The guards of Step: a request that is under way can take one of its steps.
CanGoOn(t) ==
  \/ /\ want[t] = None
     /\ \/ \E r \in Row : NextRow(t, r) /\ (kind[t] # "transfer" => \A s \in Row : Fits(t, s))
        \/ (kind[t] = "transfer" => todo[t] = {}) /\ \E r \in Row : ~Fits(t, r)
        \/ Finished(t) /\ \A r \in Row : Fits(t, r)
  \/ \E r \in Row :
       /\ want[t] = r
       /\ \/ stage[t] = "select" /\ exists[r] /\ (kind[t] # "import" => owner[r] = None)
          \/ stage[t] = "select" /\ ~exists[r]
          \/ stage[t] = "insert" /\ (exists[r] \/ owner[r] = None)
          \/ stage[t] = "update" /\ owner[r] = None
  \/ \E S \in SUBSET Txn : t \in S /\ Circle(S)

\* One that waits for nobody can: it locks, reads, inserts or writes the row it wants,
\* goes on to the next, commits or is refused.
LEMMA UnblockedGoesOn ==
  ASSUME OInv, IsFiniteSet(Row), NEW t \in Txn, kind[t] # None, Blocker(t) = None
  PROVE  CanGoOn(t)
<1>0. /\ want[t] \in Row \union {None} /\ todo[t] \subseteq Row
      /\ stage[t] \in {"select", "insert", "update"} /\ Lines(t)
  BY DEF OInv, RequestsTypeOK
<1>1. CASE want[t] = None
  <2>1. CASE todo[t] = {}
    BY <1>1, <2>1 DEF CanGoOn, Finished
  <2>2. CASE todo[t] # {} /\ kind[t] = "transfer"
    <3>1. IsFiniteSet(todo[t])
      BY <1>0, FS_Subset
    <3>2. PICK f : f = [r \in todo[t] |-> -Rank[r]]
      OBVIOUS
    <3>3. \A r \in todo[t] : f[r] \in Int /\ Rank[r] \in Int
      BY <1>0, <3>2, RowAssumption
    <3>4. PICK r \in todo[t] : \A s \in todo[t] : f[s] <= f[r]
      BY <2>2, <3>1, <3>3, LastOne
    <3>5. NextRow(t, r)
      BY <3>2, <3>3, <3>4 DEF NextRow
    <3> QED BY <1>0, <1>1, <2>2, <3>5 DEF CanGoOn
  <2>3. CASE todo[t] # {} /\ kind[t] # "transfer"
    <3>1. PICK r \in todo[t] : TRUE
      BY <2>3
    <3>2. r \in Row /\ NextRow(t, r)
      BY <1>0, <2>3 DEF NextRow
    <3> QED BY <1>1, <2>3, <3>2 DEF CanGoOn
  <2> QED BY <2>1, <2>2, <2>3
<1>2. CASE want[t] # None
  <2>1. PICK r \in Row : r = want[t]
    BY <1>0, <1>2
  <2>2. exists[r] \/ stage[t] # "select" => owner[r] = None
    BY <1>2, <2>1 DEF Blocker
  <2> QED BY <1>0, <2>1, <2>2 DEF CanGoOn
<1> QED BY <1>1, <1>2

\* As long as a request is under way, one that is under way can go on, whatever the
\* kinds of request: those that wait wait for one another, directly or not, only if some
\* of them wait in a circle, and the deadlock detector ends one of that circle.  The
\* requests never all stand still.
THEOREM SomeRequestGoesOn ==
  ASSUME IsFiniteSet(Txn), IsFiniteSet(Row)
  PROVE  RequestsSpec =>
           []((\E t \in Txn : kind[t] # None) => \E t \in Txn : kind[t] # None /\ CanGoOn(t))
<1> DEFINE GoesOn == (\E t \in Txn : kind[t] # None) => \E t \in Txn : kind[t] # None /\ CanGoOn(t)
<1>1. OInv => GoesOn
  <2> SUFFICES ASSUME OInv, \E t \in Txn : kind[t] # None
               PROVE  \E t \in Txn : kind[t] # None /\ CanGoOn(t)
    OBVIOUS
  <2> DEFINE Busy == {t \in Txn : kind[t] # None}
  <2>1. CASE \E t \in Busy : Blocker(t) = None
    BY <2>1, UnblockedGoesOn
  <2>2. CASE \A t \in Busy : Blocker(t) # None
    <3>1. ASSUME NEW t \in Busy PROVE Blocker(t) \in Busy
      <4>1. want[t] \in Row /\ Blocker(t) = owner[want[t]]
        BY <2>2, NoneIsNot DEF Blocker, OInv, RequestsTypeOK
      <4>2. PICK u \in Txn : u = owner[want[t]]
        BY <2>2, <4>1 DEF OInv, RequestsTypeOK
      <4>3. kind[u] # None
        BY <4>1, <4>2 DEF OInv, Lines
      <4> QED BY <4>1, <4>2, <4>3
    <3>2. IsFiniteSet(Busy) /\ Busy # {}
      BY FS_Subset
    <3>3. PICK C \in SUBSET Txn : C \subseteq Busy /\ Circle(C)
      <4> HIDE DEF Busy
      <4>1. Busy \in SUBSET Txn
        BY DEF Busy
      <4> QED BY <3>1, <3>2, <4>1, CircleExists
    <3>4. PICK t \in C : TRUE
      BY <3>3 DEF Circle
    <3> QED BY <3>3, <3>4 DEF CanGoOn
  <2> QED BY <2>1, <2>2
<1> HIDE DEF GoesOn
<1>2. RequestsSpec => []GoesOn
  BY <1>1, OInvStart, OInvStep, PTL DEF RequestsSpec
<1> QED BY <1>2 DEF GoesOn

\* A request takes at most this many steps more: three for each row it has still to deal
\* with (it asks for the row, reads or misses it, and takes it), and its commit.
StepsToEnd(t) ==
  IF kind[t] = None THEN 0
  ELSE 3 * Cardinality(todo[t])
       + IF want[t] = None THEN 1 ELSE IF stage[t] = "select" THEN 0 ELSE -1

SameRequest(t) ==
  kind'[t] = kind[t] /\ todo'[t] = todo[t] /\ want'[t] = want[t] /\ stage'[t] = stage[t]

RequestAdvances(t) == kind[t] # None => SameRequest(t) \/ StepsToEnd(t)' < StepsToEnd(t)

LEMMA StepsToEndType ==
  ASSUME OInv, IsFiniteSet(Row), NEW t \in Txn
  PROVE  /\ IsFiniteSet(todo[t]) /\ Cardinality(todo[t]) \in 0..Cardinality(Row)
         /\ want[t] # None => want[t] \in todo[t] /\ Cardinality(todo[t]) >= 1
         /\ StepsToEnd(t) \in 0..(3 * Cardinality(Row) + 1)
         /\ kind[t] # None => StepsToEnd(t) > 0
<1>1. todo[t] \subseteq Row /\ Lines(t)
  BY DEF OInv, RequestsTypeOK
<1>2. IsFiniteSet(todo[t]) /\ Cardinality(todo[t]) <= Cardinality(Row)
  BY <1>1, FS_Subset
<1>3. Cardinality(todo[t]) \in Nat /\ Cardinality(Row) \in Nat
  BY <1>2, FS_CardinalityType
<1>4. want[t] # None => want[t] \in todo[t] /\ Cardinality(todo[t]) # 0
  BY <1>1, <1>2, FS_EmptySet DEF Lines
<1> QED BY <1>2, <1>3, <1>4 DEF StepsToEnd

\* The row is taken: what is left to do shrinks by it.
LEMMA TakeAdvances ==
  ASSUME OInv, IsFiniteSet(Row), NEW t \in Txn, NEW r \in Row, NEW v, want[t] = r, Take(t, r, v)
  PROVE  \A u \in Txn : RequestAdvances(u)
<1>1. /\ kind' = kind /\ stage' = stage
      /\ todo' = [todo EXCEPT ![t] = todo[t] \ {r}] /\ want' = [want EXCEPT ![t] = None]
  BY DEF Take
<1>2. todo \in [Txn -> SUBSET Row] /\ want \in [Txn -> Row \union {None}] /\ r # None
  BY NoneIsNot DEF OInv, RequestsTypeOK
<1>3. ASSUME NEW u \in Txn, u # t PROVE RequestAdvances(u)
  BY <1>1, <1>2, <1>3 DEF RequestAdvances, SameRequest
<1>4. RequestAdvances(t)
  <2>1. IsFiniteSet(todo[t]) /\ Cardinality(todo[t]) \in Nat /\ r \in todo[t]
    BY <1>2, StepsToEndType, FS_CardinalityType
  <2>2. Cardinality(todo'[t]) = Cardinality(todo[t]) - 1 /\ want'[t] = None /\ kind'[t] = kind[t]
    BY <1>1, <1>2, <2>1, FS_RemoveElement
  <2>3. CASE kind[t] # None
    <3>1. StepsToEnd(t)' = 3 * (Cardinality(todo[t]) - 1) + 1
      BY <2>2, <2>3 DEF StepsToEnd
    <3>2. StepsToEnd(t) \in {3 * Cardinality(todo[t]), 3 * Cardinality(todo[t]) - 1}
      BY <1>2, <2>1, <2>3 DEF StepsToEnd
    <3> QED BY <2>1, <3>1, <3>2 DEF RequestAdvances
  <2>4. CASE kind[t] = None
    BY <2>4 DEF RequestAdvances
  <2> QED BY <2>3, <2>4
<1> QED BY <1>3, <1>4

LEMMA EndAdvances ==
  ASSUME OInv, IsFiniteSet(Row), NEW t \in Txn, End(t)
  PROVE  \A u \in Txn : RequestAdvances(u)
<1>1. ASSUME NEW u \in Txn, u # t PROVE RequestAdvances(u)
  BY <1>1 DEF RequestAdvances, SameRequest, End, OInv, RequestsTypeOK
<1>2. RequestAdvances(t)
  <2>1. kind'[t] = None
    BY DEF End, OInv, RequestsTypeOK
  <2>2. StepsToEnd(t)' = 0
    BY <2>1 DEF StepsToEnd
  <2>3. StepsToEnd(t) \in Int /\ (kind[t] # None => StepsToEnd(t) > 0)
    BY StepsToEndType, FS_CardinalityType
  <2> QED BY <2>2, <2>3 DEF RequestAdvances
<1> QED BY <1>1, <1>2

LEMMA RequestStep ==
  ASSUME OInv, IsFiniteSet(Row), RequestsNext
  PROVE  \A u \in Txn : RequestAdvances(u)
<1>0. /\ kind \in [Txn -> Kinds \union {None}] /\ todo \in [Txn -> SUBSET Row]
      /\ want \in [Txn -> Row \union {None}] /\ stage \in [Txn -> {"select", "insert", "update"}]
  BY DEF OInv, RequestsTypeOK
<1>1. ASSUME NEW t \in Txn, NEW k \in Kinds, NEW d \in Request(k), Begin(t, k, d), NEW u \in Txn
      PROVE  RequestAdvances(u)
  BY <1>0, <1>1 DEF Begin, RequestAdvances, SameRequest
<1>2. ASSUME NEW t \in Txn, NEW r \in Row, Ask(t, r), NEW u \in Txn
      PROVE  RequestAdvances(u)
  <2>0. kind' = kind /\ todo' = todo
    BY <1>2 DEF Ask
  <2>1. CASE u # t
    BY <1>0, <1>2, <2>0, <2>1 DEF Ask, RequestAdvances, SameRequest
  <2>2. CASE u = t /\ kind[t] # None
    <3>1. want[t] = None /\ want'[t] = r /\ r # None /\ stage'[t] = "select"
      BY <1>0, <1>2, NoneIsNot DEF Ask
    <3>2. Cardinality(todo[t]) \in Int
      BY StepsToEndType, FS_CardinalityType
    <3>3. /\ StepsToEnd(t)' = 3 * Cardinality(todo[t])
          /\ StepsToEnd(t) = 3 * Cardinality(todo[t]) + 1
      BY <2>0, <2>2, <3>1, <3>2 DEF StepsToEnd
    <3> QED BY <2>2, <3>2, <3>3 DEF RequestAdvances
  <2>3. CASE kind[u] = None
    BY <2>3 DEF RequestAdvances
  <2> QED BY <2>1, <2>2, <2>3
<1>3. ASSUME NEW t \in Txn, NEW r \in Row, ReadUnlocked(t, r) \/ Missing(t, r), NEW u \in Txn
      PROVE  RequestAdvances(u)
  <2>0. kind' = kind /\ todo' = todo /\ want' = want
    BY <1>3 DEF ReadUnlocked, Missing
  <2>1. CASE u # t
    BY <1>0, <1>3, <2>0, <2>1 DEF ReadUnlocked, Missing, RequestAdvances, SameRequest
  <2>2. CASE u = t /\ kind[t] # None
    <3>1. want[t] = r /\ r # None /\ stage[t] = "select" /\ stage'[t] \in {"insert", "update"}
      BY <1>0, <1>3, NoneIsNot DEF ReadUnlocked, Missing
    <3>2. Cardinality(todo[t]) \in Int
      BY StepsToEndType, FS_CardinalityType
    <3>3. /\ StepsToEnd(t)' = 3 * Cardinality(todo[t]) - 1
          /\ StepsToEnd(t) = 3 * Cardinality(todo[t])
      BY <2>0, <2>2, <3>1, <3>2 DEF StepsToEnd
    <3> QED BY <2>2, <3>2, <3>3 DEF RequestAdvances
  <2>3. CASE kind[u] = None
    BY <2>3 DEF RequestAdvances
  <2> QED BY <2>1, <2>2, <2>3
<1>4. ASSUME NEW t \in Txn, NEW r \in Row, Lock(t, r) \/ Overwrite(t, r) \/ Insert(t, r)
      PROVE  \A u \in Txn : RequestAdvances(u)
  <2>1. want[t] = r /\ \E v : Take(t, r, v)
    BY <1>4 DEF Lock, Overwrite, Insert
  <2> QED BY <2>1, TakeAdvances
<1>5. ASSUME NEW t \in Txn, Commit(t) \/ Rollback(t)
      PROVE  \A u \in Txn : RequestAdvances(u)
  BY <1>5, EndAdvances DEF Commit, Rollback
<1> QED
  BY <1>1, <1>2, <1>3, <1>4, <1>5 DEF RequestsNext, Step, Refuse, DeadlockAbort

\* A request never goes back: each of its steps brings it nearer to its end, of which it
\* is at most three steps for each row and one more away, so it cannot retry a row for
\* ever.  With SomeRequestGoesOn, that every request ends is a matter of letting those go
\* on that can (RequestsEnd).
THEOREM RequestsAdvance ==
  ASSUME IsFiniteSet(Row)
  PROVE  RequestsSpec => /\ []\A t \in Txn : StepsToEnd(t) \in 0..(3 * Cardinality(Row) + 1)
                         /\ [][\A t \in Txn : RequestAdvances(t)]_requestVars
<1> DEFINE Bounded == \A t \in Txn : StepsToEnd(t) \in 0..(3 * Cardinality(Row) + 1)
           All == \A t \in Txn : RequestAdvances(t)
<1>1. OInv => Bounded
  BY StepsToEndType
<1>2. OInv /\ [RequestsNext]_requestVars => [All]_requestVars
  BY RequestStep
<1> HIDE DEF Bounded, All
<1>3. RequestsSpec => []OInv
  BY OInvStart, OInvStep, PTL DEF RequestsSpec
<1>4. RequestsSpec => []Bounded
  BY <1>1, <1>3, PTL
<1>5. RequestsSpec => [][All]_requestVars
  BY <1>2, <1>3, PTL DEF RequestsSpec
<1> QED BY <1>4, <1>5 DEF Bounded, All

-----------------------------------------------------------------------------
(* Atomicity                                                               *)

\* A commit is a move of the abstract specification, ...
LEMMA CommitMoves ==
  ASSUME TInv, NEW t \in Txn, kind[t] # "import", Commit(t)
  PROVE  Atomic!Next
<1> DEFINE d == [r \in Row |-> IF owner[r] = t THEN delta[t][r] ELSE 0]
<1>1. MaxLineQty \in Nat
  BY RowAssumption
<1>2. delta[t] \in [Row -> -MaxLineQty..MaxLineQty]
  BY DEF TInv, RequestsTypeOK, Deltas
<1>3. d \in [Row -> -MaxLineQty..MaxLineQty]
  BY <1>1, <1>2
<1>4. \A r \in Row : owner[r] = t => seen[t][r] = balance[r]
  BY NoneIsNot DEF TInv, Guarded
<1>5. \A r \in Row : d[r] \in Int /\ balance[r] \in Nat /\ posted[r] \in Int
  BY <1>3, RowAssumption DEF TInv, RequestsTypeOK
<1>6. \A r \in Row : balance[r] + d[r] >= 0
  BY <1>4, <1>5, RowAssumption DEF Commit, Fits
<1>7. balance' = [r \in Row |-> balance[r] + d[r]]
  BY <1>4, <1>5 DEF Commit
<1>8. posted' = [r \in Row |-> posted[r] + d[r]]
  BY <1>5 DEF Commit
<1>9. Atomic!Move(d)
  BY <1>6, <1>7, <1>8 DEF Atomic!Move
<1> QED
  BY <1>3, <1>9 DEF Atomic!Next

\* ... that of an import overwrites the one row it names, ...
LEMMA ImportOverwrites ==
  ASSUME TInv, OInv, NEW t \in Txn, kind[t] = "import", Commit(t)
  PROVE  Atomic!Next \/ UNCHANGED <<balance, posted>>
<1>1. kind[t] # None /\ "import" \in Kinds
  BY DEF TInv, RequestsTypeOK, Commit, Finished
<1>2. PICK r \in Row : Touched(delta[t]) = {r} /\ delta[t][r] > 0
  BY <1>1 DEF TInv, Guarded, Request
<1>3. PICK q : q = delta[t][r]
  OBVIOUS
<1>4. q \in 1..MaxLineQty
  <2>1. q \in -MaxLineQty..MaxLineQty
    BY <1>3 DEF TInv, RequestsTypeOK, Deltas
  <2> QED BY <1>2, <1>3, <2>1, RowAssumption
<1>5. \A s \in Row : s # r => owner[s] # t
  BY <1>2 DEF OInv, Lines
<1>6. /\ balance = [s \in Row |-> balance[s]] /\ posted = [s \in Row |-> posted[s]]
      /\ \A s \in Row : posted[s] \in Int
  BY DEF TInv, RequestsTypeOK
<1>7. CASE owner[r] = t
  <2>1. balance' = [balance EXCEPT ![r] = seen[t][r] + q]
    BY <1>3, <1>5, <1>6, <1>7 DEF Commit
  <2>2. posted' = [posted EXCEPT ![r] = @ + q]
    BY <1>3, <1>5, <1>6, <1>7 DEF Commit
  <2>3. balance'[r] = seen[t][r] + q
    BY <1>6, <2>1
  <2>4. seen[t][r] \in Nat
    BY RowAssumption DEF TInv, RequestsTypeOK
  <2>5. balance'[r] >= q
    BY <1>4, <2>3, <2>4, RowAssumption
  <2>6. Atomic!Overwrite(r, q)
    BY <1>1, <2>1, <2>2, <2>3, <2>5 DEF Atomic!Overwrite
  <2> QED BY <1>4, <2>6 DEF Atomic!Next
<1>8. CASE owner[r] # t
  <2>1. \A s \in Row : owner[s] # t
    BY <1>5, <1>8
  <2>2. balance' = balance /\ posted' = posted
    BY <1>6, <2>1 DEF Commit
  <2> QED BY <2>2
<1> QED BY <1>7, <1>8

\* ... and no other step shows.
LEMMA OthersAreHidden ==
  ASSUME TInv, OInv, [RequestsNext]_requestVars
  PROVE  Atomic!Next \/ UNCHANGED <<balance, posted>>
<1>1. ASSUME NEW t \in Txn, Rollback(t)
      PROVE  UNCHANGED <<balance, posted>>
  BY <1>1 DEF Rollback, data
<1>2. ASSUME NEW t \in Txn, NEW r \in Row, NEW v, Take(t, r, v)
      PROVE  UNCHANGED <<balance, posted>>
  BY <1>2 DEF Take, data
<1>3. ASSUME NEW t \in Txn, Commit(t)
      PROVE  Atomic!Next \/ UNCHANGED <<balance, posted>>
  BY <1>3, CommitMoves, ImportOverwrites
<1> QED
  BY <1>1, <1>2, <1>3
  DEF RequestsNext, Step, Begin, Ask, Lock, ReadUnlocked, Overwrite, Missing, Insert, Refuse,
      DeadlockAbort, requestVars, data

\* The row locks implement the abstract specification, for any kinds of request: each
\* takes effect at once or not at all, however their steps interleave, and an import,
\* which reads without a lock, parts the balance from the ledger of its own row only.
THEOREM Refinement == RequestsSpec => AtomicSpec
<1>1. RequestsInit => Atomic!Init
  BY DEF RequestsInit, Atomic!Init
<1>2. TInv /\ OInv /\ [RequestsNext]_requestVars => [Atomic!Next]_<<balance, posted>>
  BY OthersAreHidden
<1>3. RequestsInit => TInv
  BY TypeInit, GuardedInit DEF TInv
<1> QED
  BY <1>1, <1>2, <1>3, TInvStep, OInvStart, OInvStep, PTL DEF RequestsSpec, AtomicSpec, Atomic!Spec

-----------------------------------------------------------------------------
(* Inventory aging                                                         *)

LEMMA ClampedSum ==
  ASSUME NEW b \in Nat, NEW l \in Nat, NEW need \in Nat
  PROVE  AtLeastZero(b - need) + AtLeastZero(l - AtLeastZero(need - b)) = AtLeastZero(b + l - need)
BY DEF AtLeastZero

LEMMA ClampedType ==
  ASSUME NEW x \in Int
  PROVE  AtLeastZero(x) \in Nat /\ x <= AtLeastZero(x) /\ (x >= 0 => AtLeastZero(x) = x)
BY DEF AtLeastZero

LEMMA BeforeType ==
  ASSUME NEW size \in Nat, NEW left \in [1..size -> Nat], NEW k \in 1..size
  PROVE  Before(left, k) \in Nat
<1>1. \A i \in 1..(k - 1) : left[i] \in Nat
  OBVIOUS
<1>2. IsFiniteSet(1..(k - 1))
  BY FS_Interval
<1> QED BY <1>1, <1>2, SumNat DEF Before

\* A need takes from the layers what they hold, oldest first, and no more.
LEMMA ConsumedType ==
  ASSUME NEW size \in Nat, NEW left \in [1..size -> Nat], NEW need \in Nat
  PROVE  /\ Consumed(left, need) \in [1..size -> Nat]
         /\ \A k \in 1..size : Consumed(left, need)[k] <= left[k]
<1>1. ASSUME NEW k \in 1..size
      PROVE  /\ AtLeastZero(left[k] - AtLeastZero(need - Before(left, k))) \in Nat
             /\ AtLeastZero(left[k] - AtLeastZero(need - Before(left, k))) <= left[k]
  <2>1. PICK b \in Nat, l \in Nat : b = Before(left, k) /\ l = left[k]
    BY BeforeType
  <2>2. AtLeastZero(l - AtLeastZero(need - b)) \in Nat /\ AtLeastZero(l - AtLeastZero(need - b)) <= l
    BY DEF AtLeastZero
  <2> QED BY <2>1, <2>2
<1>2. DOMAIN left = 1..size
  OBVIOUS
<1> QED BY <1>1, <1>2 DEF Consumed

LEMMA ConsumedSum ==
  ASSUME NEW size \in Nat, NEW left \in [1..size -> Nat], NEW need \in Nat
  PROVE  SumFunctionOnSet(Consumed(left, need), 1..size)
           = AtLeastZero(SumFunctionOnSet(left, 1..size) - need)
<1>c. PICK c : c = Consumed(left, need)
  OBVIOUS
<1>0. c \in [1..size -> Nat]
  BY <1>c, ConsumedType
<1>1. \A k \in 1..size : c[k] = AtLeastZero(left[k] - AtLeastZero(need - Before(left, k)))
  BY <1>c DEF Consumed
<1> DEFINE Taken(k) == SumFunctionOnSet(c, 1..k) = AtLeastZero(SumFunctionOnSet(left, 1..k) - need)
           N == {k \in Nat : k <= size => Taken(k)}
<1>2. Taken(0)
  <2>1. 1..0 = {} /\ AtLeastZero(0 - need) = 0
    BY DEF AtLeastZero
  <2> QED BY <2>1, SumEmpty
<1>3. ASSUME NEW k \in Nat, k <= size => Taken(k), k + 1 <= size
      PROVE  Taken(k + 1)
  <2>1. k + 1 \in 1..size /\ (k + 1) - 1 = k /\ k <= size /\ \A i \in 1..(k + 1) : i \in 1..size
    BY <1>3
  <2>2. /\ SumFunctionOnSet(left, 1..(k + 1)) = SumFunctionOnSet(left, 1..k) + left[k + 1]
        /\ SumFunctionOnSet(c, 1..(k + 1)) = SumFunctionOnSet(c, 1..k) + c[k + 1]
    <3>1. \A i \in 1..(k + 1) : left[i] \in Int /\ c[i] \in Int
      BY <1>0, <2>1
    <3> QED BY <3>1, SumNext
  <2>3. Before(left, k + 1) = SumFunctionOnSet(left, 1..k)
    BY <2>1 DEF Before
  <2>4. PICK b \in Nat, l \in Nat : b = SumFunctionOnSet(left, 1..k) /\ l = left[k + 1]
    BY <2>1, <2>3, BeforeType
  <2>5. c[k + 1] = AtLeastZero(l - AtLeastZero(need - b))
    BY <1>1, <2>1, <2>3, <2>4
  <2>6. SumFunctionOnSet(c, 1..k) = AtLeastZero(b - need)
    BY <1>3, <2>1, <2>4
  <2>7. AtLeastZero(b - need) + AtLeastZero(l - AtLeastZero(need - b)) = AtLeastZero((b + l) - need)
    BY ClampedSum
  <2> HIDE DEF N
  <2>8. SumFunctionOnSet(c, 1..(k + 1)) = AtLeastZero((b + l) - need)
    BY <2>2, <2>5, <2>6, <2>7
  <2>9. SumFunctionOnSet(left, 1..(k + 1)) = b + l
    BY <2>2, <2>4
  <2> QED BY <2>8, <2>9
<1> HIDE DEF Taken
<1>4. N = Nat
  <2>1. N \in SUBSET Nat /\ 0 \in N
    BY <1>2
  <2>2. \A k \in N : k + 1 \in N
    BY <1>3
  <2> HIDE DEF N
  <2> QED BY <2>1, <2>2, InductionOnNumbers
<1>5. Taken(size)
  BY <1>4
<1> QED BY <1>c, <1>5 DEF Taken

\* A layer that gave only part of itself leaves every later one whole.
LEMMA ConsumedOldest ==
  ASSUME NEW size \in Nat, NEW left \in [1..size -> Nat], NEW need \in Nat,
         NEW k \in 1..size, NEW j \in 1..size, k < j, Consumed(left, need)[k] > 0
  PROVE  Consumed(left, need)[j] = left[j]
<1>1. /\ Consumed(left, need)[k] = AtLeastZero(left[k] - AtLeastZero(need - Before(left, k)))
      /\ Consumed(left, need)[j] = AtLeastZero(left[j] - AtLeastZero(need - Before(left, j)))
  BY DEF Consumed
<1>2. Before(left, k) + left[k] <= Before(left, j)
  <2>1. 1..(j - 1) = (1..k) \union ((k + 1)..(j - 1)) /\ (1..k) \cap ((k + 1)..(j - 1)) = {}
    OBVIOUS
  <2>2. IsFiniteSet(1..k) /\ IsFiniteSet((k + 1)..(j - 1))
    BY FS_Interval
  <2>3. \A i \in (1..k) \union ((k + 1)..(j - 1)) : left[i] \in Nat
    <3>1. \A i \in 1..size : left[i] \in Nat
      OBVIOUS
    <3>2. (1..k) \union ((k + 1)..(j - 1)) \subseteq 1..size
      OBVIOUS
    <3> QED BY <3>1, <3>2
  <2>4. Before(left, j)
          = SumFunctionOnSet(left, 1..k) + SumFunctionOnSet(left, (k + 1)..(j - 1))
    <3>1. \A i \in (1..k) \union ((k + 1)..(j - 1)) : left[i] \in Int
      BY <2>3
    <3> QED BY <2>1, <2>2, <3>1, SumUnion DEF Before
  <2>5. SumFunctionOnSet(left, (k + 1)..(j - 1)) \in Nat
    BY <2>2, <2>3, SumNat
  <2>6. SumFunctionOnSet(left, 1..k) = Before(left, k) + left[k]
    <3>1. PICK m \in Nat : m = k - 1 /\ m + 1 = k
      OBVIOUS
    <3>2. \A i \in 1..(m + 1) : left[i] \in Int
      BY <3>1
    <3>3. SumFunctionOnSet(left, 1..(m + 1)) = SumFunctionOnSet(left, 1..m) + left[m + 1]
      BY <3>2, SumNext
    <3> QED BY <3>1, <3>3 DEF Before
  <2>7. Before(left, k) \in Nat /\ left[k] \in Nat
    BY BeforeType
  <2> QED BY <2>4, <2>5, <2>6, <2>7
<1>3. PICK a \in Nat, b \in Nat, x \in Nat, y \in Nat :
        /\ a = Before(left, k) /\ b = Before(left, j) /\ x = left[k] /\ y = left[j]
  BY BeforeType
<1>4. AtLeastZero(x - AtLeastZero(need - a)) > 0 /\ a + x <= b
  BY <1>1, <1>2, <1>3
<1>5. AtLeastZero(y - AtLeastZero(need - b)) = y
  BY <1>4 DEF AtLeastZero
<1> QED BY <1>1, <1>3, <1>5

\* The layers left after n of the quantities q: those of movements not replayed are
\* empty, every layer later than one not yet empty is whole, and they hold the
\* balance, or more if the balance was ever negative.
Aged(q, left, n, size) ==
  /\ left \in [1..size -> Nat]
  /\ \A k \in 1..size : k > n => left[k] = 0
  /\ \A k, j \in 1..size : k < j /\ j <= n /\ left[k] > 0 => left[j] = AtLeastZero(q[j])
  /\ SumFunctionOnSet(left, 1..size) >= SumFunctionOnSet(q, 1..n)
  /\ (\A m \in 0..n : SumFunctionOnSet(q, 1..m) >= 0)
       => SumFunctionOnSet(left, 1..size) = SumFunctionOnSet(q, 1..n)

LEMMA PrefixType ==
  ASSUME NEW size \in Nat, NEW q \in [1..size -> Int], NEW n \in 0..size
  PROVE  SumFunctionOnSet(q, 1..n) \in Int
<1>1. \A i \in 1..n : q[i] \in Int
  OBVIOUS
<1>2. IsFiniteSet(1..n)
  BY FS_Interval
<1> QED BY <1>1, <1>2, SumType

LEMMA EntryAdded ==
  ASSUME NEW size \in Nat, NEW a \in 1..size, NEW f, NEW g, DifferAt(a, f, g, 1..size), f[a] = 0
  PROVE  SumFunctionOnSet(g, 1..size) = SumFunctionOnSet(f, 1..size) + g[a]
<1>0. IsFiniteSet(1..size)
  BY FS_Interval
<1>1. SumFunctionOnSet(g, 1..size) = SumFunctionOnSet(f, 1..size) + g[a] - f[a]
  BY <1>0, SumChange, Zenon
<1>2. \A k \in 1..size : f[k] \in Int /\ g[k] \in Int
  BY DEF DifferAt
<1>3. SumFunctionOnSet(f, 1..size) \in Int
  BY <1>0, <1>2, SumType
<1> QED BY <1>1, <1>2, <1>3

LEMMA AgedStep ==
  ASSUME NEW size \in Nat, NEW q \in [1..size -> Int], NEW n \in 0..size, n < size,
         NEW left, Aged(q, left, n, size)
  PROVE  Aged(q, Moved(left, n + 1, q[n + 1]), n + 1, size)
<1>1. left \in [1..size -> Nat]
  BY DEF Aged
<1>2. n \in Nat /\ n + 1 \in 1..size /\ n + 1 \in 0..size /\ q[n + 1] \in Int
  OBVIOUS
<1>3. SumFunctionOnSet(q, 1..(n + 1)) = SumFunctionOnSet(q, 1..n) + q[n + 1]
  <2>1. \A i \in 1..(n + 1) : q[i] \in Int
    BY <1>2
  <2> QED BY <1>2, <2>1, SumNext
<1>4. SumFunctionOnSet(left, 1..size) \in Nat /\ IsFiniteSet(1..size)
  <2>1. \A i \in 1..size : left[i] \in Nat
    BY <1>1
  <2>2. IsFiniteSet(1..size)
    BY FS_Interval
  <2> QED BY <2>1, <2>2, SumNat
<1>5. PICK x \in Int, b \in Int, s \in Nat :
        x = q[n + 1] /\ b = SumFunctionOnSet(q, 1..n) /\ s = SumFunctionOnSet(left, 1..size)
  BY <1>2, <1>4, PrefixType
<1>6. s >= b /\ ((\A m \in 0..n : SumFunctionOnSet(q, 1..m) >= 0) => s = b)
  BY <1>5 DEF Aged
<1>7. PICK next : next = Moved(left, n + 1, q[n + 1])
  OBVIOUS
<1>8. (\A m \in 0..(n + 1) : SumFunctionOnSet(q, 1..m) >= 0) => s = b /\ b + x >= 0
  <2> SUFFICES ASSUME \A m \in 0..(n + 1) : SumFunctionOnSet(q, 1..m) >= 0
               PROVE  s = b /\ b + x >= 0
    OBVIOUS
  <2>1. \A m \in 0..n : m \in 0..(n + 1)
    BY <1>2
  <2>2. n + 1 \in 0..(n + 1)
    BY <1>2
  <2> QED BY <1>3, <1>5, <1>6, <2>1, <2>2
<1>9. CASE x >= 0
  <2>1. next = [left EXCEPT ![n + 1] = x]
    BY <1>5, <1>7, <1>9 DEF Moved
  <2>2. /\ next \in [1..size -> Nat] /\ next[n + 1] = x
        /\ \A k \in 1..size : k # n + 1 => next[k] = left[k]
    BY <1>1, <1>2, <1>9, <2>1
  <2>3. left[n + 1] = 0
    BY <1>2 DEF Aged
  <2>4. SumFunctionOnSet(next, 1..size) = s + x
    <3>1. PICK a \in 1..size : a = n + 1
      BY <1>2
    <3>2. x \in Nat /\ left[a] = 0
      BY <1>9, <2>3, <3>1
    <3>3. DifferAt(a, left, next, 1..size)
      BY <1>1, <2>2, <3>1 DEF DifferAt
    <3>4. SumFunctionOnSet(next, 1..size) = SumFunctionOnSet(left, 1..size) + next[a]
      BY <3>2, <3>3, EntryAdded
    <3> QED BY <1>5, <2>2, <3>1, <3>4
  <2>5. \A k \in 1..size : k > n + 1 => next[k] = 0
    <3> SUFFICES ASSUME NEW k \in 1..size, k > n + 1 PROVE next[k] = 0
      OBVIOUS
    <3>1. k > n /\ k # n + 1
      BY <1>2
    <3> QED BY <2>2, <3>1 DEF Aged
  <2>6. ASSUME NEW k \in 1..size, NEW j \in 1..size, k < j, j <= n + 1, next[k] > 0
        PROVE  next[j] = AtLeastZero(q[j])
    <3>1. CASE j = n + 1
      BY <1>5, <1>9, <2>2, <3>1 DEF AtLeastZero
    <3>2. CASE j # n + 1
      <4>1. j <= n /\ k # n + 1
        BY <1>2, <2>6, <3>2
      <4> QED BY <2>2, <2>6, <3>2, <4>1 DEF Aged
    <3> QED BY <3>1, <3>2
  <2>7. s + x >= b + x
    BY <1>6
  <2>8. (\A m \in 0..(n + 1) : SumFunctionOnSet(q, 1..m) >= 0) => s + x = b + x
    BY <1>8
  <2> QED BY <1>3, <1>5, <1>7, <2>2, <2>4, <2>5, <2>6, <2>7, <2>8 DEF Aged
<1>10. CASE ~(x >= 0)
  <2>1. PICK need \in Nat : need = -x
    BY <1>10
  <2>2. next = Consumed(left, need)
    BY <1>5, <1>7, <1>10, <2>1 DEF Moved
  <2>3. next \in [1..size -> Nat] /\ \A k \in 1..size : next[k] <= left[k]
    BY <1>1, <2>2, ConsumedType
  <2>4. SumFunctionOnSet(next, 1..size) = AtLeastZero(s - need)
    BY <1>1, <1>5, <2>2, ConsumedSum
  <2>5. \A k \in 1..size : k > n => next[k] = 0
    <3> SUFFICES ASSUME NEW k \in 1..size, k > n PROVE next[k] = 0
      OBVIOUS
    <3>1. left[k] = 0 /\ next[k] <= left[k] /\ next[k] \in Nat
      BY <2>3 DEF Aged
    <3> QED BY <3>1
  <2>6. ASSUME NEW k \in 1..size, NEW j \in 1..size, k < j, j <= n + 1, next[k] > 0
        PROVE  next[j] = AtLeastZero(q[j])
    <3>1. next[j] = left[j]
      BY <1>1, <2>2, <2>6, ConsumedOldest
    <3>2. CASE j = n + 1
      <4>1. next[j] = 0
        BY <1>2, <2>5, <3>2
      <4>2. AtLeastZero(q[j]) = 0
        BY <1>5, <1>10, <3>2 DEF AtLeastZero
      <4> QED BY <4>1, <4>2
    <3>3. CASE j # n + 1
      <4>1. j <= n /\ left[k] > 0
        <5>1. PICK u \in Nat, v \in Nat : u = next[k] /\ v = left[k] /\ u <= v /\ u > 0
          BY <1>1, <2>3, <2>6
        <5>2. j <= n
          BY <1>2, <2>6, <3>3
        <5> QED BY <5>1, <5>2
      <4> QED BY <2>6, <3>1, <4>1 DEF Aged
    <3> QED BY <3>2, <3>3
  <2>7. AtLeastZero(s - need) >= b + x
    BY <1>6, <2>1 DEF AtLeastZero
  <2>8. (\A m \in 0..(n + 1) : SumFunctionOnSet(q, 1..m) >= 0) => AtLeastZero(s - need) = b + x
    <3>1. s = b /\ b + x >= 0 => AtLeastZero(s - need) = b + x
      BY <2>1 DEF AtLeastZero
    <3> QED BY <1>8, <3>1
  <2>9. \A k \in 1..size : k > n + 1 => next[k] = 0
    <3> SUFFICES ASSUME NEW k \in 1..size, k > n + 1 PROVE next[k] = 0
      OBVIOUS
    <3>1. k > n
      BY <1>2
    <3> QED BY <2>5, <3>1
  <2> QED BY <1>3, <1>5, <1>7, <2>3, <2>4, <2>6, <2>7, <2>8, <2>9 DEF Aged
<1> QED BY <1>9, <1>10

\* The recursive function behind the replay.
LayersBody(rows, g) ==
  [n \in 0..Len(rows) |->
     IF n = 0 THEN [k \in 1..Len(rows) |-> 0] ELSE Moved(g[n - 1], n, rows[n].qty)]

LEMMA LayersIs ==
  ASSUME NEW rows
  PROVE  Layers(rows) = CHOOSE g : g = LayersBody(rows, g)
BY DEF Layers, LayersBody

LEMMA MovedType ==
  ASSUME NEW size \in Nat, NEW left \in [1..size -> Nat], NEW n \in 1..size, NEW x \in Int
  PROVE  Moved(left, n, x) \in [1..size -> Nat]
<1>1. CASE x >= 0
  BY <1>1 DEF Moved
<1>2. CASE ~(x >= 0)
  <2>1. -x \in Nat
    BY <1>2
  <2> QED BY <1>2, <2>1, ConsumedType DEF Moved
<1> QED BY <1>1, <1>2

LEMMA LedgerFields ==
  ASSUME NEW rows \in Seq(Movement)
  PROVE  Len(rows) \in Nat /\ \A n \in 1..Len(rows) : rows[n].qty \in Int /\ rows[n].at \in Int
<1>1. Len(rows) \in Nat /\ \A n \in 1..Len(rows) : rows[n] \in Movement
  OBVIOUS
<1>2. \A m \in Movement : m.qty \in Int /\ m.at \in Int
  BY DEF Movement
<1> QED BY <1>1, <1>2

LEMMA LayersReplay ==
  ASSUME NEW rows \in Seq(Movement)
  PROVE  Layers(rows) = LayersBody(rows, Layers(rows))
<1>n. PICK size \in Nat : size = Len(rows)
  BY LedgerFields
<1>1. PICK q : size = Len(rows) /\ q = [n \in 1..size |-> rows[n].qty]
  BY <1>n
<1>2. \A n \in 1..size : rows[n].qty \in Int
  BY <1>1, LedgerFields
<1>v. PICK V : V = [1..size -> Nat]
  OBVIOUS
<1>z. PICK z : z = [k \in 1..size |-> 0]
  OBVIOUS
<1>g. PICK G : G = [p \in V \X Nat |->
                      IF p[2] \in 1..size THEN Moved(p[1], p[2], rows[p[2]].qty) ELSE p[1]]
  OBVIOUS
<1>3. z \in V
  BY <1>v, <1>z
<1>4. G \in [V \X Nat -> V]
  <2> SUFFICES ASSUME NEW v \in V, NEW n \in Nat
               PROVE  (IF n \in 1..size THEN Moved(v, n, rows[n].qty) ELSE v) \in V
    BY <1>g
  <2>1. CASE n \in 1..size
    <3>1. v \in [1..size -> Nat] /\ rows[n].qty \in Int
      BY <1>2, <1>v, <2>1
    <3> QED BY <1>v, <2>1, <3>1, MovedType
  <2> QED BY <2>1
<1>r. PICK f \in [Nat -> V] : Recursion(f, z, G)
  BY <1>3, <1>4, RecursionExists
<1>5. f[0] = z /\ \A n \in Nat : f[n + 1] = G[f[n], n + 1]
  BY <1>r DEF Recursion
<1>6. \A n \in 1..size : f[n] = Moved(f[n - 1], n, rows[n].qty)
  <2> SUFFICES ASSUME NEW n \in 1..size PROVE f[n] = Moved(f[n - 1], n, rows[n].qty)
    OBVIOUS
  <2>1. PICK m \in Nat : m = n - 1 /\ m + 1 = n
    OBVIOUS
  <2>2. f[m] \in V /\ n \in Nat
    BY <2>1
  <2>3. f[n] = G[f[m], n]
    BY <1>5, <2>1
  <2>4. G[f[m], n] = Moved(f[m], n, rows[n].qty)
    BY <1>g, <2>2
  <2> QED BY <2>1, <2>3, <2>4
<1>h. PICK h : h = [n \in 0..size |-> f[n]]
  OBVIOUS
<1>7. h = LayersBody(rows, h)
  <2>1. \A n \in 0..size :
          h[n] = IF n = 0 THEN [k \in 1..size |-> 0] ELSE Moved(h[n - 1], n, rows[n].qty)
    <3> SUFFICES ASSUME NEW n \in 0..size
                 PROVE  h[n] = IF n = 0 THEN z ELSE Moved(h[n - 1], n, rows[n].qty)
      BY <1>z
    <3>1. CASE n = 0
      BY <1>5, <1>h, <3>1
    <3>2. CASE n # 0
      <4>1. n \in 1..size /\ n - 1 \in 0..size
        BY <3>2
      <4>2. h[n] = f[n] /\ h[n - 1] = f[n - 1]
        BY <1>h, <4>1
      <4> QED BY <1>6, <3>2, <4>1, <4>2
    <3> QED BY <3>1, <3>2
  <2> QED BY <1>1, <1>h, <2>1 DEF LayersBody
<1> QED BY <1>7, LayersIs

LEMMA LayersAged ==
  ASSUME NEW rows \in Seq(Movement), NEW size \in Nat, size = Len(rows),
         NEW q, q = [n \in 1..size |-> rows[n].qty], NEW n \in 0..size
  PROVE  Aged(q, Layers(rows)[n], n, size)
<1>l. PICK g : g = Layers(rows)
  OBVIOUS
<1>1. /\ g[0] = [k \in 1..size |-> 0]
      /\ \A m \in 1..size : g[m] = Moved(g[m - 1], m, rows[m].qty)
  <2>1. g = LayersBody(rows, g)
    BY <1>l, LayersReplay
  <2>2. g = [m \in 0..size |->
               IF m = 0 THEN [k \in 1..size |-> 0] ELSE Moved(g[m - 1], m, rows[m].qty)]
    BY <2>1 DEF LayersBody
  <2>3. 0 \in 0..size /\ \A m \in 1..size : m \in 0..size /\ m # 0
    OBVIOUS
  <2>4. g[0] = [k \in 1..size |-> 0]
    BY <2>2, <2>3
  <2>5. \A m \in 1..size : g[m] = Moved(g[m - 1], m, rows[m].qty)
    BY <2>2, <2>3
  <2> QED BY <2>4, <2>5
<1>2. q \in [1..size -> Int] /\ \A m \in 1..size : q[m] = rows[m].qty
  BY LedgerFields
<1> DEFINE N == {m \in Nat : m <= size => Aged(q, g[m], m, size)}
<1>3. Aged(q, g[0], 0, size)
  <2>1. g[0] \in [1..size -> Nat] /\ \A k \in 1..size : g[0][k] = 0
    BY <1>1
  <2>2. IsFiniteSet(1..size) /\ 1..0 = {}
    BY FS_Interval
  <2>3. SumFunctionOnSet(g[0], 1..size) = 0
    BY <2>1, <2>2, SumZero
  <2>4. SumFunctionOnSet(q, 1..0) = 0
    BY <2>2, SumEmpty
  <2>5. \A k, j \in 1..size : ~(k < j /\ j <= 0)
    OBVIOUS
  <2> QED BY <2>1, <2>3, <2>4, <2>5 DEF Aged
<1>4. ASSUME NEW m \in Nat, m <= size => Aged(q, g[m], m, size), m + 1 <= size
      PROVE  Aged(q, g[m + 1], m + 1, size)
  <2>1. m \in 0..size /\ m < size /\ m + 1 \in 1..size /\ (m + 1) - 1 = m
    BY <1>4
  <2>2. Aged(q, g[m], m, size)
    BY <1>4, <2>1
  <2>3. Aged(q, Moved(g[m], m + 1, q[m + 1]), m + 1, size)
    BY <1>2, <2>1, <2>2, AgedStep
  <2>4. g[m + 1] = Moved(g[m], m + 1, q[m + 1])
    BY <1>1, <1>2, <2>1
  <2> QED BY <2>3, <2>4
<1>5. N = Nat
  <2>1. N \in SUBSET Nat /\ 0 \in N
    BY <1>3
  <2>2. \A m \in N : m + 1 \in N
    BY <1>4
  <2> HIDE DEF N
  <2> QED BY <2>1, <2>2, InductionOnNumbers
<1>6. \A m : m \in N /\ m <= size => Aged(q, g[m], m, size)
  OBVIOUS
<1> HIDE DEF N
<1>7. n \in N /\ n <= size
  BY <1>5
<1>8. Aged(q, g[n], n, size)
  BY <1>6, <1>7
<1> QED BY <1>8, <1>l

\* The stock that is aged is never less than the balance of the ledger, and it is
\* the balance if no prefix of the ledger, as it is read, is negative
\* (aging_from_movements drops the part of an issue that no layer covers).
THEOREM AgedStockCoversBalance ==
  \A rows \in Seq(Movement) :
    /\ AgedOnHand(rows) >= LedgerBalance(rows, Len(rows))
    /\ (\A n \in 0..Len(rows) : LedgerBalance(rows, n) >= 0)
         => AgedOnHand(rows) = LedgerBalance(rows, Len(rows))
<1> SUFFICES ASSUME NEW rows \in Seq(Movement)
             PROVE  /\ AgedOnHand(rows) >= LedgerBalance(rows, Len(rows))
                    /\ (\A n \in 0..Len(rows) : LedgerBalance(rows, n) >= 0)
                         => AgedOnHand(rows) = LedgerBalance(rows, Len(rows))
  OBVIOUS
<1>n. PICK size \in Nat : size = Len(rows)
  BY LedgerFields
<1>1. PICK q : size = Len(rows) /\ q = [n \in 1..size |-> rows[n].qty]
  BY <1>n
<1>2. size \in 0..size
  OBVIOUS
<1>3. Aged(q, Layers(rows)[size], size, size)
  BY <1>1, <1>2, LayersAged
<1>4. /\ AgedOnHand(rows) = SumFunctionOnSet(Layers(rows)[size], 1..size)
      /\ \A n : LedgerBalance(rows, n) = SumFunctionOnSet(q, 1..n)
  BY <1>1 DEF AgedOnHand, LedgerBalance
<1> QED BY <1>1, <1>3, <1>4 DEF Aged

\* What is aged as on hand are the newest receipts: if any of a receipt is left, all
\* of every later one is (first in, first out).
THEOREM AgedStockIsNewest ==
  \A rows \in Seq(Movement) :
    LET left == Layers(rows)[Len(rows)]
    IN  \A k, j \in 1..Len(rows) :
          k < j /\ left[k] > 0 => left[j] = AtLeastZero(rows[j].qty)
<1> SUFFICES ASSUME NEW rows \in Seq(Movement), NEW k \in 1..Len(rows), NEW j \in 1..Len(rows),
                    k < j, Layers(rows)[Len(rows)][k] > 0
             PROVE  Layers(rows)[Len(rows)][j] = AtLeastZero(rows[j].qty)
  OBVIOUS
<1>n. PICK size \in Nat : size = Len(rows)
  BY LedgerFields
<1>1. PICK q : size = Len(rows) /\ q = [n \in 1..size |-> rows[n].qty]
  BY <1>n
<1>2. size \in 0..size
  OBVIOUS
<1>3. Aged(q, Layers(rows)[size], size, size)
  BY <1>1, <1>2, LayersAged
<1>4. j <= size /\ q[j] = rows[j].qty
  BY <1>1
<1> QED BY <1>1, <1>3, <1>4 DEF Aged

\* Every unit on hand is in exactly one age bucket: the buckets of an item add up to
\* its stock on hand.
THEOREM BucketsAddUp ==
  \A rows \in Seq(Movement), asOf \in Int :
    SumFunctionOnSet([label \in Buckets |-> AgedBucket(rows, asOf, label)], Buckets)
      = AgedOnHand(rows)
<1> SUFFICES ASSUME NEW rows \in Seq(Movement), NEW asOf \in Int
             PROVE  SumFunctionOnSet([label \in Buckets |-> AgedBucket(rows, asOf, label)], Buckets)
                      = AgedOnHand(rows)
  OBVIOUS
<1>n. PICK size \in Nat : size = Len(rows)
  BY LedgerFields
<1>1. PICK q : size = Len(rows) /\ q = [n \in 1..size |-> rows[n].qty]
  BY <1>n
<1>g. PICK left, label, bucket :
        /\ left = Layers(rows)[size]
        /\ label = [k \in 1..size |-> BucketLabel(AgeInDays(rows[k], asOf))]
        /\ bucket = [b \in Buckets |-> AgedBucket(rows, asOf, b)]
  OBVIOUS
<1>2. \A k \in 1..size : left[k] \in Int
  <2>1. size \in 0..size
    OBVIOUS
  <2>2. Aged(q, left, size, size)
    BY <1>1, <1>g, <2>1, LayersAged
  <2> QED BY <2>2 DEF Aged
<1>3. \A k \in 1..size : label[k] \in Buckets
  BY <1>g DEF BucketLabel, Buckets
<1>4. \A b \in Buckets : bucket[b] = SumFunctionOnSet(left, {k \in 1..size : label[k] = b})
  <2> SUFFICES ASSUME NEW b \in Buckets
               PROVE  bucket[b] = SumFunctionOnSet(left, {k \in 1..size : label[k] = b})
    OBVIOUS
  <2>1. {k \in 1..size : BucketLabel(AgeInDays(rows[k], asOf)) = b} = {k \in 1..size : label[k] = b}
    BY <1>g
  <2> QED BY <1>1, <1>g, <2>1 DEF AgedBucket
<1>5. IsFiniteSet(1..size)
  BY FS_Interval
<1>6. IsFiniteSet(Buckets)
  <2>1. IsFiniteSet({"0-30"})
    BY FS_Singleton
  <2>2. IsFiniteSet({"0-30"} \union {"31-60"})
    BY <2>1, FS_AddElement
  <2>3. IsFiniteSet(({"0-30"} \union {"31-60"}) \union {"61-90"})
    BY <2>2, FS_AddElement
  <2>4. IsFiniteSet((({"0-30"} \union {"31-60"}) \union {"61-90"}) \union {"90+"})
    BY <2>3, FS_AddElement
  <2>5. Buckets = (({"0-30"} \union {"31-60"}) \union {"61-90"}) \union {"90+"}
    BY DEF Buckets
  <2> QED BY <2>4, <2>5
<1>7. GroupSums(bucket, left, label, 1..size, Buckets)
  BY <1>2, <1>3, <1>4 DEF GroupSums
<1>8. SumFunctionOnSet(left, 1..size) = SumFunctionOnSet(bucket, Buckets)
  BY <1>5, <1>6, <1>7, SumByKey
<1> QED BY <1>1, <1>g, <1>8 DEF AgedOnHand

\* An issue that is read before the receipt it took from finds nothing to consume:
\* the whole receipt stays aged as on hand, though the balance is zero. The time of
\* a movement is that of the start of its transaction, and the rows of one
\* transaction have the same, so that the two may be read in either order.
THEOREM IssueReadFirstIsLost ==
  \A q \in Nat \ {0}, at \in Int :
    LET rows == <<[qty |-> -q, at |-> at], [qty |-> q, at |-> at]>>
    IN  LedgerBalance(rows, 2) = 0 /\ AgedOnHand(rows) = q
<1> SUFFICES ASSUME NEW q \in Nat \ {0}, NEW at \in Int, NEW rows,
                    rows = <<[qty |-> -q, at |-> at], [qty |-> q, at |-> at]>>
             PROVE  LedgerBalance(rows, 2) = 0 /\ AgedOnHand(rows) = q
  OBVIOUS
<1>1. rows \in Seq(Movement) /\ Len(rows) = 2 /\ rows[1].qty = -q /\ rows[2].qty = q
  <2>1. [qty |-> -q, at |-> at] \in Movement /\ [qty |-> q, at |-> at] \in Movement
    BY DEF Movement
  <2> QED BY <2>1
<1>2. \A f : f[1] \in Int /\ f[2] \in Int => SumFunctionOnSet(f, 1..2) = f[1] + f[2]
  BY TwoTerms
<1>g. PICK level, zero, left, g :
        /\ level = [k \in 1..2 |-> rows[k].qty]
        /\ zero = [k \in 1..2 |-> 0]
        /\ left = [k \in 1..2 |-> IF k = 2 THEN q ELSE 0]
        /\ g = Layers(rows)
  OBVIOUS
<1>3. LedgerBalance(rows, 2) = 0
  <2>1. level[1] = -q /\ level[2] = q
    BY <1>1, <1>g
  <2>2. SumFunctionOnSet(level, 1..2) = 0
    BY <1>2, <2>1
  <2> QED BY <1>1, <1>g, <2>2 DEF LedgerBalance
<1>4. g[0] = zero /\ g[1] = Moved(g[0], 1, -q) /\ g[2] = Moved(g[1], 2, q)
  <2>1. g = LayersBody(rows, g)
    BY <1>1, <1>g, LayersReplay
  <2>2. g = [m \in 0..2 |->
               IF m = 0 THEN [k \in 1..2 |-> 0] ELSE Moved(g[m - 1], m, rows[m].qty)]
    BY <1>1, <2>1 DEF LayersBody
  <2>3. 0 \in 0..2 /\ 1 \in 0..2 /\ 2 \in 0..2 /\ 1 # 0 /\ 2 # 0 /\ 1 - 1 = 0 /\ 2 - 1 = 1
    OBVIOUS
  <2>4. g[0] = [k \in 1..2 |-> 0]
    BY <2>2, <2>3
  <2>5. g[1] = Moved(g[0], 1, rows[1].qty) /\ g[2] = Moved(g[1], 2, rows[2].qty)
    BY <2>2, <2>3
  <2> QED BY <1>1, <1>g, <2>4, <2>5
<1>5. Moved(zero, 1, -q) = zero
  <2>1. Moved(zero, 1, -q) = Consumed(zero, q)
    <3>1. ~(-q >= 0) /\ -(-q) = q
      OBVIOUS
    <3> QED BY <3>1 DEF Moved
  <2>2. zero \in [1..2 -> Nat] /\ \A k \in 1..2 : zero[k] = 0
    BY <1>g
  <2>3. Consumed(zero, q) \in [1..2 -> Nat] /\ \A k \in 1..2 : Consumed(zero, q)[k] <= zero[k]
    BY <2>2, ConsumedType
  <2>4. \A k \in 1..2 : Consumed(zero, q)[k] = zero[k]
    BY <2>2, <2>3
  <2> QED BY <2>1, <2>2, <2>3, <2>4
<1>6. Moved(zero, 2, q) = left
  <2>1. Moved(zero, 2, q) = [zero EXCEPT ![2] = q]
    BY DEF Moved
  <2> QED BY <1>g, <2>1
<1>7. left[1] = 0 /\ left[2] = q
  BY <1>g
<1>8. SumFunctionOnSet(left, 1..2) = q
  BY <1>2, <1>7
<1> QED BY <1>1, <1>g, <1>3, <1>4, <1>5, <1>6, <1>8 DEF AgedOnHand

-----------------------------------------------------------------------------
(* Stock position                                                          *)

\* What a branch is shown as in transit.
ShownInTransit(stock, lines, branchOf, branch) ==
  SumFunctionOnSet(
    [key \in PositionKeys(stock, lines, branchOf, branch) |->
       StockPosition(stock, lines, branchOf, branch)[key].inTransit],
    PositionKeys(stock, lines, branchOf, branch))

\* Leaving out terms that are zero.
LEMMA SumOfPart ==
  ASSUME NEW S, NEW T, IsFiniteSet(T), S \subseteq T, NEW f,
         \A x \in T : f[x] \in Int, \A x \in T \ S : f[x] = 0
  PROVE  SumFunctionOnSet(f, S) = SumFunctionOnSet(f, T)
<1>1. IsFiniteSet(S) /\ IsFiniteSet(T \ S)
  BY FS_Subset
<1>2. S \cap (T \ S) = {} /\ S \union (T \ S) = T
  OBVIOUS
<1>3. \A x \in S \union (T \ S) : f[x] \in Int
  BY <1>2
<1>4. SumFunctionOnSet(f, S \union (T \ S)) = SumFunctionOnSet(f, S) + SumFunctionOnSet(f, T \ S)
  BY <1>1, <1>2, <1>3, SumUnion
<1>5. SumFunctionOnSet(f, T \ S) = 0
  BY <1>1, SumZero
<1>6. PICK m \in Int : SumFunctionOnSet(f, S) = m
  <2>1. SumFunctionOnSet(f, S) \in Int
    BY <1>1, SumType
  <2> QED BY <2>1
<1>7. SumFunctionOnSet(f, S \union (T \ S)) = m + 0
  BY <1>4, <1>5, <1>6
<1>8. m + 0 = m
  OBVIOUS
<1> QED BY <1>2, <1>6, <1>7, <1>8, Zenon

\* Over all branches, each quantity in transit is shown once: neither twice where its
\* destination has a stock row, nor not at all where it has none.
THEOREM InTransitShownOnce ==
  ASSUME NEW RequestLine, IsFiniteSet(RequestLine), NEW lines \in [RequestLine -> TransitLine],
         NEW stock, IsFiniteSet(DOMAIN stock), DOMAIN stock \subseteq Location \X Item,
         NEW Office, IsFiniteSet(Office), NEW branchOf \in [Location -> Office]
  PROVE  SumFunctionOnSet([b \in Office |-> ShownInTransit(stock, lines, branchOf, b)], Office)
           = SumFunctionOnSet(Outstanding(lines), Moving(lines))
<1>g. PICK K, key, out, transit, home, shown :
        /\ K = DOMAIN stock \union {Key(lines[l]) : l \in Moving(lines)}
        /\ key = [l \in Moving(lines) |-> Key(lines[l])]
        /\ out = Outstanding(lines)
        /\ transit = [k \in K |-> InTransit(lines, k)]
        /\ home = [k \in K |-> branchOf[k[1]]]
        /\ shown = [b \in Office |-> ShownInTransit(stock, lines, branchOf, b)]
  OBVIOUS
<1>1. \A l \in RequestLine : lines[l].issued \in Int /\ lines[l].accounted \in Int
                       /\ Key(lines[l]) \in Location \X Item
  <2>1. \A x \in TransitLine : x.issued \in Int /\ x.accounted \in Int
                               /\ x.at \in Location /\ x.product \in Item
    BY DEF TransitLine
  <2> QED BY <2>1 DEF Key
<1>2. Moving(lines) \subseteq RequestLine
  BY DEF Moving
<1>3. IsFiniteSet(Moving(lines))
  BY <1>2, FS_Subset
<1>4. IsFiniteSet(K)
  <2>1. PICK R, S : R = {Key(lines[l]) : l \in Moving(lines)} /\ S = Moving(lines)
    OBVIOUS
  <2>2. key \in Surjection(S, R)
    BY <1>g, <2>1 DEF Surjection
  <2>3. IsFiniteSet(R)
    BY <1>3, <2>1, <2>2, FS_Surjection, Zenon
  <2> QED BY <1>g, <2>1, <2>3, FS_Union
<1>5. \A l \in Moving(lines) : out[l] \in Int /\ key[l] \in K
  BY <1>g, <1>1, <1>2 DEF Outstanding
<1>6. GroupSums(transit, out, key, Moving(lines), K)
  <2> SUFFICES ASSUME NEW k \in K
               PROVE  transit[k] = SumFunctionOnSet(out, {l \in Moving(lines) : key[l] = k})
    BY <1>5 DEF GroupSums
  <2>1. {l \in Moving(lines) : Key(lines[l]) = k} = {l \in Moving(lines) : key[l] = k}
    BY <1>g
  <2> QED BY <1>g, <2>1 DEF InTransit
<1>7. SumFunctionOnSet(out, Moving(lines)) = SumFunctionOnSet(transit, K)
  BY <1>3, <1>4, <1>6, SumByKey
<1>8. \A k \in K : transit[k] \in Int
  <2> SUFFICES ASSUME NEW k \in K PROVE transit[k] \in Int
    OBVIOUS
  <2>1. transit[k] = SumFunctionOnSet(out, {l \in Moving(lines) : key[l] = k})
    BY <1>6 DEF GroupSums
  <2>2. IsFiniteSet({l \in Moving(lines) : key[l] = k})
    BY <1>3, FS_Subset
  <2> QED BY <1>5, <2>1, <2>2, SumType
<1>9. \A k \in K : home[k] \in Office
  <2>1. \A k \in K : k \in Location \X Item
    BY <1>g, <1>1, <1>2
  <2>2. \A k \in Location \X Item : k[1] \in Location
    OBVIOUS
  <2> QED BY <1>g, <2>1, <2>2
<1>10. \A b \in Office : shown[b] = SumFunctionOnSet(transit, {k \in K : home[k] = b})
  <2> SUFFICES ASSUME NEW b \in Office
               PROVE  shown[b] = SumFunctionOnSet(transit, {k \in K : home[k] = b})
    OBVIOUS
  <2>g. PICK P, row, T :
          /\ P = PositionKeys(stock, lines, branchOf, b)
          /\ row = [k \in P |-> StockPosition(stock, lines, branchOf, b)[k].inTransit]
          /\ T = {k \in K : home[k] = b}
    OBVIOUS
  <2>1. P \subseteq T /\ \A k \in T \ P : transit[k] = 0
    BY <1>g, <2>g DEF PositionKeys
  <2>2. IsFiniteSet(T) /\ T \subseteq K
    BY <1>4, <2>g, FS_Subset
  <2>3. SumFunctionOnSet(transit, P) = SumFunctionOnSet(transit, T)
    BY <1>8, <2>1, <2>2, SumOfPart
  <2>4. \A k \in P : row[k] = transit[k]
    BY <1>g, <2>g, <2>1, <2>2 DEF StockPosition
  <2>5. IsFiniteSet(P)
    BY <2>1, <2>2, FS_Subset
  <2>6. SumFunctionOnSet(row, P) = SumFunctionOnSet(transit, P)
    BY <2>4, <2>5, SumEqual
  <2>7. shown[b] = SumFunctionOnSet(row, P)
    BY <1>g, <2>g DEF ShownInTransit
  <2> QED BY <2>3, <2>6, <2>7, <2>g
<1>11. GroupSums(shown, transit, home, K, Office)
  BY <1>8, <1>9, <1>10 DEF GroupSums
<1>12. SumFunctionOnSet(transit, K) = SumFunctionOnSet(shown, Office)
  BY <1>4, <1>11, SumByKey
<1> QED BY <1>g, <1>7, <1>12

-----------------------------------------------------------------------------
(* Supplier performance                                                    *)

\* The rates of a supplier are shares: no more orders are on time than have a date to
\* meet, and no more is filled than is ordered, unless an order was received over its
\* quantity; and no lead time that counts is negative.
THEOREM RatesAreShares ==
  ASSUME NEW PO, IsFiniteSet(PO), NEW pos \in [PO -> PurchaseOrder], NEW s \in Supplier,
         \A p \in PO : pos[p].filled <= pos[p].ordered
  PROVE  /\ OnTimeRate(pos, s)[1] <= OnTimeRate(pos, s)[2]
         /\ FillRate(pos, s)[1] <= FillRate(pos, s)[2]
         /\ LeadTime(pos, s)[1] >= 0
<1>1. \A p \in PO : pos[p].filled \in Nat /\ pos[p].ordered \in Nat /\ pos[p].lead \in Int
  <2>1. \A x \in PurchaseOrder : x.filled \in Nat /\ x.ordered \in Nat /\ x.lead \in Int
    BY DEF PurchaseOrder
  <2> QED BY <2>1
<1>2. /\ WithDate(pos, s) \subseteq PO /\ OnTime(pos, s) \subseteq WithDate(pos, s)
      /\ Filling(pos, s) \subseteq PO
      /\ Leads(pos, s) \subseteq PO /\ \A p \in Leads(pos, s) : pos[p].lead >= 0
  BY DEF WithDate, OnTime, Filling, Leads, Received, Of
<1>3. IsFiniteSet(WithDate(pos, s)) /\ IsFiniteSet(Filling(pos, s)) /\ IsFiniteSet(Leads(pos, s))
  BY <1>2, FS_Subset
<1>4. Cardinality(OnTime(pos, s)) <= Cardinality(WithDate(pos, s))
  BY <1>2, <1>3, FS_Subset
<1>g. PICK filled, ordered, lead :
        /\ filled = [p \in DOMAIN pos |-> pos[p].filled]
        /\ ordered = [p \in DOMAIN pos |-> pos[p].ordered]
        /\ lead = [p \in DOMAIN pos |-> pos[p].lead]
  OBVIOUS
<1>5. SumFunctionOnSet(filled, Filling(pos, s)) <= SumFunctionOnSet(ordered, Filling(pos, s))
  <2>1. \A p \in Filling(pos, s) :
          filled[p] \in Int /\ ordered[p] \in Int /\ filled[p] <= ordered[p]
    BY <1>g, <1>1, <1>2
  <2> QED BY <1>3, <2>1, SumMonotone
<1>6. SumFunctionOnSet(lead, Leads(pos, s)) \in Nat
  <2>1. \A p \in Leads(pos, s) : lead[p] \in Nat
    BY <1>g, <1>1, <1>2
  <2> QED BY <1>3, <2>1, SumNat
<1> QED BY <1>g, <1>4, <1>5, <1>6 DEF OnTimeRate, FillRate, LeadTime

=============================================================================
