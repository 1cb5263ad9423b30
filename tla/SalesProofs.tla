------------------------------ MODULE SalesProofs ------------------------------
(***************************************************************************)
(* What the sales of spare parts guarantee for any number of quotations,      *)
(* orders, deliveries, invoices, returns and credit notes, and any quantity:  *)
(* holds, deliveries, settlement, money and stock stay explained by the       *)
(* documents, with quotations and the orders they lead to.  Then the figures: *)
(* how amounts are priced and rounded, and what the sales reports count.      *)
(***************************************************************************)
EXTENDS Quotations, Pricing, SalesReports, Sums, SequenceTheorems

\* The invariant behind the theorems: beside the properties, what a document is
\* before it is written, and which documents it stands on once it is.
OrdersInOrder ==
  \A o \in Order :
    /\ order[o].status = "none" => order[o] = NoOrder
    /\ order[o].status \in {"draft", "confirmed", "cancelled"} => order[o].delivered = 0
    /\ order[o] # NoOrder => order[o].qty > 0

NotesInOrder ==
  \A d \in Note :
    /\ note[d].order = None <=> note[d] = NoNote
    /\ note[d] # NoNote => note[d].qty > 0

InvoicesInOrder ==
  \A i \in Invoice :
    /\ invoice[i].status = "none" => invoice[i] = NoInvoice /\ voids[i] = 0
    /\ invoice[i].status # "none" => invoice[i].total > 0
    /\ invoice[i].note # None => note[invoice[i].note] # NoNote

ReturnsInOrder ==
  \A r \in Return :
    /\ return[r].invoice = None <=> return[r] = NoReturn
    /\ return[r].invoice # None => invoice[return[r].invoice].status # "none"

CreditsInOrder ==
  \A c \in Credit :
    /\ credit[c].status = "none" => credit[c] = NoCredit
    /\ credit[c].status # "none" => credit[c].return # None /\ return[credit[c].return] # NoReturn

SInv ==
  /\ TypeOK
  /\ OrdersInOrder /\ NotesInOrder /\ InvoicesInOrder /\ ReturnsInOrder /\ CreditsInOrder
  /\ OrdersHoldWhatTheyOwe /\ StockIsAccountedFor /\ StatusTellsSettlement
  /\ BankedFollowsInvoice

\* With the quotations: an order that came from one exists, and is for what was
\* quoted.
QuotesInOrder ==
  /\ quote \in [Quote -> [status : QuoteStatus, qty : 0..MaxQty]]
  /\ origin \in [Order -> Quote \union {None}]
  /\ \A q \in Quote : quote[q].status # "none" => quote[q].qty > 0
  /\ \A o \in Order : origin[o] # None => order[o] # NoOrder

QInv == SInv /\ QuotesInOrder /\ QuotesBindOrders

-----------------------------------------------------------------------------
(* Rows and sums                                                           *)

OrderRow == [status : OrderStatus, qty : 0..MaxQty, delivered : 0..MaxQty]
NoteRow == [order : Order \union {None}, qty : 0..MaxQty]
InvoiceType == [status : InvoiceStatus, note : Note \union {None}, total : 0..MaxQty,
               paid : Nat, credit : Nat]
ReturnRow == [invoice : Invoice \union {None}, qty : 0..MaxQty,
              status : {"none", "received", "credited"}]
CreditRow == [return : Return \union {None}, total : 0..MaxQty, status : CreditStatus]

\* The types of the tables, one by one.
LEMMA Types ==
  TypeOK <=>
    /\ order \in [Order -> OrderRow] /\ hold \in [Order -> 0..MaxQty]
    /\ note \in [Note -> NoteRow] /\ invoice \in [Invoice -> InvoiceType]
    /\ banked \in [Invoice -> Nat] /\ return \in [Return -> ReturnRow]
    /\ credit \in [Credit -> CreditRow] /\ onHand \in 0..MaxStock /\ voids \in [Invoice -> Nat]
BY DEF TypeOK, OrderRow, NoteRow, InvoiceType, ReturnRow, CreditRow

\* A table with one row changed, and its sum.
OneRow(g, f, a, x, S) == f \in [S -> Int] /\ x \in Int /\ g = [f EXCEPT ![a] = x]

LEMMA SumExcept ==
  ASSUME NEW S, IsFiniteSet(S), NEW a \in S, NEW f, NEW x, NEW g, OneRow(g, f, a, x, S)
  PROVE  /\ SumFunctionOnSet(f, S) \in Int
         /\ SumFunctionOnSet(g, S) = SumFunctionOnSet(f, S) + x - f[a]
<1>1. DifferAt(a, f, g, S) /\ g[a] = x
  BY DEF DifferAt, OneRow
<1>2. \A y \in S : f[y] \in Int
  BY DEF OneRow
<1>3. SumFunctionOnSet(f, S) \in Int
  BY <1>2, SumType
<1>4. SumFunctionOnSet(g, S) = SumFunctionOnSet(f, S) + g[a] - f[a]
  BY <1>1, SumChange
<1> QED BY <1>1, <1>3, <1>4

\* What is held together is a number, and no order holds more.
LEMMA HeldIsSum ==
  ASSUME SalesAssumption, TypeOK
  PROVE  Held \in Nat /\ \A o \in Order : hold[o] <= Held
<1>1. IsFiniteSet(Order) /\ \A o \in Order : hold[o] \in Nat
  BY DEF SalesAssumption, TypeOK
<1>2. SumFunctionOnSet(hold, Order) \in Nat
  BY <1>1, SumNat
<1>3. \A o \in Order : hold[o] <= SumFunctionOnSet(hold, Order)
  BY <1>1, SumBounds
<1> QED BY <1>2, <1>3 DEF Held

\* The three sums of the stock are numbers.
LEMMA StockSums ==
  ASSUME SalesAssumption, TypeOK
  PROVE  /\ SumFunctionOnSet(Left, Note) \in Int
         /\ SumFunctionOnSet(Undone, Invoice) \in Int
         /\ SumFunctionOnSet(Back, Return) \in Int
<1>1. \A d \in Note : Left[d] \in Int
  BY DEF Left, TypeOK
<1>2. \A r \in Return : Back[r] \in Int
  BY DEF Back, TypeOK
<1>3. \A i \in Invoice : Undone[i] \in Int
  <2> SUFFICES ASSUME NEW i \in Invoice PROVE Undone[i] \in Int
    OBVIOUS
  <2>1. CASE invoice[i].note = None
    BY <2>1 DEF Undone
  <2>2. CASE invoice[i].note # None
    <3>1. invoice[i].note \in Note
      BY <2>2 DEF TypeOK
    <3>2. note[invoice[i].note].qty \in Int /\ voids[i] \in Int
      BY <3>1 DEF TypeOK
    <3>3. Undone[i] = voids[i] * note[invoice[i].note].qty
      BY <2>2 DEF Undone
    <3> QED BY <3>2, <3>3
  <2> QED BY <2>1, <2>2
<1> QED BY <1>1, <1>2, <1>3, SumType DEF SalesAssumption

-----------------------------------------------------------------------------
(* What a step does to orders, holds and stock on hand                     *)

\* A row an order can have once it exists.
GoodOrder(row) ==
  /\ row \in OrderRow /\ row.status # "none" /\ row.qty > 0 /\ row.delivered <= row.qty
  /\ row.status \in {"draft", "confirmed", "cancelled"} => row.delivered = 0

Owed(row) == IF row.status \in Deliverable THEN row.qty - row.delivered ELSE 0

OrderSteps(o, row, taken) ==
  /\ GoodOrder(row)
  /\ order' = [order EXCEPT ![o] = row]
  /\ hold' = [hold EXCEPT ![o] = Owed(row)]
  /\ onHand' = onHand - taken
  /\ taken \in Nat /\ Held + Owed(row) - hold[o] <= onHand - taken

OrdersPart ==
  /\ order \in [Order -> OrderRow] /\ hold \in [Order -> 0..MaxQty] /\ onHand \in 0..MaxStock
  /\ OrdersInOrder /\ OrdersHoldWhatTheyOwe

\* One order changes, with what it holds.
LEMMA OrderStepsKeep ==
  ASSUME SalesAssumption, SInv, NEW o \in Order, NEW row, NEW taken, OrderSteps(o, row, taken)
  PROVE  OrdersPart'
<1>1. Owed(row) \in 0..MaxQty /\ row \in OrderRow /\ taken \in Nat
  BY DEF OrderSteps, GoodOrder, Owed, OrderRow, Deliverable, SalesAssumption
<1>2. order' \in [Order -> OrderRow] /\ hold' \in [Order -> 0..MaxQty]
  BY <1>1, Types DEF OrderSteps, SInv
<1>3. Held' = Held + Owed(row) - hold[o] /\ Held \in Int
  <2>1. IsFiniteSet(Order) /\ hold \in [Order -> Int] /\ Owed(row) \in Int
    BY <1>1, Types DEF SalesAssumption, SInv
  <2>2. hold' = [hold EXCEPT ![o] = Owed(row)]
    BY DEF OrderSteps
  <2>3. /\ SumFunctionOnSet(hold, Order) \in Int
        /\ SumFunctionOnSet(hold', Order) = SumFunctionOnSet(hold, Order) + Owed(row) - hold[o]
    <3>1. OneRow(hold', hold, o, Owed(row), Order) /\ IsFiniteSet(Order)
      BY <2>1, <2>2 DEF OneRow
    <3> QED BY <3>1, SumExcept
  <2> QED BY <2>3 DEF Held
<1>4. Held' <= onHand' /\ onHand' \in Int
  BY <1>1, <1>3, Types DEF OrderSteps, SInv
<1>5. Held' \in Nat
  <2>1. hold[o] <= Held /\ hold[o] \in Int
    BY HeldIsSum, Types DEF SInv
  <2> QED BY <1>1, <1>3, <2>1
<1>6. onHand' \in 0..MaxStock
  BY <1>1, <1>4, <1>5, Types DEF OrderSteps, SInv
<1>7. OrdersInOrder'
  <2> SUFFICES ASSUME NEW p \in Order
               PROVE  /\ order'[p].status = "none" => order'[p] = NoOrder
                      /\ order'[p].status \in {"draft", "confirmed", "cancelled"} =>
                           order'[p].delivered = 0
                      /\ order'[p] # NoOrder => order'[p].qty > 0
    BY DEF OrdersInOrder, NoOrder
  <2>1. order'[p] = IF p = o THEN row ELSE order[p]
    BY Types DEF OrderSteps, SInv
  <2> QED BY <2>1 DEF OrderSteps, GoodOrder, SInv, OrdersInOrder
<1>8. \A p \in Order : hold'[p] = Owed(order'[p])
  <2> SUFFICES ASSUME NEW p \in Order PROVE hold'[p] = Owed(order'[p])
    OBVIOUS
  <2>1. /\ order'[p] = IF p = o THEN row ELSE order[p]
        /\ hold'[p] = IF p = o THEN Owed(row) ELSE hold[p]
    BY Types DEF OrderSteps, SInv
  <2>2. hold[p] = Owed(order[p])
    BY DEF SInv, OrdersHoldWhatTheyOwe, Owed, Outstanding
  <2> QED BY <2>1, <2>2
<1> QED BY <1>2, <1>4, <1>6, <1>7, <1>8 DEF OrdersPart, OrdersHoldWhatTheyOwe, Owed, Outstanding

\* Stock comes back, and no order changes.
LEMMA RestockKeeps ==
  ASSUME SInv, NEW more \in Nat, onHand' = onHand + more, onHand + more <= MaxStock,
         UNCHANGED <<order, hold>>, SalesAssumption
  PROVE  OrdersPart'
<1>1. Held' = Held
  BY DEF Held
<1>2. onHand \in 0..MaxStock /\ Held <= onHand /\ Held \in Nat /\ MaxStock \in Nat
  BY Types, HeldIsSum DEF SInv, OrdersHoldWhatTheyOwe, SalesAssumption
<1>3. onHand' \in 0..MaxStock /\ Held' <= onHand'
  BY <1>1, <1>2
<1> QED BY <1>1, <1>3, Types
        DEF SInv, OrdersPart, OrdersHoldWhatTheyOwe, OrdersInOrder, Outstanding

-----------------------------------------------------------------------------
(* What a delivery note does                                               *)

NotesPart ==
  /\ note \in [Note -> NoteRow] /\ NotesInOrder
  /\ \A o \in Order :
       /\ order[o].delivered = SumFunctionOnSet(Left, {d \in Note : note[d].order = o})
       /\ order[o].delivered <= order[o].qty

\* Order o delivers q units on note d.
Notes(o, d, q) ==
  /\ note[d] = NoNote /\ q \in 1..MaxQty
  /\ note' = [note EXCEPT ![d] = [order |-> o, qty |-> q]]

LEMMA NotesOf ==
  ASSUME SalesAssumption, SInv, NEW o \in Order, NEW d \in Note, NEW q, Notes(o, d, q)
  PROVE  /\ note' \in [Note -> NoteRow] /\ NotesInOrder'
         /\ \A e \in Note : note'[e] = IF e = d THEN [order |-> o, qty |-> q] ELSE note[e]
         /\ note[d].order = None /\ note[d].qty = 0
         /\ \A e \in Note : Left[e] \in Int /\ Left'[e] = IF e = d THEN q ELSE Left[e]
<1>1. note \in [Note -> NoteRow] /\ NotesInOrder /\ None \notin Order
  BY Types DEF SInv, SalesAssumption
<1>2. note[d].order = None /\ note[d].qty = 0
  BY DEF Notes, NoNote
<1>3. \A e \in Note : note'[e] = IF e = d THEN [order |-> o, qty |-> q] ELSE note[e]
  BY <1>1 DEF Notes
<1>4. [order |-> o, qty |-> q] \in NoteRow
  BY DEF Notes, NoteRow
<1>5. note' \in [Note -> NoteRow]
  BY <1>1, <1>4 DEF Notes
<1>6. NotesInOrder'
  <2>1. q > 0
    BY DEF Notes
  <2> QED BY <1>1, <1>3, <2>1 DEF NotesInOrder, NoNote
<1>7. \A e \in Note : Left[e] \in Int /\ Left'[e] = IF e = d THEN q ELSE Left[e]
  BY <1>1, <1>3 DEF Left, NoteRow
<1> QED BY <1>2, <1>3, <1>5, <1>6, <1>7

\* A delivery counts for its order, and for no other.
LEMMA NotesKeep ==
  ASSUME SalesAssumption, SInv, NEW o \in Order, NEW row, NEW d \in Note, NEW q,
         Notes(o, d, q), GoodOrder(row), order' = [order EXCEPT ![o] = row],
         row.delivered = order[o].delivered + q
  PROVE  NotesPart'
<1> PICK old, new : old = Left /\ new = Left'
  OBVIOUS
<1>0. IsFiniteSet(Note) /\ None \notin Order
  BY DEF SalesAssumption
<1>1. /\ \A e \in Note : note'[e] = IF e = d THEN [order |-> o, qty |-> q] ELSE note[e]
      /\ note[d].order = None
      /\ \A e \in Note : old[e] \in Int /\ new[e] = IF e = d THEN q ELSE old[e]
  BY NotesOf
<1>2. q \in Int
  BY DEF Notes
<1>3. ASSUME NEW p \in Order
      PROVE  /\ order'[p].delivered = SumFunctionOnSet(new, {e \in Note : note'[e].order = p})
             /\ order'[p].delivered <= order'[p].qty
  <2>1. order'[p] = IF p = o THEN row ELSE order[p]
    BY Types DEF SInv
  <2>2. order[p].delivered = SumFunctionOnSet(old, {e \in Note : note[e].order = p})
        /\ order[p].delivered <= order[p].qty
    BY DEF SInv, StockIsAccountedFor
  <2> PICK S : S = {e \in Note : note[e].order = p}
    OBVIOUS
  <2> PICK T : T = {e \in Note : note'[e].order = p}
    OBVIOUS
  <2>3. IsFiniteSet(S) /\ d \notin S /\ S \subseteq Note
    BY <1>0, <1>1, FS_Subset
  <2>4. SumFunctionOnSet(new, S) = SumFunctionOnSet(old, S)
    <3>1. \A e \in S : new[e] = old[e]
      BY <1>1, <2>3
    <3> QED BY <2>3, <3>1, SumEqual
  <2>5. CASE p # o
    <3>1. T = S
      BY <1>1, <2>5, <1>0
    <3> QED BY <2>1, <2>2, <2>4, <2>5, <3>1
  <2>6. CASE p = o
    <3>1. T = S \union {d} /\ T \ {d} = S /\ d \in T
      BY <1>1, <2>3, <2>6
    <3>2. IsFiniteSet(T) /\ \A e \in T : new[e] \in Int
      BY <1>0, <1>1, <1>2, FS_Subset
    <3>3. SumFunctionOnSet(new, T) = new[d] + SumFunctionOnSet(new, T \ {d})
      BY <3>1, <3>2, SumRemove
    <3>4. SumFunctionOnSet(new, T) = q + SumFunctionOnSet(old, S)
      BY <1>1, <2>4, <3>1, <3>3
    <3>5. row.delivered = SumFunctionOnSet(new, T)
      <4>1. order[o].delivered \in Int
        BY Types DEF SInv, OrderRow
      <4> QED BY <1>2, <2>2, <2>6, <3>4, <4>1
    <3> QED BY <2>1, <2>6, <3>5 DEF GoodOrder
  <2> QED BY <2>5, <2>6
<1>4. note' \in [Note -> NoteRow] /\ NotesInOrder'
  BY NotesOf
<1>5. \A p \in Order :
        /\ order'[p].delivered = SumFunctionOnSet(Left', {e \in Note : note'[e].order = p})
        /\ order'[p].delivered <= order'[p].qty
  BY <1>3
<1> QED BY <1>4, <1>5 DEF NotesPart

\* The other steps leave the notes alone, and what an order delivered.
LEMMA NoNotesKeep ==
  ASSUME SalesAssumption, SInv, NEW o \in Order, NEW row,
         UNCHANGED note, GoodOrder(row), order' = [order EXCEPT ![o] = row],
         row.delivered = order[o].delivered
  PROVE  NotesPart'
<1>1. Left' = Left /\ note' = note
  BY DEF Left
<1>2. \A p \in Order : order'[p] = IF p = o THEN row ELSE order[p]
  BY Types DEF SInv
<1>3. \A p \in Order :
        /\ order'[p].delivered = SumFunctionOnSet(Left', {e \in Note : note'[e].order = p})
        /\ order'[p].delivered <= order'[p].qty
  BY <1>1, <1>2 DEF GoodOrder, SInv, StockIsAccountedFor
<1> QED BY <1>1, <1>3, Types DEF NotesPart, SInv, NotesInOrder

-----------------------------------------------------------------------------
(* What a step does to the stock and the documents behind it               *)

StockExplained ==
  onHand = Supply - SumFunctionOnSet(Left, Note) + SumFunctionOnSet(Undone, Invoice)
           + SumFunctionOnSet(Back, Return)

\* Stock moves by what the three sums move.
StockMoves(sold, undone, returned) ==
  /\ sold \in Int /\ undone \in Int /\ returned \in Int
  /\ SumFunctionOnSet(Left', Note) = SumFunctionOnSet(Left, Note) + sold
  /\ SumFunctionOnSet(Undone', Invoice) = SumFunctionOnSet(Undone, Invoice) + undone
  /\ SumFunctionOnSet(Back', Return) = SumFunctionOnSet(Back, Return) + returned
  /\ onHand' = onHand - sold + undone + returned

LEMMA StockMovesKeep ==
  ASSUME SalesAssumption, SInv, NEW sold, NEW undone, NEW returned,
         StockMoves(sold, undone, returned)
  PROVE  StockExplained'
<1>1. PICK l \in Int, u \in Int, b \in Int :
        /\ l = SumFunctionOnSet(Left, Note) /\ u = SumFunctionOnSet(Undone, Invoice)
        /\ b = SumFunctionOnSet(Back, Return)
  BY StockSums DEF SInv
<1>2. onHand = Supply - l + u + b /\ Supply \in Int
  BY <1>1 DEF SInv, StockIsAccountedFor, SalesAssumption
<1>3. onHand' = Supply - (l + sold) + (u + undone) + (b + returned)
  BY <1>1, <1>2 DEF StockMoves
<1> QED BY <1>1, <1>3 DEF StockMoves, StockExplained

LEMMA NotesMove ==
  ASSUME SalesAssumption, SInv, NEW o \in Order, NEW d \in Note, NEW q, Notes(o, d, q)
  PROVE  q \in Int /\ SumFunctionOnSet(Left', Note) = SumFunctionOnSet(Left, Note) + q
<1>p. PICK old, new : old = Left /\ new = Left'
  OBVIOUS
<1>1. q \in Int
  BY DEF Notes
<1>2. old = [e \in Note |-> note[e].qty] /\ new = [e \in Note |-> note'[e].qty]
  BY <1>p DEF Left
<1>3. /\ note \in [Note -> NoteRow] /\ note[d].qty = 0
      /\ note' = [note EXCEPT ![d] = [order |-> o, qty |-> q]]
  BY Types DEF Notes, NoNote, SInv
<1>4. old[d] = 0 /\ old \in [Note -> Int] /\ new = [old EXCEPT ![d] = q]
  BY <1>2, <1>3 DEF NoteRow
<1>5. OneRow(new, old, d, q, Note) /\ IsFiniteSet(Note)
  BY <1>1, <1>4 DEF OneRow, SalesAssumption
<1>6. /\ SumFunctionOnSet(old, Note) \in Int
      /\ SumFunctionOnSet(new, Note) = SumFunctionOnSet(old, Note) + q - old[d]
  BY <1>5, SumExcept
<1>7. SumFunctionOnSet(new, Note) = SumFunctionOnSet(old, Note) + q
  BY <1>1, <1>4, <1>6
<1> QED BY <1>1, <1>7, <1>p

\* What was restored stays so, whatever is delivered or invoiced beside it.
LEMMA UndoneStays ==
  ASSUME SalesAssumption, SInv, UNCHANGED voids,
         invoice' \in [Invoice -> InvoiceType], note' \in [Note -> NoteRow],
         \A e \in Note : note[e] # NoNote => note'[e] = note[e],
         \A i \in Invoice : invoice[i] = NoInvoice \/ invoice'[i].note = invoice[i].note
  PROVE  SumFunctionOnSet(Undone', Invoice) = SumFunctionOnSet(Undone, Invoice) + 0
<1>1. \A i \in Invoice : Undone'[i] = Undone[i]
  <2> SUFFICES ASSUME NEW i \in Invoice PROVE Undone'[i] = Undone[i]
    OBVIOUS
  <2>0. /\ Undone[i] = IF invoice[i].note = None THEN 0 ELSE voids[i] * note[invoice[i].note].qty
        /\ Undone'[i] = IF invoice'[i].note = None THEN 0
                        ELSE voids[i] * note'[invoice'[i].note].qty
    BY DEF Undone
  <2>1. CASE invoice[i] = NoInvoice
    <3>1. voids[i] = 0 /\ invoice[i].note = None
      BY <2>1 DEF SInv, InvoicesInOrder, NoInvoice
    <3>2. invoice'[i].note # None => note'[invoice'[i].note].qty \in Int
      BY DEF InvoiceType, NoteRow
    <3> QED BY <2>0, <3>1, <3>2
  <2>2. CASE invoice[i] # NoInvoice /\ invoice'[i].note = invoice[i].note
    <3>1. invoice[i].note # None => invoice[i].note \in Note /\ note[invoice[i].note] # NoNote
      BY Types DEF SInv, InvoicesInOrder, InvoiceType
    <3> QED BY <2>0, <2>2, <3>1
  <2> QED BY <2>1, <2>2
<1>2. SumFunctionOnSet(Undone', Invoice) = SumFunctionOnSet(Undone, Invoice)
  BY <1>1, SumEqual DEF SalesAssumption
<1>3. SumFunctionOnSet(Undone, Invoice) \in Int
  BY StockSums DEF SInv
<1> QED BY <1>2, <1>3

\* What came back stays so while the quantities of the returns do.
LEMMA BackStays ==
  ASSUME SalesAssumption, SInv, \A r \in Return : return'[r].qty = return[r].qty
  PROVE  SumFunctionOnSet(Back', Return) = SumFunctionOnSet(Back, Return) + 0
<1>1. SumFunctionOnSet(Back, Return) \in Int
  BY StockSums DEF SInv
<1>2. Back' = Back
  BY DEF Back
<1> QED BY <1>1, <1>2

LEMMA LeftStays ==
  ASSUME SalesAssumption, SInv, UNCHANGED note
  PROVE  SumFunctionOnSet(Left', Note) = SumFunctionOnSet(Left, Note) + 0
<1>1. SumFunctionOnSet(Left, Note) \in Int
  BY StockSums DEF SInv
<1>2. Left' = Left
  BY DEF Left
<1> QED BY <1>1, <1>2

-----------------------------------------------------------------------------
(* What a step does to an invoice                                          *)

InvoicesPart ==
  /\ invoice \in [Invoice -> InvoiceType] /\ banked \in [Invoice -> Nat]
  /\ voids \in [Invoice -> Nat]
  /\ InvoicesInOrder /\ ReturnsInOrder /\ BankedFollowsInvoice

\* Invoice i becomes v, with b in the books and n voids.
InvoiceSteps(i, v, b, n) ==
  /\ v \in InvoiceType /\ v.status # "none" /\ v.total > 0 /\ b \in Nat /\ n \in Nat
  /\ v.note # None => note'[v.note] # NoNote
  /\ v.status = "voided" => b = 0
  /\ n = 0 => b = v.paid
  /\ invoice' = [invoice EXCEPT ![i] = v] /\ banked' = [banked EXCEPT ![i] = b]
  /\ voids' = [voids EXCEPT ![i] = n]

NotesStay == \A e \in Note : note[e] # NoNote => note'[e] = note[e]

LEMMA InvoiceStepsKeep ==
  ASSUME SalesAssumption, SInv, NEW i \in Invoice, NEW v, NEW b, NEW n, InvoiceSteps(i, v, b, n),
         NotesStay, UNCHANGED return
  PROVE  InvoicesPart'
<1>0. /\ invoice \in [Invoice -> InvoiceType] /\ banked \in [Invoice -> Nat]
      /\ voids \in [Invoice -> Nat] /\ return \in [Return -> ReturnRow]
  BY Types DEF SInv
<1>1. invoice' \in [Invoice -> InvoiceType] /\ banked' \in [Invoice -> Nat] /\ voids' \in [Invoice -> Nat]
  BY <1>0 DEF InvoiceSteps
<1>2. \A j \in Invoice :
        /\ invoice'[j] = IF j = i THEN v ELSE invoice[j]
        /\ banked'[j] = IF j = i THEN b ELSE banked[j]
        /\ voids'[j] = IF j = i THEN n ELSE voids[j]
  BY <1>0 DEF InvoiceSteps
<1>3. InvoicesInOrder'
  <2> SUFFICES ASSUME NEW j \in Invoice
               PROVE  /\ invoice'[j].status = "none" => invoice'[j] = NoInvoice /\ voids'[j] = 0
                      /\ invoice'[j].status # "none" => invoice'[j].total > 0
                      /\ invoice'[j].note # None => note'[invoice'[j].note] # NoNote
    BY DEF InvoicesInOrder, NoInvoice, NoNote
  <2>1. CASE j = i
    BY <1>2, <2>1 DEF InvoiceSteps
  <2>2. CASE j # i
    <3>1. invoice'[j] = invoice[j] /\ voids'[j] = voids[j]
      BY <1>2, <2>2
    <3>2. invoice[j].note # None => invoice[j].note \in Note
      BY <1>0 DEF InvoiceType
    <3> QED BY <3>1, <3>2 DEF SInv, InvoicesInOrder, NotesStay
  <2> QED BY <2>1, <2>2
<1>4. ReturnsInOrder'
  <2>1. \A r \in Return : return[r].invoice # None => return[r].invoice \in Invoice
    BY <1>0 DEF ReturnRow
  <2> QED BY <1>2, <2>1 DEF SInv, ReturnsInOrder, InvoiceSteps, NoReturn
<1>5. BankedFollowsInvoice'
  BY <1>2 DEF SInv, BankedFollowsInvoice, InvoiceSteps
<1> QED BY <1>1, <1>3, <1>4, <1>5 DEF InvoicesPart

LEMMA NoInvoiceKeeps ==
  ASSUME SInv, NotesStay, UNCHANGED <<invoice, banked, voids, return>>
  PROVE  InvoicesPart'
<1>0. invoice \in [Invoice -> InvoiceType]
  BY Types DEF SInv
<1>1. \A j \in Invoice : invoice[j].note # None => invoice[j].note \in Note
  BY <1>0 DEF InvoiceType
<1>2. InvoicesInOrder'
  BY <1>1 DEF SInv, InvoicesInOrder, NotesStay, NoInvoice, NoNote
<1>3. ReturnsInOrder' /\ BankedFollowsInvoice'
  BY DEF SInv, ReturnsInOrder, BankedFollowsInvoice, NoReturn
<1> QED BY <1>2, <1>3, Types DEF SInv, InvoicesPart

\* The status of a row tells how much of it is settled.
RowSettled(v) ==
  v.status \in Voidable =>
    /\ v.status = "sent" <=> Settled(v) = 0
    /\ v.status = "paid" <=> Settled(v) >= v.total

LEMMA ResettledIsSettled ==
  ASSUME NEW v \in InvoiceType, v.total > 0
  PROVE  /\ RowSettled(Resettled(v)) /\ Resettled(v) \in InvoiceType
         /\ Resettled(v).note = v.note /\ Resettled(v).total = v.total
         /\ Resettled(v).paid = v.paid /\ Resettled(v).credit = v.credit
         /\ Resettled(v).status \in Voidable
<1> PICK w : w = Resettled(v)
  OBVIOUS
<1>1. StatusAfter(v) \in Voidable /\ Voidable \subseteq InvoiceStatus
  BY DEF StatusAfter, Voidable, InvoiceStatus
<1>2. w.status = StatusAfter(v)
  BY DEF Resettled, InvoiceType
<1>3. /\ w \in InvoiceType /\ w.note = v.note /\ w.total = v.total
      /\ w.paid = v.paid /\ w.credit = v.credit
  BY <1>1 DEF Resettled, InvoiceType
<1>4. v.total \in Int /\ v.paid \in Nat /\ v.credit \in Nat
  BY SMT DEF InvoiceType
<1>5. RowSettled(w)
  BY <1>2, <1>3, <1>4 DEF RowSettled, StatusAfter, Settled
<1> QED BY <1>1, <1>2, <1>3, <1>5

\* While credit notes and returns stay, so does the credit of the invoices.
LEMMA SettlementKept ==
  ASSUME SInv, UNCHANGED <<credit, return>>,
         \A i \in Invoice : invoice'[i].credit = invoice[i].credit /\ RowSettled(invoice'[i])
  PROVE  StatusTellsSettlement'
<1>1. Amounts' = Amounts /\ \A i \in Invoice : Applied(i)' = Applied(i)
  BY DEF Amounts, Applied
<1>2. \A i \in Invoice : invoice'[i].credit = SumFunctionOnSet(Amounts', Applied(i)')
  BY <1>1 DEF SInv, StatusTellsSettlement
<1> QED BY <1>2 DEF StatusTellsSettlement, RowSettled, Settled

LEMMA RowsAreSettled ==
  ASSUME SInv
  PROVE  \A i \in Invoice : RowSettled(invoice[i])
BY DEF SInv, StatusTellsSettlement, RowSettled, Settled

-----------------------------------------------------------------------------
(* Steps                                                                   *)

CreditsPart ==
  return \in [Return -> ReturnRow] /\ credit \in [Credit -> CreditRow] /\ CreditsInOrder

\* The parts make up the invariant.
LEMMA PartsMakeUp ==
  ASSUME OrdersPart', NotesPart', StockExplained', InvoicesPart', CreditsPart',
         StatusTellsSettlement'
  PROVE  SInv'
<1>1. TypeOK'
  BY DEF OrdersPart, NotesPart, InvoicesPart, CreditsPart, TypeOK, OrderRow, NoteRow, InvoiceType,
         ReturnRow, CreditRow
<1>2. StockIsAccountedFor'
  BY DEF NotesPart, StockExplained, StockIsAccountedFor
<1> QED BY <1>1, <1>2 DEF SInv, OrdersPart, NotesPart, InvoicesPart, CreditsPart

LEMMA CreditsStay ==
  ASSUME SInv, UNCHANGED <<return, credit>>
  PROVE  CreditsPart'
BY Types DEF SInv, CreditsPart, CreditsInOrder, NoCredit, NoReturn

\* Only an order and its hold change.
LEMMA OrderOnlySInv ==
  ASSUME SalesAssumption, SInv, NEW o \in Order, NEW row, OrderSteps(o, row, 0),
         row.delivered = order[o].delivered,
         UNCHANGED <<note, invoice, return, credit, banked, voids>>
  PROVE  SInv'
<1>1. OrdersPart'
  BY OrderStepsKeep
<1>2. NotesPart'
  BY NoNotesKeep DEF OrderSteps
<1>3. NotesStay /\ InvoicesPart'
  BY NoInvoiceKeeps DEF NotesStay
<1>4. StatusTellsSettlement'
  BY SettlementKept, RowsAreSettled
<1>5. StockMoves(0, 0, 0)
  <2>1. onHand' = onHand - 0 /\ onHand \in Int
    BY Types DEF OrderSteps, SInv
  <2>2. SumFunctionOnSet(Undone', Invoice) = SumFunctionOnSet(Undone, Invoice) + 0
    <3>1. Undone' = Undone
      BY DEF Undone
    <3> QED BY <3>1, StockSums DEF SInv
  <2>3. onHand' = onHand - 0 + 0 + 0
    BY <2>1
  <2> QED BY <2>2, <2>3, LeftStays, BackStays DEF StockMoves
<1>6. StockExplained'
  BY <1>5, StockMovesKeep
<1> QED BY <1>1, <1>2, <1>3, <1>4, <1>6, CreditsStay, PartsMakeUp

\* An order delivers, and nothing is invoiced.
LEMMA DeliveredSInv ==
  ASSUME SalesAssumption, SInv, NEW o \in Order, NEW row, NEW d \in Note, NEW q,
         OrderSteps(o, row, q), Notes(o, d, q), row.delivered = order[o].delivered + q,
         UNCHANGED <<invoice, return, credit, banked, voids>>
  PROVE  SInv'
<1>1. OrdersPart'
  BY OrderStepsKeep
<1>2. NotesPart'
  BY NotesKeep DEF OrderSteps
<1>3. NotesStay
  BY Types DEF Notes, NotesStay, SInv
<1>4. InvoicesPart' /\ StatusTellsSettlement'
  BY <1>3, NoInvoiceKeeps, SettlementKept, RowsAreSettled
<1>5. StockMoves(q, 0, 0)
  <2>1. onHand' = onHand - q /\ onHand \in Int
    BY Types DEF OrderSteps, SInv
  <2>2. SumFunctionOnSet(Undone', Invoice) = SumFunctionOnSet(Undone, Invoice) + 0
    BY <1>2, <1>3, <1>4, UndoneStays DEF NotesPart, InvoicesPart, NotesStay
  <2>3. q \in Int /\ SumFunctionOnSet(Left', Note) = SumFunctionOnSet(Left, Note) + q
    BY NotesMove
  <2>4. onHand' = onHand - q + 0 + 0
    BY <2>1, <2>3
  <2> QED BY <2>2, <2>3, <2>4, BackStays DEF StockMoves
<1>6. StockExplained'
  BY <1>5, StockMovesKeep
<1> QED BY <1>1, <1>2, <1>4, <1>6, CreditsStay, PartsMakeUp

\* An order delivers, and the delivery is invoiced at once.
LEMMA SoldSInv ==
  ASSUME SalesAssumption, SInv, NEW o \in Order, NEW row, NEW d \in Note, NEW q,
         NEW i \in Invoice, NEW v, NEW b,
         OrderSteps(o, row, q), Notes(o, d, q), row.delivered = order[o].delivered + q,
         invoice[i] = NoInvoice, InvoiceSteps(i, v, b, 0), v.credit = 0, RowSettled(v),
         UNCHANGED <<return, credit, voids>>
  PROVE  SInv'
<1>1. OrdersPart'
  BY OrderStepsKeep
<1>2. NotesPart'
  BY NotesKeep DEF OrderSteps
<1>3. NotesStay
  BY Types DEF Notes, NotesStay, SInv
<1>4. InvoicesPart'
  BY <1>3, InvoiceStepsKeep
<1>5. \A j \in Invoice : invoice'[j] = IF j = i THEN v ELSE invoice[j]
  BY Types DEF InvoiceSteps, SInv
<1>6. StatusTellsSettlement'
  <2>1. \A j \in Invoice : invoice'[j].credit = invoice[j].credit /\ RowSettled(invoice'[j])
    BY <1>5, RowsAreSettled DEF NoInvoice
  <2> QED BY <2>1, SettlementKept
<1>7. StockMoves(q, 0, 0)
  <2>1. onHand' = onHand - q /\ onHand \in Int
    BY Types DEF OrderSteps, SInv
  <2>2. \A j \in Invoice : invoice[j] = NoInvoice \/ invoice'[j].note = invoice[j].note
    BY <1>5
  <2>3. SumFunctionOnSet(Undone', Invoice) = SumFunctionOnSet(Undone, Invoice) + 0
    BY <1>2, <1>3, <1>4, <2>2, UndoneStays DEF NotesPart, InvoicesPart, NotesStay
  <2>4. q \in Int /\ SumFunctionOnSet(Left', Note) = SumFunctionOnSet(Left, Note) + q
    BY NotesMove
  <2>5. onHand' = onHand - q + 0 + 0
    BY <2>1, <2>4
  <2> QED BY <2>3, <2>4, <2>5, BackStays DEF StockMoves
<1>8. StockExplained'
  BY <1>7, StockMovesKeep
<1> QED BY <1>1, <1>2, <1>4, <1>6, <1>8, CreditsStay, PartsMakeUp

\* Only an invoice changes, and the money of its payments.
LEMMA InvoiceOnlySInv ==
  ASSUME SalesAssumption, SInv, NEW i \in Invoice, NEW v, NEW b,
         InvoiceSteps(i, v, b, voids[i]), v.credit = invoice[i].credit, RowSettled(v),
         invoice[i] = NoInvoice \/ v.note = invoice[i].note,
         UNCHANGED <<order, hold, note, return, credit, onHand, voids>>
  PROVE  SInv'
<1>1. OrdersPart'
  <2>1. onHand' = onHand + 0 /\ onHand + 0 <= MaxStock
    BY Types DEF SInv, SalesAssumption
  <2> QED BY <2>1, RestockKeeps
<1>2. Left' = Left /\ NotesPart'
  BY Types DEF Left, SInv, NotesPart, NotesInOrder, StockIsAccountedFor, NoNote
<1>3. NotesStay
  BY DEF NotesStay
<1>4. InvoicesPart'
  BY <1>3, InvoiceStepsKeep
<1>5. \A j \in Invoice : invoice'[j] = IF j = i THEN v ELSE invoice[j]
  BY Types DEF InvoiceSteps, SInv
<1>6. StatusTellsSettlement'
  <2>1. \A j \in Invoice : invoice'[j].credit = invoice[j].credit /\ RowSettled(invoice'[j])
    BY <1>5, RowsAreSettled
  <2> QED BY <2>1, SettlementKept
<1>7. StockMoves(0, 0, 0)
  <2>1. onHand' = onHand - 0 + 0 + 0
    BY Types DEF SInv
  <2>2. \A j \in Invoice : invoice[j] = NoInvoice \/ invoice'[j].note = invoice[j].note
    BY <1>5
  <2>3. SumFunctionOnSet(Undone', Invoice) = SumFunctionOnSet(Undone, Invoice) + 0
    BY <1>2, <1>3, <1>4, <2>2, UndoneStays DEF NotesPart, InvoicesPart, NotesStay
  <2> QED BY <2>1, <2>3, LeftStays, BackStays DEF StockMoves
<1>8. StockExplained'
  BY <1>7, StockMovesKeep
<1> QED BY <1>1, <1>2, <1>4, <1>6, <1>8, CreditsStay, PartsMakeUp

\* Orders and notes are as they were, whatever comes back.
LEMMA RestockParts ==
  ASSUME SalesAssumption, SInv, NEW more \in Nat, onHand' = onHand + more,
         onHand + more <= MaxStock, UNCHANGED <<order, hold, note>>
  PROVE  OrdersPart' /\ NotesPart' /\ NotesStay
<1>1. OrdersPart'
  BY RestockKeeps
<1>2. Left' = Left /\ NotesPart'
  BY Types DEF Left, SInv, NotesPart, NotesInOrder, StockIsAccountedFor, NoNote
<1>3. NotesStay
  BY DEF NotesStay
<1> QED BY <1>1, <1>2, <1>3

LEMMA VoidInvoiceSInv ==
  ASSUME SalesAssumption, SInv, NEW i \in Invoice, VoidInvoice(i)
  PROVE  SInv'
<1>0. /\ invoice \in [Invoice -> InvoiceType] /\ banked \in [Invoice -> Nat]
      /\ voids \in [Invoice -> Nat] /\ note \in [Note -> NoteRow] /\ onHand \in Nat
  BY Types DEF SInv
<1> PICK more : more = Restored(i)
  OBVIOUS
<1>1. /\ more \in Nat
      /\ onHand' = onHand + more /\ onHand + more <= MaxStock
      /\ UNCHANGED <<order, hold, note, return, credit>>
  <2>1. more \in Nat
    BY <1>0 DEF Restored, InvoiceType, NoteRow
  <2> QED BY <2>1 DEF VoidInvoice
<1>2. OrdersPart' /\ NotesPart' /\ NotesStay
  BY <1>1, RestockParts
<1> PICK v : v = [invoice[i] EXCEPT !.status = "voided"]
  OBVIOUS
<1>3. /\ v \in InvoiceType /\ v.status = "voided" /\ v.note = invoice[i].note
      /\ v.total = invoice[i].total /\ v.paid = invoice[i].paid /\ v.credit = invoice[i].credit
  BY <1>0 DEF InvoiceType, InvoiceStatus
<1>4. invoice[i].status \in Voidable /\ invoice[i].status # "none"
  BY DEF VoidInvoice, Voidable
<1> PICK n : n = voids[i] + 1
  OBVIOUS
<1>5. n \in Nat /\ n # 0
  BY <1>0
<1>6. InvoiceSteps(i, v, 0, n)
  <2>1. /\ invoice' = [invoice EXCEPT ![i] = v] /\ banked' = [banked EXCEPT ![i] = 0]
        /\ voids' = [voids EXCEPT ![i] = n]
    BY <1>0 DEF VoidInvoice
  <2>2. v.total > 0 /\ (v.note # None => note'[v.note] # NoNote)
    BY <1>1, <1>3, <1>4 DEF SInv, InvoicesInOrder
  <2> QED BY <1>3, <1>5, <2>1, <2>2 DEF InvoiceSteps
<1>7. InvoicesPart'
  BY <1>1, <1>2, <1>6, InvoiceStepsKeep
<1>8. \A j \in Invoice : /\ invoice'[j] = IF j = i THEN v ELSE invoice[j]
                         /\ voids'[j] = IF j = i THEN n ELSE voids[j]
  BY <1>0, <1>6 DEF InvoiceSteps
<1>9. StatusTellsSettlement'
  <2>1. RowSettled(v)
    BY <1>3 DEF RowSettled, Voidable
  <2>2. \A j \in Invoice : invoice'[j].credit = invoice[j].credit /\ RowSettled(invoice'[j])
    BY <1>3, <1>8, <2>1, RowsAreSettled
  <2> QED BY <1>1, <2>2, SettlementKept
<1>10. SumFunctionOnSet(Undone', Invoice) = SumFunctionOnSet(Undone, Invoice) + more
  <2>p. PICK old, new : old = Undone /\ new = Undone'
    OBVIOUS
  <2>1. \A j \in Invoice : j # i => new[j] = old[j]
    <3> SUFFICES ASSUME NEW j \in Invoice, j # i PROVE Undone'[j] = Undone[j]
      BY <2>p
    <3>1. invoice'[j] = invoice[j] /\ voids'[j] = voids[j] /\ note' = note
      BY <1>1, <1>8
    <3> QED BY <3>1 DEF Undone
  <2>2. new[i] = old[i] + more
    <3>1. invoice'[i].note = invoice[i].note /\ voids'[i] = voids[i] + 1 /\ note' = note
      BY <1>1, <1>3, <1>8
    <3>2. CASE invoice[i].note = None
      <4>1. old[i] = 0 /\ new[i] = 0 /\ more = 0
        BY <2>p, <3>1, <3>2 DEF Undone, Restored
      <4> QED BY <4>1
    <3>3. CASE invoice[i].note # None
      <4> PICK q \in Nat, m \in Nat : q = note[invoice[i].note].qty /\ m = voids[i]
        BY <1>0, <3>3 DEF InvoiceType, NoteRow
      <4>1. old[i] = m * q /\ new[i] = (m + 1) * q /\ more = q
        BY <2>p, <3>1, <3>3 DEF Undone, Restored
      <4>2. (m + 1) * q = m * q + q
        BY SMT
      <4> QED BY <4>1, <4>2
    <3> QED BY <3>2, <3>3
  <2>3. \A j \in Invoice : old[j] \in Int
    <3> SUFFICES ASSUME NEW j \in Invoice PROVE Undone[j] \in Int
      BY <2>p
    <3>1. CASE invoice[j].note = None
      BY <3>1 DEF Undone
    <3>2. CASE invoice[j].note # None
      <4> PICK q \in Nat, m \in Nat : q = note[invoice[j].note].qty /\ m = voids[j]
        BY <1>0, <3>2 DEF InvoiceType, NoteRow
      <4>1. Undone[j] = m * q
        BY <3>2 DEF Undone
      <4> QED BY <4>1
    <3> QED BY <3>1, <3>2
  <2>4. DifferAt(i, old, new, Invoice) /\ IsFiniteSet(Invoice)
    BY <1>1, <2>1, <2>2, <2>3 DEF DifferAt, SalesAssumption
  <2>5. SumFunctionOnSet(new, Invoice) = SumFunctionOnSet(old, Invoice) + new[i] - old[i]
    BY <2>4, SumChange
  <2>6. SumFunctionOnSet(old, Invoice) \in Int /\ old[i] \in Int /\ more \in Int
    BY <1>1, <2>3, <2>4, SumType
  <2>7. SumFunctionOnSet(new, Invoice) = SumFunctionOnSet(old, Invoice) + more
    BY <2>2, <2>5, <2>6
  <2> QED BY <2>7, <2>p
<1>11. StockMoves(0, more, 0)
  <2>1. onHand' = onHand - 0 + more + 0 /\ more \in Int
    BY <1>0, <1>1
  <2> QED BY <1>1, <1>10, <2>1, LeftStays, BackStays DEF StockMoves
<1>12. StockExplained'
  BY <1>11, StockMovesKeep
<1> QED BY <1>1, <1>2, <1>7, <1>9, <1>12, CreditsStay, PartsMakeUp

LEMMA CreateReturnSInv ==
  ASSUME SalesAssumption, SInv, NEW r \in Return, NEW i \in Invoice, NEW q \in 1..MaxQty,
         CreateReturn(r, i, q)
  PROVE  SInv'
<1>0. /\ invoice \in [Invoice -> InvoiceType] /\ return \in [Return -> ReturnRow]
      /\ credit \in [Credit -> CreditRow] /\ onHand \in Nat /\ q \in Nat /\ q \in 0..MaxQty
      /\ None \notin Invoice
  BY Types DEF SInv, SalesAssumption
<1>1. /\ onHand' = onHand + q /\ onHand + q <= MaxStock
      /\ return[r] = NoReturn /\ invoice[i] # NoInvoice
      /\ UNCHANGED <<order, hold, note, invoice, credit, banked, voids>>
  BY DEF CreateReturn
<1> PICK row : row = [invoice |-> i, qty |-> q, status |-> "received"]
  OBVIOUS
<1>2. row \in ReturnRow /\ row.invoice = i /\ row.qty = q /\ row # NoReturn
  BY <1>0 DEF ReturnRow, NoReturn
<1>3. return' = [return EXCEPT ![r] = row]
  BY DEF CreateReturn
<1>4. \A s \in Return : return'[s] = IF s = r THEN row ELSE return[s]
  BY <1>0, <1>3
<1>5. OrdersPart' /\ NotesPart'
  BY <1>0, <1>1, RestockParts
<1>6. \A c \in Credit : credit[c].status # "none" =>
        /\ credit[c].return \in Return /\ credit[c].return # r
        /\ return'[credit[c].return] = return[credit[c].return]
  <2>1. \A c \in Credit : credit[c].return # None => credit[c].return \in Return
    BY <1>0 DEF CreditRow
  <2> QED BY <1>1, <1>4, <2>1 DEF SInv, CreditsInOrder
<1>7. CreditsPart'
  <2>1. return' \in [Return -> ReturnRow]
    BY <1>0, <1>2, <1>3
  <2> QED BY <1>0, <1>1, <1>6, <2>1 DEF CreditsPart, CreditsInOrder, SInv
<1>8. InvoicesPart'
  <2>1. invoice[i].status # "none"
    BY <1>1 DEF SInv, InvoicesInOrder
  <2>2. ReturnsInOrder'
    BY <1>0, <1>1, <1>2, <1>4, <2>1 DEF SInv, ReturnsInOrder
  <2>3. InvoicesInOrder' /\ BankedFollowsInvoice'
    BY <1>1 DEF SInv, InvoicesInOrder, BankedFollowsInvoice
  <2> QED BY <1>1, <2>2, <2>3, Types DEF InvoicesPart, SInv
<1>9. StatusTellsSettlement'
  <2>1. Amounts' = Amounts
    BY <1>1 DEF Amounts
  <2>2. ASSUME NEW j \in Invoice PROVE Applied(j)' = Applied(j)
    <3>1. \A c \in Credit : (credit'[c].status = "applied" /\ return'[credit'[c].return].invoice = j)
            <=> (credit[c].status = "applied" /\ return[credit[c].return].invoice = j)
      BY <1>1, <1>6
    <3> QED BY <3>1 DEF Applied
  <2>3. \A j \in Invoice : invoice'[j].credit = SumFunctionOnSet(Amounts', Applied(j)')
    BY <1>1, <2>1, <2>2 DEF SInv, StatusTellsSettlement
  <2>4. \A j \in Invoice : RowSettled(invoice'[j])
    BY <1>1, RowsAreSettled
  <2> QED BY <2>3, <2>4 DEF StatusTellsSettlement, RowSettled, Settled
<1>10. SumFunctionOnSet(Back', Return) = SumFunctionOnSet(Back, Return) + q
  <2>p. PICK old, new : old = Back /\ new = Back'
    OBVIOUS
  <2>1. old = [s \in Return |-> return[s].qty] /\ new = [s \in Return |-> return'[s].qty]
    BY <2>p DEF Back
  <2>0. return[r].qty = 0 /\ q \in Int /\ \A s \in Return : return[s].qty \in Int
    BY <1>0, <1>1, <1>2 DEF ReturnRow, NoReturn
  <2>b. \A s \in Return : return'[s].qty = IF s = r THEN q ELSE return[s].qty
    BY <1>4
  <2>2. old[r] = 0 /\ old \in [Return -> Int] /\ new = [old EXCEPT ![r] = q]
    BY <2>0, <2>1, <2>b
  <2>3. OneRow(new, old, r, q, Return) /\ IsFiniteSet(Return)
    BY <1>0, <2>2 DEF OneRow, SalesAssumption
  <2>4. /\ SumFunctionOnSet(old, Return) \in Int
        /\ SumFunctionOnSet(new, Return) = SumFunctionOnSet(old, Return) + q - old[r]
    BY <2>3, SumExcept
  <2>5. SumFunctionOnSet(new, Return) = SumFunctionOnSet(old, Return) + q
    BY <1>0, <2>2, <2>4
  <2> QED BY <2>5, <2>p
<1>11. StockMoves(0, 0, q)
  <2>1. onHand' = onHand - 0 + 0 + q
    BY <1>0, <1>1
  <2>2. SumFunctionOnSet(Undone', Invoice) = SumFunctionOnSet(Undone, Invoice) + 0
    <3>1. Undone' = Undone
      BY <1>1 DEF Undone
    <3> QED BY <3>1, StockSums DEF SInv
  <2> QED BY <1>0, <1>1, <1>10, <2>1, <2>2, LeftStays DEF StockMoves
<1>12. StockExplained'
  BY <1>0, <1>11, StockMovesKeep
<1> QED BY <1>5, <1>7, <1>8, <1>9, <1>12, PartsMakeUp

\* A step that leaves orders, notes and stock alone, and the quantities returned.
LEMMA StockStays ==
  ASSUME SalesAssumption, SInv, UNCHANGED <<order, hold, note, onHand, voids>>,
         invoice' \in [Invoice -> InvoiceType],
         \A i \in Invoice : invoice'[i].note = invoice[i].note,
         \A r \in Return : return'[r].qty = return[r].qty
  PROVE  OrdersPart' /\ NotesPart' /\ StockExplained'
<1>1. onHand' = onHand + 0 /\ onHand + 0 <= MaxStock /\ onHand' = onHand - 0 + 0 + 0
  BY Types DEF SInv, SalesAssumption
<1>2. OrdersPart' /\ NotesPart' /\ NotesStay
  BY <1>1, RestockParts
<1>3. SumFunctionOnSet(Undone', Invoice) = SumFunctionOnSet(Undone, Invoice) + 0
  BY <1>2, UndoneStays DEF NotesPart, NotesStay
<1>4. StockMoves(0, 0, 0)
  BY <1>1, <1>3, LeftStays, BackStays DEF StockMoves
<1>5. StockExplained'
  BY <1>4, StockMovesKeep
<1> QED BY <1>2, <1>5

LEMMA CreateCreditNoteSInv ==
  ASSUME SalesAssumption, SInv, NEW c \in Credit, NEW r \in Return, CreateCreditNote(c, r)
  PROVE  SInv'
<1>0. /\ invoice \in [Invoice -> InvoiceType] /\ return \in [Return -> ReturnRow]
      /\ credit \in [Credit -> CreditRow] /\ None \notin Return
  BY Types DEF SInv, SalesAssumption
<1>1. /\ credit[c] = NoCredit /\ return[r] # NoReturn
      /\ UNCHANGED <<order, hold, note, invoice, banked, onHand, voids>>
  BY DEF CreateCreditNote
<1> PICK row, back : /\ row = [return |-> r, total |-> return[r].qty, status |-> "draft"]
                     /\ back = [return[r] EXCEPT !.status = "credited"]
  OBVIOUS
<1>2. /\ row \in CreditRow /\ row.status = "draft" /\ row.return = r
      /\ back \in ReturnRow /\ back.invoice = return[r].invoice /\ back.qty = return[r].qty
      /\ back.status = "credited"
  BY <1>0 DEF ReturnRow, CreditRow, CreditStatus
<1>3. /\ \A d \in Credit : credit'[d] = IF d = c THEN row ELSE credit[d]
      /\ \A s \in Return : return'[s] = IF s = r THEN back ELSE return[s]
      /\ credit' \in [Credit -> CreditRow] /\ return' \in [Return -> ReturnRow]
  BY <1>0, <1>2 DEF CreateCreditNote
<1>4. \A s \in Return : /\ return'[s].invoice = return[s].invoice /\ return'[s].qty = return[s].qty
                        /\ return'[s] = NoReturn <=> return[s] = NoReturn
  <2> SUFFICES ASSUME NEW s \in Return
               PROVE  /\ return'[s].invoice = return[s].invoice /\ return'[s].qty = return[s].qty
                      /\ return'[s] = NoReturn <=> return[s] = NoReturn
    BY DEF NoReturn
  <2>1. CASE s = r
    <3>1. back # NoReturn
      BY <1>2 DEF NoReturn
    <3> QED BY <1>1, <1>2, <1>3, <2>1, <3>1
  <2>2. CASE s # r
    BY <1>3, <2>2
  <2> QED BY <2>1, <2>2
<1>5. CreditsPart'
  <2>1. ASSUME NEW d \in Credit
        PROVE  /\ credit'[d].status = "none" => credit'[d] = NoCredit
               /\ credit'[d].status # "none" =>
                    credit'[d].return # None /\ return'[credit'[d].return] # NoReturn
    <3>1. CASE d = c
      BY <1>0, <1>1, <1>2, <1>3, <1>4, <3>1
    <3>2. CASE d # c
      <4>1. credit'[d] = credit[d]
        BY <1>3, <3>2
      <4>2. credit[d].return # None => credit[d].return \in Return
        BY <1>0 DEF CreditRow
      <4> QED BY <1>4, <4>1, <4>2 DEF SInv, CreditsInOrder
    <3> QED BY <3>1, <3>2
  <2> QED BY <1>3, <2>1 DEF CreditsPart, CreditsInOrder, NoCredit, NoReturn
<1>6. InvoicesPart'
  <2>1. ReturnsInOrder'
    BY <1>0, <1>1, <1>4 DEF SInv, ReturnsInOrder, NoReturn
  <2>2. InvoicesInOrder' /\ BankedFollowsInvoice'
    BY <1>1 DEF SInv, InvoicesInOrder, BankedFollowsInvoice, NoInvoice, NoNote
  <2> QED BY <1>1, <2>1, <2>2, Types DEF InvoicesPart, SInv
<1>7. StatusTellsSettlement'
  <2>1. ASSUME NEW j \in Invoice
        PROVE  invoice'[j].credit = SumFunctionOnSet(Amounts', Applied(j)')
    <3> PICK S : S = Applied(j)
      OBVIOUS
    <3>1. \A d \in Credit : d # c => (credit'[d] = credit[d] /\
            (credit[d].status = "applied" => return'[credit[d].return].invoice = return[credit[d].return].invoice))
      <4>1. \A d \in Credit : credit[d].status = "applied" => credit[d].return \in Return
        BY <1>0 DEF CreditRow, SInv, CreditsInOrder
      <4> QED BY <1>3, <1>4, <4>1
    <3>2. c \notin Applied(j) /\ c \notin Applied(j)'
      BY <1>1, <1>2, <1>3 DEF Applied, NoCredit
    <3>3. Applied(j)' = S
      BY <3>1, <3>2 DEF Applied
    <3>4. \A d \in S : Amounts'[d] = Amounts[d]
      BY <3>1, <3>2 DEF Amounts, Applied
    <3>5. IsFiniteSet(S)
      BY FS_Subset DEF SalesAssumption, Applied
    <3>6. SumFunctionOnSet(Amounts', S) = SumFunctionOnSet(Amounts, S)
      BY <3>4, <3>5, SumEqual
    <3>7. invoice[j].credit = SumFunctionOnSet(Amounts, S)
      BY DEF SInv, StatusTellsSettlement
    <3> QED BY <1>1, <3>3, <3>6, <3>7
  <2>2. \A j \in Invoice : RowSettled(invoice'[j])
    BY <1>1, RowsAreSettled
  <2> QED BY <2>1, <2>2 DEF StatusTellsSettlement, RowSettled, Settled
<1>8. OrdersPart' /\ NotesPart' /\ StockExplained'
  BY <1>0, <1>1, <1>4, StockStays
<1> QED BY <1>5, <1>6, <1>7, <1>8, PartsMakeUp

\* A credit note that is not applied changes no invoice.
LEMMA NotAppliedSInv ==
  ASSUME SalesAssumption, SInv, NEW c \in Credit, NEW new, new # "applied",
         CreditNoteTransition(c, new)
  PROVE  SInv'
<1>0. credit \in [Credit -> CreditRow] /\ invoice \in [Invoice -> InvoiceType]
  BY Types DEF SInv
<1>1. /\ credit[c].status \in {"draft", "approved"} /\ new \in {"approved", "cancelled"}
      /\ UNCHANGED <<order, hold, note, invoice, return, banked, onHand, voids>>
      /\ credit' = [credit EXCEPT ![c].status = new]
  BY DEF CreditNoteTransition, CreditAllowed
<1>2. /\ \A d \in Credit : /\ credit'[d].return = credit[d].return /\ credit'[d].total = credit[d].total
                           /\ d # c => credit'[d] = credit[d]
      /\ credit'[c].status = new /\ credit' \in [Credit -> CreditRow]
  BY <1>0, <1>1 DEF CreditRow, CreditStatus
<1>3. CreditsPart'
  BY <1>0, <1>1, <1>2, Types DEF SInv, CreditsPart, CreditsInOrder, NoReturn
<1>4. InvoicesPart'
  <2>1. NotesStay
    BY <1>1 DEF NotesStay
  <2> QED BY <1>1, <2>1, NoInvoiceKeeps
<1>5. StatusTellsSettlement'
  <2>1. Amounts' = Amounts
    BY <1>2 DEF Amounts
  <2>2. ASSUME NEW j \in Invoice PROVE Applied(j)' = Applied(j)
    BY <1>1, <1>2 DEF Applied
  <2>3. \A j \in Invoice : invoice'[j].credit = SumFunctionOnSet(Amounts', Applied(j)')
    BY <1>1, <2>1, <2>2 DEF SInv, StatusTellsSettlement
  <2>4. \A j \in Invoice : RowSettled(invoice'[j])
    BY <1>1, RowsAreSettled
  <2> QED BY <2>3, <2>4 DEF StatusTellsSettlement, RowSettled, Settled
<1>6. OrdersPart' /\ NotesPart' /\ StockExplained'
  BY <1>0, <1>1, StockStays
<1> QED BY <1>3, <1>4, <1>5, <1>6, PartsMakeUp

\* An applied one counts for its invoice, once.
LEMMA AppliedSInv ==
  ASSUME SalesAssumption, SInv, NEW c \in Credit, CreditNoteTransition(c, "applied")
  PROVE  SInv'
<1>0. /\ credit \in [Credit -> CreditRow] /\ invoice \in [Invoice -> InvoiceType]
      /\ return \in [Return -> ReturnRow] /\ banked \in [Invoice -> Nat] /\ voids \in [Invoice -> Nat]
  BY Types DEF SInv
<1> PICK i : i = return[credit[c].return].invoice
  OBVIOUS
<1> PICK amount : amount = credit[c].total
  OBVIOUS
<1>u. PICK u : u = [invoice[i] EXCEPT !.credit = @ + amount]
  OBVIOUS
<1>v. PICK v : v = Resettled(u)
  OBVIOUS
<1>a. invoice' = AppliedTo(i, amount)
  BY DEF CreditNoteTransition
<1>b. AppliedTo(i, amount) = [invoice EXCEPT ![i] = v]
  BY <1>u, <1>v DEF AppliedTo, Credited
<1>1. /\ credit[c].status = "approved" /\ credit' = [credit EXCEPT ![c].status = "applied"]
      /\ invoice' = [invoice EXCEPT ![i] = v]
      /\ UNCHANGED <<order, hold, note, return, banked, onHand, voids>>
  BY <1>a, <1>b DEF CreditNoteTransition, CreditAllowed
<1>2. /\ credit[c].return \in Return /\ i \in Invoice /\ invoice[i].status # "none"
      /\ amount \in Nat
  <2>1. credit[c].return \in Return /\ return[credit[c].return] # NoReturn
    BY <1>0, <1>1 DEF SInv, CreditsInOrder, CreditRow
  <2>2. i # None /\ i \in Invoice
    BY <1>0, <2>1 DEF SInv, ReturnsInOrder, ReturnRow
  <2>3. invoice[i].status # "none"
    BY <2>1, <2>2 DEF SInv, ReturnsInOrder
  <2>4. amount \in Nat
    BY <1>0 DEF CreditRow
  <2> QED BY <2>1, <2>2, <2>3, <2>4
<1>3. /\ u \in InvoiceType /\ u.credit = invoice[i].credit + amount /\ u.total = invoice[i].total
      /\ u.paid = invoice[i].paid /\ u.note = invoice[i].note
  <2>1. invoice[i] \in InvoiceType
    BY <1>0, <1>2
  <2>2. invoice[i].credit + amount \in Nat
    BY <1>2, <2>1 DEF InvoiceType
  <2> QED BY <1>u, <2>1, <2>2 DEF InvoiceType
<1>4. u.total > 0
  BY <1>2, <1>3 DEF SInv, InvoicesInOrder
<1>5. /\ RowSettled(v) /\ v \in InvoiceType /\ v.note = u.note /\ v.total = u.total
      /\ v.paid = u.paid /\ v.credit = u.credit /\ v.status \in Voidable
  BY <1>3, <1>4, <1>v, ResettledIsSettled
<1>6. NotesStay /\ InvoiceSteps(i, v, banked[i], voids[i])
  <2>1. NotesStay
    BY <1>1 DEF NotesStay
  <2>2. v.status # "none" /\ v.status # "voided"
    BY <1>5 DEF Voidable
  <2>3. invoice' = [invoice EXCEPT ![i] = v]
    BY <1>1
  <2>4. banked' = [banked EXCEPT ![i] = banked[i]] /\ voids' = [voids EXCEPT ![i] = voids[i]]
    BY <1>0, <1>1
  <2>5. v.note # None => note'[v.note] # NoNote
    BY <1>1, <1>2, <1>3, <1>5 DEF SInv, InvoicesInOrder
  <2>6. voids[i] = 0 => banked[i] = v.paid
    BY <1>2, <1>3, <1>5 DEF SInv, BankedFollowsInvoice
  <2> QED BY <1>0, <1>2, <1>3, <1>4, <1>5, <2>1, <2>2, <2>3, <2>4, <2>5, <2>6 DEF InvoiceSteps
<1>7. InvoicesPart'
  BY <1>1, <1>2, <1>6, InvoiceStepsKeep
<1>8. \A j \in Invoice : invoice'[j] = IF j = i THEN v ELSE invoice[j]
  BY <1>0, <1>6 DEF InvoiceSteps
<1>9. /\ \A d \in Credit : /\ credit'[d].return = credit[d].return /\ credit'[d].total = credit[d].total
                           /\ d # c => credit'[d] = credit[d]
      /\ credit'[c].status = "applied" /\ credit' \in [Credit -> CreditRow]
  BY <1>0, <1>1 DEF CreditRow, CreditStatus
<1>10. CreditsPart'
  BY <1>0, <1>1, <1>2, <1>9, Types DEF SInv, CreditsPart, CreditsInOrder, NoReturn
<1>11. ASSUME NEW j \in Invoice
       PROVE  invoice'[j].credit = SumFunctionOnSet(Amounts', Applied(j)')
  <2>p. PICK S, T, f : S = Applied(j) /\ T = Applied(j)' /\ f = Amounts
    OBVIOUS
  <2>1. Amounts' = f
    BY <1>9, <2>p DEF Amounts
  <2>2. invoice[j].credit = SumFunctionOnSet(f, S)
    BY <2>p DEF SInv, StatusTellsSettlement
  <2>3. CASE j # i
    <3>1. T = S
      BY <1>1, <1>9, <2>3, <2>p DEF Applied
    <3> QED BY <1>8, <2>1, <2>2, <2>3, <2>p, <3>1
  <2>4. CASE j = i
    <3>1. T \ {c} = S /\ c \in T
      BY <1>1, <1>9, <2>4, <2>p DEF Applied
    <3>2. IsFiniteSet(T)
      BY <2>p, FS_Subset DEF SalesAssumption, Applied
    <3>3. (\A d \in T : f[d] \in Int) /\ f[c] = amount
      BY <1>0, <2>p DEF Amounts, Applied, CreditRow
    <3>4. SumFunctionOnSet(f, T) = f[c] + SumFunctionOnSet(f, T \ {c})
      BY <3>1, <3>2, <3>3, SumRemove
    <3>5. SumFunctionOnSet(f, T) = amount + invoice[i].credit
      BY <2>2, <2>4, <3>1, <3>3, <3>4
    <3>6. invoice'[j].credit = invoice[i].credit + amount
      BY <1>3, <1>5, <1>8, <2>4
    <3>7. invoice[i].credit \in Int
      BY <1>0, <1>2 DEF InvoiceType
    <3>8. PICK x \in Int, y \in Int : x = invoice[i].credit /\ y = amount
      BY <1>2, <3>7
    <3>9. invoice'[j].credit = x + y /\ SumFunctionOnSet(f, T) = y + x
      BY <3>5, <3>6, <3>8
    <3> QED BY <2>1, <2>p, <3>9
  <2> QED BY <2>3, <2>4
<1>12. StatusTellsSettlement'
  <2>1. \A j \in Invoice : RowSettled(invoice'[j])
    BY <1>5, <1>8, RowsAreSettled
  <2> QED BY <1>11, <2>1 DEF StatusTellsSettlement, RowSettled, Settled
<1>13. OrdersPart' /\ NotesPart' /\ StockExplained'
  <2>1. \A j \in Invoice : invoice'[j].note = invoice[j].note
    BY <1>3, <1>5, <1>8
  <2> QED BY <1>1, <1>7, <2>1, StockStays DEF InvoicesPart
<1> QED BY <1>7, <1>10, <1>12, <1>13, PartsMakeUp

-----------------------------------------------------------------------------
(* The handlers                                                            *)

\* What an order holds and the stock on hand are numbers.
LEMMA OrderTypes ==
  ASSUME SalesAssumption, SInv, NEW o \in Order
  PROVE  /\ order[o] \in OrderRow /\ hold[o] \in Nat /\ onHand \in Nat /\ Held \in Nat
         /\ Held <= onHand /\ hold[o] <= Held /\ hold[o] = Owed(order[o])
         /\ order[o].qty \in Nat /\ order[o].delivered \in Nat
<1>1. order[o] \in OrderRow /\ hold[o] \in Nat /\ onHand \in Nat
  BY Types DEF SInv
<1>2. Held \in Nat /\ hold[o] <= Held
  BY HeldIsSum DEF SInv
<1>3. Held <= onHand /\ hold[o] = Owed(order[o])
  BY DEF SInv, OrdersHoldWhatTheyOwe, Owed, Outstanding
<1> QED BY <1>1, <1>2, <1>3 DEF OrderRow

\* A new draft holds nothing.
LEMMA DraftSInv ==
  ASSUME SalesAssumption, SInv, NEW o \in Order, NEW q \in 1..MaxQty, order[o] = NoOrder,
         order' = [order EXCEPT ![o] = [status |-> "draft", qty |-> q, delivered |-> 0]],
         UNCHANGED <<hold, note, invoice, return, credit, banked, onHand, voids>>
  PROVE  SInv'
<1> PICK row : row = [status |-> "draft", qty |-> q, delivered |-> 0]
  OBVIOUS
<1>1. GoodOrder(row) /\ Owed(row) = 0 /\ row.delivered = order[o].delivered
  BY DEF GoodOrder, OrderRow, OrderStatus, Owed, Deliverable, NoOrder, SalesAssumption
<1>2. hold[o] = 0
  BY OrderTypes DEF NoOrder, Owed, Deliverable
<1>3. hold' = [hold EXCEPT ![o] = Owed(row)]
  BY <1>1, <1>2, Types DEF SInv
<1>4. Held + Owed(row) - hold[o] <= onHand - 0 /\ onHand' = onHand - 0
  BY <1>1, <1>2, OrderTypes
<1>5. OrderSteps(o, row, 0)
  BY <1>1, <1>3, <1>4 DEF OrderSteps
<1> QED BY <1>1, <1>5, OrderOnlySInv

LEMMA ConfirmSalesOrderSInv ==
  ASSUME SalesAssumption, SInv, NEW o \in Order, ConfirmSalesOrder(o)
  PROVE  SInv'
<1> PICK row : row = [order[o] EXCEPT !.status = "confirmed"]
  OBVIOUS
<1>1. /\ order[o].status = "draft" /\ onHand - Held >= order[o].qty
      /\ hold' = [hold EXCEPT ![o] = order[o].qty]
      /\ UNCHANGED <<note, invoice, return, credit, banked, onHand, voids>>
  BY DEF ConfirmSalesOrder, Available
<1>2. order' = [order EXCEPT ![o] = row]
  BY Types DEF ConfirmSalesOrder, SInv
<1>3. order[o].delivered = 0 /\ order[o].qty > 0
  BY <1>1 DEF SInv, OrdersInOrder, NoOrder
<1>4. GoodOrder(row) /\ Owed(row) = order[o].qty /\ row.delivered = order[o].delivered
  BY <1>3, OrderTypes DEF GoodOrder, OrderRow, OrderStatus, Owed, Deliverable
<1>5. hold[o] = 0
  BY <1>1, OrderTypes DEF Owed, Deliverable
<1>6. Held + Owed(row) - hold[o] <= onHand - 0 /\ onHand' = onHand - 0
  BY <1>1, <1>4, <1>5, OrderTypes
<1>7. OrderSteps(o, row, 0)
  BY <1>1, <1>2, <1>4, <1>6 DEF OrderSteps
<1> QED BY <1>1, <1>4, <1>7, OrderOnlySInv

LEMMA CancelSalesOrderSInv ==
  ASSUME SalesAssumption, SInv, NEW o \in Order, CancelSalesOrder(o)
  PROVE  SInv'
<1> PICK row : row = [order[o] EXCEPT !.status = "cancelled"]
  OBVIOUS
<1>1. /\ order[o].status \in {"draft", "confirmed"} /\ hold' = [hold EXCEPT ![o] = 0]
      /\ UNCHANGED <<note, invoice, return, credit, banked, onHand, voids>>
  BY DEF CancelSalesOrder, Cancellable
<1>2. order' = [order EXCEPT ![o] = row]
  BY Types DEF CancelSalesOrder, SInv
<1>3. order[o].delivered = 0 /\ order[o].qty > 0
  BY <1>1 DEF SInv, OrdersInOrder, NoOrder
<1>4. GoodOrder(row) /\ Owed(row) = 0 /\ row.delivered = order[o].delivered
  BY <1>3, OrderTypes DEF GoodOrder, OrderRow, OrderStatus, Owed, Deliverable
<1>5. Held + Owed(row) - hold[o] <= onHand - 0 /\ onHand' = onHand - 0
  BY <1>1, <1>4, OrderTypes
<1>6. OrderSteps(o, row, 0)
  BY <1>1, <1>2, <1>4, <1>5 DEF OrderSteps
<1> QED BY <1>1, <1>4, <1>6, OrderOnlySInv

LEMMA CreateDeliverySInv ==
  ASSUME SalesAssumption, SInv, NEW o \in Order, NEW d \in Note, NEW wanted \in 1..MaxQty,
         CreateDelivery(o, d, wanted)
  PROVE  SInv'
<1>0. /\ order[o] \in OrderRow /\ hold[o] \in Nat /\ onHand \in Nat /\ Held \in Nat
      /\ Held <= onHand /\ hold[o] <= Held /\ hold[o] = Owed(order[o])
      /\ order[o].qty \in Nat /\ order[o].delivered \in Nat /\ MaxQty \in Nat
  BY OrderTypes DEF SalesAssumption
<1>q. PICK q : q = Lesser(wanted, Outstanding(o))
  OBVIOUS
<1>o. PICK out : out = DeliveryOutcome(order[o].delivered + q, order[o].qty)
  OBVIOUS
<1>1. /\ order[o].status \in Deliverable /\ note[d] = NoNote /\ q > 0
      /\ onHand' = onHand - q
      /\ hold' = [hold EXCEPT ![o] = @ - Lesser(q, @)]
      /\ note' = [note EXCEPT ![d] = [order |-> o, qty |-> q]]
      /\ order' = [order EXCEPT ![o].delivered = order[o].delivered + q, ![o].status = out]
      /\ UNCHANGED <<invoice, return, credit, banked, voids>>
  BY <1>q, <1>o DEF CreateDelivery
<1>2. /\ hold[o] = order[o].qty - order[o].delivered
      /\ order[o].delivered <= order[o].qty /\ order[o].qty <= MaxQty
  <2>1. hold[o] = order[o].qty - order[o].delivered
    BY <1>0, <1>1 DEF Owed
  <2>2. order[o].delivered <= order[o].qty
    BY DEF SInv, StockIsAccountedFor
  <2>3. order[o].qty <= MaxQty
    BY <1>0 DEF OrderRow
  <2> QED BY <2>1, <2>2, <2>3
<1>3. q \in 1..MaxQty /\ q <= hold[o]
  BY <1>0, <1>1, <1>2, <1>q DEF Lesser, Outstanding
<1> PICK row : row = [order[o] EXCEPT !.delivered = order[o].delivered + q, !.status = out]
  OBVIOUS
<1>4. order' = [order EXCEPT ![o] = row]
  BY <1>0, <1>1, Types DEF SInv
<1>5. out = IF order[o].delivered + q >= order[o].qty THEN "delivered" ELSE "partially_delivered"
  BY <1>o DEF DeliveryOutcome
<1>6. /\ row.status = out /\ row.qty = order[o].qty /\ row.delivered = order[o].delivered + q
      /\ row \in OrderRow
  <2>1. out \in OrderStatus
    BY <1>5 DEF OrderStatus
  <2>2. order[o].delivered + q \in 0..MaxQty
    BY <1>0, <1>2, <1>3
  <2> QED BY <1>0, <2>1, <2>2 DEF OrderRow
<1>7. GoodOrder(row)
  <2>1. row.qty > 0 /\ row.delivered <= row.qty
    BY <1>0, <1>2, <1>3, <1>6
  <2> QED BY <1>5, <1>6, <2>1 DEF GoodOrder
<1>8. Owed(row) = hold[o] - q
  BY <1>0, <1>2, <1>3, <1>5, <1>6 DEF Owed, Deliverable
<1>9. hold' = [hold EXCEPT ![o] = Owed(row)]
  <2>1. Lesser(q, hold[o]) = q
    BY <1>3 DEF Lesser
  <2> QED BY <1>1, <1>8, <2>1
<1>10. Held + Owed(row) - hold[o] <= onHand - q /\ q \in Nat
  BY <1>0, <1>3, <1>8
<1>11. OrderSteps(o, row, q)
  BY <1>1, <1>4, <1>7, <1>9, <1>10 DEF OrderSteps
<1>12. Notes(o, d, q)
  BY <1>1, <1>3 DEF Notes
<1> QED BY <1>1, <1>6, <1>11, <1>12, DeliveredSInv

\* A note is for some units.
LEMMA NotedQty ==
  ASSUME SalesAssumption, SInv, NEW d \in Note, note[d] # NoNote
  PROVE  note[d].qty \in 1..MaxQty
<1>1. note[d] \in NoteRow /\ note[d].qty > 0
  BY Types DEF SInv, NotesInOrder
<1> QED BY <1>1 DEF NoteRow, SalesAssumption

\* A new invoice in force, of a delivery or of an order, and what is paid at once.
LEMMA NewInvoiceRow ==
  ASSUME SalesAssumption, NEW d \in Note \union {None}, NEW q \in 1..MaxQty
  PROVE  /\ NewInvoice(d, q) \in InvoiceType /\ RowSettled(NewInvoice(d, q))
         /\ NewInvoice(d, q).status = "sent" /\ NewInvoice(d, q).note = d
         /\ NewInvoice(d, q).total = q /\ NewInvoice(d, q).paid = 0 /\ NewInvoice(d, q).credit = 0
<1>1. q \in Nat /\ q > 0 /\ q \in 0..MaxQty
  BY DEF SalesAssumption
<1>2. NewInvoice(d, q) \in InvoiceType
  BY <1>1 DEF NewInvoice, InvoiceType, InvoiceStatus
<1>3. RowSettled(NewInvoice(d, q))
  BY <1>1 DEF NewInvoice, RowSettled, Settled
<1> QED BY <1>2, <1>3 DEF NewInvoice

LEMMA CreateInvoiceSInv ==
  ASSUME SalesAssumption, SInv, NEW i \in Invoice, CreateInvoice(i)
  PROVE  SInv'
<1>1. PICK d \in Note \union {None}, q \in 1..MaxQty :
        /\ invoice' = [invoice EXCEPT ![i] = NewInvoice(d, q)]
        /\ d # None => note[d] # NoNote
  <2>1. CASE \E d \in Note : note[d] # NoNote
                             /\ invoice' = [invoice EXCEPT ![i] = NewInvoice(d, note[d].qty)]
    <3> PICK d \in Note : /\ note[d] # NoNote
                          /\ invoice' = [invoice EXCEPT ![i] = NewInvoice(d, note[d].qty)]
      BY <2>1
    <3>1. note[d].qty \in 1..MaxQty
      BY NotedQty
    <3> QED BY <3>1
  <2>2. CASE \E o \in Order : order[o] # NoOrder
                              /\ invoice' = [invoice EXCEPT ![i] = NewInvoice(None, order[o].qty)]
    <3> PICK o \in Order : /\ order[o] # NoOrder
                           /\ invoice' = [invoice EXCEPT ![i] = NewInvoice(None, order[o].qty)]
      BY <2>2
    <3>1. order[o].qty \in 1..MaxQty
      BY OrderTypes DEF SInv, OrdersInOrder, OrderRow, SalesAssumption
    <3> QED BY <3>1
  <2> QED BY <2>1, <2>2 DEF CreateInvoice
<1>2. /\ invoice[i] = NoInvoice
      /\ UNCHANGED <<order, hold, note, return, credit, banked, onHand, voids>>
  BY DEF CreateInvoice
<1>3. voids[i] = 0 /\ banked[i] = 0
  BY <1>2 DEF SInv, InvoicesInOrder, BankedFollowsInvoice, NoInvoice
<1> PICK v : v = NewInvoice(d, q)
  OBVIOUS
<1>4. /\ v \in InvoiceType /\ RowSettled(v) /\ v.status = "sent" /\ v.note = d
      /\ v.total = q /\ v.paid = 0 /\ v.credit = 0
  BY NewInvoiceRow
<1>5. InvoiceSteps(i, v, 0, voids[i])
  <2>0. v.total > 0 /\ voids[i] \in Nat /\ 0 \in Nat
    BY <1>3, <1>4
  <2>1. banked' = [banked EXCEPT ![i] = 0] /\ voids' = [voids EXCEPT ![i] = voids[i]]
    BY <1>2, <1>3, Types DEF SInv
  <2> QED BY <1>1, <1>2, <1>3, <1>4, <2>0, <2>1 DEF InvoiceSteps
<1>6. v.credit = invoice[i].credit
  BY <1>2, <1>4 DEF NoInvoice
<1> QED BY <1>2, <1>4, <1>5, <1>6, InvoiceOnlySInv

LEMMA RecordPaymentSInv ==
  ASSUME SalesAssumption, SInv, NEW i \in Invoice, NEW amount \in 1..MaxQty, RecordPayment(i, amount)
  PROVE  SInv'
<1>0. /\ invoice \in [Invoice -> InvoiceType] /\ banked \in [Invoice -> Nat]
      /\ voids \in [Invoice -> Nat] /\ amount \in Nat
  BY Types DEF SInv, SalesAssumption
<1>u. PICK u : u = [invoice[i] EXCEPT !.paid = @ + amount]
  OBVIOUS
<1>v. PICK v : v = Resettled(u)
  OBVIOUS
<1>1. /\ invoice[i].status \in Payable
      /\ invoice' = [invoice EXCEPT ![i] = Paid(invoice[i], amount)]
      /\ banked' = [banked EXCEPT ![i] = @ + amount]
      /\ UNCHANGED <<order, hold, note, return, credit, onHand, voids>>
  BY DEF RecordPayment, Settle
<1>2. Paid(invoice[i], amount) = v
  BY <1>u, <1>v DEF Paid
<1>3. /\ u \in InvoiceType /\ u.credit = invoice[i].credit /\ u.total = invoice[i].total
      /\ u.paid = invoice[i].paid + amount /\ u.note = invoice[i].note
  BY <1>0, <1>u DEF InvoiceType
<1>4. invoice[i].status # "none" /\ invoice[i].status # "voided" /\ u.total > 0
  BY <1>1, <1>3 DEF SInv, InvoicesInOrder, Payable
<1>5. /\ RowSettled(v) /\ v \in InvoiceType /\ v.note = u.note /\ v.total = u.total
      /\ v.paid = u.paid /\ v.credit = u.credit /\ v.status \in Voidable
  BY <1>3, <1>4, <1>v, ResettledIsSettled
<1>6. InvoiceSteps(i, v, banked[i] + amount, voids[i])
  <2>1. v.status # "none" /\ v.status # "voided"
    BY <1>5 DEF Voidable
  <2>2. invoice' = [invoice EXCEPT ![i] = v] /\ banked' = [banked EXCEPT ![i] = banked[i] + amount]
        /\ voids' = [voids EXCEPT ![i] = voids[i]]
    BY <1>0, <1>1, <1>2
  <2>3. v.note # None => note'[v.note] # NoNote
    BY <1>1, <1>3, <1>5 DEF SInv, InvoicesInOrder
  <2>4. voids[i] = 0 => banked[i] + amount = v.paid
    BY <1>3, <1>5 DEF SInv, BankedFollowsInvoice
  <2>5. banked[i] + amount \in Nat /\ voids[i] \in Nat
    BY <1>0
  <2> QED BY <1>3, <1>4, <1>5, <2>1, <2>2, <2>3, <2>4, <2>5 DEF InvoiceSteps
<1> QED BY <1>1, <1>3, <1>5, <1>6, InvoiceOnlySInv

\* A new order that is delivered at once, from stock that no order holds.
LEMMA SoldAtOnce ==
  ASSUME SalesAssumption, SInv, NEW o \in Order, NEW q \in 1..MaxQty, NEW row,
         order[o] = NoOrder, Held + q <= onHand, onHand' = onHand - q, UNCHANGED hold,
         row = [status |-> "delivered", qty |-> q, delivered |-> q],
         order' = [order EXCEPT ![o] = row]
  PROVE  OrderSteps(o, row, q) /\ row.delivered = order[o].delivered + q
<1>1. q \in Nat /\ q > 0
  BY DEF SalesAssumption
<1>2. GoodOrder(row) /\ Owed(row) = 0 /\ row.delivered = order[o].delivered + q
  BY <1>1 DEF GoodOrder, OrderRow, OrderStatus, Owed, Deliverable, NoOrder, SalesAssumption
<1>3. hold[o] = 0
  BY OrderTypes DEF NoOrder, Owed, Deliverable
<1>4. hold' = [hold EXCEPT ![o] = Owed(row)]
  BY <1>2, <1>3, Types DEF SInv
<1>5. Held + Owed(row) - hold[o] <= onHand - q
  BY <1>1, <1>2, <1>3, OrderTypes
<1> QED BY <1>1, <1>2, <1>4, <1>5 DEF OrderSteps

LEMMA PosCheckoutSInv ==
  ASSUME SalesAssumption, SInv, NEW o \in Order, NEW d \in Note, NEW i \in Invoice,
         NEW q \in 1..MaxQty, NEW tender \in Nat, PosCheckout(o, d, i, q, tender)
  PROVE  SInv'
<1>0. /\ invoice \in [Invoice -> InvoiceType] /\ banked \in [Invoice -> Nat]
      /\ voids \in [Invoice -> Nat] /\ q \in Nat /\ q > 0
  BY Types DEF SInv, SalesAssumption
<1> PICK row : row = [status |-> "delivered", qty |-> q, delivered |-> q]
  OBVIOUS
<1>1. /\ order[o] = NoOrder /\ note[d] = NoNote /\ invoice[i] = NoInvoice
      /\ onHand - Held >= q /\ onHand' = onHand - q
      /\ order' = [order EXCEPT ![o] = row]
      /\ note' = [note EXCEPT ![d] = [order |-> o, qty |-> q]]
      /\ invoice' = [invoice EXCEPT ![i] = Paid(NewInvoice(d, q), tender)]
      /\ banked' = [banked EXCEPT ![i] = @ + tender]
      /\ UNCHANGED <<hold, return, credit, voids>>
  BY DEF PosCheckout, FreeForTill, Available, Settle
<1>2. Held + q <= onHand
  BY <1>0, <1>1, OrderTypes
<1>3. OrderSteps(o, row, q) /\ row.delivered = order[o].delivered + q /\ Notes(o, d, q)
  BY <1>1, <1>2, SoldAtOnce DEF Notes
<1>w. PICK w : w = NewInvoice(d, q)
  OBVIOUS
<1>u. PICK u : u = [w EXCEPT !.paid = @ + tender]
  OBVIOUS
<1>v. PICK v : v = Resettled(u)
  OBVIOUS
<1>4. Paid(NewInvoice(d, q), tender) = v
  BY <1>w, <1>u, <1>v DEF Paid
<1>5. /\ w \in InvoiceType /\ w.note = d /\ w.total = q /\ w.paid = 0 /\ w.credit = 0
  BY <1>w, NewInvoiceRow
<1>6. /\ u \in InvoiceType /\ u.note = d /\ u.total = q /\ u.paid = tender /\ u.credit = 0
  BY <1>5, <1>u DEF InvoiceType
<1>7. /\ RowSettled(v) /\ v \in InvoiceType /\ v.note = d /\ v.total = q
      /\ v.paid = tender /\ v.credit = 0 /\ v.status \in Voidable
  BY <1>0, <1>6, <1>v, ResettledIsSettled
<1>8. voids[i] = 0 /\ banked[i] = 0
  BY <1>1 DEF SInv, InvoicesInOrder, BankedFollowsInvoice, NoInvoice
<1>9. InvoiceSteps(i, v, tender, 0)
  <2>1. v.status # "none" /\ v.status # "voided"
    BY <1>7 DEF Voidable
  <2>2. invoice' = [invoice EXCEPT ![i] = v] /\ banked' = [banked EXCEPT ![i] = tender]
        /\ voids' = [voids EXCEPT ![i] = 0]
    BY <1>0, <1>1, <1>4, <1>8
  <2>3. note'[d] # NoNote
    BY <1>0, <1>1, Types DEF SInv, NoNote
  <2> QED BY <1>0, <1>7, <2>1, <2>2, <2>3 DEF InvoiceSteps
<1> QED BY <1>1, <1>3, <1>7, <1>9, SoldSInv

LEMMA NextSInv ==
  ASSUME SalesAssumption, SInv, Next
  PROVE  SInv'
<1>1. ASSUME NEW o \in Order, NEW q \in 1..MaxQty, CreateSalesOrder(o, q) PROVE SInv'
  BY <1>1, DraftSInv DEF CreateSalesOrder
<1>2. ASSUME NEW o \in Order, ConfirmSalesOrder(o) PROVE SInv'
  BY <1>2, ConfirmSalesOrderSInv
<1>3. ASSUME NEW o \in Order, CancelSalesOrder(o) PROVE SInv'
  BY <1>3, CancelSalesOrderSInv
<1>4. ASSUME NEW o \in Order, NEW d \in Note, NEW q \in 1..MaxQty, CreateDelivery(o, d, q)
      PROVE  SInv'
  BY <1>4, CreateDeliverySInv
<1>5. ASSUME NEW o \in Order, NEW d \in Note, NEW i \in Invoice, NEW q \in 1..MaxQty,
             NEW tender \in {q} \union 2..MaxQty, PosCheckout(o, d, i, q, tender)
      PROVE  SInv'
  <2>1. tender \in Nat
    BY DEF SalesAssumption
  <2> QED BY <1>5, <2>1, PosCheckoutSInv
<1>6. ASSUME NEW i \in Invoice, CreateInvoice(i) PROVE SInv'
  BY <1>6, CreateInvoiceSInv
<1>7. ASSUME NEW i \in Invoice, NEW amount \in 1..MaxQty, RecordPayment(i, amount) PROVE SInv'
  BY <1>7, RecordPaymentSInv
<1>8. ASSUME NEW i \in Invoice, VoidInvoice(i) PROVE SInv'
  BY <1>8, VoidInvoiceSInv
<1>9. ASSUME NEW i \in Invoice, NEW r \in Return, NEW q \in 1..MaxQty, CreateReturn(r, i, q)
      PROVE  SInv'
  BY <1>9, CreateReturnSInv
<1>10. ASSUME NEW c \in Credit, NEW r \in Return, CreateCreditNote(c, r) PROVE SInv'
  BY <1>10, CreateCreditNoteSInv
<1>11. ASSUME NEW c \in Credit, NEW new \in CreditStatus, CreditNoteTransition(c, new) PROVE SInv'
  BY <1>11, AppliedSInv, NotAppliedSInv
<1> QED BY <1>1, <1>2, <1>3, <1>4, <1>5, <1>6, <1>7, <1>8, <1>9, <1>10, <1>11 DEF Next

LEMMA InitSInv ==
  ASSUME SalesAssumption, Init
  PROVE  SInv
<1>1. TypeOK
  BY DEF Init, SalesAssumption, TypeOK, NoOrder, NoNote, NoInvoice, NoReturn, NoCredit,
         OrderStatus, InvoiceStatus, CreditStatus
<1>2. OrdersInOrder /\ NotesInOrder /\ InvoicesInOrder /\ ReturnsInOrder /\ CreditsInOrder
  BY DEF Init, OrdersInOrder, NotesInOrder, InvoicesInOrder, ReturnsInOrder, CreditsInOrder,
         NoOrder, NoNote, NoInvoice, NoReturn, NoCredit
<1>3. OrdersHoldWhatTheyOwe
  <2>1. Held = 0
    BY SumZero DEF Init, Held, SalesAssumption
  <2> QED BY <2>1 DEF Init, OrdersHoldWhatTheyOwe, Outstanding, Deliverable, NoOrder, SalesAssumption
<1>4. StockIsAccountedFor
  <2>1. (\A d \in Note : Left[d] = 0) /\ (\A i \in Invoice : Undone[i] = 0)
        /\ (\A r \in Return : Back[r] = 0)
    BY DEF Init, Left, Undone, Back, NoNote, NoInvoice, NoReturn
  <2>2. /\ SumFunctionOnSet(Left, Note) = 0 /\ SumFunctionOnSet(Undone, Invoice) = 0
        /\ SumFunctionOnSet(Back, Return) = 0
    BY <2>1, SumZero DEF SalesAssumption
  <2>3. ASSUME NEW o \in Order
        PROVE  SumFunctionOnSet(Left, {d \in Note : note[d].order = o}) = 0
    <3>1. {d \in Note : note[d].order = o} = {}
      BY DEF Init, NoNote, SalesAssumption
    <3> QED BY <3>1, SumEmpty
  <2> QED BY <2>2, <2>3 DEF Init, StockIsAccountedFor, NoOrder, SalesAssumption
<1>5. StatusTellsSettlement
  <2>1. ASSUME NEW i \in Invoice PROVE SumFunctionOnSet(Amounts, Applied(i)) = 0
    <3>1. Applied(i) = {}
      BY DEF Init, Applied, NoCredit
    <3> QED BY <3>1, SumEmpty
  <2> QED BY <2>1 DEF Init, StatusTellsSettlement, NoInvoice, Voidable
<1>6. BankedFollowsInvoice
  BY DEF Init, BankedFollowsInvoice, NoInvoice
<1> QED BY <1>1, <1>2, <1>3, <1>4, <1>5, <1>6 DEF SInv

-----------------------------------------------------------------------------
(* Quotations                                                              *)

\* The status a quotation may be given is one.
LEMMA QuoteMoves ==
  ASSUME NEW q \in Quote, QInv, NEW new, <<quote[q].status, new>> \in QuoteAllowed
  PROVE  /\ new \in QuoteStatus \ {"none", "draft"} /\ quote[q].status # "none"
         /\ quote[q].status = "accepted" => new = "cancelled"
         /\ quote[q].status # "cancelled"
BY DEF QuoteAllowed, QuoteStatus

\* A step of the sales keeps orders that exist for as many units.
LEMMA OrdersKeepQty ==
  ASSUME SInv, SalesAssumption, Next
  PROVE  \A o \in Order : order[o] # NoOrder => order'[o] # NoOrder /\ order'[o].qty = order[o].qty
<1>0. order \in [Order -> OrderRow]
  BY Types DEF SInv
<1>1. ASSUME NEW o \in Order, NEW q \in 1..MaxQty, CreateSalesOrder(o, q)
      PROVE  \A p \in Order : order[p] # NoOrder => order'[p] # NoOrder /\ order'[p].qty = order[p].qty
  BY <1>0, <1>1 DEF CreateSalesOrder
<1>2. ASSUME NEW o \in Order, NEW now, NEW delivered,
             order' = [order EXCEPT ![o].delivered = delivered, ![o].status = now]
             \/ order' = [order EXCEPT ![o].status = now],
             now # "none"
      PROVE  \A p \in Order : order[p] # NoOrder => order'[p] # NoOrder /\ order'[p].qty = order[p].qty
  BY <1>0, <1>2 DEF OrderRow, NoOrder
<1>3. ASSUME NEW o \in Order, ConfirmSalesOrder(o) \/ CancelSalesOrder(o)
      PROVE  \A p \in Order : order[p] # NoOrder => order'[p] # NoOrder /\ order'[p].qty = order[p].qty
  BY <1>2, <1>3 DEF ConfirmSalesOrder, CancelSalesOrder
<1>4. ASSUME NEW o \in Order, NEW d \in Note, NEW wanted \in 1..MaxQty, CreateDelivery(o, d, wanted)
      PROVE  \A p \in Order : order[p] # NoOrder => order'[p] # NoOrder /\ order'[p].qty = order[p].qty
  <2>q. PICK delivered, now :
          /\ delivered = order[o].delivered + Lesser(wanted, Outstanding(o))
          /\ now = DeliveryOutcome(delivered, order[o].qty)
    OBVIOUS
  <2>1. order' = [order EXCEPT ![o].delivered = delivered, ![o].status = now]
    BY <1>4, <2>q DEF CreateDelivery
  <2>2. now # "none"
    BY <2>q DEF DeliveryOutcome
  <2> QED BY <1>2, <2>1, <2>2
<1>5. ASSUME NEW o \in Order, NEW d \in Note, NEW i \in Invoice, NEW q \in 1..MaxQty,
             NEW tender, PosCheckout(o, d, i, q, tender)
      PROVE  \A p \in Order : order[p] # NoOrder => order'[p] # NoOrder /\ order'[p].qty = order[p].qty
  BY <1>0, <1>5 DEF PosCheckout
<1>6. ASSUME UNCHANGED order
      PROVE  \A p \in Order : order[p] # NoOrder => order'[p] # NoOrder /\ order'[p].qty = order[p].qty
  BY <1>6
<1>7. ASSUME NEW i \in Invoice,
             \/ CreateInvoice(i) \/ (\E amount \in 1..MaxQty : RecordPayment(i, amount))
             \/ VoidInvoice(i) \/ (\E r \in Return, q \in 1..MaxQty : CreateReturn(r, i, q))
      PROVE  UNCHANGED order
  BY <1>7 DEF CreateInvoice, RecordPayment, VoidInvoice, CreateReturn
<1>8. ASSUME NEW c \in Credit,
             \/ \E r \in Return : CreateCreditNote(c, r)
             \/ \E new \in CreditStatus : CreditNoteTransition(c, new)
      PROVE  UNCHANGED order
  BY <1>8 DEF CreateCreditNote, CreditNoteTransition
<1> QED BY <1>1, <1>3, <1>4, <1>5, <1>6, <1>7, <1>8 DEF Next

QuotesPart == QuotesInOrder /\ QuotesBindOrders

\* The facts about quotations that the steps use.
LEMMA QuoteTypes ==
  ASSUME QInv, QuoteAssumption
  PROVE  /\ quote \in [Quote -> [status : QuoteStatus, qty : 0..MaxQty]]
         /\ origin \in [Order -> Quote \union {None}]
         /\ \A o \in Order : origin[o] # None =>
              /\ origin[o] \in Quote /\ order[o] # NoOrder
              /\ order[o].qty = quote[origin[o]].qty
              /\ quote[origin[o]].status \in {"accepted", "cancelled"}
BY DEF QInv, QuotesInOrder, QuotesBindOrders

\* Nothing about sales changes.
LEMMA StutterSInv ==
  ASSUME SInv, UNCHANGED vars
  PROVE  SInv'
<1>1. UNCHANGED <<order, hold, note, invoice, banked, return, credit, onHand, voids>>
  BY DEF vars, documents
<1>2. TypeOK'
  BY <1>1 DEF SInv, TypeOK
<1>3. OrdersInOrder' /\ NotesInOrder' /\ InvoicesInOrder' /\ ReturnsInOrder' /\ CreditsInOrder'
  BY <1>1 DEF SInv, OrdersInOrder, NotesInOrder, InvoicesInOrder, ReturnsInOrder,
              CreditsInOrder, NoOrder, NoNote, NoInvoice, NoReturn, NoCredit
<1>4. OrdersHoldWhatTheyOwe'
  <2>1. Held' = Held /\ \A o \in Order : Outstanding(o)' = Outstanding(o)
    BY <1>1 DEF Held, Outstanding
  <2> QED BY <1>1, <2>1 DEF SInv, OrdersHoldWhatTheyOwe
<1>5. StockIsAccountedFor'
  <2>1. Left' = Left /\ Back' = Back /\ Undone' = Undone
    BY <1>1 DEF Left, Back, Undone
  <2> QED BY <1>1, <2>1 DEF SInv, StockIsAccountedFor
<1>6. StatusTellsSettlement'
  <2>1. Amounts' = Amounts /\ \A i \in Invoice : Applied(i)' = Applied(i)
    BY <1>1 DEF Amounts, Applied
  <2> QED BY <1>1, <2>1 DEF SInv, StatusTellsSettlement
<1>7. BankedFollowsInvoice'
  BY <1>1 DEF SInv, BankedFollowsInvoice
<1> QED BY <1>2, <1>3, <1>4, <1>5, <1>6, <1>7 DEF SInv

\* Only a quotation changes, one that no order came from if its quantity does.
LEMMA QuoteOnlyQInv ==
  ASSUME SalesAssumption, QuoteAssumption, QInv, NEW q \in Quote, NEW row,
         quote' = [quote EXCEPT ![q] = row], UNCHANGED <<vars, origin>>,
         row \in [status : QuoteStatus, qty : 0..MaxQty],
         row.status # "none" => row.qty > 0,
         quote[q].status \in {"accepted", "cancelled"} =>
           row.qty = quote[q].qty /\ row.status \in {"accepted", "cancelled"}
  PROVE  QInv'
<1>1. SInv'
  BY StutterSInv DEF QInv
<1>2. order' = order /\ origin' = origin
  BY DEF vars, documents
<1>3. \A p \in Quote : quote'[p] = IF p = q THEN row ELSE quote[p]
  BY QuoteTypes
<1>4. QuotesInOrder'
  <2>1. quote' \in [Quote -> [status : QuoteStatus, qty : 0..MaxQty]]
    BY QuoteTypes
  <2>2. \A p \in Quote : quote'[p].status # "none" => quote'[p].qty > 0
    BY <1>3 DEF QInv, QuotesInOrder
  <2>3. /\ origin \in [Order -> Quote \union {None}]
        /\ \A o \in Order : origin[o] # None => order[o] # NoOrder
    BY DEF QInv, QuotesInOrder
  <2> QED BY <1>2, <2>1, <2>2, <2>3 DEF QuotesInOrder, NoOrder
<1>5. QuotesBindOrders'
  <2>1. ASSUME NEW o \in Order, origin'[o] # None
        PROVE  /\ order'[o].qty = quote'[origin'[o]].qty
               /\ quote'[origin'[o]].status \in {"accepted", "cancelled"}
    BY <1>2, <1>3, <2>1, QuoteTypes
  <2>2. \A p \in Quote : quote'[p].status \in QuoteStatus /\ quote'[p].qty \in 0..MaxQty
    BY <1>3, QuoteTypes
  <2> QED BY <1>2, <2>1, <2>2 DEF QuotesBindOrders
<1> QED BY <1>1, <1>4, <1>5 DEF QInv

LEMMA CreateQuotationQInv ==
  ASSUME SalesAssumption, QuoteAssumption, QInv, NEW q \in Quote, NEW qty \in 1..MaxQty,
         CreateQuotation(q, qty)
  PROVE  QInv'
<1> PICK row : row = [status |-> "draft", qty |-> qty]
  OBVIOUS
<1>1. row \in [status : QuoteStatus, qty : 0..MaxQty] /\ row.qty > 0
  BY DEF QuoteStatus, SalesAssumption
<1>2. /\ quote[q].status = "none" /\ quote' = [quote EXCEPT ![q] = row] /\ UNCHANGED <<vars, origin>>
  BY DEF CreateQuotation
<1> QED BY <1>1, <1>2, QuoteOnlyQInv

LEMMA QuoteTransitionQInv ==
  ASSUME SalesAssumption, QuoteAssumption, QInv, NEW q \in Quote, NEW new \in QuoteStatus,
         QuoteTransition(q, new)
  PROVE  QInv'
<1> PICK row : row = [quote[q] EXCEPT !.status = new]
  OBVIOUS
<1>1. /\ quote' = [quote EXCEPT ![q] = row] /\ UNCHANGED <<vars, origin>>
      /\ <<quote[q].status, new>> \in QuoteAllowed
  BY QuoteTypes DEF QuoteTransition
<1>2. /\ row \in [status : QuoteStatus, qty : 0..MaxQty] /\ row.qty = quote[q].qty
      /\ row.status = new
  BY QuoteTypes
<1>3. /\ quote[q].status # "none" /\ (quote[q].status = "accepted" => new = "cancelled")
      /\ quote[q].status # "cancelled"
  BY <1>1, QuoteMoves
<1>4. quote[q].qty > 0
  BY <1>3 DEF QInv, QuotesInOrder
<1> QED BY <1>1, <1>2, <1>3, <1>4, QuoteOnlyQInv

\* A quotation becomes an order.
LEMMA FromQuoteKeeps ==
  ASSUME SalesAssumption, QuoteAssumption, QInv, NEW q \in Quote, NEW o \in Order, NEW row,
         FromQuote(q, o), order' = [order EXCEPT ![o] = row], row.qty = quote[q].qty,
         row # NoOrder
  PROVE  QuotesPart' /\ quote[q].qty \in 1..MaxQty /\ order[o] = NoOrder
<1>0. order \in [Order -> OrderRow] /\ None \notin Quote
  BY Types DEF QInv, SInv, QuoteAssumption
<1> PICK old : old = [quote[q] EXCEPT !.status = "accepted"]
  OBVIOUS
<1>1. /\ quote[q].status \in {"draft", "sent", "accepted"} /\ order[o] = NoOrder
      /\ quote' = [quote EXCEPT ![q] = old] /\ origin' = [origin EXCEPT ![o] = q]
  BY QuoteTypes DEF FromQuote, Accepted, Convertible
<1>2. /\ old \in [status : QuoteStatus, qty : 0..MaxQty] /\ old.qty = quote[q].qty
      /\ old.status = "accepted"
  BY QuoteTypes DEF QuoteStatus
<1>3. quote[q].qty > 0 /\ quote[q].qty \in 0..MaxQty
  BY <1>1, QuoteTypes DEF QInv, QuotesInOrder
<1>4. /\ \A p \in Quote : quote'[p] = IF p = q THEN old ELSE quote[p]
      /\ \A p \in Order : /\ origin'[p] = IF p = o THEN q ELSE origin[p]
                          /\ order'[p] = IF p = o THEN row ELSE order[p]
  BY <1>0, <1>1, QuoteTypes
<1>5. QuotesInOrder'
  <2>1. quote' \in [Quote -> [status : QuoteStatus, qty : 0..MaxQty]]
        /\ origin' \in [Order -> Quote \union {None}]
    BY <1>1, <1>2, QuoteTypes
  <2>2. \A p \in Quote : quote'[p].status # "none" => quote'[p].qty > 0
    BY <1>2, <1>3, <1>4 DEF QInv, QuotesInOrder
  <2>3. \A p \in Order : origin'[p] # None => order'[p] # NoOrder
    BY <1>4, QuoteTypes
  <2> QED BY <2>1, <2>2, <2>3 DEF QuotesInOrder, NoOrder
<1>6. QuotesBindOrders'
  <2>1. ASSUME NEW p \in Order, origin'[p] # None
        PROVE  /\ order'[p].qty = quote'[origin'[p]].qty
               /\ quote'[origin'[p]].status \in {"accepted", "cancelled"}
    <3>1. CASE p = o
      BY <1>2, <1>4, <3>1
    <3>2. CASE p # o
      <4>1. origin'[p] = origin[p] /\ order'[p] = order[p] /\ origin[p] # None
        BY <1>4, <2>1, <3>2
      <4>2. /\ origin[p] \in Quote /\ order[p].qty = quote[origin[p]].qty
            /\ quote[origin[p]].status \in {"accepted", "cancelled"}
        BY <4>1, QuoteTypes
      <4> QED BY <1>2, <1>4, <4>1, <4>2
    <3> QED BY <3>1, <3>2
  <2>2. \A p \in Quote : quote'[p].status \in QuoteStatus /\ quote'[p].qty \in 0..MaxQty
    BY <1>2, <1>4, QuoteTypes
  <2> QED BY <2>1, <2>2 DEF QuotesBindOrders
<1>7. quote[q].qty \in 1..MaxQty
  BY <1>3 DEF SalesAssumption
<1> QED BY <1>1, <1>5, <1>6, <1>7 DEF QuotesPart

LEMMA ConvertQuotationQInv ==
  ASSUME SalesAssumption, QuoteAssumption, QInv, NEW q \in Quote, NEW o \in Order,
         ConvertQuotation(q, o)
  PROVE  QInv'
<1> PICK qty : qty = quote[q].qty
  OBVIOUS
<1> PICK row : row = [status |-> "draft", qty |-> qty, delivered |-> 0]
  OBVIOUS
<1>1. /\ FromQuote(q, o) /\ order' = [order EXCEPT ![o] = row]
      /\ UNCHANGED <<hold, note, invoice, return, credit, banked, onHand, voids>>
  BY DEF ConvertQuotation
<1>2. row.qty = quote[q].qty /\ row # NoOrder
  BY DEF NoOrder
<1>3. QuotesPart' /\ qty \in 1..MaxQty /\ order[o] = NoOrder
  BY <1>1, <1>2, FromQuoteKeeps
<1>4. SInv'
  BY <1>1, <1>3, DraftSInv DEF QInv
<1> QED BY <1>3, <1>4 DEF QInv, QuotesPart

LEMMA InvoiceQuotationQInv ==
  ASSUME SalesAssumption, QuoteAssumption, QInv, NEW q \in Quote, NEW o \in Order,
         NEW d \in Note, NEW i \in Invoice, InvoiceQuotation(q, o, d, i)
  PROVE  QInv'
<1>q. PICK qty : qty = quote[q].qty
  OBVIOUS
<1> PICK row : row = [status |-> "delivered", qty |-> qty, delivered |-> qty]
  OBVIOUS
<1>v. PICK v : v = NewInvoice(d, qty)
  OBVIOUS
<1>1. /\ FromQuote(q, o) /\ order' = [order EXCEPT ![o] = row]
      /\ note[d] = NoNote /\ invoice[i] = NoInvoice
      /\ onHand - Held >= qty /\ onHand' = onHand - qty
      /\ note' = [note EXCEPT ![d] = [order |-> o, qty |-> qty]]
      /\ invoice' = [invoice EXCEPT ![i] = v]
      /\ UNCHANGED <<hold, return, credit, banked, voids>>
  BY <1>q, <1>v DEF InvoiceQuotation, Available
<1>2. row.qty = quote[q].qty /\ row # NoOrder
  BY <1>q DEF NoOrder
<1>3. QuotesPart' /\ qty \in 1..MaxQty /\ order[o] = NoOrder
  BY <1>1, <1>2, <1>q, FromQuoteKeeps
<1>4. SInv
  BY DEF QInv
<1>5. qty \in Nat /\ qty > 0 /\ Held + qty <= onHand
  <2>1. qty \in Nat /\ qty > 0
    BY <1>3 DEF SalesAssumption
  <2> QED BY <1>1, <1>4, <2>1, OrderTypes
<1>6. OrderSteps(o, row, qty) /\ row.delivered = order[o].delivered + qty /\ Notes(o, d, qty)
  BY <1>1, <1>3, <1>4, <1>5, SoldAtOnce DEF Notes
<1>7. /\ v \in InvoiceType /\ RowSettled(v) /\ v.status = "sent" /\ v.note = d
      /\ v.total = qty /\ v.paid = 0 /\ v.credit = 0
  BY <1>3, <1>v, NewInvoiceRow
<1>8. voids[i] = 0 /\ banked[i] = 0
  BY <1>1, <1>4 DEF SInv, InvoicesInOrder, BankedFollowsInvoice, NoInvoice
<1>9. InvoiceSteps(i, v, 0, 0)
  <2>1. banked' = [banked EXCEPT ![i] = 0] /\ voids' = [voids EXCEPT ![i] = 0]
    BY <1>1, <1>4, <1>8, Types DEF SInv
  <2>2. note'[d] # NoNote
    BY <1>1, <1>4, <1>5, Types DEF SInv, NoNote
  <2> QED BY <1>1, <1>5, <1>7, <2>1, <2>2 DEF InvoiceSteps
<1>10. SInv'
  BY <1>1, <1>4, <1>6, <1>7, <1>9, SoldSInv
<1> QED BY <1>3, <1>10 DEF QInv, QuotesPart

\* A step of the sales alone.
LEMMA SalesStepQInv ==
  ASSUME SalesAssumption, QuoteAssumption, QInv, Next, UNCHANGED quotations
  PROVE  QInv'
<1>1. SInv' /\ quote' = quote /\ origin' = origin
  BY NextSInv DEF QInv, quotations
<1>2. \A o \in Order : order[o] # NoOrder => order'[o] # NoOrder /\ order'[o].qty = order[o].qty
  BY OrdersKeepQty DEF QInv
<1>3. QuotesInOrder'
  BY <1>1, <1>2 DEF QInv, QuotesInOrder, NoOrder
<1>4. QuotesBindOrders'
  BY <1>1, <1>2 DEF QInv, QuotesInOrder, QuotesBindOrders
<1> QED BY <1>1, <1>3, <1>4 DEF QInv

LEMMA StutterQInv ==
  ASSUME QInv, UNCHANGED quoteVars
  PROVE  QInv'
<1>1. UNCHANGED vars /\ UNCHANGED <<order, quote, origin>>
  BY DEF quoteVars, quotations, vars, documents
<1>2. SInv'
  BY <1>1, StutterSInv DEF QInv
<1>3. QuotesInOrder' /\ QuotesBindOrders'
  BY <1>1 DEF QInv, QuotesInOrder, QuotesBindOrders
<1> QED BY <1>2, <1>3 DEF QInv

LEMMA QInvHolds == QuotationsSpec => []QInv
<1>1. QuotationsInit => QInv
  <2> SUFFICES ASSUME QuotationsInit PROVE QInv
    OBVIOUS
  <2>1. SInv
    BY InitSInv, SalesAssumption, QuoteAssumption DEF QuotationsInit
  <2>2. QuotesInOrder /\ QuotesBindOrders
    BY SalesAssumption DEF QuotationsInit, QuotesInOrder, QuotesBindOrders, QuoteStatus, SalesAssumption
  <2> QED BY <2>1, <2>2 DEF QInv
<1>2. QInv /\ [QuotationsNext]_quoteVars => QInv'
  <2> SUFFICES ASSUME QInv, [QuotationsNext]_quoteVars PROVE QInv'
    OBVIOUS
  <2>1. CASE Next /\ UNCHANGED quotations
    BY <2>1, SalesStepQInv, SalesAssumption, QuoteAssumption
  <2>2. ASSUME NEW q \in Quote, NEW qty \in 1..MaxQty, CreateQuotation(q, qty) PROVE QInv'
    BY <2>2, CreateQuotationQInv, SalesAssumption, QuoteAssumption
  <2>3. ASSUME NEW q \in Quote, NEW new \in QuoteStatus, QuoteTransition(q, new) PROVE QInv'
    BY <2>3, QuoteTransitionQInv, SalesAssumption, QuoteAssumption
  <2>4. ASSUME NEW q \in Quote, NEW o \in Order, ConvertQuotation(q, o) PROVE QInv'
    BY <2>4, ConvertQuotationQInv, SalesAssumption, QuoteAssumption
  <2>5. ASSUME NEW q \in Quote, NEW o \in Order, NEW d \in Note, NEW i \in Invoice,
               InvoiceQuotation(q, o, d, i)
        PROVE  QInv'
    BY <2>5, InvoiceQuotationQInv, SalesAssumption, QuoteAssumption
  <2>6. CASE UNCHANGED quoteVars
    BY <2>6, StutterQInv
  <2> QED BY <2>1, <2>2, <2>3, <2>4, <2>5, <2>6 DEF QuotationsNext
<1> QED BY <1>1, <1>2, PTL DEF QuotationsSpec

-----------------------------------------------------------------------------
(* Theorems                                                                *)

\* Sales: every document holds what its columns allow, and stock is never
\* negative: neither the till nor a delivery takes more than there is (sales/service.py,
\* issue_against_reservation).
THEOREM SalesTypes == QuotationsSpec => []TypeOK
<1>1. QInv => TypeOK
  BY DEF QInv, SInv
<1> QED BY <1>1, QInvHolds, PTL

\* Orders: one that can still be delivered holds exactly what it still owes, no other
\* holds stock, and all holds together are in stock (confirm_sales_order,
\* create_delivery, pos_checkout).
THEOREM HoldsAreOwed == QuotationsSpec => []OrdersHoldWhatTheyOwe
<1>1. QInv => OrdersHoldWhatTheyOwe
  BY DEF QInv, SInv
<1> QED BY <1>1, QInvHolds, PTL

\* Stock: it is what there was, less what the delivery notes say, plus what came back by
\* a return or a void; and an order counts as delivered what its notes say, at most
\* what was ordered (create_delivery, void_invoice, create_return).
THEOREM SoldStockIsAccountedFor == QuotationsSpec => []StockIsAccountedFor
<1>1. QInv => StockIsAccountedFor
  BY DEF QInv, SInv
<1> QED BY <1>1, QInvHolds, PTL

\* Settlement: the credit of an invoice is that of its applied credit notes, and the status
\* of one in force tells how much of it is settled (_settle, credit_note_transition).
THEOREM SettlementIsTold == QuotationsSpec => []StatusTellsSettlement
<1>1. QInv => StatusTellsSettlement
  BY DEF QInv, SInv
<1> QED BY <1>1, QInvHolds, PTL

\* Money: finance holds the payments of an invoice that was never voided, and nothing of
\* one that is (post_invoice_payments, void_invoice).
THEOREM MoneyFollowsInvoice == QuotationsSpec => []BankedFollowsInvoice
<1>1. QInv => BankedFollowsInvoice
  BY DEF QInv, SInv
<1> QED BY <1>1, QInvHolds, PTL

\* Quotations: an order that came from one is for what was quoted, and the quotation is
\* accepted, or cancelled since (convert_quotation, quote_transition).
THEOREM QuotesBind == QuotationsSpec => []QuotesBindOrders
<1>1. QInv => QuotesBindOrders
  BY DEF QInv
<1> QED BY <1>1, QInvHolds, PTL

-----------------------------------------------------------------------------
(* How often an invoice is voided                                          *)

\* The credit notes applied to an invoice are finitely many.
LEMMA AppliedCount ==
  ASSUME SalesAssumption, NEW i
  PROVE  IsFiniteSet(Applied(i)) /\ Cardinality(Applied(i)) \in Nat
<1>1. IsFiniteSet(Applied(i))
  BY FS_Subset DEF SalesAssumption, Applied
<1> QED BY <1>1, FS_CardinalityType

\* An applied credit note is of a return, which is not a new one.
LEMMA AppliedReturns ==
  ASSUME SInv, NEW c \in Credit, credit[c].status # "none"
  PROVE  credit[c].return \in Return /\ return[credit[c].return] # NoReturn
<1>1. credit[c].return \in Return \union {None}
  BY Types DEF SInv, CreditRow
<1> QED BY <1>1 DEF SInv, CreditsInOrder

\* What a step must leave alone to keep the count: a credit note once applied counts
\* for the same invoice, and the void is no older than the status it leaves.
LEMMA RevivedStays ==
  ASSUME SalesAssumption, RevivedByCredit, voids' = voids,
         \A i \in Invoice : Applied(i)' = Applied(i),
         \A i \in Invoice : invoice[i].status = "voided" => invoice'[i].status = "voided",
         voids \in [Invoice -> Nat]
  PROVE  RevivedByCredit'
<1> SUFFICES ASSUME NEW i \in Invoice
             PROVE  voids'[i] <= Cardinality(Applied(i)')
                                   + IF invoice'[i].status = "voided" THEN 1 ELSE 0
  BY DEF RevivedByCredit
<1> PICK n : n = Cardinality(Applied(i))
  OBVIOUS
<1>1. n \in Nat /\ Cardinality(Applied(i)') = n
  BY AppliedCount
<1>2. voids[i] <= n + IF invoice[i].status = "voided" THEN 1 ELSE 0
  BY DEF RevivedByCredit
<1>3. voids[i] \in Nat
  OBVIOUS
<1> QED BY <1>1, <1>2, <1>3

\* A step that writes neither returns nor credit notes, and no voided invoice.
LEMMA RevivedApart ==
  ASSUME SalesAssumption, SInv, RevivedByCredit, UNCHANGED <<return, credit, voids>>,
         \A i \in Invoice : invoice[i].status = "voided" => invoice'[i] = invoice[i]
  PROVE  RevivedByCredit'
<1>1. \A i \in Invoice : Applied(i)' = Applied(i)
  BY DEF Applied
<1>2. voids \in [Invoice -> Nat]
  BY Types DEF SInv
<1> QED BY <1>1, <1>2, RevivedStays

LEMMA InvoiceRowRevived ==
  ASSUME SalesAssumption, SInv, RevivedByCredit, UNCHANGED <<return, credit, voids>>,
         NEW i, NEW v, invoice' = [invoice EXCEPT ![i] = v], invoice[i].status # "voided"
  PROVE  RevivedByCredit'
<1>1. invoice \in [Invoice -> InvoiceType]
  BY Types DEF SInv
<1>2. \A j \in Invoice : invoice[j].status = "voided" => invoice'[j] = invoice[j]
  BY <1>1
<1> QED BY <1>2, RevivedApart

LEMMA VoidInvoiceRevived ==
  ASSUME SalesAssumption, SInv, RevivedByCredit, NEW i \in Invoice, VoidInvoice(i)
  PROVE  RevivedByCredit'
<1>1. invoice \in [Invoice -> InvoiceType] /\ voids \in [Invoice -> Nat]
  BY Types DEF SInv
<1>2. /\ invoice[i].status # "voided"
      /\ invoice' = [invoice EXCEPT ![i].status = "voided"]
      /\ voids' = [voids EXCEPT ![i] = @ + 1]
      /\ UNCHANGED <<return, credit>>
  BY DEF VoidInvoice, Voidable
<1> SUFFICES ASSUME NEW j \in Invoice
             PROVE  voids'[j] <= Cardinality(Applied(j)')
                                   + IF invoice'[j].status = "voided" THEN 1 ELSE 0
  BY DEF RevivedByCredit
<1> PICK n : n = Cardinality(Applied(j))
  OBVIOUS
<1>3. n \in Nat /\ Cardinality(Applied(j)') = n
  <2>1. Applied(j)' = Applied(j)
    BY <1>2 DEF Applied
  <2> QED BY <2>1, AppliedCount
<1>4. voids[j] \in Nat /\ voids[j] <= n + IF invoice[j].status = "voided" THEN 1 ELSE 0
  BY <1>1 DEF RevivedByCredit
<1>5. CASE j = i
  <2>1. invoice'[i].status = "voided"
    BY <1>1, <1>2 DEF InvoiceType
  <2>2. voids'[i] = voids[i] + 1
    BY <1>1, <1>2
  <2> QED BY <1>2, <1>3, <1>4, <1>5, <2>1, <2>2
<1>6. CASE j # i
  <2>1. invoice'[j] = invoice[j] /\ voids'[j] = voids[j]
    BY <1>1, <1>2, <1>6
  <2> QED BY <1>3, <1>4, <2>1
<1> QED BY <1>5, <1>6

LEMMA CreateReturnRevived ==
  ASSUME SalesAssumption, SInv, RevivedByCredit, NEW r \in Return, NEW i \in Invoice,
         NEW q, CreateReturn(r, i, q)
  PROVE  RevivedByCredit'
<1>1. return \in [Return -> ReturnRow] /\ voids \in [Invoice -> Nat]
  BY Types DEF SInv
<1>2. /\ return[r] = NoReturn /\ UNCHANGED <<credit, invoice, voids>>
      /\ return' = [return EXCEPT ![r] = [invoice |-> i, qty |-> q, status |-> "received"]]
  BY DEF CreateReturn
<1>3. \A c \in Credit : credit[c].status = "applied" =>
         return'[credit[c].return] = return[credit[c].return]
  BY <1>1, <1>2, AppliedReturns
<1>4. \A j \in Invoice : Applied(j)' = Applied(j)
  BY <1>2, <1>3 DEF Applied
<1> QED BY <1>1, <1>2, <1>4, RevivedStays

LEMMA CreateCreditNoteRevived ==
  ASSUME SalesAssumption, SInv, RevivedByCredit, NEW c \in Credit, NEW r \in Return,
         CreateCreditNote(c, r)
  PROVE  RevivedByCredit'
<1>1. /\ return \in [Return -> ReturnRow] /\ credit \in [Credit -> CreditRow]
      /\ voids \in [Invoice -> Nat]
  BY Types DEF SInv
<1> PICK row : row = [return |-> r, total |-> return[r].qty, status |-> "draft"]
  OBVIOUS
<1>2. /\ credit[c] = NoCredit /\ UNCHANGED <<invoice, voids>>
      /\ credit' = [credit EXCEPT ![c] = row]
      /\ return' = [return EXCEPT ![r].status = "credited"]
  BY DEF CreateCreditNote
<1>3. \A s \in Return : return'[s].invoice = return[s].invoice
  BY <1>1, <1>2 DEF ReturnRow
<1>4. \A d \in Credit : d # c => credit'[d] = credit[d]
  BY <1>1, <1>2
<1>5. credit[c].status # "applied" /\ credit'[c].status # "applied"
  BY <1>1, <1>2 DEF NoCredit
<1>6. ASSUME NEW j \in Invoice PROVE Applied(j)' = Applied(j)
  <2>1. \A d \in Credit : (credit'[d].status = "applied" /\ return'[credit'[d].return].invoice = j)
          <=> (credit[d].status = "applied" /\ return[credit[d].return].invoice = j)
    BY <1>3, <1>4, <1>5, AppliedReturns
  <2> QED BY <2>1 DEF Applied
<1> QED BY <1>1, <1>2, <1>6, RevivedStays

\* An applied credit note may revive the invoice, and is the one that pays for it.
LEMMA CreditAppliedRevived ==
  ASSUME SalesAssumption, SInv, RevivedByCredit, NEW c \in Credit,
         CreditNoteTransition(c, "applied")
  PROVE  RevivedByCredit'
<1>1. /\ invoice \in [Invoice -> InvoiceType] /\ credit \in [Credit -> CreditRow]
      /\ voids \in [Invoice -> Nat]
  BY Types DEF SInv
<1> PICK i : i = return[credit[c].return].invoice
  OBVIOUS
<1>2. /\ credit[c].status = "approved" /\ UNCHANGED <<return, voids>>
      /\ credit' = [credit EXCEPT ![c].status = "applied"]
      /\ invoice' = AppliedTo(i, credit[c].total)
  BY DEF CreditNoteTransition, CreditAllowed
<1>3. \A d \in Credit : /\ credit'[d].return = credit[d].return
                        /\ credit'[d].status = IF d = c THEN "applied" ELSE credit[d].status
  BY <1>1, <1>2 DEF CreditRow
<1> SUFFICES ASSUME NEW j \in Invoice
             PROVE  voids'[j] <= Cardinality(Applied(j)')
                                   + IF invoice'[j].status = "voided" THEN 1 ELSE 0
  BY DEF RevivedByCredit
<1> PICK S, n : S = Applied(j) /\ n = Cardinality(S)
  OBVIOUS
<1>4. IsFiniteSet(S) /\ n \in Nat
  BY AppliedCount
<1>5. voids[j] \in Nat /\ voids[j] <= n + IF invoice[j].status = "voided" THEN 1 ELSE 0
  BY <1>1 DEF RevivedByCredit
<1>6. CASE j = i
  <2>1. Applied(j)' = S \union {c} /\ c \notin S
    BY <1>2, <1>3, <1>6 DEF Applied
  <2>2. Cardinality(Applied(j)') = n + 1
    BY <1>4, <2>1, FS_AddElement
  <2> QED BY <1>2, <1>4, <1>5, <2>2
<1>7. CASE j # i
  <2>1. Applied(j)' = S
    BY <1>2, <1>3, <1>7 DEF Applied
  <2>2. invoice'[j] = invoice[j]
    BY <1>1, <1>2, <1>7 DEF AppliedTo
  <2> PICK m : m = Cardinality(Applied(j)')
    OBVIOUS
  <2>3. m = n
    BY <2>1
  <2>4. voids'[j] = voids[j]
    BY <1>2
  <2>5. voids'[j] <= m + IF invoice'[j].status = "voided" THEN 1 ELSE 0
    BY <1>5, <2>2, <2>3, <2>4
  <2> QED BY <2>5
<1> QED BY <1>6, <1>7

LEMMA CreditNotAppliedRevived ==
  ASSUME SalesAssumption, SInv, RevivedByCredit, NEW c \in Credit, NEW new, new # "applied",
         CreditNoteTransition(c, new)
  PROVE  RevivedByCredit'
<1>1. credit \in [Credit -> CreditRow] /\ voids \in [Invoice -> Nat]
  BY Types DEF SInv
<1>2. /\ credit[c].status # "applied" /\ UNCHANGED <<return, voids, invoice>>
      /\ credit' = [credit EXCEPT ![c].status = new]
  BY DEF CreditNoteTransition, CreditAllowed
<1>3. \A d \in Credit : /\ credit'[d].return = credit[d].return
                        /\ (credit'[d].status = "applied") <=> (credit[d].status = "applied")
  BY <1>1, <1>2 DEF CreditRow
<1>4. \A j \in Invoice : Applied(j)' = Applied(j)
  BY <1>2, <1>3 DEF Applied
<1> QED BY <1>1, <1>2, <1>4, RevivedStays

LEMMA SalesRevived ==
  ASSUME SalesAssumption, SInv, RevivedByCredit, Next
  PROVE  RevivedByCredit'
<1>1. CASE UNCHANGED <<invoice, return, credit, voids>>
  BY <1>1, RevivedApart
<1>2. ASSUME NEW o \in Order, NEW d \in Note, NEW i \in Invoice, NEW q, NEW tender,
             PosCheckout(o, d, i, q, tender)
      PROVE  RevivedByCredit'
  <2>1. invoice[i].status # "voided" /\ UNCHANGED <<return, credit, voids>>
    BY <1>2 DEF PosCheckout, NoInvoice
  <2>2. PICK v : invoice' = [invoice EXCEPT ![i] = v]
    BY <1>2 DEF PosCheckout, Settle
  <2> QED BY <2>1, <2>2, InvoiceRowRevived
<1>3. ASSUME NEW i \in Invoice, CreateInvoice(i) PROVE RevivedByCredit'
  <2>1. invoice[i].status # "voided" /\ UNCHANGED <<return, credit, voids>>
    BY <1>3 DEF CreateInvoice, NoInvoice
  <2>2. PICK v : invoice' = [invoice EXCEPT ![i] = v]
    BY <1>3 DEF CreateInvoice
  <2> QED BY <2>1, <2>2, InvoiceRowRevived
<1>4. ASSUME NEW i \in Invoice, NEW amount, RecordPayment(i, amount) PROVE RevivedByCredit'
  <2>1. invoice[i].status # "voided" /\ UNCHANGED <<return, credit, voids>>
    BY <1>4 DEF RecordPayment, Payable
  <2>2. PICK v : invoice' = [invoice EXCEPT ![i] = v]
    BY <1>4 DEF RecordPayment, Settle
  <2> QED BY <2>1, <2>2, InvoiceRowRevived
<1>5. ASSUME NEW i \in Invoice, VoidInvoice(i) PROVE RevivedByCredit'
  BY <1>5, VoidInvoiceRevived
<1>6. ASSUME NEW i \in Invoice, NEW r \in Return, NEW q, CreateReturn(r, i, q)
      PROVE  RevivedByCredit'
  BY <1>6, CreateReturnRevived
<1>7. ASSUME NEW c \in Credit, NEW r \in Return, CreateCreditNote(c, r) PROVE RevivedByCredit'
  BY <1>7, CreateCreditNoteRevived
<1>8. ASSUME NEW c \in Credit, NEW new, CreditNoteTransition(c, new) PROVE RevivedByCredit'
  BY <1>8, CreditAppliedRevived, CreditNotAppliedRevived
<1>9. ASSUME NEW o \in Order,
             \/ \E q \in 1..MaxQty : CreateSalesOrder(o, q)
             \/ ConfirmSalesOrder(o)
             \/ CancelSalesOrder(o)
             \/ \E d \in Note, q \in 1..MaxQty : CreateDelivery(o, d, q)
      PROVE  UNCHANGED <<invoice, return, credit, voids>>
  BY <1>9 DEF CreateSalesOrder, ConfirmSalesOrder, CancelSalesOrder, CreateDelivery
<1> QED BY <1>1, <1>2, <1>3, <1>4, <1>5, <1>6, <1>7, <1>8, <1>9 DEF Next

LEMMA InitRevived ==
  ASSUME SalesAssumption, Init
  PROVE  RevivedByCredit
<1> SUFFICES ASSUME NEW i \in Invoice
             PROVE  voids[i] <= Cardinality(Applied(i))
                                  + IF invoice[i].status = "voided" THEN 1 ELSE 0
  BY DEF RevivedByCredit
<1>1. voids[i] = 0 /\ invoice[i].status # "voided"
  BY DEF Init, NoInvoice
<1> QED BY <1>1, AppliedCount

\* Voids: every void of an invoice but the first, and with it every restock but the first,
\* needed a credit note applied to the voided invoice in between; without one an invoice
\* is voided once (void_invoice, credit_note_transition).
THEOREM OnlyCreditRevives == QuotationsSpec => []RevivedByCredit
<1>1. QuotationsInit => RevivedByCredit
  BY InitRevived, SalesAssumption DEF QuotationsInit
<1>2. QInv /\ RevivedByCredit /\ [QuotationsNext]_quoteVars => RevivedByCredit'
  <2> SUFFICES ASSUME QInv, RevivedByCredit, [QuotationsNext]_quoteVars PROVE RevivedByCredit'
    OBVIOUS
  <2>0. SInv
    BY DEF QInv
  <2>1. CASE Next
    BY <2>0, <2>1, SalesRevived, SalesAssumption
  <2>2. CASE UNCHANGED <<invoice, return, credit, voids>>
    BY <2>0, <2>2, RevivedApart, SalesAssumption
  <2>3. ASSUME NEW q \in Quote, NEW o \in Order, NEW d \in Note, NEW i \in Invoice,
               InvoiceQuotation(q, o, d, i)
        PROVE  RevivedByCredit'
    <3>1. invoice[i].status # "voided" /\ UNCHANGED <<return, credit, voids>>
      BY <2>3 DEF InvoiceQuotation, NoInvoice
    <3>2. PICK v : invoice' = [invoice EXCEPT ![i] = v]
      BY <2>3 DEF InvoiceQuotation
    <3> QED BY <2>0, <3>1, <3>2, InvoiceRowRevived, SalesAssumption
  <2>4. ASSUME NEW q \in Quote,
               \/ \E qty \in 1..MaxQty : CreateQuotation(q, qty)
               \/ \E new \in QuoteStatus : QuoteTransition(q, new)
               \/ \E o \in Order : ConvertQuotation(q, o)
        PROVE  UNCHANGED <<invoice, return, credit, voids>>
    BY <2>4 DEF CreateQuotation, QuoteTransition, ConvertQuotation, vars, documents
  <2>5. ASSUME UNCHANGED quoteVars PROVE UNCHANGED <<invoice, return, credit, voids>>
    BY <2>5 DEF quoteVars, vars, documents
  <2> QED BY <2>1, <2>2, <2>3, <2>4, <2>5 DEF QuotationsNext
<1> QED BY <1>1, <1>2, QInvHolds, PTL DEF QuotationsSpec

(* Rounding                                                                *)

LEMMA RoundBounds ==
  ASSUME NEW n \in Nat, NEW d \in Nat \ {0}
  PROVE  /\ Round(n, d) \in Nat
         /\ 2 * (d * Round(n, d)) <= 2 * n + d
         /\ 2 * n < 2 * (d * Round(n, d)) + d
<1> DEFINE q == Round(n, d)
<1>1. PICK a \in Nat, b \in Nat \ {0} : a = 2 * n + d /\ b = 2 * d
  OBVIOUS
<1>2. q = a \div b
  BY <1>1 DEF Round
<1>3. a \div b \in Nat /\ b * (a \div b) <= a /\ a < b * (a \div b) + b
  BY SMT
<1> HIDE DEF q
<1>4. q \in Nat /\ b * q <= a /\ a < b * q + b
  BY <1>2, <1>3
<1>5. b * q = 2 * (d * q)
  BY <1>1, <1>4, SMT
<1>6. d * q \in Nat
  BY <1>4, SMT
<1>7. 2 * (d * q) <= 2 * n + d /\ 2 * n < 2 * (d * q) + d
  BY <1>1, <1>4, <1>5, <1>6
<1> QED BY <1>4, <1>7 DEF q

LEMMA Smaller ==
  ASSUME NEW d \in Nat \ {0}, NEW x \in Int, NEW y \in Int, d * x < d * y
  PROVE  x < y
BY SMT

LEMMA NotLarger ==
  ASSUME NEW d \in Nat, NEW x \in Int, NEW y \in Int, x <= y
  PROVE  d * x <= d * y
BY SMT

\* Rounding respects the order.
LEMMA RoundMonotone ==
  ASSUME NEW m \in Nat, NEW n \in Nat, m <= n, NEW d \in Nat \ {0}
  PROVE  Round(m, d) <= Round(n, d)
<1> PICK x \in Nat, y \in Nat : x = Round(m, d) /\ y = Round(n, d)
  BY RoundBounds
<1>1. 2 * (d * x) <= 2 * m + d /\ 2 * n < 2 * (d * y) + d
  BY RoundBounds
<1>2. d * x \in Int /\ d * y \in Int /\ d * (y + 1) = d * y + d
  BY SMT
<1>3. d * x < d * (y + 1)
  BY <1>1, <1>2
<1>4. x < y + 1
  BY <1>3, Smaller
<1> QED BY <1>4

\* A common factor cancels.
LEMMA RoundCancels ==
  ASSUME NEW n \in Nat, NEW d \in Nat \ {0}, NEW k \in Nat \ {0}
  PROVE  Round(n * k, d * k) = Round(n, d)
<1>0. n * k \in Nat /\ d * k \in Nat \ {0}
  BY SMT
<1> PICK x \in Nat, y \in Nat : x = Round(n * k, d * k) /\ y = Round(n, d)
  BY <1>0, RoundBounds
<1>1. 2 * ((d * k) * x) <= 2 * (n * k) + d * k /\ 2 * (n * k) < 2 * ((d * k) * x) + d * k
  BY <1>0, RoundBounds
<1>2. 2 * (d * y) <= 2 * n + d /\ 2 * n < 2 * (d * y) + d
  BY RoundBounds
<1>3. k * (2 * (d * x)) = 2 * ((d * k) * x) /\ k * (2 * n + d) = 2 * (n * k) + d * k
  BY SMT
<1>4. k * (2 * (d * x) + d) = 2 * ((d * k) * x) + d * k /\ k * (2 * n) = 2 * (n * k)
  BY SMT
<1>5. d * x \in Int /\ d * y \in Int /\ d * (y + 1) = d * y + d /\ d * (x + 1) = d * x + d
  BY SMT
<1>6. ~(2 * n + d < 2 * (d * x))
  <2>1. ASSUME 2 * n + d < 2 * (d * x) PROVE FALSE
    <3>1. k * (2 * n + d) < k * (2 * (d * x))
      BY <2>1, <1>5, SMT
    <3> QED BY <3>1, <1>0, <1>1, <1>3, SMT
  <2> QED BY <2>1
<1>7. 2 * n < 2 * (d * x) + d
  BY <1>1, <1>4, <1>5, Smaller
<1>8. d * x < d * (y + 1) /\ d * y < d * (x + 1)
  BY <1>2, <1>5, <1>6, <1>7
<1>9. x < y + 1 /\ y < x + 1
  BY <1>8, Smaller
<1> QED BY <1>9

LEMMA WithinOne ==
  ASSUME NEW x \in Nat, NEW y \in Nat, NEW z \in Nat, x + y < z + 2, z < x + y + 2
  PROVE  x + y - z \in {-1, 0, 1}
<1>1. x + y - z = -1 \/ x + y - z = 0 \/ x + y - z = 1
  OBVIOUS
<1> QED BY <1>1

\* Rounding two amounts and their sum: the parts miss the whole by at most one.
LEMMA RoundSplits ==
  ASSUME NEW a \in Nat, NEW b \in Nat, NEW d \in Nat \ {0}
  PROVE  Round(a, d) + Round(b, d) - Round(a + b, d) \in {-1, 0, 1}
<1>0. a + b \in Nat
  OBVIOUS
<1> PICK x \in Nat, y \in Nat, z \in Nat :
      x = Round(a, d) /\ y = Round(b, d) /\ z = Round(a + b, d)
  BY <1>0, RoundBounds
<1>1. 2 * (d * x) <= 2 * a + d /\ 2 * a < 2 * (d * x) + d
  BY RoundBounds
<1>2. 2 * (d * y) <= 2 * b + d /\ 2 * b < 2 * (d * y) + d
  BY RoundBounds
<1>3. 2 * (d * z) <= 2 * (a + b) + d /\ 2 * (a + b) < 2 * (d * z) + d
  BY <1>0, RoundBounds
<1>4. d * x \in Int /\ d * y \in Int /\ d * z \in Int
      /\ d * (x + y) = d * x + d * y /\ d * (z + 2) = d * z + 2 * d
      /\ d * (x + y + 2) = d * x + d * y + 2 * d
  BY SMT
<1>5. d * (x + y) < d * (z + 2)
  BY <1>1, <1>2, <1>3, <1>4
<1>6. d * z < d * (x + y + 2)
  BY <1>1, <1>2, <1>3, <1>4
<1>7. x + y < z + 2
  BY <1>5, Smaller
<1>8. z < x + y + 2
  BY <1>6, Smaller
<1>9. x + y - z \in {-1, 0, 1}
  BY <1>7, <1>8, WithinOne
<1> QED BY <1>9

-----------------------------------------------------------------------------
(* One line                                                                *)

LEMMA LineFields ==
  ASSUME NEW l \in Line
  PROVE  /\ l.qty \in Nat /\ l.price \in Nat /\ l.rate \in Nat /\ l.discount \in 0..Whole
         /\ Whole - l.discount \in Nat
<1>1. l.qty \in Nat /\ l.price \in Nat /\ l.rate \in Nat /\ l.discount \in 0..Whole
  BY DEF Line
<1>2. Whole \in Nat
  BY SMT DEF Whole
<1>3. Whole - l.discount \in Nat
  BY <1>1, <1>2, SMT
<1> QED BY <1>1, <1>3

LEMMA LineTypes ==
  ASSUME NEW l \in Line
  PROVE  /\ Taxable(l) \in Nat /\ Divisor(l) \in Nat \ {0} /\ l.rate \in Nat
         /\ Taxable(l) * Whole \in Nat /\ Taxable(l) * l.rate \in Nat
         /\ Taxable(l) * (Whole + l.rate) = Taxable(l) * Whole + Taxable(l) * l.rate
<1>1. l.qty \in Nat /\ l.price \in Nat /\ l.rate \in Nat /\ Whole - l.discount \in Nat
  BY LineFields
<1>2. Base(l) \in Nat
  BY <1>1, SMT DEF Base
<1>3. Taxable(l) \in Nat
  BY <1>1, <1>2, SMT DEF Taxable
<1>4. Divisor(l) \in Nat \ {0}
  <2>1. (Whole + l.rate) \in Nat \ {0} /\ Whole \in Nat \ {0} /\ Unit \in Nat \ {0}
    BY <1>1, SMT DEF Whole, Unit
  <2>2. \A m \in Nat \ {0}, n \in Nat \ {0} : m * n \in Nat \ {0}
    BY SMT
  <2> QED BY <2>1, <2>2 DEF Divisor
<1> PICK x \in Nat, r \in Nat : x = Taxable(l) /\ r = l.rate
  BY <1>1, <1>3
<1>5. x * Whole \in Nat /\ x * r \in Nat /\ x * (Whole + r) = x * Whole + x * r
  BY SMT DEF Whole
<1> QED BY <1>1, <1>3, <1>4, <1>5

\* The net and the VAT of a line miss what it charges by at most one
\* ten-thousandth, whatever its treatment, and neither is more than it
\* (line_amounts rounds each of the three on its own).
THEOREM NetAndVatAddUp ==
  \A l \in Line :
    /\ LineAmounts(l).net + LineAmounts(l).vat - LineAmounts(l).total \in {-1, 0, 1}
    /\ LineAmounts(l).net <= LineAmounts(l).total
    /\ LineAmounts(l).vat <= LineAmounts(l).total
<1> SUFFICES ASSUME NEW l \in Line
             PROVE  /\ LineAmounts(l).net + LineAmounts(l).vat - LineAmounts(l).total \in {-1, 0, 1}
                    /\ LineAmounts(l).net <= LineAmounts(l).total
                    /\ LineAmounts(l).vat <= LineAmounts(l).total
  OBVIOUS
<1> PICK a \in Nat, b \in Nat, d \in Nat \ {0} :
      a = Taxable(l) * Whole /\ b = Taxable(l) * l.rate /\ d = Divisor(l)
  BY LineTypes
<1>1. Taxable(l) * (Whole + l.rate) = a + b
  BY LineTypes
<1>2. /\ LineAmounts(l).net = Round(a, d)
      /\ LineAmounts(l).vat = Round(b, d)
      /\ LineAmounts(l).total = Round(a + b, d)
  BY <1>1 DEF LineAmounts
<1>3. a + b \in Nat /\ a <= a + b /\ b <= a + b
  OBVIOUS
<1> QED BY <1>2, <1>3, RoundSplits, RoundMonotone

\* A customer pays the discounted price of an inclusive line at any VAT rate: the
\* rate decides only how much of it is VAT (the tax is extracted, never added).
THEOREM InclusivePriceIsPaid ==
  \A l \in Line : l.treatment = "inclusive" => LineAmounts(l).total = Round(Taxable(l), Unit)
<1> SUFFICES ASSUME NEW l \in Line, l.treatment = "inclusive"
             PROVE  LineAmounts(l).total = Round(Taxable(l), Unit)
  OBVIOUS
<1>1. Taxable(l) \in Nat /\ Unit \in Nat \ {0} /\ Whole + l.rate \in Nat \ {0}
  BY LineTypes, SMT DEF Unit, Whole
<1>2. Divisor(l) = Unit * (Whole + l.rate)
  BY DEF Divisor
<1>3. LineAmounts(l).total = Round(Taxable(l) * (Whole + l.rate), Unit * (Whole + l.rate))
  BY <1>2 DEF LineAmounts
<1> QED BY <1>1, <1>3, RoundCancels

\* The same line at a larger discount never charges more, and never contains more
\* net or more VAT.
THEOREM DiscountNeverCosts ==
  \A k \in Line, l \in Line :
    /\ k.qty = l.qty /\ k.price = l.price /\ k.rate = l.rate /\ k.treatment = l.treatment
    /\ k.discount <= l.discount
    => \A name \in {"net", "vat", "total"} : LineAmounts(l)[name] <= LineAmounts(k)[name]
<1> SUFFICES ASSUME NEW k \in Line, NEW l \in Line,
                    k.qty = l.qty, k.price = l.price, k.rate = l.rate, k.treatment = l.treatment,
                    k.discount <= l.discount
             PROVE  /\ LineAmounts(l).net <= LineAmounts(k).net
                    /\ LineAmounts(l).vat <= LineAmounts(k).vat
                    /\ LineAmounts(l).total <= LineAmounts(k).total
  OBVIOUS
<1>1. Divisor(k) = Divisor(l) /\ Base(k) = Base(l)
  BY DEF Divisor, Base
<1>2. Base(l) \in Nat
  <2>1. l.qty \in Nat /\ l.price \in Nat
    BY DEF Line
  <2> QED BY <2>1, SMT DEF Base
<1>3. Whole - l.discount \in Int /\ Whole - k.discount \in Int
      /\ Whole - l.discount <= Whole - k.discount
  <2> PICK w \in Nat : w = Whole
    BY SMT DEF Whole
  <2> PICK x \in Nat, y \in Nat : x = l.discount /\ y = k.discount
    BY LineFields
  <2>1. w - x \in Int /\ w - y \in Int /\ (x >= y => w - x <= w - y)
    OBVIOUS
  <2> QED BY <2>1
<1>4. Taxable(l) <= Taxable(k)
  BY <1>1, <1>2, <1>3, NotLarger DEF Taxable
<1> PICK x \in Nat, y \in Nat, r \in Nat : x = Taxable(l) /\ y = Taxable(k) /\ r = l.rate
  BY LineTypes
<1>5. Whole \in Nat /\ Whole + r \in Nat
  BY SMT DEF Whole
<1>6. \A w \in Nat : x * w \in Nat /\ y * w \in Nat /\ x * w <= y * w
  <2>1. x <= y
    BY <1>4
  <2> QED BY <2>1, SMT
<1>7. Divisor(l) \in Nat \ {0}
  BY LineTypes
<1>8. \A w \in Nat : Round(x * w, Divisor(l)) <= Round(y * w, Divisor(l))
  BY <1>6, <1>7, RoundMonotone
<1> QED BY <1>1, <1>5, <1>8 DEF LineAmounts

-----------------------------------------------------------------------------
(* Documents                                                               *)

LEMMA AmountTypes ==
  ASSUME NEW l \in Line
  PROVE  LineAmounts(l).net \in Nat /\ LineAmounts(l).vat \in Nat /\ LineAmounts(l).total \in Nat
<1> PICK a \in Nat, b \in Nat, d \in Nat \ {0} :
      a = Taxable(l) * Whole /\ b = Taxable(l) * l.rate /\ d = Divisor(l)
  BY LineTypes
<1>1. Taxable(l) * (Whole + l.rate) = a + b
  BY LineTypes
<1>2. /\ LineAmounts(l).net = Round(a, d)
      /\ LineAmounts(l).vat = Round(b, d)
      /\ LineAmounts(l).total = Round(a + b, d)
  BY <1>1 DEF LineAmounts
<1>3. a + b \in Nat
  OBVIOUS
<1> QED BY <1>2, <1>3, RoundBounds

\* The net and the VAT of a document miss its grand total by at most one
\* ten-thousandth for each line, whatever the mix of treatments and rates
\* (document_totals adds the rounded lines, column by column).
THEOREM DocumentAddsUp ==
  \A lines \in Seq(Line) :
    LET totals == DocumentTotals(lines)
    IN  /\ totals.net + totals.vat - totals.total <= Len(lines)
        /\ totals.total - (totals.net + totals.vat) <= Len(lines)
<1> SUFFICES ASSUME NEW lines \in Seq(Line), NEW n \in Nat, n = Len(lines)
             PROVE  LET totals == DocumentTotals(lines)
                    IN  /\ totals.net + totals.vat - totals.total <= n
                        /\ totals.total - (totals.net + totals.vat) <= n
  OBVIOUS
<1>g. PICK net, vat, total, both :
        /\ net = Column(lines, "net") /\ vat = Column(lines, "vat")
        /\ total = Column(lines, "total") /\ both = [i \in 1..n |-> net[i] + vat[i]]
  OBVIOUS
<1>1. \A i \in 1..n : lines[i] \in Line
  OBVIOUS
<1>2. \A i \in 1..n : /\ net[i] = LineAmounts(lines[i]).net
                      /\ vat[i] = LineAmounts(lines[i]).vat
                      /\ total[i] = LineAmounts(lines[i]).total
  BY <1>g DEF Column
<1>3. \A i \in 1..n : net[i] \in Int /\ vat[i] \in Int /\ total[i] \in Int
  BY <1>1, <1>2, AmountTypes
<1>4. \A i \in 1..n : both[i] = net[i] + vat[i]
  BY <1>g
<1>5. \A i \in 1..n : both[i] \in Int /\ both[i] - total[i] <= 1 /\ total[i] - both[i] <= 1
  <2> SUFFICES ASSUME NEW i \in 1..n
               PROVE  both[i] \in Int /\ both[i] - total[i] <= 1 /\ total[i] - both[i] <= 1
    OBVIOUS
  <2>1. net[i] + vat[i] - total[i] \in {-1, 0, 1}
    BY <1>1, <1>2, NetAndVatAddUp
  <2>2. PICK x \in Int, y \in Int, z \in Int : x = net[i] /\ y = vat[i] /\ z = total[i]
    BY <1>3
  <2>3. x + y - z \in {-1, 0, 1} /\ both[i] = x + y
    BY <1>4, <2>1, <2>2
  <2>4. x + y - z <= 1 /\ z - (x + y) <= 1
    <3>1. x + y - z = -1 \/ x + y - z = 0 \/ x + y - z = 1
      BY <2>3
    <3> QED BY <3>1
  <2>5. PICK w \in Int : w = both[i] /\ w = x + y
    BY <2>3
  <2>6. w - z <= 1 /\ z - w <= 1
    BY <2>4, <2>5
  <2> QED BY <2>2, <2>5, <2>6
<1>6. IsFiniteSet(1..n)
  BY FS_Interval
<1>7. SumFunctionOnSet(both, 1..n) = SumFunctionOnSet(net, 1..n) + SumFunctionOnSet(vat, 1..n)
  <2>1. PICK T : T = 1..n
    OBVIOUS
  <2>2. IsFiniteSet(T) /\ \A i \in T : net[i] \in Int /\ vat[i] \in Int /\ both[i] = net[i] + vat[i]
    BY <1>3, <1>4, <1>6, <2>1
  <2>3. SumFunctionOnSet(both, T) = SumFunctionOnSet(net, T) + SumFunctionOnSet(vat, T)
    BY <2>2, SumPlus
  <2> QED BY <2>1, <2>3
<1>8. /\ SumFunctionOnSet(both, 1..n) - SumFunctionOnSet(total, 1..n) <= n * 1
      /\ SumFunctionOnSet(total, 1..n) - SumFunctionOnSet(both, 1..n) <= n * 1
  BY <1>3, <1>5, SumsWithin
<1>9. Len(net) = n /\ Len(vat) = n /\ Len(total) = n
  BY <1>g DEF Column
<1>10. /\ DocumentTotals(lines).net = SumFunctionOnSet(net, 1..n)
       /\ DocumentTotals(lines).vat = SumFunctionOnSet(vat, 1..n)
       /\ DocumentTotals(lines).total = SumFunctionOnSet(total, 1..n)
  BY <1>g, <1>9 DEF DocumentTotals, Total
<1>11. PICK a \in Int, b \in Int, c \in Int :
         /\ a = SumFunctionOnSet(net, 1..n) /\ b = SumFunctionOnSet(vat, 1..n)
         /\ c = SumFunctionOnSet(total, 1..n)
  BY <1>3, <1>6, SumType
<1>12. n * 1 = n
  OBVIOUS
<1>13. (a + b) - c <= n /\ c - (a + b) <= n
  BY <1>7, <1>8, <1>11, <1>12
<1> QED BY <1>10, <1>11, <1>13

\* Amounts rounded one by one: the sum misses the exact one by half for each.
LEMMA RoundedSum ==
  ASSUME NEW n \in Nat, NEW d \in Nat \ {0}, NEW fx \in Nat, NEW f, NEW z,
         \A i \in 1..n : f[i] \in Nat /\ z[i] = Round(f[i] * fx, d)
  PROVE  /\ SumFunctionOnSet(z, 1..n) \in Nat /\ SumFunctionOnSet(f, 1..n) \in Nat
         /\ 2 * (d * SumFunctionOnSet(z, 1..n)) - 2 * (SumFunctionOnSet(f, 1..n) * fx) <= n * d
         /\ 2 * (SumFunctionOnSet(f, 1..n) * fx) - 2 * (d * SumFunctionOnSet(z, 1..n)) <= n * d
<1>0. \A a \in Nat : a * fx \in Nat
  BY SMT
<1>1. \A i \in 1..n : z[i] \in Nat
  BY <1>0, RoundBounds
<1>2. SumFunctionOnSet(z, 1..n) \in Nat /\ SumFunctionOnSet(f, 1..n) \in Nat
  <2>1. IsFiniteSet(1..n)
    BY FS_Interval
  <2> QED BY <1>1, <2>1, SumNat
<1>c. PICK c \in Nat, e \in Nat : c = 2 * d /\ e = 2 * fx
  OBVIOUS
<1>g. PICK g, h : g = [i \in 1..n |-> c * z[i]] /\ h = [i \in 1..n |-> e * f[i]]
  OBVIOUS
<1>3. Multiples(g, c, z, n) /\ \A i \in 1..n : g[i] = c * z[i]
  BY <1>1, <1>g DEF Multiples
<1>4. Multiples(h, e, f, n) /\ \A i \in 1..n : h[i] = e * f[i]
  BY <1>g DEF Multiples
<1>5. SumFunctionOnSet(g, 1..n) = c * SumFunctionOnSet(z, 1..n)
  BY <1>3, SumTimes
<1>6. SumFunctionOnSet(h, 1..n) = e * SumFunctionOnSet(f, 1..n)
  BY <1>4, SumTimes
<1>7. \A i \in 1..n : g[i] \in Int /\ h[i] \in Int /\ g[i] - h[i] <= d /\ h[i] - g[i] <= d
  <2> SUFFICES ASSUME NEW i \in 1..n
               PROVE  g[i] \in Int /\ h[i] \in Int /\ g[i] - h[i] <= d /\ h[i] - g[i] <= d
    OBVIOUS
  <2>1. PICK a \in Nat, y \in Nat : a = f[i] /\ y = z[i]
    BY <1>1
  <2>2. a * fx \in Nat
    BY <1>0
  <2>3. y = Round(a * fx, d)
    BY <2>1
  <2>4. 2 * (d * y) <= 2 * (a * fx) + d /\ 2 * (a * fx) < 2 * (d * y) + d
    BY <2>2, <2>3, RoundBounds
  <2>5. (2 * d) * y = 2 * (d * y) /\ (2 * fx) * a = 2 * (a * fx) /\ d * y \in Nat
    BY SMT
  <2>6. g[i] = 2 * (d * y) /\ h[i] = 2 * (a * fx)
    BY <1>c, <1>3, <1>4, <2>1, <2>5
  <2> QED BY <2>2, <2>4, <2>5, <2>6
<1>8. /\ SumFunctionOnSet(g, 1..n) - SumFunctionOnSet(h, 1..n) <= n * d
      /\ SumFunctionOnSet(h, 1..n) - SumFunctionOnSet(g, 1..n) <= n * d
  BY <1>7, SumsWithin
<1>9. PICK x \in Nat, s \in Nat : x = SumFunctionOnSet(z, 1..n) /\ s = SumFunctionOnSet(f, 1..n)
  BY <1>2
<1>10. (2 * d) * x = 2 * (d * x) /\ (2 * fx) * s = 2 * (s * fx)
  BY SMT
<1> QED BY <1>c, <1>2, <1>5, <1>6, <1>8, <1>9, <1>10

\* What an invoice that is credited in full is left with: its lines were converted
\* one by one and its credit is converted once, so that up to half an ngwee for
\* each line stays owed or overpaid (_freeze_line_zmw, _credit_zmw).
THEOREM FullCreditResidue ==
  \A amounts \in Seq(Nat), fx \in Nat :
    LET left == BalanceZmw(FreezeLineZmw(amounts, fx), 0, Total(amounts), fx)
    IN  2 * left <= Len(amounts) + 1 /\ -(2 * left) <= Len(amounts) + 1
<1> SUFFICES ASSUME NEW amounts \in Seq(Nat), NEW fx \in Nat, NEW n \in Nat, n = Len(amounts)
             PROVE  LET left == BalanceZmw(FreezeLineZmw(amounts, fx), 0, Total(amounts), fx)
                    IN  2 * left <= n + 1 /\ -(2 * left) <= n + 1
  OBVIOUS
<1>d. PICK d \in Nat \ {0} : d = Ngwee
  BY SMT DEF Ngwee, Whole
<1>g. PICK z : z = LinesZmw(amounts, fx)
  OBVIOUS
<1>1. \A i \in 1..n : amounts[i] \in Nat
  OBVIOUS
<1>2. Len(z) = n /\ \A i \in 1..n : z[i] = Round(amounts[i] * fx, d)
  BY <1>d, <1>g DEF LinesZmw, ToZmw
<1>9. PICK billed \in Nat, sum \in Nat :
        billed = SumFunctionOnSet(z, 1..n) /\ sum = SumFunctionOnSet(amounts, 1..n)
  BY <1>1, <1>2, RoundedSum
<1>10. sum * fx \in Nat
  BY SMT
<1>11. PICK credited \in Nat : credited = Round(sum * fx, d)
  BY <1>10, RoundBounds
<1>12. 2 * (d * credited) <= 2 * (sum * fx) + d /\ 2 * (sum * fx) < 2 * (d * credited) + d
  BY <1>10, <1>11, RoundBounds
<1>13. d * billed \in Nat /\ d * credited \in Nat /\ n * d \in Nat
  BY SMT
<1>14. /\ 2 * (d * billed) - 2 * (sum * fx) <= n * d
       /\ 2 * (sum * fx) - 2 * (d * billed) <= n * d
  BY <1>1, <1>2, <1>9, RoundedSum
<1>15. /\ 2 * (d * billed) - 2 * (d * credited) <= n * d + d
       /\ 2 * (d * credited) - 2 * (d * billed) <= n * d + d
  <2>1. PICK x \in Nat, y \in Nat, w \in Nat, m \in Nat :
          x = d * billed /\ y = sum * fx /\ w = d * credited /\ m = n * d
    BY <1>10, <1>13
  <2>2. 2 * w <= 2 * y + d /\ 2 * y < 2 * w + d /\ 2 * x - 2 * y <= m /\ 2 * y - 2 * x <= m
    BY <1>12, <1>14, <2>1
  <2>3. 2 * x - 2 * w <= m + d /\ 2 * w - 2 * x <= m + d
    BY <2>2
  <2> QED BY <2>1, <2>3
<1>16. /\ d * (2 * (billed - credited)) = 2 * (d * billed) - 2 * (d * credited)
       /\ d * (-(2 * (billed - credited))) = 2 * (d * credited) - 2 * (d * billed)
       /\ d * (n + 2) = n * d + d + d
  BY SMT
<1>17. /\ d * (2 * (billed - credited)) < d * (n + 2)
       /\ d * (-(2 * (billed - credited))) < d * (n + 2)
  BY <1>13, <1>15, <1>16
<1>18. 2 * (billed - credited) < n + 2 /\ -(2 * (billed - credited)) < n + 2
  BY <1>17, Smaller
<1>19. BalanceZmw(FreezeLineZmw(amounts, fx), 0, Total(amounts), fx) = billed - 0 - credited
  BY <1>d, <1>g, <1>2, <1>9, <1>11 DEF BalanceZmw, FreezeLineZmw, Total, CreditZmw, ToZmw
<1> QED BY <1>18, <1>19

\* It may stay owed: two lines of half an ngwee each are billed as two, and the
\* credit of both is worth one.
THEOREM FullCreditMayLeaveDebt ==
  \E amounts \in Seq(Nat), fx \in Nat :
    BalanceZmw(FreezeLineZmw(amounts, fx), 0, Total(amounts), fx) > 0
<1>g. PICK amounts, z : amounts = <<50, 50>> /\ z = LinesZmw(amounts, Whole)
  OBVIOUS
<1>1. amounts \in Seq(Nat) /\ Len(amounts) = 2
  BY <1>g
<1>2. ToZmw(50, Whole) = 1 /\ ToZmw(100, Whole) = 1
  BY SMT DEF ToZmw, Round, Ngwee, Whole
<1>3. Len(z) = 2 /\ z[1] = 1 /\ z[2] = 1
  BY <1>g, <1>2 DEF LinesZmw
<1>4. \A f : f[1] \in Int /\ f[2] \in Int => SumFunctionOnSet(f, 1..2) = f[1] + f[2]
  BY TwoTerms
<1>5. Total(z) = 2 /\ Total(amounts) = 100
  BY <1>g, <1>1, <1>3, <1>4 DEF Total
<1>6. BalanceZmw(FreezeLineZmw(amounts, Whole), 0, Total(amounts), Whole) = 1
  BY <1>g, <1>2, <1>5 DEF BalanceZmw, FreezeLineZmw, CreditZmw
<1>7. Whole \in Nat
  BY SMT DEF Whole
<1>8. BalanceZmw(FreezeLineZmw(amounts, Whole), 0, Total(amounts), Whole) > 0
  BY <1>6
<1> QED BY <1>1, <1>7, <1>8

-----------------------------------------------------------------------------
(* Sales reports                                                           *)

\* A day is in one month.
LEMMA MonthOfDay ==
  ASSUME NEW first, Calendar(first), NEW day \in Int
  PROVE  /\ Month(first, day) \in Int
         /\ first[Month(first, day)] <= day /\ day < first[Month(first, day) + 1]
         /\ \A n \in Int : first[n] <= day /\ day < first[n + 1] => n = Month(first, day)
<1>1. /\ \A n \in Int : first[n] \in Int
      /\ \A m, n \in Int : m < n => first[m] < first[n]
      /\ \E n \in Int : first[n] <= day /\ day < first[n + 1]
  BY DEF Calendar
<1>2. PICK month : month = Month(first, day)
  OBVIOUS
<1>3. month \in Int /\ first[month] <= day /\ day < first[month + 1]
  BY <1>1, <1>2 DEF Month
<1>4. ASSUME NEW n \in Int, NEW m \in Int, m < n,
             first[n] <= day, day < first[m + 1]
      PROVE  FALSE
  <2>1. CASE m + 1 = n
    BY <1>1, <1>4, <2>1
  <2>2. CASE m + 1 < n
    <3>1. first[m + 1] < first[n]
      BY <1>1, <2>2
    <3> QED BY <1>1, <1>4, <3>1
  <2> QED BY <1>4, <2>1, <2>2
<1>5. \A n \in Int : first[n] <= day /\ day < first[n + 1] => n = month
  <2> SUFFICES ASSUME NEW n \in Int, first[n] <= day, day < first[n + 1], n # month
               PROVE  FALSE
    OBVIOUS
  <2>1. n < month \/ month < n
    BY <1>3
  <2> QED BY <1>3, <1>4, <2>1
<1> QED BY <1>2, <1>3, <1>5

LEMMA WeekOfDay ==
  ASSUME NEW d \in Int, NEW e \in Int
  PROVE  /\ d - (d % 7) \in Int /\ d - (d % 7) <= d /\ d <= d - (d % 7) + 6
         /\ d - (d % 7) <= e /\ e <= d - (d % 7) + 6 <=> e - (e % 7) = d - (d % 7)
<1>1. PICK a \in Int, b \in Int, p \in 0..6, q \in 0..6 :
        d = 7 * a + p /\ e = 7 * b + q /\ p = d % 7 /\ q = e % 7
  <2>1. d = 7 * (d \div 7) + (d % 7) /\ e = 7 * (e \div 7) + (e % 7)
        /\ d \div 7 \in Int /\ e \div 7 \in Int /\ d % 7 \in 0..6 /\ e % 7 \in 0..6
    BY SMT
  <2> QED BY <2>1
<1> QED BY <1>1

\* The periods of the sales log do not overlap: a day is within the period it is
\* put under, and a day within the bounds of a period is put under that one
\* (sales_log.py, _period_bounds and _month_end).
THEOREM PeriodsDoNotOverlap ==
  ASSUME NEW first, Calendar(first), NEW granularity \in Granularities,
         NEW d \in Int, NEW e \in Int
  PROVE  /\ PeriodStart(first, d, granularity) <= d /\ d <= PeriodEnd(first, d, granularity)
         /\ (/\ PeriodStart(first, d, granularity) <= e
             /\ e <= PeriodEnd(first, d, granularity))
              <=> PeriodStart(first, e, granularity) = PeriodStart(first, d, granularity)
<1>1. CASE granularity = "daily"
  <2>1. \A x \in Int : PeriodStart(first, x, granularity) = x /\ PeriodEnd(first, x, granularity) = x
    BY <1>1 DEF PeriodStart, PeriodEnd
  <2> QED BY <2>1
<1>2. CASE granularity = "weekly"
  <2>1. \A x \in Int : /\ PeriodStart(first, x, granularity) = x - (x % 7)
                       /\ PeriodEnd(first, x, granularity) = PeriodStart(first, x, granularity) + 6
    BY <1>2 DEF PeriodStart, PeriodEnd
  <2>2. PICK s \in Int, t \in Int : s = d - (d % 7) /\ t = e - (e % 7)
    BY WeekOfDay
  <2>3. s <= d /\ d <= s + 6 /\ (s <= e /\ e <= s + 6 <=> t = s)
    BY <2>2, WeekOfDay
  <2>4. /\ PeriodStart(first, d, granularity) = s /\ PeriodStart(first, e, granularity) = t
        /\ PeriodEnd(first, d, granularity) = s + 6
    BY <2>1, <2>2
  <2> QED BY <2>3, <2>4
<1>3. CASE granularity = "monthly"
  <2>1. PICK m \in Int, n \in Int : m = Month(first, d) /\ n = Month(first, e)
    BY MonthOfDay
  <2>2. PICK s \in Int, t \in Int, u \in Int, v \in Int :
          s = first[m] /\ t = first[n] /\ u = first[m + 1] /\ v = first[n + 1]
    <3>1. \A x \in Int : first[x] \in Int
      BY DEF Calendar
    <3>2. m + 1 \in Int /\ n + 1 \in Int
      OBVIOUS
    <3> QED BY <3>1, <3>2
  <2>3. s <= d /\ d < u /\ t <= e /\ e < v
    BY <2>1, <2>2, MonthOfDay
  <2>4. s <= e /\ e < u => m = n
    BY <2>1, <2>2, MonthOfDay
  <2>5. m < n => s < t
    BY <2>2 DEF Calendar
  <2>6. n < m => t < s
    BY <2>2 DEF Calendar
  <2>7. /\ PeriodStart(first, d, granularity) = s /\ PeriodStart(first, e, granularity) = t
        /\ PeriodEnd(first, d, granularity) = u - 1
    BY <1>3, <2>1, <2>2 DEF PeriodStart, PeriodEnd
  <2>8. m = n => s = t /\ u = v
    BY <2>2
  <2>9. s <= e /\ e <= u - 1 <=> t = s
    BY <2>3, <2>4, <2>5, <2>6, <2>8
  <2> QED BY <2>3, <2>7, <2>9
<1> QED BY <1>1, <1>2, <1>3 DEF Granularities

LEMMA EventFields ==
  ASSUME NEW Event, NEW events \in [Event -> SaleEvent], NEW name \in {"units", "revenue"}
  PROVE  /\ DOMAIN events = Event
         /\ \A e \in Event : /\ events[e].kind \in Kinds /\ events[e].day \in Int
                             /\ Field(events, name)[e] \in Nat
<1>1. \A x \in SaleEvent : x.kind \in Kinds /\ x.day \in Int /\ x.units \in Nat /\ x.revenue \in Nat
  BY DEF SaleEvent
<1>2. \A e \in Event : events[e] \in SaleEvent
  OBVIOUS
<1>3. CASE name = "units"
  BY <1>1, <1>2, <1>3 DEF Field
<1>4. CASE name = "revenue"
  BY <1>1, <1>2, <1>4 DEF Field
<1> QED BY <1>3, <1>4

\* Every event of a kind asked for is in one row of the sales log, and in one column
\* of it: the totals of the log are the totals of the events (sales_log.py,
\* build_sales_log).
THEOREM EverySaleInOneRow ==
  ASSUME NEW Event, IsFiniteSet(Event), NEW events \in [Event -> SaleEvent],
         NEW first, NEW granularity, NEW type \in {"all", "parts", "motorcycles"},
         NEW name \in {"units", "revenue"}
  PROVE  GrandTotal(events, first, granularity, type, name)
           = SumFunctionOnSet(Field(events, name), Kept(events, type))
<1>g. PICK f, S, K, R, start, kind, rows :
        /\ f = Field(events, name) /\ S = Kept(events, type)
        /\ K = LogRows(events, first, granularity, type) /\ R = KindsOf(type)
        /\ start = Start(events, first, granularity)
        /\ kind = [e \in Event |-> events[e].kind]
        /\ rows = [s \in K |-> Row(events, first, granularity, type, s, name)]
  OBVIOUS
<1>1. DOMAIN events = Event /\ \A e \in Event : kind[e] \in Kinds /\ f[e] \in Nat
  BY <1>g, EventFields
<1>2. S = {e \in Event : kind[e] \in R}
  BY <1>1, <1>g DEF Kept
<1>3. K = {start[e] : e \in S}
  BY <1>g DEF LogRows
<1>4. R \subseteq Kinds /\ IsFiniteSet(R)
  <2>1. IsFiniteSet({"parts"}) /\ IsFiniteSet({"motorcycle_new"})
    BY FS_Singleton
  <2>2. IsFiniteSet({"motorcycle_new"} \union {"motorcycle_historical"})
    BY <2>1, FS_AddElement
  <2>3. IsFiniteSet(({"motorcycle_new"} \union {"motorcycle_historical"}) \union {"parts"})
    BY <2>2, FS_AddElement
  <2>4. /\ Kinds = ({"motorcycle_new"} \union {"motorcycle_historical"}) \union {"parts"}
        /\ {"motorcycle_new", "motorcycle_historical"} = {"motorcycle_new"} \union {"motorcycle_historical"}
    BY DEF Kinds
  <2>5. R \in {Kinds, {"parts"}, {"motorcycle_new", "motorcycle_historical"}}
    BY <1>g DEF KindsOf
  <2> QED BY <2>1, <2>2, <2>3, <2>4, <2>5
<1>5. IsFiniteSet(S) /\ IsFiniteSet(K)
  BY <1>2, <1>3, FS_Subset, ImageFinite
<1>6. ASSUME NEW s \in K
      PROVE  rows[s] = SumFunctionOnSet(f, {e \in S : start[e] = s})
  <2>g. PICK T, parts : /\ T = {e \in S : start[e] = s}
                        /\ parts = [k \in Kinds |-> Component(events, first, granularity, s, k, name)]
    OBVIOUS
  <2>1. IsFiniteSet(T) /\ T \subseteq S
    BY <1>5, <2>g, FS_Subset
  <2>2. \A e \in T : kind[e] \in R /\ f[e] \in Int
    BY <1>1, <1>2, <2>1
  <2>3. \A k \in R : parts[k] = SumFunctionOnSet(f, {e \in T : kind[e] = k})
    <3> SUFFICES ASSUME NEW k \in R
                 PROVE  parts[k] = SumFunctionOnSet(f, {e \in T : kind[e] = k})
      OBVIOUS
    <3>1. {e \in T : kind[e] = k} = {e \in DOMAIN events : events[e].kind = k /\ start[e] = s}
      BY <1>1, <1>2, <1>g, <2>g
    <3>2. parts[k] = Component(events, first, granularity, s, k, name)
      BY <1>4, <2>g
    <3> QED BY <1>g, <3>1, <3>2 DEF Component
  <2>4. GroupSums(parts, f, kind, T, R)
    BY <2>2, <2>3 DEF GroupSums
  <2>5. SumFunctionOnSet(f, T) = SumFunctionOnSet(parts, R)
    BY <1>4, <2>1, <2>4, SumByKey
  <2>6. rows[s] = SumFunctionOnSet(parts, R)
    BY <1>g, <2>g DEF Row
  <2> QED BY <2>5, <2>6, <2>g
<1>7. GroupSums(rows, f, start, S, K)
  BY <1>1, <1>2, <1>3, <1>6 DEF GroupSums
<1>8. SumFunctionOnSet(f, S) = SumFunctionOnSet(rows, K)
  BY <1>5, <1>7, SumByKey
<1> QED BY <1>8, <1>g DEF GrandTotal

LEMMA BikeTotals ==
  ASSUME NEW invoices \in [InvoiceRef -> InvoiceRow], NEW UnitId, IsFiniteSet(UnitId), NoRef \notin InvoiceRef,
         NEW units \in [UnitId -> UnitRow], NEW from, NEW to
  PROVE  /\ IsFiniteSet(BikeRows(invoices, units, from, to))
         /\ \A u \in BikeRows(invoices, units, from, to) :
              u \in UnitId /\ units[u].ref \in InvoiceRef /\ invoices[units[u].ref].total \in Nat
<1>1. \A x \in UnitRow : x.ref \in InvoiceRef \union {NoRef}
  BY DEF UnitRow
<1>2. \A x \in InvoiceRow : x.total \in Nat
  BY DEF InvoiceRow
<1>3. \A u \in BikeRows(invoices, units, from, to) : u \in UnitId /\ units[u].ref # NoRef
  BY DEF BikeRows
<1>4. BikeRows(invoices, units, from, to) \subseteq UnitId
  BY <1>3
<1>5. IsFiniteSet(BikeRows(invoices, units, from, to))
  BY <1>4, FS_Subset
<1>6. \A u \in UnitId : units[u].ref \in InvoiceRef \union {NoRef}
  BY <1>1
<1>7. \A i \in InvoiceRef : invoices[i].total \in Nat
  BY <1>2
<1> QED BY <1>3, <1>5, <1>6, <1>7

\* Equal terms add up to their number times one of them.
LEMMA SumConstant ==
  ASSUME NEW S, IsFiniteSet(S), NEW c \in Nat, NEW f, \A x \in S : f[x] = c
  PROVE  SumFunctionOnSet(f, S) = Cardinality(S) * c
<1> DEFINE P == {U \in SUBSET S : SumFunctionOnSet(f, U) = Cardinality(U) * c}
<1>1. ASSUME NEW U \in SUBSET S, \A x \in U : U \ {x} \in P
      PROVE  U \in P
  <2>1. IsFiniteSet(U)
    BY FS_Subset
  <2>2. CASE U = {}
    <3>1. Cardinality(U) = 0
      BY <2>2, FS_EmptySet
    <3>2. SumFunctionOnSet(f, U) = 0
      BY <2>2, SumEmpty
    <3>3. 0 * c = 0
      OBVIOUS
    <3> QED BY <3>1, <3>2, <3>3
  <2>3. CASE U # {}
    <3>1. PICK a \in U : TRUE
      BY <2>3
    <3>2. f[a] = c /\ \A x \in U : f[x] \in Int
      BY <3>1
    <3>3. SumFunctionOnSet(f, U) = c + SumFunctionOnSet(f, U \ {a})
      BY <2>1, <3>1, <3>2, SumRemove
    <3>4. SumFunctionOnSet(f, U \ {a}) = Cardinality(U \ {a}) * c
      BY <1>1, <3>1
    <3>5. PICK n \in Nat : n = Cardinality(U \ {a}) /\ Cardinality(U) = n + 1
      <4>1. IsFiniteSet(U \ {a}) /\ Cardinality(U) \in Nat /\ Cardinality(U \ {a}) \in Nat
        BY <2>1, FS_Subset, FS_CardinalityType
      <4>2. Cardinality(U \ {a}) = Cardinality(U) - 1
        BY <2>1, <3>1, FS_RemoveElement
      <4> QED BY <4>1, <4>2
    <3>6. c + n * c = (n + 1) * c
      OBVIOUS
    <3> QED BY <3>3, <3>4, <3>5, <3>6
  <2> QED BY <2>2, <2>3
<1> HIDE DEF P
<1>2. P = SUBSET S
  <2>1. P \in SUBSET SUBSET S
    BY DEF P
  <2> QED BY <1>1, <2>1, InductionOnSubsets
<1> QED BY <1>2 DEF P

\* The bikes of the summary are the totals of their invoices, each as often as units of
\* the period were sold on it: once for a single sale, once for each unit of a bulk
\* sale (repository.py, sales_summary_bike_lines; service.py, sell_bikes_bulk).
THEOREM SummaryCountsInvoicePerUnit ==
  ASSUME NEW invoices \in [InvoiceRef -> InvoiceRow], NEW UnitId, IsFiniteSet(UnitId), NoRef \notin InvoiceRef,
         NEW units \in [UnitId -> UnitRow], NEW from, NEW to
  PROVE  LET sold == BikeRows(invoices, units, from, to)
         IN  SummaryBikes(invoices, units, from, to)
               = SumFunctionOnSet([i \in InvoiceRef |->
                                     Cardinality({u \in sold : units[u].ref = i}) * invoices[i].total],
                                  {units[u].ref : u \in sold})
<1>g. PICK S, ref, f, g :
        /\ S = BikeRows(invoices, units, from, to) /\ ref = [u \in S |-> units[u].ref]
        /\ f = [u \in S |-> invoices[units[u].ref].total]
        /\ g = [i \in InvoiceRef |-> Cardinality({u \in S : units[u].ref = i}) * invoices[i].total]
  OBVIOUS
<1>k. PICK K : K = {ref[u] : u \in S}
  OBVIOUS
<1>1. IsFiniteSet(S) /\ \A u \in S : /\ ref[u] \in InvoiceRef /\ ref[u] = units[u].ref
                                     /\ f[u] \in Nat /\ f[u] = invoices[ref[u]].total
  BY <1>g, BikeTotals
<1>2. IsFiniteSet(K)
  BY <1>1, <1>k, ImageFinite
<1>3. \A i \in K : g[i] \in Int /\ g[i] = SumFunctionOnSet(f, {u \in S : ref[u] = i})
  <2> SUFFICES ASSUME NEW i \in K
               PROVE  g[i] \in Int /\ g[i] = SumFunctionOnSet(f, {u \in S : ref[u] = i})
    OBVIOUS
  <2> PICK G : G = {u \in S : ref[u] = i}
    OBVIOUS
  <2>1. IsFiniteSet(G) /\ G = {u \in S : units[u].ref = i}
    BY <1>1, FS_Subset
  <2>2. PICK c \in Nat : c = invoices[i].total /\ i \in InvoiceRef
    BY <1>1, <1>k
  <2>3. \A u \in G : f[u] = c
    BY <1>1, <2>2
  <2>4. SumFunctionOnSet(f, G) = Cardinality(G) * c
    BY <2>1, <2>3, SumConstant
  <2>5. g[i] = Cardinality(G) * c
    BY <1>g, <2>1, <2>2
  <2>6. SumFunctionOnSet(f, G) \in Int
    <3>1. \A u \in G : f[u] \in Int
      BY <2>3
    <3> QED BY <2>1, <3>1, SumType
  <2> QED BY <2>4, <2>5, <2>6
<1>4. GroupSums(g, f, ref, S, K)
  <2>1. \A u \in S : ref[u] \in K /\ f[u] \in Int
    BY <1>1, <1>k
  <2>2. \A i \in K : g[i] = SumFunctionOnSet(f, {u \in S : ref[u] = i})
    BY <1>3
  <2> QED BY ONLY <2>1, <2>2 DEF GroupSums
<1>5. SumFunctionOnSet(f, S) = SumFunctionOnSet(g, K)
  BY <1>1, <1>2, <1>4, SumByKey
<1>6. K = {units[u].ref : u \in S}
  BY <1>g, <1>k
<1> QED BY <1>5, <1>6, <1>g DEF SummaryBikes

\* Units sold together on one invoice each bring its whole total to the summary
\* (service.py, sell_bikes_bulk; repository.py, sales_summary_bike_lines).
THEOREM BulkSaleCountedPerBike ==
  ASSUME NEW invoices \in [InvoiceRef -> InvoiceRow], NEW UnitId, IsFiniteSet(UnitId), NoRef \notin InvoiceRef,
         NEW units \in [UnitId -> UnitRow], NEW from, NEW to,
         NEW u \in UnitId, NEW v \in UnitId, u # v, NEW i \in InvoiceRef,
         units[u].ref = i, units[v].ref = i, InPeriod(invoices[i], from, to)
  PROVE  SummaryBikes(invoices, units, from, to) >= 2 * invoices[i].total
<1>g. PICK S, f : /\ S = BikeRows(invoices, units, from, to)
                  /\ f = [w \in S |-> invoices[units[w].ref].total]
  OBVIOUS
<1>1. IsFiniteSet(S) /\ \A w \in S : f[w] \in Nat
  BY <1>g, BikeTotals
<1>2. u \in S /\ v \in S
  <2>1. i # NoRef
    OBVIOUS
  <2> QED BY <1>g, <2>1 DEF BikeRows
<1>3. f[u] = invoices[i].total /\ f[v] = invoices[i].total
  BY <1>2, <1>g
<1>4. SumFunctionOnSet(f, S) = f[u] + SumFunctionOnSet(f, S \ {u})
  BY <1>1, <1>2, SumRemove
<1>5. f[v] <= SumFunctionOnSet(f, S \ {u}) /\ SumFunctionOnSet(f, S \ {u}) \in Nat
  <2>1. IsFiniteSet(S \ {u}) /\ \A w \in S \ {u} : f[w] \in Nat
    BY <1>1, FS_Subset
  <2> QED BY <1>2, <2>1, SumBounds, SumNat
<1>6. PICK x \in Nat, y \in Nat : x = invoices[i].total /\ y = SumFunctionOnSet(f, S \ {u})
  BY <1>1, <1>2, <1>3, <1>5
<1>7. SumFunctionOnSet(f, S) >= 2 * x
  BY <1>3, <1>4, <1>5, <1>6
<1> QED BY <1>6, <1>7, <1>g DEF SummaryBikes

=============================================================================
