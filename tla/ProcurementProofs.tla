-------------------------- MODULE ProcurementProofs --------------------------
(***************************************************************************)
(* What holds of purchase orders and recommendations for every number of     *)
(* orders, products and reorder requests and every bound; and what the       *)
(* planning arithmetic guarantees: the order quantity, the containers of a    *)
(* shipment and the motorcycles to assemble, for every policy, position, load  *)
(* and count, and the follow-up list, for every schedule, unit and date; and  *)
(* of the imports of whole files, for every file, place, unit and request.    *)
(***************************************************************************)
EXTENDS Procurement, LoadPlans, FollowUps, WholeImports, Sums

USE DEF Lines

-----------------------------------------------------------------------------
(* The largest of several quantities                                       *)

\* A non-empty set of quantities has a largest one.
LEMMA LargestExists ==
  ASSUME NEW n \in Nat, NEW S \in SUBSET (0..n), S # {}
  PROVE  Max(S) \in S /\ \A q \in S : q <= Max(S)
<1> DEFINE T == {k \in Nat : n - k \in S}
<1>1. T # {} /\ T \subseteq Nat
  <2> PICK q \in S : TRUE
    OBVIOUS
  <2>1. n - q \in Nat /\ n - (n - q) = q
    OBVIOUS
  <2> QED BY <2>1
<1>2. PICK k \in T : \A j \in T : k <= j
  BY <1>1, LeastNatural
<1>3. \A q \in S : q <= n - k
  <2> TAKE q \in S
  <2>1. n - q \in T
    <3>1. n - q \in Nat /\ n - (n - q) = q
      OBVIOUS
    <3> QED BY <3>1
  <2> QED BY <1>2, <2>1
<1>4. \E x \in S : \A q \in S : x >= q
  BY <1>3
<1> QED BY <1>4 DEF Max

\* Quantities that are recommended fit a line of an order.
LEMMA LargestIsALine ==
  ASSUME ProcurementAssumption, rec \in [Rec -> [product : Product \union {None}, qty : 0..MaxQty,
                                                 status : {"none", "pending", "ordered"}]],
         NEW R \in SUBSET Rec
  PROVE  LargestOf(R) \in [Product -> 0..MaxQty]
<1> SUFFICES ASSUME NEW p \in Product
             PROVE  Max({0} \union {rec[r].qty : r \in {r \in R : rec[r].product = p}}) \in 0..MaxQty
  BY DEF LargestOf
<1> DEFINE S == {0} \union {rec[r].qty : r \in {r \in R : rec[r].product = p}}
<1>1. MaxQty \in Nat
  BY DEF ProcurementAssumption
<1>2. S \in SUBSET (0..MaxQty) /\ S # {}
  BY <1>1
<1> HIDE DEF S
<1>3. Max(S) \in S
  BY <1>1, <1>2, LargestExists
<1> QED BY <1>2, <1>3 DEF S

-----------------------------------------------------------------------------
(* Types and receipts                                                      *)

\* The types hold with the statuses: that no line gets more than was ordered rests
\* on a draft having received nothing.
IInv == TypeOK /\ StatusTellsReceipts

LEMMA InitIInv ==
  ASSUME ProcurementAssumption, Init
  PROVE  IInv
  BY DEF ProcurementAssumption, Init, IInv, TypeOK, StatusTellsReceipts, Statuses, TaskType, Idle,
         NoRec

\* An order that was never sent has received nothing.
LEMMA UnsentIsEmpty ==
  ASSUME ProcurementAssumption, IInv, NEW o \in PO,
         status[o] \notin {"received", "partially_received"}, NEW p \in Product
  PROVE  received[o][p] = 0
  BY DEF ProcurementAssumption, IInv, TypeOK, StatusTellsReceipts

LEMMA NewOrderIInv ==
  ASSUME ProcurementAssumption, IInv, NEW o \in PO, NEW lines \in Lines, NEW made \in SUBSET Rec,
         NEW before \in SUBSET PO, NewOrder(o, lines, made, before)
  PROVE  /\ status' \in [PO -> Statuses] /\ ordered' \in [PO -> Lines]
         /\ received' \in [PO -> Lines] /\ sources' \in [PO -> SUBSET Rec]
         /\ follows' \in [PO -> SUBSET PO]
         /\ \A q \in PO, p \in Product : received'[q][p] <= ordered'[q][p]
         /\ StatusTellsReceipts'
<1>1. status[o] = "none" /\ status' = [status EXCEPT ![o] = "draft"]
        /\ ordered' = [ordered EXCEPT ![o] = lines] /\ received' = received
        /\ sources' = [sources EXCEPT ![o] = made] /\ follows' = [follows EXCEPT ![o] = before]
  BY DEF NewOrder
<1>2. \A p \in Product : received[o][p] = 0
  BY <1>1, UnsentIsEmpty
<1>3. /\ status' \in [PO -> Statuses] /\ ordered' \in [PO -> Lines]
      /\ received' \in [PO -> Lines] /\ sources' \in [PO -> SUBSET Rec]
      /\ follows' \in [PO -> SUBSET PO]
  BY <1>1 DEF IInv, TypeOK, Statuses
<1>4. \A q \in PO, p \in Product : received'[q][p] <= ordered'[q][p]
  BY <1>1, <1>2 DEF IInv, TypeOK, ProcurementAssumption
<1>5. StatusTellsReceipts'
  BY <1>1, <1>2 DEF IInv, TypeOK, StatusTellsReceipts
<1> QED BY <1>3, <1>4, <1>5

LEMMA UpdateIInv ==
  ASSUME ProcurementAssumption, IInv, NEW o \in PO, NEW lines \in Lines, UpdatePO(o, lines)
  PROVE  IInv'
<1>1. status[o] = "draft" /\ ordered' = [ordered EXCEPT ![o] = lines]
        /\ UNCHANGED <<status, received, sources, follows, rec, task, onHand, consumed>>
  BY DEF UpdatePO, stock
<1>2. \A p \in Product : received[o][p] = 0
  BY <1>1, UnsentIsEmpty
<1>3. TypeOK'
  BY <1>1, <1>2 DEF IInv, TypeOK, ProcurementAssumption
<1>4. StatusTellsReceipts'
  BY <1>1, <1>2 DEF IInv, TypeOK, StatusTellsReceipts
<1> QED BY <1>3, <1>4 DEF IInv

LEMMA ActionIInv ==
  ASSUME ProcurementAssumption, IInv, NEW o \in PO, NEW action \in Actions, ApplyAction(o, action)
  PROVE  IInv'
<1> PICK target \in Statuses :
      /\ <<status[o], action, target>> \in Transitions
      /\ status' = [status EXCEPT ![o] = target]
      /\ UNCHANGED <<ordered, received, sources, follows, rec, task, onHand, consumed>>
  BY DEF ApplyAction, stock
<1>1. /\ status[o] \notin {"received", "partially_received"}
      /\ target \notin {"received", "partially_received"}
  BY DEF Transitions
<1>2. TypeOK'
  BY DEF IInv, TypeOK
<1>3. StatusTellsReceipts'
  BY <1>1 DEF IInv, TypeOK, StatusTellsReceipts
<1> QED BY <1>2, <1>3 DEF IInv

\* Over any number of partial receipts.
LEMMA ReceiveIInv ==
  ASSUME ProcurementAssumption, IInv, NEW o \in PO, NEW now \in Lines, Receive(o, now)
  PROVE  IInv'
<1>1. /\ Named(now) # {} /\ \A p \in Product : now[p] <= ordered[o][p] - received[o][p]
      /\ \A p \in Product : onHand[p] + now[p] <= MaxStock
      /\ received' = [received EXCEPT ![o] = [p \in Product |-> received[o][p] + now[p]]]
      /\ onHand' = [p \in Product |-> onHand[p] + now[p]]
      /\ status' = [status EXCEPT ![o] = ReceivedStatus(o, now)]
      /\ UNCHANGED <<ordered, sources, follows, rec, task, consumed>>
  <2>1. \A p \in Product : p \notin Named(now) => now[p] = 0
    BY DEF Named, ProcurementAssumption
  <2>2. \A p \in Product : ordered[o][p] - received[o][p] >= 0
    BY DEF IInv, TypeOK, ProcurementAssumption
  <2>3. \A p \in Named(now) : now[p] <= ordered[o][p] - received[o][p]
    BY DEF Receive, Applicable, Remaining
  <2>4. \A p \in Product : now[p] <= ordered[o][p] - received[o][p]
    BY <2>1, <2>2, <2>3
  <2> QED BY <2>4 DEF Receive, Applicable
<1>2. ReceivedStatus(o, now) \in {"received", "partially_received"}
  BY DEF ReceivedStatus
<1>3. \A p \in Product : /\ received'[o][p] = received[o][p] + now[p]
                         /\ received'[o][p] <= ordered[o][p] /\ received'[o][p] \in 0..MaxQty
  BY <1>1 DEF IInv, TypeOK, ProcurementAssumption
<1>4. TypeOK'
  <2>1. received' \in [PO -> Lines]
    BY <1>1, <1>3 DEF IInv, TypeOK
  <2>2. onHand' \in [Product -> 0..MaxStock]
    BY <1>1 DEF IInv, TypeOK, ProcurementAssumption
  <2>3. \A q \in PO, p \in Product : received'[q][p] <= ordered'[q][p]
    BY <1>1, <1>3 DEF IInv, TypeOK
  <2> QED BY <1>1, <1>2, <2>1, <2>2, <2>3 DEF IInv, TypeOK, Statuses
<1>5. StatusTellsReceipts'
  <2>1. \E p \in Product : received'[o][p] > 0
    <3> PICK p \in Product : now[p] > 0
      BY <1>1 DEF Named
    <3>1. received[o][p] \in Nat /\ now[p] \in Nat
      BY <1>1 DEF IInv, TypeOK, ProcurementAssumption
    <3>2. received'[o][p] = received[o][p] + now[p]
      BY <1>3
    <3> QED BY <3>1, <3>2
  <2>2. ReceivedStatus(o, now) = "received" <=> \A p \in Product : received'[o][p] = ordered[o][p]
    BY <1>3 DEF ReceivedStatus
  <2>3. ReceivedStatus(o, now) = "received" <=>
          {p \in Product : received'[o][p] < ordered[o][p]} = {}
    <3>1. \A p \in Product : /\ received'[o][p] \in Nat /\ ordered[o][p] \in Nat
                             /\ received'[o][p] <= ordered[o][p]
      BY <1>3 DEF IInv, TypeOK, ProcurementAssumption
    <3>2. \A p \in Product :
            received'[o][p] = ordered[o][p] <=> ~(received'[o][p] < ordered[o][p])
      BY <3>1
    <3> QED BY <2>2, <3>2
  <2> SUFFICES ASSUME NEW q \in PO
               PROVE  LET arrived == {p \in Product : received'[q][p] > 0}
                          due == {p \in Product : received'[q][p] < ordered'[q][p]}
                      IN  CASE status'[q] = "received" -> arrived # {} /\ due = {}
                            [] status'[q] = "partially_received" -> arrived # {} /\ due # {}
                            [] OTHER -> arrived = {}
    BY DEF StatusTellsReceipts
  <2>4. CASE q = o
    BY <1>1, <1>2, <2>1, <2>3, <2>4 DEF IInv, TypeOK
  <2>5. CASE q # o
    BY <1>1, <2>5 DEF IInv, TypeOK, StatusTellsReceipts
  <2> QED BY <2>4, <2>5
<1> QED BY <1>4, <1>5 DEF IInv

LEMMA ConsumeIInv ==
  ASSUME ProcurementAssumption, IInv, NEW p \in Product, Consume(p)
  PROVE  IInv'
<1>1. /\ onHand[p] > 0 /\ consumed < MaxConsumed
      /\ onHand' = [onHand EXCEPT ![p] = @ - 1] /\ consumed' = consumed + 1
      /\ UNCHANGED <<status, ordered, received, sources, follows, rec, task>>
  BY DEF Consume, orders
<1>2. TypeOK'
  BY <1>1 DEF IInv, TypeOK, ProcurementAssumption
<1> QED BY <1>1, <1>2 DEF IInv, StatusTellsReceipts

\* A step that changes only what a request has read.
LEMMA TaskIInv ==
  ASSUME IInv, NEW s \in Session, NEW now \in TaskType, task' = [task EXCEPT ![s] = now],
         UNCHANGED <<orders, rec, stock>>
  PROVE  IInv'
<1>1. UNCHANGED <<status, ordered, received, sources, follows, rec, onHand, consumed>>
  BY DEF orders, stock
<1>2. TypeOK'
  BY <1>1 DEF IInv, TypeOK
<1> QED BY <1>1, <1>2 DEF IInv, StatusTellsReceipts

LEMMA ReadStockIInv ==
  ASSUME IInv, NEW s \in Session, NEW p \in Product, ReadStock(s, p)
  PROVE  IInv'
<1>1. [kind |-> "run", product |-> p, available |-> onHand[p]] \in TaskType
  BY DEF IInv, TypeOK, TaskType
<1> QED BY <1>1, TaskIInv DEF ReadStock

LEMMA ReadRecsIInv ==
  ASSUME IInv, NEW s \in Session, NEW R \in SUBSET Rec, ReadRecs(s, R)
  PROVE  IInv'
<1> PICK kept \in SUBSET Rec :
      task' = [task EXCEPT ![s] = [kind |-> "convert", recs |-> kept, before |-> Converted]]
  BY DEF ReadRecs
<1>1. [kind |-> "convert", recs |-> kept, before |-> Converted] \in TaskType
  BY DEF TaskType, Converted
<1> QED BY <1>1, TaskIInv DEF ReadRecs

LEMMA AbandonIInv ==
  ASSUME IInv, NEW s \in Session, Abandon(s)
  PROVE  IInv'
<1>1. Idle \in TaskType
  BY DEF TaskType
<1> QED BY <1>1, TaskIInv DEF Abandon

\* What is on order is a natural number.
LEMMA OnOrderType ==
  ASSUME ProcurementAssumption, IInv, NEW p \in Product
  PROVE  OnOrder(p) \in Nat
<1> DEFINE due == [o \in PO |-> Remaining(o, p)]
           open == {o \in PO : status[o] \in Open}
<1>1. IsFiniteSet(open)
  BY FS_Subset DEF ProcurementAssumption
<1>2. \A o \in open : due[o] \in Nat
  BY DEF Remaining, IInv, TypeOK, ProcurementAssumption
<1> HIDE DEF due, open
<1>3. SumFunctionOnSet(due, open) \in Nat
  BY <1>1, <1>2, SumNat
<1> QED BY <1>3 DEF OnOrder, due, open

\* What a run has read is a product and its stock.
LEMMA RunReads ==
  ASSUME TypeOK, NEW s \in Session, task[s].kind = "run"
  PROVE  task[s].product \in Product /\ task[s].available \in 0..MaxStock
<1>1. task[s] \in TaskType
  BY DEF TypeOK
<1>2. PICK now : now = task[s] /\ now \in TaskType /\ now.kind = "run"
  BY <1>1
<1>3. now \in [kind : {"run"}, product : Product, available : 0..MaxStock]
  BY <1>2 DEF TaskType, Idle
<1> QED BY <1>2, <1>3

LEMMA RecommendIInv ==
  ASSUME ProcurementAssumption, IInv, NEW s \in Session, Recommend(s)
  PROVE  IInv'
<1>1. task[s].product \in Product
  BY RunReads DEF Recommend, IInv
<1>2. UNCHANGED <<status, ordered, received, sources, follows, onHand, consumed>>
  BY DEF Recommend, orders, stock
<1>3. task' = [task EXCEPT ![s] = Idle] /\ Idle \in TaskType
  BY DEF Recommend, TaskType
<1>4. rec' \in [Rec -> [product : Product \union {None}, qty : 0..MaxQty,
                        status : {"none", "pending", "ordered"}]]
  <2>1. CASE UNCHANGED rec
    BY <2>1 DEF IInv, TypeOK
  <2>2. CASE ~UNCHANGED rec
    <3> DEFINE position == task[s].available + OnOrder(task[s].product)
               need == Larger(0, Target - position)
               qty == EnforceOrderQuantity(need, Carton, Moq)
    <3>1. position \in Nat
      <4>1. task[s].available \in Nat
        BY RunReads DEF Recommend, IInv, ProcurementAssumption
      <4>2. OnOrder(task[s].product) \in Nat
        BY <1>1, OnOrderType
      <4> QED BY <4>1, <4>2
    <3>2. need \in 0..Target
      BY <3>1 DEF Larger, ProcurementAssumption
    <3>3. qty \in 0..MaxQty
      <4> HIDE DEF need
      <4>1. qty <= MaxQty
        BY <3>2 DEF ProcurementAssumption
      <4>2. qty \in Nat
        BY <3>2 DEF ProcurementAssumption, EnforceOrderQuantity, RoundUpToCarton, CeilDiv
      <4> QED BY <4>1, <4>2 DEF ProcurementAssumption
    <3> HIDE DEF qty
    <3> PICK r \in Rec :
          rec' = [rec EXCEPT ![r] =
                    [product |-> task[s].product, qty |-> qty, status |-> "pending"]]
      BY <2>2 DEF Recommend, qty
    <3> QED BY <1>1, <3>3 DEF IInv, TypeOK
  <2> QED BY <2>1, <2>2
<1>5. TypeOK'
  BY <1>2, <1>3, <1>4 DEF IInv, TypeOK
<1> QED BY <1>2, <1>5 DEF IInv, StatusTellsReceipts

\* What a conversion read is a set of recommendations, beside the orders there were.
LEMMA KeptAreRecs ==
  ASSUME TypeOK, NEW s \in Session, task[s].kind = "convert"
  PROVE  task[s].recs \in SUBSET Rec /\ task[s].before \in SUBSET PO
<1>1. task[s] \in TaskType
  BY DEF TypeOK
<1>2. PICK now : now = task[s] /\ now \in TaskType /\ now.kind = "convert"
  BY <1>1
<1>3. now \in [kind : {"convert"}, recs : SUBSET Rec, before : SUBSET PO]
  BY <1>2 DEF TaskType, Idle
<1> QED BY <1>2, <1>3

LEMMA ConvertIInv ==
  ASSUME ProcurementAssumption, IInv, NEW s \in Session, NEW o \in PO, Convert(s, o)
  PROVE  IInv'
<1> PICK R \in SUBSET Rec : R = task[s].recs
  BY KeptAreRecs DEF IInv, Convert
<1> PICK before \in SUBSET PO : before = task[s].before
  BY KeptAreRecs DEF IInv, Convert
<1>1. NewOrder(o, LargestOf(R), R, before)
  BY DEF Convert
<1>2. LargestOf(R) \in Lines
  BY LargestIsALine DEF IInv, TypeOK
<1>3. /\ status' \in [PO -> Statuses] /\ ordered' \in [PO -> Lines]
      /\ received' \in [PO -> Lines] /\ sources' \in [PO -> SUBSET Rec]
      /\ follows' \in [PO -> SUBSET PO]
      /\ \A q \in PO, p \in Product : received'[q][p] <= ordered'[q][p]
      /\ StatusTellsReceipts'
  BY <1>1, <1>2, NewOrderIInv
<1>4. /\ rec' = MarkOrdered(R) /\ task' = [task EXCEPT ![s] = Idle] /\ Idle \in TaskType
      /\ UNCHANGED <<onHand, consumed>>
  BY DEF Convert, stock, TaskType
<1>5. rec' \in [Rec -> [product : Product \union {None}, qty : 0..MaxQty,
                        status : {"none", "pending", "ordered"}]]
  <2> SUFFICES ASSUME NEW r \in Rec
               PROVE  MarkOrdered(R)[r] \in [product : Product \union {None}, qty : 0..MaxQty,
                                             status : {"none", "pending", "ordered"}]
    BY <1>4 DEF MarkOrdered
  <2>1. rec[r] \in [product : Product \union {None}, qty : 0..MaxQty,
                    status : {"none", "pending", "ordered"}]
    BY DEF IInv, TypeOK
  <2>2. MarkOrdered(R)[r] = IF r \in R THEN [rec[r] EXCEPT !.status = "ordered"] ELSE rec[r]
    BY DEF MarkOrdered
  <2> QED BY <2>1, <2>2
<1> QED BY <1>3, <1>4, <1>5 DEF IInv, TypeOK

LEMMA CreateIInv ==
  ASSUME ProcurementAssumption, IInv, NEW o \in PO, NEW lines \in Lines, CreatePO(o, lines)
  PROVE  IInv'
<1>1. NewOrder(o, lines, {}, {}) /\ UNCHANGED <<rec, task, onHand, consumed>>
  BY DEF CreatePO, stock
<1>2. /\ status' \in [PO -> Statuses] /\ ordered' \in [PO -> Lines]
      /\ received' \in [PO -> Lines] /\ sources' \in [PO -> SUBSET Rec]
      /\ follows' \in [PO -> SUBSET PO]
      /\ \A q \in PO, p \in Product : received'[q][p] <= ordered'[q][p]
      /\ StatusTellsReceipts'
  <2>1. {} \in SUBSET Rec /\ {} \in SUBSET PO
    OBVIOUS
  <2> QED BY <1>1, <2>1, NewOrderIInv
<1> QED BY <1>1, <1>2 DEF IInv, TypeOK

LEMMA StepIInv ==
  ASSUME ProcurementAssumption, IInv, [Next]_vars
  PROVE  IInv'
<1>1. CASE UNCHANGED vars
  BY <1>1 DEF vars, orders, stock, IInv, TypeOK, StatusTellsReceipts
<1>2. ASSUME NEW o \in PO, NEW lines \in Lines,
             CreatePO(o, lines) \/ UpdatePO(o, lines) \/ Receive(o, lines)
      PROVE  IInv'
  BY <1>2, CreateIInv, UpdateIInv, ReceiveIInv
<1>3. ASSUME NEW o \in PO, NEW action \in Actions, ApplyAction(o, action)
      PROVE  IInv'
  BY <1>3, ActionIInv
<1>4. ASSUME NEW o \in PO, NEW s \in Session, Convert(s, o)
      PROVE  IInv'
  BY <1>4, ConvertIInv
<1>5. ASSUME NEW p \in Product, Consume(p) \/ \E s \in Session : ReadStock(s, p)
      PROVE  IInv'
  BY <1>5, ConsumeIInv, ReadStockIInv
<1>6. ASSUME NEW s \in Session,
             Recommend(s) \/ Abandon(s) \/ (\E R \in SUBSET Rec : ReadRecs(s, R))
      PROVE  IInv'
  BY <1>6, RecommendIInv, AbandonIInv, ReadRecsIInv
<1> QED BY <1>1, <1>2, <1>3, <1>4, <1>5, <1>6 DEF Next

\* Every column keeps its type, and no line gets more than was ordered.
THEOREM Typing ==
  ASSUME ProcurementAssumption
  PROVE  Spec => []TypeOK
<1>1. Init => IInv
  BY InitIInv
<1>2. IInv /\ [Next]_vars => IInv'
  BY StepIInv
<1>3. IInv => TypeOK
  BY DEF IInv
<1> QED BY <1>1, <1>2, <1>3, PTL DEF Spec

\* The status of an order tells what has arrived of it, over any number of
\* partial receipts and of lines.
THEOREM ReceiptStatus ==
  ASSUME ProcurementAssumption
  PROVE  Spec => []StatusTellsReceipts
<1>1. Init => IInv
  BY InitIInv
<1>2. IInv /\ [Next]_vars => IInv'
  BY StepIInv
<1>3. IInv => StatusTellsReceipts
  BY DEF IInv
<1> QED BY <1>1, <1>2, <1>3, PTL DEF Spec

-----------------------------------------------------------------------------
(* Recommendations                                                         *)

\* What an order was made from is marked, and stays marked. A conversion in flight
\* may hold recommendations that another one has ordered since, but none that was
\* ordered before it read.
SourcesAreMarked == \A o \in PO : \A r \in sources[o] : rec[r].status = "ordered"
ReadsWerePending ==
  \A s \in Session : task[s].kind = "convert" =>
    \A q \in task[s].before : sources[q] # {} /\ sources[q] \intersect task[s].recs = {}
FollowedAreConverted == \A o \in PO : \A q \in follows[o] : sources[q] # {}
\* Only a conversion gives an order its sources: a new order has none.
NewAreSourceless == \A o \in PO : status[o] = "none" => sources[o] = {}
OInv == TypeOK /\ SourcesAreMarked /\ ReadsWerePending /\ FollowedAreConverted
          /\ NewAreSourceless /\ OrderedOnce

\* Steps that leave the orders' sources alone and take no mark from a recommendation,
\* and have no request start a conversion.
LEMMA QuietOInv ==
  ASSUME OInv, TypeOK', UNCHANGED <<sources, follows>>,
         \A r \in Rec : rec[r].status = "ordered" => rec'[r].status = "ordered",
         \A o \in PO : status'[o] = "none" => status[o] = "none",
         \A s \in Session : task'[s] = task[s] \/ task'[s].kind # "convert"
  PROVE  OInv'
<1>1. SourcesAreMarked'
  BY DEF OInv, TypeOK, SourcesAreMarked
<1>2. ReadsWerePending'
  BY DEF OInv, ReadsWerePending
<1>3. FollowedAreConverted' /\ NewAreSourceless' /\ OrderedOnce'
  BY DEF OInv, FollowedAreConverted, NewAreSourceless, OrderedOnce
<1> QED BY <1>1, <1>2, <1>3 DEF OInv

LEMMA RecommendOInv ==
  ASSUME OInv, TypeOK', NEW s \in Session, Recommend(s)
  PROVE  OInv'
<1>1. UNCHANGED <<status, sources, follows>> /\ task' = [task EXCEPT ![s] = Idle]
  BY DEF Recommend, orders
<1>2. \A r \in Rec : rec'[r] = rec[r] \/ rec[r] = NoRec
  BY DEF Recommend, OInv, TypeOK
<1>3. \A r \in Rec : rec[r].status = "ordered" => rec'[r] = rec[r]
  BY <1>2 DEF NoRec
<1>4. \A t \in Session : task'[t] = task[t] \/ task'[t].kind # "convert"
  BY <1>1 DEF Idle, OInv, TypeOK
<1> QED BY <1>1, <1>3, <1>4, QuietOInv

\* What a conversion keeps is pending, so no order was made from it yet.
LEMMA ReadRecsOInv ==
  ASSUME OInv, TypeOK', NEW s \in Session, NEW R \in SUBSET Rec, ReadRecs(s, R)
  PROVE  OInv'
<1> PICK kept \in SUBSET Rec :
      /\ \A r \in kept : rec[r].status = "pending"
      /\ task' = [task EXCEPT ![s] = [kind |-> "convert", recs |-> kept, before |-> Converted]]
  BY DEF ReadRecs
<1>1. UNCHANGED <<status, sources, follows, rec>>
  BY DEF ReadRecs, orders
<1>2. \A q \in PO : sources[q] \intersect kept = {}
  BY DEF OInv, SourcesAreMarked
<1>3. ReadsWerePending'
  <2> SUFFICES ASSUME NEW t \in Session, task'[t].kind = "convert", NEW q \in task'[t].before
               PROVE  sources[q] # {} /\ sources[q] \intersect task'[t].recs = {}
    BY <1>1 DEF ReadsWerePending
  <2>1. CASE t = s
    <3>1. task'[t].recs = kept /\ task'[t].before = Converted
      BY <2>1 DEF OInv, TypeOK
    <3> QED BY <3>1, <1>2 DEF Converted
  <2>2. CASE t # s
    <3>1. task'[t] = task[t]
      BY <2>2 DEF OInv, TypeOK
    <3> QED BY <3>1 DEF OInv, ReadsWerePending
  <2> QED BY <2>1, <2>2
<1>4. SourcesAreMarked' /\ FollowedAreConverted' /\ NewAreSourceless' /\ OrderedOnce'
  BY <1>1 DEF OInv, SourcesAreMarked, FollowedAreConverted, NewAreSourceless, OrderedOnce
<1> QED BY <1>3, <1>4 DEF OInv

\* A new order comes after those there were when its conversion read: they were not
\* made from what it read, and no order is after the new one.
LEMMA ConvertOInv ==
  ASSUME OInv, TypeOK', NEW s \in Session, NEW o \in PO, Convert(s, o)
  PROVE  OInv'
<1> PICK R \in SUBSET Rec : R = task[s].recs
  BY KeptAreRecs DEF OInv, Convert
<1> PICK before \in SUBSET PO : before = task[s].before
  BY KeptAreRecs DEF OInv, Convert
<1>1. /\ status[o] = "none" /\ status' = [status EXCEPT ![o] = "draft"]
      /\ sources' = [sources EXCEPT ![o] = R] /\ follows' = [follows EXCEPT ![o] = before]
      /\ rec' = MarkOrdered(R) /\ task' = [task EXCEPT ![s] = Idle] /\ task[s].kind = "convert"
  BY DEF Convert, NewOrder
<1>2. \A r \in Rec : rec'[r].status = IF r \in R THEN "ordered" ELSE rec[r].status
  BY <1>1 DEF MarkOrdered, OInv, TypeOK
<1>3. \A q \in PO : /\ sources'[q] = IF q = o THEN R ELSE sources[q]
                    /\ follows'[q] = IF q = o THEN before ELSE follows[q]
                    /\ status'[q] = IF q = o THEN "draft" ELSE status[q]
  BY <1>1 DEF OInv, TypeOK
\* No order and no request knows the new order yet.
<1>4. sources[o] = {}
  BY <1>1 DEF OInv, NewAreSourceless
<1>5. \A q \in PO : o \notin follows[q] /\ follows[q] \in SUBSET PO
  BY <1>4 DEF OInv, FollowedAreConverted, TypeOK
<1>6. \A q \in before : q \in PO /\ q # o /\ sources[q] # {} /\ sources[q] \intersect R = {}
  BY <1>1, <1>4 DEF OInv, ReadsWerePending
<1>7. SourcesAreMarked'
  BY <1>2, <1>3 DEF OInv, TypeOK, SourcesAreMarked
<1>8. ReadsWerePending'
  <2> SUFFICES ASSUME NEW t \in Session, task'[t].kind = "convert", NEW q \in task'[t].before
               PROVE  sources'[q] # {} /\ sources'[q] \intersect task'[t].recs = {}
    BY DEF ReadsWerePending
  <2>1. task'[t] = task[t]
    BY <1>1 DEF Idle, OInv, TypeOK
  <2>2. q \in PO /\ sources[q] # {} /\ sources[q] \intersect task[t].recs = {}
    BY <2>1, KeptAreRecs DEF OInv, ReadsWerePending
  <2>3. sources'[q] = sources[q]
    BY <1>3, <1>4, <2>2
  <2> QED BY <2>1, <2>2, <2>3
<1>9. FollowedAreConverted'
  <2> SUFFICES ASSUME NEW p \in PO, NEW q \in follows'[p]
               PROVE  sources'[q] # {}
    BY DEF FollowedAreConverted
  <2>1. q \in PO /\ q # o /\ sources[q] # {}
    BY <1>3, <1>5, <1>6 DEF OInv, FollowedAreConverted
  <2> QED BY <1>3, <2>1
<1>10. NewAreSourceless'
  BY <1>3 DEF OInv, NewAreSourceless
<1>11. OrderedOnce'
  <2> SUFFICES ASSUME NEW p \in PO, NEW q \in PO, q \in follows'[p]
               PROVE  sources'[p] \intersect sources'[q] = {}
    BY DEF OrderedOnce
  <2>1. CASE p = o
    BY <1>3, <1>6, <2>1
  <2>2. CASE p # o
    <3>1. q \in follows[p] /\ q # o
      BY <1>3, <1>5, <2>2
    <3> QED BY <1>3, <2>2, <3>1 DEF OInv, OrderedOnce
  <2> QED BY <2>1, <2>2
<1> QED BY <1>7, <1>8, <1>9, <1>10, <1>11 DEF OInv

\* An order written by hand has no sources and follows no conversion.
LEMMA CreateOInv ==
  ASSUME OInv, TypeOK', NEW o \in PO, NEW lines \in Lines, CreatePO(o, lines)
  PROVE  OInv'
<1>1. /\ status[o] = "none" /\ status' = [status EXCEPT ![o] = "draft"]
      /\ sources' = [sources EXCEPT ![o] = {}] /\ follows' = [follows EXCEPT ![o] = {}]
      /\ UNCHANGED <<rec, task>>
  BY DEF CreatePO, NewOrder
<1>2. sources' = sources
  BY <1>1 DEF OInv, TypeOK, NewAreSourceless
<1>3. \A p \in PO : follows'[p] \subseteq follows[p]
  BY <1>1 DEF OInv, TypeOK
<1>4. NewAreSourceless'
  BY <1>1, <1>2 DEF OInv, TypeOK, NewAreSourceless
<1>5. SourcesAreMarked' /\ ReadsWerePending'
  BY <1>1, <1>2 DEF OInv, SourcesAreMarked, ReadsWerePending
<1>6. FollowedAreConverted' /\ OrderedOnce'
  BY <1>2, <1>3 DEF OInv, FollowedAreConverted, OrderedOnce
<1> QED BY <1>4, <1>5, <1>6 DEF OInv

LEMMA StepOInv ==
  ASSUME OInv, TypeOK', [Next]_vars
  PROVE  OInv'
<1>1. CASE UNCHANGED vars
  BY <1>1, QuietOInv DEF vars, orders
<1>2. ASSUME NEW o \in PO, NEW lines \in Lines, UpdatePO(o, lines)
      PROVE  OInv'
  BY <1>2, QuietOInv DEF UpdatePO
<1>3. ASSUME NEW o \in PO, NEW lines \in Lines, Receive(o, lines)
      PROVE  OInv'
  <2>1. /\ UNCHANGED <<sources, follows, rec, task>>
        /\ status' = [status EXCEPT ![o] = ReceivedStatus(o, lines)]
        /\ ReceivedStatus(o, lines) # "none"
    BY <1>3 DEF Receive, ReceivedStatus
  <2>2. \A q \in PO : status'[q] = "none" => status[q] = "none"
    BY <2>1 DEF OInv, TypeOK
  <2> QED BY <2>1, <2>2, QuietOInv
<1>4. ASSUME NEW o \in PO, NEW action \in Actions, ApplyAction(o, action)
      PROVE  OInv'
  <2> PICK target \in Statuses : /\ target # "none" /\ status' = [status EXCEPT ![o] = target]
                                 /\ UNCHANGED <<sources, follows, rec, task>>
    BY <1>4 DEF ApplyAction, Transitions
  <2>1. \A q \in PO : status'[q] = "none" => status[q] = "none"
    BY DEF OInv, TypeOK
  <2> QED BY <2>1, QuietOInv
<1>5. ASSUME NEW p \in Product, Consume(p)
      PROVE  OInv'
  BY <1>5, QuietOInv DEF Consume, orders
<1>6. ASSUME NEW p \in Product, NEW s \in Session, ReadStock(s, p)
      PROVE  OInv'
  <2>1. UNCHANGED <<status, sources, follows, rec>>
    BY <1>6 DEF ReadStock, orders
  <2>2. task' = [task EXCEPT ![s] =
                   [kind |-> "run", product |-> p, available |-> onHand[p]]]
    BY <1>6 DEF ReadStock
  <2>3. \A t \in Session : task'[t] = task[t] \/ task'[t].kind # "convert"
    BY <2>2 DEF OInv, TypeOK
  <2> QED BY <2>1, <2>3, QuietOInv
<1>7. ASSUME NEW s \in Session, Abandon(s)
      PROVE  OInv'
  <2>1. UNCHANGED <<status, sources, follows, rec>> /\ task' = [task EXCEPT ![s] = Idle]
    BY <1>7 DEF Abandon, orders
  <2>2. \A t \in Session : task'[t] = task[t] \/ task'[t].kind # "convert"
    BY <2>1 DEF OInv, TypeOK, Idle
  <2> QED BY <2>1, <2>2, QuietOInv
<1> QED BY <1>1, <1>2, <1>3, <1>4, <1>5, <1>6, <1>7, CreateOInv, ConvertOInv, RecommendOInv,
           ReadRecsOInv DEF Next

\* However many requests convert recommendations at the same time, two orders share
\* one only if neither conversion had committed when the other read.
THEOREM OrderedOnceUnlessRaced ==
  ASSUME ProcurementAssumption
  PROVE  Spec => []OrderedOnce
<1>1. Init => OInv
  <2> SUFFICES ASSUME Init PROVE OInv
    OBVIOUS
  <2>1. TypeOK
    BY InitIInv DEF IInv
  <2> QED BY <2>1 DEF Init, OInv, SourcesAreMarked, ReadsWerePending, FollowedAreConverted,
                      NewAreSourceless, OrderedOnce, Idle
<1>2. OInv /\ TypeOK' /\ [Next]_vars => OInv'
  BY StepOInv
<1>3. OInv => OrderedOnce
  BY DEF OInv
<1>4. Spec => []TypeOK
  BY Typing
<1> QED BY <1>1, <1>2, <1>3, <1>4, PTL DEF Spec

-----------------------------------------------------------------------------
(* The arithmetic of planning                                              *)

\* A rounded-up quotient is the least number of parts that hold the whole.
LEMMA CeilDivision ==
  ASSUME NEW a \in Nat, NEW b \in Nat \ {0}
  PROVE  /\ CeilDiv(a, b) \in Nat
         /\ a <= CeilDiv(a, b) * b /\ CeilDiv(a, b) * b < a + b
  BY SMT DEF CeilDiv

\* No smaller number of parts holds the whole.
LEMMA CeilLeast ==
  ASSUME NEW a \in Nat, NEW b \in Nat \ {0}, NEW n \in Nat, a <= n * b
  PROVE  CeilDiv(a, b) <= n
<1> PICK c \in Nat : c = CeilDiv(a, b) /\ c * b < a + b
  BY CeilDivision
<1>1. c * b < (n + 1) * b
  BY SMT
<1>2. c < n + 1
  BY <1>1, SMT
<1> QED BY <1>2

\* More needs at least as many parts.
LEMMA CeilMonotone ==
  ASSUME NEW a \in Nat, NEW d \in Nat, NEW b \in Nat \ {0}, a <= d
  PROVE  CeilDiv(a, b) <= CeilDiv(d, b)
<1>1. CeilDiv(d, b) \in Nat /\ d <= CeilDiv(d, b) * b
  BY CeilDivision
<1>2. a <= CeilDiv(d, b) * b
  BY <1>1, CeilDivision, SMT
<1> QED BY <1>1, <1>2, CeilLeast

-----------------------------------------------------------------------------
(* Reorder                                                                 *)

FullCartons(qty, carton) == \E n \in Nat : qty = n * carton

\* A quantity in full cartons: enough, and less than a carton too much.
LEMMA RoundedUp ==
  ASSUME NEW qty \in Nat, NEW carton \in Nat \ {0}
  PROVE  /\ RoundUpToCarton(qty, carton) \in Nat
         /\ \E n \in Nat : RoundUpToCarton(qty, carton) = n * carton
         /\ qty <= RoundUpToCarton(qty, carton)
         /\ RoundUpToCarton(qty, carton) < qty + carton
<1> PICK n \in Nat : n = CeilDiv(qty, carton) /\ qty <= n * carton /\ n * carton < qty + carton
  BY CeilDivision
<1>1. n * carton \in Nat
  BY SMT
<1> QED BY <1>1 DEF RoundUpToCarton

\* The order quantity is in full cartons, covers what is needed and reaches the
\* minimum, without a carton more than either asks for; nothing is ordered
\* exactly when nothing is needed (rounding.py).
THEOREM OrderQuantity ==
  \A raw \in Nat, carton \in Nat \ {0}, moq \in Nat :
    LET qty == EnforceOrderQuantity(raw, carton, moq)
    IN  /\ FullCartons(qty, carton)
        /\ raw <= qty
        /\ raw > 0 => moq <= qty /\ qty < Larger(raw, moq) + carton
        /\ qty = 0 <=> raw = 0
<1> SUFFICES ASSUME NEW raw \in Nat, NEW carton \in Nat \ {0}, NEW moq \in Nat,
                    NEW qty, qty = EnforceOrderQuantity(raw, carton, moq)
             PROVE  /\ FullCartons(qty, carton)
                    /\ raw <= qty
                    /\ raw > 0 => moq <= qty /\ qty < Larger(raw, moq) + carton
                    /\ qty = 0 <=> raw = 0
  OBVIOUS
<1> PICK units \in Nat : units = RoundUpToCarton(raw, carton)
  BY RoundedUp
<1> PICK least \in Nat : least = RoundUpToCarton(moq, carton)
  BY RoundedUp
<1>1. (\E n \in Nat : units = n * carton) /\ raw <= units /\ units < raw + carton
  BY RoundedUp
<1>2. (\E n \in Nat : least = n * carton) /\ moq <= least /\ least < moq + carton
  BY RoundedUp
<1>3. raw = 0 => units = 0
  BY SMT DEF RoundUpToCarton, CeilDiv
<1>4. qty = IF raw > 0 /\ units < moq THEN least ELSE units
  BY DEF EnforceOrderQuantity
<1>5. CASE raw > 0 /\ units < moq
  <2>1. qty = least
    BY <1>4, <1>5
  <2>2. raw < moq
    BY <1>1, <1>5
  <2>3. Larger(raw, moq) = moq
    BY <2>2 DEF Larger
  <2>4. FullCartons(qty, carton)
    BY <1>2, <2>1 DEF FullCartons
  <2>5. raw <= qty /\ moq <= qty /\ qty < moq + carton /\ qty > 0
    BY <1>2, <1>5, <2>1, <2>2
  <2> QED BY <1>5, <2>3, <2>4, <2>5
<1>6. CASE ~(raw > 0 /\ units < moq)
  <2>1. qty = units
    BY <1>4, <1>6
  <2>2. FullCartons(qty, carton)
    BY <1>1, <2>1 DEF FullCartons
  <2>3. raw <= Larger(raw, moq)
    BY DEF Larger
  <2>4. Larger(raw, moq) \in Nat
    BY DEF Larger
  <2>5. raw <= qty /\ (raw > 0 => moq <= qty /\ qty < Larger(raw, moq) + carton)
    BY <1>1, <1>6, <2>1, <2>3, <2>4
  <2>6. qty = 0 <=> raw = 0
    BY <1>1, <1>3, <2>1
  <2> QED BY <2>2, <2>5, <2>6
<1> QED BY <1>5, <1>6

\* The three levels of a policy are natural numbers, in this order.
LEMMA Levels ==
  ASSUME NEW p \in Policy
  PROVE  ReorderPoint(p) \in Nat /\ OrderUpTo(p) \in Nat /\ ReorderPoint(p) <= OrderUpTo(p)
<1>1. /\ p.demand \in Nat /\ p.lead \in Nat /\ p.review \in Nat /\ p.safety \in Nat
      /\ p.extra \in Nat /\ p.buffer \in Nat /\ p.override \in Nat
  BY DEF Policy
<1>2. /\ p.demand * p.extra \in Nat /\ p.demand * (p.lead + p.extra) \in Nat
      /\ p.demand * (p.lead + p.extra + p.review) \in Nat
  BY <1>1
<1>3. ReorderPoint(p) \in Nat
  BY <1>1, <1>2 DEF ReorderPoint
<1> QED BY <1>1, <1>2, <1>3 DEF OrderUpTo, Larger

\* What is recommended brings the position from the reorder point or below up to
\* the order-up-to level, which is above the reorder point, manual or not: ordering
\* it once is enough (engine.py).
THEOREM ReorderRefills ==
  ASSUME NEW p \in Policy, NEW position \in Int, position <= ReorderPoint(p)
  PROVE  /\ OrderUpTo(p) <= position + ComputeReorder(p, position)
         /\ ReorderPoint(p) <= position + ComputeReorder(p, position)
<1> PICK raw \in Nat : raw = Raw(p, position) /\ OrderUpTo(p) <= position + raw
  BY Levels DEF Raw, Larger
<1>1. p.carton \in Nat \ {0} /\ p.moq \in Nat
  BY DEF Policy
<1> PICK qty : qty = ComputeReorder(p, position)
  OBVIOUS
<1>2. FullCartons(qty, p.carton) /\ raw <= qty
  <2> PICK carton \in Nat \ {0}, moq \in Nat : carton = p.carton /\ moq = p.moq
    BY <1>1
  <2>1. qty = EnforceOrderQuantity(raw, carton, moq)
    BY DEF ComputeReorder
  <2>2. FullCartons(qty, carton) /\ raw <= qty
    BY <2>1, OrderQuantity
  <2> QED BY <2>2
<1>3. qty \in Nat
  BY <1>1, <1>2 DEF FullCartons
<1> QED BY <1>2, <1>3, Levels

\* The same policy under a greater risk.
Riskier(p, r) ==
  /\ p.extra <= r.extra /\ p.buffer <= r.buffer
  /\ r = [p EXCEPT !.extra = r.extra, !.buffer = r.buffer]

\* A risk that delays the supplier or adds to the safety stock never lowers the
\* reorder point, the order-up-to level or what is needed (risk.py): "raises the
\* reorder point and pulls orders forward".
THEOREM RiskPullsForward ==
  ASSUME NEW p \in Policy, NEW r \in Policy, Riskier(p, r), NEW position \in Int
  PROVE  /\ ReorderPoint(p) <= ReorderPoint(r) /\ OrderUpTo(p) <= OrderUpTo(r)
         /\ Raw(p, position) <= Raw(r, position)
<1>1. /\ p.demand \in Nat /\ p.lead \in Nat /\ p.review \in Nat /\ p.safety \in Nat
      /\ p.extra \in Nat /\ p.buffer \in Nat /\ p.override \in Nat /\ p.manual \in BOOLEAN
      /\ r.extra \in Nat /\ r.buffer \in Nat
  BY DEF Policy
<1>2. /\ r.demand = p.demand /\ r.lead = p.lead /\ r.review = p.review
      /\ r.safety = p.safety /\ r.override = p.override /\ r.manual = p.manual
      /\ p.extra <= r.extra /\ p.buffer <= r.buffer
  BY DEF Policy, Riskier
<1>3. \A a, b, d \in Nat : a <= b => d * a <= d * b /\ d * a \in Nat /\ d * b \in Nat
  BY SMT
<1>4. /\ p.demand * p.extra <= p.demand * r.extra
      /\ p.demand * (p.lead + p.extra) <= p.demand * (p.lead + r.extra)
      /\ p.demand * (p.lead + p.extra + p.review) <= p.demand * (p.lead + r.extra + p.review)
  <2>1. /\ p.lead + p.extra \in Nat /\ p.lead + r.extra \in Nat
        /\ p.lead + p.extra + p.review \in Nat /\ p.lead + r.extra + p.review \in Nat
        /\ p.lead + p.extra <= p.lead + r.extra
        /\ p.lead + p.extra + p.review <= p.lead + r.extra + p.review
    BY <1>1, <1>2
  <2> QED BY <1>1, <1>2, <1>3, <2>1
<1>5. /\ p.demand * p.extra \in Nat /\ p.demand * r.extra \in Nat
      /\ p.demand * (p.lead + p.extra) \in Nat /\ p.demand * (p.lead + r.extra) \in Nat
      /\ p.demand * (p.lead + p.extra + p.review) \in Nat
      /\ p.demand * (p.lead + r.extra + p.review) \in Nat
  BY <1>1
<1>6. ReorderPoint(p) <= ReorderPoint(r)
  BY <1>1, <1>2, <1>4, <1>5 DEF ReorderPoint
<1>7. OrderUpTo(p) <= OrderUpTo(r)
  BY <1>1, <1>2, <1>4, <1>5, <1>6, Levels DEF OrderUpTo, Larger
<1>8. Raw(p, position) <= Raw(r, position)
  BY <1>6, <1>7, Levels DEF Raw, Larger
<1> QED BY <1>6, <1>7, <1>8

-----------------------------------------------------------------------------
(* Containers                                                              *)

\* A load fits the containers planned for it, by volume and by weight.
LEMMA LoadFits ==
  ASSUME NEW load \in Load, NEW spec \in ContainerSpec
  PROVE  /\ Containers(load, spec) \in Nat
         /\ ~IsEmpty(load) => /\ load.volume <= Containers(load, spec) * spec.volume
                              /\ load.weight <= Containers(load, spec) * spec.payload
<1>1. /\ load.volume \in Nat /\ load.weight \in Nat
      /\ spec.volume \in Nat \ {0} /\ spec.payload \in Nat \ {0}
  BY DEF Load, ContainerSpec
<1> PICK v \in Nat : v = CeilDiv(load.volume, spec.volume) /\ load.volume <= v * spec.volume
  BY <1>1, CeilDivision
<1> PICK w \in Nat : w = CeilDiv(load.weight, spec.payload) /\ load.weight <= w * spec.payload
  BY <1>1, CeilDivision
<1> PICK n : n = Containers(load, spec)
  OBVIOUS
<1>2. CASE IsEmpty(load)
  BY <1>2 DEF Containers
<1>3. CASE ~IsEmpty(load)
  <2>1. n \in Nat /\ v <= n /\ w <= n
    BY <1>3 DEF Containers, Larger
  <2>2. v * spec.volume <= n * spec.volume /\ w * spec.payload <= n * spec.payload
    BY <1>1, <2>1
  <2>3. /\ v * spec.volume \in Nat /\ n * spec.volume \in Nat
        /\ w * spec.payload \in Nat /\ n * spec.payload \in Nat
    BY <1>1, <2>1
  <2> QED BY <1>1, <2>1, <2>2, <2>3
<1> QED BY <1>2, <1>3

\* The plan of a load that is not empty is the least number of containers it fits
\* in, by volume and by weight (plan: "so the load fits on *both* dimensions").
THEOREM ContainersAreLeast ==
  ASSUME NEW load \in Load, NEW spec \in ContainerSpec, ~IsEmpty(load)
  PROVE  /\ load.volume <= Containers(load, spec) * spec.volume
         /\ load.weight <= Containers(load, spec) * spec.payload
         /\ \A n \in Nat \ {0} :
              load.volume <= n * spec.volume /\ load.weight <= n * spec.payload =>
                Containers(load, spec) <= n
<1>1. /\ load.volume \in Nat /\ load.weight \in Nat
      /\ spec.volume \in Nat \ {0} /\ spec.payload \in Nat \ {0}
  BY DEF Load, ContainerSpec
<1>2. ASSUME NEW n \in Nat \ {0}, load.volume <= n * spec.volume, load.weight <= n * spec.payload
      PROVE  Containers(load, spec) <= n
  <2>1. CeilDiv(load.volume, spec.volume) <= n /\ CeilDiv(load.weight, spec.payload) <= n
    BY <1>1, <1>2, CeilLeast
  <2>2. CeilDiv(load.volume, spec.volume) \in Nat /\ CeilDiv(load.weight, spec.payload) \in Nat
    BY <1>1, CeilDivision
  <2> QED BY <2>1, <2>2 DEF Containers, Larger
<1> QED BY <1>2, LoadFits

\* The cartons suggested to top off a shipment fit: with them it still needs the
\* containers it has (container/service.py: "at no extra container").
THEOREM TopOffIsFree ==
  ASSUME NEW load \in Load, NEW spec \in ContainerSpec, ~IsEmpty(load),
         NEW volume \in Nat \ {0}, NEW weight \in Nat \ {0},
         NEW n \in Nat, n <= AdditionalCartons(load, spec, volume, weight)
  PROVE  Containers(Topped(load, n, volume, weight), spec) = Containers(load, spec)
<1>1. /\ load.cartons \in Nat /\ load.volume \in Nat /\ load.weight \in Nat
      /\ spec.volume \in Nat \ {0} /\ spec.payload \in Nat \ {0}
  BY DEF Load, ContainerSpec
<1> PICK c \in Nat : c = Containers(load, spec)
  BY LoadFits
<1> DEFINE sv == c * spec.volume - load.volume
           sw == c * spec.payload - load.weight
           top == Topped(load, n, volume, weight)
<1>2. sv \in Nat /\ sw \in Nat
  <2>1. c * spec.volume \in Nat /\ c * spec.payload \in Nat
    BY <1>1
  <2> QED BY <1>1, <2>1, LoadFits
<1> HIDE DEF sv, sw
<1>3. n * volume <= sv /\ n * weight <= sw
  <2>1. \A a \in Nat, b \in Nat \ {0} :
          a \div b \in Nat /\ (a \div b) * b <= a
    BY SMT
  <2>2. AdditionalCartons(load, spec, volume, weight) = Smaller(sv \div volume, sw \div weight)
    BY DEF AdditionalCartons, SpareVolume, SpareWeight, sv, sw
  <2>3. n <= sv \div volume /\ n <= sw \div weight
    BY <1>2, <2>1, <2>2 DEF Smaller
  <2>4. \A a \in Nat, b \in Nat, d \in Nat \ {0} : a <= b => a * d <= b * d /\ a * d \in Nat /\ b * d \in Nat
    BY SMT
  <2>5. n * volume <= (sv \div volume) * volume /\ n * weight <= (sw \div weight) * weight
    BY <1>2, <2>1, <2>3, <2>4
  <2>6. n * volume \in Nat /\ n * weight \in Nat /\ (sv \div volume) * volume \in Nat
          /\ (sw \div weight) * weight \in Nat
    BY <1>2, <2>1, <2>4
  <2> QED BY <1>2, <2>1, <2>5, <2>6
<1>4. n * volume \in Nat /\ n * weight \in Nat
  BY SMT
<1>5. /\ top \in Load /\ ~IsEmpty(top)
      /\ top.volume = load.volume + n * volume /\ top.weight = load.weight + n * weight
  BY <1>1, <1>4 DEF Topped, Load, IsEmpty
<1>6. load.volume + n * volume <= c * spec.volume /\ load.weight + n * weight <= c * spec.payload
  <2>1. c * spec.volume \in Nat /\ c * spec.payload \in Nat
    BY <1>1
  <2> QED BY <1>1, <1>2, <1>3, <1>4, <2>1 DEF sv, sw
<1>7. c # 0
  <2>1. CeilDiv(load.volume, spec.volume) \in Nat /\ CeilDiv(load.weight, spec.payload) \in Nat
    BY <1>1, CeilDivision
  <2> QED BY <2>1 DEF Containers, Larger
<1> PICK t \in Nat : t = Containers(top, spec)
  BY <1>5, LoadFits
<1>8. t <= c
  BY <1>5, <1>6, <1>7, ContainersAreLeast
<1>9. c <= t
  <2> HIDE DEF top
  <2>0. top.volume \in Nat /\ top.weight \in Nat /\ load.volume <= top.volume /\ load.weight <= top.weight
    BY <1>1, <1>4, <1>5
  <2>1. CeilDiv(load.volume, spec.volume) <= CeilDiv(top.volume, spec.volume)
    BY <1>1, <2>0, CeilMonotone
  <2>2. CeilDiv(load.weight, spec.payload) <= CeilDiv(top.weight, spec.payload)
    BY <1>1, <2>0, CeilMonotone
  <2>3. /\ CeilDiv(load.volume, spec.volume) \in Nat /\ CeilDiv(top.volume, spec.volume) \in Nat
        /\ CeilDiv(load.weight, spec.payload) \in Nat /\ CeilDiv(top.weight, spec.payload) \in Nat
    BY <1>1, <2>0, CeilDivision
  <2> QED BY <1>5, <2>1, <2>2, <2>3 DEF Containers, Larger
<1> QED BY <1>8, <1>9

-----------------------------------------------------------------------------
(* Assembly                                                                *)

\* A recommendation never asks for more than there is to build from or for more
\* than the target, and follows it to the end: after it the target is met or
\* nothing is left to build from; a gap recommends nothing (planner.py).
THEOREM AssemblyMeetsTarget ==
  ASSUME NEW c \in Combo
  PROVE  /\ Assemble(c) \in 0..c.unassembled
         /\ Assemble(c) > 0 => c.assembled + Assemble(c) <= c.target
         /\ IsThin(c) => \/ c.target <= c.assembled + Assemble(c)
                         \/ Assemble(c) = c.unassembled
         /\ IsGap(c) => Assemble(c) = 0
  BY SMT DEF Combo, Assemble, IsThin, IsGap, Larger, Smaller
-----------------------------------------------------------------------------
(* Service follow-up                                                       *)

\* A longer interval is never scaled to a shorter gap, however ties are rounded.
LEMMA GapsMonotone ==
  ASSUME NEW scaled \in Scalings, NEW u \in Usages,
         NEW i \in Nat \ {0}, NEW j \in Nat \ {0}, i <= j
  PROVE  scaled[i][u] <= scaled[j][u]
<1> PICK g \in Nat \ {0} : g = scaled[i][u] /\ g \in Gaps(i, u)
  BY DEF Scalings
<1> PICK h \in Nat \ {0} : h = scaled[j][u] /\ h \in Gaps(j, u)
  BY DEF Scalings
<1>0. i = j => g = h
  OBVIOUS
<1>1. CASE u = "light"
  BY <1>0, <1>1, SMT DEF Gaps
<1>2. CASE u = "medium"
  BY <1>0, <1>2, SMT DEF Gaps
<1>3. CASE u = "heavy"
  BY <1>0, <1>3, SMT DEF Gaps
<1> QED BY <1>1, <1>2, <1>3 DEF Usages

\* Heavy use is never due later than medium, and medium never later than light
\* (schedule.py, USAGE_MULTIPLIERS with the rounding of scaled_interval).
THEOREM HarderUseIsSooner ==
  \A i \in Nat \ {0} :
    \A h \in Gaps(i, "heavy"), m \in Gaps(i, "medium"), l \in Gaps(i, "light") :
      h <= m /\ m <= l
BY SMT DEF Gaps

\* There is a next gap for every interval and usage: max(1, round(...)) never has
\* to lift a rounded gap of 0.
THEOREM GapsExist ==
  \A i \in Nat \ {0}, u \in Usages : Gaps(i, u) # {}
<1> SUFFICES ASSUME NEW i \in Nat \ {0}, NEW u \in Usages PROVE Gaps(i, u) # {}
  OBVIOUS
<1>1. CASE u = "medium"
  <2>1. i \in Gaps(i, u)
    BY <1>1 DEF Gaps
  <2> QED BY <2>1
<1>2. CASE u = "heavy"
  <2> PICK g \in Nat : g = (7 * i + 5) \div 10
    BY SMT
  <2>1. g # 0 /\ -5 <= 10 * g - 7 * i /\ 10 * g - 7 * i <= 5
    BY SMT
  <2>2. g \in Gaps(i, u)
    BY <1>2, <2>1 DEF Gaps
  <2> QED BY <2>2
<1>3. CASE u = "light"
  <2> PICK q \in Nat : q = i \div 4
    BY SMT
  <2> PICK r \in 0..3 : i = 4 * q + r
    BY SMT
  <2>1. CASE r = 0
    <3> DEFINE g == 5 * q
    <3>1. g \in Nat \ {0} /\ 4 * g - 5 * i = 0
      BY <2>1, SMT
    <3>2. g \in Gaps(i, u)
      BY <1>3, <3>1 DEF Gaps
    <3> QED BY <3>2
  <2>2. CASE r = 1
    <3> DEFINE g == 5 * q + 1
    <3>1. g \in Nat \ {0} /\ 4 * g - 5 * i = -1
      BY <2>2, SMT
    <3>2. g \in Gaps(i, u)
      BY <1>3, <3>1 DEF Gaps
    <3> QED BY <3>2
  <2>3. CASE r = 2
    <3> PICK k \in Nat : q = 2 * k \/ q = 2 * k + 1
      <4>1. q \div 2 \in Nat /\ (q = 2 * (q \div 2) \/ q = 2 * (q \div 2) + 1)
        BY SMT
      <4> QED BY <4>1
    <3>1. CASE q = 2 * k
      <4> DEFINE g == 5 * q + 2
      <4>1. g \in Nat \ {0} /\ 4 * g - 5 * i = -2 /\ g % 2 = 0
        BY <2>3, <3>1, SMT
      <4>2. g \in Gaps(i, u)
        BY <1>3, <4>1 DEF Gaps
      <4> QED BY <4>2
    <3>2. CASE q = 2 * k + 1
      <4> DEFINE g == 5 * q + 3
      <4>1. g \in Nat \ {0} /\ 4 * g - 5 * i = 2 /\ g % 2 = 0
        BY <2>3, <3>2, SMT
      <4>2. g \in Gaps(i, u)
        BY <1>3, <4>1 DEF Gaps
      <4> QED BY <4>2
    <3> QED BY <3>1, <3>2
  <2>4. CASE r = 3
    <3> DEFINE g == 5 * q + 4
    <3>1. g \in Nat \ {0} /\ 4 * g - 5 * i = 1
      BY <2>4, SMT
    <3>2. g \in Gaps(i, u)
      BY <1>3, <3>1 DEF Gaps
    <3> QED BY <3>2
  <2> QED BY <2>1, <2>2, <2>3, <2>4, SMT
<1> QED BY <1>1, <1>2, <1>3 DEF Usages

\* Every service number has a stage.
LEMMA StageForTyping ==
  ASSUME NEW stages \in Schedules, NEW n \in Nat \ {0}
  PROVE  StageFor(stages, n).interval \in Nat \ {0}
<1>1. Len(stages) \in Nat \ {0}
  BY SMT DEF Schedules
<1>2. \A k \in 1..Len(stages) : stages[k] \in Stage
  BY SMT DEF Schedules
<1> QED BY <1>1, <1>2, SMT DEF StageFor, Stage

\* A later date and a longer gap end later.
LEMMA LaterAndLonger ==
  ASSUME NEW a \in Int, NEW b \in Int, NEW g \in Nat, NEW h \in Nat, a <= b, g <= h
  PROVE  a + g <= b + h
OBVIOUS

\* A logged service is counted, and the last one is not before it.
LEMMA LoggedTyping ==
  ASSUME NEW unit \in Unit, NEW date \in Int, Nil \notin Int
  PROVE  /\ LogService(unit, date) \in Unit
         /\ LogService(unit, date).last \in Int /\ LogService(unit, date).last >= date
         /\ LogService(unit, date).done = unit.done + 1
         /\ LogService(unit, date).usage = unit.usage
<1> PICK last : last = (IF unit.last = Nil \/ unit.last < date THEN date ELSE unit.last)
  OBVIOUS
<1>1. last \in Int /\ last >= date
  <2>1. CASE unit.last = Nil
    BY <2>1
  <2>2. CASE unit.last # Nil
    <3>1. unit.last \in Int
      BY <2>2 DEF Unit
    <3> QED BY <2>2, <3>1, SMT
  <2> QED BY <2>1, <2>2
<1>2. LogService(unit, date) = [unit EXCEPT !.done = unit.done + 1, !.last = last]
  BY DEF LogService
<1> PICK done \in Nat : done = unit.done + 1
  BY SMT DEF Unit
<1>3. LogService(unit, date) = [unit EXCEPT !.done = done, !.last = last]
  BY <1>2
<1> QED BY <1>1, <1>3 DEF Unit

\* A service logged for today leaves the unit with a next service, and not overdue:
\* the last stage repeats for the life of the unit (schedule.py, stage_for).
THEOREM LoggedTodayIsNotOverdue ==
  ASSUME NEW unit \in Unit, NEW stages \in Schedules, NEW scaled \in Scalings, NEW today \in Int,
         Nil \notin Int, CanLog(unit)
  PROVE  /\ NextDue(LogService(unit, today), stages, scaled) \in Int
         /\ Status(NextDue(LogService(unit, today), stages, scaled), today) # "overdue"
<1> PICK after : after = LogService(unit, today)
  OBVIOUS
<1>1. after \in Unit /\ after.last \in Int /\ after.last >= today
  BY LoggedTyping
<1>2. Anchor(after) = after.last /\ Anchor(after) # Nil
  BY <1>1 DEF Anchor
<1>3. after.done + 1 \in Nat \ {0} /\ after.usage \in Usages
  BY <1>1, SMT DEF Unit
<1> PICK i \in Nat \ {0} : i = StageFor(stages, after.done + 1).interval
  BY <1>3, StageForTyping
<1> PICK g \in Nat \ {0} : g = scaled[i][after.usage]
  BY <1>3 DEF Scalings
<1>4. NextDue(after, stages, scaled) = after.last + g
  BY <1>2 DEF NextDue
<1> PICK due \in Int : due = after.last + g
  BY <1>1, SMT
<1>5. ~(due - today < 0)
  BY <1>1, SMT
<1>6. Status(due, today) \in {"due_soon", "upcoming"}
  BY <1>5 DEF Status
<1>7. Status(due, today) # "overdue"
  BY <1>6
<1> QED BY <1>4, <1>7

\* In a schedule whose gaps grow, logging a service never brings the next one
\* forward, if another one is logged already or it is not dated before the sale
\* (service.py, log_service, compares neither date, and a service of an earlier
\* sale of the unit counts as the last).
THEOREM LoggingNeverBringsForward ==
  ASSUME NEW unit \in Unit, NEW stages \in Schedules, NEW scaled \in Scalings, NEW date \in Int,
         Nil \notin Int, CanLog(unit), GapsGrow(stages),
         unit.last # Nil \/ unit.sale <= date
  PROVE  NextDue(unit, stages, scaled) <= NextDue(LogService(unit, date), stages, scaled)
<1> PICK after : after = LogService(unit, date)
  OBVIOUS
<1>1. after \in Unit /\ after.last \in Int /\ after.done = unit.done + 1 /\ after.usage = unit.usage
  BY LoggedTyping
<1>2. unit.sale \in Int /\ unit.done \in Nat /\ unit.usage \in Usages
  BY DEF Unit, CanLog
<1>3. Anchor(unit) \in Int /\ Anchor(after) \in Int /\ Anchor(unit) <= Anchor(after)
  <2>1. CASE unit.last = Nil
    <3>1. after.last = date
      BY <2>1 DEF LogService, Unit
    <3> QED BY <2>1, <3>1, <1>1, <1>2 DEF Anchor
  <2>2. CASE unit.last # Nil
    <3>1. unit.last \in Int
      BY <2>2 DEF Unit
    <3>2. unit.last <= after.last
      BY <2>2, <3>1, SMT DEF LogService, Unit
    <3> QED BY <2>2, <3>1, <3>2, <1>1 DEF Anchor
  <2> QED BY <2>1, <2>2
<1>4. unit.done + 1 \in Nat \ {0} /\ unit.done + 2 \in Nat \ {0}
  BY <1>2, SMT
<1> PICK i \in Nat \ {0} : i = StageFor(stages, unit.done + 1).interval
  BY <1>4, StageForTyping
<1> PICK j \in Nat \ {0} : j = StageFor(stages, unit.done + 2).interval
  BY <1>4, StageForTyping
<1> PICK n \in Nat \ {0} : n = Len(stages)
  BY SMT DEF Schedules
<1>5. i <= j
  <2>1. \A a, b \in 1..n : a <= b => stages[a].interval <= stages[b].interval
    BY DEF GapsGrow, Schedules
  <2>2. i = stages[IF unit.done + 1 <= n THEN unit.done + 1 ELSE n].interval
    BY DEF StageFor
  <2>3. j = stages[IF unit.done + 2 <= n THEN unit.done + 2 ELSE n].interval
    BY DEF StageFor
  <2>4. CASE unit.done + 2 <= n
    BY <1>2, <2>1, <2>2, <2>3, <2>4
  <2>5. CASE unit.done + 1 = n
    BY <1>2, <2>2, <2>3, <2>5
  <2>6. CASE unit.done + 1 > n
    BY <1>2, <2>2, <2>3, <2>6
  <2> QED BY <1>2, <2>4, <2>5, <2>6
<1> PICK g \in Nat \ {0} : g = scaled[i][unit.usage]
  BY <1>2 DEF Scalings
<1> PICK h \in Nat \ {0} : h = scaled[j][unit.usage]
  BY <1>2 DEF Scalings
<1>6. g <= h
  BY <1>2, <1>5, GapsMonotone
<1>7. NextDue(unit, stages, scaled) = Anchor(unit) + g
  BY <1>3 DEF NextDue
<1>8. unit.done + 1 + 1 = unit.done + 2
  BY <1>2, SMT
<1>9. NextDue(after, stages, scaled) = Anchor(after) + h
  BY <1>1, <1>3, <1>8 DEF NextDue
<1>10. Anchor(unit) + g <= Anchor(after) + h
  <2> PICK a, b \in Int : a = Anchor(unit) /\ b = Anchor(after)
    BY <1>3
  <2>1. a <= b
    BY <1>3
  <2>2. a + g <= b + h
    BY <1>6, <2>1, LaterAndLonger
  <2> QED BY <2>2
<1> QED BY <1>7, <1>9, <1>10

\* The schedule used without a plan grows.
THEOREM DefaultGrows == DefaultStages \in Schedules /\ GapsGrow(DefaultStages)
BY SMT DEF DefaultStages, Schedules, Stage, GapsGrow

\* The list, sorted by bucket and then by date, is sorted by date: no unit due
\* later is called before one due sooner (service.py, list_followups).
THEOREM ListIsByDate ==
  ASSUME NEW due1 \in Int, NEW due2 \in Int, NEW today \in Int
  PROVE  ShownBefore(due1, due2, today) <=> due1 < due2
<1>1. Rank["overdue"] = 0 /\ Rank["due_soon"] = 1 /\ Rank["upcoming"] = 2
  BY DEF Rank
<1> QED BY <1>1, SMT DEF ShownBefore, Status, DueSoonDays

-----------------------------------------------------------------------------
(* Imports of a whole file: the rows                                       *)

Replay(rows) == \A r \in DOMAIN rows : rows[r] \in ReplayRow

\* What was read is a quantity and a day for every place.
IsReading(read) == \A x \in Place : read.onHand[x] \in Int /\ read.opening[x] \in Int

\* What is in a row of the targets that post movements.
LEMMA RowFields ==
  ASSUME NEW row
  PROVE  /\ row \in ReplayRow =>
              /\ row.kind \in Replayed /\ row.at \in Place /\ row.qty \in Int /\ row.time \in Time
              /\ row.kind = "transfer" => row.to \in Place
         /\ row \in OpeningRow =>
              row.kind = "opening" /\ row.at \in Place /\ row.qty \in Nat /\ row.time \in Time
         /\ row \in CountRow =>
              row.kind = "count" /\ row.at \in Place /\ row.qty \in Nat /\ row.time \in Time
<1>1. ASSUME row \in ReplayRow
      PROVE  /\ row.kind \in Replayed /\ row.at \in Place /\ row.qty \in Int /\ row.time \in Time
             /\ row.kind = "transfer" => row.to \in Place
  <2>1. CASE row \in [kind : {"receipt", "return", "sale", "adjustment"}, at : Place, qty : Int,
                      time : Time]
    BY <2>1 DEF Replayed
  <2>2. CASE row \in [kind : {"transfer"}, at : Place, to : Place, qty : Int, time : Time]
    BY <2>2 DEF Replayed
  <2> QED BY <1>1, <2>1, <2>2 DEF ReplayRow
<1>2. ASSUME row \in OpeningRow
      PROVE  row.kind = "opening" /\ row.at \in Place /\ row.qty \in Nat /\ row.time \in Time
  BY <1>2 DEF OpeningRow
<1>3. ASSUME row \in CountRow
      PROVE  row.kind = "count" /\ row.at \in Place /\ row.qty \in Nat /\ row.time \in Time
  BY <1>3 DEF CountRow
<1> QED BY <1>1, <1>2, <1>3

LEMMA EffectIsQuantity ==
  ASSUME NEW rows, IsFile(rows), NEW read, IsReading(read), NEW x \in Place, NEW r \in DOMAIN rows
  PROVE  EffectAt(rows, x, read)[r] \in Int
<1>1. rows[r] \in ReplayRow \/ rows[r] \in OpeningRow \/ rows[r] \in CountRow
        \/ rows[r].kind \in OtherKinds
  BY DEF IsFile
<1>2. EffectAt(rows, x, read)[r] = Effect(rows[r], x, read)
  BY DEF EffectAt
<1>3. CASE rows[r] \in ReplayRow
  BY <1>2, <1>3, RowFields DEF Effect, Replayed
<1>4. CASE rows[r] \in OpeningRow
  BY <1>2, <1>4, RowFields DEF Effect
<1>5. CASE rows[r] \in CountRow
  BY <1>2, <1>5, RowFields DEF Effect, IsReading
<1>6. CASE rows[r].kind \in OtherKinds
  BY <1>2, <1>6 DEF Effect, OtherKinds
<1> QED BY <1>1, <1>3, <1>4, <1>5, <1>6

LEMMA EffectsAdd ==
  ASSUME NEW rows, IsFile(rows), NEW read, IsReading(read), NEW x \in Place,
         NEW U \in SUBSET DOMAIN rows
  PROVE  IsFiniteSet(U) /\ SumFunctionOnSet(EffectAt(rows, x, read), U) \in Int
<1>1. IsFiniteSet(U)
  BY FS_Subset DEF IsFile
<1> QED BY <1>1, EffectIsQuantity, SumType

\* The rows of a file are in one order, by day and then by number, or by number.
LEMMA RowOrder ==
  ASSUME NEW rows, IsFile(rows), NEW p \in DOMAIN rows, NEW q \in DOMAIN rows
  PROVE  /\ ~Precedes(rows, p, p)
         /\ p # q => Precedes(rows, p, q) \/ Precedes(rows, q, p)
         /\ Precedes(rows, p, q) =>
              p \in Nat /\ q \in Nat /\ (Replay(rows) => rows[p].time <= rows[q].time)
<1>1. p \in Nat /\ q \in Nat
  BY DEF IsFile
<1>2. CASE Replay(rows)
  <2>1. /\ rows[p].kind \in Replayed /\ rows[q].kind \in Replayed
        /\ rows[p].time \in Int /\ rows[q].time \in Int
    BY <1>2, RowFields, FilesAssumption DEF Replay, Time
  <2> QED BY <1>1, <2>1 DEF Precedes
<1>3. CASE rows[p].kind \notin Replayed /\ rows[q].kind \notin Replayed
  <2>1. ~Replay(rows)
    BY <1>3, RowFields DEF Replay
  <2> QED BY <1>1, <1>3, <2>1 DEF Precedes
<1> QED BY <1>2, <1>3, RowFields DEF IsFile, Replay, OtherKinds, Replayed

\* Some row is the last, and some the first.
LEMMA LastRow ==
  ASSUME NEW rows, IsFile(rows), NEW D \in SUBSET DOMAIN rows, D # {}
  PROVE  \E r \in D : \A q \in D : q = r \/ Precedes(rows, q, r)
<1>1. IsFiniteSet(D) /\ \A r \in D : r \in Nat
  BY FS_Subset DEF IsFile
<1>2. CASE Replay(rows)
  <2> DEFINE day == [r \in D |-> rows[r].time]
  <2>1. \A r \in D : rows[r].kind \in Replayed /\ rows[r].time \in Int
    BY <1>2, RowFields, FilesAssumption DEF Replay, Time
  <2>2. PICK l \in D : \A q \in D : day[q] <= day[l]
    <3>1. \A r \in D : day[r] \in Int
      BY <2>1
    <3> HIDE DEF day
    <3> QED BY <1>1, <3>1, LastOne
  <2> DEFINE L == {r \in D : rows[r].time = rows[l].time}
             number == [r \in L |-> r]
  <2>3. L # {} /\ IsFiniteSet(L)
    BY <1>1, FS_Subset
  <2>4. PICK r \in L : \A q \in L : number[q] <= number[r]
    <3>1. \A q \in L : number[q] \in Int
      BY <1>1
    <3> HIDE DEF number, L
    <3> QED BY <2>3, <3>1, LastOne
  <2>5. \A q \in D : q = r \/ Precedes(rows, q, r)
    <3> SUFFICES ASSUME NEW q \in D, q # r PROVE Precedes(rows, q, r)
      OBVIOUS
    <3>1. rows[q].time <= rows[l].time /\ rows[r].time = rows[l].time
      BY <2>2
    <3>2. CASE rows[q].time = rows[l].time
      <4>1. q <= r
        BY <2>4, <3>2
      <4> QED BY <1>1, <2>1, <3>1, <3>2, <4>1 DEF Precedes
    <3> QED BY <2>1, <3>1, <3>2 DEF Precedes
  <2> QED BY <2>5
<1>3. CASE \A r \in D : rows[r].kind \notin Replayed
  <2> DEFINE number == [r \in D |-> r]
  <2>1. PICK r \in D : \A q \in D : number[q] <= number[r]
    <3>1. \A q \in D : number[q] \in Int
      BY <1>1
    <3> HIDE DEF number
    <3> QED BY <1>1, <3>1, LastOne
  <2>2. \A q \in D : q = r \/ Precedes(rows, q, r)
    BY <1>1, <1>3, <2>1 DEF Precedes
  <2> QED BY <2>2
<1> QED BY <1>2, <1>3, RowFields DEF IsFile, Replay, OtherKinds, Replayed

LEMMA FirstRow ==
  ASSUME NEW rows, IsFile(rows), NEW D \in SUBSET DOMAIN rows, D # {}
  PROVE  \E r \in D : \A q \in D : ~Precedes(rows, q, r)
<1>1. IsFiniteSet(D) /\ \A r \in D : r \in Nat
  BY FS_Subset DEF IsFile
<1>2. CASE Replay(rows)
  <2> DEFINE day == [r \in D |-> -rows[r].time]
  <2>1. \A r \in D : rows[r].kind \in Replayed /\ rows[r].time \in Int
    BY <1>2, RowFields, FilesAssumption DEF Replay, Time
  <2>2. PICK l \in D : \A q \in D : day[q] <= day[l]
    <3>1. \A r \in D : day[r] \in Int
      BY <2>1
    <3> HIDE DEF day
    <3> QED BY <1>1, <3>1, LastOne
  <2> DEFINE L == {r \in D : rows[r].time = rows[l].time}
             number == [r \in L |-> -r]
  <2>3. L # {} /\ IsFiniteSet(L)
    BY <1>1, FS_Subset
  <2>4. PICK r \in L : \A q \in L : number[q] <= number[r]
    <3>1. \A q \in L : number[q] \in Int
      BY <1>1
    <3> HIDE DEF number, L
    <3> QED BY <2>3, <3>1, LastOne
  <2>5. \A q \in D : ~Precedes(rows, q, r)
    <3> SUFFICES ASSUME NEW q \in D, Precedes(rows, q, r) PROVE FALSE
      OBVIOUS
    <3>1. rows[l].time <= rows[q].time /\ rows[r].time = rows[l].time
      <4>1. day[q] <= day[l] /\ day[q] = -rows[q].time /\ day[l] = -rows[l].time
        BY <2>2
      <4> QED BY <2>1, <4>1
    <3>2. rows[q].time = rows[l].time /\ q < r
      BY <2>1, <3>1 DEF Precedes
    <3>3. number[q] <= number[r] /\ number[q] = -q /\ number[r] = -r
      BY <2>4, <3>2
    <3> QED BY <1>1, <3>2, <3>3
  <2> QED BY <2>5
<1>3. CASE \A r \in D : rows[r].kind \notin Replayed
  <2>1. PICK r \in D : \A q \in D : r <= q
    BY <1>1, LeastNatural
  <2>2. \A q \in D : ~Precedes(rows, q, r)
    BY <1>1, <1>3, <2>1 DEF Precedes
  <2> QED BY <2>2
<1> QED BY <1>2, <1>3, RowFields DEF IsFile, Replay, OtherKinds, Replayed

-----------------------------------------------------------------------------
(* Balances that do not become negative                                     *)

\* Whatever comes before a row of P is in P.
Closed(rows, P) ==
  \A r \in P : \A q \in DOMAIN rows : Precedes(rows, q, r) => q \in P

\* Every row of P that takes something from x leaves at least nothing.
Covered(rows, P, x, n, read) ==
  \A r \in P : Effect(rows[r], x, read) < 0 =>
    Balance(rows, DOMAIN rows, r, x, n, read) >= 0

\* If the rows that take leave enough, then so do all: the rows after the last of
\* those add only.
LEMMA NeverShort ==
  ASSUME NEW rows, IsFile(rows), NEW read, IsReading(read), NEW x \in Place, NEW n \in Nat,
         NEW P \in SUBSET DOMAIN rows, Closed(rows, P), Covered(rows, P, x, n, read)
  PROVE  n + SumFunctionOnSet(EffectAt(rows, x, read), P) \in Nat
<1> DEFINE e == EffectAt(rows, x, read)
           D == {r \in P : e[r] < 0}
<1>1. \A r \in P : e[r] \in Int /\ e[r] = Effect(rows[r], x, read)
  BY EffectIsQuantity DEF EffectAt
<1>2. IsFiniteSet(P) /\ SumFunctionOnSet(e, P) \in Int
  BY EffectsAdd
<1>3. CASE D = {}
  <2>1. \A r \in P : e[r] \in Nat
    BY <1>1, <1>3
  <2>2. SumFunctionOnSet(e, P) \in Nat
    BY <1>2, <2>1, SumNat
  <2> QED BY <2>2
<1>4. CASE D # {}
  <2>1. PICK r \in D : \A q \in D : q = r \/ Precedes(rows, q, r)
    BY <1>4, LastRow
  <2> DEFINE T == Through(rows, DOMAIN rows, r)
  <2>2. T \subseteq P /\ P \ T \subseteq P
    BY DEF Through, Closed
  <2>3. \A q \in P \ T : e[q] \in Nat
    BY <1>1, <2>1 DEF Through
  <2>4. IsFiniteSet(T) /\ IsFiniteSet(P \ T)
    BY <1>2, <2>2, FS_Subset
  <2>5. SumFunctionOnSet(e, P \ T) \in Nat
    BY <2>3, <2>4, SumNat
  <2>6. SumFunctionOnSet(e, T) \in Int
    BY <2>2, EffectsAdd
  <2>7. P = T \union (P \ T) /\ T \intersect (P \ T) = {}
    BY <2>2
  <2>8. SumFunctionOnSet(e, P) = SumFunctionOnSet(e, T) + SumFunctionOnSet(e, P \ T)
    BY <1>1, <2>2, <2>4, <2>7, SumUnion
  <2>9. n + SumFunctionOnSet(e, T) >= 0
    BY <1>1, <2>1 DEF Covered, Balance
  <2> HIDE DEF e, T
  <2> QED BY <2>5, <2>6, <2>8, <2>9 DEF e
<1> QED BY <1>3, <1>4

\* What a plan without errors says of its rows: none is wrong or a duplicate, and
\* in the dry run no row takes more than there is.
LEMMA PlanOfRows ==
  ASSUME NEW rows, IsFile(rows), NEW read, IsReading(read), Errors(rows, read) = {}
  PROVE  \A r \in DOMAIN rows :
           /\ ~Duplicate(rows, r) /\ ~Wrong(rows[r], read)
           /\ rows[r].kind \in Drains => DryBalance(rows, DOMAIN rows, r, rows[r].at, read) >= 0
<1>1. \A r \in DOMAIN rows : ~Duplicate(rows, r) /\ ~Wrong(rows[r], read)
  BY DEF Errors
<1>2. FirstShortfall(rows, DOMAIN rows, read) = {}
  <2>1. {r \in DOMAIN rows : Duplicate(rows, r) \/ Wrong(rows[r], read)} = {}
    BY <1>1
  <2>2. DOMAIN rows \ {} = DOMAIN rows
    OBVIOUS
  <2> QED BY <2>1, <2>2 DEF Errors
<1> DEFINE short == {r \in DOMAIN rows : rows[r].kind \in Drains
                       /\ DryBalance(rows, DOMAIN rows, r, rows[r].at, read) < 0}
<1>3. short = {}
  <2> SUFFICES ASSUME short # {} PROVE FALSE
    OBVIOUS
  <2>1. PICK r \in short : \A q \in short : ~Precedes(rows, q, r)
    BY FirstRow
  <2>2. r \in FirstShortfall(rows, DOMAIN rows, read)
    BY <2>1 DEF FirstShortfall
  <2> QED BY <1>2, <2>2
<1>4. ASSUME NEW r \in DOMAIN rows, rows[r].kind \in Drains
      PROVE  DryBalance(rows, DOMAIN rows, r, rows[r].at, read) >= 0
  <2>1. rows[r] \in ReplayRow
    BY <1>4, RowFields DEF IsFile, Drains, OtherKinds
  <2>2. rows[r].at \in Place
    BY <2>1, RowFields
  <2>3. Through(rows, DOMAIN rows, r) \subseteq DOMAIN rows
    BY DEF Through
  <2>4. DryBalance(rows, DOMAIN rows, r, rows[r].at, read) \in Int
    BY <2>2, <2>3, EffectsAdd DEF DryBalance, Balance, IsReading
  <2>5. ~(DryBalance(rows, DOMAIN rows, r, rows[r].at, read) < 0)
    BY <1>3, <1>4
  <2> QED BY <2>4, <2>5
<1> QED BY <1>1, <1>4

\* Rows that are not wrong take from their own place only.
LEMMA Takers ==
  ASSUME NEW rows, IsFile(rows), NEW read, IsReading(read), NEW r \in DOMAIN rows,
         ~Wrong(rows[r], read), NEW x \in Place, Effect(rows[r], x, read) < 0
  PROVE  /\ rows[r].at = x
         /\ (rows[r] \in ReplayRow /\ rows[r].kind \in Drains) \/ rows[r] \in CountRow
<1>1. rows[r] \in ReplayRow \/ rows[r] \in OpeningRow \/ rows[r] \in CountRow
        \/ rows[r].kind \in OtherKinds
  BY DEF IsFile
<1>2. CASE rows[r] \in ReplayRow
  <2>1. ~WrongMovement(rows[r], read)
    BY DEF Wrong
  <2> QED BY <1>2, <2>1, RowFields DEF Effect, Replayed, Drains, WrongMovement
<1>3. CASE rows[r] \in OpeningRow
  BY <1>3, RowFields DEF Effect
<1>4. CASE rows[r] \in CountRow
  BY <1>4, RowFields DEF Effect
<1>5. CASE rows[r].kind \in OtherKinds
  BY <1>5 DEF Effect, OtherKinds
<1> QED BY <1>1, <1>2, <1>3, <1>4, <1>5

\* A file that the engine does not refuse leaves no place below zero.
LEMMA WhatIsAppliedIsCovered ==
  ASSUME NEW rows, IsFile(rows), NEW read, IsReading(read), Errors(rows, read) = {},
         ~Refuses(rows, read), NEW x \in Place, qtyOnHand[x] \in Nat, held[x] \in Nat
  PROVE  qtyOnHand[x] + SumFunctionOnSet(EffectAt(rows, x, read), DOMAIN rows) \in Nat
<1>1. Covered(rows, DOMAIN rows, x, qtyOnHand[x], read)
  <2> SUFFICES ASSUME NEW r \in DOMAIN rows, Effect(rows[r], x, read) < 0
               PROVE  Balance(rows, DOMAIN rows, r, x, qtyOnHand[x], read) >= 0
    BY DEF Covered
  <2>1. ~Wrong(rows[r], read) /\ ~StockRefuses(rows, r, read)
    BY PlanOfRows DEF Refuses
  <2>2. /\ rows[r].at = x
        /\ rows[r].kind \in {"sale", "transfer", "adjustment", "count"}
    BY <2>1, Takers, RowFields DEF Drains
  <2>3. SumFunctionOnSet(EffectAt(rows, x, read), Through(rows, DOMAIN rows, r)) \in Int
    BY EffectsAdd DEF Through
  <2>4. CASE rows[r].kind \in {"sale", "transfer"}
    <3>1. ~(Balance(rows, DOMAIN rows, r, x, Available(x), read) < 0)
      BY <2>1, <2>2, <2>4 DEF StockRefuses
    <3> QED BY <2>3, <3>1 DEF Balance, Available
  <2>5. CASE rows[r].kind \in {"adjustment", "count"}
    <3>1. ~(Balance(rows, DOMAIN rows, r, x, qtyOnHand[x], read) < 0)
      BY <2>1, <2>2, <2>5 DEF StockRefuses
    <3> QED BY <2>3, <3>1 DEF Balance
  <2> QED BY <2>2, <2>4, <2>5
<1>2. Closed(rows, DOMAIN rows)
  BY DEF Closed
<1> QED BY <1>1, <1>2, NeverShort

-----------------------------------------------------------------------------
(* Sums of movements                                                       *)

Quantified(M) == IsFiniteSet(M) /\ \A m \in M : m.qty \in Int

LEMMA SumIsQuantity ==
  ASSUME NEW M, Quantified(M)
  PROVE  Sum(M) \in Int /\ ((\A m \in M : m.qty \in Nat) => Sum(M) \in Nat)
<1> DEFINE f == [m \in M |-> m.qty]
<1>1. \A m \in M : f[m] \in Int
  BY DEF Quantified
<1>2. (\A m \in M : m.qty \in Nat) => \A m \in M : f[m] \in Nat
  OBVIOUS
<1> HIDE DEF f
<1>3. SumFunctionOnSet(f, M) \in Int
  BY <1>1, SumType DEF Quantified
<1>4. (\A m \in M : f[m] \in Nat) => SumFunctionOnSet(f, M) \in Nat
  BY SumNat DEF Quantified
<1> QED BY <1>2, <1>3, <1>4 DEF Sum, f

LEMMA SumOfParts ==
  ASSUME NEW M, NEW N, Quantified(M), Quantified(N), M \intersect N = {}
  PROVE  Quantified(M \union N) /\ Sum(M \union N) = Sum(M) + Sum(N)
<1> DEFINE f == [m \in M |-> m.qty]
           g == [m \in N |-> m.qty]
           h == [m \in M \union N |-> m.qty]
<1>1. \A m \in M \union N : h[m] \in Int
  BY DEF Quantified
<1>2. (\A m \in M : h[m] = f[m]) /\ (\A m \in N : h[m] = g[m])
  OBVIOUS
<1>3. IsFiniteSet(M) /\ IsFiniteSet(N) /\ IsFiniteSet(M \union N)
  BY FS_Union DEF Quantified
<1> HIDE DEF f, g, h
<1>4. SumFunctionOnSet(h, M \union N) = SumFunctionOnSet(h, M) + SumFunctionOnSet(h, N)
  BY <1>1, <1>3, SumUnion
<1>5. SumFunctionOnSet(h, M) = SumFunctionOnSet(f, M)
  BY <1>2, <1>3, SumEqual
<1>6. SumFunctionOnSet(h, N) = SumFunctionOnSet(g, N)
  BY <1>2, <1>3, SumEqual
<1> QED BY <1>3, <1>4, <1>5, <1>6 DEF Sum, f, g, h, Quantified

LEMMA SumOfNone == Sum({}) = 0
  BY SumEmpty DEF Sum

LEMMA SumOfOne ==
  ASSUME NEW m, m.qty \in Int
  PROVE  Quantified({m}) /\ Sum({m}) = m.qty
<1> DEFINE f == [n \in {m} |-> n.qty]
<1>1. IsFiniteSet({m}) /\ f[m] = m.qty
  BY FS_Singleton
<1> HIDE DEF f
<1>2. SumFunctionOnSet(f, {m}) = f[m] + SumFunctionOnSet(f, {m} \ {m})
  <2>1. \A n \in {m} : f[n] \in Int
    BY <1>1
  <2> QED BY <1>1, <2>1, SumRemove
<1>3. SumFunctionOnSet(f, {m} \ {m}) = 0
  <2>1. {m} \ {m} = {}
    OBVIOUS
  <2> QED BY <2>1, SumEmpty
<1> QED BY <1>1, <1>2, <1>3 DEF Sum, f, Quantified

\* The movements that the rows of T post at x.
Posted(j, rows, read, x, T) ==
  {MovementOf(j, rows, read, r, x) : r \in Posting(rows, read, x) \intersect T}

\* They add up to the effects of those rows: each posts what it does, or does nothing.
LEMMA PostedAddUp ==
  ASSUME NEW j, NEW rows, IsFile(rows), NEW read, IsReading(read), NEW x \in Place,
         NEW T \in SUBSET DOMAIN rows
  PROVE  /\ Quantified(Posted(j, rows, read, x, T))
         /\ Sum(Posted(j, rows, read, x, T)) = SumFunctionOnSet(EffectAt(rows, x, read), T)
<1> DEFINE U == Posting(rows, read, x) \intersect T
           N == Posted(j, rows, read, x, T)
           e == EffectAt(rows, x, read)
           h == [r \in U |-> MovementOf(j, rows, read, r, x)]
           g == [m \in N |-> m.qty]
<1>1. U \subseteq T /\ T \subseteq DOMAIN rows
  BY DEF Posting
<1>2. \A r \in T : e[r] \in Int /\ e[r] = Effect(rows[r], x, read)
  BY EffectIsQuantity DEF EffectAt
<1>3. IsFiniteSet(T) /\ IsFiniteSet(U) /\ IsFiniteSet(T \ U)
  BY <1>1, EffectsAdd, FS_Subset
<1>4. \A r \in T \ U : e[r] = 0
  <2> SUFFICES ASSUME NEW r \in T \ U PROVE Effect(rows[r], x, read) = 0
    BY <1>2
  <2>1. rows[r].kind \notin Replayed \union Counted \/ Effect(rows[r], x, read) = 0
    BY DEF Posting
  <2> QED BY <2>1 DEF Effect, Replayed, Counted
<1>5. N = {h[r] : r \in U}
  BY DEF Posted
<1>6. IsFiniteSet(N)
  <2> HIDE DEF h, U, N
  <2> QED BY <1>3, <1>5, ImageFinite
<1>7. \A r \in U : /\ h[r] \in N /\ h[r].row = r /\ h[r].qty = e[r]
  BY <1>1, <1>2 DEF MovementOf, Posted
<1>8. \A m \in N : m.qty \in Int
  BY <1>1, <1>2, <1>5, <1>7
<1>9. GroupSums(g, e, h, U, N)
  <2>1. ASSUME NEW m \in N
        PROVE  g[m] = SumFunctionOnSet(e, {r \in U : h[r] = m})
    <3>1. PICK r \in U : m = h[r]
      BY <1>5
    <3>2. {q \in U : h[q] = m} = {r}
      BY <1>7, <3>1
    <3>3. e[r] \in Int /\ g[m] = e[r]
      BY <1>1, <1>2, <1>7, <3>1
    <3>4. SumFunctionOnSet(e, {r}) = e[r]
      <4>1. IsFiniteSet({r}) /\ r \in {r} /\ {r} \ {r} = {} /\ \A q \in {r} : e[q] \in Int
        BY <3>3, FS_Singleton
      <4>2. SumFunctionOnSet(e, {r}) = e[r] + SumFunctionOnSet(e, {r} \ {r})
        <5> HIDE DEF e
        <5> QED BY <4>1, SumRemove
      <4>3. SumFunctionOnSet(e, {r} \ {r}) = 0
        BY <4>1, SumEmpty
      <4> QED BY <3>3, <4>2, <4>3
    <3> QED BY <3>2, <3>3, <3>4
  <2> QED BY <1>1, <1>2, <1>7, <2>1 DEF GroupSums
<1>10. SumFunctionOnSet(e, U) = SumFunctionOnSet(g, N)
  <2> HIDE DEF e, g, h, U, N
  <2> QED BY <1>3, <1>6, <1>9, SumByKey
<1>11. SumFunctionOnSet(e, T) = SumFunctionOnSet(e, U)
  <2>1. SumFunctionOnSet(e, T \ U) = 0
    BY <1>3, <1>4, SumZero
  <2>2. T = U \union (T \ U) /\ U \intersect (T \ U) = {}
    BY <1>1
  <2>3. SumFunctionOnSet(e, T) = SumFunctionOnSet(e, U) + SumFunctionOnSet(e, T \ U)
    BY <1>2, <1>3, <2>2, SumUnion
  <2>4. SumFunctionOnSet(e, U) \in Int
    BY <1>1, EffectsAdd
  <2> QED BY <2>1, <2>3, <2>4
<1> QED BY <1>6, <1>8, <1>10, <1>11 DEF Sum, Quantified

-----------------------------------------------------------------------------
(* The ledger                                                              *)

\* A movement of a file is dated by it, whatever else is of today.
IsMovement(m) ==
  /\ m.at \in Place /\ m.qty \in Int /\ m.time \in Time /\ m.commit \in Nat
  /\ \/ m.job = Absent /\ m.time = Now
     \/ /\ m.job # Absent
        /\ KindOf(m) \in Replayed \union Counted
        /\ KindOf(m) = "opening" => m.qty \in Nat
        /\ KindOf(m) = "count" => m.time = Now

LedgerOK == IsFiniteSet(ledger) /\ \A m \in ledger : IsMovement(m)

\* What was posted at x by commit c, and what is dated t or before.
AtUntil(x, c) == {m \in At(x) : m.commit <= c}
Past(x, t) == {m \in At(x) : m.time <= t}

LEMMA MaxIsAbove ==
  ASSUME NEW L, IsFiniteSet(L), \A m \in L : m.commit \in Nat
  PROVE  \E n \in Nat \ {0} :
           /\ n = 1 + Max({m.commit : m \in L} \union {0})
           /\ \A m \in L : m.commit < n
<1> DEFINE c == [m \in L |-> m.commit]
           S == {c[m] : m \in L} \union {0}
           id == [k \in S |-> k]
<1>1. IsFiniteSet({c[m] : m \in L})
  <2> HIDE DEF c
  <2> QED BY ImageFinite
<1>2. IsFiniteSet(S) /\ S # {} /\ 0 \in S
  BY <1>1, FS_AddElement
<1>3. \A k \in S : k \in Nat /\ id[k] = k
  OBVIOUS
<1>4. \A m \in L : m.commit \in S
  OBVIOUS
<1>5. S = {m.commit : m \in L} \union {0}
  OBVIOUS
<1> HIDE DEF S, id
<1>6. \E a \in S : \A k \in S : id[k] <= id[a]
  <2>1. \A k \in S : id[k] \in Int
    BY <1>3
  <2> QED BY <1>2, <2>1, LastOne
<1>7. \E a \in S : \A k \in S : a >= k
  BY <1>3, <1>6
<1>8. Max(S) \in S /\ \A k \in S : Max(S) >= k
  BY <1>7 DEF Max
<1>9. PICK a \in Nat : a = Max({m.commit : m \in L} \union {0}) /\ a = Max(S)
  BY <1>3, <1>5, <1>8
<1>10. \A m \in L : m.commit < 1 + a
  BY <1>3, <1>4, <1>8, <1>9
<1> WITNESS 1 + a \in Nat \ {0}
<1> QED BY <1>9, <1>10

LEMMA CommitsAreNumbered ==
  ASSUME LedgerOK
  PROVE  NextCommit \in Nat \ {0} /\ \A m \in ledger : m.commit < NextCommit
<1>1. IsFiniteSet(ledger) /\ \A m \in ledger : m.commit \in Nat
  BY DEF LedgerOK, IsMovement
<1> QED BY <1>1, MaxIsAbove DEF NextCommit

\* A commit that posts the movements of N.
Grows(N) ==
  /\ IsFiniteSet(N) /\ \A m \in N : IsMovement(m) /\ m.commit = NextCommit
  /\ ledger' = ledger \union N

LEMMA LedgerGrows ==
  ASSUME LedgerOK, NEW N, Grows(N)
  PROVE  /\ LedgerOK'
         /\ NextCommit' \in Nat /\ NextCommit <= NextCommit'
         /\ \A m \in ledger : m.commit < NextCommit /\ m \notin N
         /\ \A x : At(x)' = At(x) \union {m \in N : m.at = x}
         /\ \A x : \A c \in Nat : c < NextCommit => AtUntil(x, c)' = AtUntil(x, c)
<1>1. LedgerOK'
  BY FS_Union DEF LedgerOK, Grows
<1>2. NextCommit \in Nat /\ \A m \in ledger : m.commit < NextCommit
  BY CommitsAreNumbered
<1>3. NextCommit' \in Nat /\ \A m \in ledger' : m.commit < NextCommit'
  <2>1. IsFiniteSet(ledger') /\ \A m \in ledger' : m.commit \in Nat
    BY <1>1 DEF LedgerOK, IsMovement
  <2> QED BY <2>1, MaxIsAbove DEF NextCommit
<1>4. NextCommit <= NextCommit'
  <2>1. CASE N = {}
    <3>1. ledger' = ledger
      BY <2>1 DEF Grows
    <3>2. NextCommit' = NextCommit
      BY <3>1 DEF NextCommit
    <3> QED BY <1>2, <3>2
  <2>2. CASE N # {}
    <3>1. PICK m \in N : TRUE
      BY <2>2
    <3>2. m \in ledger' /\ m.commit = NextCommit
      BY DEF Grows
    <3> QED BY <1>2, <1>3, <3>2
  <2> QED BY <2>1, <2>2
<1>5. \A m \in ledger : m.commit < NextCommit /\ m \notin N
  BY <1>2 DEF Grows
<1>6. \A x : At(x)' = At(x) \union {m \in N : m.at = x}
  BY DEF At, Grows
<1>7. ASSUME NEW x, NEW c \in Nat, c < NextCommit
      PROVE  AtUntil(x, c)' = AtUntil(x, c)
  <2>1. \A m \in N : ~(m.commit <= c)
    BY <1>2, <1>7 DEF Grows
  <2> QED BY <1>6, <2>1 DEF AtUntil
<1> QED BY <1>1, <1>3, <1>4, <1>5, <1>6, <1>7

LEMMA MovementsAdd ==
  ASSUME LedgerOK, NEW M \in SUBSET ledger
  PROVE  Quantified(M)
BY FS_Subset DEF LedgerOK, IsMovement, Quantified

\* Of the movements of N, those at x, and those at x that are dated t or before.
OfPlace(N, x) == {m \in N : m.at = x}
OfDays(N, x, t) == {m \in N : m.at = x /\ m.time <= t}

LEMMA SumsGrow ==
  ASSUME LedgerOK, NEW N, Grows(N), NEW x, NEW t
  PROVE  /\ Sum(At(x)') = Sum(At(x)) + Sum(OfPlace(N, x))
         /\ Sum(Past(x, t)') = Sum(Past(x, t)) + Sum(OfDays(N, x, t))
<1>1. /\ At(x)' = At(x) \union OfPlace(N, x)
      /\ \A m \in ledger : m \notin N
  BY LedgerGrows DEF OfPlace
<1>2. Quantified(At(x)) /\ Quantified(Past(x, t))
  BY MovementsAdd DEF At, Past
<1>3. Quantified(OfPlace(N, x)) /\ Quantified(OfDays(N, x, t))
  <2>1. \A M \in SUBSET N : Quantified(M)
    BY FS_Subset DEF Quantified, Grows, IsMovement
  <2> QED BY <2>1 DEF OfPlace, OfDays
<1>4. At(x) \intersect OfPlace(N, x) = {}
  BY <1>1 DEF At, OfPlace
<1>5. Past(x, t)' = Past(x, t) \union OfDays(N, x, t)
  BY <1>1 DEF Past, OfPlace, OfDays
<1>6. Past(x, t) \intersect OfDays(N, x, t) = {}
  BY <1>4 DEF Past, OfPlace, OfDays
<1> QED BY <1>1, <1>2, <1>3, <1>4, <1>5, <1>6, SumOfParts

\* A history that is rebuilt as the documents say was so before.
LEMMA RebuiltBefore ==
  ASSUME LedgerOK, NEW N, Grows(N), NEW x, Rebuilt(x)'
  PROVE  Rebuilt(x)
<1>1. At(x) \subseteq At(x)' /\ IsFiniteSet(At(x)')
  <2>1. LedgerOK' /\ At(x) \subseteq At(x)'
    BY LedgerGrows
  <2>2. IsFiniteSet(ledger') /\ At(x)' \subseteq ledger'
    BY <2>1 DEF LedgerOK, At
  <2> QED BY <2>1, <2>2, FS_Subset
<1> DEFINE O == {m \in At(x) : KindOf(m) = "opening"}
           P == {m \in At(x)' : KindOf(m) = "opening"}
<1>2. O \subseteq P /\ IsFiniteSet(P) /\ Cardinality(P) <= 1
  BY <1>1, FS_Subset DEF Rebuilt
<1>3. Cardinality(O) <= Cardinality(P) /\ Cardinality(O) \in Nat /\ Cardinality(P) \in Nat
  BY <1>2, FS_Subset, FS_CardinalityType
<1>4. Cardinality(O) <= 1
  BY <1>2, <1>3
<1> QED BY <1>1, <1>4 DEF Rebuilt

-----------------------------------------------------------------------------
(* The inductive invariant                                                 *)

\* A request knows the file it is about.
ServingOK ==
  /\ worker = [w \in Worker |-> worker[w]]
  /\ \A w \in Worker :
       /\ worker[w].pc \in {"idle", "commit", "cancel"}
       /\ worker[w].job \in IF worker[w].pc = "idle" THEN {Absent} ELSE FirstJob

StockOK ==
  /\ qtyOnHand \in [Place -> Nat] /\ held \in [Place -> Nat]
  /\ \A x \in Place : qtyOnHand[x] = Sum(At(x))

\* What was read is what the movements up to c add up to, and where that is one
\* opening, the day of it.
Snapshot(read, c) ==
  \A x \in Place :
    /\ read.onHand[x] = Sum(AtUntil(x, c))
    /\ read.opening[x] \in Int
    /\ \A m \in AtUntil(x, c) :
         AtUntil(x, c) = {m} /\ KindOf(m) = "opening" => read.opening[x] = m.time

\* A plan rests on what was committed when it was made.
IsRead(read) == \E c \in 0..(NextCommit - 1) : Snapshot(read, c)
ReadsOK == \A w \in Worker : worker[w].pc = "commit" => IsRead(worker[w].read)

\* No day of a history rebuilt from one opening and one replay is negative.
NeverNegative(x) == Rebuilt(x) => \A t \in Time : Sum(Past(x, t)) >= 0
PastOK == \A x \in Place : NeverNegative(x)

HistoryInv == LedgerOK /\ ServingOK /\ StockOK /\ ReadsOK /\ PastOK

\* Nothing is written of a job that is not yet, or no longer, to be imported; while a
\* request is at work on it and no other is, the job is as it was uploaded.
AtWorkOn(j) == {w \in Worker : worker[w].job = j}
IsJob(r) == r = [status |-> r.status, file |-> r.file, rows |-> r.rows, errors |-> r.errors]

JobOK(j) ==
  /\ IsJob(job[j])
  /\ written[j] = [r \in Row |-> written[j][r]]
  /\ job[j].status = "none" => j \notin FirstJob
  /\ job[j].status \in {"none", "pending"} => \A r \in Row : written[j][r] = 0
  /\ job[j].status = "pending" =>
       j \in FirstJob /\ job[j].rows = DOMAIN File[j] /\ job[j].errors = {}
  /\ j \notin clash =>
       /\ AtWorkOn(j) # {} => job[j].status = "pending"
       /\ \A v, w \in AtWorkOn(j) : v = w
       /\ Wrote(j) = IF job[j].status \in {"completed", "rolled_back"}
                       THEN job[j].rows \ job[j].errors ELSE {}
       /\ \A r \in Row : written[j][r] \in {0, 1}

JobsOK ==
  /\ job = [j \in Job |-> job[j]] /\ written = [j \in Job |-> written[j]]
  /\ \A j \in Job : JobOK(j)

UnitOK(u) ==
  /\ u = [status |-> u.status, buyer |-> u.buyer, invoices |-> u.invoices,
          notes |-> u.notes, lent |-> u.lent]
  /\ u.invoices \in {0, 1}
  /\ u.invoices = 1 => u.status = "sold"

UnitsOK == bike = [b \in Bike |-> bike[b]] /\ \A b \in Bike : UnitOK(bike[b])

-----------------------------------------------------------------------------
(* What requests have read                                                 *)

LEMMA CurrentIsSnapshot ==
  ASSUME LedgerOK, StockOK
  PROVE  Snapshot(Current, NextCommit - 1)
<1> SUFFICES ASSUME NEW x \in Place
             PROVE  /\ Current.onHand[x] = Sum(AtUntil(x, NextCommit - 1))
                    /\ Current.opening[x] \in Int
                    /\ \A m \in At(x) :
                         At(x) = {m} /\ KindOf(m) = "opening" => Current.opening[x] = m.time
                    /\ AtUntil(x, NextCommit - 1) = At(x)
  BY DEF Snapshot
<1>1. AtUntil(x, NextCommit - 1) = At(x)
  <2>1. NextCommit \in Nat /\ \A m \in At(x) : m.commit \in Nat /\ m.commit < NextCommit
    BY CommitsAreNumbered DEF At, LedgerOK, IsMovement
  <2> QED BY <2>1 DEF AtUntil
<1>2. Current.onHand[x] = Sum(At(x))
  BY DEF Current, StockOK
<1>3. Current.opening[x] = IF Openings(x) = {} THEN 0 ELSE Min(Openings(x))
  BY DEF Current
<1>4. \A t \in Openings(x) : t \in Nat
  BY FilesAssumption DEF Openings, LedgerOK, IsMovement, Time
<1>5. Openings(x) # {} => Min(Openings(x)) \in Openings(x)
  <2>1. Openings(x) # {} => \E n \in Openings(x) : \A k \in Openings(x) : n <= k
    BY <1>4, LeastNatural
  <2> QED BY <2>1 DEF Min
<1>6. ASSUME NEW m \in At(x), At(x) = {m}, KindOf(m) = "opening"
      PROVE  Current.opening[x] = m.time
  <2>1. Openings(x) = {m.time}
    <3>1. m \in ledger /\ m.at = x /\ m.job # Absent /\ File[m.job][m.row].kind = "opening"
      BY <1>6 DEF KindOf, At
    <3>2. \A n \in ledger : n.at = x => n = m
      BY <1>6 DEF At
    <3> QED BY <3>1, <3>2 DEF Openings
  <2> QED BY <1>3, <1>5, <2>1
<1> QED BY <1>1, <1>2, <1>3, <1>4, <1>5, <1>6

LEMMA SnapshotIsReading ==
  ASSUME LedgerOK, NEW read, NEW c, Snapshot(read, c)
  PROVE  IsReading(read)
<1>1. \A x \in Place : Sum(AtUntil(x, c)) \in Int
  BY MovementsAdd, SumIsQuantity DEF AtUntil, At
<1> QED BY <1>1 DEF IsReading, Snapshot

\* What was read remains what was committed by then, whatever is committed since.
LEMMA ReadStays ==
  ASSUME LedgerOK, StockOK, NEW N, Grows(N), NEW read, IsRead(read) \/ read = Current
  PROVE  IsRead(read)'
<1>1. NextCommit \in Nat \ {0} /\ NextCommit' \in Nat /\ NextCommit <= NextCommit'
  BY LedgerGrows, CommitsAreNumbered
<1>2. PICK c \in 0..(NextCommit - 1) : Snapshot(read, c) /\ c \in Nat /\ c < NextCommit
  BY <1>1, CurrentIsSnapshot DEF IsRead
<1>3. \A x : AtUntil(x, c)' = AtUntil(x, c)
  BY <1>1, LedgerGrows
<1>4. Snapshot(read, c)'
  BY <1>2, <1>3 DEF Snapshot
<1>5. c \in 0..(NextCommit' - 1)
  <2>1. PICK n \in Nat : n = NextCommit'
    BY <1>1
  <2>2. c \in Nat /\ c < n
    BY <1>1, <1>2, <2>1
  <2>3. c \in 0..(n - 1)
    BY <2>2
  <2> QED BY <2>1, <2>3
<1> QED BY <1>4, <1>5 DEF IsRead

LEMMA ReadsStay ==
  ASSUME LedgerOK, StockOK, ReadsOK, NEW N, Grows(N),
         \A w \in Worker : \/ worker'[w] = worker[w]
                           \/ worker'[w].pc # "commit"
                           \/ worker'[w].read = Current
  PROVE  ReadsOK'
<1> SUFFICES ASSUME NEW w \in Worker, worker'[w].pc = "commit"
             PROVE  IsRead(worker[w].read)'
  BY DEF ReadsOK
<1>1. PICK read : read = worker'[w].read
  OBVIOUS
<1>2. IsRead(read) \/ read = Current
  BY <1>1 DEF ReadsOK
<1>3. IsRead(read)'
  BY <1>2, ReadStays
<1> QED BY <1>1, <1>3 DEF IsRead

-----------------------------------------------------------------------------
(* The past of a place                                                     *)

Quiet == ledger' = ledger /\ qtyOnHand' = qtyOnHand /\ held' = held

LEMMA NothingGrows ==
  ASSUME ledger' = ledger
  PROVE  Grows({})
BY FS_EmptySet DEF Grows

\* The stock follows the movements.
LEMMA StockStays ==
  ASSUME LedgerOK, StockOK, NEW N, Grows(N), held' \in [Place -> Nat],
         qtyOnHand' \in [Place -> Nat],
         \A x \in Place : qtyOnHand'[x] = qtyOnHand[x] + Sum(OfPlace(N, x))
  PROVE  StockOK'
<1>1. ASSUME NEW x \in Place
      PROVE  qtyOnHand'[x] = Sum(At(x)')
  BY SumsGrow DEF StockOK
<1> QED BY <1>1 DEF StockOK

\* Movements of today, and those that add only, leave no day of the past negative.
LEMMA PastStays ==
  ASSUME LedgerOK, StockOK, StockOK', NEW N, Grows(N), NEW x \in Place, NeverNegative(x),
         \A m \in N : m.at = x => m.time = Now \/ m.qty \in Nat
  PROVE  NeverNegative(x)'
<1> SUFFICES ASSUME Rebuilt(x)', NEW t \in Time
             PROVE  Sum(Past(x, t)') >= 0
  BY DEF NeverNegative
<1>1. Rebuilt(x) /\ LedgerOK'
  BY RebuiltBefore, LedgerGrows
<1>2. CASE t = Now
  <2>1. \A m \in At(x)' : m.time <= Now
    BY <1>1, FilesAssumption DEF At, LedgerOK, IsMovement, Time
  <2>2. Past(x, t)' = At(x)'
    BY <1>2, <2>1 DEF Past
  <2>3. Sum(At(x)') = qtyOnHand'[x] /\ qtyOnHand'[x] \in Nat
    BY DEF StockOK
  <2> QED BY <2>2, <2>3
<1>3. CASE t # Now
  <2> DEFINE A == OfDays(N, x, t)
  <2>1. Sum(Past(x, t)') = Sum(Past(x, t)) + Sum(A)
    BY SumsGrow
  <2>2. \A m \in A : m.qty \in Nat
    BY <1>3, FilesAssumption DEF Time, OfDays, Grows, IsMovement
  <2>3. Quantified(A)
    BY FS_Subset DEF Quantified, Grows, IsMovement, OfDays
  <2>4. Sum(A) \in Nat
    BY <2>2, <2>3, SumIsQuantity
  <2>5. Sum(Past(x, t)) \in Int /\ Sum(Past(x, t)) >= 0
    BY <1>1, MovementsAdd, SumIsQuantity DEF Past, At, NeverNegative
  <2> HIDE DEF A
  <2> QED BY <2>1, <2>4, <2>5
<1> QED BY <1>2, <1>3

\* The rows of a replay that are dated t or before come before the others.
UpToDay(rows, t) == {r \in DOMAIN rows : rows[r].time <= t}

\* A replay planned from n leaves at least nothing on every day.
LEMMA ReplayLeaves ==
  ASSUME NEW rows, IsFile(rows), Replay(rows), NEW read, IsReading(read),
         Errors(rows, read) = {}, NEW x \in Place, read.onHand[x] \in Nat, NEW t \in Time
  PROVE  read.onHand[x] + SumFunctionOnSet(EffectAt(rows, x, read), UpToDay(rows, t)) \in Nat
<1>1. Closed(rows, UpToDay(rows, t))
  <2> SUFFICES ASSUME NEW r \in UpToDay(rows, t), NEW q \in DOMAIN rows, Precedes(rows, q, r)
               PROVE  rows[q].time <= t
    BY DEF Closed, UpToDay
  <2>1. rows[q].time <= rows[r].time /\ rows[r].time <= t
    BY RowOrder DEF UpToDay
  <2>2. rows[q].time \in Int /\ rows[r].time \in Int /\ t \in Int
    BY RowFields, FilesAssumption DEF Replay, UpToDay, Time
  <2> QED BY <2>1, <2>2
<1>2. Covered(rows, UpToDay(rows, t), x, read.onHand[x], read)
  <2> SUFFICES ASSUME NEW r \in UpToDay(rows, t), Effect(rows[r], x, read) < 0
               PROVE  Balance(rows, DOMAIN rows, r, x, read.onHand[x], read) >= 0
    BY DEF Covered
  <2>1. r \in DOMAIN rows /\ rows[r] \in ReplayRow /\ rows[r] \notin CountRow
    BY RowFields DEF UpToDay, Replay, Replayed
  <2>2. ~Wrong(rows[r], read)
    BY <2>1, PlanOfRows
  <2>3. rows[r].at = x /\ rows[r].kind \in Drains
    BY <2>1, <2>2, Takers
  <2> QED BY <2>1, <2>3, PlanOfRows DEF DryBalance
<1> QED BY <1>1, <1>2, NeverShort DEF UpToDay

\* Before the opening of a place a replay only adds to it.
LEMMA ReplayBeforeOpening ==
  ASSUME NEW rows, IsFile(rows), Replay(rows), NEW read, IsReading(read),
         Errors(rows, read) = {}, NEW x \in Place, NEW t \in Time, t < read.opening[x]
  PROVE  SumFunctionOnSet(EffectAt(rows, x, read), UpToDay(rows, t)) \in Nat
<1>1. ASSUME NEW r \in UpToDay(rows, t)
      PROVE  EffectAt(rows, x, read)[r] \in Nat
  <2>1. r \in DOMAIN rows /\ rows[r] \in ReplayRow /\ rows[r] \notin CountRow
    BY RowFields DEF UpToDay, Replay, Replayed
  <2>2. ~Wrong(rows[r], read) /\ ~WrongMovement(rows[r], read)
    BY <2>1, PlanOfRows DEF Wrong
  <2>3. rows[r].time \in Int /\ t \in Int /\ rows[r].time <= t /\ read.opening[x] \in Int
    BY <2>1, RowFields, FilesAssumption DEF UpToDay, Time, IsReading
  <2>4. rows[r].at # x
    BY <2>1, <2>2, <2>3, RowFields DEF WrongMovement
  <2>5. ~(Effect(rows[r], x, read) < 0)
    BY <2>1, <2>2, <2>4, Takers
  <2>6. EffectAt(rows, x, read)[r] = Effect(rows[r], x, read)
    BY <2>1 DEF EffectAt
  <2>7. EffectAt(rows, x, read)[r] \in Int
    BY <2>1, EffectIsQuantity
  <2> QED BY <2>5, <2>6, <2>7
<1>2. IsFiniteSet(UpToDay(rows, t))
  BY EffectsAdd DEF UpToDay
<1> QED BY <1>1, <1>2, SumNat

\* What a file posts are movements of its rows, at each place those of that place.
LEMMA FilePosts ==
  ASSUME LedgerOK, NEW j \in FirstJob, NEW rows, rows = File[j], NEW read, IsReading(read),
         NEW N, N = Movements(j, rows, read)
  PROVE  /\ IsFile(rows) /\ IsFiniteSet(N)
         /\ \A m \in N : IsMovement(m) /\ m.commit = NextCommit
         /\ \A x \in Place : OfPlace(N, x) = Posted(j, rows, read, x, DOMAIN rows)
         /\ Replay(rows) => \A x \in Place, t \in Time :
              OfDays(N, x, t) = Posted(j, rows, read, x, UpToDay(rows, t))
         /\ Replay(rows) => \A m \in N : KindOf(m) \in Replayed
<1>1. IsFile(rows)
  BY FilesAssumption
<1>2. N = UNION {Posted(j, rows, read, x, DOMAIN rows) : x \in Place}
  BY DEF Movements, Posted, Posting
<1>3. IsFiniteSet(N)
  <2> DEFINE P == [x \in Place |-> Posted(j, rows, read, x, DOMAIN rows)]
             F == {P[x] : x \in Place}
  <2>1. IsFiniteSet(F)
    <3> HIDE DEF P
    <3> QED BY FilesAssumption, ImageFinite
  <2>2. \A S \in F : IsFiniteSet(S)
    <3> SUFFICES ASSUME NEW x \in Place PROVE IsFiniteSet(P[x])
      OBVIOUS
    <3>1. Quantified(Posted(j, rows, read, x, DOMAIN rows))
      BY <1>1, PostedAddUp
    <3> QED BY <3>1 DEF Quantified
  <2>3. N = UNION F
    BY <1>2
  <2> HIDE DEF F
  <2> QED BY <2>1, <2>2, <2>3, FS_UNION
<1>4. ASSUME NEW x \in Place, NEW r \in Posting(rows, read, x),
             NEW m, m = MovementOf(j, rows, read, r, x)
      PROVE  /\ IsMovement(m) /\ m.commit = NextCommit /\ m.at = x
             /\ Replay(rows) => KindOf(m) \in Replayed /\ m.time = rows[r].time
  <2>1. /\ r \in DOMAIN rows /\ rows[r].kind \in Replayed \union Counted
        /\ rows[r] \in ReplayRow \/ rows[r] \in OpeningRow \/ rows[r] \in CountRow
    BY <1>1 DEF Posting, IsFile, OtherKinds, Replayed, Counted
  <2>2. /\ m.job = j /\ m.row = r /\ m.at = x /\ m.qty = Effect(rows[r], x, read)
        /\ m.time = RowTime(rows[r]) /\ m.commit = NextCommit
    BY <1>4 DEF MovementOf
  <2>3. m.qty \in Int
    BY <1>1, <2>1, <2>2, EffectIsQuantity DEF EffectAt
  <2>4. m.time \in Time
    BY <2>1, <2>2, RowFields, FilesAssumption DEF RowTime, Time
  <2>5. j # Absent /\ KindOf(m) = rows[r].kind
    BY <2>2, FilesAssumption DEF KindOf
  <2>6. KindOf(m) = "opening" => m.qty \in Nat
    <3> SUFFICES ASSUME rows[r].kind = "opening" PROVE m.qty \in Nat
      BY <2>5
    <3>1. rows[r] \in OpeningRow
      BY <2>1, RowFields DEF Replayed
    <3> QED BY <2>2, <3>1, RowFields DEF Effect
  <2>7. KindOf(m) = "count" => m.time = Now
    BY <2>2, <2>5 DEF RowTime
  <2>8. IsMovement(m)
    BY <2>1, <2>2, <2>3, <2>4, <2>5, <2>6, <2>7, CommitsAreNumbered DEF IsMovement
  <2>9. Replay(rows) => KindOf(m) \in Replayed /\ m.time = rows[r].time
    <3> SUFFICES ASSUME Replay(rows) PROVE KindOf(m) \in Replayed /\ m.time = rows[r].time
      OBVIOUS
    <3>1. rows[r].kind \in Replayed
      BY <2>1, RowFields DEF Replay
    <3> QED BY <2>2, <2>5, <3>1 DEF RowTime, Replayed
  <2> QED BY <2>2, <2>8, <2>9
<1>5. \A m \in N : \E x \in Place : \E r \in Posting(rows, read, x) :
        m = MovementOf(j, rows, read, r, x)
  BY <1>2 DEF Posted
<1>6. \A x \in Place : \A r \in Posting(rows, read, x) :
        r \in DOMAIN rows /\ MovementOf(j, rows, read, r, x) \in N
  BY <1>2 DEF Posted, Posting
<1>7. ASSUME NEW x \in Place
      PROVE  OfPlace(N, x) = Posted(j, rows, read, x, DOMAIN rows)
  BY <1>4, <1>5, <1>6 DEF OfPlace, Posted
<1>8. ASSUME Replay(rows), NEW x \in Place, NEW t \in Time
      PROVE  OfDays(N, x, t) = Posted(j, rows, read, x, UpToDay(rows, t))
  BY <1>4, <1>5, <1>6, <1>8 DEF OfDays, Posted, UpToDay
<1>9. Replay(rows) => \A m \in N : KindOf(m) \in Replayed
  BY <1>4, <1>5
<1>10. \A m \in N : IsMovement(m) /\ m.commit = NextCommit
  BY <1>4, <1>5
<1> QED BY <1>1, <1>3, <1>7, <1>8, <1>9, <1>10

\* A history with a replay on top of it was an opening, or nothing.
LEMMA BeforeReplay ==
  ASSUME LedgerOK, NEW N, Grows(N), NEW x, NEW m \in OfPlace(N, x), KindOf(m) \in Replayed,
         Rebuilt(x)'
  PROVE  /\ \A n \in At(x) : KindOf(n) = "opening" /\ n.qty \in Nat
         /\ At(x) = {} \/ \E o : At(x) = {o}
<1>1. At(x) \subseteq At(x)' /\ m \in At(x)' /\ m.commit = NextCommit
  BY LedgerGrows DEF OfPlace, Grows
<1>2. ASSUME NEW n \in At(x)
      PROVE  KindOf(n) = "opening" /\ n.qty \in Nat
  <2>1. IsMovement(n) /\ n.commit < NextCommit
    BY LedgerGrows DEF At, LedgerOK
  <2>2. NextCommit \in Nat /\ n.commit \in Nat
    BY <2>1, CommitsAreNumbered DEF IsMovement
  <2>3. KindOf(n) = "opening" \/ n.commit = m.commit
    BY <1>1, <2>1, <2>2 DEF Rebuilt
  <2>4. KindOf(n) = "opening"
    BY <1>1, <2>1, <2>2, <2>3
  <2>5. n.job # Absent
    BY <2>4 DEF KindOf
  <2> QED BY <2>1, <2>4, <2>5 DEF IsMovement
<1> DEFINE P == {n \in At(x)' : KindOf(n) = "opening"}
<1>3. IsFiniteSet(P) /\ Cardinality(P) <= 1 /\ At(x) \subseteq P
  <2>1. LedgerOK' /\ At(x)' \subseteq ledger'
    BY LedgerGrows DEF At
  <2>2. IsFiniteSet(P)
    BY <2>1, FS_Subset DEF LedgerOK
  <2> QED BY <1>1, <1>2, <2>2 DEF Rebuilt
<1>4. \A n, o \in At(x) : n = o
  <2> SUFFICES ASSUME NEW n \in At(x), NEW o \in At(x), n # o PROVE FALSE
    OBVIOUS
  <2>1. {n, o} \subseteq P
    BY <1>3
  <2>2. IsFiniteSet({n}) /\ Cardinality({n}) = 1
    BY FS_Singleton
  <2>3. {n} \union {o} = {n, o} /\ o \notin {n}
    OBVIOUS
  <2>4. Cardinality({n, o}) = 2
    <3>1. Cardinality({n} \union {o}) = Cardinality({n}) + 1
      BY <2>2, <2>3, FS_AddElement
    <3> QED BY <2>2, <2>3, <3>1
  <2> HIDE DEF P
  <2>5. Cardinality({n, o}) <= Cardinality(P) /\ Cardinality(P) \in Nat
    BY <1>3, <2>1, FS_Subset, FS_CardinalityType
  <2> QED BY <1>3, <2>4, <2>5
<1> QED BY <1>2, <1>4

\* A replay that rebuilds the history of a place, as far as the documents foresee,
\* was planned from what its opening left, or from nothing: no day is negative.
LEMMA ReplayPast ==
  ASSUME LedgerOK, NEW j \in FirstJob, NEW rows, rows = File[j], Replay(rows),
         NEW read, Errors(rows, read) = {}, IsRead(read),
         NEW N, N = Movements(j, rows, read), Grows(N),
         NEW x \in Place, OfPlace(N, x) # {}, Rebuilt(x)', NEW t \in Time
  PROVE  Sum(Past(x, t)') >= 0
<1>1. PICK c \in 0..(NextCommit - 1) : Snapshot(read, c)
  BY DEF IsRead
<1>2. IsReading(read)
  BY <1>1, SnapshotIsReading
<1>3. /\ IsFile(rows)
      /\ OfDays(N, x, t) = Posted(j, rows, read, x, UpToDay(rows, t))
      /\ \A m \in N : KindOf(m) \in Replayed
  BY <1>2, FilePosts
<1>4. PICK m \in OfPlace(N, x) : KindOf(m) \in Replayed
  BY <1>3 DEF OfPlace
<1>5. /\ \A n \in At(x) : KindOf(n) = "opening" /\ n.qty \in Nat /\ n.time \in Int
      /\ At(x) = {} \/ \E o : At(x) = {o}
  <2>1. \A n \in At(x) : n.time \in Int
    BY FilesAssumption DEF At, LedgerOK, IsMovement, Time
  <2> QED BY <1>4, <2>1, BeforeReplay
<1>6. PICK e : e = SumFunctionOnSet(EffectAt(rows, x, read), UpToDay(rows, t))
  OBVIOUS
<1>7. e \in Int /\ Sum(Past(x, t)') = Sum(Past(x, t)) + e
  <2>1. UpToDay(rows, t) \in SUBSET DOMAIN rows
    BY DEF UpToDay
  <2>2. Sum(OfDays(N, x, t)) = e
    BY <1>2, <1>3, <1>6, <2>1, PostedAddUp
  <2>3. e \in Int
    BY <1>2, <1>3, <1>6, <2>1, EffectsAdd
  <2> QED BY <2>2, <2>3, SumsGrow
<1>8. read.onHand[x] = Sum(AtUntil(x, c)) /\ t \in Int /\ read.opening[x] \in Int
  BY <1>1, FilesAssumption DEF Snapshot, Time
<1>9. read.onHand[x] \in Nat => read.onHand[x] + e \in Nat
  BY <1>2, <1>3, <1>6, ReplayLeaves
<1>10. t < read.opening[x] => e \in Nat
  BY <1>2, <1>3, <1>6, ReplayBeforeOpening
<1>11. CASE At(x) = {}
  <2>1. AtUntil(x, c) = {} /\ Past(x, t) = {}
    BY <1>11 DEF AtUntil, Past
  <2>2. read.onHand[x] = 0 /\ Sum(Past(x, t)) = 0
    BY <1>8, <2>1, SumOfNone
  <2> QED BY <1>7, <1>9, <2>2
<1>12. ASSUME NEW o, At(x) = {o}
       PROVE  Sum(Past(x, t)') >= 0
  <2>1. KindOf(o) = "opening" /\ o.qty \in Nat /\ o.time \in Int
    BY <1>5, <1>12
  <2>2. Sum({o}) = o.qty
    BY <2>1, SumOfOne
  <2>3. CASE o.time <= t
    <3>1. Past(x, t) = {o}
      BY <1>12, <2>3 DEF Past
    <3>2. CASE o.commit <= c
      <4>1. AtUntil(x, c) = {o}
        BY <1>12, <3>2 DEF AtUntil
      <4> QED BY <1>7, <1>8, <1>9, <2>1, <2>2, <3>1, <4>1
    <3>3. CASE ~(o.commit <= c)
      <4>1. AtUntil(x, c) = {}
        BY <1>12, <3>3 DEF AtUntil
      <4>2. read.onHand[x] = 0
        BY <1>8, <4>1, SumOfNone
      <4> QED BY <1>7, <1>9, <2>1, <2>2, <3>1, <4>2
    <3> QED BY <3>2, <3>3
  <2>4. CASE ~(o.time <= t)
    <3>1. Past(x, t) = {} /\ Sum(Past(x, t)) = 0
      <4>1. Past(x, t) = {}
        BY <1>12, <2>4 DEF Past
      <4> QED BY <4>1, SumOfNone
    <3>2. CASE o.commit <= c
      <4>1. AtUntil(x, c) = {o}
        BY <1>12, <3>2 DEF AtUntil
      <4>2. read.opening[x] = o.time
        BY <1>1, <2>1, <4>1 DEF Snapshot
      <4> QED BY <1>7, <1>8, <1>10, <2>1, <2>4, <3>1, <4>2
    <3>3. CASE ~(o.commit <= c)
      <4>1. AtUntil(x, c) = {}
        BY <1>12, <3>3 DEF AtUntil
      <4>2. read.onHand[x] = 0
        BY <1>8, <4>1, SumOfNone
      <4> QED BY <1>7, <1>9, <3>1, <4>2
    <3> QED BY <3>2, <3>3
  <2> QED BY <2>3, <2>4
<1> QED BY <1>5, <1>11, <1>12

-----------------------------------------------------------------------------
(* The steps of the history                                                *)

\* Whatever posts nothing keeps the history, and a plan that is made reads it.
LEMMA HistoryUnmoved ==
  ASSUME HistoryInv, ledger' = ledger, qtyOnHand' = qtyOnHand, held' \in [Place -> Nat],
         ServingOK',
         \A w \in Worker : \/ worker'[w] = worker[w]
                           \/ worker'[w].pc # "commit"
                           \/ worker'[w].read = Current
  PROVE  HistoryInv'
<1>1. LedgerOK /\ StockOK /\ ReadsOK /\ PastOK
  BY DEF HistoryInv
<1>2. Grows({})
  BY NothingGrows
<1>3. LedgerOK'
  BY <1>1, <1>2, LedgerGrows
<1>4. ReadsOK'
  BY <1>1, <1>2, ReadsStay
<1>5. \A x \in Place : At(x)' = At(x)
  BY DEF At
<1>6. StockOK'
  BY <1>1, <1>5 DEF StockOK
<1>7. ASSUME NEW x \in Place
      PROVE  NeverNegative(x)'
  <2>1. NeverNegative(x)
    BY <1>1 DEF PastOK
  <2> QED BY <1>1, <1>2, <1>6, <2>1, PastStays
<1> QED BY <1>3, <1>4, <1>6, <1>7 DEF HistoryInv, PastOK

\* The movements of a file that is not a replay are of today, or add to the stock.
LEMMA OtherFilesAdd ==
  ASSUME NEW j \in FirstJob, NEW rows, rows = File[j], ~Replay(rows), NEW read,
         NEW m \in Movements(j, rows, read)
  PROVE  m.time = Now \/ m.qty \in Nat
<1>1. IsFile(rows)
  BY FilesAssumption
<1>2. PICK x \in Place : \E r \in Posting(rows, read, x) : m = MovementOf(j, rows, read, r, x)
  BY DEF Movements
<1>3. PICK r \in Posting(rows, read, x) : m = MovementOf(j, rows, read, r, x)
  BY <1>2
<1>4. r \in DOMAIN rows /\ rows[r].kind \in Replayed \union Counted
  BY DEF Posting
<1>5. m.qty = Effect(rows[r], x, read) /\ m.time = RowTime(rows[r])
  BY <1>3 DEF MovementOf
<1>6. rows[r] \in OpeningRow \/ rows[r] \in CountRow
  BY <1>1, <1>4 DEF IsFile, Replay, OtherKinds, Replayed, Counted
<1>7. CASE rows[r] \in OpeningRow
  BY <1>5, <1>7, RowFields DEF Effect
<1>8. CASE rows[r] \in CountRow
  BY <1>5, <1>8, RowFields DEF RowTime
<1> QED BY <1>6, <1>7, <1>8

LEMMA NotBlocked ==
  ASSUME NEW w, BlockedBy(w) = {}
  PROVE  Errors(File[worker[w].job], worker[w].read) = {}
BY DEF BlockedBy, Blockers

\* A file that is written keeps the history sound.
LEMMA HistoryWritten ==
  ASSUME HistoryInv, NEW w \in Worker, worker[w].pc = "commit", Done(w), BlockedBy(w) = {},
         NEW j, j = worker[w].job, NEW rows, rows = File[j], NEW read, read = worker[w].read,
         ~Refuses(rows, read), WriteStock(j, rows, read), held' = held
  PROVE  HistoryInv'
<1>1. LedgerOK /\ ServingOK /\ StockOK /\ ReadsOK /\ PastOK
  BY DEF HistoryInv
<1>2. j \in FirstJob /\ IsRead(read)
  BY <1>1 DEF ServingOK, ReadsOK
<1>3. IsReading(read)
  BY <1>1, <1>2, SnapshotIsReading DEF IsRead
<1>4. IsFile(rows) /\ Errors(rows, read) = {}
  BY <1>2, FilesAssumption, NotBlocked
<1>5. PICK N : N = Movements(j, rows, read)
  OBVIOUS
<1>6. /\ Grows(N)
      /\ \A x \in Place : OfPlace(N, x) = Posted(j, rows, read, x, DOMAIN rows)
  <2>1. /\ IsFiniteSet(N) /\ \A m \in N : IsMovement(m) /\ m.commit = NextCommit
        /\ \A x \in Place : OfPlace(N, x) = Posted(j, rows, read, x, DOMAIN rows)
    BY <1>1, <1>2, <1>3, <1>5, FilePosts
  <2> QED BY <1>5, <2>1 DEF Grows, WriteStock
<1>7. LedgerOK'
  BY <1>1, <1>6, LedgerGrows
<1>8. ASSUME NEW x \in Place
      PROVE  qtyOnHand'[x] \in Nat /\ qtyOnHand'[x] = qtyOnHand[x] + Sum(OfPlace(N, x))
  <2>1. qtyOnHand'[x] = qtyOnHand[x] + SumFunctionOnSet(EffectAt(rows, x, read), DOMAIN rows)
    BY DEF WriteStock
  <2>2. qtyOnHand[x] \in Nat /\ held[x] \in Nat
    BY <1>1 DEF StockOK
  <2>3. qtyOnHand[x] + SumFunctionOnSet(EffectAt(rows, x, read), DOMAIN rows) \in Nat
    BY <1>3, <1>4, <2>2, WhatIsAppliedIsCovered
  <2>4. Sum(OfPlace(N, x)) = SumFunctionOnSet(EffectAt(rows, x, read), DOMAIN rows)
    BY <1>3, <1>4, <1>6, PostedAddUp
  <2> QED BY <2>1, <2>3, <2>4
<1>9. StockOK'
  <2>1. held' \in [Place -> Nat]
    BY <1>1 DEF StockOK
  <2>2. qtyOnHand' \in [Place -> Nat]
    BY <1>8 DEF WriteStock
  <2> QED BY <1>1, <1>6, <1>8, <2>1, <2>2, StockStays
<1>10. \A v \in Worker : worker'[v] = worker[v] \/ worker'[v].pc # "commit"
  BY <1>1 DEF Done, ServingOK, NoRequest
<1>11. ReadsOK'
  BY <1>1, <1>6, <1>10, ReadsStay
<1>12. ServingOK'
  BY <1>1 DEF Done, ServingOK, NoRequest
<1>13. ASSUME NEW x \in Place
       PROVE  NeverNegative(x)'
  <2>1. NeverNegative(x)
    BY <1>1 DEF PastOK
  <2>2. CASE OfPlace(N, x) = {}
    <3>1. \A m \in N : m.at # x
      BY <2>2 DEF OfPlace
    <3> QED BY <1>1, <1>6, <1>9, <2>1, <3>1, PastStays
  <2>3. CASE Replay(rows) /\ OfPlace(N, x) # {}
    BY <1>1, <1>2, <1>4, <1>5, <1>6, <2>3, ReplayPast DEF NeverNegative
  <2>4. CASE ~Replay(rows)
    <3>1. \A m \in N : m.time = Now \/ m.qty \in Nat
      BY <1>2, <1>5, <2>4, OtherFilesAdd
    <3> QED BY <1>1, <1>6, <1>9, <2>1, <3>1, PastStays
  <2> QED BY <2>2, <2>3, <2>4
<1> QED BY <1>7, <1>9, <1>11, <1>12, <1>13 DEF HistoryInv, PastOK

\* Stock is received or issued, today.
LEMMA HistoryMoves ==
  ASSUME HistoryInv, NEW x \in Place, NEW q \in {-1, 1}, Move(x, q)
  PROVE  HistoryInv'
<1>1. LedgerOK /\ ServingOK /\ StockOK /\ ReadsOK /\ PastOK
  BY DEF HistoryInv
<1>2. PICK m : m = [job |-> Absent, row |-> 0, at |-> x, qty |-> q, time |-> Now,
                    commit |-> NextCommit]
  OBVIOUS
<1>3. /\ m.job = Absent /\ m.at = x /\ m.qty = q /\ m.time = Now /\ m.commit = NextCommit
      /\ q \in Int
  BY <1>2
<1>4. IsMovement(m)
  BY <1>1, <1>3, CommitsAreNumbered, FilesAssumption DEF IsMovement, Time
<1>5. Grows({m})
  BY <1>2, <1>3, <1>4, FS_Singleton DEF Grows, Move
<1>6. LedgerOK'
  BY <1>1, <1>5, LedgerGrows
<1>7. held' = held /\ qtyOnHand \in [Place -> Nat] /\ held \in [Place -> Nat]
  BY <1>1 DEF Move, StockOK
<1>8. qtyOnHand' = [qtyOnHand EXCEPT ![x] = @ + q] /\ qtyOnHand[x] + q \in Nat
  BY <1>3, <1>7 DEF Move, Available
<1>9. \A y \in Place : qtyOnHand'[y] = qtyOnHand[y] + Sum(OfPlace({m}, y))
  <2>1. OfPlace({m}, x) = {m} /\ Sum({m}) = q
    BY <1>3, SumOfOne DEF OfPlace
  <2>2. \A y \in Place : y # x => OfPlace({m}, y) = {}
    BY <1>3 DEF OfPlace
  <2>3. ASSUME NEW y \in Place, y # x
        PROVE  qtyOnHand'[y] = qtyOnHand[y] + Sum(OfPlace({m}, y))
    <3>1. Sum(OfPlace({m}, y)) = 0
      BY <2>2, <2>3, SumOfNone
    <3>2. qtyOnHand'[y] = qtyOnHand[y] /\ qtyOnHand[y] \in Nat
      BY <1>7, <1>8, <2>3
    <3> QED BY <3>1, <3>2
  <2>4. qtyOnHand'[x] = qtyOnHand[x] + Sum(OfPlace({m}, x))
    BY <1>7, <1>8, <2>1
  <2> QED BY <2>3, <2>4
<1>10. StockOK'
  <2>1. held' \in [Place -> Nat] /\ qtyOnHand' \in [Place -> Nat]
    BY <1>7, <1>8
  <2> QED BY <1>1, <1>5, <1>9, <2>1, StockStays
<1>11. ReadsOK'
  <2>1. \A w \in Worker : worker'[w] = worker[w]
    BY DEF Move
  <2> QED BY <1>1, <1>5, <2>1, ReadsStay
<1>12. ServingOK'
  BY <1>1 DEF Move, ServingOK
<1>13. ASSUME NEW y \in Place
       PROVE  NeverNegative(y)'
  <2>1. NeverNegative(y)
    BY <1>1 DEF PastOK
  <2>2. \A n \in {m} : n.at = y => n.time = Now \/ n.qty \in Nat
    BY <1>3
  <2> QED BY <1>1, <1>5, <1>10, <2>1, <2>2, PastStays
<1> QED BY <1>6, <1>10, <1>11, <1>12, <1>13 DEF HistoryInv, PastOK

LEMMA HistoryStart == FilesInit => HistoryInv
<1> SUFFICES ASSUME FilesInit PROVE HistoryInv
  OBVIOUS
<1>1. \A x : At(x) = {}
  BY DEF FilesInit, At
<1>2. LedgerOK
  BY FS_EmptySet DEF FilesInit, LedgerOK
<1>3. ServingOK /\ ReadsOK
  BY DEF FilesInit, ServingOK, ReadsOK, NoRequest
<1>4. StockOK
  BY <1>1, SumOfNone DEF FilesInit, StockOK
<1>5. ASSUME NEW x \in Place
      PROVE  NeverNegative(x)
  <2>1. \A t \in Time : Past(x, t) = {}
    BY <1>1 DEF Past
  <2> QED BY <2>1, SumOfNone DEF NeverNegative
<1> QED BY <1>2, <1>3, <1>4, <1>5 DEF HistoryInv, PastOK

LEMMA HistoryAsks ==
  ASSUME HistoryInv, NEW w \in Worker, NEW j \in FirstJob, NEW pc \in {"commit", "cancel"},
         NEW accept, NEW create, Ask(w, j, pc, accept, create), UNCHANGED stockRows
  PROVE  HistoryInv'
<1>1. ServingOK /\ StockOK
  BY DEF HistoryInv
<1>2. PICK r : r = [pc |-> pc, job |-> j, accept |-> accept, create |-> create,
                    read |-> IF pc = "commit" THEN Current ELSE Unread]
  OBVIOUS
<1>3. r.pc = pc /\ r.job = j /\ (pc = "commit" => r.read = Current)
  BY <1>2
<1>4. worker' = [worker EXCEPT ![w] = r]
  BY <1>2 DEF Ask
<1>5. ServingOK'
  BY <1>1, <1>3, <1>4 DEF ServingOK
<1>6. \A v \in Worker : \/ worker'[v] = worker[v]
                        \/ worker'[v].pc # "commit"
                        \/ worker'[v].read = Current
  BY <1>1, <1>3, <1>4 DEF ServingOK
<1>7. ledger' = ledger /\ qtyOnHand' = qtyOnHand /\ held' \in [Place -> Nat]
  BY <1>1 DEF stockRows, StockOK
<1> QED BY <1>5, <1>6, <1>7, HistoryUnmoved

LEMMA HistoryRests ==
  ASSUME HistoryInv, UNCHANGED stockRows,
         worker' = worker \/ \E w \in Worker : Done(w)
  PROVE  HistoryInv'
<1>1. ServingOK /\ StockOK
  BY DEF HistoryInv
<1>2. /\ ServingOK'
      /\ \A v \in Worker : worker'[v] = worker[v] \/ worker'[v].pc # "commit"
  BY <1>1 DEF ServingOK, Done, NoRequest
<1>3. ledger' = ledger /\ qtyOnHand' = qtyOnHand /\ held' \in [Place -> Nat]
  BY <1>1 DEF stockRows, StockOK
<1> QED BY <1>2, <1>3, HistoryUnmoved

LEMMA HistoryCommits ==
  ASSUME HistoryInv, NEW w \in Worker, Commit(w)
  PROVE  HistoryInv'
<1> DEFINE j == worker[w].job
           read == worker[w].read
           rows == File[j]
<1>1. worker[w].pc = "commit" /\ Done(w) /\ held' = held
  BY DEF Commit, rest
<1>2. CASE UNCHANGED <<qtyOnHand, ledger>>
  <2>1. UNCHANGED stockRows
    BY <1>1, <1>2 DEF stockRows
  <2> QED BY <1>1, <2>1, HistoryRests
<1>3. CASE BlockedBy(w) = {} /\ ~Refuses(rows, read) /\ WriteStock(j, rows, read)
  <2> HIDE DEF j, rows, read
  <2> QED BY <1>1, <1>3, HistoryWritten DEF j, rows, read
<1> QED BY <1>2, <1>3 DEF Commit, Refused, Fail

LEMMA HistorySteps == HistoryInv /\ [FilesNext]_fileVars => HistoryInv'
<1> SUFFICES ASSUME HistoryInv, [FilesNext]_fileVars PROVE HistoryInv'
  OBVIOUS
<1>1. ASSUME NEW w \in Worker, NEW j \in FirstJob, NEW accept, NEW create,
             Plan(w, j, accept, create)
      PROVE  HistoryInv'
  BY <1>1, HistoryAsks DEF Plan
<1>2. ASSUME NEW w \in Worker, NEW j \in FirstJob, ReadForCancel(w, j)
      PROVE  HistoryInv'
  BY <1>2, HistoryAsks DEF ReadForCancel
<1>3. ASSUME NEW w \in Worker, Cancel(w)
      PROVE  HistoryInv'
  BY <1>3, HistoryRests DEF Cancel
<1>4. ASSUME NEW j, Rollback(j)
      PROVE  HistoryInv'
  BY <1>4, HistoryRests DEF Rollback
<1>5. ASSUME NEW j, NEW k, Retry(j, k)
      PROVE  HistoryInv'
  BY <1>5, HistoryRests DEF Retry
<1>6. ASSUME NEW x \in Place, NEW q \in {-1, 1}, Hold(x, q)
      PROVE  HistoryInv'
  <2>1. ServingOK /\ StockOK
    BY DEF HistoryInv
  <2>2. held' \in [Place -> Nat]
    BY <1>6, <2>1 DEF Hold, StockOK
  <2>3. ServingOK' /\ worker' = worker /\ ledger' = ledger /\ qtyOnHand' = qtyOnHand
    BY <1>6, <2>1 DEF Hold, ServingOK
  <2> QED BY <2>2, <2>3, HistoryUnmoved
<1>7. ASSUME NEW b, Use(b)
      PROVE  HistoryInv'
  BY <1>7, HistoryRests DEF Use
<1>8. CASE UNCHANGED fileVars
  BY <1>8, HistoryRests DEF fileVars, stockRows
<1> QED BY <1>1, <1>2, <1>3, <1>4, <1>5, <1>6, <1>7, <1>8, HistoryCommits, HistoryMoves
        DEF FilesNext

\* The stock of every place is what its movements add up to, and where the history of
\* a place was rebuilt from one opening and one replay, the balance of no day is
\* negative: the replay was planned from a stock that others may have changed before
\* it was committed, and then its place no longer counts as rebuilt.
THEOREM HistoryAlways == FilesSpec => []HistoryIsSound
<1>1. HistoryInv => HistoryIsSound
  BY DEF HistoryInv, StockOK, PastOK, NeverNegative, Past, HistoryIsSound
<1> QED BY <1>1, HistoryStart, HistorySteps, PTL DEF FilesSpec

-----------------------------------------------------------------------------
(* The steps of the jobs                                                   *)

LEMMA JobStays ==
  ASSUME NEW k, JobOK(k), job'[k] = job[k], written'[k] = written[k],
         AtWorkOn(k)' \subseteq AtWorkOn(k), clash \subseteq clash'
  PROVE  JobOK(k)'
BY DEF JobOK, Wrote, IsJob

\* What is written of the rows of a job is what its record r says.
WholeOrNone(r, counts) ==
  /\ {q \in Row : counts[q] > 0} =
       IF r.status \in {"completed", "rolled_back"} THEN r.rows \ r.errors ELSE {}
  /\ \A q \in Row : counts[q] \in {0, 1}

\* A job that ends in some way while a request is at work on it.
LEMMA JobEnds ==
  ASSUME ServingOK, JobsOK, NEW w \in Worker, worker[w].pc # "idle", Done(w),
         clash' = clash, NEW j, j = worker[w].job,
         \A k \in Job : k # j => job'[k] = job[k] /\ written'[k] = written[k],
         job' = [k \in Job |-> job'[k]], written' = [k \in Job |-> written'[k]],
         IsJob(job'[j]), written'[j] = [r \in Row |-> written'[j][r]],
         job'[j].status \notin {"none", "pending"},
         job[j].status = "pending" => WholeOrNone(job'[j], written'[j])
  PROVE  JobsOK'
<1>1. j \in FirstJob /\ j \in Job /\ JobOK(j) /\ w \in AtWorkOn(j)
  BY FilesAssumption DEF ServingOK, JobsOK, AtWorkOn
<1>2. \A k \in Job : AtWorkOn(k)' = AtWorkOn(k) \ {w}
  BY FilesAssumption DEF ServingOK, Done, AtWorkOn, NoRequest
<1>3. ASSUME NEW k \in Job, k # j
      PROVE  JobOK(k)'
  BY <1>2, <1>3, JobStays DEF JobsOK
<1>4. JobOK(j)'
  <2>1. ASSUME j \notin clash
        PROVE  job[j].status = "pending" /\ AtWorkOn(j)' = {}
    BY <1>1, <1>2, <2>1 DEF JobOK
  <2> QED BY <1>1, <2>1 DEF JobOK, Wrote, WholeOrNone
<1> QED BY <1>3, <1>4 DEF JobsOK

LEMMA JobsCommit ==
  ASSUME ServingOK, JobsOK, NEW w \in Worker, Commit(w)
  PROVE  JobsOK'
<1> DEFINE read == worker[w].read
<1>1. PICK j : j = worker[w].job
  OBVIOUS
<1>2. PICK rows : rows = File[j]
  OBVIOUS
<1>3. worker[w].pc = "commit" /\ Done(w) /\ clash' = clash
  BY DEF Commit, rest
<1>4. j \in FirstJob /\ j \in Job /\ JobOK(j)
  BY <1>1, <1>3, FilesAssumption DEF ServingOK, JobsOK
<1>5. IsJob(job[j]) /\ job = [k \in Job |-> job[k]] /\ written = [k \in Job |-> written[k]]
  BY <1>4 DEF JobsOK, JobOK
<1>6. ASSUME NEW errors, Fail(w, errors)
      PROVE  JobsOK'
  <2>1. job' = [job EXCEPT ![j].status = "failed", ![j].errors = @ \union errors]
        /\ written' = written
    BY <1>1, <1>6 DEF Fail
  <2>2. /\ job'[j].status = "failed" /\ IsJob(job'[j])
        /\ job' = [k \in Job |-> job'[k]]
        /\ \A k \in Job : k # j => job'[k] = job[k]
    BY <1>4, <1>5, <2>1 DEF IsJob
  <2>3. /\ written'[j] = [r \in Row |-> written'[j][r]]
        /\ written' = [k \in Job |-> written'[k]]
    BY <1>4, <1>5, <2>1 DEF JobOK
  <2>4. job[j].status = "pending" => WholeOrNone(job'[j], written'[j])
    BY <1>4, <2>1, <2>2 DEF JobOK, WholeOrNone
  <2>5. \A k \in Job : k # j => job'[k] = job[k] /\ written'[k] = written[k]
    BY <2>1, <2>2
  <2>6. worker[w].pc # "idle" /\ job'[j].status \notin {"none", "pending"}
    BY <1>3, <2>2
  <2> QED BY <1>1, <1>3, <2>2, <2>3, <2>4, <2>5, <2>6, JobEnds
<1>7. ASSUME /\ job' = [job EXCEPT ![j].status = "completed"]
             /\ written' = [written EXCEPT ![j] =
                  [r \in Row |-> @[r] + IF r \in DOMAIN rows THEN 1 ELSE 0]]
      PROVE  JobsOK'
  <2>1. /\ job'[j].status = "completed" /\ IsJob(job'[j])
        /\ job'[j].rows = job[j].rows /\ job'[j].errors = job[j].errors
        /\ job' = [k \in Job |-> job'[k]]
        /\ \A k \in Job : k # j => job'[k] = job[k]
    BY <1>4, <1>5, <1>7 DEF IsJob
  <2>2. /\ written'[j] = [r \in Row |-> written[j][r] + IF r \in DOMAIN rows THEN 1 ELSE 0]
        /\ written' = [k \in Job |-> written'[k]]
        /\ \A k \in Job : k # j => written'[k] = written[k]
    BY <1>4, <1>5, <1>7
  <2>3. ASSUME job[j].status = "pending"
        PROVE  WholeOrNone(job'[j], written'[j])
    <3>1. /\ \A r \in Row : written[j][r] = 0
          /\ job[j].rows = DOMAIN rows /\ job[j].errors = {}
      BY <1>2, <1>4, <2>3 DEF JobOK
    <3>2. DOMAIN rows \subseteq Row
      BY <1>2, <1>4 DEF Row
    <3>3. \A r \in Row : written'[j][r] = IF r \in DOMAIN rows THEN 1 ELSE 0
      BY <2>2, <3>1
    <3> QED BY <2>1, <3>1, <3>2, <3>3 DEF WholeOrNone
  <2> QED BY <1>1, <1>3, <2>1, <2>2, <2>3, JobEnds
<1>8. (\E errors : Fail(w, errors))
      \/ /\ job' = [job EXCEPT ![j].status = "completed"]
         /\ written' = [written EXCEPT ![j] =
              [r \in Row |-> @[r] + IF r \in DOMAIN rows THEN 1 ELSE 0]]
  BY <1>1, <1>2 DEF Commit, Refused
<1> QED BY <1>6, <1>7, <1>8

LEMMA JobsCancel ==
  ASSUME ServingOK, JobsOK, NEW w \in Worker, Cancel(w)
  PROVE  JobsOK'
<1>1. PICK j : j = worker[w].job
  OBVIOUS
<1>2. /\ worker[w].pc = "cancel" /\ Done(w) /\ clash' = clash /\ written' = written
      /\ job' = [job EXCEPT ![j].status = "cancelled"]
  BY <1>1 DEF Cancel
<1>3. j \in Job /\ JobOK(j)
  BY <1>1, <1>2, FilesAssumption DEF ServingOK, JobsOK
<1>4. /\ IsJob(job[j]) /\ job = [k \in Job |-> job[k]] /\ written = [k \in Job |-> written[k]]
      /\ written[j] = [r \in Row |-> written[j][r]]
  BY <1>3 DEF JobsOK, JobOK
<1>5. /\ job'[j].status = "cancelled" /\ IsJob(job'[j])
      /\ job' = [k \in Job |-> job'[k]]
      /\ \A k \in Job : k # j => job'[k] = job[k]
  BY <1>2, <1>3, <1>4 DEF IsJob
<1>6. job[j].status = "pending" => WholeOrNone(job'[j], written'[j])
  BY <1>2, <1>3, <1>5 DEF JobOK, WholeOrNone
<1>7. /\ Done(w) /\ clash' = clash /\ worker[w].pc # "idle"
      /\ job'[j].status \notin {"none", "pending"}
      /\ \A k \in Job : k # j => job'[k] = job[k] /\ written'[k] = written[k]
      /\ written' = [k \in Job |-> written'[k]] /\ written'[j] = [r \in Row |-> written'[j][r]]
  BY <1>2, <1>4, <1>5
<1> QED BY <1>1, <1>5, <1>6, <1>7, JobEnds

LEMMA JobsAsk ==
  ASSUME ServingOK, JobsOK, NEW w \in Worker, NEW j \in FirstJob, job[j].status = "pending",
         NEW pc, NEW accept, NEW create, Ask(w, j, pc, accept, create),
         job' = job, written' = written
  PROVE  JobsOK'
<1>1. /\ worker[w].job = Absent
      /\ worker'[w].job = j /\ \A v \in Worker : v # w => worker'[v] = worker[v]
  BY DEF ServingOK, Ask
<1>2. clash \subseteq clash' /\ (j \notin clash' => AtWorkOn(j) = {} /\ j \notin clash)
  BY DEF Ask, Clashes, AtWorkOn
<1>3. ASSUME NEW k \in Job, k # j
      PROVE  JobOK(k)'
  <2>1. AtWorkOn(k)' \subseteq AtWorkOn(k)
    BY <1>1, <1>3 DEF AtWorkOn
  <2> QED BY <1>2, <2>1, JobStays DEF JobsOK
<1>4. JobOK(j)'
  <2>1. j \notin clash' => AtWorkOn(j)' = {w}
    BY <1>1, <1>2 DEF AtWorkOn
  <2>2. JobOK(j)
    BY FilesAssumption DEF JobsOK
  <2> QED BY <1>2, <2>1, <2>2 DEF JobOK, Wrote, IsJob
<1> QED BY <1>3, <1>4 DEF JobsOK

LEMMA JobsRollBack ==
  ASSUME JobsOK, NEW j \in Job, Rollback(j)
  PROVE  JobsOK'
<1>1. /\ job[j].status = "completed" /\ job' = [job EXCEPT ![j].status = "rolled_back"]
      /\ written' = written /\ worker' = worker /\ clash' = clash
  BY DEF Rollback
<1>2. IsJob(job[j]) /\ job = [k \in Job |-> job[k]] /\ JobOK(j)
  BY DEF JobsOK, JobOK
<1>3. /\ job'[j].status = "rolled_back" /\ IsJob(job'[j])
      /\ job'[j].rows = job[j].rows /\ job'[j].errors = job[j].errors
      /\ job' = [k \in Job |-> job'[k]]
      /\ \A k \in Job : k # j => job'[k] = job[k]
  BY <1>1, <1>2 DEF IsJob
<1>4. \A k : AtWorkOn(k)' = AtWorkOn(k)
  BY <1>1 DEF AtWorkOn
<1>5. ASSUME NEW k \in Job, k # j
      PROVE  JobOK(k)'
  BY <1>1, <1>3, <1>4, <1>5, JobStays DEF JobsOK
<1>6. JobOK(j)'
  BY <1>1, <1>2, <1>3, <1>4 DEF JobOK, Wrote
<1> QED BY <1>1, <1>3, <1>5, <1>6 DEF JobsOK

LEMMA JobsRetry ==
  ASSUME ServingOK, JobsOK, NEW j \in Job, NEW k \in Job \ FirstJob, Retry(j, k)
  PROVE  JobsOK'
<1>1. PICK r : r = [status |-> "completed", file |-> job[j].file,
                    rows |-> job[j].errors \ {0}, errors |-> job[j].errors \ {0}]
  OBVIOUS
<1>2. /\ job[k].status = "none" /\ job' = [job EXCEPT ![k] = r]
      /\ written' = written /\ worker' = worker /\ clash' = clash
  BY <1>1 DEF Retry
<1>3. job = [i \in Job |-> job[i]] /\ JobOK(k)
  BY DEF JobsOK
<1>4. /\ job'[k] = r /\ job' = [i \in Job |-> job'[i]]
      /\ \A i \in Job : i # k => job'[i] = job[i]
  BY <1>2, <1>3
<1>5. r.status = "completed" /\ IsJob(r) /\ r.rows \ r.errors = {}
  BY <1>1 DEF IsJob
<1>6. \A i : AtWorkOn(i)' = AtWorkOn(i)
  BY <1>2 DEF AtWorkOn
<1>7. ASSUME NEW i \in Job, i # k
      PROVE  JobOK(i)'
  BY <1>2, <1>4, <1>6, <1>7, JobStays DEF JobsOK
<1>8. AtWorkOn(k) = {}
  BY FilesAssumption DEF ServingOK, AtWorkOn
<1>9. JobOK(k)'
  BY <1>2, <1>3, <1>4, <1>5, <1>6, <1>8 DEF JobOK, Wrote
<1> QED BY <1>2, <1>4, <1>7, <1>9 DEF JobsOK

LEMMA JobsStart == FilesInit => JobsOK
<1> SUFFICES ASSUME FilesInit PROVE JobsOK
  OBVIOUS
<1>1. \A j \in Job : job[j] = IF j \in FirstJob THEN Uploaded(j) ELSE Nothing
  BY DEF FilesInit
<1>2. \A j \in Job : /\ IsJob(job[j]) /\ job[j].status = IF j \in FirstJob THEN "pending" ELSE "none"
                     /\ j \in FirstJob => job[j].rows = DOMAIN File[j] /\ job[j].errors = {}
  <2>1. ASSUME NEW j \in Job, NEW r, r = Uploaded(j)
        PROVE  IsJob(r) /\ r.status = "pending" /\ r.rows = DOMAIN File[j] /\ r.errors = {}
    BY <2>1 DEF IsJob, Uploaded
  <2>2. IsJob(Nothing) /\ Nothing.status = "none"
    BY DEF IsJob, Nothing
  <2> QED BY <1>1, <2>1, <2>2
<1>3. \A j \in Job : /\ written[j] = [r \in Row |-> written[j][r]]
                     /\ \A r \in Row : written[j][r] = 0
  BY DEF FilesInit
<1>4. \A j \in Job : AtWorkOn(j) = {}
  BY FilesAssumption DEF FilesInit, NoRequest, AtWorkOn
<1>5. \A j \in Job : JobOK(j)
  BY <1>2, <1>3, <1>4 DEF JobOK, Wrote
<1> QED BY <1>5 DEF JobsOK, FilesInit

LEMMA JobsRest ==
  ASSUME JobsOK, job' = job, worker' = worker, written' = written, clash' = clash
  PROVE  JobsOK'
<1>1. \A j : AtWorkOn(j)' = AtWorkOn(j)
  BY DEF AtWorkOn
<1>2. ASSUME NEW j \in Job
      PROVE  JobOK(j)'
  BY <1>1, JobStays DEF JobsOK
<1> QED BY <1>2 DEF JobsOK

LEMMA JobsSteps == ServingOK /\ JobsOK /\ [FilesNext]_fileVars => JobsOK'
<1> SUFFICES ASSUME ServingOK, JobsOK, [FilesNext]_fileVars PROVE JobsOK'
  OBVIOUS
<1>1. ASSUME NEW w \in Worker, NEW j \in FirstJob, NEW accept, NEW create,
             Plan(w, j, accept, create)
      PROVE  JobsOK'
  BY <1>1, JobsAsk DEF Plan
<1>2. ASSUME NEW w \in Worker, NEW j \in FirstJob, ReadForCancel(w, j)
      PROVE  JobsOK'
  BY <1>2, JobsAsk DEF ReadForCancel
<1>3. ASSUME NEW x, NEW q, Move(x, q) \/ Hold(x, q)
      PROVE  JobsOK'
  BY <1>3, JobsRest DEF Move, Hold
<1>4. ASSUME NEW b, Use(b)
      PROVE  JobsOK'
  <2>1. clash' = clash
    BY <1>4 DEF Use, Sell, Lend
  <2> QED BY <1>4, <2>1, JobsRest DEF Use
<1>5. CASE UNCHANGED fileVars
  BY <1>5, JobsRest DEF fileVars
<1> QED BY <1>1, <1>2, <1>3, <1>4, <1>5, JobsCommit, JobsCancel, JobsRollBack, JobsRetry
        DEF FilesNext

\* A job that no two requests worked on at once has written every row of its file, once,
\* or none: blocked or refused by the engine it has written none, rolled back it has
\* written what it did, and a retry of it writes none.
THEOREM FilesAreWhole == FilesSpec => []CompleteOrNothing
<1> DEFINE Inv == HistoryInv /\ JobsOK
<1>1. Inv /\ [FilesNext]_fileVars => Inv'
  <2>1. HistoryInv => ServingOK
    BY DEF HistoryInv
  <2> QED BY <2>1, HistorySteps, JobsSteps
<1>2. Inv => CompleteOrNothing
  <2> SUFFICES ASSUME Inv, NEW j \in Job \ clash
               PROVE  /\ Wrote(j) = IF job[j].status \in {"completed", "rolled_back"}
                                      THEN job[j].rows \ job[j].errors ELSE {}
                      /\ \A r \in Row : written[j][r] <= 1
    BY DEF CompleteOrNothing
  <2> QED BY DEF JobsOK, JobOK
<1> QED BY <1>1, <1>2, HistoryStart, JobsStart, PTL DEF FilesSpec

-----------------------------------------------------------------------------
(* The steps of the units                                                  *)

IsUnit(u) ==
  u = [status |-> u.status, buyer |-> u.buyer, invoices |-> u.invoices,
       notes |-> u.notes, lent |-> u.lent]

SoldTo(u, buyer) == [u EXCEPT !.status = "sold", !.buyer = buyer, !.invoices = @ + 1]

LEMMA UnitSold ==
  ASSUME NEW u, IsUnit(u), u.invoices = 0, NEW buyer, NEW v, v = SoldTo(u, buyer)
  PROVE  IsUnit(v) /\ v.invoices = 1 /\ v.status = "sold"
<1>1. PICK i \in Int : i = u.invoices
  OBVIOUS
<1>2. PICK s, b, n, l : u = [status |-> s, buyer |-> b, invoices |-> i, notes |-> n, lent |-> l]
  BY <1>1 DEF IsUnit
<1>3. v = [status |-> "sold", buyer |-> buyer, invoices |-> i + 1, notes |-> n, lent |-> l]
  BY <1>2 DEF SoldTo
<1>4. IsUnit(v)
  BY <1>3 DEF IsUnit
<1> QED BY <1>1, <1>3, <1>4

LEMMA UnitApplied ==
  ASSUME NEW row, row.kind \in AboutBike, row.bike \in Bike, ~BikeRefuses(row),
         NEW u, u = bike[row.bike], UnitOK(u)
  PROVE  UnitOK(Applied(row, u))
<1>1. CASE row.kind = "register"
  <2>1. PICK v : v = Registered(row)
    OBVIOUS
  <2>2. IsUnit(v) /\ v.invoices = 0
    BY <2>1 DEF Registered, Unknown, IsUnit
  <2>3. Applied(row, u) = v
    BY <1>1, <2>1 DEF Applied
  <2> QED BY <2>2, <2>3 DEF UnitOK, IsUnit
<1>2. CASE row.kind = "sell"
  <2>1. u.invoices = 0
    BY <1>2 DEF BikeRefuses, SaleRefused, Stockable, UnitOK
  <2>2. PICK v : v = Invoiced(row, u)
    OBVIOUS
  <2>3. IsUnit(v) /\ v.invoices = 1 /\ v.status = "sold"
    <3>1. IsUnit(u)
      BY DEF UnitOK, IsUnit
    <3>2. v = SoldTo(u, row.buyer)
      BY <2>2 DEF Invoiced, SoldTo
    <3> QED BY <2>1, <3>1, <3>2, UnitSold
  <2>4. Applied(row, u) = v
    BY <1>2, <2>2 DEF Applied
  <2> QED BY <2>3, <2>4 DEF UnitOK, IsUnit
<1>3. CASE row.kind = "deliver"
  <2>1. PICK v : v = Delivered(u)
    OBVIOUS
  <2>2. IsUnit(v) /\ v.invoices = u.invoices /\ v.status = u.status
    BY <2>1 DEF Delivered, UnitOK, IsUnit
  <2>3. Applied(row, u) = v
    BY <1>3, <2>1 DEF Applied
  <2> QED BY <2>2, <2>3 DEF UnitOK, IsUnit
<1> QED BY <1>1, <1>2, <1>3 DEF AboutBike

LEMMA UnitsWritten ==
  ASSUME UnitsOK, NEW rows, IsFile(rows), NEW read, ~Refuses(rows, read), WriteBikes(rows, read)
  PROVE  UnitsOK'
<1>1. bike' = [b \in Bike |->
        IF RowAbout(rows, b) = {} THEN bike[b] ELSE Applied(rows[Min(RowAbout(rows, b))], bike[b])]
  BY DEF WriteBikes
<1>2. ASSUME NEW b \in Bike
      PROVE  UnitOK(bike'[b])
  <2>1. UnitOK(bike[b])
    BY DEF UnitsOK
  <2>2. CASE RowAbout(rows, b) = {}
    BY <1>1, <2>1, <2>2
  <2>3. CASE RowAbout(rows, b) # {}
    <3>1. RowAbout(rows, b) \in SUBSET Nat
      BY DEF RowAbout, IsFile
    <3>2. \E n \in RowAbout(rows, b) : \A k \in RowAbout(rows, b) : n <= k
      BY <2>3, <3>1, LeastNatural
    <3>3. PICK r \in RowAbout(rows, b) : r = Min(RowAbout(rows, b))
      BY <3>2 DEF Min
    <3>4. r \in DOMAIN rows /\ rows[r].kind \in AboutBike /\ rows[r].bike = b
      BY <3>3 DEF RowAbout
    <3>5. ~BikeRefuses(rows[r])
      BY <3>4 DEF Refuses
    <3>6. UnitOK(Applied(rows[r], bike[b]))
      BY <2>1, <3>4, <3>5, UnitApplied
    <3> QED BY <1>1, <2>3, <3>3, <3>6
  <2> QED BY <2>2, <2>3
<1>3. bike' = [b \in Bike |-> bike'[b]]
  BY <1>1
<1> QED BY <1>2, <1>3 DEF UnitsOK

LEMMA UnitsUsed ==
  ASSUME UnitsOK, NEW b \in Bike, Use(b)
  PROVE  UnitsOK'
<1>1. UnitOK(bike[b]) /\ bike = [c \in Bike |-> bike[c]]
  BY DEF UnitsOK
<1>2. PICK u : u = bike[b]
  OBVIOUS
<1>3. CASE Sell(b)
  <2>1. PICK v : v = SoldTo(u, "walk-in")
    OBVIOUS
  <2>2. u.invoices = 0
    BY <1>1, <1>2, <1>3 DEF Sell, SaleRefused, Stockable, UnitOK
  <2>3. IsUnit(v) /\ v.invoices = 1 /\ v.status = "sold"
    <3>1. IsUnit(u)
      BY <1>1, <1>2 DEF UnitOK, IsUnit
    <3> QED BY <2>1, <2>2, <3>1, UnitSold
  <2>4. bike' = [bike EXCEPT ![b] = v]
    BY <1>1, <1>2, <1>3, <2>1 DEF Sell, SoldTo
  <2>5. UnitOK(v)
    BY <2>3 DEF UnitOK, IsUnit
  <2> QED BY <2>4, <2>5 DEF UnitsOK
<1>4. CASE Lend(b)
  <2>1. PICK v : v = [u EXCEPT !.lent = ~@]
    OBVIOUS
  <2>2. IsUnit(v) /\ v.invoices = u.invoices /\ v.status = u.status
    BY <1>1, <1>2, <2>1 DEF UnitOK, IsUnit
  <2>3. bike' = [bike EXCEPT ![b] = v]
    BY <1>1, <1>2, <1>4, <2>1 DEF Lend
  <2>4. UnitOK(v)
    BY <1>1, <1>2, <2>2 DEF UnitOK, IsUnit
  <2> QED BY <2>3, <2>4 DEF UnitsOK
<1> QED BY <1>3, <1>4 DEF Use

LEMMA UnitsSteps == ServingOK /\ UnitsOK /\ [FilesNext]_fileVars => UnitsOK'
<1> SUFFICES ASSUME ServingOK, UnitsOK, [FilesNext]_fileVars PROVE UnitsOK'
  OBVIOUS
<1>1. CASE bike' = bike
  BY <1>1 DEF UnitsOK
<1>2. ASSUME NEW w \in Worker, Commit(w)
      PROVE  UnitsOK'
  <2> DEFINE rows == File[worker[w].job]
             read == worker[w].read
  <2>1. IsFile(rows)
    BY <1>2, FilesAssumption DEF Commit, ServingOK
  <2>2. CASE ~Refuses(rows, read) /\ WriteBikes(rows, read)
    <3> HIDE DEF rows, read
    <3> QED BY <2>1, <2>2, UnitsWritten
  <2> QED BY <1>1, <1>2, <2>2 DEF Commit, Refused, Fail
<1>3. (\E w \in Worker : Commit(w)) \/ (\E b \in Bike : Use(b)) \/ bike' = bike
  BY DEF FilesNext, fileVars, Plan, ReadForCancel, Cancel, Rollback, Retry, Move, Hold
<1> QED BY <1>1, <1>2, <1>3, UnitsUsed

\* A unit that a file of pending sales sells is sold once, though its status was looked
\* at when the file was planned: the sale itself looks again.
THEOREM OneInvoice == FilesSpec => []InvoicedOnce
<1> DEFINE Inv == HistoryInv /\ UnitsOK
<1>1. FilesInit => Inv
  <2> SUFFICES ASSUME FilesInit PROVE UnitsOK
    BY HistoryStart
  <2>1. UnitOK(Unknown)
    BY DEF UnitOK, Unknown
  <2> QED BY <2>1 DEF FilesInit, UnitsOK
<1>2. Inv /\ [FilesNext]_fileVars => Inv'
  <2>1. HistoryInv => ServingOK
    BY DEF HistoryInv
  <2> QED BY <2>1, HistorySteps, UnitsSteps
<1>3. Inv => InvoicedOnce
  BY DEF UnitsOK, UnitOK, InvoicedOnce
<1> QED BY <1>1, <1>2, <1>3, PTL DEF FilesSpec

-----------------------------------------------------------------------------
(* What a plan promises                                                    *)

\* A place is counted once in a file: the file changes it by what was missing.
LEMMA OneCount ==
  ASSUME NEW rows, IsFile(rows), NEW read, IsReading(read),
         \A q \in DOMAIN rows : ~Duplicate(rows, q),
         NEW U \in SUBSET DOMAIN rows, NEW r \in U, rows[r] \in CountRow
  PROVE  SumFunctionOnSet(EffectAt(rows, rows[r].at, read), U)
           = rows[r].qty - read.onHand[rows[r].at]
<1>1. PICK x \in Place : x = rows[r].at
  BY RowFields
<1> DEFINE e == EffectAt(rows, x, read)
<1>2. \A q \in U : e[q] \in Int /\ e[q] = Effect(rows[q], x, read)
  BY EffectIsQuantity DEF EffectAt
<1>3. e[r] = rows[r].qty - read.onHand[x]
  BY <1>1, <1>2, RowFields DEF Effect
<1>4. ASSUME NEW q \in U \ {r}
      PROVE  e[q] = 0
  <2>1. rows[q] \in CountRow
    BY RowFields DEF IsFile, Replayed, OtherKinds
  <2>2. rows[q].kind = "count" /\ rows[r].kind = "count"
    BY <2>1, RowFields
  <2>3. q \in Nat /\ r \in Nat /\ q # r /\ q \in DOMAIN rows /\ r \in DOMAIN rows
    BY DEF IsFile
  <2>4. ~Duplicate(rows, q) /\ ~Duplicate(rows, r)
    BY <2>3
  <2>5. rows[q].at # x
    BY <1>1, <2>2, <2>3, <2>4 DEF Duplicate, KeyOf, Keyed, Counted
  <2> QED BY <1>2, <2>2, <2>5 DEF Effect
<1>5. IsFiniteSet(U) /\ IsFiniteSet(U \ {r})
  BY EffectsAdd, FS_Subset
<1>6. SumFunctionOnSet(e, U \ {r}) = 0
  BY <1>4, <1>5, SumZero
<1>7. SumFunctionOnSet(e, U) = e[r] + SumFunctionOnSet(e, U \ {r})
  BY <1>2, <1>5, SumRemove
<1>8. rows[r].qty \in Int /\ read.onHand[x] \in Int
  BY RowFields DEF IsReading
<1> HIDE DEF e
<1> QED BY <1>1, <1>3, <1>6, <1>7, <1>8 DEF e

\* A file that was planned without errors from what there is, is not refused.
LEMMA PlannedIsTaken ==
  ASSUME NEW rows, IsFile(rows), NEW read, read = Current, IsReading(read),
         Errors(rows, read) = {}, \A x \in Place : held[x] = 0 /\ qtyOnHand[x] \in Nat,
         \A b \in Bike : ~bike[b].lent
  PROVE  ~Refuses(rows, read)
<1>1. read.onHand = qtyOnHand /\ read.bike = bike
  BY DEF Current
<1>2. ASSUME NEW r \in DOMAIN rows
      PROVE  ~StockRefuses(rows, r, read)
  <2>1. CASE rows[r] \in ReplayRow
    <3>1. rows[r].at \in Place
      BY <2>1, RowFields
    <3>2. rows[r].kind \in Drains =>
            /\ Balance(rows, DOMAIN rows, r, rows[r].at, qtyOnHand[rows[r].at], read) >= 0
            /\ Available(rows[r].at) = qtyOnHand[rows[r].at]
      BY <1>1, <3>1, PlanOfRows DEF DryBalance, Available
    <3>3. ~(rows[r].kind = "count")
      BY <2>1, RowFields DEF Replayed
    <3>4. SumFunctionOnSet(EffectAt(rows, rows[r].at, read), Through(rows, DOMAIN rows, r)) \in Int
      BY <3>1, EffectsAdd DEF Through
    <3>5. Balance(rows, DOMAIN rows, r, rows[r].at, qtyOnHand[rows[r].at], read) \in Int
      BY <3>1, <3>4 DEF Balance
    <3> QED BY <3>2, <3>3, <3>5 DEF StockRefuses, Drains
  <2>2. CASE rows[r] \in CountRow
    <3>1. /\ rows[r].at \in Place /\ rows[r].qty \in Nat /\ rows[r].kind = "count"
          /\ qtyOnHand[rows[r].at] \in Nat
      BY <2>2, RowFields
    <3>2. Through(rows, DOMAIN rows, r) \subseteq DOMAIN rows /\ r \in Through(rows, DOMAIN rows, r)
      BY DEF Through
    <3>3. SumFunctionOnSet(EffectAt(rows, rows[r].at, read), Through(rows, DOMAIN rows, r))
            = rows[r].qty - qtyOnHand[rows[r].at]
      BY <1>1, <2>2, <3>2, PlanOfRows, OneCount
    <3>4. Balance(rows, DOMAIN rows, r, rows[r].at, qtyOnHand[rows[r].at], read) = rows[r].qty
      BY <3>1, <3>3 DEF Balance
    <3> QED BY <3>1, <3>4 DEF StockRefuses
  <2>3. CASE rows[r].kind \in {"opening"} \union OtherKinds
    BY <2>3 DEF StockRefuses, OtherKinds
  <2> QED BY <2>1, <2>2, <2>3, RowFields DEF IsFile
<1>3. ASSUME NEW r \in DOMAIN rows
      PROVE  ~BikeRefuses(rows[r])
  <2>1. ~Wrong(rows[r], read)
    BY PlanOfRows
  <2>2. rows[r].kind = "register" => bike[rows[r].bike].status = "unknown"
    BY <1>1, <2>1 DEF Wrong, WrongUnit
  <2>3. rows[r].kind = "sell" => ~SaleRefused(rows[r].bike)
    <3> SUFFICES ASSUME rows[r].kind = "sell" PROVE ~SaleRefused(rows[r].bike)
      OBVIOUS
    <3>1. bike[rows[r].bike].status \in Stockable
      BY <1>1, <2>1 DEF Wrong, WrongSale
    <3>2. rows[r].bike \in Bike
      BY RowFields DEF IsFile, Replayed
    <3> QED BY <3>1, <3>2 DEF SaleRefused
  <2> QED BY <2>2, <2>3 DEF BikeRefuses
<1> QED BY <1>2, <1>3 DEF Refuses

\* What was counted is what there is after the file.
LEMMA CountsAreKept ==
  ASSUME NEW rows, IsFile(rows), NEW read, read = Current, IsReading(read),
         Errors(rows, read) = {}, \A x \in Place : qtyOnHand[x] \in Nat,
         NEW j, WriteStock(j, rows, read)
  PROVE  CountsHold(rows)
<1> SUFFICES ASSUME NEW r \in DOMAIN rows, rows[r].kind = "count"
             PROVE  qtyOnHand'[rows[r].at] = rows[r].qty
  BY DEF CountsHold
<1>1. rows[r] \in CountRow
  BY RowFields DEF IsFile, Replayed, OtherKinds
<1>2. /\ rows[r].at \in Place /\ rows[r].qty \in Nat /\ qtyOnHand[rows[r].at] \in Nat
      /\ read.onHand = qtyOnHand
  BY <1>1, RowFields DEF Current
<1>3. SumFunctionOnSet(EffectAt(rows, rows[r].at, read), DOMAIN rows)
        = rows[r].qty - qtyOnHand[rows[r].at]
  BY <1>1, <1>2, PlanOfRows, OneCount
<1>4. qtyOnHand'[rows[r].at]
        = qtyOnHand[rows[r].at] + SumFunctionOnSet(EffectAt(rows, rows[r].at, read), DOMAIN rows)
  BY <1>2 DEF WriteStock
<1> QED BY <1>2, <1>3, <1>4

LEMMA OnlyCommitEnds ==
  ASSUME ServingOK, NEW w \in Worker, Committing(w), [FilesNext]_fileVars
  PROVE  Commit(w)
<1>1. worker[w].pc = "commit" /\ worker'[w].pc = "idle"
  BY DEF Committing, NoRequest
<1>2. ASSUME NEW v \in Worker, v # w, Done(v)
      PROVE  FALSE
  BY <1>1, <1>2 DEF Done, ServingOK
<1>3. ASSUME NEW v \in Worker, NEW j, NEW pc, NEW accept, NEW create, Ask(v, j, pc, accept, create)
      PROVE  FALSE
  BY <1>1, <1>3 DEF Ask, ServingOK
<1>4. worker' # worker
  BY <1>1
<1>5. ASSUME NEW v \in Worker, Commit(v)
      PROVE  Commit(w)
  <2>1. v = w
    BY <1>2, <1>5 DEF Commit
  <2> QED BY <1>5, <2>1
<1>6. ASSUME NEW v \in Worker, Cancel(v)
      PROVE  FALSE
  <2>1. v = w
    BY <1>2, <1>6 DEF Cancel
  <2> QED BY <1>1, <1>6, <2>1 DEF Cancel
<1>7. (\E v \in Worker : Commit(v) \/ Cancel(v))
      \/ \E v \in Worker, j \in FirstJob :
           (\E accept, create \in BOOLEAN : Plan(v, j, accept, create)) \/ ReadForCancel(v, j)
  BY <1>4 DEF FilesNext, fileVars, Rollback, Retry, Move, Hold, Use
<1> QED BY <1>3, <1>5, <1>6, <1>7 DEF Plan, ReadForCancel

PlanKept(w) ==
  Committing(w) /\ BlockedBy(w) = {} /\ worker[w].read = Current
    /\ (\A x \in Place : held[x] = 0) /\ (\A b \in Bike : ~bike[b].lent)
  => job'[worker[w].job].status = "completed" /\ CountsHold(File[worker[w].job])

LEMMA PlansKept ==
  ASSUME HistoryInv, JobsOK, [FilesNext]_fileVars, NEW w \in Worker
  PROVE  PlanKept(w)
<1> SUFFICES ASSUME Committing(w), BlockedBy(w) = {}, worker[w].read = Current,
                    \A x \in Place : held[x] = 0, \A b \in Bike : ~bike[b].lent
             PROVE  job'[worker[w].job].status = "completed" /\ CountsHold(File[worker[w].job])
  BY DEF PlanKept
<1>1. LedgerOK /\ ServingOK /\ StockOK
  BY DEF HistoryInv
<1>2. Commit(w)
  BY <1>1, OnlyCommitEnds
<1>3. PICK j : j = worker[w].job
  OBVIOUS
<1>4. PICK rows : rows = File[j]
  OBVIOUS
<1>5. PICK read : read = worker[w].read /\ read = Current
  OBVIOUS
<1>6. j \in FirstJob /\ j \in Job /\ IsFile(rows)
  BY <1>1, <1>2, <1>3, <1>4, FilesAssumption DEF Commit, ServingOK
<1>7. Errors(rows, read) = {} /\ \A x \in Place : qtyOnHand[x] \in Nat
  BY <1>1, <1>3, <1>4, <1>5, NotBlocked DEF StockOK
<1>8. IsReading(read)
  BY <1>1, <1>5, CurrentIsSnapshot, SnapshotIsReading
<1>9. ~Refuses(rows, read)
  BY <1>5, <1>6, <1>7, <1>8, PlannedIsTaken
<1>10. WriteStock(j, rows, read) /\ job' = [job EXCEPT ![j].status = "completed"]
  BY <1>2, <1>3, <1>4, <1>5, <1>9 DEF Commit
<1>11. CountsHold(rows)
  BY <1>5, <1>6, <1>7, <1>8, <1>10, CountsAreKept
<1>12. job'[j].status = "completed"
  <2>1. IsJob(job[j]) /\ job = [k \in Job |-> job[k]]
    BY <1>6 DEF JobsOK, JobOK
  <2> QED BY <1>6, <1>10, <2>1 DEF IsJob
<1> QED BY <1>3, <1>4, <1>11, <1>12

\* A file that is confirmed with nothing moved since its plan, nothing held back and no
\* unit lent is written, not refused, and leaves of every counted place what was counted.
THEOREM PlansHold == FilesSpec => PlansAreKept
<1> DEFINE Inv == HistoryInv /\ JobsOK
<1>1. Inv /\ [FilesNext]_fileVars => Inv'
  <2>1. HistoryInv => ServingOK
    BY DEF HistoryInv
  <2> QED BY <2>1, HistorySteps, JobsSteps
<1>2. Inv /\ [FilesNext]_fileVars =>
        [\A w \in Worker :
           Committing(w) /\ BlockedBy(w) = {} /\ worker[w].read = Current
             /\ (\A x \in Place : held[x] = 0) /\ (\A b \in Bike : ~bike[b].lent)
           => job'[worker[w].job].status = "completed" /\ CountsHold(File[worker[w].job])]_fileVars
  BY PlansKept DEF PlanKept
<1> QED BY <1>1, <1>2, HistoryStart, JobsStart, PTL DEF FilesSpec, PlansAreKept
=============================================================================
