---------------------------- MODULE FinanceProofs ----------------------------
(***************************************************************************)
(* What the cash book guarantees for any number of requests, accounts and    *)
(* documents: its types, that transfers are never to blame for a deadlock,   *)
(* that a reversal cancels a movement, and in a sale only once, and that a   *)
(* document in force is backed by its movements.  Then what the books say of *)
(* those movements: balances, statements and day books add up.               *)
(***************************************************************************)
EXTENDS Finance, Statements, Sums, SequenceTheorems

Lock == [account : Account, mode : {"update", "share"}]

Request ==
  [job : Job, doc : Doc \union {None}, read : SUBSET Account, wants : Seq(Lock),
   posts : Seq(Movement), lines : Seq(Method), counted : 0..Amount + 1]

Status == {"none", "posted", "pending", "confirmed", "disputed"}

DocRow == [status : Status, reversed : BOOLEAN, counted : 0..Amount + 1]

\* The invariant behind the theorems.  Its first part is the types of the rows;
DataTypes ==
  /\ active \in [Account -> BOOLEAN]
  /\ mapping \in [Method -> Account \union {None}]
  /\ doc \in [Doc -> DocRow]
  /\ ledger \in [Doc -> Seq(Movement)]

\* the second the locks, of which an exclusive one excludes the others;
LockTypes ==
  /\ owner \in [Account -> Session \union {None}]
  /\ sharers \in [Account -> SUBSET Session]
  /\ \A a \in Account : owner[a] # None => sharers[a] \subseteq {owner[a]}

\* the third what a request of each kind has locked when it still wants a lock.
Owned(s) == {a \in Account : owner[a] = s}
Shared(s) == {a \in Account : s \in sharers[a]}

HoldsNothing(own, shared) == own = {} /\ shared = {}

ExpenseShape(wants, own, shared) ==
  \E a \in Account :
    \/ wants = <<KeyShare(a), Update(a)>> /\ HoldsNothing(own, shared)
    \/ wants = <<Update(a)>> /\ own = {} /\ shared \subseteq {a}
    \/ wants = <<>>

TransferShape(wants, own, shared) ==
  \E a, b \in Account :
    /\ Rank[a] < Rank[b]
    /\ \/ wants = <<Update(a), Update(b)>> /\ HoldsNothing(own, shared)
       \/ wants = <<Update(b)>> /\ own \subseteq {a} /\ shared = {}
       \/ wants = <<>>

ConfirmShape(wants, own, shared) ==
  \/ \E a \in Account : wants = <<Update(a)>> /\ HoldsNothing(own, shared)
  \/ wants = <<>>

Shape(r, own, shared) ==
  /\ r.job = None => r = Idle /\ HoldsNothing(own, shared)
  /\ r.job # None => r.doc \in Doc
  /\ r.job = "void" => r.wants = <<>>
  /\ r.job = "expense" => ExpenseShape(r.wants, own, shared)
  /\ r.job = "transfer" => TransferShape(r.wants, own, shared)
  /\ r.job = "confirm" => ConfirmShape(r.wants, own, shared)
  /\ r.lines # <<>> => r.job = "pay"

Requests ==
  /\ session \in [Session -> Request]
  /\ \A s \in Session : Shape(session[s], Owned(s), Shared(s))

LInv == DataTypes /\ LockTypes /\ Requests

-----------------------------------------------------------------------------
(* Steps                                                                   *)

LEMMA IdleType ==
  ASSUME FinanceAssumption
  PROVE  Idle \in Request /\ Shape(Idle, {}, {})
<1>1. Idle \in Request
  BY DEF Idle, Request, Job, FinanceAssumption
<1>2. None # "void" /\ None # "expense" /\ None # "transfer" /\ None # "confirm"
  BY DEF FinanceAssumption
<1> QED BY <1>1, <1>2 DEF Idle, Shape, HoldsNothing

\* A request that starts holds nothing yet.
LEMMA BeginLInv ==
  ASSUME LInv, NEW s \in Session, NEW r \in Request, r.job # None, Shape(r, {}, {}), Begin(s, r)
  PROVE  LInv'
<1>1. session[s] = Idle /\ session' = [session EXCEPT ![s] = r] /\ UNCHANGED <<data, owner, sharers>>
  BY DEF Begin
<1>2. Owned(s) = {} /\ Shared(s) = {}
  BY <1>1 DEF LInv, Requests, Shape, HoldsNothing, Idle
<1>3. \A t \in Session : Owned(t)' = Owned(t) /\ Shared(t)' = Shared(t)
  BY <1>1 DEF Owned, Shared
<1>4. session' \in [Session -> Request]
  BY <1>1 DEF LInv, Requests
<1>5. \A t \in Session : Shape(session'[t], Owned(t)', Shared(t)')
  BY <1>1, <1>2, <1>3 DEF LInv, Requests
<1> QED BY <1>1, <1>4, <1>5 DEF LInv, DataTypes, LockTypes, Requests, data

LEMMA OneLockType ==
  ASSUME NEW a \in Account
  PROVE  Update(a) \in Lock /\ KeyShare(a) \in Lock /\ Update(a).account = a
         /\ KeyShare(a).account = a /\ Update(a).mode = "update" /\ KeyShare(a).mode = "share"
  BY DEF Update, KeyShare, Lock

LEMMA PostingType ==
  ASSUME NEW a \in Account, NEW way \in Direction, NEW n \in Nat
  PROVE  Posting(a, way, n) \in Movement
  BY DEF Posting, Movement

LEMMA CreateExpenseLInv ==
  ASSUME FinanceAssumption, LInv, NEW s \in Session, NEW d \in Doc, CreateExpense(s, d)
  PROVE  LInv'
<1> PICK a \in Account : a = From[d]
  BY DEF FinanceAssumption
<1> PICK w, p : w = <<KeyShare(a), Update(a)>> /\ p = <<Posting(a, "OUT", Amount)>>
  OBVIOUS
<1> PICK r : r = [Idle EXCEPT !.job = "expense", !.doc = d, !.read = {a}, !.wants = w, !.posts = p]
  OBVIOUS
<1>1. w \in Seq(Lock) /\ p \in Seq(Movement)
  <2>1. w \in Seq(Lock)
    BY OneLockType
  <2>2. p \in Seq(Movement)
    BY PostingType DEF FinanceAssumption, Direction
  <2> QED BY <2>1, <2>2
<1>2. r \in Request /\ r.job = "expense" /\ r.doc = d /\ r.wants = w /\ r.lines = <<>>
  BY <1>1, IdleType DEF Request, Job, Idle, FinanceAssumption
<1>3. Shape(r, {}, {}) /\ r.job # None
  BY <1>2 DEF Shape, ExpenseShape, HoldsNothing, FinanceAssumption
<1>4. Begin(s, r)
  BY DEF CreateExpense
<1> QED BY <1>2, <1>3, <1>4, BeginLInv

LEMMA CreateTransferLInv ==
  ASSUME FinanceAssumption, LInv, NEW s \in Session, NEW d \in Doc, CreateTransfer(s, d)
  PROVE  LInv'
<1> PICK x \in Account, y \in Account : x = From[d] /\ y = To[d]
  BY DEF FinanceAssumption
<1>0. x # y
  BY DEF FinanceAssumption, CreateTransfer
<1> PICK a \in Account, b \in Account : InOrder(d) = <<a, b>> /\ Rank[a] < Rank[b]
  <2>1. Rank[x] \in Int /\ Rank[y] \in Int /\ Rank[x] # Rank[y]
    BY <1>0 DEF FinanceAssumption
  <2>2. CASE Rank[x] < Rank[y]
    BY <2>2 DEF InOrder
  <2>3. CASE Rank[y] < Rank[x]
    BY <2>1, <2>3 DEF InOrder
  <2> QED BY <2>1, <2>2, <2>3
<1> PICK w, p : w = <<Update(a), Update(b)>> /\ p = TransferPair(d)
  OBVIOUS
<1> PICK r : r = [Idle EXCEPT !.job = "transfer", !.doc = d, !.read = {x, y}, !.wants = w, !.posts = p]
  OBVIOUS
<1>1. w \in Seq(Lock) /\ p \in Seq(Movement)
  BY OneLockType, PostingType DEF FinanceAssumption, Direction, TransferPair
<1>2. r \in Request /\ r.job = "transfer" /\ r.doc = d /\ r.wants = w /\ r.lines = <<>>
  BY <1>1, IdleType DEF Request, Job, Idle, FinanceAssumption
<1>3. Shape(r, {}, {}) /\ r.job # None
  <2>2. TransferShape(w, {}, {})
    BY DEF TransferShape, HoldsNothing
  <2> QED BY <1>2, <2>2 DEF Shape, FinanceAssumption
<1>4. Begin(s, r)
  BY DEF CreateTransfer
<1> QED BY <1>2, <1>3, <1>4, BeginLInv

LEMMA CreateHandoverLInv ==
  ASSUME FinanceAssumption, LInv, NEW s \in Session, NEW d \in Doc, CreateHandover(s, d)
  PROVE  LInv'
<1> PICK x \in Account, y \in Account : x = From[d] /\ y = To[d]
  BY DEF FinanceAssumption
<1> PICK w, p : w = <<KeyShare(x), KeyShare(y), Update(x)>> /\ p = <<Posting(x, "OUT", Amount)>>
  OBVIOUS
<1> PICK r : r = [Idle EXCEPT !.job = "handover", !.doc = d, !.read = {x, y}, !.wants = w, !.posts = p]
  OBVIOUS
<1>1. w \in Seq(Lock) /\ p \in Seq(Movement)
  <2>1. w \in Seq(Lock)
    BY OneLockType
  <2>2. p \in Seq(Movement)
    BY PostingType DEF FinanceAssumption, Direction
  <2> QED BY <2>1, <2>2
<1>2. r \in Request /\ r.job = "handover" /\ r.doc = d /\ r.wants = w /\ r.lines = <<>>
  <2>1. {x, y} \in SUBSET Account /\ "handover" \in Job
    BY DEF Job
  <2>2. r \in Request
    BY <1>1, <2>1, IdleType DEF Request
  <2> QED BY <2>2, IdleType DEF Request, Idle
<1>3. Shape(r, {}, {}) /\ r.job # None
  BY <1>2 DEF Shape, FinanceAssumption
<1>4. Begin(s, r)
  BY DEF CreateHandover
<1> QED BY <1>2, <1>3, <1>4, BeginLInv

LEMMA ConfirmHandoverLInv ==
  ASSUME FinanceAssumption, LInv, NEW s \in Session, NEW d \in Doc,
         NEW counted \in 0..Amount + 1, ConfirmHandover(s, d, counted)
  PROVE  LInv'
<1> PICK y \in Account : y = To[d]
  BY DEF FinanceAssumption
<1>0. counted \in Nat
  BY DEF FinanceAssumption
<1> PICK w, p : /\ w = (IF counted > 0 THEN <<Update(y)>> ELSE <<>>)
                /\ p = (IF counted > 0 THEN <<Posting(y, "IN", counted)>> ELSE <<>>)
  OBVIOUS
<1> PICK r : r = [Idle EXCEPT !.job = "confirm", !.doc = d, !.counted = counted, !.wants = w, !.posts = p]
  OBVIOUS
<1>1. w \in Seq(Lock) /\ p \in Seq(Movement)
  BY <1>0, OneLockType, PostingType DEF Direction
<1>2. r \in Request /\ r.job = "confirm" /\ r.doc = d /\ r.wants = w /\ r.lines = <<>>
  BY <1>1, <1>0, IdleType DEF Request, Job, Idle, FinanceAssumption
<1>3. Shape(r, {}, {}) /\ r.job # None
  BY <1>2 DEF Shape, ConfirmShape, HoldsNothing, FinanceAssumption
<1>4. Begin(s, r)
  BY DEF ConfirmHandover
<1> QED BY <1>2, <1>3, <1>4, BeginLInv

VoidRequest(r, d) ==
  r \in Request /\ r.job = "void" /\ r.doc = d /\ r.wants = <<>> /\ r.lines = <<>>

\* A void reads first what it has to reverse, and wants nothing until it has.
LEMMA VoidLInv ==
  ASSUME FinanceAssumption, LInv, NEW s \in Session, NEW d \in Doc,
         ReverseDocument(s, d) \/ VoidSale(s, d)
  PROVE  LInv'
<1> PICK r : Begin(s, r) /\ VoidRequest(r, d)
  <2>1. CASE VoidSale(s, d)
    <3> PICK r : r = [Idle EXCEPT !.job = "void", !.doc = d]
      OBVIOUS
    <3>1. Begin(s, r)
      BY <2>1 DEF VoidSale
    <3>2. VoidRequest(r, d)
      BY IdleType DEF VoidRequest, Request, Job, Idle, FinanceAssumption
    <3> QED BY <3>1, <3>2
  <2>2. CASE ReverseDocument(s, d)
    <3> PICK seen : seen = IF Kind[d] = "transfer" THEN {From[d], To[d]} ELSE {}
      OBVIOUS
    <3>1. seen \in SUBSET Account
      BY DEF FinanceAssumption
    <3> PICK r : r = [Idle EXCEPT !.job = "void", !.doc = d, !.read = seen]
      OBVIOUS
    <3>2. Begin(s, r)
      BY <2>2 DEF ReverseDocument
    <3>3. VoidRequest(r, d)
      BY <3>1, IdleType DEF VoidRequest, Request, Job, Idle, FinanceAssumption
    <3> QED BY <3>2, <3>3
  <2> QED BY <2>1, <2>2
<1>3. Shape(r, {}, {}) /\ r.job # None /\ r \in Request
  BY DEF VoidRequest, Shape, FinanceAssumption
<1> QED BY <1>3, BeginLInv

LEMMA RecordPaymentLInv ==
  ASSUME FinanceAssumption, LInv, NEW s \in Session, NEW d \in Doc, NEW lines \in Lines,
         RecordPayment(s, d, lines)
  PROVE  LInv'
<1> PICK tendered : tendered = IF \E m \in Method : mapping[m] # None THEN lines ELSE <<>>
  OBVIOUS
<1>1. tendered \in Seq(Method)
  <2>1. lines \in Seq(Method)
    <3>1. CASE lines \in {<<m>> : m \in Method}
      <4> PICK m \in Method : lines = <<m>>
        BY <3>1
      <4> QED OBVIOUS
    <3>2. CASE lines \in {<<m, n>> : m, n \in Method}
      <4> PICK m \in Method, n \in Method : lines = <<m, n>>
        BY <3>2
      <4> QED OBVIOUS
    <3> QED BY <3>1, <3>2 DEF Lines
  <2> QED BY <2>1
<1> PICK r : r = [Idle EXCEPT !.job = "pay", !.doc = d, !.lines = tendered]
  OBVIOUS
<1>2. r \in Request /\ r.job = "pay" /\ r.doc = d /\ r.wants = <<>> /\ r.lines = tendered
  BY <1>1, IdleType DEF Request, Job, Idle, FinanceAssumption
<1>3. Shape(r, {}, {}) /\ r.job # None
  BY <1>2 DEF Shape, FinanceAssumption
<1>4. Begin(s, r)
  BY DEF RecordPayment
<1> QED BY <1>2, <1>3, <1>4, BeginLInv

\* While a request runs it keeps what the others hold and work on.
LEMMA StepLInv ==
  ASSUME LInv, NEW s \in Session, NEW r \in Request, UNCHANGED data,
         session' = [session EXCEPT ![s] = r], LockTypes',
         \A t \in Session \ {s} : Owned(t)' = Owned(t) /\ Shared(t)' = Shared(t),
         Shape(r, Owned(s)', Shared(s)')
  PROVE  LInv'
<1>1. session' \in [Session -> Request]
  BY DEF LInv, Requests
<1>2. \A t \in Session : Shape(session'[t], Owned(t)', Shared(t)')
  BY DEF LInv, Requests
<1> QED BY <1>1, <1>2 DEF LInv, DataTypes, Requests, data

LEMMA FunctionIsSeq ==
  ASSUME NEW S, NEW n \in Nat, NEW f \in [1..n -> S]
  PROVE  f \in Seq(S)
  OBVIOUS

LEMMA UnreversedFinite ==
  ASSUME LInv, NEW d \in Doc
  PROVE  /\ IsFiniteSet(Unreversed(d)) /\ Cardinality(Unreversed(d)) \in Nat
         /\ Unreversed(d) \subseteq DOMAIN ledger[d]
         /\ DOMAIN ledger[d] \in SUBSET (Nat \ {0})
<1>1. ledger[d] \in Seq(Movement)
  BY DEF LInv, DataTypes
<1>2. DOMAIN ledger[d] = 1..Len(ledger[d]) /\ Len(ledger[d]) \in Nat
  BY <1>1
<1>3. IsFiniteSet(DOMAIN ledger[d])
  BY <1>2, FS_Interval
<1>4. Unreversed(d) \subseteq DOMAIN ledger[d]
  BY DEF Unreversed
<1>5. IsFiniteSet(Unreversed(d)) /\ Cardinality(Unreversed(d)) \in Nat
  BY <1>3, <1>4, FS_Subset, FS_CardinalityType
<1> QED BY <1>2, <1>4, <1>5

\* What a void reads, and what it makes of it.
LEMMA CollectStep ==
  ASSUME FinanceAssumption, LInv, NEW s \in Session, Collect(s)
  PROVE  LInv'
<1> PICK d \in Doc : d = session[s].doc
  BY DEF Collect, LInv, Requests, Shape, FinanceAssumption
<1> PICK old \in Request : old = session[s]
  BY DEF LInv, Requests
<1> PICK order \in SetToSeqs(Unreversed(d)) :
      session' = [session EXCEPT ![s] =
        [@ EXCEPT !.job = "reverse", !.posts = Reversals(d, order),
                  !.wants = ReversalLocks(d, order)]]
  BY DEF Collect
<1> PICK n \in Nat : n = Cardinality(Unreversed(d))
  BY UnreversedFinite
<1>1. DOMAIN order = 1..n /\ \A k \in 1..n : order[k] \in Unreversed(d)
  BY DEF SetToSeqs
<1>2. \A k \in 1..n : ledger[d][order[k]] \in Movement /\ order[k] \in Nat
  <2>1. ledger[d] \in Seq(Movement)
    BY DEF LInv, DataTypes
  <2>2. \A i \in DOMAIN ledger[d] : ledger[d][i] \in Movement
    BY <2>1
  <2> QED BY <1>1, <2>2, UnreversedFinite
<1> PICK posts : posts = Reversals(d, order)
  OBVIOUS
<1> PICK wants : wants = ReversalLocks(d, order)
  OBVIOUS
<1>3. posts \in [1..n -> Movement] /\ wants \in [1..n -> Lock]
  <2>1. \A k \in 1..n : /\ Reverses(order[k], ledger[d][order[k]]) \in Movement
                        /\ Update(ledger[d][order[k]].account) \in Lock
    BY <1>2, OneLockType DEF Reverses, Opposite, Movement, Direction
  <2> QED BY <1>1, <2>1 DEF Reversals, ReversalLocks
<1>4. posts \in Seq(Movement) /\ wants \in Seq(Lock)
  BY <1>3, FunctionIsSeq
<1> PICK r : r = [old EXCEPT !.job = "reverse", !.posts = posts, !.wants = wants]
  OBVIOUS
<1>5. r \in Request /\ r.job = "reverse" /\ r.doc = d /\ r.lines = old.lines
  BY <1>4 DEF Request, Job
<1>6. session' = [session EXCEPT ![s] = r]
  BY DEF LInv, Requests
<1>7. old.lines = <<>>
  BY DEF Collect, LInv, Requests, Shape
<1>8. UNCHANGED <<data, owner, sharers>>
  BY DEF Collect
<1>9. \A t \in Session : Owned(t)' = Owned(t) /\ Shared(t)' = Shared(t)
  BY <1>8 DEF Owned, Shared
<1>10. Shape(r, Owned(s)', Shared(s)')
  BY <1>5, <1>7 DEF Shape, FinanceAssumption
<1>11. LockTypes'
  BY <1>8 DEF LInv, LockTypes
<1> QED BY <1>5, <1>6, <1>8, <1>9, <1>10, <1>11, StepLInv

LEMMA NextLineLInv ==
  ASSUME FinanceAssumption, LInv, NEW s \in Session, NextLine(s)
  PROVE  LInv'
<1> PICK old \in Request : old = session[s]
  BY DEF LInv, Requests
<1>0. old.lines # <<>> /\ old.lines \in Seq(Method) /\ old.posts \in Seq(Movement)
  BY DEF NextLine, Request
<1> PICK m : m = Head(old.lines)
  OBVIOUS
<1>1. m \in Method /\ Tail(old.lines) \in Seq(Method)
  BY <1>0
<1> PICK a : a = mapping[m]
  OBVIOUS
<1>2. a \in Account
  BY <1>1 DEF NextLine, LInv, DataTypes
<1> PICK w, p, rest : /\ w = <<Update(a)>> /\ p = Append(old.posts, Posting(a, "IN", Amount))
                      /\ rest = Tail(old.lines)
  OBVIOUS
<1>3. Update(a) \in Lock /\ Posting(a, "IN", Amount) \in Movement
  BY <1>2, OneLockType, PostingType DEF FinanceAssumption, Direction
<1>4. w \in Seq(Lock) /\ p \in Seq(Movement) /\ rest \in Seq(Method)
  BY <1>0, <1>1, <1>3
<1> PICK r : r = [old EXCEPT !.lines = rest, !.wants = w, !.posts = p]
  OBVIOUS
<1>5. r \in Request /\ r.job = old.job /\ r.doc = old.doc
  BY <1>4 DEF Request
<1>6. session' = [session EXCEPT ![s] = r] /\ UNCHANGED <<data, owner, sharers>>
  <2>1. session' = [session EXCEPT ![s] = Tendered(old)]
    BY DEF NextLine, LInv, Requests
  <2>2. Tendered(old) = r
    BY DEF Tendered
  <2>3. UNCHANGED <<data, owner, sharers>>
    BY DEF NextLine
  <2> QED BY <2>1, <2>2, <2>3
<1>7. old.job = "pay" /\ old.doc \in Doc
  BY <1>0 DEF LInv, Requests, Shape, FinanceAssumption
<1>8. \A t \in Session : Owned(t)' = Owned(t) /\ Shared(t)' = Shared(t)
  BY <1>6 DEF Owned, Shared
<1>9. Shape(r, Owned(s)', Shared(s)')
  BY <1>5, <1>7 DEF Shape, FinanceAssumption
<1>10. LockTypes'
  BY <1>6 DEF LInv, LockTypes
<1> QED BY <1>5, <1>6, <1>8, <1>9, <1>10, StepLInv

\* A lock is granted when nobody else has one that conflicts with it.
LEMMA Granted ==
  ASSUME FinanceAssumption, LInv, NEW s \in Session, session[s].wants # <<>>, Blockers(s) = {}
  PROVE  \E a \in Account, mode \in {"update", "share"} :
           /\ Head(session[s].wants) = [account |-> a, mode |-> mode]
           /\ owner[a] \in {None, s}
           /\ mode = "update" => sharers[a] \subseteq {s}
<1> PICK w \in Seq(Lock) : w = session[s].wants
  BY DEF LInv, Requests, Request
<1>1. Head(w) \in Lock
  OBVIOUS
<1> PICK a \in Account, mode \in {"update", "share"} : Head(w) = [account |-> a, mode |-> mode]
  BY <1>1 DEF Lock
<1>2. ({owner[a]} \union IF mode = "update" THEN sharers[a] ELSE {}) \intersect Others(s) = {}
  BY DEF Blockers
<1>3. owner[a] \in Session \union {None} /\ sharers[a] \subseteq Session
  BY DEF LInv, LockTypes
<1>4. owner[a] \in {None, s}
  BY <1>2, <1>3 DEF Others
<1>5. mode = "update" => sharers[a] \subseteq {s}
  BY <1>2, <1>3 DEF Others
<1> QED BY <1>4, <1>5

\* What is left to want, and what is held, after the first lock is granted.
LEMMA ShapeAfter ==
  ASSUME FinanceAssumption, NEW r, NEW q, NEW own, NEW shared, NEW a \in Account, NEW mode,
         Shape(r, own, shared), r.wants # <<>>,
         Head(r.wants) = [account |-> a, mode |-> mode],
         q.job = r.job, q.doc = r.doc, q.lines = r.lines, q.wants = Tail(r.wants)
  PROVE  /\ mode = "share" => Shape(q, own, shared \union {a})
         /\ mode = "update" => Shape(q, own \union {a}, shared)
<1>1. r.job # None /\ r.job # "void"
  BY DEF Shape, Idle
<1>2. CASE r.job = "expense"
  <2> PICK b \in Account :
        \/ r.wants = <<KeyShare(b), Update(b)>> /\ HoldsNothing(own, shared)
        \/ r.wants = <<Update(b)>> /\ own = {} /\ shared \subseteq {b}
    BY <1>2 DEF Shape, ExpenseShape
  <2>1. CASE r.wants = <<KeyShare(b), Update(b)>> /\ HoldsNothing(own, shared)
    <3>1. a = b /\ mode = "share" /\ q.wants = <<Update(b)>>
      BY <2>1 DEF KeyShare
    <3>2. ExpenseShape(q.wants, own, shared \union {a})
      BY <2>1, <3>1 DEF ExpenseShape, HoldsNothing
    <3> QED BY <1>2, <3>1, <3>2 DEF Shape, FinanceAssumption
  <2>2. CASE r.wants = <<Update(b)>>
    <3>1. mode = "update" /\ q.wants = <<>>
      BY <2>2 DEF Update
    <3>2. ExpenseShape(q.wants, own \union {a}, shared)
      BY <3>1 DEF ExpenseShape
    <3> QED BY <1>2, <3>1, <3>2 DEF Shape, FinanceAssumption
  <2> QED BY <2>1, <2>2
<1>3. CASE r.job = "transfer"
  <2> PICK b \in Account, c \in Account :
        /\ Rank[b] < Rank[c]
        /\ \/ r.wants = <<Update(b), Update(c)>> /\ HoldsNothing(own, shared)
           \/ r.wants = <<Update(c)>>
    BY <1>3 DEF Shape, TransferShape
  <2>1. CASE r.wants = <<Update(b), Update(c)>> /\ HoldsNothing(own, shared)
    <3>1. a = b /\ mode = "update" /\ q.wants = <<Update(c)>>
      BY <2>1 DEF Update
    <3>2. TransferShape(q.wants, own \union {a}, shared)
      BY <2>1, <3>1 DEF TransferShape, HoldsNothing
    <3> QED BY <1>3, <3>1, <3>2 DEF Shape, FinanceAssumption
  <2>2. CASE r.wants = <<Update(c)>>
    <3>1. mode = "update" /\ q.wants = <<>>
      BY <2>2 DEF Update
    <3>2. TransferShape(q.wants, own \union {a}, shared)
      BY <3>1 DEF TransferShape
    <3> QED BY <1>3, <3>1, <3>2 DEF Shape, FinanceAssumption
  <2> QED BY <2>1, <2>2
<1>4. CASE r.job = "confirm"
  <2> PICK b \in Account : r.wants = <<Update(b)>>
    BY <1>4 DEF Shape, ConfirmShape
  <2>1. mode = "update" /\ q.wants = <<>>
    BY DEF Update
  <2> QED BY <1>4, <2>1 DEF Shape, ConfirmShape, FinanceAssumption
<1>5. CASE r.job \notin {"expense", "transfer", "confirm"}
  BY <1>1, <1>5 DEF Shape
<1> QED BY <1>2, <1>3, <1>4, <1>5

LEMMA AcquireLInv ==
  ASSUME FinanceAssumption, LInv, NEW s \in Session, Acquire(s)
  PROVE  LInv'
<1> PICK old \in Request : old = session[s]
  BY DEF LInv, Requests
<1>0. session[s].wants # <<>> /\ Blockers(s) = {}
  BY DEF Acquire
<1> PICK a \in Account, mode \in {"update", "share"} :
      /\ Head(session[s].wants) = [account |-> a, mode |-> mode]
      /\ owner[a] \in {None, s}
      /\ mode = "update" => sharers[a] \subseteq {s}
  BY <1>0, Granted
<1> PICK r : r = [old EXCEPT !.wants = Tail(old.wants)]
  OBVIOUS
<1>1. /\ r \in Request /\ r.job = old.job /\ r.doc = old.doc /\ r.lines = old.lines
      /\ r.wants = Tail(old.wants)
  <2> PICK w \in Seq(Lock) : w = old.wants
    BY DEF Request
  <2> PICK rest : rest = Tail(w)
    OBVIOUS
  <2>1. rest \in Seq(Lock)
    BY <1>0
  <2> QED BY <2>1 DEF Request
<1>2. session' = [session EXCEPT ![s] = r] /\ UNCHANGED data
  <2>1. session' = [session EXCEPT ![s] = [old EXCEPT !.wants = Tail(old.wants)]] /\ UNCHANGED data
    BY DEF Acquire, LInv, Requests
  <2> QED BY <2>1
<1>3. \/ mode = "share" /\ sharers' = [sharers EXCEPT ![a] = @ \union {s}] /\ owner' = owner
      \/ mode = "update" /\ owner' = [owner EXCEPT ![a] = s] /\ sharers' = sharers
  BY DEF Acquire
<1>4. Shape(old, Owned(s), Shared(s))
  BY DEF LInv, Requests
<1>5. CASE /\ mode = "share" /\ sharers' = [sharers EXCEPT ![a] = @ \union {s}]
           /\ owner' = owner
  <2>1. LockTypes'
    BY <1>5 DEF LInv, LockTypes
  <2>2. \A t \in Session \ {s} : Owned(t)' = Owned(t) /\ Shared(t)' = Shared(t)
    BY <1>5 DEF Owned, Shared, LInv, LockTypes
  <2>3. Owned(s)' = Owned(s) /\ Shared(s)' = Shared(s) \union {a}
    BY <1>5 DEF Owned, Shared, LInv, LockTypes
  <2>4. Shape(r, Owned(s)', Shared(s)')
    <3>1. Shape(r, Owned(s), Shared(s) \union {a})
      BY <1>0, <1>1, <1>4, <1>5, ShapeAfter
    <3> QED BY <2>3, <3>1
  <2> QED BY <1>1, <1>2, <2>1, <2>2, <2>4, StepLInv
<1>6. CASE /\ mode = "update" /\ owner' = [owner EXCEPT ![a] = s]
           /\ sharers' = sharers
  <2>1. LockTypes'
    BY <1>6 DEF LInv, LockTypes
  <2>2. \A t \in Session \ {s} : Owned(t)' = Owned(t) /\ Shared(t)' = Shared(t)
    <3>1. None \notin Session
      BY DEF FinanceAssumption
    <3> QED BY <1>6, <3>1 DEF Owned, Shared, LInv, LockTypes
  <2>3. Owned(s)' = Owned(s) \union {a} /\ Shared(s)' = Shared(s)
    BY <1>6 DEF Owned, Shared, LInv, LockTypes
  <2>4. Shape(r, Owned(s)', Shared(s)')
    <3>1. Shape(r, Owned(s) \union {a}, Shared(s))
      BY <1>0, <1>1, <1>4, <1>6, ShapeAfter
    <3> QED BY <2>3, <3>1
  <2> QED BY <1>1, <1>2, <2>1, <2>2, <2>4, StepLInv
<1> QED BY <1>3, <1>5, <1>6

\* A request that ends gives up all its locks.
LEMMA EndLocks ==
  ASSUME FinanceAssumption, LInv, NEW s \in Session, End(s)
  PROVE  LockTypes' /\ Requests'
<1>1. None \notin Session
  BY DEF FinanceAssumption
<1>2. LockTypes'
  BY DEF LInv, LockTypes, End
<1>3. \A t \in Session \ {s} : Owned(t)' = Owned(t) /\ Shared(t)' = Shared(t)
  BY <1>1 DEF Owned, Shared, LInv, LockTypes, End
<1>4. Owned(s)' = {} /\ Shared(s)' = {}
  BY <1>1 DEF Owned, Shared, LInv, LockTypes, End
<1>5. session' = [session EXCEPT ![s] = Idle]
  BY DEF End
<1>6. session' \in [Session -> Request]
  BY <1>5, IdleType DEF LInv, Requests
<1>7. ASSUME NEW t \in Session
      PROVE  Shape(session'[t], Owned(t)', Shared(t)')
  <2>1. CASE t = s
    <3>1. session'[t] = Idle
      BY <1>5, <2>1 DEF LInv, Requests
    <3> QED BY <1>4, <2>1, <3>1, IdleType
  <2>2. CASE t # s
    <3>1. session'[t] = session[t]
      BY <1>5, <2>2 DEF LInv, Requests
    <3>2. Shape(session[t], Owned(t), Shared(t))
      BY DEF LInv, Requests
    <3> QED BY <1>3, <2>2, <3>1, <3>2
  <2> QED BY <2>1, <2>2
<1> QED BY <1>2, <1>6, <1>7 DEF Requests

LEMMA RollbackLInv ==
  ASSUME FinanceAssumption, LInv, NEW s \in Session, Rollback(s)
  PROVE  LInv'
BY EndLocks DEF Rollback, LInv, DataTypes, data

LEMMA OutcomeType ==
  ASSUME FinanceAssumption, NEW job \in Job \ {None, "void"}, NEW old \in DocRow,
         NEW counted \in 0..Amount + 1
  PROVE  Outcome(job, old, counted) \in DocRow
<1>1. CASE job \in {"expense", "transfer"}
  BY <1>1 DEF Outcome, DocRow, Status
<1>2. CASE job = "handover"
  BY <1>2 DEF Outcome, DocRow, Status
<1>3. CASE job = "confirm"
  <2> PICK now : now = IF counted = Amount THEN "confirmed" ELSE "disputed"
    OBVIOUS
  <2>1. now \in Status
    BY DEF Status
  <2>2. Outcome(job, old, counted) = [old EXCEPT !.status = now, !.counted = counted]
    BY <1>3 DEF Outcome
  <2> QED BY <2>1, <2>2 DEF DocRow
<1>4. CASE job = "reverse"
  BY <1>4 DEF Outcome, DocRow
<1>5. CASE job = "pay"
  BY <1>5 DEF Outcome
<1> QED BY <1>1, <1>2, <1>3, <1>4, <1>5 DEF Job

LEMMA CommitLInv ==
  ASSUME FinanceAssumption, LInv, NEW s \in Session, Commit(s)
  PROVE  LInv'
<1> PICK r \in Request : r = session[s]
  BY DEF LInv, Requests
<1>1. r.job \in Job \ {None, "void"} /\ r.posts \in Seq(Movement) /\ r.counted \in 0..Amount + 1
  BY DEF Request, Commit
<1> PICK d \in Doc : d = r.doc
  BY <1>1 DEF LInv, Requests, Shape
<1>2. /\ ledger' = [ledger EXCEPT ![d] = @ \o r.posts]
      /\ doc' = [doc EXCEPT ![d] = Outcome(r.job, @, r.counted)]
      /\ End(s) /\ UNCHANGED <<active, mapping>>
  BY DEF Commit
<1>3. ledger[d] \in Seq(Movement) /\ doc[d] \in DocRow
  BY DEF LInv, DataTypes
<1>4. ledger[d] \o r.posts \in Seq(Movement)
  BY <1>1, <1>3
<1>5. Outcome(r.job, doc[d], r.counted) \in DocRow
  BY <1>1, <1>3, OutcomeType
<1>6. DataTypes'
  BY <1>2, <1>4, <1>5 DEF LInv, DataTypes
<1> QED BY <1>2, <1>6, EndLocks DEF LInv

LEMMA InitLInv ==
  ASSUME FinanceAssumption, Init
  PROVE  LInv
<1>1. DataTypes
  <2>1. \A d \in Doc : doc[d] \in DocRow
    BY DEF Init, DocRow, Status, FinanceAssumption
  <2>2. doc \in [Doc -> DocRow]
    BY <2>1 DEF Init
  <2> QED BY <2>2 DEF Init, DataTypes
<1>2. LockTypes
  BY DEF Init, LockTypes
<1>3. \A s \in Session : Owned(s) = {} /\ Shared(s) = {}
  BY DEF Init, Owned, Shared, FinanceAssumption
<1>4. Requests
  BY <1>3, IdleType DEF Init, Requests
<1> QED BY <1>1, <1>2, <1>4 DEF LInv

\* A step of a request.
LEMMA SessionLInv ==
  ASSUME FinanceAssumption, LInv, NEW s \in Session,
         \/ \E d \in Doc :
              \/ CreateExpense(s, d) \/ CreateTransfer(s, d) \/ CreateHandover(s, d)
              \/ \E counted \in 0..Amount + 1 : ConfirmHandover(s, d, counted)
              \/ ReverseDocument(s, d) \/ VoidSale(s, d)
              \/ \E lines \in Lines : RecordPayment(s, d, lines)
         \/ Collect(s) \/ NextLine(s) \/ Acquire(s) \/ Commit(s) \/ Rollback(s)
  PROVE  LInv'
<1>1. ASSUME NEW d \in Doc, CreateExpense(s, d) PROVE LInv'
  BY <1>1, CreateExpenseLInv
<1>2. ASSUME NEW d \in Doc, CreateTransfer(s, d) PROVE LInv'
  BY <1>2, CreateTransferLInv
<1>3. ASSUME NEW d \in Doc, CreateHandover(s, d) PROVE LInv'
  BY <1>3, CreateHandoverLInv
<1>4. ASSUME NEW d \in Doc, NEW counted \in 0..Amount + 1, ConfirmHandover(s, d, counted)
      PROVE  LInv'
  BY <1>4, ConfirmHandoverLInv
<1>5. ASSUME NEW d \in Doc, ReverseDocument(s, d) \/ VoidSale(s, d) PROVE LInv'
  BY <1>5, VoidLInv
<1>6. ASSUME NEW d \in Doc, NEW lines \in Lines, RecordPayment(s, d, lines) PROVE LInv'
  BY <1>6, RecordPaymentLInv
<1>7. CASE Collect(s)
  BY <1>7, CollectStep
<1>8. CASE NextLine(s)
  BY <1>8, NextLineLInv
<1>9. CASE Acquire(s)
  BY <1>9, AcquireLInv
<1>10. CASE Commit(s)
  BY <1>10, CommitLInv
<1>11. CASE Rollback(s)
  BY <1>11, RollbackLInv
<1> QED BY <1>1, <1>2, <1>3, <1>4, <1>5, <1>6, <1>7, <1>8, <1>9, <1>10, <1>11

\* Steps that leave the requests and their locks alone.
LEMMA OneStatementLInv ==
  ASSUME LInv, DataTypes', UNCHANGED <<owner, sharers, session>>
  PROVE  LInv'
<1>1. \A s \in Session : Owned(s)' = Owned(s) /\ Shared(s)' = Shared(s)
  BY DEF Owned, Shared
<1>2. Requests'
  BY <1>1 DEF LInv, Requests
<1> QED BY <1>2 DEF LInv, LockTypes

LEMMA StepsLInv ==
  ASSUME FinanceAssumption, LInv, [Next]_vars
  PROVE  LInv'
<1>1. CASE UNCHANGED vars
  BY <1>1, OneStatementLInv DEF vars, data, LInv, DataTypes
<1>2. ASSUME NEW a \in Account, UpdateAccount(a) PROVE LInv'
  <2>1. DataTypes'
    BY <1>2 DEF UpdateAccount, LInv, DataTypes
  <2> QED BY <1>2, <2>1, OneStatementLInv DEF UpdateAccount
<1>3. ASSUME NEW m \in Method, NEW a \in Account, SetMapping(m, a) PROVE LInv'
  <2>1. DataTypes'
    BY <1>3 DEF SetMapping, LInv, DataTypes
  <2> QED BY <1>3, <2>1, OneStatementLInv DEF SetMapping
<1>4. ASSUME NEW m \in Method, DeleteMapping(m) PROVE LInv'
  <2>1. DataTypes'
    BY <1>4 DEF DeleteMapping, LInv, DataTypes
  <2> QED BY <1>4, <2>1, OneStatementLInv DEF DeleteMapping
<1>5. ASSUME NEW d \in Doc, Revive(d) PROVE LInv'
  <2> PICK old \in DocRow : old = doc[d]
    BY DEF LInv, DataTypes
  <2> PICK row : row = [old EXCEPT !.reversed = FALSE]
    OBVIOUS
  <2>1. row \in DocRow
    BY DEF DocRow
  <2>2. doc' = [doc EXCEPT ![d] = row]
    BY <1>5 DEF Revive, LInv, DataTypes
  <2>3. DataTypes'
    BY <1>5, <2>1, <2>2 DEF Revive, LInv, DataTypes
  <2> QED BY <1>5, <2>3, OneStatementLInv DEF Revive
<1>6. CASE Next
  BY <1>2, <1>3, <1>4, <1>5, <1>6, SessionLInv DEF Next
<1> QED BY <1>1, <1>6

\* Every row and every request in progress is what the schema and the handlers
\* allow (finance_accounts.sql, finance/service.py).
THEOREM Typing == Spec => []TypeOK
<1>1. LInv => TypeOK
  <2> SUFFICES ASSUME LInv
               PROVE  TypeOK
    OBVIOUS
  <2>1. \A d \in Doc : \A i \in DOMAIN ledger[d] : ledger[d][i] \in Movement
    BY DEF LInv, DataTypes
  <2>2. ASSUME NEW s \in Session
        PROVE  /\ session[s].job \in Job /\ session[s].doc \in Doc \union {None}
               /\ session[s].read \subseteq Account
               /\ \A i \in DOMAIN session[s].posts : session[s].posts[i] \in Movement
    <3> PICK r \in Request : r = session[s]
      BY DEF LInv, Requests
    <3>1. r.posts \in Seq(Movement)
      BY DEF Request
    <3>2. \A i \in DOMAIN r.posts : r.posts[i] \in Movement
      BY <3>1
    <3> QED BY <3>2 DEF Request
  <2> QED BY <2>1, <2>2 DEF LInv, DataTypes, LockTypes, TypeOK, DocRow, Status
<1>2. Init => LInv
  BY FinanceAssumption, InitLInv
<1>3. LInv /\ [Next]_vars => LInv'
  BY FinanceAssumption, StepsLInv
<1> QED BY <1>1, <1>2, <1>3, PTL DEF Spec

-----------------------------------------------------------------------------
(* Deadlocks                                                               *)

\* The account a request waits for.
Wanted(s) == Head(session[s].wants).account

\* A request of those that lock in order waits for one of them: that one waits
\* for an account later in the order, or both are expenses of the same account.
LEMMA WaitsForward ==
  ASSUME FinanceAssumption, LInv, NEW s \in Session, NEW t \in Blockers(s), t \in Session,
         session[s].wants # <<>>, session[t].wants # <<>>,
         session[s].job \in {"expense", "transfer", "confirm"},
         session[t].job \in {"expense", "transfer", "confirm"}
  PROVE  /\ Wanted(s) \in Account /\ Wanted(t) \in Account
         /\ \/ Rank[Wanted(s)] < Rank[Wanted(t)]
            \/ Wanted(s) = Wanted(t) /\ session[t].job = "expense"
<1>1. \A u \in Session : session[u].wants # <<>> => Wanted(u) \in Account
  <2> SUFFICES ASSUME NEW u \in Session, session[u].wants # <<>>
               PROVE  Wanted(u) \in Account
    OBVIOUS
  <2> PICK w \in Seq(Lock) : w = session[u].wants
    BY DEF LInv, Requests, Request
  <2>1. Head(w) \in Lock
    OBVIOUS
  <2> QED BY <2>1 DEF Lock, Wanted
<1> PICK a \in Account : a = Wanted(s)
  BY <1>1
<1>2. t \in Session /\ (owner[a] = t \/ t \in sharers[a])
  BY DEF Blockers, Wanted
<1>3. Shape(session[t], Owned(t), Shared(t))
  BY DEF LInv, Requests
<1>4. a \in Owned(t) \/ a \in Shared(t)
  BY <1>2 DEF Owned, Shared
<1>5. CASE session[t].job = "expense"
  <2> PICK b \in Account : session[t].wants = <<Update(b)>> /\ Owned(t) = {} /\ Shared(t) \subseteq {b}
    BY <1>3, <1>4, <1>5 DEF Shape, ExpenseShape, HoldsNothing
  <2>1. Wanted(t) = b /\ a = b
    BY <1>4 DEF Wanted, Update
  <2> QED BY <1>1, <1>5, <2>1
<1>6. CASE session[t].job = "transfer"
  <2> PICK b \in Account, c \in Account :
        /\ Rank[b] < Rank[c] /\ session[t].wants = <<Update(c)>>
        /\ Owned(t) \subseteq {b} /\ Shared(t) = {}
    BY <1>3, <1>4, <1>6 DEF Shape, TransferShape, HoldsNothing
  <2>1. Wanted(t) = c /\ a = b
    BY <1>4 DEF Wanted, Update
  <2> QED BY <1>1, <2>1
<1>7. CASE session[t].job = "confirm"
  BY <1>3, <1>4, <1>7 DEF Shape, ConfirmShape, HoldsNothing
<1> QED BY <1>5, <1>6, <1>7

LEMMA JobsOfOneKind ==
  ASSUME NEW T, T # {}, NEW job, \A s \in T : session[s].job = job
  PROVE  Jobs(T) = {job}
<1> PICK t \in T : TRUE
  OBVIOUS
<1>1. job \in Jobs(T)
  BY DEF Jobs
<1>2. \A j \in Jobs(T) : j = job
  BY DEF Jobs
<1> QED BY <1>1, <1>2

LEMMA CircleOfExpenses ==
  ASSUME FinanceAssumption, LInv, IsFiniteSet(Session), NEW S \in SUBSET Session, Circle(S),
         Jobs(S) \intersect {"handover", "reverse", "pay"} = {}
  PROVE  \E T \in SUBSET S : Circle(T) /\ Jobs(T) = {"expense"}
<1>1. ASSUME NEW s \in S
      PROVE  /\ session[s].wants # <<>> /\ session[s].job \in {"expense", "transfer", "confirm"}
             /\ Blockers(s) \intersect S # {}
  <2>1. Blockers(s) \intersect S # {}
    BY DEF Circle
  <2>2. session[s].wants # <<>>
    BY <2>1 DEF Blockers
  <2>3. session[s].job \in Job
    BY DEF LInv, Requests, Request
  <2>4. session[s].job \notin {"handover", "reverse", "pay"}
    BY DEF Jobs
  <2>5. session[s].job # None /\ session[s].job # "void"
    BY <2>2 DEF LInv, Requests, Shape, Idle
  <2> QED BY <2>1, <2>2, <2>3, <2>4, <2>5 DEF Job
<1> PICK f : f = [s \in S |-> Rank[Wanted(s)]]
  OBVIOUS
<1>2. ASSUME NEW s \in S, NEW t \in Blockers(s) \intersect S
      PROVE  /\ f[s] \in Int /\ f[t] \in Int
             /\ \/ f[s] < f[t]
                \/ f[s] = f[t] /\ session[t].job = "expense"
  <2>1. /\ Wanted(s) \in Account /\ Wanted(t) \in Account
        /\ \/ Rank[Wanted(s)] < Rank[Wanted(t)]
           \/ Wanted(s) = Wanted(t) /\ session[t].job = "expense"
    BY <1>1, WaitsForward
  <2> QED BY <2>1 DEF FinanceAssumption
<1>3. IsFiniteSet(S) /\ S # {} /\ \A s \in S : f[s] \in Int
  <2>1. \A s \in S : f[s] \in Int
    BY <1>1, <1>2
  <2>2. IsFiniteSet(S) /\ S # {}
    BY FS_Subset DEF Circle
  <2> QED BY <2>1, <2>2
<1> PICK last \in S : \A s \in S : f[s] <= f[last]
  BY <1>3, LastOne
<1> DEFINE T == {s \in S : f[s] = f[last] /\ session[s].job = "expense"}
<1>4. ASSUME NEW s \in S, f[s] = f[last]
      PROVE  Blockers(s) \intersect T # {}
  <2> PICK t \in Blockers(s) \intersect S : TRUE
    BY <1>1
  <2>1. f[t] <= f[last] /\ f[t] \in Int /\ f[s] \in Int
    BY <1>3
  <2>2. f[t] = f[last] /\ session[t].job = "expense"
    BY <1>2, <1>4, <2>1
  <2> QED BY <2>2
<1>5. T # {}
  BY <1>4
<1>6. \A s \in T : Blockers(s) \intersect T # {}
  BY <1>4
<1>7. Jobs(T) = {"expense"}
  <2>1. \A s \in T : session[s].job = "expense"
    OBVIOUS
  <2> QED BY <1>5, <2>1, JobsOfOneKind
<1>8. T \in SUBSET S
  OBVIOUS
<1> HIDE DEF T
<1>9. Circle(T)
  BY <1>5, <1>6 DEF Circle
<1> QED BY <1>7, <1>8, <1>9

\* However many requests there are, a transfer is never what makes some of them
\* wait for each other: the circle has expenses of one account, or a request that
\* locks several accounts as they come (_lock_two).
THEOREM TransfersNeverDeadlock ==
  ASSUME IsFiniteSet(Session)
  PROVE  Spec => []OrderedTransfersNeverDeadlock
<1>1. LInv => OrderedTransfersNeverDeadlock
  BY FinanceAssumption, CircleOfExpenses DEF OrderedTransfersNeverDeadlock
<1>2. Init => LInv
  BY FinanceAssumption, InitLInv
<1>3. LInv /\ [Next]_vars => LInv'
  BY FinanceAssumption, StepsLInv
<1> QED BY <1>1, <1>2, <1>3, PTL DEF Spec

-----------------------------------------------------------------------------
(***************************************************************************)
(* Reversals: each one cancels a movement of its document, in a sale at most *)
(* once, and leaves nothing of a reversed document outstanding but money     *)
(* that came in later.                                                       *)
(***************************************************************************)
\* The parts of the invariant, of the movements L of one document.
Open(L) == {i \in DOMAIN L : L[i].reverses = 0 /\ \A j \in DOMAIN L : L[j].reverses # i}

Cancels(L, m) == \E i \in DOMAIN L : L[i].reverses = 0 /\ m = Reverses(i, L[i])

Linked(L) ==
  \A j \in DOMAIN L :
    L[j].reverses # 0 => /\ L[j].reverses \in 1..j - 1
                         /\ L[L[j].reverses].reverses = 0
                         /\ L[j] = Reverses(L[j].reverses, L[L[j].reverses])

OnceOnly(L) ==
  \A j, k \in DOMAIN L : L[j].reverses # 0 /\ L[k].reverses = L[j].reverses => k = j

Undone(P) == {P[k].reverses : k \in DOMAIN P}

Books(L, row, kind) ==
  /\ Linked(L)
  /\ kind = "sale" => OnceOnly(L) /\ row.status # "none"
  /\ row.reversed => /\ row.status # "none"
                     /\ \A i \in Open(L) : L[i].way = "IN"
                     /\ kind = "sale" => Open(L) = {}

Creation == {"expense", "transfer", "handover"}

\* What a request in progress is about to post, and what it relies on.
Sweeps(P, L, kind) ==
  /\ \A k \in DOMAIN P : Cancels(L, P[k])
  /\ \A i \in Open(L) : i \in Undone(P) \/ (L[i].way = "IN" /\ kind # "sale")
  /\ kind = "sale" => OnceOnly(P) /\ Undone(P) \subseteq Open(L)

Working(r, L, row, kind) ==
  /\ kind = "sale" => r.job \in {"void", "reverse", "pay"}
  /\ kind # "sale" => r.job # "pay"
  /\ r.job \in Creation <=> row.status = "none"
  /\ r.job # "reverse" => \A k \in DOMAIN r.posts : r.posts[k].reverses = 0
  /\ r.job \in {"confirm", "pay"} => \A k \in DOMAIN r.posts : r.posts[k].way = "IN"
  /\ r.job = "reverse" => Sweeps(r.posts, L, kind)
  /\ r.job = "pay" => ~row.reversed

\* Nobody else works on a sale, or on a document that is being created.
Alone(s) ==
  Kind[session[s].doc] = "sale" \/ session[s].job \in Creation =>
    \A t \in Session : session[t].doc = session[s].doc => t = s

At(s) == session[s].doc

RInv ==
  /\ LInv
  /\ \A d \in Doc : Books(ledger[d], doc[d], Kind[d])
  /\ \A s \in Session : session[s].job # None =>
       Working(session[s], ledger[At(s)], doc[At(s)], Kind[At(s)]) /\ Alone(s)

-----------------------------------------------------------------------------
(* Appending to the movements of a document                                *)

Extended(L, P, M) ==
  /\ Len(L) \in Nat /\ DOMAIN L = 1..Len(L) /\ DOMAIN P \subseteq Nat \ {0}
  /\ DOMAIN L \subseteq DOMAIN M /\ DOMAIN M \subseteq Nat \ {0}
  /\ \A i \in DOMAIN L : M[i] = L[i]
  /\ \A k \in DOMAIN P : Len(L) + k \in DOMAIN M /\ M[Len(L) + k] = P[k]
  /\ \A j \in DOMAIN M \ DOMAIN L : \E k \in DOMAIN P : j = Len(L) + k

LEMMA Appending ==
  ASSUME NEW L \in Seq(Movement), NEW P \in Seq(Movement)
  PROVE  Extended(L, P, L \o P)
<1> PICK m \in Nat, n \in Nat : m = Len(L) /\ n = Len(P)
  OBVIOUS
<1> PICK M : M = L \o P
  OBVIOUS
<1>1. DOMAIN L = 1..m /\ DOMAIN P = 1..n /\ DOMAIN M = 1..(m + n)
  OBVIOUS
<1>2. \A i \in 1..m : M[i] = L[i]
  OBVIOUS
<1>3. \A k \in 1..n : M[m + k] = P[k]
  OBVIOUS
<1>4. \A j \in 1..(m + n) \ 1..m : \E k \in 1..n : j = m + k
  <2> SUFFICES ASSUME NEW j \in 1..(m + n) \ 1..m
               PROVE  \E k \in 1..n : j = m + k
    OBVIOUS
  <2>1. j - m \in 1..n /\ j = m + (j - m)
    OBVIOUS
  <2> QED BY <2>1
<1>5. 1..m \subseteq 1..(m + n) /\ 1..(m + n) \subseteq Nat \ {0} /\ 1..n \subseteq Nat \ {0}
  OBVIOUS
<1>6. \A k \in 1..n : m + k \in 1..(m + n)
  OBVIOUS
<1>7. /\ Len(L) \in Nat /\ DOMAIN L = 1..Len(L) /\ DOMAIN P \subseteq Nat \ {0}
      /\ DOMAIN L \subseteq DOMAIN M /\ DOMAIN M \subseteq Nat \ {0}
  BY <1>1, <1>5
<1>8. \A i \in DOMAIN L : M[i] = L[i]
  BY <1>1, <1>2
<1>9. \A k \in DOMAIN P : Len(L) + k \in DOMAIN M /\ M[Len(L) + k] = P[k]
  BY <1>1, <1>3, <1>6
<1>10. \A j \in DOMAIN M \ DOMAIN L : \E k \in DOMAIN P : j = Len(L) + k
  <2>1. DOMAIN M \ DOMAIN L = 1..(m + n) \ 1..m /\ DOMAIN P = 1..n /\ Len(L) = m
    BY <1>1
  <2> SUFFICES ASSUME NEW j \in DOMAIN M \ DOMAIN L
               PROVE  \E k \in DOMAIN P : j = Len(L) + k
    OBVIOUS
  <2>2. j \in 1..(m + n) \ 1..m
    BY <2>1
  <2> PICK k \in 1..n : j = m + k
    BY <1>4, <2>2
  <2>3. k \in DOMAIN P /\ j = Len(L) + k
    BY <2>1
  <2> QED BY <2>3
<1> QED BY <1>7, <1>8, <1>9, <1>10 DEF Extended

LEMMA LinkedAfter ==
  ASSUME NEW L, NEW P, NEW M, Extended(L, P, M), Linked(L),
         \A k \in DOMAIN P : P[k].reverses = 0 \/ Cancels(L, P[k])
  PROVE  Linked(M)
<1> SUFFICES ASSUME NEW j \in DOMAIN M, M[j].reverses # 0
             PROVE  /\ M[j].reverses \in 1..j - 1
                    /\ M[M[j].reverses].reverses = 0
                    /\ M[j] = Reverses(M[j].reverses, M[M[j].reverses])
  BY DEF Linked
<1>1. CASE j \in DOMAIN L
  <2>1. M[j] = L[j] /\ j \in 1..Len(L) /\ Len(L) \in Nat
    BY <1>1 DEF Extended
  <2> PICK i : i = L[j].reverses
    OBVIOUS
  <2>2. i \in 1..j - 1 /\ L[i].reverses = 0 /\ L[j] = Reverses(i, L[i])
    BY <1>1, <2>1 DEF Linked
  <2>3. i \in DOMAIN L
    BY <2>1, <2>2 DEF Extended
  <2>4. M[i] = L[i]
    BY <2>3 DEF Extended
  <2> QED BY <2>1, <2>2, <2>4
<1>2. CASE j \notin DOMAIN L
  <2> PICK k \in DOMAIN P : j = Len(L) + k /\ M[j] = P[k]
    BY <1>2 DEF Extended
  <2> PICK i \in DOMAIN L : L[i].reverses = 0 /\ P[k] = Reverses(i, L[i])
    BY DEF Cancels
  <2>1. M[j].reverses = i /\ M[i] = L[i]
    BY DEF Reverses, Extended
  <2>2. i \in 1..Len(L) /\ Len(L) \in Nat /\ k \in Nat \ {0}
    BY DEF Extended
  <2>3. i \in 1..j - 1
    BY <2>2
  <2> QED BY <2>1, <2>3
<1> QED BY <1>1, <1>2

LEMMA OpenAfter ==
  ASSUME NEW L, NEW P, NEW M, Extended(L, P, M), NEW i \in Open(M)
  PROVE  \/ i \in Open(L) /\ i \notin Undone(P) /\ M[i] = L[i]
         \/ \E k \in DOMAIN P : P[k].reverses = 0 /\ M[i] = P[k]
<1>1. i \in DOMAIN M /\ M[i].reverses = 0 /\ \A j \in DOMAIN M : M[j].reverses # i
  BY DEF Open
<1>2. CASE i \in DOMAIN L
  <2>1. M[i] = L[i]
    BY <1>2 DEF Extended
  <2>2. \A j \in DOMAIN L : L[j].reverses # i
    BY <1>1 DEF Extended
  <2>3. \A k \in DOMAIN P : P[k].reverses # i
    BY <1>1 DEF Extended
  <2>4. i \in Open(L) /\ i \notin Undone(P)
    BY <1>1, <1>2, <2>1, <2>2, <2>3 DEF Open, Undone
  <2> QED BY <2>1, <2>4
<1>3. CASE i \notin DOMAIN L
  <2> PICK k \in DOMAIN P : i = Len(L) + k /\ M[i] = P[k]
    BY <1>1, <1>3 DEF Extended
  <2> QED BY <1>1
<1> QED BY <1>2, <1>3

LEMMA OnceAfter ==
  ASSUME NEW L, NEW P, NEW M, Extended(L, P, M), OnceOnly(L), OnceOnly(P),
         \A k \in DOMAIN P : P[k].reverses = 0 \/ P[k].reverses \in Open(L)
  PROVE  OnceOnly(M)
<1> SUFFICES ASSUME NEW j \in DOMAIN M, NEW h \in DOMAIN M,
                    M[j].reverses # 0, M[h].reverses = M[j].reverses
             PROVE  h = j
  BY DEF OnceOnly
<1>1. \A x \in DOMAIN M \ DOMAIN L : \E k \in DOMAIN P : x = Len(L) + k /\ M[x] = P[k]
  BY DEF Extended
<1>2. \A x \in DOMAIN L : M[x] = L[x]
  BY DEF Extended
<1>3. \A x \in DOMAIN L, k \in DOMAIN P : P[k].reverses # 0 => L[x].reverses # P[k].reverses
  BY DEF Open
<1>4. CASE j \in DOMAIN L /\ h \in DOMAIN L
  BY <1>2, <1>4 DEF OnceOnly
<1>5. CASE j \in DOMAIN L /\ h \notin DOMAIN L
  <2> PICK k \in DOMAIN P : h = Len(L) + k /\ M[h] = P[k]
    BY <1>1, <1>5
  <2> QED BY <1>2, <1>3, <1>5
<1>6. CASE j \notin DOMAIN L /\ h \in DOMAIN L
  <2> PICK k \in DOMAIN P : j = Len(L) + k /\ M[j] = P[k]
    BY <1>1, <1>6
  <2> QED BY <1>2, <1>3, <1>6
<1>7. CASE j \notin DOMAIN L /\ h \notin DOMAIN L
  <2> PICK k \in DOMAIN P : j = Len(L) + k /\ M[j] = P[k]
    BY <1>1, <1>7
  <2> PICK n \in DOMAIN P : h = Len(L) + n /\ M[h] = P[n]
    BY <1>1, <1>7
  <2>1. n = k
    BY DEF OnceOnly
  <2> QED BY <2>1
<1> QED BY <1>4, <1>5, <1>6, <1>7

-----------------------------------------------------------------------------
(* Steps that post nothing                                                 *)

LEMMA BusyIsNamed ==
  ASSUME FinanceAssumption, LInv, NEW t \in Session
  PROVE  session[t].job # None <=> session[t].doc \in Doc
BY DEF LInv, Requests, Shape, Idle, FinanceAssumption

\* A request that starts: nobody else works on its sale, or on what it creates.
LEMMA BeginRInv ==
  ASSUME FinanceAssumption, RInv, LInv', NEW s \in Session, NEW r, NEW d \in Doc,
         r.job # None, r.doc = d, Begin(s, r), Working(r, ledger[d], doc[d], Kind[d]),
         Kind[d] = "sale" \/ r.job \in Creation => ~Busy(d)
  PROVE  RInv'
<1>1. /\ session' = [session EXCEPT ![s] = r] /\ session \in [Session -> Request]
      /\ ledger' = ledger /\ doc' = doc /\ session[s] = Idle
  BY DEF Begin, data, RInv, LInv, Requests
<1>2. \A e \in Doc : Books(ledger'[e], doc'[e], Kind[e])
  BY <1>1 DEF RInv
<1>3. \A t \in Session : session'[t] = IF t = s THEN r ELSE session[t]
  BY <1>1
<1>4. ASSUME NEW t \in Session, session'[t].job # None
      PROVE  /\ Working(session'[t], ledger'[At(t)'], doc'[At(t)'], Kind[At(t)'])
             /\ Alone(t)'
  <2>1. CASE t = s
    <3>1. Alone(t)'
      <4> SUFFICES ASSUME Kind[d] = "sale" \/ r.job \in Creation, NEW u \in Session,
                          session'[u].doc = d, u # s
                   PROVE  FALSE
        BY <1>3, <2>1 DEF Alone
      <4> QED BY <1>3 DEF Busy
    <3> QED BY <1>1, <1>3, <2>1, <3>1 DEF At
  <2>2. CASE t # s
    <3>1. session'[t] = session[t] /\ At(t)' = At(t) /\ session[t].job # None
      BY <1>3, <1>4, <2>2 DEF At
    <3> PICK e \in Doc : e = session[t].doc
      BY <3>1, BusyIsNamed DEF RInv
    <3>2. Working(session[t], ledger[e], doc[e], Kind[e]) /\ Alone(t)
      BY <3>1 DEF RInv, At
    <3>3. Alone(t)'
      <4> SUFFICES ASSUME Kind[e] = "sale" \/ session[t].job \in Creation, NEW u \in Session,
                          session'[u].doc = e, u # t
                   PROVE  FALSE
        BY <3>1 DEF Alone
      <4>1. u = s /\ d = e
        BY <1>3, <3>2 DEF Alone
      <4>2. Busy(d)
        BY <4>1 DEF Busy
      <4>3. r.job \notin Creation /\ Kind[d] # "sale"
        BY <4>2
      <4> QED BY <3>2, <4>1, <4>3 DEF Working
    <3> QED BY <1>1, <3>1, <3>2, <3>3 DEF At
  <2> QED BY <2>1, <2>2
<1> QED BY <1>2, <1>4 DEF RInv

LEMMA IdleWorks ==
  ASSUME FinanceAssumption
  PROVE  /\ Idle.job = None /\ Idle.doc = None /\ Idle.posts = <<>>
         /\ None \notin Creation \union {"confirm", "void", "reverse", "pay"}
  BY DEF Idle, FinanceAssumption, Creation

LEMMA CreateExpenseRInv ==
  ASSUME FinanceAssumption, RInv, NEW s \in Session, NEW d \in Doc, CreateExpense(s, d)
  PROVE  RInv'
<1> PICK r : r = [Idle EXCEPT !.job = "expense", !.doc = d, !.read = {From[d]},
                    !.wants = <<KeyShare(From[d]), Update(From[d])>>,
                    !.posts = <<Posting(From[d], "OUT", Amount)>>]
  OBVIOUS
<1>1. r.job = "expense" /\ r.doc = d /\ r.posts = <<Posting(From[d], "OUT", Amount)>>
  BY DEF Idle
<1>2. \A k \in DOMAIN r.posts : r.posts[k].reverses = 0
  BY <1>1 DEF Posting
<1>3. Kind[d] = "expense" /\ doc[d].status = "none" /\ ~Busy(d) /\ Begin(s, r)
  BY DEF CreateExpense, New
<1>4. Working(r, ledger[d], doc[d], Kind[d]) /\ r.job # None
  BY <1>1, <1>2, <1>3 DEF Working, Creation, FinanceAssumption
<1> QED BY <1>1, <1>3, <1>4, BeginRInv, CreateExpenseLInv DEF RInv

LEMMA CreateTransferRInv ==
  ASSUME FinanceAssumption, RInv, NEW s \in Session, NEW d \in Doc, CreateTransfer(s, d)
  PROVE  RInv'
<1> PICK r : r = [Idle EXCEPT !.job = "transfer", !.doc = d, !.read = {From[d], To[d]},
                    !.wants = <<Update(InOrder(d)[1]), Update(InOrder(d)[2])>>,
                    !.posts = TransferPair(d)]
  OBVIOUS
<1>1. r.job = "transfer" /\ r.doc = d /\ r.posts = TransferPair(d)
  BY DEF Idle
<1>2. \A k \in DOMAIN r.posts : r.posts[k].reverses = 0
  BY <1>1 DEF TransferPair, Posting
<1>3. Kind[d] = "transfer" /\ doc[d].status = "none" /\ ~Busy(d) /\ Begin(s, r)
  BY DEF CreateTransfer, New
<1>4. Working(r, ledger[d], doc[d], Kind[d]) /\ r.job # None
  BY <1>1, <1>2, <1>3 DEF Working, Creation, FinanceAssumption
<1> QED BY <1>1, <1>3, <1>4, BeginRInv, CreateTransferLInv DEF RInv

LEMMA CreateHandoverRInv ==
  ASSUME FinanceAssumption, RInv, NEW s \in Session, NEW d \in Doc, CreateHandover(s, d)
  PROVE  RInv'
<1> PICK r : r = [Idle EXCEPT !.job = "handover", !.doc = d, !.read = {From[d], To[d]},
                    !.wants = <<KeyShare(From[d]), KeyShare(To[d]), Update(From[d])>>,
                    !.posts = <<Posting(From[d], "OUT", Amount)>>]
  OBVIOUS
<1>1. r.job = "handover" /\ r.doc = d /\ r.posts = <<Posting(From[d], "OUT", Amount)>>
  BY DEF Idle
<1>2. \A k \in DOMAIN r.posts : r.posts[k].reverses = 0
  BY <1>1 DEF Posting
<1>3. Kind[d] = "handover" /\ doc[d].status = "none" /\ ~Busy(d) /\ Begin(s, r)
  BY DEF CreateHandover, New
<1>4. Working(r, ledger[d], doc[d], Kind[d]) /\ r.job # None
  BY <1>1, <1>2, <1>3 DEF Working, Creation, FinanceAssumption
<1> QED BY <1>1, <1>3, <1>4, BeginRInv, CreateHandoverLInv DEF RInv

LEMMA ConfirmHandoverRInv ==
  ASSUME FinanceAssumption, RInv, NEW s \in Session, NEW d \in Doc,
         NEW counted \in 0..Amount + 1, ConfirmHandover(s, d, counted)
  PROVE  RInv'
<1> PICK p : p = IF counted > 0 THEN <<Posting(To[d], "IN", counted)>> ELSE <<>>
  OBVIOUS
<1> PICK r : r = [Idle EXCEPT !.job = "confirm", !.doc = d, !.counted = counted,
                    !.wants = IF counted > 0 THEN <<Update(To[d])>> ELSE <<>>, !.posts = p]
  OBVIOUS
<1>1. r.job = "confirm" /\ r.doc = d /\ r.posts = p
  BY DEF Idle
<1>2. \A k \in DOMAIN p : p[k].reverses = 0 /\ p[k].way = "IN"
  BY DEF Posting
<1>3. Kind[d] = "handover" /\ doc[d].status = "pending" /\ Begin(s, r)
  BY DEF ConfirmHandover
<1>4. Working(r, ledger[d], doc[d], Kind[d]) /\ r.job # None /\ r.job \notin Creation
  BY <1>1, <1>2, <1>3 DEF Working, Creation, FinanceAssumption
<1> QED BY <1>1, <1>3, <1>4, BeginRInv, ConfirmHandoverLInv DEF RInv

LEMMA VoidRInv ==
  ASSUME FinanceAssumption, RInv, NEW s \in Session, NEW d \in Doc,
         ReverseDocument(s, d) \/ VoidSale(s, d)
  PROVE  RInv'
<1> PICK r : Begin(s, r) /\ r.job = "void" /\ r.doc = d /\ r.posts = <<>>
  <2>1. CASE VoidSale(s, d)
    <3> PICK r : r = [Idle EXCEPT !.job = "void", !.doc = d]
      OBVIOUS
    <3>1. r.job = "void" /\ r.doc = d /\ r.posts = <<>>
      BY DEF Idle
    <3>2. Begin(s, r)
      BY <2>1 DEF VoidSale
    <3> QED BY <3>1, <3>2
  <2>2. CASE ReverseDocument(s, d)
    <3> PICK r : r = [Idle EXCEPT !.job = "void", !.doc = d,
                        !.read = IF Kind[d] = "transfer" THEN {From[d], To[d]} ELSE {}]
      OBVIOUS
    <3>1. r.job = "void" /\ r.doc = d /\ r.posts = <<>>
      BY DEF Idle
    <3>2. Begin(s, r)
      BY <2>2 DEF ReverseDocument
    <3> QED BY <3>1, <3>2
  <2> QED BY <2>1, <2>2
<1>1. doc[d].status # "none" /\ (Kind[d] = "sale" => ~Busy(d))
  BY DEF ReverseDocument, VoidSale, SaleIsFree, RInv, Books
<1>2. Working(r, ledger[d], doc[d], Kind[d]) /\ r.job # None /\ r.job \notin Creation
  BY <1>1 DEF Working, Creation, FinanceAssumption
<1> QED BY <1>1, <1>2, BeginRInv, VoidLInv DEF RInv

LEMMA RecordPaymentRInv ==
  ASSUME FinanceAssumption, RInv, NEW s \in Session, NEW d \in Doc, NEW lines \in Lines,
         RecordPayment(s, d, lines)
  PROVE  RInv'
<1> PICK r : r = [Idle EXCEPT !.job = "pay", !.doc = d,
                    !.lines = IF \E m \in Method : mapping[m] # None THEN lines ELSE <<>>]
  OBVIOUS
<1>1. r.job = "pay" /\ r.doc = d /\ r.posts = <<>>
  BY DEF Idle
<1>2. Begin(s, r) /\ Kind[d] = "sale" /\ ~Busy(d) /\ ~doc[d].reversed
  BY DEF RecordPayment, SaleIsFree
<1>3. doc[d].status # "none"
  BY <1>2 DEF RInv, Books
<1>4. Working(r, ledger[d], doc[d], Kind[d]) /\ r.job # None
  BY <1>1, <1>2, <1>3 DEF Working, Creation, FinanceAssumption
<1> QED BY <1>1, <1>2, <1>4, BeginRInv, RecordPaymentLInv DEF RInv

\* A request that goes on with the same document, or ends.
LEMMA MidRInv ==
  ASSUME FinanceAssumption, RInv, LInv', NEW s \in Session, NEW r, UNCHANGED <<ledger, doc>>,
         session' = [session EXCEPT ![s] = r],
         r = Idle \/ /\ session[s].job # None /\ r.doc = session[s].doc
                     /\ r.job \in Creation => session[s].job \in Creation
                     /\ Working(r, ledger[At(s)], doc[At(s)], Kind[At(s)])
  PROVE  RInv'
<1>1. \A e \in Doc : Books(ledger'[e], doc'[e], Kind[e])
  BY DEF RInv
<1>2. \A t \in Session : session'[t] = IF t = s THEN r ELSE session[t]
  BY DEF RInv, LInv, Requests
<1>3. ASSUME NEW t \in Session, session'[t].job # None
      PROVE  /\ Working(session'[t], ledger'[At(t)'], doc'[At(t)'], Kind[At(t)'])
             /\ Alone(t)'
  <2>1. \A u \in Session : session'[u] = Idle \/ At(u)' = At(u)
    BY <1>2 DEF At
  <2>2. session'[t] # Idle /\ At(t)' = At(t) /\ session[t].job # None
    BY <1>2, <1>3, <2>1, IdleWorks
  <2> PICK e \in Doc : e = At(t)
    BY <2>2, BusyIsNamed DEF RInv, At
  <2>3. Working(session[t], ledger[e], doc[e], Kind[e]) /\ Alone(t)
    BY <2>2 DEF RInv
  <2>4. Working(session'[t], ledger[e], doc[e], Kind[e])
    BY <1>2, <2>2, <2>3 DEF At
  <2>5. session'[t].job \in Creation => session[t].job \in Creation
    BY <1>2, <2>2
  <2>6. Alone(t)'
    <3> SUFFICES ASSUME Kind[e] = "sale" \/ session[t].job \in Creation, NEW u \in Session,
                        session'[u].doc = e
                 PROVE  u = t
      BY <2>2, <2>5 DEF Alone, At
    <3>1. e # None
      BY DEF FinanceAssumption
    <3>2. session[u].doc = e
      BY <2>1, <3>1, IdleWorks DEF At
    <3> QED BY <2>3, <3>2 DEF Alone, At
  <2> QED BY <2>2, <2>4, <2>6
<1> QED BY <1>1, <1>3 DEF RInv

LEMMA NextLineRInv ==
  ASSUME FinanceAssumption, RInv, NEW s \in Session, NextLine(s)
  PROVE  RInv'
<1> PICK old \in Request : old = session[s]
  BY DEF RInv, LInv, Requests
<1> PICK r : r = Tendered(old)
  OBVIOUS
<1> PICK a : a = mapping[Head(old.lines)]
  OBVIOUS
<1> PICK d \in Doc : d = old.doc
  BY DEF NextLine, RInv, LInv, Requests, Shape, FinanceAssumption
<1>1. session' = [session EXCEPT ![s] = r] /\ UNCHANGED <<ledger, doc>>
  BY DEF NextLine, RInv, LInv, Requests, data
<1>2. old.job = "pay" /\ "pay" # None /\ "pay" \notin Creation
  BY DEF NextLine, RInv, LInv, Requests, Shape, FinanceAssumption, Creation
<1>3. Working(old, ledger[d], doc[d], Kind[d])
  BY <1>2 DEF RInv, At
<1>4. r.job = "pay" /\ r.doc = d /\ r.posts = Append(old.posts, Posting(a, "IN", Amount))
  BY <1>2 DEF Tendered, Request
<1>5. old.posts \in Seq(Movement)
  BY DEF Request
<1>6. \A k \in DOMAIN r.posts : r.posts[k] = Posting(a, "IN", Amount) \/
                                (k \in DOMAIN old.posts /\ r.posts[k] = old.posts[k])
  BY <1>4, <1>5
<1>7. \A k \in DOMAIN r.posts : r.posts[k].reverses = 0 /\ r.posts[k].way = "IN"
  BY <1>2, <1>3, <1>6 DEF Working, Posting
<1>8. Working(r, ledger[d], doc[d], Kind[d])
  BY <1>2, <1>3, <1>4, <1>7 DEF Working
<1> QED BY <1>1, <1>2, <1>4, <1>8, NextLineLInv, MidRInv DEF RInv, At

LEMMA AcquireRInv ==
  ASSUME FinanceAssumption, RInv, NEW s \in Session, Acquire(s)
  PROVE  RInv'
<1> PICK old \in Request : old = session[s]
  BY DEF RInv, LInv, Requests
<1> PICK r : r = [old EXCEPT !.wants = Tail(old.wants)]
  OBVIOUS
<1>1. session' = [session EXCEPT ![s] = [old EXCEPT !.wants = Tail(old.wants)]] /\ UNCHANGED <<ledger, doc>>
  BY DEF Acquire, RInv, LInv, Requests, data
<1>2. r.job = old.job /\ r.doc = old.doc /\ r.posts = old.posts
  BY DEF Request
<1>3. old.job # None
  BY DEF Acquire, RInv, LInv, Requests, Shape, Idle
<1>4. Working(old, ledger[At(s)], doc[At(s)], Kind[At(s)])
  BY <1>3 DEF RInv
<1>5. Working(r, ledger[At(s)], doc[At(s)], Kind[At(s)])
  BY <1>2, <1>4 DEF Working
<1> QED BY <1>1, <1>2, <1>3, <1>5, AcquireLInv, MidRInv DEF RInv

LEMMA RollbackRInv ==
  ASSUME FinanceAssumption, RInv, NEW s \in Session, Rollback(s)
  PROVE  RInv'
BY RollbackLInv, MidRInv DEF Rollback, End, data, RInv

\* A void reverses everything that is open when it looks, each movement once.
LEMMA SweepsAll ==
  ASSUME LInv, NEW d \in Doc, NEW order \in SetToSeqs(Unreversed(d)), NEW kind
  PROVE  Sweeps(Reversals(d, order), ledger[d], kind)
<1> PICK S : S = Unreversed(d)
  OBVIOUS
<1> PICK n \in Nat : n = Cardinality(S) /\ IsFiniteSet(S)
  BY UnreversedFinite
<1> PICK P : P = Reversals(d, order)
  OBVIOUS
<1>1. order \in [1..n -> S] /\ \A i, j \in 1..n : i # j => order[i] # order[j]
  BY DEF SetToSeqs
<1>2. order \in Injection(1..n, S)
  BY <1>1 DEF Injection, IsInjective
<1>3. IsFiniteSet(1..n) /\ Cardinality(1..n) = n
  BY FS_Interval
<1>4. order \in Surjection(1..n, S)
  BY <1>2, <1>3, FS_Injection
<1>5. \A i \in S : \E k \in 1..n : order[k] = i
  BY <1>4 DEF Surjection
<1>6. DOMAIN P = 1..n /\ \A k \in 1..n : P[k] = Reverses(order[k], ledger[d][order[k]])
  BY <1>1 DEF Reversals
<1>7. \A k \in 1..n : P[k].reverses = order[k] /\ order[k] \in S
  BY <1>1, <1>6 DEF Reverses
<1>8. S = Open(ledger[d])
  BY DEF Unreversed, Open
<1>9. \A k \in DOMAIN P : Cancels(ledger[d], P[k])
  BY <1>6, <1>7, <1>8 DEF Cancels, Open
<1>10. Undone(P) = S
  <2>1. \A i \in S : \E k \in DOMAIN P : P[k].reverses = i
    BY <1>5, <1>6, <1>7
  <2> QED BY <1>6, <1>7, <2>1 DEF Undone
<1>11. OnceOnly(P)
  BY <1>1, <1>6, <1>7 DEF OnceOnly
<1> QED BY <1>8, <1>9, <1>10, <1>11 DEF Sweeps

LEMMA CollectRInv ==
  ASSUME FinanceAssumption, RInv, NEW s \in Session, Collect(s)
  PROVE  RInv'
<1> PICK old \in Request : old = session[s]
  BY DEF RInv, LInv, Requests
<1>1. old.job = "void" /\ "void" # None /\ "void" \notin Creation
  BY DEF Collect, FinanceAssumption, Creation
<1> PICK d \in Doc : d = old.doc
  BY <1>1, BusyIsNamed DEF RInv
<1> PICK order \in SetToSeqs(Unreversed(d)) :
      session' = [session EXCEPT ![s] =
        [@ EXCEPT !.job = "reverse", !.posts = Reversals(d, order),
                  !.wants = ReversalLocks(d, order)]]
  BY DEF Collect
<1> PICK P : P = Reversals(d, order)
  OBVIOUS
<1> PICK r : r = [old EXCEPT !.job = "reverse", !.posts = P, !.wants = ReversalLocks(d, order)]
  OBVIOUS
<1>2. session' = [session EXCEPT ![s] = r] /\ UNCHANGED <<ledger, doc>>
  BY DEF Collect, RInv, LInv, Requests, data
<1>3. r.job = "reverse" /\ r.doc = d /\ r.posts = P /\ "reverse" \notin Creation
  BY DEF Request, Creation
<1>4. Working(old, ledger[d], doc[d], Kind[d])
  BY <1>1 DEF RInv, At
<1>5. Sweeps(P, ledger[d], Kind[d])
  BY SweepsAll DEF RInv
<1>6. Working(r, ledger[d], doc[d], Kind[d])
  BY <1>1, <1>3, <1>4, <1>5 DEF Working
<1>7. LInv' /\ session[s].job # None /\ r.doc = session[s].doc /\ r.job \notin Creation
  BY <1>1, <1>3, CollectStep DEF RInv
<1>8. Working(r, ledger[At(s)], doc[At(s)], Kind[At(s)])
  BY <1>6 DEF At
<1> QED BY <1>2, <1>7, <1>8, MidRInv

-----------------------------------------------------------------------------
(* The step that posts                                                     *)

Becomes(now, job, row) ==
  now.status # "none" /\ (now.reversed <=> job = "reverse" \/ row.reversed)

LEMMA OutcomeFields ==
  ASSUME NEW job \in Job, job \notin {None, "void"}, NEW row \in DocRow, NEW counted,
         job \in Creation <=> row.status = "none"
  PROVE  Becomes(Outcome(job, row, counted), job, row)
<1>1. CASE job \in {"expense", "transfer"}
  BY <1>1 DEF Becomes, Outcome, DocRow, Status
<1>2. CASE job = "handover"
  BY <1>2 DEF Becomes, Outcome, DocRow, Status
<1>3. CASE job = "confirm"
  <2> PICK now : now = IF counted = Amount THEN "confirmed" ELSE "disputed"
    OBVIOUS
  <2>1. now # "none"
    OBVIOUS
  <2>2. Outcome(job, row, counted) = [row EXCEPT !.status = now, !.counted = counted]
    BY <1>3 DEF Outcome
  <2> QED BY <1>3, <2>1, <2>2 DEF Becomes, DocRow
<1>4. CASE job = "reverse"
  BY <1>4 DEF Becomes, Outcome, DocRow, Status, Creation
<1>5. CASE job = "pay"
  BY <1>5 DEF Becomes, Outcome, DocRow, Status, Creation
<1> QED BY <1>1, <1>2, <1>3, <1>4, <1>5 DEF Job

\* What a request posts: movements of its own, or reversals.
LEMMA PostedIs ==
  ASSUME NEW L \in Seq(Movement), NEW r, NEW row, NEW kind, Working(r, L, row, kind),
         NEW k \in DOMAIN r.posts
  PROVE  IF r.job = "reverse" THEN Cancels(L, r.posts[k]) /\ r.posts[k].reverses # 0
         ELSE r.posts[k].reverses = 0
<1>1. CASE r.job = "reverse"
  <2>1. Cancels(L, r.posts[k])
    BY <1>1 DEF Working, Sweeps
  <2> PICK i \in DOMAIN L : r.posts[k] = Reverses(i, L[i])
    BY <2>1 DEF Cancels
  <2>2. i # 0 /\ r.posts[k].reverses = i
    BY DEF Reverses
  <2> QED BY <1>1, <2>1, <2>2
<1>2. CASE r.job # "reverse"
  BY <1>2 DEF Working
<1> QED BY <1>1, <1>2

\* What r makes of the movements L and the row of its document.
Posted(r, L, row, M, now, kind) ==
  /\ L \in Seq(Movement) /\ Extended(L, r.posts, M)
  /\ Working(r, L, row, kind) /\ r.job \in Job \ {None, "void"}
  /\ Becomes(now, r.job, row)

LEMMA BooksAfter ==
  ASSUME NEW r, NEW L, NEW row, NEW M, NEW now, NEW kind,
         Posted(r, L, row, M, now, kind), Books(L, row, kind)
  PROVE  Books(M, now, kind)
<1> PICK P : P = r.posts
  OBVIOUS
<1> USE DEF Posted
<1>0. now.status # "none" /\ (now.reversed <=> r.job = "reverse" \/ row.reversed)
  BY DEF Becomes
<1>1. \A k \in DOMAIN P : P[k].reverses = 0 \/ Cancels(L, P[k])
  BY PostedIs
<1>2. Linked(M)
  BY <1>1, LinkedAfter DEF Books
<1>3. ASSUME kind = "sale" PROVE OnceOnly(M)
  <2>1. OnceOnly(L)
    BY <1>3 DEF Books
  <2>2. CASE r.job = "reverse"
    <3>1. OnceOnly(P) /\ Undone(P) \subseteq Open(L)
      BY <1>3, <2>2 DEF Working, Sweeps
    <3>2. \A k \in DOMAIN P : P[k].reverses \in Open(L)
      BY <3>1 DEF Undone
    <3> QED BY <2>1, <3>1, <3>2, OnceAfter
  <2>3. CASE r.job # "reverse"
    <3>1. \A k \in DOMAIN P : P[k].reverses = 0
      BY <2>3, PostedIs
    <3>2. OnceOnly(P)
      BY <3>1 DEF OnceOnly
    <3> QED BY <2>1, <3>1, <3>2, OnceAfter
  <2> QED BY <2>2, <2>3
<1>4. CASE r.job = "reverse"
  <2>1. \A i \in Open(M) : i \in Open(L) /\ i \notin Undone(P) /\ M[i] = L[i]
    BY <1>4, OpenAfter, PostedIs
  <2>2. \A i \in Open(M) : M[i].way = "IN" /\ kind # "sale"
    BY <1>4, <2>1 DEF Working, Sweeps
  <2> QED BY <1>0, <1>2, <1>3, <2>2 DEF Books
<1>5. CASE r.job # "reverse" /\ row.reversed
  <2>1. row.status # "none" /\ \A i \in Open(L) : L[i].way = "IN"
    BY <1>5 DEF Books
  <2>2. r.job = "confirm"
    BY <1>5, <2>1 DEF Working, Creation, Job
  <2>3. kind # "sale" /\ \A k \in DOMAIN P : P[k].way = "IN"
    BY <2>2 DEF Working
  <2>4. \A i \in Open(M) : M[i].way = "IN"
    BY <2>1, <2>3, OpenAfter
  <2> QED BY <1>0, <1>2, <2>3, <2>4 DEF Books
<1>6. CASE r.job # "reverse" /\ ~row.reversed
  BY <1>0, <1>2, <1>3, <1>6 DEF Books
<1> QED BY <1>4, <1>5, <1>6

\* What is posted meanwhile does not disturb a request on the same document.
LEMMA WorkingAfter ==
  ASSUME NEW r, NEW L, NEW row, NEW M, NEW now, NEW kind, NEW q,
         Posted(r, L, row, M, now, kind), Working(q, L, row, kind),
         r.job \notin Creation, kind # "sale"
  PROVE  Working(q, M, now, kind)
<1> USE DEF Posted
<1> PICK P : P = r.posts
  OBVIOUS
<1>1. q.job \notin Creation /\ q.job # "pay"
  BY DEF Working
<1>2. r.job = "confirm" \/ r.job = "reverse"
  BY DEF Working, Job, Creation
<1>3. \A k \in DOMAIN P : P[k].reverses = 0 => P[k].way = "IN"
  BY <1>2, PostedIs DEF Working
<1>4. ASSUME q.job = "reverse" PROVE Sweeps(q.posts, M, kind)
  <2>1. Sweeps(q.posts, L, kind)
    BY <1>4 DEF Working
  <2>2. \A k \in DOMAIN q.posts : Cancels(M, q.posts[k])
    BY <2>1 DEF Sweeps, Cancels, Extended
  <2>3. \A i \in Open(M) : i \in Undone(q.posts) \/ M[i].way = "IN"
    BY <1>3, <2>1, OpenAfter DEF Sweeps
  <2> QED BY <2>2, <2>3 DEF Sweeps
<1> QED BY <1>1, <1>4 DEF Working, Becomes

LEMMA CommitRInv ==
  ASSUME FinanceAssumption, RInv, NEW s \in Session, Commit(s)
  PROVE  RInv'
<1> PICK r \in Request : r = session[s]
  BY DEF RInv, LInv, Requests
<1>1. r.job \in Job /\ r.job \notin {None, "void"} /\ r.posts \in Seq(Movement)
  BY DEF Request, Commit
<1> PICK d \in Doc : d = r.doc
  BY <1>1, BusyIsNamed DEF RInv
<1> PICK L \in Seq(Movement), row \in DocRow : L = ledger[d] /\ row = doc[d]
  BY DEF RInv, LInv, DataTypes
<1> PICK M, now : M = L \o r.posts /\ now = Outcome(r.job, row, r.counted)
  OBVIOUS
<1>2. Working(r, L, row, Kind[d]) /\ Alone(s) /\ Books(L, row, Kind[d])
  BY <1>1 DEF RInv, At
<1>3. /\ ledger' = [ledger EXCEPT ![d] = M] /\ doc' = [doc EXCEPT ![d] = now]
      /\ session' = [session EXCEPT ![s] = Idle]
  BY DEF Commit, End, RInv, LInv, DataTypes
<1>4. Extended(L, r.posts, M)
  BY <1>1, Appending
<1>5. Becomes(now, r.job, row)
  BY <1>1, <1>2, OutcomeFields DEF Working
<1> PICK kind : kind = Kind[d]
  OBVIOUS
<1>10. Posted(r, L, row, M, now, kind)
  BY <1>1, <1>2, <1>4, <1>5 DEF Posted
<1>6. \A e \in Doc : /\ ledger'[e] = IF e = d THEN M ELSE ledger[e]
                     /\ doc'[e] = IF e = d THEN now ELSE doc[e]
  BY <1>3 DEF RInv, LInv, DataTypes
<1>7. \A e \in Doc : Books(ledger'[e], doc'[e], Kind[e])
  <2>1. Books(M, now, kind)
    <3>1. Books(L, row, kind)
      BY <1>2
    <3> QED BY <1>10, <3>1, BooksAfter
  <2>2. ASSUME NEW e \in Doc, e # d
        PROVE  Books(ledger'[e], doc'[e], Kind[e])
    <3>1. ledger'[e] = ledger[e] /\ doc'[e] = doc[e]
      BY <1>6, <2>2
    <3> QED BY <3>1 DEF RInv
  <2>3. ledger'[d] = M /\ doc'[d] = now
    BY <1>6
  <2> QED BY <2>1, <2>2, <2>3
<1>8. \A t \in Session : session'[t] = IF t = s THEN Idle ELSE session[t]
  BY <1>3 DEF RInv, LInv, Requests
<1>9. ASSUME NEW t \in Session, session'[t].job # None
      PROVE  /\ Working(session'[t], ledger'[At(t)'], doc'[At(t)'], Kind[At(t)'])
             /\ Alone(t)'
  <2>1. t # s /\ session'[t] = session[t] /\ At(t)' = At(t) /\ session[t].job # None
    BY <1>8, <1>9, IdleWorks DEF At
  <2> PICK e \in Doc : e = At(t)
    BY <2>1, BusyIsNamed DEF RInv, At
  <2>2. Working(session[t], ledger[e], doc[e], Kind[e]) /\ Alone(t)
    BY <2>1 DEF RInv
  <2>3. ASSUME e # d
        PROVE  Working(session'[t], ledger'[e], doc'[e], Kind[e])
    <3>1. ledger'[e] = ledger[e] /\ doc'[e] = doc[e]
      BY <1>6, <2>3
    <3> QED BY <2>1, <2>2, <3>1
  <2>4. ASSUME e = d
        PROVE  Working(session'[t], ledger'[e], doc'[e], Kind[e])
    <3>1. Kind[d] # "sale" /\ r.job \notin Creation
      BY <1>2, <2>1, <2>4 DEF Alone, At
    <3>2. Working(session[t], L, row, kind) /\ kind # "sale"
      BY <2>2, <2>4, <3>1
    <3>3. Working(session[t], M, now, kind)
      BY <1>10, <3>1, <3>2, WorkingAfter
    <3> QED BY <1>6, <2>1, <2>4, <3>3
  <2>5. Working(session'[t], ledger'[e], doc'[e], Kind[e])
    BY <2>3, <2>4
  <2>6. Alone(t)'
    <3> SUFFICES ASSUME Kind[e] = "sale" \/ session[t].job \in Creation, NEW u \in Session,
                        session'[u].doc = e
                 PROVE  u = t
      BY <2>1 DEF Alone, At
    <3>1. e # None
      BY DEF FinanceAssumption
    <3>2. session[u].doc = e
      BY <1>8, <3>1, IdleWorks
    <3> QED BY <2>2, <3>2 DEF Alone, At
  <2> QED BY <2>1, <2>5, <2>6
<1> QED BY <1>7, <1>9, CommitLInv DEF RInv

LEMMA ReviveRInv ==
  ASSUME FinanceAssumption, RInv, LInv', NEW d \in Doc, Revive(d)
  PROVE  RInv'
<1> PICK row \in DocRow : row = doc[d]
  BY DEF RInv, LInv, DataTypes
<1> PICK now : now = [row EXCEPT !.reversed = FALSE]
  OBVIOUS
<1>1. doc' = [doc EXCEPT ![d] = now] /\ UNCHANGED <<ledger, session>> /\ ~Busy(d)
  BY DEF Revive, SaleIsFree, RInv, LInv, DataTypes
<1>2. now.status = row.status /\ now.reversed = FALSE
  BY DEF DocRow
<1>3. \A e \in Doc : doc'[e] = IF e = d THEN now ELSE doc[e]
  BY <1>1 DEF RInv, LInv, DataTypes
<1>4. \A e \in Doc : Books(ledger'[e], doc'[e], Kind[e])
  <2>1. Books(ledger[d], now, Kind[d])
    BY <1>2 DEF RInv, Books
  <2> QED BY <1>1, <1>3, <2>1 DEF RInv
<1>5. ASSUME NEW t \in Session, session'[t].job # None
      PROVE  /\ Working(session'[t], ledger'[At(t)'], doc'[At(t)'], Kind[At(t)'])
             /\ Alone(t)'
  <2> PICK e \in Doc : e = At(t)
    BY <1>1, <1>5, BusyIsNamed DEF RInv, At
  <2>1. e # d
    BY <1>1 DEF Busy, At
  <2>2. Working(session[t], ledger[e], doc[e], Kind[e]) /\ Alone(t)
    BY <1>1, <1>5 DEF RInv
  <2>3. At(t)' = e /\ (Alone(t)' <=> Alone(t))
    BY <1>1 DEF At, Alone
  <2> QED BY <1>1, <1>3, <2>1, <2>2, <2>3
<1> QED BY <1>4, <1>5 DEF RInv

LEMMA SameRInv ==
  ASSUME RInv, LInv', UNCHANGED <<ledger, doc, session>>
  PROVE  RInv'
BY DEF RInv, Alone, At

LEMMA InitRInv ==
  ASSUME FinanceAssumption, Init
  PROVE  RInv
<1>1. \A d \in Doc : ledger[d] = <<>> /\ doc[d].reversed = FALSE
                     /\ (Kind[d] = "sale" => doc[d].status = "posted")
  BY DEF Init
<1>2. \A d \in Doc : Books(ledger[d], doc[d], Kind[d])
  BY <1>1 DEF Books, Linked, OnceOnly
<1>3. \A s \in Session : session[s].job = None
  BY DEF Init, Idle
<1> QED BY <1>2, <1>3, InitLInv DEF RInv

\* A step of a request.
LEMMA SessionRInv ==
  ASSUME FinanceAssumption, RInv, NEW s \in Session,
         \/ \E d \in Doc :
              \/ CreateExpense(s, d) \/ CreateTransfer(s, d) \/ CreateHandover(s, d)
              \/ \E counted \in 0..Amount + 1 : ConfirmHandover(s, d, counted)
              \/ ReverseDocument(s, d) \/ VoidSale(s, d)
              \/ \E lines \in Lines : RecordPayment(s, d, lines)
         \/ Collect(s) \/ NextLine(s) \/ Acquire(s) \/ Commit(s) \/ Rollback(s)
  PROVE  RInv'
<1>1. ASSUME NEW d \in Doc, CreateExpense(s, d) PROVE RInv'
  BY <1>1, CreateExpenseRInv
<1>2. ASSUME NEW d \in Doc, CreateTransfer(s, d) PROVE RInv'
  BY <1>2, CreateTransferRInv
<1>3. ASSUME NEW d \in Doc, CreateHandover(s, d) PROVE RInv'
  BY <1>3, CreateHandoverRInv
<1>4. ASSUME NEW d \in Doc, NEW counted \in 0..Amount + 1, ConfirmHandover(s, d, counted)
      PROVE  RInv'
  BY <1>4, ConfirmHandoverRInv
<1>5. ASSUME NEW d \in Doc, ReverseDocument(s, d) \/ VoidSale(s, d) PROVE RInv'
  BY <1>5, VoidRInv
<1>6. ASSUME NEW d \in Doc, NEW lines \in Lines, RecordPayment(s, d, lines) PROVE RInv'
  BY <1>6, RecordPaymentRInv
<1>7. ASSUME Collect(s) PROVE RInv'
  BY <1>7, CollectRInv
<1>8. ASSUME NextLine(s) PROVE RInv'
  BY <1>8, NextLineRInv
<1>9. ASSUME Acquire(s) PROVE RInv'
  BY <1>9, AcquireRInv
<1>10. ASSUME Commit(s) PROVE RInv'
  BY <1>10, CommitRInv
<1>11. ASSUME Rollback(s) PROVE RInv'
  BY <1>11, RollbackRInv
<1> QED BY <1>1, <1>2, <1>3, <1>4, <1>5, <1>6, <1>7, <1>8, <1>9, <1>10, <1>11

LEMMA StepsRInv ==
  ASSUME FinanceAssumption, RInv, [Next]_vars
  PROVE  RInv'
<1>0. LInv'
  BY StepsLInv DEF RInv
<1>1. CASE UNCHANGED vars
  BY <1>0, <1>1, SameRInv DEF vars, data
<1>2. ASSUME NEW a \in Account, UpdateAccount(a) PROVE RInv'
  BY <1>0, <1>2, SameRInv DEF UpdateAccount
<1>3. ASSUME NEW m \in Method, NEW a \in Account, SetMapping(m, a) PROVE RInv'
  BY <1>0, <1>3, SameRInv DEF SetMapping
<1>4. ASSUME NEW m \in Method, DeleteMapping(m) PROVE RInv'
  BY <1>0, <1>4, SameRInv DEF DeleteMapping
<1>5. ASSUME NEW d \in Doc, Revive(d) PROVE RInv'
  BY <1>0, <1>5, ReviveRInv
<1>6. CASE Next
  BY <1>2, <1>3, <1>4, <1>5, <1>6, SessionRInv DEF Next
<1> QED BY <1>1, <1>6

LEMMA BooksTell ==
  ASSUME LInv, NEW d \in Doc, Books(ledger[d], doc[d], Kind[d])
  PROVE  /\ \A j \in DOMAIN ledger[d] :
              LET i == ledger[d][j].reverses
              IN  i # 0 => /\ i \in 1..j - 1
                           /\ ledger[d][i].reverses = 0
                           /\ ledger[d][j] = Reverses(i, ledger[d][i])
                           /\ Kind[d] = "sale" =>
                                \A k \in DOMAIN ledger[d] : ledger[d][k].reverses = i => k = j
         /\ doc[d].reversed =>
              /\ Kind[d] = "sale" => Unreversed(d) = {}
              /\ \A i \in Unreversed(d) : ledger[d][i].way = "IN"
<1>1. Unreversed(d) = Open(ledger[d])
  BY DEF Unreversed, Open
<1> QED BY <1>1 DEF Books, Linked, OnceOnly

\* However many requests pay, void and reverse at the same time: what a reversal
\* cancels is a movement of its own document, a payment is given back once, and a
\* reversed document keeps no money that had gone out (reverse_reference).
THEOREM ReversalsCancel == Spec => []ReversalsCancelOriginals
<1>1. RInv => ReversalsCancelOriginals
  BY BooksTell DEF ReversalsCancelOriginals, RInv
<1>2. Init => RInv
  BY FinanceAssumption, InitRInv
<1>3. RInv /\ [Next]_vars => RInv'
  BY FinanceAssumption, StepsRInv
<1> QED BY <1>1, <1>2, <1>3, PTL DEF Spec

-----------------------------------------------------------------------------
(***************************************************************************)
(* Documents in force, and transfers: what the movements of a document are   *)
(* while nobody has reversed it, and that the legs of a transfer are          *)
(* reversed in pairs.                                                        *)
(***************************************************************************)
Spent(d) == Posting(From[d], "OUT", Amount)
SpentBack(d) == Reverses(1, TransferPair(d)[1])
GainedBack(d) == Reverses(2, TransferPair(d)[2])

\* What the books of a document in force say.
HandedOver(L, row, d) ==
  /\ 1 \in DOMAIN L /\ L[1] = Spent(d)
  /\ \A j \in DOMAIN L : L[j].reverses = 0 /\ (j # 1 => L[j].way = "IN")
  /\ row.status = "pending" => DOMAIN L = {1}
  /\ row.counted > 0 => \E j \in DOMAIN L : L[j] = Posting(To[d], "IN", row.counted)

InForce(L, row, d) ==
  /\ Kind[d] = "expense" => L = <<Spent(d)>>
  /\ Kind[d] = "transfer" => L = TransferPair(d)
  /\ Kind[d] = "handover" => HandedOver(L, row, d)

NetsToZero(L) == SumFunctionOnSet(Effects(L), DOMAIN L) = 0

Backed(L, row, d) ==
  /\ row.status = "none" => L = <<>> /\ row.counted = 0
  /\ Kind[d] # "handover" => row.status # "pending" /\ row.counted = 0
  /\ row.status # "none" /\ ~row.reversed => InForce(L, row, d)
  /\ Kind[d] = "transfer" => (row.reversed => Open(L) = {}) /\ NetsToZero(L)

\* What a request in progress is about to post.
PairBack(d) == {<<>>, <<SpentBack(d), GainedBack(d)>>, <<GainedBack(d), SpentBack(d)>>}

Counted(d, n) == IF n > 0 THEN <<Posting(To[d], "IN", n)>> ELSE <<>>

Prepared(r, L, d) ==
  /\ r.job = "expense" => Kind[d] = "expense" /\ r.posts = <<Spent(d)>>
  /\ r.job = "transfer" => Kind[d] = "transfer" /\ r.posts = TransferPair(d)
  /\ r.job = "handover" => Kind[d] = "handover" /\ r.posts = <<Spent(d)>>
  /\ r.job = "confirm" => Kind[d] = "handover" /\ r.posts = Counted(d, r.counted)
  /\ r.job = "reverse" /\ Kind[d] = "transfer" =>
       r.posts \in PairBack(d) /\ Open(L) \subseteq Undone(r.posts)

BInv ==
  /\ RInv
  /\ \A d \in Doc : Backed(ledger[d], doc[d], d)
  /\ \A s \in Session : session[s].job # None =>
       Prepared(session[s], ledger[At(s)], At(s))

-----------------------------------------------------------------------------
(* Steps that post nothing                                                 *)

\* A request begins, goes on with its document, or ends.
LEMMA MidBInv ==
  ASSUME FinanceAssumption, BInv, RInv', NEW s \in Session, NEW r, UNCHANGED <<ledger, doc>>,
         session' = [session EXCEPT ![s] = r],
         r = Idle \/ Prepared(r, ledger[r.doc], r.doc)
  PROVE  BInv'
<1>1. \A t \in Session : session'[t] = IF t = s THEN r ELSE session[t]
  BY DEF BInv, RInv, LInv, Requests
<1>2. ASSUME NEW t \in Session, session'[t].job # None
      PROVE  Prepared(session'[t], ledger'[At(t)'], At(t)')
  <2>1. CASE t = s
    <3>1. r # Idle /\ At(t)' = r.doc
      BY <1>1, <1>2, <2>1, IdleWorks DEF At
    <3> QED BY <1>1, <2>1, <3>1
  <2>2. CASE t # s
    <3>1. session'[t] = session[t] /\ At(t)' = At(t)
      BY <1>1, <2>2 DEF At
    <3> QED BY <1>2, <3>1 DEF BInv
  <2> QED BY <2>1, <2>2
<1>3. \A d \in Doc : Backed(ledger'[d], doc'[d], d)
  BY DEF BInv
<1> QED BY <1>2, <1>3 DEF BInv

LEMMA BeginBInv ==
  ASSUME FinanceAssumption, BInv, RInv', NEW s \in Session, NEW r, NEW d \in Doc,
         r.doc = d, Begin(s, r), Prepared(r, ledger[d], d)
  PROVE  BInv'
BY MidBInv DEF Begin, data

LEMMA CreateBInv ==
  ASSUME FinanceAssumption, BInv, RInv', NEW s \in Session, NEW d \in Doc,
         CreateExpense(s, d) \/ CreateTransfer(s, d) \/ CreateHandover(s, d)
  PROVE  BInv'
<1>1. CASE CreateExpense(s, d)
  <2>r. PICK r : r = [Idle EXCEPT !.job = "expense", !.doc = d, !.read = {From[d]},
                    !.wants = <<KeyShare(From[d]), Update(From[d])>>,
                    !.posts = <<Posting(From[d], "OUT", Amount)>>]
    OBVIOUS
  <2>1. r.job = "expense" /\ r.doc = d /\ r.posts = <<Spent(d)>>
    BY <2>r DEF Idle, Spent
  <2>2. Begin(s, r) /\ Kind[d] = "expense"
    BY <1>1, <2>r DEF CreateExpense
  <2> QED BY <2>1, <2>2, BeginBInv DEF Prepared
<1>2. CASE CreateTransfer(s, d)
  <2>r. PICK r : r = [Idle EXCEPT !.job = "transfer", !.doc = d, !.read = {From[d], To[d]},
                    !.wants = <<Update(InOrder(d)[1]), Update(InOrder(d)[2])>>,
                    !.posts = TransferPair(d)]
    OBVIOUS
  <2>1. r.job = "transfer" /\ r.doc = d /\ r.posts = TransferPair(d)
    BY <2>r DEF Idle
  <2>2. Begin(s, r) /\ Kind[d] = "transfer"
    BY <1>2, <2>r DEF CreateTransfer
  <2> QED BY <2>1, <2>2, BeginBInv DEF Prepared
<1>3. CASE CreateHandover(s, d)
  <2>r. PICK r : r = [Idle EXCEPT !.job = "handover", !.doc = d, !.read = {From[d], To[d]},
                    !.wants = <<KeyShare(From[d]), KeyShare(To[d]), Update(From[d])>>,
                    !.posts = <<Posting(From[d], "OUT", Amount)>>]
    OBVIOUS
  <2>1. r.job = "handover" /\ r.doc = d /\ r.posts = <<Spent(d)>>
    BY <2>r DEF Idle, Spent
  <2>2. Begin(s, r) /\ Kind[d] = "handover"
    BY <1>3, <2>r DEF CreateHandover
  <2> QED BY <2>1, <2>2, BeginBInv DEF Prepared
<1> QED BY <1>1, <1>2, <1>3

LEMMA ConfirmHandoverBInv ==
  ASSUME FinanceAssumption, BInv, RInv', NEW s \in Session, NEW d \in Doc,
         NEW counted \in 0..Amount + 1, ConfirmHandover(s, d, counted)
  PROVE  BInv'
<1>p. PICK p : p = IF counted > 0 THEN <<Posting(To[d], "IN", counted)>> ELSE <<>>
  OBVIOUS
<1>r. PICK r : r = [Idle EXCEPT !.job = "confirm", !.doc = d, !.counted = counted,
                    !.wants = IF counted > 0 THEN <<Update(To[d])>> ELSE <<>>, !.posts = p]
  OBVIOUS
<1>1. r.job = "confirm" /\ r.doc = d /\ r.posts = p /\ r.counted = counted
  BY <1>r DEF Idle
<1>2. Begin(s, r) /\ Kind[d] = "handover"
  BY <1>p, <1>r DEF ConfirmHandover
<1>3. p = Counted(d, counted)
  BY <1>p DEF Counted
<1> QED BY <1>1, <1>2, <1>3, BeginBInv DEF Prepared

LEMMA OtherBeginBInv ==
  ASSUME FinanceAssumption, BInv, RInv', NEW s \in Session, NEW d \in Doc,
         \/ ReverseDocument(s, d) \/ VoidSale(s, d)
         \/ \E lines \in Lines : RecordPayment(s, d, lines)
  PROVE  BInv'
<1>1. PICK r : Begin(s, r) /\ r.doc = d /\ r.job \in {"void", "pay"}
  <2>1. CASE VoidSale(s, d)
    <3>r. PICK r : r = [Idle EXCEPT !.job = "void", !.doc = d]
      OBVIOUS
    <3>1. r.job = "void" /\ r.doc = d
      BY <3>r DEF Idle
    <3> QED BY <2>1, <3>r, <3>1 DEF VoidSale
  <2>2. CASE ReverseDocument(s, d)
    <3>r. PICK r : r = [Idle EXCEPT !.job = "void", !.doc = d,
                        !.read = IF Kind[d] = "transfer" THEN {From[d], To[d]} ELSE {}]
      OBVIOUS
    <3>1. r.job = "void" /\ r.doc = d
      BY <3>r DEF Idle
    <3> QED BY <2>2, <3>r, <3>1 DEF ReverseDocument
  <2>3. ASSUME NEW lines \in Lines, RecordPayment(s, d, lines)
        PROVE  \E r : Begin(s, r) /\ r.doc = d /\ r.job \in {"void", "pay"}
    <3>r. PICK r : r = [Idle EXCEPT !.job = "pay", !.doc = d,
                    !.lines = IF \E m \in Method : mapping[m] # None THEN lines ELSE <<>>]
      OBVIOUS
    <3>1. r.job = "pay" /\ r.doc = d
      BY <3>r DEF Idle
    <3> QED BY <2>3, <3>r, <3>1 DEF RecordPayment
  <2> QED BY <2>1, <2>2, <2>3
<1>2. Prepared(r, ledger[d], d)
  BY <1>1 DEF Prepared
<1> QED BY <1>1, <1>2, BeginBInv

LEMMA NextLineBInv ==
  ASSUME FinanceAssumption, BInv, RInv', NEW s \in Session, NextLine(s)
  PROVE  BInv'
<1>1. PICK old \in Request : old = session[s]
  BY DEF BInv, RInv, LInv, Requests
<1>2. PICK r : r = Tendered(old)
  OBVIOUS
<1>3. old.job = "pay"
  BY <1>1 DEF NextLine, BInv, RInv, LInv, Requests, Shape
<1>4. r.job = "pay"
  BY <1>2, <1>3 DEF Tendered, Request
<1>5. Prepared(r, ledger[r.doc], r.doc)
  BY <1>4 DEF Prepared
<1>6. session' = [session EXCEPT ![s] = r] /\ UNCHANGED <<ledger, doc>>
  BY <1>1, <1>2 DEF NextLine, BInv, RInv, LInv, Requests, data
<1> QED BY <1>5, <1>6, MidBInv

LEMMA AcquireBInv ==
  ASSUME FinanceAssumption, BInv, RInv', NEW s \in Session, Acquire(s)
  PROVE  BInv'
<1>1. PICK old \in Request : old = session[s]
  BY DEF BInv, RInv, LInv, Requests
<1>2. PICK r : r = [old EXCEPT !.wants = Tail(old.wants)]
  OBVIOUS
<1>3. session' = [session EXCEPT ![s] = r] /\ UNCHANGED <<ledger, doc>>
  BY <1>1, <1>2 DEF Acquire, BInv, RInv, LInv, Requests, data
<1>4. r.job = old.job /\ r.doc = old.doc /\ r.posts = old.posts /\ r.counted = old.counted
  BY <1>2 DEF Request
<1>5. old.job # None
  BY <1>1 DEF Acquire, BInv, RInv, LInv, Requests, Shape, Idle
<1>6. Prepared(old, ledger[old.doc], old.doc)
  BY <1>1, <1>5 DEF BInv, At
<1>7. Prepared(r, ledger[r.doc], r.doc)
  BY <1>4, <1>6 DEF Prepared
<1> QED BY <1>3, <1>7, MidBInv

LEMMA RollbackBInv ==
  ASSUME FinanceAssumption, BInv, RInv', NEW s \in Session, Rollback(s)
  PROVE  BInv'
BY MidBInv DEF Rollback, End, data

-----------------------------------------------------------------------------
(* The legs of a transfer                                                  *)

LEMMA LegsAre ==
  ASSUME FinanceAssumption, NEW d \in Doc
  PROVE  /\ TransferPair(d) \in Seq(Movement) /\ Len(TransferPair(d)) = 2
         /\ TransferPair(d)[1] = Spent(d) /\ TransferPair(d)[2] = Posting(To[d], "IN", Amount)
         /\ SpentBack(d) = [account |-> From[d], way |-> "IN", amount |-> Amount, reverses |-> 1]
         /\ GainedBack(d) = [account |-> To[d], way |-> "OUT", amount |-> Amount, reverses |-> 2]
<1>1. From[d] \in Account /\ To[d] \in Account /\ Amount \in Nat
  BY DEF FinanceAssumption
<1>2. Posting(From[d], "OUT", Amount) \in Movement /\ Posting(To[d], "IN", Amount) \in Movement
  BY <1>1, PostingType DEF Direction
<1>3. TransferPair(d) = <<Spent(d), Posting(To[d], "IN", Amount)>> /\ Spent(d) \in Movement
  BY <1>2 DEF TransferPair, Spent
<1>4. TransferPair(d)[1] = Spent(d) /\ TransferPair(d)[2] = Posting(To[d], "IN", Amount)
  BY <1>3
<1> QED BY <1>2, <1>3, <1>4 DEF Spent, SpentBack, GainedBack, Reverses, Posting, Opposite

\* A transfer that nobody has reversed has both legs open.
LEMMA LegsOpen ==
  ASSUME FinanceAssumption, NEW d \in Doc
  PROVE  Open(TransferPair(d)) = {1, 2}
<1>1. DOMAIN TransferPair(d) = {1, 2}
  BY LegsAre DEF TransferPair
<1>2. \A i \in {1, 2} : TransferPair(d)[i].reverses = 0
  <2>1. Spent(d).reverses = 0 /\ Posting(To[d], "IN", Amount).reverses = 0
    BY DEF Spent, Posting
  <2> QED BY <2>1, LegsAre
<1> QED BY <1>1, <1>2 DEF Open

LEMMA CollectBInv ==
  ASSUME FinanceAssumption, BInv, RInv', NEW s \in Session, Collect(s)
  PROVE  BInv'
<1>1. PICK old \in Request : old = session[s]
  BY DEF BInv, RInv, LInv, Requests
<1>2. old.job = "void" /\ "void" # None /\ "void" \notin Creation
  BY <1>1 DEF Collect, FinanceAssumption, Creation
<1>3. PICK d \in Doc : d = old.doc
  BY <1>1, <1>2, BusyIsNamed DEF BInv, RInv
<1>4. PICK order \in SetToSeqs(Unreversed(d)) :
      session' = [session EXCEPT ![s] =
        [@ EXCEPT !.job = "reverse", !.posts = Reversals(d, order),
                  !.wants = ReversalLocks(d, order)]]
  BY <1>1, <1>3 DEF Collect
<1>5. PICK P : P = Reversals(d, order)
  OBVIOUS
<1>6. PICK r : r = [old EXCEPT !.job = "reverse", !.posts = P, !.wants = ReversalLocks(d, order)]
  OBVIOUS
<1>7. session' = [session EXCEPT ![s] = r] /\ UNCHANGED <<ledger, doc>>
  BY <1>1, <1>4, <1>5, <1>6 DEF Collect, BInv, RInv, LInv, Requests, data
<1>8. r.job = "reverse" /\ r.doc = d /\ r.posts = P
  BY <1>3, <1>6 DEF Request
<1>9. ASSUME Kind[d] = "transfer" PROVE P \in PairBack(d) /\ Open(ledger[d]) \subseteq Undone(P)
  <2>1. Unreversed(d) = Open(ledger[d])
    BY DEF Unreversed, Open
  <2>2. doc[d].status # "none"
    BY <1>1, <1>2, <1>3 DEF BInv, RInv, At, Working
  <2>3. DOMAIN P = DOMAIN order /\ \A k \in DOMAIN order : P[k] = Reverses(order[k], ledger[d][order[k]])
    BY <1>5 DEF Reversals
  <2>4. CASE doc[d].reversed
    <3>1. Unreversed(d) = {}
      BY <1>9, <2>1, <2>4 DEF BInv, Backed
    <3>2. order = <<>>
      BY <3>1, FS_EmptySet DEF SetToSeqs
    <3>3. P = <<>>
      BY <1>5, <3>2 DEF Reversals
    <3> QED BY <2>1, <3>1, <3>3 DEF PairBack
  <2>5. CASE ~doc[d].reversed
    <3>1. ledger[d] = TransferPair(d)
      BY <1>9, <2>2, <2>5 DEF BInv, Backed, InForce
    <3>2. Unreversed(d) = {1, 2}
      BY <2>1, <3>1, LegsOpen
    <3>c. Cardinality({1, 2}) = 2
      <4>1. {1, 2} = 1..2
        OBVIOUS
      <4>2. PICK n \in Nat : n = 2
        OBVIOUS
      <4>3. Cardinality(1..n) = n
        BY FS_Interval
      <4> QED BY <4>1, <4>2, <4>3
    <3>3. order \in [1..2 -> {1, 2}] /\ order[1] # order[2]
      BY <3>2, <3>c DEF SetToSeqs
    <3>4. P = [k \in 1..2 |-> Reverses(order[k], TransferPair(d)[order[k]])]
      BY <1>5, <3>1, <3>3 DEF Reversals
    <3>5. P = <<Reverses(order[1], TransferPair(d)[order[1]]),
                Reverses(order[2], TransferPair(d)[order[2]])>>
      BY <3>4
    <3>6. CASE order[1] = 1 /\ order[2] = 2
      <4>1. P = <<SpentBack(d), GainedBack(d)>>
        BY <3>5, <3>6 DEF SpentBack, GainedBack
      <4>2. P[1].reverses = 1 /\ P[2].reverses = 2
        BY <4>1, LegsAre
      <4>3. Undone(P) = {1, 2}
        BY <2>3, <3>3, <4>2 DEF Undone
      <4> QED BY <2>1, <3>2, <4>1, <4>3 DEF PairBack
    <3>7. CASE order[1] = 2 /\ order[2] = 1
      <4>1. P = <<GainedBack(d), SpentBack(d)>>
        BY <3>5, <3>7 DEF SpentBack, GainedBack
      <4>2. P[1].reverses = 2 /\ P[2].reverses = 1
        BY <4>1, LegsAre
      <4>3. Undone(P) = {1, 2}
        BY <2>3, <3>3, <4>2 DEF Undone
      <4> QED BY <2>1, <3>2, <4>1, <4>3 DEF PairBack
    <3> QED BY <3>3, <3>6, <3>7
  <2> QED BY <2>4, <2>5
<1>10. Prepared(r, ledger[d], d)
  BY <1>8, <1>9 DEF Prepared
<1> QED BY <1>7, <1>8, <1>10, MidBInv

-----------------------------------------------------------------------------
(* The step that posts                                                     *)

LEMMA Joined ==
  ASSUME NEW L \in Seq(Movement), NEW P \in Seq(Movement)
  PROVE  L \o P \in Seq(Movement) /\ Len(L \o P) = Len(L) + Len(P)
OBVIOUS

\* Two movements that cancel each other leave the sum as it was.
LEMMA NetsAfter ==
  ASSUME NEW L \in Seq(Movement), NetsToZero(L), NEW P \in Seq(Movement), Len(P) = 2,
         Signed(P[1]) + Signed(P[2]) = 0
  PROVE  NetsToZero(L \o P)
<1>1. PICK n \in Nat : n = Len(L)
  OBVIOUS
<1>2. PICK M : M = L \o P
  OBVIOUS
<1>3. PICK f : f = Effects(M)
  OBVIOUS
<1>4. PICK g : g = Effects(L)
  OBVIOUS
<1>e. Extended(L, P, M)
  BY <1>2, Appending
<1>5. DOMAIN L = 1..n /\ DOMAIN M = 1..(n + 1 + 1) /\ M \in Seq(Movement)
  <2>0. L \o P \in Seq(Movement) /\ Len(L \o P) = Len(L) + Len(P)
    BY Joined
  <2>1. M \in Seq(Movement) /\ Len(M) = Len(L) + Len(P)
    BY <1>2, <2>0
  <2>2. Len(M) = n + 1 + 1
    BY <1>1, <2>1
  <2> QED BY <1>1, <2>1, <2>2
<1>6. M[n + 1] = P[1] /\ M[n + 1 + 1] = P[2] /\ \A i \in 1..n : M[i] = L[i]
  <2>1. 1 \in DOMAIN P /\ 2 \in DOMAIN P
    OBVIOUS
  <2>2. M[n + 1] = P[1] /\ M[n + 2] = P[2]
    BY <1>1, <1>e, <2>1 DEF Extended
  <2>3. \A i \in 1..n : M[i] = L[i]
    BY <1>1, <1>e DEF Extended
  <2>4. n + 1 + 1 = n + 2
    OBVIOUS
  <2> QED BY <2>2, <2>3, <2>4
<1>7. \A m \in Movement : Signed(m) \in Int
  BY DEF Signed, Movement
<1>8. \A i \in 1..(n + 1 + 1) : f[i] = Signed(M[i]) /\ f[i] \in Int
  <2>1. \A i \in 1..(n + 1 + 1) : M[i] \in Movement
    BY <1>5
  <2> QED BY <1>3, <1>5, <1>7, <2>1 DEF Effects
<1>9. \A i \in 1..n : f[i] = g[i]
  <2>1. \A i \in 1..n : i \in 1..(n + 1 + 1) /\ g[i] = Signed(L[i])
    BY <1>4, <1>5 DEF Effects
  <2> QED BY <1>6, <1>8, <2>1
<1>10. SumFunctionOnSet(f, 1..n) = SumFunctionOnSet(g, 1..n)
  <2>1. IsFiniteSet(1..n)
    BY FS_Interval
  <2> QED BY <1>9, <2>1, SumEqual
<1>11. SumFunctionOnSet(g, 1..n) = 0
  BY <1>4, <1>5 DEF NetsToZero
<1>12. SumFunctionOnSet(f, 1..(n + 1)) = SumFunctionOnSet(f, 1..n) + f[n + 1]
  <2>1. \A i \in 1..(n + 1) : f[i] \in Int
    BY <1>8
  <2> QED BY <2>1, SumNext
<1>13. SumFunctionOnSet(f, 1..(n + 1 + 1)) = SumFunctionOnSet(f, 1..(n + 1)) + f[n + 1 + 1]
  BY <1>8, SumNext
<1>14. f[n + 1] = Signed(P[1]) /\ f[n + 1 + 1] = Signed(P[2])
  BY <1>6, <1>8
<1>15. f[n + 1] \in Int /\ f[n + 1 + 1] \in Int
  BY <1>8
<1>16. SumFunctionOnSet(f, 1..(n + 1 + 1)) = 0
  BY <1>10, <1>11, <1>12, <1>13, <1>14, <1>15
<1> QED BY <1>2, <1>3, <1>5, <1>16 DEF NetsToZero

LEMMA EmptyNets == NetsToZero(<<>>)
BY SumEmpty DEF NetsToZero

\* The two legs cancel each other, and so do their reversals.
LEMMA LegsCancel ==
  ASSUME FinanceAssumption, NEW d \in Doc, NEW P \in Seq(Movement),
         P \in {TransferPair(d), <<SpentBack(d), GainedBack(d)>>, <<GainedBack(d), SpentBack(d)>>}
  PROVE  Len(P) = 2 /\ Signed(P[1]) + Signed(P[2]) = 0
<1>1. Amount \in Nat
  BY DEF FinanceAssumption
<1>2. /\ Signed(Spent(d)) = -Amount /\ Signed(Posting(To[d], "IN", Amount)) = Amount
      /\ Signed(SpentBack(d)) = Amount /\ Signed(GainedBack(d)) = -Amount
  <2>1. /\ Spent(d).way = "OUT" /\ Spent(d).amount = Amount
        /\ Posting(To[d], "IN", Amount).way = "IN" /\ Posting(To[d], "IN", Amount).amount = Amount
    BY DEF Spent, Posting
  <2>2. /\ SpentBack(d).way = "IN" /\ SpentBack(d).amount = Amount
        /\ GainedBack(d).way = "OUT" /\ GainedBack(d).amount = Amount
    BY LegsAre
  <2> QED BY <2>1, <2>2 DEF Signed
<1>3. CASE P = TransferPair(d)
  <2>1. P[1] = Spent(d) /\ P[2] = Posting(To[d], "IN", Amount) /\ Len(P) = 2
    BY <1>3, LegsAre
  <2> QED BY <1>1, <1>2, <2>1
<1>4. CASE P = <<SpentBack(d), GainedBack(d)>>
  <2>1. P[1] = SpentBack(d) /\ P[2] = GainedBack(d) /\ Len(P) = 2
    BY <1>4
  <2> QED BY <1>1, <1>2, <2>1
<1>5. CASE P = <<GainedBack(d), SpentBack(d)>>
  <2>1. P[1] = GainedBack(d) /\ P[2] = SpentBack(d) /\ Len(P) = 2
    BY <1>5
  <2> QED BY <1>1, <1>2, <2>1
<1> QED BY <1>3, <1>4, <1>5

\* What r makes of the movements L and the row of document d.
Done(r, L, row, M, now, d) ==
  /\ Posted(r, L, row, M, now, Kind[d]) /\ Prepared(r, L, d) /\ Backed(L, row, d)
  /\ M = L \o r.posts /\ r.posts \in Seq(Movement)
  /\ row \in DocRow /\ now = Outcome(r.job, row, r.counted)
  /\ row.reversed => row.status # "none"

LEMMA FirstPosted ==
  ASSUME FinanceAssumption, NEW d \in Doc, NEW r, NEW L, NEW row, NEW M, NEW now,
         Done(r, L, row, M, now, d), r.job \in Creation
  PROVE  Backed(M, now, d)
<1>1. row.status = "none" /\ L = <<>> /\ row.counted = 0 /\ row.reversed = FALSE
  BY DEF Done, Posted, Working, Backed, DocRow
<1>2. M = r.posts
  BY <1>1 DEF Done
<1>3. /\ now.counted = 0 /\ now.reversed = FALSE
      /\ now.status = IF r.job = "handover" THEN "pending" ELSE "posted"
  <2>1. CASE r.job \in {"expense", "transfer"}
    BY <1>1, <2>1 DEF Done, Outcome, DocRow
  <2>2. CASE r.job = "handover"
    BY <1>1, <2>2 DEF Done, Outcome, DocRow
  <2> QED BY <2>1, <2>2 DEF Creation
<1>4. CASE r.job = "expense"
  <2>1. Kind[d] = "expense" /\ M = <<Spent(d)>>
    BY <1>2, <1>4 DEF Done, Prepared
  <2> QED BY <1>3, <1>4, <2>1 DEF Backed, InForce
<1>5. CASE r.job = "transfer"
  <2>1. Kind[d] = "transfer" /\ M = TransferPair(d)
    BY <1>2, <1>5 DEF Done, Prepared
  <2>2. NetsToZero(<<>> \o TransferPair(d)) /\ <<>> \o TransferPair(d) = TransferPair(d)
    <3>1. PICK P \in Seq(Movement) : P = TransferPair(d)
      BY LegsAre
    <3>2. Len(P) = 2 /\ Signed(P[1]) + Signed(P[2]) = 0
      BY <3>1, LegsCancel
    <3>3. <<>> \in Seq(Movement)
      OBVIOUS
    <3>4. NetsToZero(<<>> \o P)
      BY <3>2, <3>3, EmptyNets, NetsAfter
    <3>5. <<>> \o P = P
      OBVIOUS
    <3> QED BY <3>1, <3>4, <3>5
  <2> QED BY <1>3, <1>5, <2>1, <2>2 DEF Backed, InForce
<1>6. CASE r.job = "handover"
  <2>1. Kind[d] = "handover" /\ M = <<Spent(d)>>
    BY <1>2, <1>6 DEF Done, Prepared
  <2>2. DOMAIN M = {1} /\ M[1] = Spent(d)
    BY <2>1
  <2>3. HandedOver(M, now, d)
    BY <1>3, <2>2 DEF HandedOver, Spent, Posting
  <2> QED BY <1>3, <1>6, <2>1, <2>3 DEF Backed, InForce
<1> QED BY <1>4, <1>5, <1>6 DEF Creation

LEMMA ConfirmPosted ==
  ASSUME FinanceAssumption, NEW d \in Doc, NEW r, NEW L, NEW row, NEW M, NEW now,
         Done(r, L, row, M, now, d), r.job = "confirm"
  PROVE  Backed(M, now, d)
<1>1. Kind[d] = "handover" /\ r.posts = Counted(d, r.counted) /\ row.status # "none"
  BY DEF Done, Posted, Prepared, Working, Creation
<1>2. PICK end \in {"confirmed", "disputed"} : now = [row EXCEPT !.status = end, !.counted = r.counted]
  BY DEF Done, Outcome
<1>3. now.status = end /\ now.counted = r.counted /\ now.reversed = row.reversed
  BY <1>2 DEF Done, DocRow
<1>4. ASSUME ~row.reversed PROVE HandedOver(M, now, d)
  <2>1. HandedOver(L, row, d) /\ Extended(L, r.posts, M)
    BY <1>1, <1>4 DEF Done, Posted, Backed, InForce
  <2>2. 1 \in DOMAIN M /\ M[1] = Spent(d)
    BY <2>1 DEF HandedOver, Extended
  <2>3. ASSUME NEW k \in DOMAIN r.posts
        PROVE  r.posts[k] = Posting(To[d], "IN", r.counted)
    BY <1>1, <2>3 DEF Counted
  <2>4. ASSUME NEW j \in DOMAIN M PROVE M[j].reverses = 0 /\ (j # 1 => M[j].way = "IN")
    <3>1. CASE j \in DOMAIN L
      BY <2>1, <3>1 DEF HandedOver, Extended
    <3>2. CASE j \notin DOMAIN L
      <4>1. PICK k \in DOMAIN r.posts : j = Len(L) + k
        BY <2>1, <3>2 DEF Extended
      <4>2. M[j] = r.posts[k]
        BY <2>1, <4>1 DEF Extended
      <4> QED BY <2>3, <4>2 DEF Posting
    <3> QED BY <3>1, <3>2
  <2>5. ASSUME r.counted > 0 PROVE \E j \in DOMAIN M : M[j] = Posting(To[d], "IN", r.counted)
    <3>1. r.posts = <<Posting(To[d], "IN", r.counted)>>
      BY <1>1, <2>5 DEF Counted
    <3>2. 1 \in DOMAIN r.posts
      BY <3>1
    <3> QED BY <2>1, <2>3, <3>2 DEF Extended
  <2> QED BY <1>3, <2>2, <2>4, <2>5 DEF HandedOver
<1> QED BY <1>1, <1>3, <1>4 DEF Backed, InForce

LEMMA ReversePosted ==
  ASSUME FinanceAssumption, NEW d \in Doc, NEW r, NEW L, NEW row, NEW M, NEW now,
         Done(r, L, row, M, now, d), r.job = "reverse"
  PROVE  Backed(M, now, d)
<1>1. row.status # "none"
  BY DEF Done, Posted, Working, Creation
<1>2. now.status = row.status /\ now.counted = row.counted /\ now.reversed = TRUE
  BY DEF Done, Outcome, DocRow
<1>3. ASSUME Kind[d] = "transfer" PROVE Open(M) = {} /\ NetsToZero(M)
  <2>1. r.posts \in PairBack(d) /\ Open(L) \subseteq Undone(r.posts) /\ NetsToZero(L)
    BY <1>3 DEF Done, Prepared, Backed
  <2>2. \A k \in DOMAIN r.posts : r.posts[k].reverses # 0
    BY PostedIs DEF Done, Posted
  <2>3. \A i \in Open(M) : i \in Open(L) /\ i \notin Undone(r.posts)
    <3>1. PICK P : P = r.posts
      OBVIOUS
    <3>2. Extended(L, P, M)
      BY <3>1 DEF Done, Posted
    <3> SUFFICES ASSUME NEW i \in Open(M) PROVE i \in Open(L) /\ i \notin Undone(P)
      BY <3>1
    <3>3. \A k \in DOMAIN P : P[k].reverses # 0
      BY <2>2, <3>1
    <3> QED BY <3>2, <3>3, OpenAfter
  <2>4. CASE r.posts = <<>>
    <3>1. L \in Seq(Movement)
      BY DEF Done, Posted
    <3>2. M = L
      BY <2>4, <3>1 DEF Done
    <3> QED BY <2>1, <2>3, <3>2
  <2>5. CASE r.posts # <<>>
    <3>1. NetsToZero(L \o r.posts)
      <4>1. Len(r.posts) = 2 /\ Signed(r.posts[1]) + Signed(r.posts[2]) = 0
        BY <2>1, <2>5, LegsCancel DEF PairBack, Done
      <4> QED BY <2>1, <4>1, NetsAfter DEF Done, Posted
    <3> QED BY <2>1, <2>3, <3>1 DEF Done
  <2> QED BY <2>4, <2>5
<1> QED BY <1>1, <1>2, <1>3 DEF Backed, Done

LEMMA BackedAfter ==
  ASSUME FinanceAssumption, NEW d \in Doc, NEW r, NEW L, NEW row, NEW M, NEW now,
         Done(r, L, row, M, now, d)
  PROVE  Backed(M, now, d)
<1>1. r.job \in Creation \union {"confirm", "reverse", "pay"}
  BY DEF Done, Posted, Job, Creation
<1>2. CASE r.job = "pay"
  <2>1. Kind[d] = "sale" /\ row.status # "none" /\ now = row
    BY <1>2 DEF Done, Posted, Working, Creation, Outcome
  <2> QED BY <2>1 DEF Done, Backed, InForce
<1> QED BY <1>1, <1>2, FirstPosted, ConfirmPosted, ReversePosted

\* Somebody else's reversal of a transfer still reverses whatever is open.
LEMMA PreparedAfter ==
  ASSUME FinanceAssumption, NEW d \in Doc, NEW r, NEW L, NEW row, NEW M, NEW now,
         Done(r, L, row, M, now, d), NEW q, Prepared(q, L, d),
         r.job \notin Creation
  PROVE  Prepared(q, M, d)
<1>1. ASSUME Kind[d] = "transfer", q.job = "reverse" PROVE Open(M) \subseteq Open(L)
  <2>1. r.job = "reverse"
    BY <1>1 DEF Done, Posted, Prepared, Working, Job, Creation
  <2>2. \A k \in DOMAIN r.posts : r.posts[k].reverses # 0
    BY <2>1, PostedIs DEF Done, Posted
  <2> QED BY <2>2, OpenAfter DEF Done, Posted
<1> QED BY <1>1 DEF Prepared

LEMMA CommitBInv ==
  ASSUME FinanceAssumption, BInv, RInv', NEW s \in Session, Commit(s)
  PROVE  BInv'
<1>1. PICK r \in Request : r = session[s]
  BY DEF BInv, RInv, LInv, Requests
<1>2. r.job \in Job /\ r.job \notin {None, "void"} /\ r.posts \in Seq(Movement)
  BY <1>1 DEF Request, Commit
<1>3. PICK d \in Doc : d = r.doc
  BY <1>1, <1>2, BusyIsNamed DEF BInv, RInv
<1>4. PICK L \in Seq(Movement), row \in DocRow : L = ledger[d] /\ row = doc[d]
  BY DEF BInv, RInv, LInv, DataTypes
<1>5. PICK M, now : M = L \o r.posts /\ now = Outcome(r.job, row, r.counted)
  OBVIOUS
<1>6. /\ ledger' = [ledger EXCEPT ![d] = M] /\ doc' = [doc EXCEPT ![d] = now]
      /\ session' = [session EXCEPT ![s] = Idle]
  BY <1>1, <1>3, <1>4, <1>5 DEF Commit, End, BInv, RInv, LInv, DataTypes
<1>7. Working(r, L, row, Kind[d]) /\ Alone(s) /\ Books(L, row, Kind[d])
  BY <1>1, <1>2, <1>3, <1>4 DEF BInv, RInv, At
<1>8. Prepared(r, L, d) /\ Backed(L, row, d)
  BY <1>1, <1>2, <1>3, <1>4 DEF BInv, At
<1>9. Done(r, L, row, M, now, d)
  <2>1. Extended(L, r.posts, M)
    BY <1>2, <1>5, Appending
  <2>2. Becomes(now, r.job, row)
    BY <1>2, <1>5, <1>7, OutcomeFields DEF Working
  <2>3. row.reversed => row.status # "none"
    BY <1>7 DEF Books
  <2> QED BY <1>2, <1>5, <1>7, <1>8, <2>1, <2>2, <2>3 DEF Done, Posted
<1>10. \A e \in Doc : /\ ledger'[e] = IF e = d THEN M ELSE ledger[e]
                      /\ doc'[e] = IF e = d THEN now ELSE doc[e]
  BY <1>6 DEF BInv, RInv, LInv, DataTypes
<1>11. \A e \in Doc : Backed(ledger'[e], doc'[e], e)
  <2>1. Backed(M, now, d)
    BY <1>9, BackedAfter
  <2> QED BY <1>10, <2>1 DEF BInv
<1>12. \A t \in Session : session'[t] = IF t = s THEN Idle ELSE session[t]
  BY <1>6 DEF BInv, RInv, LInv, Requests
<1>13. ASSUME NEW t \in Session, session'[t].job # None
       PROVE  Prepared(session'[t], ledger'[At(t)'], At(t)')
  <2>1. t # s /\ session'[t] = session[t] /\ At(t)' = At(t) /\ session[t].job # None
    BY <1>12, <1>13, IdleWorks DEF At
  <2>2. PICK e \in Doc : e = At(t)
    BY <2>1, BusyIsNamed DEF BInv, RInv, At
  <2>3. Prepared(session[t], ledger[e], e)
    BY <2>1, <2>2 DEF BInv
  <2>4. CASE e # d
    BY <1>10, <2>1, <2>2, <2>3, <2>4
  <2>5. CASE e = d
    <3>1. r.job \notin Creation
      BY <1>1, <1>3, <1>7, <2>1, <2>2, <2>5 DEF Alone, At
    <3>2. Prepared(session[t], M, d)
      BY <1>4, <1>9, <2>3, <2>5, <3>1, PreparedAfter
    <3> QED BY <1>10, <2>1, <2>2, <2>5, <3>2
  <2> QED BY <2>4, <2>5
<1> QED BY <1>11, <1>13 DEF BInv

LEMMA ReviveBInv ==
  ASSUME FinanceAssumption, BInv, RInv', NEW d \in Doc, Revive(d)
  PROVE  BInv'
<1>1. PICK row \in DocRow : row = doc[d]
  BY DEF BInv, RInv, LInv, DataTypes
<1>2. PICK now : now = [row EXCEPT !.reversed = FALSE]
  OBVIOUS
<1>3. doc' = [doc EXCEPT ![d] = now] /\ UNCHANGED <<ledger, session>> /\ Kind[d] = "sale"
  BY <1>1, <1>2 DEF Revive, BInv, RInv, LInv, DataTypes
<1>4. \A e \in Doc : doc'[e] = IF e = d THEN now ELSE doc[e]
  BY <1>3 DEF BInv, RInv, LInv, DataTypes
<1>5. now.status = row.status /\ now.counted = row.counted
  BY <1>2 DEF DocRow
<1>6. Backed(ledger[d], now, d)
  BY <1>1, <1>3, <1>5 DEF BInv, Backed, InForce
<1>7. \A e \in Doc : Backed(ledger'[e], doc'[e], e)
  BY <1>3, <1>4, <1>6 DEF BInv
<1> QED BY <1>3, <1>7 DEF BInv, At

LEMMA SameBInv ==
  ASSUME BInv, RInv', UNCHANGED <<ledger, doc, session>>
  PROVE  BInv'
BY DEF BInv, At

LEMMA InitBInv ==
  ASSUME FinanceAssumption, Init
  PROVE  BInv
<1>1. \A d \in Doc : ledger[d] = <<>> /\ doc[d] = [status |-> IF Kind[d] = "sale" THEN "posted" ELSE "none",
                           reversed |-> FALSE, counted |-> 0]
  BY DEF Init
<1>2. \A d \in Doc : Backed(ledger[d], doc[d], d)
  <2> SUFFICES ASSUME NEW d \in Doc PROVE Backed(ledger[d], doc[d], d)
    OBVIOUS
  <2>1. /\ doc[d].status = IF Kind[d] = "sale" THEN "posted" ELSE "none"
        /\ doc[d].reversed = FALSE /\ doc[d].counted = 0 /\ ledger[d] = <<>>
    <3>1. PICK st : st = IF Kind[d] = "sale" THEN "posted" ELSE "none"
      OBVIOUS
    <3>2. doc[d] = [status |-> st, reversed |-> FALSE, counted |-> 0] /\ ledger[d] = <<>>
      BY <1>1, <3>1
    <3> QED BY <3>1, <3>2
  <2>2. doc[d].status # "pending"
    BY <2>1
  <2>3. doc[d].status # "none" => InForce(ledger[d], doc[d], d)
    BY <2>1 DEF InForce
  <2> QED BY <2>1, <2>2, <2>3, EmptyNets DEF Backed
<1>3. \A s \in Session : session[s].job = None
  BY DEF Init, Idle
<1> QED BY <1>2, <1>3, InitRInv DEF BInv

LEMMA StepsBInv ==
  ASSUME FinanceAssumption, BInv, [Next]_vars
  PROVE  BInv'
<1>0. RInv'
  BY StepsRInv DEF BInv
<1>1. CASE UNCHANGED vars
  BY <1>0, <1>1, SameBInv DEF vars, data
<1>2. ASSUME NEW a \in Account, UpdateAccount(a) PROVE BInv'
  BY <1>0, <1>2, SameBInv DEF UpdateAccount
<1>3. ASSUME NEW m \in Method, NEW a \in Account, SetMapping(m, a) PROVE BInv'
  BY <1>0, <1>3, SameBInv DEF SetMapping
<1>4. ASSUME NEW m \in Method, DeleteMapping(m) PROVE BInv'
  BY <1>0, <1>4, SameBInv DEF DeleteMapping
<1>5. ASSUME NEW d \in Doc, Revive(d) PROVE BInv'
  BY <1>0, <1>5, ReviveBInv
<1>6. ASSUME NEW s \in Session, NEW d \in Doc,
             CreateExpense(s, d) \/ CreateTransfer(s, d) \/ CreateHandover(s, d)
      PROVE  BInv'
  BY <1>0, <1>6, CreateBInv
<1>7. ASSUME NEW s \in Session, NEW d \in Doc, NEW counted \in 0..Amount + 1,
             ConfirmHandover(s, d, counted)
      PROVE  BInv'
  BY <1>0, <1>7, ConfirmHandoverBInv
<1>8. ASSUME NEW s \in Session, NEW d \in Doc,
             \/ ReverseDocument(s, d) \/ VoidSale(s, d)
             \/ \E lines \in Lines : RecordPayment(s, d, lines)
      PROVE  BInv'
  BY <1>0, <1>8, OtherBeginBInv
<1>9. ASSUME NEW s \in Session,
             Collect(s) \/ NextLine(s) \/ Acquire(s) \/ Commit(s) \/ Rollback(s)
      PROVE  BInv'
  BY <1>0, <1>9, CollectBInv, NextLineBInv, AcquireBInv, CommitBInv, RollbackBInv
<1>10. CASE Next
  BY <1>2, <1>3, <1>4, <1>5, <1>6, <1>7, <1>8, <1>9, <1>10 DEF Next
<1> QED BY <1>1, <1>10

LEMMA BooksInForce ==
  ASSUME FinanceAssumption, NEW d \in Doc, doc[d].status # "none", ~doc[d].reversed,
         Backed(ledger[d], doc[d], d), ledger[d] \in Seq(Movement)
  PROVE  /\ Kind[d] \in {"expense", "transfer", "handover"} =>
              Cardinality(Standing(d, From[d], "OUT", Amount)) = 1
         /\ Kind[d] = "transfer" => Cardinality(Standing(d, To[d], "IN", Amount)) = 1
         /\ doc[d].counted > 0 => Standing(d, To[d], "IN", doc[d].counted) # {}
         /\ doc[d].status = "pending" => Cardinality(Unreversed(d)) = 1
<1>1. PICK L : L = ledger[d]
  OBVIOUS
<1>2. InForce(L, doc[d], d)
  BY <1>1 DEF Backed
<1>3. \A a, way, n : Standing(d, a, way, n) =
        {i \in Open(L) : L[i].account = a /\ L[i].way = way /\ L[i].amount = n}
  BY <1>1 DEF Standing, Unreversed, Open
<1>4. Unreversed(d) = Open(L)
  BY <1>1 DEF Unreversed, Open
<1>5. \A i : Cardinality({i}) = 1
  BY FS_Singleton
<1>6. /\ Spent(d).account = From[d] /\ Spent(d).way = "OUT" /\ Spent(d).amount = Amount
      /\ Spent(d).reverses = 0
  BY DEF Spent, Posting
<1>7. \A n : LET p == Posting(To[d], "IN", n)
             IN  p.account = To[d] /\ p.way = "IN" /\ p.amount = n /\ p.reverses = 0
  BY DEF Posting
<1>8. CASE Kind[d] = "expense"
  <2>1. DOMAIN L = {1} /\ L[1] = Spent(d)
    BY <1>2, <1>8 DEF InForce
  <2>2. Open(L) = {1}
    BY <1>6, <2>1 DEF Open
  <2>3. Standing(d, From[d], "OUT", Amount) = {1}
    BY <1>3, <1>6, <2>1, <2>2
  <2>4. doc[d].counted = 0 /\ doc[d].status # "pending"
    BY <1>8 DEF Backed
  <2>5. ~(doc[d].counted > 0)
    BY <2>4
  <2>6. Cardinality(Standing(d, From[d], "OUT", Amount)) = 1
    BY <1>5, <2>3
  <2> QED BY <1>8, <2>4, <2>5, <2>6
<1>9. CASE Kind[d] = "transfer"
  <2>1. L = TransferPair(d)
    BY <1>2, <1>9 DEF InForce
  <2>2. Open(L) = {1, 2} /\ L[1] = Spent(d) /\ L[2] = Posting(To[d], "IN", Amount)
    BY <2>1, LegsOpen, LegsAre
  <2>p. L[2].way = "IN" /\ L[2].account = To[d] /\ L[2].amount = Amount
    BY <1>7, <2>2
  <2>s. L[1].way = "OUT" /\ L[1].account = From[d] /\ L[1].amount = Amount
    BY <1>6, <2>2
  <2>3. Standing(d, From[d], "OUT", Amount) = {1}
    <3>1. \A i \in Standing(d, From[d], "OUT", Amount) : i \in {1, 2} /\ L[i].way = "OUT"
      BY <1>3, <2>2
    <3>2. 1 \in Standing(d, From[d], "OUT", Amount)
      BY <1>3, <2>2, <2>s
    <3> QED BY <2>p, <3>1, <3>2
  <2>4. Standing(d, To[d], "IN", Amount) = {2}
    <3>1. \A i \in Standing(d, To[d], "IN", Amount) : i \in {1, 2} /\ L[i].way = "IN"
      BY <1>3, <2>2
    <3>2. 2 \in Standing(d, To[d], "IN", Amount)
      BY <1>3, <2>2, <2>p
    <3> QED BY <2>s, <3>1, <3>2
  <2>5. doc[d].counted = 0 /\ doc[d].status # "pending"
    BY <1>9 DEF Backed
  <2>6. ~(doc[d].counted > 0)
    BY <2>5
  <2>7. /\ Cardinality(Standing(d, From[d], "OUT", Amount)) = 1
        /\ Cardinality(Standing(d, To[d], "IN", Amount)) = 1
    BY <1>5, <2>3, <2>4
  <2> QED BY <2>5, <2>6, <2>7
<1>10. CASE Kind[d] = "handover"
  <2>1. HandedOver(L, doc[d], d)
    BY <1>2, <1>10 DEF InForce
  <2>2. Open(L) = DOMAIN L
    <3>1. \A i \in DOMAIN L : i # 0 => i \in Open(L)
      BY <2>1 DEF HandedOver, Open
    <3>2. 0 \notin DOMAIN L
      BY <1>1
    <3> QED BY <3>1, <3>2 DEF Open
  <2>3. /\ 1 \in DOMAIN L /\ L[1] = Spent(d)
        /\ \A j \in DOMAIN L : j # 1 => L[j].way = "IN"
    BY <2>1 DEF HandedOver
  <2>4. Cardinality(Standing(d, From[d], "OUT", Amount)) = 1
    <3>1. Standing(d, From[d], "OUT", Amount) \subseteq {1}
      <4> SUFFICES ASSUME NEW i \in Standing(d, From[d], "OUT", Amount) PROVE i = 1
        OBVIOUS
      <4>1. i \in DOMAIN L /\ L[i].way = "OUT"
        BY <1>3, <2>2
      <4> QED BY <2>3, <4>1
    <3>2. 1 \in Standing(d, From[d], "OUT", Amount)
      BY <1>3, <1>6, <2>2, <2>3
    <3>3. Standing(d, From[d], "OUT", Amount) = {1}
      BY <3>1, <3>2
    <3> QED BY <1>5, <3>3
  <2>5. ASSUME doc[d].counted > 0 PROVE Standing(d, To[d], "IN", doc[d].counted) # {}
    <3>1. PICK j \in DOMAIN L : L[j] = Posting(To[d], "IN", doc[d].counted)
      BY <2>1, <2>5 DEF HandedOver
    <3>2. L[j].account = To[d] /\ L[j].way = "IN" /\ L[j].amount = doc[d].counted
      BY <3>1 DEF Posting
    <3>3. j \in Standing(d, To[d], "IN", doc[d].counted)
      BY <1>3, <2>2, <3>2
    <3> QED BY <3>3
  <2>6. ASSUME doc[d].status = "pending" PROVE Cardinality(Unreversed(d)) = 1
    <3>1. Unreversed(d) = {1}
      BY <1>4, <2>1, <2>2, <2>6 DEF HandedOver
    <3> QED BY <1>5, <3>1
  <2> QED BY <1>10, <2>4, <2>5, <2>6
<1>11. CASE Kind[d] = "sale"
  BY <1>11 DEF Backed
<1> QED BY <1>8, <1>9, <1>10, <1>11 DEF FinanceAssumption

LEMMA BInvHolds == Spec => []BInv
<1>1. Init => BInv
  BY FinanceAssumption, InitBInv
<1>2. BInv /\ [Next]_vars => BInv'
  BY FinanceAssumption, StepsBInv
<1> QED BY <1>1, <1>2, PTL DEF Spec

\* Transfers move money and never make or lose any, however many requests reverse one
\* at the same time: its legs are reversed in pairs (create_transfer,
\* reverse_transfer).
THEOREM TransfersNet == Spec => []TransfersMoveMoney
<1>1. BInv => TransfersMoveMoney
  BY DEF BInv, Backed, NetsToZero, TransfersMoveMoney
<1> QED BY <1>1, BInvHolds, PTL

\* A document in force is backed by its movements: the money has left its account
\* once, a transfer has both legs, and what was counted of a handover has come in,
\* however many requests confirm or reverse it (create_expense, create_transfer,
\* create_handover, confirm_handover).
THEOREM ForceIsPosted == Spec => []InForceIsPosted
<1>1. BInv => InForceIsPosted
  <2>1. ASSUME BInv PROVE \A d \in Doc : ledger[d] \in Seq(Movement) /\ Backed(ledger[d], doc[d], d)
    BY <2>1 DEF BInv, RInv, LInv, DataTypes
  <2> QED BY FinanceAssumption, BooksInForce, <2>1 DEF InForceIsPosted
<1> QED BY <1>1, BInvHolds, PTL

-----------------------------------------------------------------------------
(* The statements of the finance accounts                                  *)

\* A movement has a positive amount, an account and a time.
LEMMA BookFields ==
  ASSUME NEW Move, NEW books \in [Move -> BookEntry]
  PROVE  /\ DOMAIN books = Move
         /\ \A m \in Move : /\ books[m].amount \in Nat /\ books[m].at \in Int
                            /\ books[m].account \in LedgerAccount /\ books[m].direction \in {"IN", "OUT"}
                            /\ Amounts(books)[m] = books[m].amount
<1>1. \A x \in BookEntry : x.amount \in Nat /\ x.at \in Int /\ x.account \in LedgerAccount
                         /\ x.direction \in {"IN", "OUT"}
  BY DEF BookEntry
<1> QED BY <1>1 DEF Amounts

LEMMA AmountSum ==
  ASSUME NEW Move, IsFiniteSet(Move), NEW books \in [Move -> BookEntry], NEW S \in SUBSET Move
  PROVE  IsFiniteSet(S) /\ SumFunctionOnSet(Amounts(books), S) \in Nat
<1>1. IsFiniteSet(S)
  BY FS_Subset
<1>2. \A m \in S : Amounts(books)[m] \in Nat
  BY BookFields
<1> QED BY <1>1, <1>2, SumNat

\* The money of two sets of movements that have none in common.
Splits(U, S, T, Move) == U = S \union T /\ S \cap T = {} /\ U \in SUBSET Move

LEMMA MoneyUnion ==
  ASSUME NEW Move, IsFiniteSet(Move), NEW books \in [Move -> BookEntry],
         NEW U, NEW S, NEW T, Splits(U, S, T, Move), NEW d
  PROVE  /\ Money(books, S, d) \in Nat /\ Money(books, T, d) \in Nat
         /\ Money(books, U, d) = Money(books, S, d) + Money(books, T, d)
<1>g. PICK A, B, C : /\ A = {m \in S : books[m].direction = d}
                     /\ B = {m \in T : books[m].direction = d}
                     /\ C = {m \in U : books[m].direction = d}
  OBVIOUS
<1>1. C = A \union B /\ A \cap B = {} /\ A \in SUBSET Move /\ B \in SUBSET Move
  BY <1>g DEF Splits
<1>2. /\ IsFiniteSet(A) /\ SumFunctionOnSet(Amounts(books), A) \in Nat
      /\ IsFiniteSet(B) /\ SumFunctionOnSet(Amounts(books), B) \in Nat
  BY <1>1, AmountSum
<1>3. \A m \in A \union B : Amounts(books)[m] \in Int
  BY <1>1, BookFields
<1>4. SumFunctionOnSet(Amounts(books), C)
        = SumFunctionOnSet(Amounts(books), A) + SumFunctionOnSet(Amounts(books), B)
  BY <1>1, <1>2, <1>3, SumUnion
<1> QED BY <1>g, <1>2, <1>4 DEF Money

\* A day ends just before the next one begins.
LEMMA DayBounds ==
  ASSUME NEW from \in Int, NEW to \in Int, from <= to
  PROVE  /\ StartOf(from) \in Int /\ EndOf(to) \in Int
         /\ EndOf(to) = StartOf(to + 1) - 1 /\ StartOf(from) <= EndOf(to)
<1>1. StartOf(from) = from * 86400000000 /\ EndOf(to) = to * 86400000000 + 86399999999
  BY DEF StartOf, EndOf, DayLength
<1>2. StartOf(to + 1) = to * 86400000000 + 86400000000
  BY DEF StartOf, DayLength
<1> QED BY <1>1, <1>2

\* What was before a date is what was before an earlier one and what was between.
LEMMA UntilSplits ==
  ASSUME NEW Move, NEW books \in [Move -> BookEntry], NEW accounts,
         NEW from \in Int, NEW to \in Int, from <= to
  PROVE  /\ Until(books, accounts, to + 1) = Until(books, accounts, from) \union During(books, accounts, from, to)
         /\ Until(books, accounts, from) \cap During(books, accounts, from, to) = {}
         /\ Until(books, accounts, from) \in SUBSET Move
         /\ During(books, accounts, from, to) \in SUBSET Move
         /\ On(books, accounts) \in SUBSET Move
<1>1. PICK s, e, n : s = StartOf(from) /\ e = EndOf(to) /\ n = StartOf(to + 1)
  OBVIOUS
<1>2. s \in Int /\ e \in Int /\ e = n - 1 /\ s <= e
  BY <1>1, DayBounds
<1>3. n \in Int
  BY <1>1 DEF StartOf, DayLength
<1>4. DOMAIN books = Move /\ \A m \in Move : books[m].at \in Int
  BY BookFields
<1>5. /\ Until(books, accounts, to + 1) = {m \in On(books, accounts) : books[m].at < n}
      /\ Until(books, accounts, from) = {m \in On(books, accounts) : books[m].at < s}
      /\ During(books, accounts, from, to) = {m \in On(books, accounts) : s <= books[m].at /\ books[m].at <= e}
  BY <1>1 DEF Until, During
<1>6. On(books, accounts) \in SUBSET Move
  BY <1>4 DEF On
<1>7. \A t \in Int : (t < n <=> (t < s \/ (s <= t /\ t <= e))) /\ ~(t < s /\ s <= t)
  BY <1>2, <1>3
<1> QED BY <1>4, <1>5, <1>6, <1>7

\* The closing balance of a period is the opening balance of the next: no movement
\* falls between two days or into both (_bounds takes a day to its last microsecond,
\* _opening what is earlier than the first).
THEOREM ClosingIsNextOpening ==
  ASSUME NEW Move, IsFiniteSet(Move), NEW books \in [Move -> BookEntry],
         NEW accounts \in SUBSET LedgerAccount, IsFiniteSet(accounts), NEW opened \in [LedgerAccount -> Int],
         NEW from \in Int, NEW to \in Int, from <= to
  PROVE  DayBookRow(books, opened, accounts, from, to).closing = Opening(books, opened, accounts, to + 1)
<1>g. PICK S, T, U : /\ S = Until(books, accounts, from)
                     /\ T = During(books, accounts, from, to)
                     /\ U = Until(books, accounts, to + 1)
  OBVIOUS
<1>1. U = S \union T /\ S \cap T = {} /\ S \in SUBSET Move /\ T \in SUBSET Move
  BY <1>g, UntilSplits
<1>2. \A d : /\ Money(books, S, d) \in Nat /\ Money(books, T, d) \in Nat
             /\ Money(books, U, d) = Money(books, S, d) + Money(books, T, d)
  <2>1. Splits(U, S, T, Move)
    BY <1>1 DEF Splits
  <2> QED BY <2>1, MoneyUnion
<1>3. PICK z \in Int : z = SumFunctionOnSet(opened, accounts)
  <2>1. \A a \in accounts : opened[a] \in Int
    OBVIOUS
  <2> QED BY <2>1, SumType
<1>4. PICK i \in Int, o \in Int, pi \in Int, po \in Int :
        /\ i = Money(books, S, "IN") /\ o = Money(books, S, "OUT")
        /\ pi = Money(books, T, "IN") /\ po = Money(books, T, "OUT")
  BY <1>2
<1>5. DayBookRow(books, opened, accounts, from, to).closing = (z + i - o) + pi - po
  BY <1>g, <1>3, <1>4 DEF DayBookRow, Opening, DeriveBalance
<1>6. Opening(books, opened, accounts, to + 1) = z + (i + pi) - (o + po)
  BY <1>g, <1>2, <1>3, <1>4 DEF Opening, DeriveBalance
<1> QED BY <1>5, <1>6

\* The balance of an account is the closing balance of any period that its last
\* movement does not come after.
THEOREM BalanceIsClosing ==
  ASSUME NEW Move, IsFiniteSet(Move), NEW books \in [Move -> BookEntry],
         NEW account \in LedgerAccount, NEW opened \in [LedgerAccount -> Int],
         NEW from \in Int, NEW to \in Int, from <= to,
         \A m \in On(books, {account}) : books[m].at <= EndOf(to)
  PROVE  CurrentBalance(books, opened, account) = DayBookRow(books, opened, {account}, from, to).closing
<1>1. Until(books, {account}, to + 1) = On(books, {account})
  <2>1. PICK n \in Int : n = StartOf(to + 1) /\ EndOf(to) = n - 1
    <3>1. StartOf(to + 1) \in Int
      BY DEF StartOf, DayLength
    <3> QED BY <3>1, DayBounds
  <2>2. \A m \in Move : books[m].at \in Int
    BY BookFields
  <2>3. On(books, {account}) \in SUBSET Move
    BY UntilSplits
  <2>4. ASSUME NEW m \in On(books, {account}) PROVE books[m].at < n
    <3>1. PICK t \in Int : t = books[m].at
      BY <2>2, <2>3
    <3>2. t <= EndOf(to)
      BY <3>1
    <3> QED BY <2>1, <3>1, <3>2
  <2>5. Until(books, {account}, to + 1) = {m \in On(books, {account}) : books[m].at < n}
    BY <2>1 DEF Until
  <2> QED BY <2>4, <2>5
<1>2. SumFunctionOnSet(opened, {account}) = opened[account]
  <2>1. IsFiniteSet({account}) /\ \A a \in {account} : opened[a] \in Int
    BY FS_Singleton
  <2>2. SumFunctionOnSet(opened, {account})
          = opened[account] + SumFunctionOnSet(opened, {account} \ {account})
    BY <2>1, SumRemove
  <2>3. SumFunctionOnSet(opened, {account} \ {account}) = 0
    <3>1. {account} \ {account} = {}
      OBVIOUS
    <3> QED BY <3>1, SumEmpty
  <2> QED BY <2>2, <2>3
<1>3. DayBookRow(books, opened, {account}, from, to).closing = Opening(books, opened, {account}, to + 1)
  <2>1. {account} \in SUBSET LedgerAccount /\ IsFiniteSet({account})
    BY FS_Singleton
  <2> QED BY <2>1, ClosingIsNextOpening
<1> QED BY <1>1, <1>2, <1>3 DEF CurrentBalance, Opening

\* What a set of movements brings in beside two categories of it.
LEMMA OthersRemain ==
  ASSUME NEW Move, IsFiniteSet(Move), NEW books \in [Move -> BookEntry],
         NEW S \in SUBSET Move, NEW C, IsFiniteSet(C), NEW d
  PROVE  /\ Money(books, S, d) \in Nat
         /\ SumFunctionOnSet([c \in C |-> CategorySum(books, S, c, d)], C) <= Money(books, S, d)
<1>g. PICK A, B, key, f, g :
        /\ A = {m \in S : books[m].direction = d}
        /\ B = {m \in A : books[m].category \in C}
        /\ key = [m \in Move |-> books[m].category]
        /\ f = Amounts(books)
        /\ g = [c \in C |-> CategorySum(books, S, c, d)]
  OBVIOUS
<1>1. A \in SUBSET Move /\ B \in SUBSET Move /\ A \ B \in SUBSET Move
  BY <1>g
<1>2. /\ IsFiniteSet(B) /\ SumFunctionOnSet(f, B) \in Nat
      /\ IsFiniteSet(A \ B) /\ SumFunctionOnSet(f, A \ B) \in Nat
      /\ SumFunctionOnSet(f, A) \in Nat
  BY <1>1, <1>g, AmountSum
<1>3. SumFunctionOnSet(f, B \union (A \ B)) = SumFunctionOnSet(f, B) + SumFunctionOnSet(f, A \ B)
  <2>1. \A m \in B \union (A \ B) : f[m] \in Int
    BY <1>1, <1>g, BookFields
  <2>2. B \cap (A \ B) = {}
    OBVIOUS
  <2> QED BY <1>2, <2>1, <2>2, SumUnion
<1>4. B \union (A \ B) = A
  BY <1>g
<1>5. GroupSums(g, f, key, B, C)
  <2>1. \A m \in B : key[m] \in C /\ f[m] \in Int
    BY <1>1, <1>g, BookFields
  <2>2. ASSUME NEW c \in C
        PROVE  g[c] = SumFunctionOnSet(f, {m \in B : key[m] = c})
    <3>1. {m \in B : key[m] = c} = {m \in S : books[m].direction = d /\ books[m].category = c}
      BY <1>1, <1>g
    <3> QED BY <1>g, <3>1 DEF CategorySum
  <2> QED BY <2>1, <2>2 DEF GroupSums
<1>6. SumFunctionOnSet(f, B) = SumFunctionOnSet(g, C)
  BY <1>2, <1>5, SumByKey
<1>7. Money(books, S, d) = SumFunctionOnSet(f, A)
  BY <1>g DEF Money
<1>8. PICK x \in Nat, y \in Nat : x = SumFunctionOnSet(f, B) /\ y = SumFunctionOnSet(f, A \ B)
  BY <1>2
<1>9. SumFunctionOnSet(f, A) = x + y
  BY <1>3, <1>4, <1>8
<1> QED BY <1>g, <1>6, <1>7, <1>8, <1>9

LEMMA PairSum ==
  ASSUME NEW a, NEW b, a # b, NEW f, f[a] \in Int, f[b] \in Int
  PROVE  IsFiniteSet({a, b}) /\ SumFunctionOnSet(f, {a, b}) = f[a] + f[b]
<1>1. IsFiniteSet({a}) /\ IsFiniteSet({a} \union {b}) /\ {a} \union {b} = {a, b}
  BY FS_Singleton, FS_AddElement
<1>2. {a, b} \ {a} = {b} /\ {b} \ {b} = {}
  OBVIOUS
<1>3. SumFunctionOnSet(f, {a, b}) = f[a] + SumFunctionOnSet(f, {b})
  BY <1>1, <1>2, SumRemove
<1>4. SumFunctionOnSet(f, {b}) = f[b] + SumFunctionOnSet(f, {})
  BY <1>2, FS_Singleton, SumRemove
<1>5. SumFunctionOnSet(f, {}) = 0
  BY SumEmpty
<1>6. PICK x \in Int, y \in Int : x = f[a] /\ y = f[b]
  OBVIOUS
<1>7. SumFunctionOnSet(f, {b}) = y
  BY <1>4, <1>5, <1>6
<1> QED BY <1>1, <1>3, <1>6, <1>7

\* What the day book shows as other money is never negative: no movement is in two of
\* its columns (_day_book_row subtracts the named categories from all that came in or
\* went out).
THEOREM OtherMoneyIsLeft ==
  ASSUME NEW Move, IsFiniteSet(Move), NEW books \in [Move -> BookEntry],
         NEW accounts \in SUBSET LedgerAccount, NEW opened, NEW from \in Int, NEW to \in Int, from <= to
  PROVE  /\ DayBookRow(books, opened, accounts, from, to).otherIn \in Nat
         /\ DayBookRow(books, opened, accounts, from, to).otherOut \in Nat
<1>g. PICK S, ins, outs :
        /\ S = During(books, accounts, from, to)
        /\ ins = [c \in {"sale_payment", "transfer"} |-> CategorySum(books, S, c, "IN")]
        /\ outs = [c \in {"expense"} \union {"handover", "transfer"} |-> CategorySum(books, S, c, "OUT")]
  OBVIOUS
<1>1. S \in SUBSET Move
  BY <1>g, UntilSplits
<1>2. \A c, d : CategorySum(books, S, c, d) \in Nat
  <2> TAKE c, d
  <2>1. {m \in S : books[m].direction = d /\ books[m].category = c} \in SUBSET Move
    BY <1>1
  <2> QED BY <2>1, AmountSum DEF CategorySum
<1>3. PICK sale \in Nat, moved \in Nat, spent \in Nat, handed \in Nat, sent \in Nat :
        /\ sale = CategorySum(books, S, "sale_payment", "IN")
        /\ moved = CategorySum(books, S, "transfer", "IN")
        /\ spent = CategorySum(books, S, "expense", "OUT")
        /\ handed = CategorySum(books, S, "handover", "OUT")
        /\ sent = CategorySum(books, S, "transfer", "OUT")
  BY <1>2
<1>4. IsFiniteSet({"sale_payment", "transfer"})
      /\ SumFunctionOnSet(ins, {"sale_payment", "transfer"}) = sale + moved
  <2>g. PICK a, b : a = "sale_payment" /\ b = "transfer"
    OBVIOUS
  <2>1. ins[a] = sale /\ ins[b] = moved
    BY <1>g, <1>3, <2>g
  <2>2. a # b
    BY <2>g
  <2>3. ins[a] \in Int /\ ins[b] \in Int
    BY <2>1
  <2>4. IsFiniteSet({a, b}) /\ SumFunctionOnSet(ins, {a, b}) = ins[a] + ins[b]
    BY <2>2, <2>3, PairSum, Zenon
  <2> QED BY <2>g, <2>1, <2>4
<1>5. /\ IsFiniteSet({"expense"} \union {"handover", "transfer"})
      /\ SumFunctionOnSet(outs, {"expense"} \union {"handover", "transfer"}) = spent + (handed + sent)
  <2>1. outs["expense"] = spent /\ outs["handover"] = handed /\ outs["transfer"] = sent
    BY <1>g, <1>3
  <2>2. /\ IsFiniteSet({"handover", "transfer"})
        /\ SumFunctionOnSet(outs, {"handover", "transfer"}) = handed + sent
    <3>g. PICK a, b : a = "handover" /\ b = "transfer"
      OBVIOUS
    <3>1. outs[a] = handed /\ outs[b] = sent
      BY <2>1, <3>g
    <3>2. a # b
      BY <3>g
    <3>3. outs[a] \in Int /\ outs[b] \in Int
      BY <3>1
    <3>4. IsFiniteSet({a, b}) /\ SumFunctionOnSet(outs, {a, b}) = outs[a] + outs[b]
      BY <3>2, <3>3, PairSum, Zenon
    <3> QED BY <3>g, <3>1, <3>4
  <2>3. PICK T : T = {"expense"} \union {"handover", "transfer"}
    OBVIOUS
  <2>4. IsFiniteSet(T)
    BY <2>2, <2>3, FS_AddElement
  <2>5. "expense" \in T /\ T \ {"expense"} = {"handover", "transfer"}
    BY <2>3
  <2>6. \A c \in T : outs[c] \in Int
    BY <2>1, <2>3
  <2>7. SumFunctionOnSet(outs, T) = outs["expense"] + SumFunctionOnSet(outs, T \ {"expense"})
    BY <2>4, <2>5, <2>6, SumRemove
  <2> QED BY <2>1, <2>2, <2>3, <2>4, <2>5, <2>7
<1>6. PICK in \in Nat, out \in Nat : in = Money(books, S, "IN") /\ out = Money(books, S, "OUT")
  BY <1>1, <1>4, OthersRemain
<1>7. SumFunctionOnSet(ins, {"sale_payment", "transfer"}) <= in
  BY <1>1, <1>4, <1>6, <1>g, OthersRemain
<1>8. SumFunctionOnSet(outs, {"expense"} \union {"handover", "transfer"}) <= out
  BY <1>1, <1>5, <1>6, <1>g, OthersRemain
<1>9. /\ DayBookRow(books, opened, accounts, from, to).otherIn = in - sale - moved
      /\ DayBookRow(books, opened, accounts, from, to).otherOut = out - spent - handed - sent
  BY <1>g, <1>3, <1>6 DEF DayBookRow
<1> QED BY <1>4, <1>5, <1>7, <1>8, <1>9

LEMMA SumMinus ==
  ASSUME NEW S, IsFiniteSet(S), NEW f, NEW g, NEW h,
         \A x \in S : f[x] \in Int /\ g[x] \in Int /\ h[x] = f[x] - g[x]
  PROVE  /\ SumFunctionOnSet(f, S) \in Int /\ SumFunctionOnSet(g, S) \in Int
         /\ SumFunctionOnSet(h, S) = SumFunctionOnSet(f, S) - SumFunctionOnSet(g, S)
<1>1. \A x \in S : h[x] \in Int /\ g[x] \in Int /\ f[x] = h[x] + g[x]
  OBVIOUS
<1>2. SumFunctionOnSet(f, S) = SumFunctionOnSet(h, S) + SumFunctionOnSet(g, S)
  BY <1>1, SumPlus
<1>3. SumFunctionOnSet(h, S) \in Int /\ SumFunctionOnSet(g, S) \in Int
  BY <1>1, SumType
<1> QED BY <1>2, <1>3

\* The movements selected, branch by branch; g is what each branch has of them.
BranchSums(g, books, accounts, branchOf, Selected, K) ==
  /\ \A a \in accounts : branchOf[a] \in K
  /\ \A m \in Selected : m \in DOMAIN books /\ books[m].account \in accounts
  /\ \A b \in K : g[b] = SumFunctionOnSet(Amounts(books),
                         {m \in Selected : books[m].account \in OfBranch(accounts, branchOf, b)})

LEMMA ByBranch ==
  ASSUME NEW Move, IsFiniteSet(Move), NEW books \in [Move -> BookEntry], NEW accounts, NEW branchOf,
         NEW K, IsFiniteSet(K), NEW Selected, NEW g,
         BranchSums(g, books, accounts, branchOf, Selected, K)
  PROVE  /\ SumFunctionOnSet(g, K) = SumFunctionOnSet(Amounts(books), Selected)
         /\ \A b \in K : g[b] \in Int
<1>1. /\ \A a \in accounts : branchOf[a] \in K
      /\ Selected \in SUBSET Move
      /\ \A m \in Selected : books[m].account \in accounts
      /\ \A b \in K : g[b] = SumFunctionOnSet(Amounts(books),
                             {m \in Selected : books[m].account \in OfBranch(accounts, branchOf, b)})
  BY BookFields DEF BranchSums
<1>g. PICK f, key : f = Amounts(books) /\ key = [m \in Move |-> branchOf[books[m].account]]
  OBVIOUS
<1>2. \A m \in Selected : key[m] \in K /\ f[m] \in Int
  BY <1>1, <1>g, BookFields
<1>3. ASSUME NEW b \in K
      PROVE  /\ g[b] = SumFunctionOnSet(f, {m \in Selected : key[m] = b})
             /\ g[b] \in Int
  <2>1. {m \in Selected : key[m] = b}
          = {m \in Selected : books[m].account \in OfBranch(accounts, branchOf, b)}
    BY <1>1, <1>g DEF OfBranch
  <2>2. {m \in Selected : key[m] = b} \in SUBSET Move
    BY <1>1
  <2>3. SumFunctionOnSet(f, {m \in Selected : key[m] = b}) \in Nat
    BY <1>g, <2>2, AmountSum
  <2>4. g[b] = SumFunctionOnSet(f, {m \in Selected : key[m] = b})
    BY <1>1, <1>g, <2>1
  <2> QED BY <2>3, <2>4
<1>4. GroupSums(g, f, key, Selected, K)
  BY <1>2, <1>3 DEF GroupSums
<1>5. IsFiniteSet(Selected)
  BY <1>1, AmountSum
<1>6. SumFunctionOnSet(f, Selected) = SumFunctionOnSet(g, K)
  BY <1>4, <1>5, SumByKey
<1> QED BY <1>g, <1>3, <1>6

\* What the rows of the branches are to the row of all of them, for one selection.
Adds(g, total, K) == SumFunctionOnSet(g, K) = total /\ \A b \in K : g[b] \in Int

LEMMA CategoryColumn ==
  ASSUME NEW Move, IsFiniteSet(Move), NEW books \in [Move -> BookEntry], NEW accounts, NEW branchOf,
         NEW K, IsFiniteSet(K), \A a \in accounts : branchOf[a] \in K,
         NEW from, NEW to, NEW c, NEW d
  PROVE  Adds([b \in K |-> CategorySum(books,
                                During(books, OfBranch(accounts, branchOf, b), from, to), c, d)],
                CategorySum(books, During(books, accounts, from, to), c, d), K)
<1>g. PICK S, g :
        /\ S = {m \in During(books, accounts, from, to) :
                  books[m].direction = d /\ books[m].category = c}
        /\ g = [b \in K |-> CategorySum(books,
                            During(books, OfBranch(accounts, branchOf, b), from, to), c, d)]
  OBVIOUS
<1>1. \A m \in S : m \in DOMAIN books /\ books[m].account \in accounts
  BY <1>g DEF During, On
<1>2. ASSUME NEW b \in K
      PROVE  g[b] = SumFunctionOnSet(Amounts(books),
                      {m \in S : books[m].account \in OfBranch(accounts, branchOf, b)})
  <2>1. {m \in During(books, OfBranch(accounts, branchOf, b), from, to) :
           books[m].direction = d /\ books[m].category = c}
          = {m \in S : books[m].account \in OfBranch(accounts, branchOf, b)}
    BY <1>g DEF During, On, OfBranch
  <2> QED BY <1>g, <2>1 DEF CategorySum
<1>3. BranchSums(g, books, accounts, branchOf, S, K)
  BY <1>1, <1>2 DEF BranchSums
<1>4. SumFunctionOnSet(g, K) = SumFunctionOnSet(Amounts(books), S) /\ \A b \in K : g[b] \in Int
  BY <1>3, ByBranch
<1> QED BY <1>g, <1>4 DEF Adds, CategorySum

LEMMA PeriodColumn ==
  ASSUME NEW Move, IsFiniteSet(Move), NEW books \in [Move -> BookEntry], NEW accounts, NEW branchOf,
         NEW K, IsFiniteSet(K), \A a \in accounts : branchOf[a] \in K,
         NEW from, NEW to, NEW d
  PROVE  Adds([b \in K |-> Money(books, During(books, OfBranch(accounts, branchOf, b), from, to), d)],
                Money(books, During(books, accounts, from, to), d), K)
<1>g. PICK S, g :
        /\ S = {m \in During(books, accounts, from, to) : books[m].direction = d}
        /\ g = [b \in K |-> Money(books, During(books, OfBranch(accounts, branchOf, b), from, to), d)]
  OBVIOUS
<1>1. \A m \in S : m \in DOMAIN books /\ books[m].account \in accounts
  BY <1>g DEF During, On
<1>2. ASSUME NEW b \in K
      PROVE  g[b] = SumFunctionOnSet(Amounts(books),
                      {m \in S : books[m].account \in OfBranch(accounts, branchOf, b)})
  <2>1. {m \in During(books, OfBranch(accounts, branchOf, b), from, to) : books[m].direction = d}
          = {m \in S : books[m].account \in OfBranch(accounts, branchOf, b)}
    BY <1>g DEF During, On, OfBranch
  <2> QED BY <1>g, <2>1 DEF Money
<1>3. BranchSums(g, books, accounts, branchOf, S, K)
  BY <1>1, <1>2 DEF BranchSums
<1>4. SumFunctionOnSet(g, K) = SumFunctionOnSet(Amounts(books), S) /\ \A b \in K : g[b] \in Int
  BY <1>3, ByBranch
<1> QED BY <1>g, <1>4 DEF Adds, Money

LEMMA UntilColumn ==
  ASSUME NEW Move, IsFiniteSet(Move), NEW books \in [Move -> BookEntry], NEW accounts, NEW branchOf,
         NEW K, IsFiniteSet(K), \A a \in accounts : branchOf[a] \in K, NEW date, NEW d
  PROVE  Adds([b \in K |-> Money(books, Until(books, OfBranch(accounts, branchOf, b), date), d)],
                Money(books, Until(books, accounts, date), d), K)
<1>g. PICK S, g :
        /\ S = {m \in Until(books, accounts, date) : books[m].direction = d}
        /\ g = [b \in K |-> Money(books, Until(books, OfBranch(accounts, branchOf, b), date), d)]
  OBVIOUS
<1>1. \A m \in S : m \in DOMAIN books /\ books[m].account \in accounts
  BY <1>g DEF Until, On
<1>2. ASSUME NEW b \in K
      PROVE  g[b] = SumFunctionOnSet(Amounts(books),
                      {m \in S : books[m].account \in OfBranch(accounts, branchOf, b)})
  <2>1. {m \in Until(books, OfBranch(accounts, branchOf, b), date) : books[m].direction = d}
          = {m \in S : books[m].account \in OfBranch(accounts, branchOf, b)}
    BY <1>g DEF Until, On, OfBranch
  <2> QED BY <1>g, <2>1 DEF Money
<1>3. BranchSums(g, books, accounts, branchOf, S, K)
  BY <1>1, <1>2 DEF BranchSums
<1>4. SumFunctionOnSet(g, K) = SumFunctionOnSet(Amounts(books), S) /\ \A b \in K : g[b] \in Int
  BY <1>3, ByBranch
<1> QED BY <1>g, <1>4 DEF Adds, Money

LEMMA ColumnTotal ==
  ASSUME NEW K, IsFiniteSet(K), NEW f, NEW x, Adds(f, x, K)
  PROVE  x \in Int
BY SumType DEF Adds

LEMMA ColumnMinus ==
  ASSUME NEW K, IsFiniteSet(K), NEW f, NEW g, NEW h, NEW x, NEW y,
         Adds(f, x, K), Adds(g, y, K), \A b \in K : h[b] = f[b] - g[b]
  PROVE  Adds(h, x - y, K)
<1>1. \A b \in K : f[b] \in Int /\ g[b] \in Int /\ h[b] = f[b] - g[b] /\ h[b] \in Int
  BY DEF Adds
<1>2. SumFunctionOnSet(h, K) = SumFunctionOnSet(f, K) - SumFunctionOnSet(g, K)
  BY <1>1, SumMinus
<1> QED BY <1>1, <1>2 DEF Adds

LEMMA ColumnPlus ==
  ASSUME NEW K, IsFiniteSet(K), NEW f, NEW g, NEW h, NEW x, NEW y,
         Adds(f, x, K), Adds(g, y, K), \A b \in K : h[b] = f[b] + g[b]
  PROVE  Adds(h, x + y, K)
<1>1. \A b \in K : f[b] \in Int /\ g[b] \in Int /\ h[b] = f[b] + g[b] /\ h[b] \in Int
  BY DEF Adds
<1>2. SumFunctionOnSet(h, K) = SumFunctionOnSet(f, K) + SumFunctionOnSet(g, K)
  BY <1>1, SumPlus
<1> QED BY <1>1, <1>2 DEF Adds

LEMMA OpenedColumn ==
  ASSUME NEW accounts \in SUBSET LedgerAccount, IsFiniteSet(accounts), NEW opened \in [LedgerAccount -> Int],
         NEW branchOf, NEW K, IsFiniteSet(K), \A a \in accounts : branchOf[a] \in K
  PROVE  Adds([b \in K |-> SumFunctionOnSet(opened, OfBranch(accounts, branchOf, b))],
                SumFunctionOnSet(opened, accounts), K)
<1>g. PICK g, key, A : /\ g = [b \in K |-> SumFunctionOnSet(opened, OfBranch(accounts, branchOf, b))]
                       /\ key = branchOf /\ A = accounts
  OBVIOUS
<1>1. \A a \in A : opened[a] \in Int /\ key[a] \in K
  BY <1>g
<1>2. ASSUME NEW b \in K
      PROVE  g[b] = SumFunctionOnSet(opened, {a \in A : key[a] = b}) /\ g[b] \in Int
  <2>1. OfBranch(accounts, branchOf, b) = {a \in A : key[a] = b}
    BY <1>g DEF OfBranch
  <2>2. IsFiniteSet({a \in A : key[a] = b})
    BY <1>g, FS_Subset
  <2>3. SumFunctionOnSet(opened, {a \in A : key[a] = b}) \in Int
    BY <1>1, <2>2, SumType
  <2> QED BY <1>g, <2>1, <2>3
<1>3. GroupSums(g, opened, key, A, K)
  BY <1>1, <1>2 DEF GroupSums
<1>4. SumFunctionOnSet(opened, A) = SumFunctionOnSet(g, K)
  BY <1>3, <1>g, SumByKey
<1> QED BY <1>2, <1>4, <1>g DEF Adds

\* The rows of the branches add up to the row of all of them, column by column
\* (day_book computes the last row from all accounts, not from the other rows).
THEOREM BranchesAddUp ==
  ASSUME NEW Move, IsFiniteSet(Move), NEW books \in [Move -> BookEntry],
         NEW accounts \in SUBSET LedgerAccount, IsFiniteSet(accounts), NEW opened \in [LedgerAccount -> Int],
         NEW branchOf \in [LedgerAccount -> Branch], NEW from \in Int, NEW to \in Int, from <= to
  PROVE  LET book == DayBook(books, opened, accounts, branchOf, from, to)
         IN  \A column \in DOMAIN book.totals :
               SumFunctionOnSet([b \in DOMAIN book.rows |-> book.rows[b][column]], DOMAIN book.rows)
                 = book.totals[column]
<1>k. PICK K : K = {branchOf[a] : a \in accounts}
  OBVIOUS
<1>1. IsFiniteSet(K) /\ \A a \in accounts : branchOf[a] \in K
  BY <1>k, ImageFinite
<1>2. \A c, d : Adds([b \in K |-> CategorySum(books,
                           During(books, OfBranch(accounts, branchOf, b), from, to), c, d)],
                       CategorySum(books, During(books, accounts, from, to), c, d), K)
  <2> TAKE c, d
  <2> QED BY <1>1, CategoryColumn
<1>g. PICK opened0, before, after, in, out, sale, spent, handed, moved, sent :
        /\ opened0 = [b \in K |-> SumFunctionOnSet(opened, OfBranch(accounts, branchOf, b))]
        /\ before = [b \in K |-> Money(books, Until(books, OfBranch(accounts, branchOf, b), from), "IN")]
        /\ after = [b \in K |-> Money(books, Until(books, OfBranch(accounts, branchOf, b), from), "OUT")]
        /\ in = [b \in K |-> Money(books, During(books, OfBranch(accounts, branchOf, b), from, to), "IN")]
        /\ out = [b \in K |-> Money(books, During(books, OfBranch(accounts, branchOf, b), from, to), "OUT")]
        /\ sale = [b \in K |-> CategorySum(books, During(books, OfBranch(accounts, branchOf, b), from, to),
                                           "sale_payment", "IN")]
        /\ spent = [b \in K |-> CategorySum(books, During(books, OfBranch(accounts, branchOf, b), from, to),
                                            "expense", "OUT")]
        /\ handed = [b \in K |-> CategorySum(books, During(books, OfBranch(accounts, branchOf, b), from, to),
                                             "handover", "OUT")]
        /\ moved = [b \in K |-> CategorySum(books, During(books, OfBranch(accounts, branchOf, b), from, to),
                                            "transfer", "IN")]
        /\ sent = [b \in K |-> CategorySum(books, During(books, OfBranch(accounts, branchOf, b), from, to),
                                           "transfer", "OUT")]
  OBVIOUS
<1>t. PICK o, bi, bo, i, u, s, e, h, m, t :
        /\ o = SumFunctionOnSet(opened, accounts)
        /\ bi = Money(books, Until(books, accounts, from), "IN")
        /\ bo = Money(books, Until(books, accounts, from), "OUT")
        /\ i = Money(books, During(books, accounts, from, to), "IN")
        /\ u = Money(books, During(books, accounts, from, to), "OUT")
        /\ s = CategorySum(books, During(books, accounts, from, to), "sale_payment", "IN")
        /\ e = CategorySum(books, During(books, accounts, from, to), "expense", "OUT")
        /\ h = CategorySum(books, During(books, accounts, from, to), "handover", "OUT")
        /\ m = CategorySum(books, During(books, accounts, from, to), "transfer", "IN")
        /\ t = CategorySum(books, During(books, accounts, from, to), "transfer", "OUT")
  OBVIOUS
<1>3. Adds(opened0, o, K)
  BY <1>1, <1>g, <1>t, OpenedColumn
<1>4. Adds(before, bi, K) /\ Adds(after, bo, K)
  BY <1>1, <1>g, <1>t, UntilColumn
<1>5. Adds(in, i, K) /\ Adds(out, u, K)
  BY <1>1, <1>g, <1>t, PeriodColumn
<1>6. Adds(sale, s, K) /\ Adds(spent, e, K) /\ Adds(handed, h, K)
      /\ Adds(moved, m, K) /\ Adds(sent, t, K)
  BY <1>2, <1>g, <1>t
<1>r. PICK row : row = [b \in K |-> DayBookRow(books, opened, OfBranch(accounts, branchOf, b), from, to)]
  OBVIOUS
<1>7. \A b \in K : /\ row[b].opening = opened0[b] + before[b] - after[b]
                   /\ row[b].moneyIn = sale[b] /\ row[b].expenses = spent[b]
                   /\ row[b].handovers = handed[b] /\ row[b].transfersIn = moved[b]
                   /\ row[b].transfersOut = sent[b]
                   /\ row[b].otherIn = in[b] - sale[b] - moved[b]
                   /\ row[b].otherOut = out[b] - spent[b] - handed[b] - sent[b]
                   /\ row[b].closing = (opened0[b] + before[b] - after[b]) + in[b] - out[b]
  BY <1>g, <1>r DEF DayBookRow, Opening, DeriveBalance
<1>f. PICK open1, open, oi1, oi, oo1, oo2, oo, cl1, cl :
        /\ open1 = [b \in K |-> opened0[b] + before[b]]
        /\ open = [b \in K |-> row[b].opening]
        /\ oi1 = [b \in K |-> in[b] - sale[b]]
        /\ oi = [b \in K |-> row[b].otherIn]
        /\ oo1 = [b \in K |-> out[b] - spent[b]]
        /\ oo2 = [b \in K |-> oo1[b] - handed[b]]
        /\ oo = [b \in K |-> row[b].otherOut]
        /\ cl1 = [b \in K |-> open[b] + in[b]]
        /\ cl = [b \in K |-> row[b].closing]
  OBVIOUS
<1>8. /\ \A b \in K : open1[b] = opened0[b] + before[b]
      /\ \A b \in K : open[b] = open1[b] - after[b]
      /\ \A b \in K : oi1[b] = in[b] - sale[b]
      /\ \A b \in K : oi[b] = oi1[b] - moved[b]
      /\ \A b \in K : oo1[b] = out[b] - spent[b]
      /\ \A b \in K : oo2[b] = oo1[b] - handed[b]
      /\ \A b \in K : oo[b] = oo2[b] - sent[b]
      /\ \A b \in K : cl1[b] = open[b] + in[b]
      /\ \A b \in K : cl[b] = cl1[b] - out[b]
  <2>1. ASSUME NEW b \in K
        PROVE  /\ open1[b] = opened0[b] + before[b] /\ open[b] = row[b].opening
               /\ oi1[b] = in[b] - sale[b] /\ oi[b] = row[b].otherIn
               /\ oo1[b] = out[b] - spent[b] /\ oo2[b] = oo1[b] - handed[b] /\ oo[b] = row[b].otherOut
               /\ cl1[b] = open[b] + in[b] /\ cl[b] = row[b].closing
    BY <1>f
  <2>2. ASSUME NEW b \in K
        PROVE  /\ open[b] = open1[b] - after[b] /\ oi[b] = oi1[b] - moved[b]
               /\ oo[b] = oo2[b] - sent[b] /\ cl[b] = cl1[b] - out[b]
    <3>1. /\ opened0[b] \in Int /\ before[b] \in Int /\ after[b] \in Int
          /\ in[b] \in Int /\ out[b] \in Int /\ sale[b] \in Int /\ spent[b] \in Int
          /\ handed[b] \in Int /\ moved[b] \in Int /\ sent[b] \in Int
      BY <1>3, <1>4, <1>5, <1>6 DEF Adds
    <3> QED BY <1>7, <2>1, <3>1
  <2> QED BY <2>1, <2>2
<1>9. Adds(open1, o + bi, K) /\ Adds(open, (o + bi) - bo, K)
  <2>1. Adds(open1, o + bi, K)
    BY <1>1, <1>3, <1>4, <1>8, ColumnPlus
  <2> QED BY <1>1, <1>4, <1>8, <2>1, ColumnMinus
<1>10. Adds(oi, (i - s) - m, K)
  <2>1. Adds(oi1, i - s, K)
    BY <1>1, <1>5, <1>6, <1>8, ColumnMinus
  <2> QED BY <1>1, <1>6, <1>8, <2>1, ColumnMinus
<1>11. Adds(oo, ((u - e) - h) - t, K)
  <2>1. Adds(oo1, u - e, K)
    BY <1>1, <1>5, <1>6, <1>8, ColumnMinus
  <2>2. Adds(oo2, (u - e) - h, K)
    BY <1>1, <1>6, <1>8, <2>1, ColumnMinus
  <2> QED BY <1>1, <1>6, <1>8, <2>2, ColumnMinus
<1>12. Adds(cl, (((o + bi) - bo) + i) - u, K)
  <2>1. Adds(cl1, ((o + bi) - bo) + i, K)
    BY <1>1, <1>5, <1>8, <1>9, ColumnPlus
  <2> QED BY <1>1, <1>5, <1>8, <2>1, ColumnMinus
<1>d. PICK totals : totals = DayBookRow(books, opened, accounts, from, to)
  OBVIOUS
<1>13. /\ DOMAIN totals = {"opening", "moneyIn", "expenses", "handovers", "transfersIn",
                           "transfersOut", "otherIn", "otherOut", "closing"}
       /\ totals.opening = (o + bi) - bo /\ totals.moneyIn = s /\ totals.expenses = e
       /\ totals.handovers = h /\ totals.transfersIn = m /\ totals.transfersOut = t
       /\ totals.otherIn = (i - s) - m /\ totals.otherOut = ((u - e) - h) - t
       /\ totals.closing = (((o + bi) - bo) + i) - u
  <2>0. /\ o \in Int /\ bi \in Int /\ bo \in Int /\ i \in Int /\ u \in Int /\ s \in Int
        /\ e \in Int /\ h \in Int /\ m \in Int /\ t \in Int
    BY <1>1, <1>3, <1>4, <1>5, <1>6, ColumnTotal
  <2>1. Opening(books, opened, accounts, from) = (o + bi) - bo
    BY <1>t, <2>0 DEF Opening, DeriveBalance
  <2>2. totals = [opening |-> (o + bi) - bo, moneyIn |-> s, expenses |-> e, handovers |-> h,
                  transfersIn |-> m, transfersOut |-> t, otherIn |-> (i - s) - m,
                  otherOut |-> ((u - e) - h) - t, closing |-> (((o + bi) - bo) + i) - u]
    BY <1>t, <1>d, <2>0, <2>1 DEF DayBookRow, DeriveBalance
  <2> QED BY <2>2
<1>14. \A column \in DOMAIN totals :
         SumFunctionOnSet([b \in K |-> row[b][column]], K) = totals[column]
  <2>1. /\ sale = [b \in K |-> row[b].moneyIn] /\ spent = [b \in K |-> row[b].expenses]
        /\ handed = [b \in K |-> row[b].handovers] /\ moved = [b \in K |-> row[b].transfersIn]
        /\ sent = [b \in K |-> row[b].transfersOut]
    BY <1>7, <1>g
  <2>2. SumFunctionOnSet([b \in K |-> row[b].opening], K) = totals.opening
    BY <1>9, <1>13, <1>f DEF Adds
  <2>3. SumFunctionOnSet([b \in K |-> row[b].otherIn], K) = totals.otherIn
    BY <1>10, <1>13, <1>f DEF Adds
  <2>4. SumFunctionOnSet([b \in K |-> row[b].otherOut], K) = totals.otherOut
    BY <1>11, <1>13, <1>f DEF Adds
  <2>5. SumFunctionOnSet([b \in K |-> row[b].closing], K) = totals.closing
    BY <1>12, <1>13, <1>f DEF Adds
  <2>6. SumFunctionOnSet([b \in K |-> row[b].moneyIn], K) = totals.moneyIn
    BY <1>6, <1>13, <2>1 DEF Adds
  <2>7. SumFunctionOnSet([b \in K |-> row[b].expenses], K) = totals.expenses
    BY <1>6, <1>13, <2>1 DEF Adds
  <2>8. SumFunctionOnSet([b \in K |-> row[b].handovers], K) = totals.handovers
    BY <1>6, <1>13, <2>1 DEF Adds
  <2>9. SumFunctionOnSet([b \in K |-> row[b].transfersIn], K) = totals.transfersIn
    BY <1>6, <1>13, <2>1 DEF Adds
  <2>10. SumFunctionOnSet([b \in K |-> row[b].transfersOut], K) = totals.transfersOut
    BY <1>6, <1>13, <2>1 DEF Adds
  <2> QED BY <1>13, <2>2, <2>3, <2>4, <2>5, <2>6, <2>7, <2>8, <2>9, <2>10
<1>15. /\ DayBook(books, opened, accounts, branchOf, from, to).rows = row
       /\ DayBook(books, opened, accounts, branchOf, from, to).totals = totals
  BY <1>k, <1>r, <1>d DEF DayBook
<1>16. DOMAIN row = K
  BY <1>r
<1> QED BY <1>14, <1>15, <1>16

\* The money in on the dashboard is that of its breakdown by account.
THEOREM BreakdownAddsUp ==
  ASSUME NEW Move, IsFiniteSet(Move), NEW books \in [Move -> BookEntry],
         NEW accounts \in SUBSET LedgerAccount, IsFiniteSet(accounts), NEW from \in Int, NEW to \in Int
  PROVE  LET shown == Dashboard(books, accounts, from, to)
         IN  SumFunctionOnSet(shown.breakdown, accounts) = shown.moneyIn
<1>g. PICK own, g, total :
        /\ own = [a \in LedgerAccount |-> a]
        /\ g = [a \in accounts |-> CategorySum(books,
                 During(books, OfBranch(accounts, own, a), from, to), "sale_payment", "IN")]
        /\ total = CategorySum(books, During(books, accounts, from, to), "sale_payment", "IN")
  OBVIOUS
<1>1. \A a \in accounts : own[a] \in accounts
  BY <1>g
<1>2. Adds(g, total, accounts)
  BY <1>1, <1>g, CategoryColumn
<1>3. \A a \in accounts : OfBranch(accounts, own, a) = {a}
  BY <1>g DEF OfBranch
<1>4. g = [a \in accounts |-> MoneyInByAccount(books, a, from, to)]
  BY <1>3, <1>g DEF MoneyInByAccount
<1> QED BY <1>2, <1>4, <1>g DEF Adds, Dashboard

\* What a movement does to a balance, over a set of movements.
LEMMA SignedSum ==
  ASSUME NEW Move, IsFiniteSet(Move), NEW books \in [Move -> BookEntry], NEW S \in SUBSET Move,
         NEW f, \A m \in S : f[m] = SignedAmount(books[m])
  PROVE  SumFunctionOnSet(f, S) = Money(books, S, "IN") - Money(books, S, "OUT")
<1>g. PICK A, B, amount, zero :
        /\ A = {m \in S : books[m].direction = "IN"}
        /\ B = {m \in S : books[m].direction = "OUT"}
        /\ amount = Amounts(books) /\ zero = [m \in Move |-> 0]
  OBVIOUS
<1>1. A \in SUBSET Move /\ B \in SUBSET Move
  BY <1>g
<1>2. S = A \union B /\ A \cap B = {}
  <2>1. \A m \in S : books[m].direction = "IN" \/ books[m].direction = "OUT"
    BY BookFields
  <2> QED BY <1>g, <2>1
<1>3. /\ IsFiniteSet(A) /\ SumFunctionOnSet(amount, A) \in Nat
      /\ IsFiniteSet(B) /\ SumFunctionOnSet(amount, B) \in Nat
  BY <1>1, <1>g, AmountSum
<1>4. \A m \in A : f[m] = amount[m] /\ amount[m] \in Nat
  BY <1>g, BookFields DEF SignedAmount
<1>5. \A m \in B : f[m] = -amount[m] /\ amount[m] \in Nat /\ zero[m] = 0
  <2>1. "OUT" # "IN"
    OBVIOUS
  <2> QED BY <1>1, <1>g, <2>1, BookFields DEF SignedAmount
<1>6. SumFunctionOnSet(f, A) = SumFunctionOnSet(amount, A)
  BY <1>3, <1>4, SumEqual
<1>7. SumFunctionOnSet(f, B) = -SumFunctionOnSet(amount, B)
  <2>1. \A m \in B : f[m] \in Int /\ amount[m] \in Int /\ zero[m] = f[m] + amount[m]
    BY <1>5
  <2>2. SumFunctionOnSet(zero, B) = SumFunctionOnSet(f, B) + SumFunctionOnSet(amount, B)
    BY <1>3, <2>1, SumPlus
  <2>3. SumFunctionOnSet(zero, B) = 0
    BY <1>3, <1>5, SumZero
  <2>4. SumFunctionOnSet(f, B) \in Int
    BY <1>3, <2>1, SumType
  <2> QED BY <1>3, <2>2, <2>3, <2>4
<1>8. SumFunctionOnSet(f, A \union B) = SumFunctionOnSet(f, A) + SumFunctionOnSet(f, B)
  <2>1. \A m \in A \union B : f[m] \in Int
    BY <1>4, <1>5
  <2> QED BY <1>2, <1>3, <2>1, SumUnion
<1>9. Money(books, S, "IN") = SumFunctionOnSet(amount, A) /\ Money(books, S, "OUT") = SumFunctionOnSet(amount, B)
  BY <1>g DEF Money
<1> QED BY <1>2, <1>3, <1>6, <1>7, <1>8, <1>9

\* A statement closes on the closing balance of the day book, in whichever order it
\* lists the movements of one instant.
THEOREM StatementCloses ==
  ASSUME NEW Move, IsFiniteSet(Move), NEW books \in [Move -> BookEntry],
         NEW account \in LedgerAccount, NEW opened \in [LedgerAccount -> Int],
         NEW from \in Int, NEW to \in Int, from <= to,
         NEW list \in Listings(books, During(books, {account}, from, to))
  PROVE  ClosingBalance(books, opened, account, from, list)
           = DayBookRow(books, opened, {account}, from, to).closing
<1>n. PICK size \in Nat : size = Len(list)
  <2>1. list \in Seq(During(books, {account}, from, to))
    BY DEF Listings
  <2> QED BY <2>1, LenProperties
<1>g. PICK S, f, g, at :
        /\ S = During(books, {account}, from, to)
        /\ f = [m \in S |-> SignedAmount(books[m])]
        /\ g = [k \in 1..size |-> SignedAmount(books[list[k]])]
        /\ at = [m \in S |-> CHOOSE k \in 1..size : list[k] = m]
  OBVIOUS
<1>1. S \in SUBSET Move /\ IsFiniteSet(S)
  <2>1. S \in SUBSET Move
    <3>1. During(books, {account}, from, to) \in SUBSET Move
      BY UntilSplits
    <3> QED BY <1>g, <3>1
  <2> QED BY <2>1, FS_Subset
<1>2. /\ \A k \in 1..size : list[k] \in S
      /\ \A m \in S : \E k \in 1..size : list[k] = m
      /\ \A i, j \in 1..size : i < j => list[i] # list[j]
  <2>1. list \in Listings(books, S)
    BY <1>g
  <2>2. list \in Seq(S) /\ size = Len(list)
    BY <2>1, <1>n DEF Listings
  <2>3. \A k \in 1..size : list[k] \in S
    BY <2>2, ElementOfSeq
  <2>4. /\ \A m \in S : \E k \in 1..size : list[k] = m
        /\ \A i, j \in 1..size : i < j => list[i] # list[j]
    BY <2>1, <2>2 DEF Listings
  <2> QED BY <2>3, <2>4
<1>3. \A m \in S : at[m] \in 1..size /\ list[at[m]] = m
  BY <1>2, <1>g
<1>4. \A k \in 1..size : {m \in S : at[m] = k} = {list[k]}
  <2>1. \A i, j \in 1..size : list[i] = list[j] => i = j
    BY <1>2
  <2> QED BY <1>2, <1>3, <2>1
<1>5. \A m \in S : f[m] \in Int
  <2> SUFFICES ASSUME NEW m \in S PROVE SignedAmount(books[m]) \in Int
    BY <1>g
  <2>1. PICK x \in Nat : x = books[m].amount
    BY <1>1, BookFields
  <2> QED BY <2>1 DEF SignedAmount
<1>6. \A k \in 1..size : g[k] = SumFunctionOnSet(f, {m \in S : at[m] = k})
  <2> SUFFICES ASSUME NEW k \in 1..size
               PROVE  g[k] = SumFunctionOnSet(f, {list[k]})
    BY <1>4
  <2>1. f[list[k]] = g[k] /\ f[list[k]] \in Int
    BY <1>2, <1>5, <1>g
  <2>2. PICK x : x = list[k]
    OBVIOUS
  <2>3. SumFunctionOnSet(f, {x}) = f[x] + SumFunctionOnSet(f, {})
    <3>1. IsFiniteSet({x}) /\ \A y \in {x} : f[y] \in Int
      BY <2>1, <2>2, FS_Singleton
    <3>2. {x} \ {x} = {}
      OBVIOUS
    <3> QED BY <3>1, <3>2, SumRemove
  <2>4. SumFunctionOnSet(f, {}) = 0
    BY SumEmpty
  <2> QED BY <2>1, <2>2, <2>3, <2>4
<1>7. GroupSums(g, f, at, S, 1..size)
  BY <1>3, <1>5, <1>6 DEF GroupSums
<1>8. SumFunctionOnSet(f, S) = SumFunctionOnSet(g, 1..size)
  <2>1. IsFiniteSet(1..size)
    BY FS_Interval
  <2> QED BY <1>1, <1>7, <2>1, SumByKey
<1>9. SumFunctionOnSet(f, S) = Money(books, S, "IN") - Money(books, S, "OUT")
  BY <1>1, <1>g, SignedSum
<1>10. PICK in \in Int, out \in Int, opening \in Int :
         /\ in = Money(books, S, "IN") /\ out = Money(books, S, "OUT")
         /\ opening = Opening(books, opened, {account}, from)
  <2>1. \A d : Money(books, S, d) \in Nat
    <3> TAKE d
    <3>1. {m \in S : books[m].direction = d} \in SUBSET Move
      BY <1>1
    <3> QED BY <3>1, AmountSum DEF Money
  <2>2. Opening(books, opened, {account}, from) \in Int
    <3>1. SumFunctionOnSet(opened, {account}) \in Int
      <4>1. IsFiniteSet({account}) /\ \A a \in {account} : opened[a] \in Int
        BY FS_Singleton
      <4> QED BY <4>1, SumType
    <3>2. PICK U : U = Until(books, {account}, from) /\ U \in SUBSET Move
      BY UntilSplits
    <3>3. \A d : Money(books, U, d) \in Nat
      <4> TAKE d
      <4>1. {m \in U : books[m].direction = d} \in SUBSET Move
        BY <3>2
      <4> QED BY <4>1, AmountSum DEF Money
    <3>4. PICK o \in Int, i \in Int, u \in Int :
            /\ o = SumFunctionOnSet(opened, {account})
            /\ i = Money(books, U, "IN") /\ u = Money(books, U, "OUT")
      BY <3>1, <3>3
    <3>5. Opening(books, opened, {account}, from) = o + i - u
      BY <3>2, <3>4 DEF Opening, DeriveBalance
    <3> QED BY <3>4, <3>5
  <2> QED BY <2>1, <2>2
<1>11. ClosingBalance(books, opened, account, from, list) = opening + SumFunctionOnSet(g, 1..size)
  <2>1. size \in 0..Len(list) /\ size = Len(list)
    BY <1>n
  <2> QED BY <1>g, <1>10, <2>1 DEF ClosingBalance, RunningBalance
<1>12. DayBookRow(books, opened, {account}, from, to).closing = opening + in - out
  BY <1>g, <1>10 DEF DayBookRow, DeriveBalance
<1> QED BY <1>8, <1>9, <1>10, <1>11, <1>12

=============================================================================
