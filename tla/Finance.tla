------------------------------- MODULE Finance -------------------------------
(***************************************************************************)
(* The cash book: accounts whose balance is only ever the sum of an          *)
(* append-only ledger of movements, and the documents that post them:        *)
(* expenses, transfers, cash handovers and the payments of a sale.           *)
(*   backend/app/finance/service.py, repository.py                           *)
(*   database/sql/finance_accounts.sql, finance_transfers_handovers.sql      *)
(* A request is one transaction, interleaved here with the others: it reads  *)
(* its document (without a lock, but for a sale), waits for one account row  *)
(* after the other, and publishes all its movements when it commits.         *)
(* Categories, attachments, names, dates and the branches are left out.      *)
(***************************************************************************)
EXTENDS Integers, FiniteSetsExt, SequencesExt

CONSTANTS
  Session,      \* requests in progress
  Account,      \* financial_accounts of the branch
  Doc,          \* the documents that post movements
  Kind,         \* expense, transfer, handover or sale
  From, To,     \* the accounts of a document (an expense has no To)
  Method,       \* payment methods
  Rank,         \* the order of the accounts by id
  Amount,       \* the amount of a document and of a payment line
  MaxMoves,     \* bound: movements on the books when a request starts
  None

ASSUME FinanceAssumption ==
  /\ Kind \in [Doc -> {"expense", "transfer", "handover", "sale"}]
  /\ From \in [Doc -> Account] /\ To \in [Doc -> Account]
  /\ \A d \in Doc : Kind[d] \in {"transfer", "handover"} => From[d] # To[d]
  /\ Rank \in [Account -> Int] /\ \A a, b \in Account : Rank[a] = Rank[b] => a = b
  /\ Amount \in Nat \ {0} /\ MaxMoves \in Nat
  /\ None \notin Session \union Account \union Doc
  /\ None \notin {"expense", "transfer", "handover", "confirm", "void", "reverse", "pay"}

VARIABLES
  active,       \* financial_accounts.is_active
  mapping,      \* finance_payment_account_map: the account of a method, or None
  doc,          \* status, reversed (voided, reversed_at) and confirmed_amount
  ledger,       \* account_movements of each document, in their order
  owner,        \* who holds the account row FOR UPDATE
  sharers,      \* who holds it FOR KEY SHARE, through a foreign key
  session       \* the request each session works on

data == <<active, mapping, doc, ledger>>
vars == <<data, owner, sharers, session>>

Direction == {"IN", "OUT"}
Opposite(way) == IF way = "IN" THEN "OUT" ELSE "IN"

Movement == [account : Account, way : Direction, amount : Nat, reverses : Nat]

Posting(a, way, n) == [account |-> a, way |-> way, amount |-> n, reverses |-> 0]

Idle == [job |-> None, doc |-> None, read |-> {}, wants |-> <<>>, posts |-> <<>>,
         lines |-> <<>>, counted |-> 0]

Update(a) == [account |-> a, mode |-> "update"]
KeyShare(a) == [account |-> a, mode |-> "share"]

Reverses(i, m) ==
  [account |-> m.account, way |-> Opposite(m.way), amount |-> m.amount, reverses |-> i]

\* unreversed_for_reference: neither a reversal nor reversed.
Unreversed(d) ==
  {i \in DOMAIN ledger[d] :
     /\ ledger[d][i].reverses = 0
     /\ \A j \in DOMAIN ledger[d] : ledger[d][j].reverses # i}

Busy(d) == \E s \in Session : session[s].doc = d

Init ==
  /\ active = [a \in Account |-> TRUE]
  /\ mapping = [m \in Method |-> None]
  /\ doc = [d \in Doc |-> [status |-> IF Kind[d] = "sale" THEN "posted" ELSE "none",
                           reversed |-> FALSE, counted |-> 0]]
  /\ ledger = [d \in Doc |-> <<>>]
  /\ owner = [a \in Account |-> None]
  /\ sharers = [a \in Account |-> {}]
  /\ session = [s \in Session |-> Idle]

-----------------------------------------------------------------------------
(* The requests, up to their first wait                                    *)

Moves == LET Count(d) == Len(ledger[d]) IN MapThenSumSet(Count, Doc)

Begin(s, request) ==
  /\ session[s] = Idle /\ Moves < MaxMoves
  /\ session' = [session EXCEPT ![s] = request]
  /\ UNCHANGED <<data, owner, sharers>>

New(d) == doc[d].status = "none" /\ ~Busy(d)

\* The row of the expense is inserted, which takes a key share of its account,
\* before the account is locked.
CreateExpense(s, d) ==
  /\ Kind[d] = "expense" /\ New(d) /\ active[From[d]]
  /\ Begin(s, [Idle EXCEPT !.job = "expense", !.doc = d, !.read = {From[d]},
                           !.wants = <<KeyShare(From[d]), Update(From[d])>>,
                           !.posts = <<Posting(From[d], "OUT", Amount)>>])

\* Faulty variant: the two accounts are locked as they come.
InLineOrder(d) == <<From[d], To[d]>>

\* _lock_two
InOrder(d) == IF Rank[From[d]] < Rank[To[d]] THEN <<From[d], To[d]>> ELSE <<To[d], From[d]>>

\* Faulty variant: only the side that pays is posted.
TransferPairOneSided(d) == <<Posting(From[d], "OUT", Amount)>>

TransferPair(d) == <<Posting(From[d], "OUT", Amount), Posting(To[d], "IN", Amount)>>

CreateTransfer(s, d) ==
  /\ Kind[d] = "transfer" /\ New(d) /\ active[From[d]] /\ active[To[d]]
  /\ Begin(s, [Idle EXCEPT !.job = "transfer", !.doc = d, !.read = {From[d], To[d]},
                           !.wants = <<Update(InOrder(d)[1]), Update(InOrder(d)[2])>>,
                           !.posts = TransferPair(d)])

\* As for an expense, with a foreign key to either account.
CreateHandover(s, d) ==
  /\ Kind[d] = "handover" /\ New(d) /\ active[From[d]]
  /\ Begin(s, [Idle EXCEPT !.job = "handover", !.doc = d, !.read = {From[d], To[d]},
                           !.wants = <<KeyShare(From[d]), KeyShare(To[d]), Update(From[d])>>,
                           !.posts = <<Posting(From[d], "OUT", Amount)>>])

\* Faulty variant: what was handed over arrives, whatever was counted.
ConfirmInFull(s, d, counted) ==
  /\ Kind[d] = "handover" /\ doc[d].status = "pending"
  /\ Begin(s, [Idle EXCEPT !.job = "confirm", !.doc = d, !.counted = counted,
                 !.wants = <<Update(To[d])>>, !.posts = <<Posting(To[d], "IN", Amount)>>])

\* What was counted arrives; a handover reversed meanwhile is confirmed as well.
ConfirmHandover(s, d, counted) ==
  /\ Kind[d] = "handover" /\ doc[d].status = "pending"
  /\ Begin(s, [Idle EXCEPT !.job = "confirm", !.doc = d, !.counted = counted,
                 !.wants = IF counted > 0 THEN <<Update(To[d])>> ELSE <<>>,
                 !.posts = IF counted > 0 THEN <<Posting(To[d], "IN", counted)>> ELSE <<>>])

\* void_expense, reverse_transfer, reverse_handover: the document is not locked.
\* reverse_transfer has loaded both accounts by then, so post_movement sees them
\* as they were.
ReverseDocument(s, d) ==
  /\ Kind[d] # "sale" /\ doc[d].status # "none" /\ ~doc[d].reversed
  /\ Kind[d] = "transfer" => active[From[d]] /\ active[To[d]]
  /\ Begin(s, [Idle EXCEPT !.job = "void", !.doc = d,
                 !.read = IF Kind[d] = "transfer" THEN {From[d], To[d]} ELSE {}])

\* Faulty variant: the invoice is not locked.
SaleIsFreeUnlocked(d) == TRUE

\* The invoice is locked by whoever pays or voids it.
SaleIsFree(d) == ~Busy(d)

VoidSale(s, d) ==
  /\ Kind[d] = "sale" /\ SaleIsFree(d) /\ ~doc[d].reversed
  /\ Begin(s, [Idle EXCEPT !.job = "void", !.doc = d])

\* _settle, post_invoice_payments: payments queue up for the receipt number; a
\* branch without mappings posts nothing.
RecordPayment(s, d, lines) ==
  /\ Kind[d] = "sale" /\ SaleIsFree(d) /\ ~doc[d].reversed
  /\ \A t \in Session : session[t].job # "pay"
  /\ Begin(s, [Idle EXCEPT !.job = "pay", !.doc = d,
                 !.lines = IF \E m \in Method : mapping[m] # None THEN lines ELSE <<>>])

-----------------------------------------------------------------------------
(* The rest of a request                                                   *)

\* reverse_reference reads the movements to reverse, in no particular order, and
\* posts one reversal after the other.
Reversals(d, order) == [k \in DOMAIN order |-> Reverses(order[k], ledger[d][order[k]])]
ReversalLocks(d, order) == [k \in DOMAIN order |-> Update(ledger[d][order[k]].account)]

Collect(s) ==
  /\ session[s].job = "void"
  /\ \E order \in SetToSeqs(Unreversed(session[s].doc)) :
       session' = [session EXCEPT ![s] =
         [@ EXCEPT !.job = "reverse", !.posts = Reversals(session[s].doc, order),
                   !.wants = ReversalLocks(session[s].doc, order)]]
  /\ UNCHANGED <<data, owner, sharers>>

\* The account of the next payment line; a method without one fails the sale.
Tendered(r) ==
  LET a == mapping[Head(r.lines)]
  IN  [r EXCEPT !.lines = Tail(r.lines), !.wants = <<Update(a)>>,
                !.posts = Append(r.posts, Posting(a, "IN", Amount))]

NextLine(s) ==
  /\ session[s].lines # <<>> /\ session[s].wants = <<>>
  /\ mapping[Head(session[s].lines)] # None
  /\ session' = [session EXCEPT ![s] = Tendered(@)]
  /\ UNCHANGED <<data, owner, sharers>>

Others(s) == Session \ {s}

\* Who s waits for: another lock of the row that conflicts with the one it wants.
Blockers(s) ==
  IF session[s].wants = <<>> THEN {}
  ELSE LET want == Head(session[s].wants)
       IN  ({owner[want.account]} \union
              IF want.mode = "update" THEN sharers[want.account] ELSE {}) \intersect Others(s)

\* post_movement looks at is_active once the row is locked, but sees what the
\* request has read of the account before.
Usable(s, a) == a \in session[s].read \/ active[a]

Acquire(s) ==
  /\ session[s].wants # <<>> /\ Blockers(s) = {}
  /\ LET want == Head(session[s].wants)
         a == want.account
     IN  \/ /\ want.mode = "share"
            /\ sharers' = [sharers EXCEPT ![a] = @ \union {s}]
            /\ UNCHANGED owner
         \/ /\ want.mode = "update" /\ Usable(s, a)
            /\ owner' = [owner EXCEPT ![a] = s]
            /\ UNCHANGED sharers
  /\ session' = [session EXCEPT ![s].wants = Tail(@)]
  /\ UNCHANGED data

End(s) ==
  /\ owner' = [a \in Account |-> IF owner[a] = s THEN None ELSE owner[a]]
  /\ sharers' = [a \in Account |-> sharers[a] \ {s}]
  /\ session' = [session EXCEPT ![s] = Idle]

\* What the request makes of its document.
Outcome(job, old, counted) ==
  CASE job \in {"expense", "transfer"} -> [old EXCEPT !.status = "posted"]
    [] job = "handover" -> [old EXCEPT !.status = "pending"]
    [] job = "confirm" -> [old EXCEPT !.status = IF counted = Amount THEN "confirmed" ELSE "disputed",
                                      !.counted = counted]
    [] job = "reverse" -> [old EXCEPT !.reversed = TRUE]
    [] job = "pay" -> old

Commit(s) ==
  LET d == session[s].doc
  IN  /\ session[s].job \notin {None, "void"}
      /\ session[s].wants = <<>> /\ session[s].lines = <<>>
      /\ ledger' = [ledger EXCEPT ![d] = @ \o session[s].posts]
      /\ doc' = [doc EXCEPT ![d] = Outcome(session[s].job, @, session[s].counted)]
      /\ End(s)
      /\ UNCHANGED <<active, mapping>>

\* A request may fail at any time, and one of a circle is made to.
Rollback(s) == session[s].job # None /\ End(s) /\ UNCHANGED data

-----------------------------------------------------------------------------
(* Requests of one statement                                               *)

UpdateAccount(a) ==
  /\ owner[a] = None
  /\ active' = [active EXCEPT ![a] = ~@]
  /\ UNCHANGED <<mapping, doc, ledger, owner, sharers, session>>

SetMapping(m, a) ==
  /\ active[a] /\ owner[a] = None
  /\ mapping' = [mapping EXCEPT ![m] = a]
  /\ UNCHANGED <<active, doc, ledger, owner, sharers, session>>

DeleteMapping(m) ==
  /\ mapping[m] # None
  /\ mapping' = [mapping EXCEPT ![m] = None]
  /\ UNCHANGED <<active, doc, ledger, owner, sharers, session>>

\* An applied credit note brings a voided sale back into force (Sales).
Revive(d) ==
  /\ Kind[d] = "sale" /\ SaleIsFree(d) /\ doc[d].reversed
  /\ doc' = [doc EXCEPT ![d].reversed = FALSE]
  /\ UNCHANGED <<active, mapping, ledger, owner, sharers, session>>

\* The tenders of one receipt: one or two lines.
Lines == {<<m>> : m \in Method} \union {<<m, n>> : m, n \in Method}

Next ==
  \/ \E s \in Session :
       \/ \E d \in Doc :
            \/ CreateExpense(s, d)
            \/ CreateTransfer(s, d)
            \/ CreateHandover(s, d)
            \/ \E counted \in 0..Amount + 1 : ConfirmHandover(s, d, counted)
            \/ ReverseDocument(s, d)
            \/ VoidSale(s, d)
            \/ \E lines \in Lines : RecordPayment(s, d, lines)
       \/ Collect(s)
       \/ NextLine(s)
       \/ Acquire(s)
       \/ Commit(s)
       \/ Rollback(s)
  \/ \E a \in Account : UpdateAccount(a) \/ \E m \in Method : SetMapping(m, a)
  \/ \E m \in Method : DeleteMapping(m)
  \/ \E d \in Doc : Revive(d)

Spec == Init /\ [][Next]_vars

-----------------------------------------------------------------------------
(* Properties                                                              *)

Job == {None, "expense", "transfer", "handover", "confirm", "void", "reverse", "pay"}

\* Every row and every request in progress is what the schema and the handlers
\* allow.
TypeOK ==
  /\ active \in [Account -> BOOLEAN]
  /\ mapping \in [Method -> Account \union {None}]
  /\ doc \in [Doc -> [status : {"none", "posted", "pending", "confirmed", "disputed"},
                      reversed : BOOLEAN, counted : 0..Amount + 1]]
  /\ \A d \in Doc : \A i \in DOMAIN ledger[d] : ledger[d][i] \in Movement
  /\ owner \in [Account -> Session \union {None}]
  /\ sharers \in [Account -> SUBSET Session]
  /\ \A s \in Session :
       /\ session[s].job \in Job /\ session[s].doc \in Doc \union {None}
       /\ session[s].read \subseteq Account
       /\ \A i \in DOMAIN session[s].posts : session[s].posts[i] \in Movement
  /\ \A a \in Account : owner[a] # None => sharers[a] \subseteq {owner[a]}

Signed(m) == IF m.way = "IN" THEN m.amount ELSE -m.amount
Effects(moves) == [i \in DOMAIN moves |-> Signed(moves[i])]

\* Transfers move money between accounts and never make or lose any, whatever
\* happens to them: also when two requests reverse one at the same time
\* (finance_transfers_handovers.sql: "Never a one-sided adjustment").
TransfersMoveMoney ==
  \A d \in Doc : Kind[d] = "transfer" =>
    SumFunctionOnSet(Effects(ledger[d]), DOMAIN ledger[d]) = 0

Standing(d, a, way, n) ==
  {i \in Unreversed(d) : /\ ledger[d][i].account = a
                         /\ ledger[d][i].way = way /\ ledger[d][i].amount = n}

\* A document in force is backed by its movements, none of them reversed: the
\* money of an expense or a handover has left its account once, a transfer has
\* both legs, and a confirmed handover has brought in what was counted.
InForceIsPosted ==
  \A d \in Doc :
    doc[d].status # "none" /\ ~doc[d].reversed =>
      /\ Kind[d] \in {"expense", "transfer", "handover"} =>
           Cardinality(Standing(d, From[d], "OUT", Amount)) = 1
      /\ Kind[d] = "transfer" => Cardinality(Standing(d, To[d], "IN", Amount)) = 1
      /\ doc[d].counted > 0 => Standing(d, To[d], "IN", doc[d].counted) # {}
      /\ doc[d].status = "pending" => Cardinality(Unreversed(d)) = 1

\* A reversal cancels a movement of the same document that is no reversal
\* itself: same account, same amount, opposite direction.  No payment of a sale
\* is given back twice, over repeated payments and voids: the invoice is locked.
\* And the money of a reversed document has come back to the account it left; a
\* voided sale keeps none of its payments.
ReversalsCancelOriginals ==
  \A d \in Doc :
    /\ \A j \in DOMAIN ledger[d] :
         LET i == ledger[d][j].reverses
         IN  i # 0 => /\ i \in 1..j - 1
                      /\ ledger[d][i].reverses = 0
                      /\ ledger[d][j] = Reverses(i, ledger[d][i])
                      /\ Kind[d] = "sale" =>
                           \A k \in DOMAIN ledger[d] : ledger[d][k].reverses = i => k = j
    /\ doc[d].reversed =>
         /\ Kind[d] = "sale" => Unreversed(d) = {}
         /\ \A i \in Unreversed(d) : ledger[d][i].way = "IN"

\* The requests S wait for each other: each waits for another one of them.
Circle(S) == S # {} /\ \A s \in S : Blockers(s) \intersect S # {}

Jobs(S) == {session[s].job : s \in S}

\* Transfers lock their accounts in order and are never to blame for a deadlock:
\* some of the requests that wait for each other are expenses that form a circle
\* of their own, or there is one among them that locks, or refers to, several
\* accounts in the order they come (_lock_two: "so concurrent transfers/handovers
\* can't deadlock").
OrderedTransfersNeverDeadlock ==
  \A S \in SUBSET Session :
    Circle(S) => \/ Jobs(S) \intersect {"handover", "reverse", "pay"} # {}
                 \/ \E T \in SUBSET S : Circle(T) /\ Jobs(T) = {"expense"}
=============================================================================
