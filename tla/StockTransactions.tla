-------------------------- MODULE StockTransactions --------------------------
(***************************************************************************)
(* The interleaving of concurrent stock requests.  A request is one         *)
(* PostgreSQL transaction at READ COMMITTED (backend/app/api/v1/deps.py, one *)
(* session per request, commit at the end, rollback on any exception).  It  *)
(* reads each inventory row with SELECT ... FOR UPDATE, one row after the   *)
(* other, computes the new quantities from what it read and writes them;    *)
(* they become visible, and the locks are released, when it commits.        *)
(*   backend/app/services/inventory_service.py (receive, issue, transfer)    *)
(*   backend/app/repositories/inventory_repo.py (get_for_update, create)     *)
(*   backend/app/imports/service.py (set_initial_stock: reads without lock)  *)
(* Only free stock is modelled here: what a request may take is settled by  *)
(* Inventory.                                                               *)
(***************************************************************************)
EXTENDS Integers, FiniteSets

CONSTANTS
  Txn,          \* concurrent requests
  Row,          \* inventory rows
  Rank,         \* a total order of the rows: the sort key of transfer
  Kinds,        \* the kinds of request of an instance
  MaxLines,     \* bound: lines of a receive or an issue
  MaxLineQty,   \* bound: quantity of one line
  MaxBalance,   \* bound: units of one row
  None          \* nobody, or nothing

ASSUME RowAssumption ==
  /\ Rank \in [Row -> Int]
  /\ \A r, s \in Row : Rank[r] = Rank[s] => r = s
  /\ None \notin Txn \union Row
  /\ MaxLines \in Nat /\ MaxLineQty \in Nat /\ MaxBalance \in Nat

ASSUME KindsAssumption ==
  Kinds \subseteq {"issue", "receive", "transfer", "import"} /\ None \notin Kinds

VARIABLES
  balance,      \* committed inventory.qty_on_hand
  posted,       \* committed sum of the row's stock_movements
  exists,       \* rows that exist, committed
  owner,        \* who holds the row lock (or inserted the row, uncommitted)
  kind,         \* what each request does, None between two requests
  delta,        \* the quantity it moves on each row
  todo,         \* rows it has not dealt with yet
  want,         \* the row it is dealing with, or None
  stage,        \* "select", "insert" or "update" of that row
  seen          \* qty_on_hand as it read it

data == <<balance, posted, exists>>
requestVars == <<data, owner, kind, delta, todo, want, stage, seen>>

Deltas == [Row -> -MaxLineQty..MaxLineQty]
Touched(d) == {r \in Row : d[r] # 0}

\* The requests of each kind: which rows they name and in which direction.
Request(k) ==
  {d \in Deltas :
    /\ Touched(d) # {}
    /\ k = "issue" => \A r \in Row : d[r] <= 0
    /\ k = "receive" => \A r \in Row : d[r] >= 0
    /\ k \in {"issue", "receive"} => Cardinality(Touched(d)) <= MaxLines
    /\ k = "transfer" => \E from, to \in Row :
         Touched(d) = {from, to} /\ d[from] < 0 /\ d[to] = -d[from]
    /\ k = "import" => \E r \in Row : Touched(d) = {r} /\ d[r] > 0}

RequestsInit ==
  /\ balance = [r \in Row |-> 0]
  /\ posted = [r \in Row |-> 0]
  /\ exists = [r \in Row |-> FALSE]
  /\ owner = [r \in Row |-> None]
  /\ kind = [t \in Txn |-> None]
  /\ delta = [t \in Txn |-> [r \in Row |-> 0]]
  /\ todo = [t \in Txn |-> {}]
  /\ want = [t \in Txn |-> None]
  /\ stage = [t \in Txn |-> "select"]
  /\ seen = [t \in Txn |-> [r \in Row |-> 0]]

-----------------------------------------------------------------------------
Begin(t, k, d) ==
  /\ kind[t] = None
  /\ kind' = [kind EXCEPT ![t] = k]
  /\ delta' = [delta EXCEPT ![t] = d]
  /\ todo' = [todo EXCEPT ![t] = Touched(d)]
  /\ UNCHANGED <<data, owner, want, stage, seen>>

\* What t read of a row it holds allows the movement.
Fits(t, r) == owner[r] = t => seen[t][r] + delta[t][r] \in 0..MaxBalance

\* Faulty variant: a transfer locks its source first.
NextRowUnsorted(t, r) == r \in todo[t]

\* A transfer locks its two rows in a fixed order; other requests lock the rows
\* in the order of their lines, which the client chose.
NextRow(t, r) ==
  /\ r \in todo[t]
  /\ kind[t] = "transfer" => \A s \in todo[t] : Rank[r] <= Rank[s]

\* The next row; an issue has checked the previous line by then, a transfer
\* checks when it holds both rows.
Ask(t, r) ==
  /\ want[t] = None
  /\ NextRow(t, r)
  /\ kind[t] # "transfer" => \A s \in Row : Fits(t, s)
  /\ want' = [want EXCEPT ![t] = r]
  /\ stage' = [stage EXCEPT ![t] = "select"]
  /\ UNCHANGED <<data, owner, kind, delta, todo, seen>>

\* The row is taken and the request goes on to its next line.
Take(t, r, value) ==
  /\ owner' = [owner EXCEPT ![r] = t]
  /\ seen' = [seen EXCEPT ![t][r] = value]
  /\ todo' = [todo EXCEPT ![t] = @ \ {r}]
  /\ want' = [want EXCEPT ![t] = None]
  /\ UNCHANGED <<data, kind, delta, stage>>

\* SELECT ... FOR UPDATE returns the committed row once nobody else holds it.
Lock(t, r) ==
  /\ want[t] = r /\ stage[t] = "select" /\ kind[t] # "import"
  /\ exists[r] /\ owner[r] = None
  /\ Take(t, r, balance[r])

\* The import reads the row without a lock; its UPDATE waits for the lock but
\* writes what it computed from the earlier read.
ReadUnlocked(t, r) ==
  /\ want[t] = r /\ stage[t] = "select" /\ kind[t] = "import"
  /\ exists[r]
  /\ seen' = [seen EXCEPT ![t][r] = balance[r]]
  /\ stage' = [stage EXCEPT ![t] = "update"]
  /\ UNCHANGED <<data, owner, kind, delta, todo, want>>

Overwrite(t, r) ==
  /\ want[t] = r /\ stage[t] = "update"
  /\ owner[r] = None
  /\ Take(t, r, seen[t][r])

\* No committed row yet: an inflow inserts one, and so does a transfer, on
\* either side.
Missing(t, r) ==
  /\ want[t] = r /\ stage[t] = "select"
  /\ ~exists[r] /\ kind[t] # "issue"
  /\ stage' = [stage EXCEPT ![t] = "insert"]
  /\ UNCHANGED <<data, owner, kind, delta, todo, want, seen>>

Insert(t, r) ==
  /\ want[t] = r /\ stage[t] = "insert"
  /\ ~exists[r] /\ owner[r] = None
  /\ Take(t, r, 0)

\* t is over: its locks go.
End(t) ==
  /\ owner' = [r \in Row |-> IF owner[r] = t THEN None ELSE owner[r]]
  /\ kind' = [kind EXCEPT ![t] = None]
  /\ delta' = [delta EXCEPT ![t] = [r \in Row |-> 0]]
  /\ todo' = [todo EXCEPT ![t] = {}]
  /\ want' = [want EXCEPT ![t] = None]
  /\ stage' = [stage EXCEPT ![t] = "select"]
  /\ seen' = [seen EXCEPT ![t] = [r \in Row |-> 0]]

Finished(t) == kind[t] # None /\ todo[t] = {} /\ want[t] = None

\* Faulty variant: the movements are written without the balances.
CommitLedgerOnly(t) ==
  /\ Finished(t) /\ \A r \in Row : Fits(t, r)
  /\ posted' = [r \in Row |-> IF owner[r] = t THEN posted[r] + delta[t][r] ELSE posted[r]]
  /\ exists' = [r \in Row |-> exists[r] \/ owner[r] = t]
  /\ End(t)
  /\ UNCHANGED balance

\* COMMIT publishes the new balances together with the movements.
Commit(t) ==
  /\ Finished(t) /\ \A r \in Row : Fits(t, r)
  /\ balance' = [r \in Row |-> IF owner[r] = t THEN seen[t][r] + delta[t][r] ELSE balance[r]]
  /\ posted' = [r \in Row |-> IF owner[r] = t THEN posted[r] + delta[t][r] ELSE posted[r]]
  /\ exists' = [r \in Row |-> exists[r] \/ owner[r] = t]
  /\ End(t)

\* ROLLBACK: nothing was published.
Rollback(t) == kind[t] # None /\ End(t) /\ UNCHANGED data

\* A business error, or the UNIQUE constraint: somebody else inserted the row
\* between the SELECT that missed it and the INSERT.
Refuse(t) ==
  /\ \/ want[t] = None /\ (kind[t] = "transfer" => todo[t] = {})
          /\ \E r \in Row : ~Fits(t, r)
     \/ \E r \in Row : want[t] = r /\ ~exists[r] /\ kind[t] = "issue"
     \/ \E r \in Row : want[t] = r /\ exists[r] /\ stage[t] = "insert"
  /\ Rollback(t)

\* Who t waits for.
Blocker(t) ==
  IF want[t] # None /\ (exists[want[t]] \/ stage[t] # "select")
    THEN owner[want[t]] ELSE None

\* The requests S wait for each other in a circle.
Circle(S) ==
  /\ S # {}
  /\ \A t \in S : Blocker(t) \in S
  /\ \A t \in S : \E u \in S : Blocker(u) = t

\* Faulty variant: cycles are not detected.
DeadlockAbortNever(t) == FALSE /\ Rollback(t)

\* PostgreSQL's deadlock detector ends one request of the cycle.
DeadlockAbort(t) ==
  /\ \E S \in SUBSET Txn : t \in S /\ Circle(S)
  /\ Rollback(t)

Step(t) ==
  \/ \E r \in Row : Ask(t, r) \/ Lock(t, r) \/ ReadUnlocked(t, r) \/ Overwrite(t, r)
                      \/ Missing(t, r) \/ Insert(t, r)
  \/ Refuse(t)
  \/ Commit(t)
  \/ DeadlockAbort(t)

\* A request may also end by itself at any time: a later check of the handler
\* fails or the connection is lost.
RequestsNext ==
  \E t \in Txn :
    \/ \E k \in Kinds : \E d \in Request(k) : Begin(t, k, d)
    \/ Step(t)
    \/ Rollback(t)

\* A request that can go on does; PostgreSQL serves those that wait for a row
\* in their order, so one that can get the row again and again gets it.
Fairness == \A t \in Txn : SF_requestVars(Step(t))

RequestsSpec == RequestsInit /\ [][RequestsNext]_requestVars

LiveSpec == RequestsSpec /\ Fairness

-----------------------------------------------------------------------------
(* Properties                                                              *)

\* Every variable has its type; a balance is never below zero.
RequestsTypeOK ==
  /\ balance \in [Row -> 0..MaxBalance]
  /\ posted \in [Row -> Int]
  /\ exists \in [Row -> BOOLEAN]
  /\ owner \in [Row -> Txn \union {None}]
  /\ kind \in [Txn -> Kinds \union {None}]
  /\ delta \in [Txn -> Deltas]
  /\ todo \in [Txn -> SUBSET Row]
  /\ want \in [Txn -> Row \union {None}]
  /\ stage \in [Txn -> {"select", "insert", "update"}]
  /\ seen \in [Txn -> [Row -> 0..MaxBalance]]

\* What a request read of a row it has locked is still true: nobody changes it
\* until the request ends.
ReadsStayTrue ==
  \A r \in Row : owner[r] # None /\ exists[r] => seen[owner[r]][r] = balance[r]

\* The balance and the ledger agree at every moment another session can look
\* (schema.sql: the inventory table is "the running balance maintained
\* transactionally alongside each movement insert").
BalanceMatchesLedger == \A r \in Row : balance[r] = posted[r]

\* Requests take effect atomically; only an import, which reads without a lock,
\* can part the balance of its own row from the ledger.
Atomic == INSTANCE AtomicStock WITH
  Row <- Row, MaxQty <- MaxLineQty, Imports <- ("import" \in Kinds), onHand <- balance, ledger <- posted

AtomicSpec == Atomic!Spec

\* Transfers lock their rows in a fixed order, so neither they nor requests of
\* one row ever wait for each other in a circle; a circle always has an issue or
\* a receipt of several lines in it (transfer: "deterministic order ... to avoid
\* deadlocks").
OnlyUnsortedLinesDeadlock ==
  \A S \in SUBSET Txn :
    Circle(S) => \E t \in S : kind[t] # "transfer" /\ Cardinality(Touched(delta[t])) > 1

\* Every request ends: it commits, is refused or is picked to break a deadlock.
RequestsEnd == \A t \in Txn : kind[t] # None ~> kind[t] = None
=============================================================================
