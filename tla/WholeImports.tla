----------------------------- MODULE WholeImports -----------------------------
(***************************************************************************)
(* Imports of a whole file in one request: the reconstruction of the stock   *)
(* history (openings, replayed movements, counts) and the registry of        *)
(* motorcycles (units, pending sales, notes of the past).                    *)
(*   backend/app/imports/service.py (_atomic_confirm), domain/atomic.py       *)
(*   backend/app/imports/targets/: opening_balances.py, stock_replay.py,      *)
(*     stock_reconciliation.py, motorcycle_units.py, pending_bike_sales.py,   *)
(*     customer_delivery_notes.py, branch_transfer_notes.py,                  *)
(*     internal_issuance_notes.py, parts_sales_log.py                         *)
(*                                                                          *)
(* A file is planned from what the database holds, without a lock, and        *)
(* committed in the same transaction under the locks of the stock engine.     *)
(* Others commit in between, so plan and commit are two steps.  Every row of   *)
(* a file is of its target's kind; times are the days of the past, and Now.   *)
(***************************************************************************)
EXTENDS Integers, FiniteSets, FiniteSetsExt, Functions

CONSTANTS
  Job,          \* import_jobs
  FirstJob,     \* those that upload a file, the others are retries
  File,         \* FirstJob -> the rows of the file
  Worker,       \* requests in progress
  Place,        \* inventory rows: one product, some warehouses
  Bike,         \* chassis numbers
  Absent,       \* no job, no buyer, no file
  Now,          \* the day of whatever is not dated by a file
  MaxRequests,  \* bound: confirmations and cancellations
  MaxActivity   \* bound: what the rest of the system does

Time == 1..Now

\* The rows of the targets that post movements, as the fields of a target allow them.
ReplayRow ==
  [kind : {"receipt", "return", "sale", "adjustment"}, at : Place, qty : Int, time : Time]
    \union [kind : {"transfer"}, at : Place, to : Place, qty : Int, time : Time]
OpeningRow == [kind : {"opening"}, at : Place, qty : Nat, time : Time]
CountRow == [kind : {"count"}, at : Place, qty : Nat, time : Time]

\* Rows about units, and the log that is kept as it is.
OtherKinds == {"register", "sell", "deliver", "transfer_note", "issuance_note", "log"}

\* All rows of a file are of one target; several targets are about units.
IsFile(rows) ==
  /\ IsFiniteSet(DOMAIN rows) /\ DOMAIN rows \subseteq Nat
  /\ \/ \A r \in DOMAIN rows : rows[r] \in ReplayRow
     \/ \A r \in DOMAIN rows : rows[r] \in OpeningRow
     \/ \A r \in DOMAIN rows : rows[r] \in CountRow
     \/ \A r \in DOMAIN rows :
          rows[r].kind \in OtherKinds /\ (rows[r].kind # "log" => rows[r].bike \in Bike)

ASSUME FilesAssumption ==
  /\ FirstJob \subseteq Job /\ Absent \notin Job
  /\ IsFiniteSet(Place) /\ Now \in Nat \ {0}
  /\ MaxRequests \in Nat /\ MaxActivity \in Nat
  /\ \A f \in FirstJob : IsFile(File[f])

VARIABLES
  job,          \* import_jobs: status, file, the rows to process, import_errors
  worker,       \* what each request is doing, and what it read
  qtyOnHand,    \* inventory.qty_on_hand
  held,         \* qty_reserved + qty_damaged
  ledger,       \* stock_movements; commit is the number of the transaction (history)
  bike,         \* motorcycle_units, invoices and delivery lines that name them
  models,       \* motorcycle_models
  written,      \* how often each row of a job was applied (history)
  clash,        \* jobs that two requests worked on at once (history)
  requests, activity

fileVars == <<job, worker, qtyOnHand, held, ledger, bike, models, written, clash, requests, activity>>
stockRows == <<qtyOnHand, held, ledger>>
rest == <<held, clash, activity>>

Row == UNION {DOMAIN File[f] : f \in FirstJob}
Stockable == {"assembled", "unassembled", "reserved"}      \* SELLABLE_FROM
Unknown == [status |-> "unknown", buyer |-> Absent, invoices |-> 0, notes |-> 0, lent |-> FALSE]
Nothing == [status |-> "none", file |-> Absent, rows |-> {}, errors |-> {}]
\* upload; what is checked begins when the files are there.
Uploaded(j) == [status |-> "pending", file |-> j, rows |-> DOMAIN File[j], errors |-> {}]
Unread == [onHand |-> [x \in Place |-> 0], bike |-> [b \in Bike |-> Unknown],
           models |-> {}, opening |-> [x \in Place |-> 0]]
NoRequest == [pc |-> "idle", job |-> Absent, accept |-> FALSE, create |-> FALSE, read |-> Unread]

FilesInit ==
  /\ job = [j \in Job |-> IF j \in FirstJob THEN Uploaded(j) ELSE Nothing]
  /\ worker = [w \in Worker |-> NoRequest]
  /\ qtyOnHand = [x \in Place |-> 0]
  /\ held = [x \in Place |-> 0]
  /\ ledger = {}
  /\ bike = [b \in Bike |-> Unknown]
  /\ models = {}
  /\ written = [j \in Job |-> [r \in Row |-> 0]]
  /\ clash = {}
  /\ requests = 0 /\ activity = 0

-----------------------------------------------------------------------------
(* The rows of a file                                                      *)

Replayed == {"receipt", "return", "sale", "adjustment", "transfer"}
Counted == {"opening", "count"}
AboutBike == {"register", "sell", "deliver"}
Drains == {"sale", "transfer", "adjustment"}

KeyOf(row) == IF row.kind \in Counted THEN row.at ELSE row.bike
Keyed == Counted \union {"register", "sell", "deliver"}

\* One opening, one count, one unit, one sale and one delivery of each in a file.
Duplicate(rows, r) ==
  /\ rows[r].kind \in Keyed
  /\ \E q \in DOMAIN rows : q < r /\ KeyOf(rows[q]) = KeyOf(rows[r])

(* What is wrong with a row in itself, and with what was read (read); one    *)
(* operator per target.                                                     *)

WrongMovement(row, read) ==
  /\ row.kind \in Replayed
  /\ \/ row.qty = 0 \/ (row.kind # "adjustment" /\ row.qty < 0)
     \/ row.kind = "transfer" /\ row.to = row.at
     \/ row.time < read.opening[row.at]

WrongUnit(row, read) ==
  /\ row.kind = "register"
  /\ \/ read.bike[row.bike].status # "unknown"
     \/ row.status \in {"sold", "reserved"} /\ row.buyer = Absent
     \/ row.status = "on_hold" /\ row.buyer # Absent

WrongSale(row, read) == row.kind = "sell" /\ read.bike[row.bike].status \notin Stockable

WrongDelivery(row, read) ==
  /\ row.kind = "deliver"
  /\ \/ read.bike[row.bike].status = "unknown"
     \/ read.bike[row.bike].notes > 0
     \/ row.buyer = Absent /\ read.bike[row.bike].buyer = Absent

WrongTransferNote(row, read) ==
  row.kind = "transfer_note" /\ read.bike[row.bike].status = "unknown"

WrongIssuanceNote(row, read) ==
  row.kind = "issuance_note" /\ (row.requestor = Absent \/ read.bike[row.bike].status = "unknown")

WrongLog(row) == row.kind = "log" /\ row.qty <= 0

Wrong(row, read) ==
  \/ WrongMovement(row, read) \/ WrongLog(row)
  \/ WrongUnit(row, read) \/ WrongSale(row, read) \/ WrongDelivery(row, read)
  \/ WrongTransferNote(row, read) \/ WrongIssuanceNote(row, read)

\* Faulty variant: the rows are replayed in the order of the file.
InFileOrder(rows, p, q) == p < q

\* sort_key: strictly by time, ties by row; the other targets by row.
Precedes(rows, p, q) ==
  IF rows[p].kind \in Replayed
  THEN rows[p].time < rows[q].time \/ (rows[p].time = rows[q].time /\ p < q)
  ELSE p < q

\* Faulty variant: what a transfer takes from its source is not counted.
EffectOfArrival(row, x, read) ==
  CASE row.kind = "transfer" -> IF row.to = x THEN row.qty ELSE 0
    [] row.kind = "count" -> IF row.at = x THEN row.qty - read.onHand[x] ELSE 0
    [] row.kind = "sale" -> IF row.at = x THEN -row.qty ELSE 0
    [] row.kind \in {"receipt", "return", "adjustment", "opening"} -> IF row.at = x THEN row.qty ELSE 0
    [] OTHER -> 0

\* What a row adds to a place; a count adds what was missing when it was read.
Effect(row, x, read) ==
  CASE row.kind = "transfer" -> IF row.to = x THEN row.qty ELSE IF row.at = x THEN -row.qty ELSE 0
    [] row.kind = "count" -> IF row.at = x THEN row.qty - read.onHand[x] ELSE 0
    [] row.kind = "sale" -> IF row.at = x THEN -row.qty ELSE 0
    [] row.kind \in {"receipt", "return", "adjustment", "opening"} -> IF row.at = x THEN row.qty ELSE 0
    [] OTHER -> 0

EffectAt(rows, x, read) == [r \in DOMAIN rows |-> Effect(rows[r], x, read)]

\* The rows of S up to r, and what they leave at a place that started with n.
Through(rows, S, r) == {q \in S : q = r \/ Precedes(rows, q, r)}
Balance(rows, S, r, x, n, read) ==
  n + SumFunctionOnSet(EffectAt(rows, x, read), Through(rows, S, r))

\* Faulty variant: the dry run counts what arrives by a transfer only.
DryBalanceOfArrivals(rows, S, r, x, read) ==
  read.onHand[x]
    + SumFunctionOnSet([q \in DOMAIN rows |-> EffectOfArrival(rows[q], x, read)], Through(rows, S, r))

DryBalance(rows, S, r, x, read) == Balance(rows, S, r, x, read.onHand[x], read)

\* first_shortfall: the first row of the dry run that takes more than there is.
FirstShortfall(rows, S, read) ==
  LET short == {r \in S : rows[r].kind \in Drains /\ DryBalance(rows, S, r, rows[r].at, read) < 0}
  IN  {r \in short : \A q \in short : ~Precedes(rows, q, r)}

\* plan: the rows with an error.
Errors(rows, read) ==
  LET wrong == {r \in DOMAIN rows : Duplicate(rows, r) \/ Wrong(rows[r], read)}
  IN  wrong \union FirstShortfall(rows, DOMAIN rows \ wrong, read)

\* Models no unit had yet, and counts that differ: both are to be accepted.
NewRefs(rows, read) ==
  {rows[r].model : r \in {q \in DOMAIN rows : rows[q].kind = "register"}} \ read.models
HasDeltas(rows, read) ==
  \E r \in DOMAIN rows \ Errors(rows, read) :
    rows[r].kind = "count" /\ rows[r].qty # read.onHand[rows[r].at]

Blockers(rows, read, accept, create) ==
  {b \in {"row_errors", "unconfirmed_references", "unaccepted_deltas"} :
     \/ b = "row_errors" /\ Errors(rows, read) # {}
     \/ b = "unconfirmed_references" /\ ~create /\ NewRefs(rows, read) # {}
     \/ b = "unaccepted_deltas" /\ ~accept /\ HasDeltas(rows, read)}

-----------------------------------------------------------------------------
(* The engine under a commit                                               *)

Available(x) == qtyOnHand[x] - held[x]

\* issue and transfer take what is available; adjust takes what is on hand.
StockRefuses(rows, r, read) ==
  LET row == rows[r]
  IN  \/ /\ row.kind \in {"sale", "transfer"}
         /\ Balance(rows, DOMAIN rows, r, row.at, Available(row.at), read) < 0
      \/ /\ row.kind \in {"adjustment", "count"}
         /\ Balance(rows, DOMAIN rows, r, row.at, qtyOnHand[row.at], read) < 0

\* Faulty variant: a unit is sold as it was planned.
SaleRefusedAsPlanned(b) == FALSE

\* MotorcycleService.sell, under the lock of the unit.
SaleRefused(b) == bike[b].status \notin Stockable \/ bike[b].lent

\* UNIQUE (tenant_id, chassis_number) refuses a unit registered meanwhile.
BikeRefuses(row) ==
  \/ row.kind = "register" /\ bike[row.bike].status # "unknown"
  \/ row.kind = "sell" /\ SaleRefused(row.bike)

Refuses(rows, read) ==
  \E r \in DOMAIN rows : StockRefuses(rows, r, read) \/ BikeRefuses(rows[r])

RowTime(row) == IF row.kind = "count" THEN Now ELSE row.time
NextCommit == 1 + Max({m.commit : m \in ledger} \union {0})

MovementOf(j, rows, read, r, x) ==
  [job |-> j, row |-> r, at |-> x, qty |-> Effect(rows[r], x, read),
   time |-> RowTime(rows[r]), commit |-> NextCommit]

\* The rows that post a movement at x: no count that found what was expected.
Posting(rows, read, x) ==
  {r \in DOMAIN rows :
     /\ rows[r].kind \in Replayed \union Counted
     /\ Effect(rows[r], x, read) # 0 \/ (rows[r].kind = "opening" /\ rows[r].at = x)}

\* The movements of a file.
Movements(j, rows, read) ==
  UNION {{MovementOf(j, rows, read, r, x) : r \in Posting(rows, read, x)} : x \in Place}

Registered(row) == [Unknown EXCEPT !.status = row.status, !.buyer = row.buyer]
Invoiced(row, b) == [b EXCEPT !.status = "sold", !.buyer = row.buyer, !.invoices = @ + 1]
Delivered(b) == [b EXCEPT !.notes = @ + 1]

\* What the file makes of a unit; notes of transfers and issuances leave it alone.
Applied(row, b) ==
  CASE row.kind = "register" -> Registered(row)
    [] row.kind = "sell" -> Invoiced(row, b)
    [] row.kind = "deliver" -> Delivered(b)

RowAbout(rows, b) == {r \in DOMAIN rows : rows[r].kind \in AboutBike /\ rows[r].bike = b}

WriteStock(j, rows, read) ==
  /\ ledger' = ledger \union Movements(j, rows, read)
  /\ qtyOnHand' = [x \in Place |->
       qtyOnHand[x] + SumFunctionOnSet(EffectAt(rows, x, read), DOMAIN rows)]

\* A register of units creates the models it names; the units stand in no other row.
WriteBikes(rows, read) ==
  /\ bike' = [b \in Bike |->
       IF RowAbout(rows, b) = {} THEN bike[b] ELSE Applied(rows[Min(RowAbout(rows, b))], bike[b])]
  /\ models' = models \union NewRefs(rows, read)

-----------------------------------------------------------------------------
(* Requests                                                                *)

\* A second request for a job that one works on already.
Clashes(j) == IF \E w \in Worker : worker[w].job = j THEN clash \union {j} ELSE clash

Openings(x) ==
  {m.time : m \in {n \in ledger : n.at = x /\ n.job # Absent /\ File[n.job][n.row].kind = "opening"}}

Current ==
  [onHand |-> qtyOnHand, bike |-> bike, models |-> models,
   opening |-> [x \in Place |-> IF Openings(x) = {} THEN 0 ELSE Min(Openings(x))]]

Ask(w, j, pc, accept, create) ==
  /\ worker[w].pc = "idle"
  /\ requests < MaxRequests
  /\ requests' = requests + 1
  /\ clash' = Clashes(j)
  /\ worker' = [worker EXCEPT ![w] =
       [pc |-> pc, job |-> j, accept |-> accept, create |-> create,
        read |-> IF pc = "commit" THEN Current ELSE Unread]]

\* confirm, up to the plan.
Plan(w, j, accept, create) ==
  /\ job[j].status = "pending"
  /\ Ask(w, j, "commit", accept, create)
  /\ UNCHANGED <<job, stockRows, bike, models, written, activity>>

BlockedBy(w) ==
  Blockers(File[worker[w].job], worker[w].read, worker[w].accept, worker[w].create)
Done(w) == worker' = [worker EXCEPT ![w] = NoRequest]

\* Faulty variant: what was written before the first refusal stays.
FailLate(w, errors) ==
  /\ job' = [job EXCEPT ![worker[w].job].status = "failed", ![worker[w].job].errors = @ \union errors]
  /\ written' = [written EXCEPT ![worker[w].job][1] = @ + 1]
  /\ WriteBikes(File[worker[w].job], worker[w].read)
  /\ UNCHANGED <<qtyOnHand, ledger>>

\* Row 0 stands for an error of the whole file.
Fail(w, errors) ==
  /\ job' = [job EXCEPT ![worker[w].job].status = "failed", ![worker[w].job].errors = @ \union errors]
  /\ UNCHANGED <<qtyOnHand, ledger, bike, models, written>>

Refused(w) == Fail(w, {0})

\* _atomic_confirm: blocked, refused by the engine, or written whole.
Commit(w) ==
  LET j == worker[w].job
      read == worker[w].read
      rows == File[j]
  IN  /\ worker[w].pc = "commit"
      /\ Done(w)
      /\ \/ /\ BlockedBy(w) # {}
            /\ Fail(w, Errors(rows, read) \union (IF BlockedBy(w) # {"row_errors"} THEN {0} ELSE {}))
         \/ /\ BlockedBy(w) = {}
            /\ Refuses(rows, read)
            /\ Refused(w)
         \/ /\ BlockedBy(w) = {}
            /\ ~Refuses(rows, read)
            /\ WriteStock(j, rows, read)
            /\ WriteBikes(rows, read)
            /\ job' = [job EXCEPT ![j].status = "completed"]
            /\ written' = [written EXCEPT ![j] =
                 [r \in Row |-> @[r] + IF r \in DOMAIN rows THEN 1 ELSE 0]]
      /\ UNCHANGED <<rest, requests>>

\* cancel
ReadForCancel(w, j) ==
  /\ job[j].status = "pending"
  /\ Ask(w, j, "cancel", FALSE, FALSE)
  /\ UNCHANGED <<job, stockRows, bike, models, written, activity>>

Cancel(w) ==
  /\ worker[w].pc = "cancel"
  /\ Done(w)
  /\ job' = [job EXCEPT ![worker[w].job].status = "cancelled"]
  /\ UNCHANGED <<stockRows, bike, models, written, clash, requests, activity>>

\* rollback: job_movements selects those of the inventory target only.
Rollback(j) ==
  /\ job[j].status = "completed"
  /\ job' = [job EXCEPT ![j].status = "rolled_back"]
  /\ UNCHANGED <<worker, stockRows, bike, models, written, clash, requests, activity>>

\* retry: process_row of these targets raises, so every row fails again.
Retry(j, k) ==
  /\ job[j].errors # {}
  /\ job[k].status = "none"
  /\ job' = [job EXCEPT ![k] = [status |-> "completed", file |-> job[j].file,
                                rows |-> job[j].errors \ {0}, errors |-> job[j].errors \ {0}]]
  /\ UNCHANGED <<worker, stockRows, bike, models, written, clash, requests, activity>>

-----------------------------------------------------------------------------
(* The rest of the system                                                  *)

Elsewhere == activity < MaxActivity /\ activity' = activity + 1

\* A receipt or an issue of one.
Move(x, q) ==
  /\ Elsewhere
  /\ Available(x) + q >= 0
  /\ qtyOnHand' = [qtyOnHand EXCEPT ![x] = @ + q]
  /\ ledger' = ledger \union {[job |-> Absent, row |-> 0, at |-> x, qty |-> q, time |-> Now,
                               commit |-> NextCommit]}
  /\ UNCHANGED <<job, worker, held, bike, models, written, clash, requests>>

\* A reservation of one, or its end.
Hold(x, q) ==
  /\ Elsewhere
  /\ q > 0 => Available(x) >= q
  /\ held[x] + q >= 0
  /\ held' = [held EXCEPT ![x] = @ + q]
  /\ UNCHANGED <<job, worker, qtyOnHand, ledger, bike, models, written, clash, requests>>

\* A unit is sold, lent or returned.
Sell(b) ==
  /\ ~SaleRefused(b)
  /\ bike' = [bike EXCEPT ![b].status = "sold", ![b].buyer = "walk-in", ![b].invoices = @ + 1]

Lend(b) ==
  /\ bike[b].status \in {"assembled", "unassembled"}
  /\ bike' = [bike EXCEPT ![b].lent = ~@]

Use(b) ==
  /\ Elsewhere
  /\ Sell(b) \/ Lend(b)
  /\ UNCHANGED <<job, worker, stockRows, models, written, clash, requests>>

FilesNext ==
  \/ \E w \in Worker, j \in FirstJob :
       \/ \E accept, create \in BOOLEAN : Plan(w, j, accept, create)
       \/ ReadForCancel(w, j)
  \/ \E w \in Worker : Commit(w) \/ Cancel(w)
  \/ \E j \in Job : Rollback(j)
  \/ \E j \in Job, k \in Job \ FirstJob : Retry(j, k)
  \/ \E x \in Place, q \in {-1, 1} : Move(x, q) \/ Hold(x, q)
  \/ \E b \in Bike : Use(b)

FilesSpec == FilesInit /\ [][FilesNext]_fileVars
-----------------------------------------------------------------------------
(* Properties                                                              *)

Sum(M) == SumFunctionOnSet([m \in M |-> m.qty], M)
At(x) == {m \in ledger : m.at = x}
KindOf(m) == IF m.job = Absent THEN "today" ELSE File[m.job][m.row].kind

\* The history of a place was rebuilt as the documents of the targets say:
\* at most one opening, then at most one replay, before anything of today.
Rebuilt(x) ==
  /\ Cardinality({m \in At(x) : KindOf(m) = "opening"}) <= 1
  /\ \A m, n \in At(x) :
       KindOf(m) \in Replayed /\ n.commit <= m.commit => KindOf(n) = "opening" \/ n.commit = m.commit
  /\ \A m, n \in At(x) : KindOf(m) \in Replayed /\ KindOf(n) \in Replayed => n.commit = m.commit

\* The stock is what its history adds up to, and where that was rebuilt from one
\* opening and one replay, the balance of no day of the past is negative
\* (stock_replay.py: "strict chronological order", never negative mid-replay).
HistoryIsSound ==
  \A x \in Place :
    /\ qtyOnHand[x] = Sum(At(x))
    /\ Rebuilt(x) => \A t \in Time : Sum({m \in At(x) : m.time <= t}) >= 0

Committing(w) == worker[w].pc = "commit" /\ worker'[w] = NoRequest
CountsHold(rows) == \A r \in DOMAIN rows : rows[r].kind = "count" => qtyOnHand'[rows[r].at] = rows[r].qty

\* What the plan said of a file is what its commit does, when nothing has moved
\* since and nothing is held back: a plan without blockers is written, and what
\* was counted is what there is then.
PlansAreKept ==
  [][\A w \in Worker :
       Committing(w) /\ BlockedBy(w) = {} /\ worker[w].read = Current
         /\ (\A x \in Place : held[x] = 0) /\ (\A b \in Bike : ~bike[b].lent)
       => job'[worker[w].job].status = "completed" /\ CountsHold(File[worker[w].job])]_fileVars

Wrote(j) == {r \in Row : written[j][r] > 0}

\* Every row of a file is written once, or none is: a completed job has written
\* the rows it does not list as errors, any other none.  Two requests for one
\* job at once, which its unlocked status lets through, are the exception.
CompleteOrNothing ==
  \A j \in Job \ clash :
    /\ Wrote(j) = IF job[j].status \in {"completed", "rolled_back"} THEN job[j].rows \ job[j].errors ELSE {}
    /\ \A r \in Row : written[j][r] <= 1

\* No unit is invoiced twice, by a file or by a sale of the day, and one that is
\* invoiced is sold: the plan looked at its status long before.
InvoicedOnce ==
  \A b \in Bike : bike[b].invoices <= 1 /\ (bike[b].invoices = 1 => bike[b].status = "sold")
=============================================================================
