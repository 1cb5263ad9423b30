------------------------------- MODULE Imports -------------------------------
(***************************************************************************)
(* Import jobs: a file is uploaded, confirmed, and run in the background in  *)
(* batches that commit one by one; a job may be cancelled meanwhile, retried  *)
(* for its failed rows, and rolled back once completed.                      *)
(*   backend/app/imports/runner.py, service.py, repository.py                *)
(*   backend/app/imports/targets/inventory.py                                *)
(*                                                                          *)
(* Background tasks and requests are workers.  The status of a job is read    *)
(* without a lock and written later, in every one of them, so the read and    *)
(* the write are two steps, as are the look at a stock row, which an import   *)
(* does not lock, and what it writes there.  The rest of a transaction is one  *)
(* step; what the others do at one stock row at a time is in StockTransactions. *)
(* All jobs upload the same file of the inventory target; the targets        *)
(* imported as a whole in the request are in WholeImports.                    *)
(***************************************************************************)
EXTENDS Integers, Sequences, FiniteSets, Functions

CONSTANTS
  Job,          \* import_jobs
  FirstJob,     \* bound: those that upload a file, the others are retries
  Worker,       \* background tasks and requests in progress
  Product,      \* SKUs
  Warehouse,    \* stock locations
  File,         \* the rows of the file
  BatchSize,    \* BATCH_SIZE
  None,         \* no product yet, no job
  Others,       \* whoever else creates products
  MaxRequests,  \* bound: jobs confirmed, cancelled and rolled back, together
  MaxActivity   \* bound: other stock movements

RowOf == [sku : Product, at : Warehouse, qty : Nat, fate : {"valid", "invalid", "skipped"}]

ASSUME ImportsAssumption ==
  /\ File \in Seq(RowOf) /\ File # <<>>
  /\ BatchSize \in Nat \ {0} /\ MaxActivity \in Nat /\ MaxRequests \in Nat
  /\ FirstJob \subseteq Job /\ IsFiniteSet(Product) /\ IsFiniteSet(Warehouse)
  /\ None \notin Job \union Nat /\ Others \notin Job \union {None}

VARIABLES
  job,          \* import_jobs.status, "none" before the upload
  counts,       \* imported_rows, skipped_rows, error_count
  failed,       \* import_errors: rows that may be retried
  aborted,      \* jobs with an error of their task, at row 0 of import_errors
  requests,     \* requests made so far (history)
  worker,       \* what each worker is doing
  ledger,       \* stock_movements of the imports: <<job, worker, row>>
  creator,      \* products.created_by_import_job_id; None while there is no product
  shelved,      \* places that have a row in inventory
  onHand,       \* inventory.qty_on_hand
  saw,          \* balances a transaction has looked up and not written yet
  lost,         \* net quantity that imports have overwritten at a place (history)
  activity,     \* other stock movements at a place: receipts and issues of one unit
  starts,       \* times a job was set running (history)
  undone,       \* jobs rolled back (history)
  mishap        \* "stopped" once a task was lost, "doubled" once a
                \* movement was reversed twice (history)

vars == <<job, counts, failed, aborted, requests, worker, ledger, creator, shelved, onHand,
          saw, lost, activity, starts, undone, mishap>>
stock == <<ledger, creator, shelved, onHand, saw, lost, activity>>

Row == 1..Len(File)
Place == Product \X Warehouse
PlaceOf(r) == <<File[r].sku, File[r].at>>
Movements == Job \X Worker \X Row
NoActivity == [receipts |-> 0, issues |-> 0]
NoCounts == [imported |-> 0, skipped |-> 0, errors |-> 0]
Idle == [pc |-> "idle", job |-> None, next |-> 1, tally |-> NoCounts, late |-> 0, read |-> {},
         rows |-> {}]
Unseen == [x \in Place |-> None]

Become(w, pc) == worker' = [worker EXCEPT ![w].pc = pc]
Rest(w) == worker' = [worker EXCEPT ![w] = Idle]
Take(w, pc, j, M, rows) ==
  /\ requests < MaxRequests
  /\ requests' = requests + 1
  /\ worker' = [worker EXCEPT ![w] =
       [Idle EXCEPT !.pc = pc, !.job = j, !.read = M, !.rows = rows]]
Doing(w, pc) == worker[w].pc = pc
JobOf(w) == worker[w].job

Init ==
  /\ job = [j \in Job |-> "none"]
  /\ counts = [j \in Job |-> NoCounts]
  /\ failed = [j \in Job |-> {}]
  /\ aborted = {}
  /\ requests = 0
  /\ worker = [w \in Worker |-> Idle]
  /\ ledger = {}
  /\ creator = [p \in Product |-> None]
  /\ shelved = {}
  /\ onHand = [x \in Place |-> 0]
  /\ saw = [w \in Worker |-> Unseen]
  /\ lost = [x \in Place |-> 0]
  /\ activity = [x \in Place |-> NoActivity]
  /\ starts = [j \in Job |-> 0]
  /\ undone = {}
  /\ mishap = {}

-----------------------------------------------------------------------------
(* Rows                                                                    *)

\* The SKUs seen before row r of those to be processed: a failed row counts.
Seen(rows, r) == {File[q].sku : q \in {s \in rows : s < r /\ File[s].fate # "invalid"}}

\* _handle_row: a row fails its validation, as a duplicate, or in the database.
Fails(rows, r, bad) ==
  File[r].fate = "invalid" \/ File[r].sku \in Seen(rows, r) \/ r \in bad

\* Faulty variant: a row that failed in the database is not undone.
ImportedDespite(rows, batch, bad) ==
  {r \in batch : ~Fails(rows, r, {}) /\ File[r].fate = "valid"}

\* The rows of a batch that are imported, when rows are all those processed so far.
Imported(rows, batch, bad) ==
  {r \in batch : ~Fails(rows, r, bad) /\ File[r].fate = "valid"}

Failing(rows, batch, bad) == {r \in batch : Fails(rows, r, bad)}

Tally(rows, batch, bad) ==
  LET ok == Cardinality({r \in batch : ~Fails(rows, r, bad) /\ File[r].fate = "valid"})
      no == Cardinality(Failing(rows, batch, bad))
  IN  [imported |-> ok, skipped |-> Cardinality(batch) - ok - no, errors |-> no]

Add(a, b) == [imported |-> a.imported + b.imported, skipped |-> a.skipped + b.skipped,
              errors |-> a.errors + b.errors]

RowQty(x) == [r \in Row |-> IF PlaceOf(r) = x THEN File[r].qty ELSE 0]
QtyAt(rows, x) == SumFunctionOnSet(RowQty(x), rows)

\* Where rows bring in stock: a quantity of zero writes nothing.
StockRows(rows) == {r \in rows : File[r].qty > 0}
Touched(rows) == {PlaceOf(r) : r \in StockRows(rows)}

\* get_inventory: the balance a transaction starts from, which it may have looked up
\* a while ago; a row that does not exist is created, with nothing.
Balance(w, x) == IF saw[w][x] = None THEN onHand[x] ELSE saw[w][x]

\* process_row of each imported row: the product is created unless it exists, and a
\* quantity is an initial_import movement.  The balance is written whatever it has
\* become since it was looked up: what was moved meanwhile is lost.
Write(w, j, rows) ==
  /\ creator' = [p \in Product |->
       IF creator[p] = None /\ \E r \in rows : File[r].sku = p THEN j ELSE creator[p]]
  /\ onHand' = [x \in Place |->
       IF x \in Touched(rows) THEN Balance(w, x) + QtyAt(rows, x) ELSE onHand[x]]
  /\ lost' = [x \in Place |->
       IF x \in Touched(rows) THEN lost[x] + onHand[x] - Balance(w, x) ELSE lost[x]]
  /\ shelved' = shelved \union Touched(rows)
  /\ saw' = [saw EXCEPT ![w] = Unseen]
  /\ ledger' = ledger \union {<<j, w, r>> : r \in StockRows(rows)}
  /\ UNCHANGED activity

-----------------------------------------------------------------------------
(* The life of a job                                                       *)

Upload(j) ==
  /\ job[j] = "none"
  /\ job' = [job EXCEPT ![j] = "pending"]
  /\ UNCHANGED <<requests, counts, failed, aborted, worker, stock, starts, undone, mishap>>

\* confirm: a task is launched, the job stays pending.
Confirm(w, j) ==
  /\ Doing(w, "idle")
  /\ job[j] = "pending"
  /\ Take(w, "launched", j, {}, {})
  /\ UNCHANGED <<job, counts, failed, aborted, stock, starts, undone, mishap>>

\* run_import_job, 1: the job is read, and claimed if it is pending.
Claim(w) ==
  /\ Doing(w, "launched")
  /\ IF job[JobOf(w)] = "pending" THEN Become(w, "claimed") ELSE Rest(w)
  /\ UNCHANGED <<requests, job, counts, failed, aborted, stock, starts, undone, mishap>>

Start(w) ==
  /\ Doing(w, "claimed")
  /\ job' = [job EXCEPT ![JobOf(w)] = "running"]
  /\ starts' = [starts EXCEPT ![JobOf(w)] = @ + 1]
  /\ Become(w, "check")
  /\ UNCHANGED <<requests, counts, failed, aborted, stock, undone, mishap>>

\* Faulty variant: the cancellation is looked for before the first batch only.
SeesCancelAtFirst(w) == job[JobOf(w)] = "cancelled" /\ worker[w].next = 1

SeesCancel(w) == job[JobOf(w)] = "cancelled"

\* 3: the cancel check, in a transaction of its own.
CheckCancel(w) ==
  /\ Doing(w, "check")
  /\ worker' = [worker EXCEPT ![w].pc = IF SeesCancel(w) THEN "cancelled" ELSE "batch",
                              ![w].late = IF job[JobOf(w)] = "cancelled" THEN @ ELSE 0]
  /\ UNCHANGED <<requests, job, counts, failed, aborted, stock, starts, undone, mishap>>

AfterBatch(next) == IF next <= Len(File) THEN "check" ELSE "completed"

\* A task after one more batch; late ones committed in spite of a cancellation.
Further(task, next, tally, cancelled) ==
  [task EXCEPT !.pc = AfterBatch(next), !.next = next, !.tally = tally,
               !.late = IF cancelled THEN @ + 1 ELSE @]

\* The rows of a task's transaction, or of a retry's, and those processed by its end.
AtHand(w) ==
  IF Doing(w, "retry") THEN worker[w].rows
  ELSE {r \in Row : r >= worker[w].next /\ r < worker[w].next + BatchSize}
Processed(w) ==
  IF Doing(w, "retry") THEN worker[w].rows ELSE {r \in Row : r < worker[w].next + BatchSize}

\* get_inventory before the transaction's end: the row of x is read, not locked.
LookUp(w, x) ==
  /\ worker[w].pc \in {"batch", "retry"}
  /\ x \in shelved \intersect Touched(Imported(Processed(w), AtHand(w), {}))
  /\ saw[w][x] = None
  /\ saw' = [saw EXCEPT ![w][x] = onHand[x]]
  /\ UNCHANGED <<requests, job, counts, failed, aborted, worker, ledger, creator, shelved,
                 onHand, lost, activity, starts, undone, mishap>>

\* 3: one batch and the job's counters, in one transaction.
RunBatch(w, bad) ==
  LET j == JobOf(w)
      next == worker[w].next + BatchSize
      batch == AtHand(w)
      rows == Processed(w)
      tally == Add(worker[w].tally, Tally(rows, batch, bad))
  IN  /\ Doing(w, "batch")
      /\ bad \subseteq batch
      /\ Write(w, j, Imported(rows, batch, bad))
      /\ failed' = [failed EXCEPT ![j] = @ \union Failing(rows, batch, bad)]
      /\ counts' = [counts EXCEPT ![j] = tally]
      /\ worker' = [worker EXCEPT ![w] = Further(worker[w], next, tally, job[j] = "cancelled")]
      /\ UNCHANGED <<requests, aborted, job, starts, undone, mishap>>

\* 4: the counters and the final status, whatever the status is by now.
Finish(w) ==
  /\ \E end \in {"completed", "cancelled"} :
       /\ Doing(w, end)
       /\ job' = [job EXCEPT ![JobOf(w)] = end]
  /\ counts' = [counts EXCEPT ![JobOf(w)] = worker[w].tally]
  /\ Rest(w)
  /\ UNCHANGED <<requests, failed, aborted, stock, starts, undone, mishap>>

Running == {"launched", "claimed", "check", "batch", "completed", "cancelled"}

\* _safe_run: an exception outside the rows aborts the task.
Raise(w) ==
  /\ worker[w].pc \in Running
  /\ Become(w, "failing")
  /\ saw' = [saw EXCEPT ![w] = Unseen]
  /\ UNCHANGED <<requests, job, counts, failed, aborted, ledger, creator, shelved, onHand,
                 lost, activity, starts, undone, mishap>>

\* Faulty variant: the failure is logged only.
LogFailure(w) ==
  /\ Doing(w, "failing")
  /\ Rest(w)
  /\ UNCHANGED <<requests, job, counts, failed, aborted, stock, starts, undone, mishap>>

MarkFailed(w) ==
  /\ Doing(w, "failing")
  /\ job' = [job EXCEPT ![JobOf(w)] = "failed"]
  /\ aborted' = aborted \union {JobOf(w)}
  /\ Rest(w)
  /\ UNCHANGED <<requests, counts, failed, stock, starts, undone, mishap>>

\* The process stops, or a failure cannot be recorded: tasks are not resumed.
Stop ==
  /\ worker' = [w \in Worker |-> Idle]
  /\ saw' = [w \in Worker |-> Unseen]
  /\ mishap' = mishap \union {"stopped"}
  /\ UNCHANGED <<requests, job, counts, failed, aborted, ledger, creator, shelved, onHand,
                 lost, activity, starts, undone>>

-----------------------------------------------------------------------------
(* Requests about a job                                                    *)

\* cancel
ReadForCancel(w, j) ==
  /\ Doing(w, "idle")
  /\ job[j] \in {"pending", "running"}
  /\ Take(w, "cancel", j, {}, {})
  /\ UNCHANGED <<job, counts, failed, aborted, stock, starts, undone, mishap>>

Cancel(w) ==
  /\ Doing(w, "cancel")
  /\ job' = [job EXCEPT ![JobOf(w)] = "cancelled"]
  /\ Rest(w)
  /\ UNCHANGED <<requests, counts, failed, aborted, stock, starts, undone, mishap>>

\* retry: the rows that failed are read, with the error of the task, which is no row,
ReadForRetry(w, j) ==
  /\ Doing(w, "idle")
  /\ failed[j] # {} \/ j \in aborted
  /\ Take(w, "retry", j, {}, failed[j])
  /\ UNCHANGED <<job, counts, failed, aborted, stock, starts, undone, mishap>>

\* and imported as a new job that is completed, in the same transaction.
Retry(w, k, bad) ==
  LET rows == worker[w].rows
  IN  /\ Doing(w, "retry")
      /\ bad \subseteq rows
      /\ job[k] = "none"
      /\ Write(w, k, Imported(rows, rows, bad))
      /\ job' = [job EXCEPT ![k] = "completed"]
      /\ failed' = [failed EXCEPT ![k] = Failing(rows, rows, bad)]
      /\ counts' = [counts EXCEPT ![k] = Tally(rows, rows, bad)]
      /\ Rest(w)
      /\ UNCHANGED <<requests, aborted, starts, undone, mishap>>

MovementsOf(j) == {m \in ledger : m[1] = j}
RowsOf(M) == {m[3] : m \in M}

\* other_movement_exists
OtherMovement(x, j) ==
  activity[x] # NoActivity \/ \E m \in ledger : m[1] # j /\ PlaceOf(m[3]) = x

\* rollback, up to the first lock: the status, the movements, and that no place
\* they touched has seen another movement.
ReadForRollback(w, j) ==
  /\ Doing(w, "idle")
  /\ job[j] = "completed"
  /\ \A m \in MovementsOf(j) : ~OtherMovement(PlaceOf(m[3]), j)
  /\ Take(w, "rollback", j, MovementsOf(j), {})
  /\ UNCHANGED <<job, counts, failed, aborted, stock, starts, undone, mishap>>

MovementQty(x) == [m \in Movements |-> RowQty(x)[m[3]]]
Qty(M, x) == SumFunctionOnSet(MovementQty(x), M)

\* Faulty variant: the movements go, and the stock they brought in stays.
StockWithoutLedger(M) == onHand

\* get_inventory_for_update and the subtraction, where there still is a row.
StockWithout(M) ==
  [x \in Place |-> IF x \in shelved THEN onHand[x] - Qty(M, x) ELSE onHand[x]]

\* Faulty variant: products are kept.
KeptProducts(j) == {}

\* products_created_by_job
CreatedBy(j) == {p \in Product : creator[p] = j}

\* stock_movements reference their product: one with movements is not deleted.
Deletable(p, M) ==
  /\ \A h \in Warehouse : activity[<<p, h>>] = NoActivity
  /\ \A m \in ledger \ M : File[m[3]].sku # p

\* rollback, the rest of its transaction; it aborts when the database refuses.  A
\* balance looked up of a product that goes is of no use: the row fails, or looks again.
Rollback(w) ==
  LET j == JobOf(w)
      M == worker[w].read
      gone == CreatedBy(j)
      allowed == /\ \A x \in Place : StockWithout(M)[x] >= 0
                 /\ \A p \in gone : Deletable(p, M)
      Without(f, none) == [x \in Place |-> IF x[1] \in gone THEN none ELSE f[x]]
  IN  /\ Doing(w, "rollback")
      /\ Rest(w)
      /\ IF allowed
           THEN /\ onHand' = Without(StockWithout(M), 0)
                /\ lost' = Without(lost, 0)
                /\ saw' = [v \in Worker |-> Without(saw[v], None)]
                /\ shelved' = {x \in shelved : x[1] \notin gone}
                /\ ledger' = ledger \ M
                /\ creator' = [p \in Product |-> IF p \in gone THEN None ELSE creator[p]]
                /\ job' = [job EXCEPT ![j] = "rolled_back"]
                /\ undone' = undone \union {j}
                /\ mishap' = IF M \subseteq ledger THEN mishap ELSE mishap \union {"doubled"}
           ELSE UNCHANGED <<onHand, lost, saw, shelved, ledger, creator, job, undone, mishap>>
      /\ UNCHANGED <<requests, counts, failed, aborted, activity, starts>>

-----------------------------------------------------------------------------
(* The rest of the system                                                  *)

CreateProduct(p) ==
  /\ creator[p] = None
  /\ creator' = [creator EXCEPT ![p] = Others]
  /\ UNCHANGED <<requests, job, counts, failed, aborted, worker, ledger, shelved, onHand,
                 saw, lost, activity, starts, undone, mishap>>

MovedAt == [x \in Place |-> activity[x].receipts + activity[x].issues]
Moved == SumFunctionOnSet(MovedAt, Place)

\* Faulty variant: more is issued than there is.
MoveUnchecked(x, kind) ==
  /\ creator[x[1]] # None
  /\ Moved < MaxActivity
  /\ onHand' = [onHand EXCEPT ![x] = IF kind = "receipts" THEN @ + 1 ELSE @ - 1]
  /\ shelved' = shelved \union {x}
  /\ activity' = [activity EXCEPT ![x][kind] = @ + 1]
  /\ UNCHANGED <<requests, job, counts, failed, aborted, worker, ledger, creator, saw, lost,
                 starts, undone, mishap>>

\* A receipt or an issue of one unit.
Move(x, kind) ==
  LET q == IF kind = "receipts" THEN 1 ELSE -1
  IN  /\ creator[x[1]] # None
      /\ onHand[x] + q >= 0
      /\ Moved < MaxActivity
      /\ onHand' = [onHand EXCEPT ![x] = @ + q]
      /\ shelved' = shelved \union {x}
      /\ activity' = [activity EXCEPT ![x][kind] = @ + 1]
      /\ UNCHANGED <<requests, job, counts, failed, aborted, worker, ledger, creator, saw, lost,
                 starts, undone, mishap>>

\* What a worker does next.
Step(w) ==
  \/ Claim(w) \/ Start(w) \/ CheckCancel(w) \/ Finish(w) \/ MarkFailed(w)
  \/ Cancel(w) \/ Rollback(w)
  \/ \E bad \in SUBSET Row :
       RunBatch(w, bad) \/ \E k \in Job \ FirstJob : Retry(w, k, bad)

Next ==
  \/ \E j \in FirstJob : Upload(j)
  \/ \E w \in Worker :
       \/ Step(w)
       \/ Raise(w)
       \/ \E x \in Place : LookUp(w, x)
       \/ \E j \in Job :
            Confirm(w, j) \/ ReadForCancel(w, j) \/ ReadForRetry(w, j) \/ ReadForRollback(w, j)
  \/ Stop
  \/ \E p \in Product : CreateProduct(p)
  \/ \E x \in Place, kind \in {"receipts", "issues"} : Move(x, kind)

\* The event loop keeps running the tasks and requests that can go on.
Fairness == WF_vars(\E w \in Worker : Step(w))

Spec == Init /\ [][Next]_vars /\ Fairness
-----------------------------------------------------------------------------
(* Properties                                                              *)

JobStatus == {"none", "pending", "running", "completed", "cancelled", "failed", "rolled_back"}
WorkerStep == Running \union {"idle", "failing", "cancel", "retry", "rollback"}
Counts == [imported : 0..Len(File), skipped : 0..Len(File), errors : 0..Len(File)]

\* Every column holds what its type and CHECK constraints allow.
TypeOK ==
  /\ job \in [Job -> JobStatus]
  /\ counts \in [Job -> Counts]
  /\ failed \in [Job -> SUBSET Row]
  /\ aborted \subseteq Job
  /\ worker \in [Worker -> [pc : WorkerStep, job : Job \union {None}, next : Nat,
                            tally : Counts, late : Nat, read : SUBSET Movements,
                            rows : SUBSET Row]]
  /\ requests \in 0..MaxRequests
  /\ ledger \subseteq Movements
  /\ creator \in [Product -> Job \union {None, Others}]
  /\ shelved \subseteq Place
  /\ onHand \in [Place -> Nat]
  /\ saw \in [Worker -> [Place -> Nat \union {None}]]
  /\ lost \in [Place -> Int]
  /\ activity \in [Place -> [receipts : 0..MaxActivity, issues : 0..MaxActivity]]
  /\ starts \in [Job -> Nat]
  /\ undone \subseteq Job
  /\ mishap \subseteq {"stopped", "doubled"}

Net(x) == Qty(ledger, x) + activity[x].receipts - activity[x].issues

\* Through batches, retries, failures and rollbacks the stock is what the movements
\* add up to, but for what an import has overwritten: movements that were committed
\* between its look at a balance, which takes no lock, and its write.  Only two
\* rollbacks of one job at the same time, which the unlocked read of the job's status
\* lets through, part the two otherwise.
LedgerIsStock ==
  "doubled" \notin mishap => \A x \in Place : onHand[x] = Net(x) - lost[x]

\* A job that was started once tells the truth about what it has committed,
\* wherever it stopped: rows that failed have left no movement, its counters add
\* up to the rows it worked through, and are the movements and errors on record
\* (runner.py: "progress survives interruption").
BatchesAddUp ==
  \A j \in Job :
    LET imported == RowsOf(MovementsOf(j))
    IN  starts[j] <= 1 /\ j \notin undone =>
          /\ failed[j] \intersect imported = {}
          /\ counts[j].errors = Cardinality(failed[j])
          /\ (\A r \in Row : File[r].qty > 0) => counts[j].imported = Cardinality(imported)

\* What a rolled back job that was started once imported is gone, and so is every
\* product it created.
RolledBackIsGone ==
  \A j \in undone : starts[j] <= 1 =>
    MovementsOf(j) = {} /\ \A p \in Product : creator[p] # j

\* A task commits at most one batch of a job while it stays cancelled (service.py: the
\* runner "re-reads status between batches and stops safely"): whoever overwrites the
\* status, as a second task does that starts, or one that fails, lets it go on.
CancelStopsTheTask == \A w \in Worker : worker[w].late <= 1

\* A running job ends, unless the process stops meanwhile: no task is resumed.
RunningJobsEnd ==
  \A j \in Job : job[j] = "running" ~> job[j] # "running" \/ "stopped" \in mishap
=============================================================================
