---------------------------- MODULE ImportsProofs ----------------------------
(***************************************************************************)
(* What import jobs guarantee for any number of jobs, tasks, products and    *)
(* rows: the types, that the stock follows the ledger, that the counters of   *)
(* a job are what it committed, that a rollback undoes its job, and that a    *)
(* cancelled job stops.                                                      *)
(***************************************************************************)
EXTENDS Imports, Sums

\* Tasks between two transactions of a job they have set running.
Active == {"check", "batch", "completed", "cancelled"}
ActiveAt(j) == {w \in Worker : worker[w].pc \in Active /\ worker[w].job = j}
UndoingAt(j) == {w \in Worker : worker[w].pc = "rollback" /\ worker[w].job = j}

Before(n) == {r \in Row : r < n}

\* A worker knows its job, has not written the rows it has still to process, and
\* has counted the others.
Knows(w) ==
  /\ worker[w].pc # "idle" => worker[w].job \in Job
  /\ worker[w].pc \in Running \union {"failing", "cancel"} => worker[w].job \in FirstJob
  /\ worker[w].pc \in {"launched", "claimed"} =>
       worker[w].tally = NoCounts /\ worker[w].next = 1
  /\ IsFiniteSet(worker[w].read) /\ \A m \in worker[w].read : m[1] = worker[w].job

Ahead(w) ==
  worker[w].pc \in {"launched", "claimed", "check", "batch"} =>
    \A m \in ledger : m[1] = worker[w].job /\ m[2] = w => m[3] < worker[w].next

Sums3(c) == c.imported + c.skipped + c.errors
Counted(w) == Sums3(worker[w].tally) = Cardinality(Before(worker[w].next))

StopsIn(w) == worker[w].late <= 1 /\ (worker[w].pc = "batch" => worker[w].late = 0)

\* Nothing has happened to a job that was never started.
Bare(j) ==
  /\ MovementsOf(j) = {} /\ failed[j] = {} /\ counts[j] = NoCounts
  /\ j \notin undone
  /\ CreatedBy(j) = {}
  /\ ActiveAt(j) = {} /\ UndoingAt(j) = {}
  /\ job[j] \in {"none", "pending", "cancelled", "failed"}

Unstarted(j) == (j \in FirstJob /\ starts[j] = 0) \/ (j \notin FirstJob /\ job[j] = "none")

\* A job that has ended is not worked on, and a rollback has read all its movements.
Settled(j) ==
  /\ job[j] = "completed" \/ j \in undone \/ UndoingAt(j) # {} => ActiveAt(j) = {}
  /\ \A w \in UndoingAt(j) : MovementsOf(j) \subseteq worker[w].read
  /\ j \in undone => MovementsOf(j) = {} /\ CreatedBy(j) = {}

\* BatchesAddUp of one job.
Told(j) ==
  /\ failed[j] \intersect RowsOf(MovementsOf(j)) = {}
  /\ counts[j].errors = Cardinality(failed[j])
  /\ (\A r \in Row : File[r].qty > 0) =>
       counts[j].imported = Cardinality(RowsOf(MovementsOf(j)))

\* The task that runs a job counts what is on record.
Tracked(j) ==
  \A w \in ActiveAt(j) :
    /\ failed[j] \subseteq Before(worker[w].next)
    /\ RowsOf(MovementsOf(j)) \subseteq Before(worker[w].next)
    /\ counts[j] = worker[w].tally

Alone(j) == \A v, w \in ActiveAt(j) : v = w

Once(j) ==
  /\ Alone(j)
  /\ Settled(j)
  /\ j \notin undone => Told(j) /\ Tracked(j)

JobOK(j) ==
  /\ job[j] \in {"none", "pending"} => starts[j] = 0
  /\ j \notin FirstJob => starts[j] = 0 /\ job[j] \in {"none", "completed", "rolled_back"}
  /\ Unstarted(j) => Bare(j)
  /\ starts[j] <= 1 => Once(j)

\* There are movements only where there is a row in inventory.
Kept(x) ==
  x \notin shelved => activity[x] = NoActivity /\ \A m \in ledger : PlaceOf(m[3]) # x

WorkersOK == \A w \in Worker : Knows(w) /\ Ahead(w) /\ Counted(w) /\ StopsIn(w)
JobsOK == \A j \in Job : JobOK(j)
ShelvesOK == \A x \in Place : Kept(x)
Typed == TypeOK /\ IsFiniteSet(ledger)

\* The inductive invariant.
JInv == Typed /\ WorkersOK /\ JobsOK /\ ShelvesOK /\ LedgerIsStock

-----------------------------------------------------------------------------
(* Rows and their sums                                                     *)

LEMMA Rows ==
  /\ Len(File) \in Nat /\ Len(File) # 0
  /\ \A r \in Row : r \in Nat /\ File[r] \in RowOf /\ File[r].qty \in Nat
  /\ \A r \in Row : PlaceOf(r) \in Place /\ File[r].sku \in Product
<1>1. File \in Seq(RowOf) /\ File # <<>>
  BY ImportsAssumption
<1>2. Len(File) \in Nat /\ Len(File) # 0
  BY <1>1
<1>3. \A r \in Row : r \in Nat /\ File[r] \in RowOf
  BY <1>1 DEF Row
<1>4. \A r \in Row : File[r].qty \in Nat /\ File[r].sku \in Product /\ File[r].at \in Warehouse
  BY <1>3 DEF RowOf
<1> QED BY <1>2, <1>3, <1>4 DEF PlaceOf, Place

LEMMA RowsFinite ==
  ASSUME NEW U \in SUBSET Row
  PROVE  IsFiniteSet(U) /\ Cardinality(U) \in 0..Len(File)
<1>1. IsFiniteSet(Row) /\ Cardinality(Row) = Len(File)
  BY Rows, FS_Interval DEF Row
<1>2. IsFiniteSet(U) /\ Cardinality(U) <= Cardinality(Row)
  BY <1>1, FS_Subset
<1>3. Cardinality(U) \in Nat
  BY <1>2, FS_CardinalityType
<1> QED BY <1>1, <1>2, <1>3, Rows

LEMMA PlacesFinite == IsFiniteSet(Place)
  BY ImportsAssumption, FS_Product DEF Place

LEMMA RowQtyType ==
  ASSUME NEW x
  PROVE  \A r \in Row : RowQty(x)[r] \in Nat
  BY Rows DEF RowQty

LEMMA MovementQtyType ==
  ASSUME NEW x
  PROVE  \A m \in Movements : MovementQty(x)[m] \in Nat
<1>1. \A m \in Movements : m[3] \in Row
  BY DEF Movements
<1> QED BY <1>1, RowQtyType DEF MovementQty

LEMMA QtyAtType ==
  ASSUME NEW x, NEW U \in SUBSET Row
  PROVE  QtyAt(U, x) \in Nat
  BY RowsFinite, RowQtyType, SumNat DEF QtyAt

LEMMA QtyType ==
  ASSUME NEW x, NEW M \in SUBSET Movements, IsFiniteSet(M)
  PROVE  Qty(M, x) \in Nat
  BY MovementQtyType, SumNat DEF Qty

\* Movements of other places and those of no quantity count for nothing.
LEMMA QtyZero ==
  ASSUME NEW x, NEW M \in SUBSET Movements, IsFiniteSet(M),
         \A m \in M : PlaceOf(m[3]) # x
  PROVE  Qty(M, x) = 0
<1>1. \A m \in M : MovementQty(x)[m] = 0
  <2>1. \A m \in Movements : m[3] \in Row
    BY DEF Movements
  <2> QED BY <2>1 DEF MovementQty, RowQty
<1> QED BY <1>1, SumZero DEF Qty

LEMMA QtyUnion ==
  ASSUME NEW x, NEW M \in SUBSET Movements, NEW N \in SUBSET Movements,
         IsFiniteSet(M), IsFiniteSet(N), M \intersect N = {}
  PROVE  Qty(M \union N, x) = Qty(M, x) + Qty(N, x)
<1>1. \A m \in M \union N : MovementQty(x)[m] \in Int
  BY MovementQtyType
<1> QED BY <1>1, SumUnion DEF Qty

\* The movements of the rows that have a quantity.
NewMovements(w, j, rows) == {<<j, w, r>> : r \in {s \in rows : File[s].qty > 0}}

LEMMA OneTerm ==
  ASSUME NEW a, NEW f, f[a] \in Int
  PROVE  SumFunctionOnSet(f, {a}) = f[a]
<1>1. IsFiniteSet({a}) /\ a \in {a} /\ {a} \ {a} = {}
  BY FS_Singleton
<1>2. SumFunctionOnSet(f, {a}) = f[a] + SumFunctionOnSet(f, {a} \ {a})
  BY <1>1, SumRemove
<1> QED BY <1>1, <1>2, SumEmpty

\* They are finitely many, and sum up to what the rows do.
LEMMA QtyOfRows ==
  ASSUME NEW w \in Worker, NEW j \in Job, NEW rows \in SUBSET Row, NEW x
  PROVE  /\ NewMovements(w, j, rows) \in SUBSET Movements
         /\ IsFiniteSet(NewMovements(w, j, rows))
         /\ Qty(NewMovements(w, j, rows), x) = QtyAt(rows, x)
<1> DEFINE some == {s \in rows : File[s].qty > 0}
           N == NewMovements(w, j, rows)
           key == [m \in N |-> m[3]]
           f == MovementQty(x)
           g == RowQty(x)
<1>1. N \in SUBSET Movements
  BY DEF NewMovements, Movements
<1>2. IsFiniteSet(some) /\ IsFiniteSet(rows)
  BY RowsFinite
<1>3. IsFiniteSet(N)
  <2> DEFINE h == [r \in some |-> <<j, w, r>>]
  <2>1. N = {h[r] : r \in some}
    BY DEF NewMovements
  <2> HIDE DEF h
  <2> QED BY <1>2, <2>1, ImageFinite
<1>4. \A m \in N : key[m] \in rows /\ f[m] \in Int
  <2>1. \A m \in N : m[3] \in rows
    BY DEF NewMovements
  <2> QED BY <2>1, <1>1, MovementQtyType
<1>5. \A r \in rows : g[r] = SumFunctionOnSet(f, {m \in N : key[m] = r})
  <2> SUFFICES ASSUME NEW r \in rows
               PROVE  g[r] = SumFunctionOnSet(f, {m \in N : key[m] = r})
    OBVIOUS
  <2>1. CASE File[r].qty > 0
    <3>1. {m \in N : key[m] = r} = {<<j, w, r>>}
      BY <2>1 DEF NewMovements
    <3>2. <<j, w, r>> \in Movements /\ f[<<j, w, r>>] = g[r]
      BY DEF Movements, MovementQty
    <3>3. g[r] \in Int
      BY RowQtyType
    <3> HIDE DEF f, g
    <3> QED BY <3>1, <3>2, <3>3, OneTerm
  <2>2. CASE ~(File[r].qty > 0)
    <3>1. {m \in N : key[m] = r} = {}
      BY <2>2 DEF NewMovements
    <3>2. g[r] = 0
      BY <2>2, Rows DEF RowQty
    <3> HIDE DEF f, g, key, N
    <3> QED BY <3>1, <3>2, SumEmpty
  <2> QED BY <2>1, <2>2
<1>6. GroupSums(g, f, key, N, rows)
  BY <1>4, <1>5 DEF GroupSums
<1>7. SumFunctionOnSet(f, N) = SumFunctionOnSet(g, rows)
  <2> HIDE DEF f, g, key, N
  <2> QED BY <1>2, <1>3, <1>6, SumByKey
<1> QED BY <1>1, <1>3, <1>7 DEF Qty, QtyAt

\* A batch is counted row by row.
LEMMA TallyAddsUp ==
  ASSUME NEW rows, NEW batch \in SUBSET Row, NEW bad
  PROVE  /\ Tally(rows, batch, bad) \in Counts
         /\ Sums3(Tally(rows, batch, bad)) = Cardinality(batch)
         /\ Tally(rows, batch, bad).imported = Cardinality(Imported(rows, batch, bad))
         /\ Tally(rows, batch, bad).errors = Cardinality(Failing(rows, batch, bad))
<1> DEFINE ok == Imported(rows, batch, bad)
           no == Failing(rows, batch, bad)
<1>1. ok \in SUBSET batch /\ no \in SUBSET batch /\ ok \intersect no = {}
  BY DEF Imported, Failing
<1>2. Tally(rows, batch, bad) =
        [imported |-> Cardinality(ok),
         skipped |-> Cardinality(batch) - Cardinality(ok) - Cardinality(no),
         errors |-> Cardinality(no)]
  BY DEF Tally, Imported, Failing
<1> HIDE DEF ok, no
<1>3. /\ IsFiniteSet(batch) /\ Cardinality(batch) \in 0..Len(File)
      /\ IsFiniteSet(ok) /\ Cardinality(ok) \in 0..Len(File)
      /\ IsFiniteSet(no) /\ Cardinality(no) \in 0..Len(File)
  BY <1>1, RowsFinite
<1>4. Cardinality(ok \union no) = Cardinality(ok) + Cardinality(no)
  <2>1. Cardinality(ok \union no) =
          Cardinality(ok) + Cardinality(no) - Cardinality(ok \intersect no)
    BY <1>3, FS_Union
  <2>2. Cardinality(ok \intersect no) = 0
    BY <1>1, FS_EmptySet
  <2> QED BY <2>1, <2>2, <1>3
<1>5. Cardinality(ok \union no) <= Cardinality(batch)
  BY <1>1, <1>3, FS_Subset
<1>6. PICK a, b, c : a = Cardinality(batch) /\ b = Cardinality(ok) /\ c = Cardinality(no)
  OBVIOUS
<1>7. a \in 0..Len(File) /\ b \in 0..Len(File) /\ c \in 0..Len(File) /\ b + c <= a
  BY <1>3, <1>4, <1>5, <1>6
<1>8. Tally(rows, batch, bad) = [imported |-> b, skipped |-> a - b - c, errors |-> c]
  BY <1>2, <1>6
<1>9. a - b - c \in 0..Len(File) /\ b + (a - b - c) + c = a
  BY <1>7, Rows
<1> QED BY <1>6, <1>7, <1>8, <1>9 DEF Counts, Sums3, ok, no

-----------------------------------------------------------------------------
(* Types                                                                   *)

WorkerState == [pc : WorkerStep, job : Job \union {None}, next : Nat,
                tally : Counts, late : Nat, read : SUBSET Movements, rows : SUBSET Row]
SawState == [Place -> Nat \union {None}]

LEMMA IdleType == Idle \in WorkerState /\ NoCounts \in Counts
<1>1. NoCounts \in Counts
  BY Rows DEF NoCounts, Counts
<1> QED BY <1>1 DEF Idle, WorkerState, WorkerStep

LEMMA StepNames ==
  /\ Running \subseteq WorkerStep
  /\ {"idle", "failing", "cancel", "retry", "rollback", "launched", "claimed", "check", "batch",
      "completed", "cancelled"} \subseteq WorkerStep
  /\ Active \subseteq Running
  BY DEF Running, WorkerStep, Active

\* What a step does to a worker: it moves on, takes a request, or is done.
LEMMA BecomeType ==
  ASSUME worker \in [Worker -> WorkerState], NEW w \in Worker, NEW pc \in WorkerStep,
         Become(w, pc)
  PROVE  /\ worker' \in [Worker -> WorkerState]
         /\ \A v \in Worker : v # w => worker'[v] = worker[v]
         /\ worker'[w] = [worker[w] EXCEPT !.pc = pc]
  BY DEF Become, WorkerState

LEMMA RestType ==
  ASSUME worker \in [Worker -> WorkerState], NEW w \in Worker, Rest(w)
  PROVE  /\ worker' \in [Worker -> WorkerState]
         /\ \A v \in Worker : v # w => worker'[v] = worker[v]
         /\ worker'[w] = Idle
  BY IdleType DEF Rest

\* What a worker that takes a request starts from.
Fresh(c, pc, j, M) ==
  /\ c.pc = pc /\ c.job = j /\ c.next = 1 /\ c.tally = NoCounts
  /\ c.late = 0 /\ c.read = M

LEMMA TakeType ==
  ASSUME worker \in [Worker -> WorkerState], NEW w \in Worker, NEW pc \in WorkerStep,
         NEW j \in Job, NEW M \in SUBSET Movements, NEW rows \in SUBSET Row,
         Take(w, pc, j, M, rows)
  PROVE  /\ worker' \in [Worker -> WorkerState]
         /\ \A v \in Worker : v # w => worker'[v] = worker[v]
         /\ Fresh(worker'[w], pc, j, M)
<1>1. PICK c : c = [Idle EXCEPT !.pc = pc, !.job = j, !.read = M, !.rows = rows]
  OBVIOUS
<1>2. c \in WorkerState
  BY <1>1, IdleType DEF WorkerState, Idle
<1>3. Fresh(c, pc, j, M)
  BY <1>1 DEF Fresh, Idle
<1>4. worker' = [worker EXCEPT ![w] = c]
  BY <1>1 DEF Take
<1> QED BY <1>2, <1>3, <1>4

LEMMA BalanceType ==
  ASSUME Typed, NEW w \in Worker, NEW x \in Place
  PROVE  Balance(w, x) \in Nat
  BY DEF Balance, Typed, TypeOK

LEMMA WriteType ==
  ASSUME Typed, NEW w \in Worker, NEW j \in Job, NEW rows \in SUBSET Row, Write(w, j, rows)
  PROVE  /\ ledger' = ledger \union NewMovements(w, j, rows)
         /\ ledger' \subseteq Movements /\ IsFiniteSet(ledger')
         /\ creator' \in [Product -> Job \union {None, Others}]
         /\ shelved' = shelved \union Touched(rows) /\ shelved' \subseteq Place
         /\ onHand' \in [Place -> Nat]
         /\ saw' \in [Worker -> SawState]
         /\ lost' \in [Place -> Int]
         /\ activity' = activity
<1>1. ledger' = ledger \union NewMovements(w, j, rows) /\ activity' = activity
  BY DEF Write, NewMovements, StockRows
<1>2. NewMovements(w, j, rows) \subseteq Movements /\ IsFiniteSet(NewMovements(w, j, rows))
  BY QtyOfRows
<1>3. ledger' \subseteq Movements /\ IsFiniteSet(ledger')
  BY <1>1, <1>2, FS_Union DEF Typed, TypeOK
<1>4. creator' \in [Product -> Job \union {None, Others}]
  BY DEF Write, Typed, TypeOK
<1>5. \A x \in Place : QtyAt(rows, x) \in Nat /\ Balance(w, x) \in Nat
  BY QtyAtType, BalanceType
<1>6. onHand' \in [Place -> Nat]
  BY <1>5 DEF Write, Typed, TypeOK
<1>7. lost' \in [Place -> Int]
  BY <1>5 DEF Write, Typed, TypeOK
<1>8. shelved' = shelved \union Touched(rows) /\ shelved' \subseteq Place
  BY Rows DEF Write, Touched, StockRows, Typed, TypeOK
<1>9. saw' \in [Worker -> SawState]
  BY DEF Write, Unseen, SawState, Typed, TypeOK
<1> QED BY <1>1, <1>3, <1>4, <1>6, <1>7, <1>8, <1>9

\* The parts of a batch.
NextOf(w) == worker[w].next + BatchSize
BatchOf(w) == {r \in Row : r >= worker[w].next /\ r < NextOf(w)}
ImportedBy(w, bad) == Imported(Before(NextOf(w)), BatchOf(w), bad)
FailedBy(w, bad) == Failing(Before(NextOf(w)), BatchOf(w), bad)
TallyAfter(w, bad) ==
  Add(worker[w].tally, Tally(Before(NextOf(w)), BatchOf(w), bad))

Furthered(w, bad) ==
  Further(worker[w], NextOf(w), TallyAfter(w, bad), job[worker[w].job] = "cancelled")

Batched(w, bad, j) ==
  /\ worker[w].pc = "batch" /\ j = worker[w].job
  /\ Write(w, j, ImportedBy(w, bad))
  /\ failed' = [failed EXCEPT ![j] = failed[j] \union FailedBy(w, bad)]
  /\ counts' = [counts EXCEPT ![j] = TallyAfter(w, bad)]
  /\ UNCHANGED <<requests, aborted, job, starts, undone, mishap>>

LEMMA RunBatchParts ==
  ASSUME Typed, NEW w \in Worker, NEW bad, RunBatch(w, bad)
  PROVE  /\ Batched(w, bad, worker[w].job)
         /\ worker' = [worker EXCEPT ![w] = Furthered(w, bad)]
<1>1. Batched(w, bad, worker[w].job)
  BY DEF RunBatch, Batched, Typed, TypeOK, Doing, JobOf, NextOf, BatchOf, ImportedBy,
         FailedBy, TallyAfter, Before, AtHand, Processed
<1>2. worker' = [worker EXCEPT ![w] = Furthered(w, bad)]
  BY DEF RunBatch, Doing, JobOf, NextOf, BatchOf, TallyAfter, Before, Furthered, AtHand,
         Processed
<1> QED BY <1>1, <1>2

\* A batch is a part of the file that comes after what was processed before.
LEMMA BatchRows ==
  ASSUME Typed, NEW w \in Worker, NEW bad
  PROVE  /\ NextOf(w) \in Nat
         /\ BatchOf(w) \in SUBSET Row /\ Before(worker[w].next) \in SUBSET Row
         /\ Before(NextOf(w)) = Before(worker[w].next) \union BatchOf(w)
         /\ Before(worker[w].next) \intersect BatchOf(w) = {}
         /\ ImportedBy(w, bad) \in SUBSET BatchOf(w)
         /\ FailedBy(w, bad) \in SUBSET BatchOf(w)
         /\ ImportedBy(w, bad) \intersect FailedBy(w, bad) = {}
<1>1. worker[w].next \in Nat /\ BatchSize \in Nat /\ \A r \in Row : r \in Nat
  BY ImportsAssumption, Rows DEF Typed, TypeOK
<1>2. PICK n \in Nat : n = worker[w].next
  BY <1>1
<1>3. NextOf(w) = n + BatchSize /\ NextOf(w) \in Nat
  BY <1>1, <1>2 DEF NextOf
<1>4. /\ BatchOf(w) = {r \in Row : r >= n /\ r < n + BatchSize}
      /\ Before(worker[w].next) = {r \in Row : r < n}
      /\ Before(NextOf(w)) = {r \in Row : r < n + BatchSize}
  BY <1>2, <1>3 DEF BatchOf, Before
<1>5. /\ Before(NextOf(w)) = Before(worker[w].next) \union BatchOf(w)
      /\ Before(worker[w].next) \intersect BatchOf(w) = {}
  BY <1>1, <1>4
<1>6. /\ ImportedBy(w, bad) \in SUBSET BatchOf(w)
      /\ FailedBy(w, bad) \in SUBSET BatchOf(w)
      /\ ImportedBy(w, bad) \intersect FailedBy(w, bad) = {}
  BY DEF ImportedBy, FailedBy, Imported, Failing
<1> QED BY <1>3, <1>4, <1>5, <1>6

LEMMA SixTerms ==
  ASSUME NEW l \in Nat, NEW ai \in 0..l, NEW ak \in 0..l, NEW ae \in 0..l,
         NEW bi \in 0..l, NEW bk \in 0..l, NEW be \in 0..l,
         (ai + ak + ae) + (bi + bk + be) \in 0..l
  PROVE  /\ ai + bi \in 0..l /\ ak + bk \in 0..l /\ ae + be \in 0..l
         /\ (ai + bi) + (ak + bk) + (ae + be) = (ai + ak + ae) + (bi + bk + be)
  OBVIOUS

LEMMA BatchTally ==
  ASSUME Typed, NEW w \in Worker, Counted(w), NEW bad
  PROVE  /\ TallyAfter(w, bad) \in Counts
         /\ Sums3(TallyAfter(w, bad)) = Cardinality(Before(NextOf(w)))
         /\ TallyAfter(w, bad).imported =
              worker[w].tally.imported + Cardinality(ImportedBy(w, bad))
         /\ TallyAfter(w, bad).errors =
              worker[w].tally.errors + Cardinality(FailedBy(w, bad))
<1> DEFINE old == Before(worker[w].next)
           batch == BatchOf(w)
<1>1. old \in SUBSET Row /\ batch \in SUBSET Row /\ old \intersect batch = {}
      /\ Before(NextOf(w)) = old \union batch
  BY BatchRows
<1>2. PICK a : a = worker[w].tally
  OBVIOUS
<1>3. PICK b : b = Tally(Before(NextOf(w)), batch, bad)
  OBVIOUS
<1>4. a \in Counts /\ Sums3(a) = Cardinality(old)
  BY <1>2 DEF Counted, Typed, TypeOK
<1>5. /\ b \in Counts /\ Sums3(b) = Cardinality(batch)
      /\ b.imported = Cardinality(ImportedBy(w, bad))
      /\ b.errors = Cardinality(FailedBy(w, bad))
  BY <1>1, <1>3, TallyAddsUp DEF ImportedBy, FailedBy
<1>6. TallyAfter(w, bad) = [imported |-> a.imported + b.imported,
        skipped |-> a.skipped + b.skipped, errors |-> a.errors + b.errors]
  BY <1>2, <1>3 DEF TallyAfter, Add
<1> HIDE DEF old, batch
<1>7. /\ IsFiniteSet(old) /\ Cardinality(old) \in 0..Len(File)
      /\ IsFiniteSet(batch) /\ Cardinality(batch) \in 0..Len(File)
      /\ Cardinality(old \union batch) \in 0..Len(File)
  <2>1. old \union batch \in SUBSET Row
    BY <1>1
  <2> QED BY <1>1, <2>1, RowsFinite
<1>8. Cardinality(old \union batch) = Cardinality(old) + Cardinality(batch)
  <2>1. Cardinality(old \union batch) =
          Cardinality(old) + Cardinality(batch) - Cardinality(old \intersect batch)
    BY <1>7, FS_Union
  <2>2. Cardinality(old \intersect batch) = 0
    BY <1>1, FS_EmptySet
  <2> QED BY <2>1, <2>2, <1>7
<1>9. /\ a.imported \in 0..Len(File) /\ a.skipped \in 0..Len(File) /\ a.errors \in 0..Len(File)
      /\ b.imported \in 0..Len(File) /\ b.skipped \in 0..Len(File) /\ b.errors \in 0..Len(File)
  BY <1>4, <1>5 DEF Counts
<1>10. PICK n, l : n = Cardinality(Before(NextOf(w))) /\ l = Len(File)
  OBVIOUS
<1>11. PICK ai, ak, ae, bi, bk, be :
         /\ ai = a.imported /\ ak = a.skipped /\ ae = a.errors
         /\ bi = b.imported /\ bk = b.skipped /\ be = b.errors
  OBVIOUS
<1>12. /\ a.imported + b.imported \in 0..Len(File) /\ a.skipped + b.skipped \in 0..Len(File)
       /\ a.errors + b.errors \in 0..Len(File)
       /\ (a.imported + b.imported) + (a.skipped + b.skipped) + (a.errors + b.errors) = n
  <2>1. l \in Nat /\ n \in 0..l
    BY <1>1, <1>7, <1>10, Rows
  <2>2. /\ ai \in 0..l /\ ak \in 0..l /\ ae \in 0..l
        /\ bi \in 0..l /\ bk \in 0..l /\ be \in 0..l
    BY <1>9, <1>10, <1>11
  <2>3. n = (ai + ak + ae) + (bi + bk + be)
    BY <1>1, <1>4, <1>5, <1>8, <1>10, <1>11 DEF Sums3
  <2>4. /\ ai + bi \in 0..l /\ ak + bk \in 0..l /\ ae + be \in 0..l
        /\ (ai + bi) + (ak + bk) + (ae + be) = n
    <3>1. (ai + ak + ae) + (bi + bk + be) \in 0..l
      BY <2>1, <2>3
    <3>2. /\ ai + bi \in 0..l /\ ak + bk \in 0..l /\ ae + be \in 0..l
          /\ (ai + bi) + (ak + bk) + (ae + be) = (ai + ak + ae) + (bi + bk + be)
      BY <2>1, <2>2, <3>1, SixTerms
    <3> QED BY <2>3, <3>2
  <2> QED BY <2>4, <1>10, <1>11
<1>13. TallyAfter(w, bad) \in Counts
  BY <1>6, <1>12 DEF Counts
<1>14. Sums3(TallyAfter(w, bad)) = n
  BY <1>6, <1>12 DEF Sums3
<1> QED BY <1>2, <1>5, <1>6, <1>10, <1>13, <1>14

LEMMA MovedBounds ==
  ASSUME Typed, Moved < MaxActivity
  PROVE  \A x \in Place : /\ activity[x].receipts + 1 \in 0..MaxActivity
                          /\ activity[x].issues + 1 \in 0..MaxActivity
<1> SUFFICES ASSUME NEW x \in Place
             PROVE  /\ activity[x].receipts + 1 \in 0..MaxActivity
                    /\ activity[x].issues + 1 \in 0..MaxActivity
  OBVIOUS
<1>1. \A y \in Place : activity[y].receipts \in Nat /\ activity[y].issues \in Nat
  BY ImportsAssumption DEF Typed, TypeOK
<1>2. \A y \in Place : MovedAt[y] = activity[y].receipts + activity[y].issues
  BY DEF MovedAt
<1>3. \A y \in Place : MovedAt[y] \in Nat
  BY <1>1, <1>2
<1>4. MovedAt[x] <= Moved /\ Moved \in Nat
  BY <1>3, PlacesFinite, SumBounds, SumNat DEF Moved
<1>5. PICK r \in Nat, i \in Nat, m \in Nat :
        r = activity[x].receipts /\ i = activity[x].issues /\ m = Moved
  BY <1>1, <1>4
<1>6. r + i <= m /\ m < MaxActivity /\ MaxActivity \in Nat
  BY <1>2, <1>4, <1>5, ImportsAssumption
<1>7. r + 1 \in 0..MaxActivity /\ i + 1 \in 0..MaxActivity
  BY <1>6
<1> QED BY <1>5, <1>7

LEMMA FurtherType ==
  ASSUME Typed, NEW w \in Worker, Counted(w), NEW bad
  PROVE  /\ Furthered(w, bad) \in WorkerState
         /\ Furthered(w, bad).pc = AfterBatch(NextOf(w))
         /\ Furthered(w, bad).job = worker[w].job
         /\ Furthered(w, bad).next = NextOf(w)
         /\ Furthered(w, bad).tally = TallyAfter(w, bad)
         /\ Furthered(w, bad).late =
              IF job[worker[w].job] = "cancelled" THEN worker[w].late + 1 ELSE worker[w].late
         /\ Furthered(w, bad).read = worker[w].read
<1> PICK pc, n, t, d :
      /\ pc = AfterBatch(NextOf(w)) /\ n = NextOf(w) /\ t = TallyAfter(w, bad)
      /\ d = IF job[worker[w].job] = "cancelled" THEN worker[w].late + 1 ELSE worker[w].late
  OBVIOUS
<1>1. worker[w] \in WorkerState
  BY DEF Typed, TypeOK, WorkerState
<1>2. Furthered(w, bad) =
        [worker[w] EXCEPT !.pc = pc, !.next = n, !.tally = t, !.late = d]
  BY <1>1 DEF Furthered, Further, WorkerState
<1>3. pc \in WorkerStep /\ n \in Nat /\ t \in Counts
  BY BatchRows, BatchTally, StepNames DEF AfterBatch
<1>4. d \in Nat
  BY <1>1 DEF WorkerState
<1> QED BY <1>1, <1>2, <1>3, <1>4 DEF WorkerState

\* What each step does to the workers.
LEMMA WorkerTypes ==
  ASSUME Typed, WorkersOK, Next
  PROVE  worker' \in [Worker -> WorkerState]
<1>0. /\ worker \in [Worker -> WorkerState]
      /\ \A j \in Job : MovementsOf(j) \in SUBSET Movements
  BY DEF Typed, TypeOK, WorkerState, MovementsOf
<1>1. ASSUME NEW w \in Worker, Step(w)
      PROVE  worker' \in [Worker -> WorkerState]
  <2>1. CASE Claim(w)
    <3>1. Become(w, "claimed") \/ Rest(w)
      BY <2>1 DEF Claim
    <3> QED BY <1>0, <3>1, BecomeType, RestType, StepNames
  <2>2. CASE Start(w)
    BY <1>0, <2>2, BecomeType, StepNames DEF Start
  <2>3. CASE CheckCancel(w)
    <3>1. PICK pc \in {"cancelled", "batch"}, late \in {worker[w].late, 0} :
            worker' = [worker EXCEPT ![w] = [@ EXCEPT !.pc = pc, !.late = late]]
      BY <2>3 DEF CheckCancel
    <3>2. worker[w] \in WorkerState /\ pc \in WorkerStep
      BY <1>0, <3>1, StepNames
    <3>3. late \in Nat
      BY <3>1, <3>2 DEF WorkerState
    <3>4. [worker[w] EXCEPT !.pc = pc, !.late = late] \in WorkerState
      BY <3>2, <3>3 DEF WorkerState
    <3> QED BY <1>0, <3>1, <3>4
  <2>4. CASE Finish(w)
    BY <1>0, <2>4, RestType DEF Finish
  <2>5. CASE MarkFailed(w)
    BY <1>0, <2>5, RestType DEF MarkFailed
  <2>6. CASE Cancel(w)
    BY <1>0, <2>6, RestType DEF Cancel
  <2>7. CASE Rollback(w)
    BY <1>0, <2>7, RestType DEF Rollback
  <2>8. CASE \E bad \in SUBSET Row : RunBatch(w, bad)
    <3>1. PICK bad \in SUBSET Row : RunBatch(w, bad)
      BY <2>8
    <3>2. Furthered(w, bad) \in WorkerState
      BY FurtherType DEF WorkersOK
    <3> QED BY <1>0, <3>1, <3>2, RunBatchParts
  <2>9. CASE \E bad \in SUBSET Row, k \in Job \ FirstJob : Retry(w, k, bad)
    BY <1>0, <2>9, RestType DEF Retry
  <2> QED BY <1>1, <2>1, <2>2, <2>3, <2>4, <2>5, <2>6, <2>7, <2>8, <2>9 DEF Step
<1>2. ASSUME NEW w \in Worker, Raise(w)
      PROVE  worker' \in [Worker -> WorkerState]
  BY <1>0, <1>2, BecomeType, StepNames DEF Raise
<1>3. ASSUME NEW w \in Worker, NEW j \in Job,
             Confirm(w, j) \/ ReadForCancel(w, j) \/ ReadForRetry(w, j) \/ ReadForRollback(w, j)
      PROVE  worker' \in [Worker -> WorkerState]
  <2>1. PICK pc \in {"launched", "cancel", "retry", "rollback"}, M \in {{}, MovementsOf(j)},
             rows \in {{}, failed[j]} : Take(w, pc, j, M, rows)
    BY <1>3 DEF Confirm, ReadForCancel, ReadForRetry, ReadForRollback
  <2>2. pc \in WorkerStep /\ M \in SUBSET Movements /\ rows \in SUBSET Row
    BY <1>0, <2>1, StepNames DEF Typed, TypeOK
  <2> QED BY <1>0, <2>1, <2>2, TakeType
<1>4. CASE Stop
  BY <1>4, IdleType DEF Stop
<1>5. CASE worker' = worker
  BY <1>0, <1>5
<1> QED
  BY <1>1, <1>2, <1>3, <1>4, <1>5 DEF Next, Upload, LookUp, CreateProduct, Move

\* What is left of the stock when a job is rolled back.
Allowed(w) ==
  /\ \A x \in Place : StockWithout(worker[w].read)[x] >= 0
  /\ \A p \in CreatedBy(worker[w].job) : Deletable(p, worker[w].read)

RolledBack(w) ==
  /\ onHand' = [x \in Place |-> IF x[1] \in CreatedBy(worker[w].job) THEN 0
                                ELSE StockWithout(worker[w].read)[x]]
  /\ lost' = [x \in Place |-> IF x[1] \in CreatedBy(worker[w].job) THEN 0 ELSE lost[x]]
  /\ saw' = [v \in Worker |->
       [x \in Place |-> IF x[1] \in CreatedBy(worker[w].job) THEN None ELSE saw[v][x]]]
  /\ shelved' = {x \in shelved : x[1] \notin CreatedBy(worker[w].job)}
  /\ ledger' = ledger \ worker[w].read
  /\ creator' = [p \in Product |-> IF p \in CreatedBy(worker[w].job) THEN None ELSE creator[p]]
  /\ job' = [job EXCEPT ![worker[w].job] = "rolled_back"]
  /\ undone' = undone \union {worker[w].job}
  /\ mishap' = IF worker[w].read \subseteq ledger THEN mishap ELSE mishap \union {"doubled"}

LEMMA RollbackParts ==
  ASSUME NEW w \in Worker, Rollback(w)
  PROVE  /\ worker[w].pc = "rollback"
         /\ Rest(w)
         /\ UNCHANGED <<requests, counts, failed, aborted, activity, starts>>
         /\ \/ Allowed(w) /\ RolledBack(w)
            \/ UNCHANGED <<onHand, lost, saw, shelved, ledger, creator, job, undone, mishap>>
<1>1. worker[w].pc = "rollback" /\ Rest(w) /\ UNCHANGED <<requests, counts, failed, aborted, activity, starts>>
  BY DEF Rollback, Doing
<1>2. \/ Allowed(w) /\ RolledBack(w)
      \/ UNCHANGED <<onHand, lost, saw, shelved, ledger, creator, job, undone, mishap>>
  BY DEF Rollback, Allowed, RolledBack, JobOf
<1> QED BY <1>1, <1>2

LEMMA StockTypes ==
  ASSUME Typed, WorkersOK, Next
  PROVE  /\ ledger' \subseteq Movements /\ IsFiniteSet(ledger')
         /\ creator' \in [Product -> Job \union {None, Others}]
         /\ shelved' \subseteq Place
         /\ onHand' \in [Place -> Nat]
         /\ saw' \in [Worker -> SawState]
         /\ lost' \in [Place -> Int]
         /\ activity' \in [Place -> [receipts : 0..MaxActivity, issues : 0..MaxActivity]]
<1> DEFINE Goal == /\ ledger' \subseteq Movements /\ IsFiniteSet(ledger')
                   /\ creator' \in [Product -> Job \union {None, Others}]
                   /\ shelved' \subseteq Place
                   /\ onHand' \in [Place -> Nat]
                   /\ saw' \in [Worker -> SawState]
                   /\ lost' \in [Place -> Int]
                   /\ activity' \in [Place -> [receipts : 0..MaxActivity, issues : 0..MaxActivity]]
<1> SUFFICES Goal
  OBVIOUS
<1>0. saw \in [Worker -> SawState]
  BY DEF Typed, TypeOK, SawState
<1>1. CASE stock' = stock
  BY <1>0, <1>1 DEF stock, Typed, TypeOK
<1>2. ASSUME NEW w \in Worker, NEW bad \in SUBSET Row, RunBatch(w, bad)
      PROVE  Goal
  <2>1. worker[w].job \in Job /\ worker[w].pc = "batch"
    BY <1>2, RunBatchParts DEF Batched, WorkersOK, Knows
  <2>2. Write(w, worker[w].job, ImportedBy(w, bad)) /\ ImportedBy(w, bad) \in SUBSET Row
    BY <1>2, RunBatchParts, BatchRows DEF Batched
  <2> QED BY <2>1, <2>2, WriteType DEF Typed, TypeOK
<1>3. ASSUME NEW w \in Worker, NEW k \in Job, NEW bad \in SUBSET Row, Retry(w, k, bad)
      PROVE  Goal
  <2>1. Imported(worker[w].rows, worker[w].rows, bad) \in SUBSET Row
    BY DEF Imported, Typed, TypeOK
  <2>2. Write(w, k, Imported(worker[w].rows, worker[w].rows, bad))
    BY <1>3 DEF Retry
  <2> QED BY <2>1, <2>2, WriteType DEF Typed, TypeOK
<1>4. ASSUME NEW w \in Worker, Rollback(w)
      PROVE  Goal
  <2>1. CASE UNCHANGED <<onHand, lost, saw, shelved, ledger, creator>>
    BY <1>0, <1>4, <2>1, RollbackParts DEF Typed, TypeOK
  <2>2. CASE Allowed(w) /\ RolledBack(w)
    <3> PICK M, gone : M = worker[w].read /\ gone = CreatedBy(worker[w].job)
      OBVIOUS
    <3>1. M \in SUBSET Movements /\ IsFiniteSet(M)
      BY DEF Typed, TypeOK, WorkersOK, Knows
    <3>2. ledger' \subseteq Movements /\ IsFiniteSet(ledger')
      <4>1. ledger' \subseteq ledger
        BY <2>2 DEF RolledBack
      <4> QED BY <4>1, FS_Subset DEF Typed, TypeOK
    <3>3. creator' \in [Product -> Job \union {None, Others}]
      BY <2>2 DEF RolledBack, Typed, TypeOK
    <3>4. \A x \in Place : StockWithout(M)[x] \in Nat
      <4> SUFFICES ASSUME NEW x \in Place PROVE StockWithout(M)[x] \in Nat
        OBVIOUS
      <4>1. PICK q \in Nat : q = Qty(M, x)
        BY <3>1, QtyType
      <4>2. StockWithout(M)[x] = IF x \in shelved THEN onHand[x] - q ELSE onHand[x]
        BY <4>1 DEF StockWithout
      <4>3. onHand[x] \in Nat /\ StockWithout(M)[x] >= 0
        BY <2>2 DEF Allowed, Typed, TypeOK
      <4> QED BY <4>2, <4>3
    <3>5. onHand' \in [Place -> Nat]
      BY <2>2, <3>4 DEF RolledBack
    <3>6. activity' = activity
      BY <1>4, RollbackParts
    <3>7. shelved' \subseteq Place /\ lost' \in [Place -> Int]
      BY <2>2 DEF RolledBack, Typed, TypeOK
    <3>8. saw' \in [Worker -> SawState]
      BY <1>0, <2>2 DEF RolledBack, SawState
    <3> QED BY <3>2, <3>3, <3>5, <3>6, <3>7, <3>8 DEF Typed, TypeOK
  <2> QED BY <1>4, <2>1, <2>2, RollbackParts
<1>5. ASSUME NEW p \in Product, CreateProduct(p)
      PROVE  Goal
  BY <1>0, <1>5 DEF CreateProduct, Typed, TypeOK
<1>6. ASSUME NEW x \in Place, NEW kind \in {"receipts", "issues"}, Move(x, kind)
      PROVE  Goal
  <2>1. /\ ledger' = ledger /\ creator' = creator /\ saw' = saw /\ lost' = lost
        /\ shelved' \subseteq Place
    BY <1>6 DEF Move, Typed, TypeOK
  <2>2. onHand' \in [Place -> Nat]
    <3>1. PICK q \in {1, -1} : q = IF kind = "receipts" THEN 1 ELSE -1
      OBVIOUS
    <3>2. onHand[x] + q >= 0 /\ onHand' = [onHand EXCEPT ![x] = onHand[x] + q]
      BY <1>6, <3>1 DEF Move
    <3>3. onHand[x] \in Nat
      BY DEF Typed, TypeOK
    <3>4. onHand[x] + q \in Nat
      BY <3>1, <3>2, <3>3
    <3> QED BY <3>2, <3>4 DEF Typed, TypeOK
  <2>3. activity' \in [Place -> [receipts : 0..MaxActivity, issues : 0..MaxActivity]]
    <3>1. /\ activity[x].receipts + 1 \in 0..MaxActivity
          /\ activity[x].issues + 1 \in 0..MaxActivity
      BY <1>6, MovedBounds DEF Move
    <3>2. CASE kind = "receipts"
      <4>1. activity' = [activity EXCEPT ![x].receipts = activity[x].receipts + 1]
        BY <1>6, <3>2 DEF Move, Typed, TypeOK
      <4> QED BY <3>1, <4>1 DEF Typed, TypeOK
    <3>3. CASE kind = "issues"
      <4>1. activity' = [activity EXCEPT ![x].issues = activity[x].issues + 1]
        BY <1>6, <3>3 DEF Move, Typed, TypeOK
      <4> QED BY <3>1, <4>1 DEF Typed, TypeOK
    <3> QED BY <3>2, <3>3
  <2> QED BY <1>0, <2>1, <2>2, <2>3 DEF Typed, TypeOK
<1>7. ASSUME UNCHANGED <<ledger, creator, shelved, onHand, lost, activity>>,
             saw' \in [Worker -> SawState]
      PROVE  Goal
  BY <1>7 DEF Typed, TypeOK
<1>8. ASSUME NEW w \in Worker, Raise(w)
      PROVE  Goal
  <2>1. saw' \in [Worker -> SawState]
    BY <1>0, <1>8 DEF Raise, Unseen, SawState
  <2> QED BY <1>7, <1>8, <2>1 DEF Raise
<1>9. CASE Stop
  <2>1. saw' \in [Worker -> SawState]
    BY <1>9 DEF Stop, Unseen, SawState
  <2> QED BY <1>7, <1>9, <2>1 DEF Stop
<1>10. ASSUME NEW w \in Worker, NEW x \in Place, LookUp(w, x)
       PROVE  Goal
  <2>1. saw' = [saw EXCEPT ![w] = [saw[w] EXCEPT ![x] = onHand[x]]] /\ onHand[x] \in Nat
    BY <1>0, <1>10 DEF LookUp, Typed, TypeOK, SawState
  <2>2. [saw[w] EXCEPT ![x] = onHand[x]] \in SawState
    BY <1>0, <2>1 DEF SawState
  <2>3. saw' \in [Worker -> SawState]
    BY <1>0, <2>1, <2>2
  <2> QED BY <1>7, <1>10, <2>3 DEF LookUp
<1> HIDE DEF Goal
<1> QED
  BY <1>1, <1>2, <1>3, <1>4, <1>5, <1>6, <1>8, <1>9, <1>10
  DEF Next, Step, Upload, Confirm, Claim, Start, CheckCancel, Finish, MarkFailed,
      ReadForCancel, Cancel, ReadForRetry, ReadForRollback

LEMMA JobTypes ==
  ASSUME Typed, WorkersOK, Next
  PROVE  /\ job' \in [Job -> JobStatus]
         /\ counts' \in [Job -> Counts]
         /\ failed' \in [Job -> SUBSET Row]
         /\ aborted' \subseteq Job
         /\ requests' \in 0..MaxRequests
         /\ starts' \in [Job -> Nat]
         /\ undone' \subseteq Job
         /\ mishap' \subseteq {"stopped", "doubled"}
<1> DEFINE Goal == /\ job' \in [Job -> JobStatus]
                   /\ counts' \in [Job -> Counts]
                   /\ failed' \in [Job -> SUBSET Row]
                   /\ aborted' \subseteq Job
                   /\ requests' \in 0..MaxRequests
                   /\ starts' \in [Job -> Nat]
                   /\ undone' \subseteq Job
                   /\ mishap' \subseteq {"stopped", "doubled"}
<1> SUFFICES Goal
  OBVIOUS
<1> USE DEF Typed, TypeOK
<1>0. \A w \in Worker : worker[w].pc # "idle" => worker[w].job \in Job
  BY DEF WorkersOK, Knows
<1>1. ASSUME NEW j \in FirstJob, Upload(j)
      PROVE  Goal
  BY <1>1, ImportsAssumption DEF Upload, JobStatus
<1>2. ASSUME NEW w \in Worker, Claim(w) \/ CheckCancel(w) \/ Raise(w)
      PROVE  Goal
  BY <1>2 DEF Claim, CheckCancel, Raise
<1>3. ASSUME NEW w \in Worker, Start(w)
      PROVE  Goal
  BY <1>0, <1>3 DEF Start, Doing, JobOf, JobStatus
<1>4. ASSUME NEW w \in Worker, Finish(w)
      PROVE  Goal
  <2>1. worker[w].tally \in Counts
    OBVIOUS
  <2> QED BY <1>0, <1>4, <2>1 DEF Finish, Doing, JobOf, JobStatus
<1>5. ASSUME NEW w \in Worker, MarkFailed(w) \/ Cancel(w)
      PROVE  Goal
  BY <1>0, <1>5 DEF MarkFailed, Cancel, Doing, JobOf, JobStatus
<1>6. ASSUME NEW w \in Worker, Rollback(w)
      PROVE  Goal
  <2>1. worker[w].job \in Job /\ "rolled_back" \in JobStatus
    BY <1>0, <1>6, RollbackParts DEF JobStatus
  <2>2. UNCHANGED <<requests, counts, failed, aborted, starts>>
    BY <1>6, RollbackParts
  <2>3. CASE UNCHANGED <<job, undone, mishap>>
    BY <2>2, <2>3
  <2>4. CASE RolledBack(w)
    <3>1. job' \in [Job -> JobStatus] /\ undone' \subseteq Job
      BY <2>1, <2>4 DEF RolledBack
    <3>2. mishap' \subseteq {"stopped", "doubled"}
      BY <2>4 DEF RolledBack
    <3> QED BY <2>2, <3>1, <3>2
  <2> QED BY <1>6, <2>3, <2>4, RollbackParts
<1>7. ASSUME NEW w \in Worker, NEW bad \in SUBSET Row, RunBatch(w, bad)
      PROVE  Goal
  <2>1. Batched(w, bad, worker[w].job)
    BY <1>7, RunBatchParts
  <2>2. TallyAfter(w, bad) \in Counts
    BY BatchTally DEF WorkersOK
  <2>3. FailedBy(w, bad) \in SUBSET Row
    BY BatchRows
  <2> QED BY <2>1, <2>2, <2>3 DEF Batched
<1>8. ASSUME NEW w \in Worker, NEW j \in Job,
             Confirm(w, j) \/ ReadForCancel(w, j) \/ ReadForRetry(w, j) \/ ReadForRollback(w, j)
      PROVE  Goal
  BY <1>8, ImportsAssumption DEF Confirm, ReadForCancel, ReadForRetry, ReadForRollback, Take
<1>9. ASSUME NEW w \in Worker, NEW k \in Job, NEW bad \in SUBSET Row, Retry(w, k, bad)
      PROVE  Goal
  <2>1. /\ worker[w].rows \in SUBSET Row
        /\ Failing(worker[w].rows, worker[w].rows, bad) \in SUBSET Row
    BY DEF Failing
  <2>2. Tally(worker[w].rows, worker[w].rows, bad) \in Counts
    BY <2>1, TallyAddsUp
  <2> QED BY <1>9, <2>1, <2>2 DEF Retry, JobStatus
<1>10. CASE Stop
  BY <1>10 DEF Stop
<1>11. ASSUME NEW p \in Product, CreateProduct(p)
       PROVE  Goal
  BY <1>11 DEF CreateProduct
<1>12. ASSUME NEW x \in Place, NEW kind \in {"receipts", "issues"}, Move(x, kind)
       PROVE  Goal
  BY <1>12 DEF Move
<1>13. ASSUME NEW w \in Worker, NEW x \in Place, LookUp(w, x)
       PROVE  Goal
  BY <1>13 DEF LookUp
<1> HIDE DEF Goal, Typed, TypeOK
<1> QED
  BY <1>1, <1>2, <1>3, <1>4, <1>5, <1>6, <1>7, <1>8, <1>9, <1>10, <1>11, <1>12, <1>13
  DEF Next, Step

LEMMA NextTypes ==
  ASSUME Typed, WorkersOK, Next
  PROVE  Typed'
<1>1. worker' \in [Worker -> WorkerState]
  BY WorkerTypes
<1> QED BY <1>1, StockTypes, JobTypes DEF Typed, TypeOK, WorkerState, SawState

-----------------------------------------------------------------------------
(* Workers                                                                 *)

WorkerOK(w) == Knows(w) /\ Ahead(w) /\ Counted(w) /\ StopsIn(w)

\* A worker that does nothing, while nobody records a movement as its own.
LEMMA WorkerKept ==
  ASSUME NEW v \in Worker, WorkerOK(v), worker'[v] = worker[v],
         worker[v].pc # "idle" =>
           \A m \in ledger' : m[2] = v => m \in ledger
  PROVE  WorkerOK(v)'
<1>1. Knows(v)'
  BY DEF WorkerOK, Knows
<1>2. Ahead(v)'
  BY DEF WorkerOK, Ahead
<1>3. Counted(v)' /\ StopsIn(v)'
  BY DEF WorkerOK, Counted, StopsIn, Before
<1> QED BY <1>1, <1>2, <1>3 DEF WorkerOK

LEMMA NothingBefore == Before(1) = {} /\ Cardinality(Before(1)) = 0 /\ Sums3(NoCounts) = 0
<1>1. \A r \in Row : ~(r < 1)
  BY Rows DEF Row
<1> QED BY <1>1, FS_EmptySet DEF Before, Sums3, NoCounts

LEMMA WorkerIdle ==
  ASSUME NEW v \in Worker, worker'[v] = Idle
  PROVE  WorkerOK(v)'
<1>0. /\ worker'[v].pc = "idle" /\ worker'[v].next = 1 /\ worker'[v].tally = NoCounts
      /\ worker'[v].late = 0 /\ worker'[v].read = {}
  BY DEF Idle
<1>1. Knows(v)'
  BY <1>0, FS_EmptySet DEF Knows, Running
<1>2. Ahead(v)'
  BY <1>0 DEF Ahead
<1>3. Counted(v)'
  BY <1>0, NothingBefore DEF Counted, Before
<1>4. StopsIn(v)'
  BY <1>0 DEF StopsIn
<1> QED BY <1>1, <1>2, <1>3, <1>4 DEF WorkerOK

LEMMA WorkerFresh ==
  ASSUME NEW v \in Worker, NEW j \in Job,
         NEW pc \in {"launched", "cancel", "retry", "rollback"},
         NEW M, IsFiniteSet(M), \A m \in M : m[1] = j,
         Fresh(worker'[v], pc, j, M), ledger' = ledger,
         pc \in {"launched", "cancel"} => j \in FirstJob,
         pc = "launched" => MovementsOf(j) = {}
  PROVE  WorkerOK(v)'
<1>0. /\ worker'[v].pc = pc /\ worker'[v].next = 1 /\ worker'[v].tally = NoCounts
      /\ worker'[v].late = 0 /\ worker'[v].read = M /\ worker'[v].job = j
  BY DEF Fresh
<1>1. Knows(v)'
  BY <1>0 DEF Knows, Running
<1>2. Ahead(v)'
  BY <1>0 DEF Ahead, MovementsOf
<1>3. Counted(v)'
  BY <1>0, NothingBefore DEF Counted, Before
<1>4. StopsIn(v)'
  BY <1>0 DEF StopsIn
<1> QED BY <1>1, <1>2, <1>3, <1>4 DEF WorkerOK

LEMMA WorkerMoves ==
  ASSUME Typed, NEW v \in Worker, WorkerOK(v), NEW pc \in WorkerStep,
         worker'[v] = [worker[v] EXCEPT !.pc = pc], ledger' = ledger,
         \/ pc = "claimed" /\ worker[v].pc = "launched"
         \/ pc = "check" /\ worker[v].pc = "claimed"
         \/ pc = "failing" /\ worker[v].pc \in Running
  PROVE  WorkerOK(v)'
<1>0. /\ worker'[v].pc = pc /\ worker'[v].next = worker[v].next
      /\ worker'[v].tally = worker[v].tally /\ worker'[v].job = worker[v].job
      /\ worker'[v].late = worker[v].late /\ worker'[v].read = worker[v].read
  BY DEF Typed, TypeOK
<1>1. Knows(v)'
  <2>1. worker[v].pc # "idle" /\ worker[v].pc \in Running
    BY DEF Running
  <2> QED BY <1>0, <2>1 DEF WorkerOK, Knows, Running
<1>2. Ahead(v)'
  BY <1>0 DEF Ahead, WorkerOK
<1>3. Counted(v)'
  BY <1>0 DEF Counted, Before, WorkerOK
<1>4. StopsIn(v)'
  BY <1>0 DEF StopsIn, WorkerOK
<1> QED BY <1>1, <1>2, <1>3, <1>4 DEF WorkerOK

\* The movements a worker writes are its own.
LEMMA OwnMovements ==
  ASSUME NEW w, NEW j, NEW rows, NEW v, v # w,
         ledger' = ledger \union NewMovements(w, j, rows)
  PROVE  \A m \in ledger' : m[2] = v => m \in ledger
  BY DEF NewMovements

LEMMA NextWorkers ==
  ASSUME Typed, WorkersOK, JobsOK, Next
  PROVE  WorkersOK'
<1> SUFFICES ASSUME NEW v \in Worker PROVE WorkerOK(v)'
  BY DEF WorkersOK, WorkerOK
<1>0. /\ worker \in [Worker -> WorkerState] /\ IsFiniteSet(ledger)
      /\ \A j \in Job : MovementsOf(j) \in SUBSET Movements
      /\ \A u \in Worker : WorkerOK(u)
  BY DEF Typed, TypeOK, WorkerState, MovementsOf, WorkersOK, WorkerOK
<1>1. CASE worker' = worker /\ ledger' = ledger
  BY <1>0, <1>1, WorkerKept
<1>2. CASE Stop
  <2>1. worker'[v] = Idle
    BY <1>2 DEF Stop
  <2> QED BY <2>1, WorkerIdle
<1>3. ASSUME NEW w \in Worker, NEW k \in Job, NEW bad \in SUBSET Row, Retry(w, k, bad)
      PROVE  WorkerOK(v)'
  <2>1. Rest(w) /\ Write(w, k, Imported(worker[w].rows, worker[w].rows, bad))
    BY <1>3 DEF Retry
  <2>2. Imported(worker[w].rows, worker[w].rows, bad) \in SUBSET Row
    BY DEF Imported, Typed, TypeOK
  <2>3. ledger' = ledger \union NewMovements(w, k, Imported(worker[w].rows, worker[w].rows, bad))
    BY <2>1, <2>2, WriteType
  <2>4. /\ v # w => worker'[v] = worker[v]
        /\ worker'[w] = Idle
    BY <1>0, <2>1, RestType
  <2>5. v # w => \A m \in ledger' : m[2] = v => m \in ledger
    BY <2>3, OwnMovements
  <2> QED BY <1>0, <2>4, <2>5, WorkerIdle, WorkerKept
<1>4. ASSUME NEW w \in Worker, NEW pc \in {"claimed", "check", "failing"}, Become(w, pc),
             \/ pc = "claimed" /\ worker[w].pc = "launched"
             \/ pc = "check" /\ worker[w].pc = "claimed"
             \/ pc = "failing" /\ worker[w].pc \in Running,
             ledger' = ledger
      PROVE  WorkerOK(v)'
  <2>1. pc \in WorkerStep
    BY StepNames
  <2>2. /\ v # w => worker'[v] = worker[v]
        /\ worker'[w] = [worker[w] EXCEPT !.pc = pc]
    BY <1>0, <1>4, <2>1, BecomeType
  <2>3. CASE v = w
    BY <1>0, <1>4, <2>1, <2>2, <2>3, WorkerMoves
  <2>4. CASE v # w
    BY <1>0, <1>4, <2>2, <2>4, WorkerKept
  <2> QED BY <2>3, <2>4
<1>5. ASSUME NEW w \in Worker, Rest(w), \A m \in ledger' : m \in ledger
      PROVE  WorkerOK(v)'
  <2>1. /\ v # w => worker'[v] = worker[v]
        /\ worker'[w] = Idle
    BY <1>0, <1>5, RestType
  <2> QED BY <1>0, <1>5, <2>1, WorkerIdle, WorkerKept
<1>6. ASSUME NEW w \in Worker, NEW pc \in {"launched", "cancel", "retry", "rollback"},
             NEW j \in Job, NEW M \in {{}, MovementsOf(j)}, NEW rows \in SUBSET Row,
             Take(w, pc, j, M, rows), ledger' = ledger,
             pc \in {"launched", "cancel"} => j \in FirstJob,
             pc = "launched" => MovementsOf(j) = {}
      PROVE  WorkerOK(v)'
  <2>1. pc \in WorkerStep /\ M \in SUBSET Movements
    BY <1>0, StepNames
  <2>2. /\ v # w => worker'[v] = worker[v]
        /\ Fresh(worker'[w], pc, j, M)
    BY <1>0, <1>6, <2>1, TakeType
  <2>3. IsFiniteSet(M) /\ \A m \in M : m[1] = j
    <3>1. IsFiniteSet(MovementsOf(j)) /\ IsFiniteSet({})
      BY <1>0, FS_Subset, FS_EmptySet DEF MovementsOf
    <3> QED BY <3>1 DEF MovementsOf
  <2>4. CASE v = w
    BY <1>6, <2>2, <2>3, <2>4, WorkerFresh
  <2>5. CASE v # w
    BY <1>0, <1>6, <2>2, <2>5, WorkerKept
  <2> QED BY <2>4, <2>5
<1>7. ASSUME NEW w \in Worker, CheckCancel(w)
      PROVE  WorkerOK(v)'
  <2>1. PICK pc \in {"cancelled", "batch"}, d \in {worker[w].late, 0} :
          /\ pc = IF job[worker[w].job] = "cancelled" THEN "cancelled" ELSE "batch"
          /\ d = IF job[worker[w].job] = "cancelled" THEN worker[w].late ELSE 0
    OBVIOUS
  <2>2. /\ worker[w].pc = "check" /\ ledger' = ledger
        /\ worker' = [worker EXCEPT ![w].pc = pc, ![w].late = d]
    BY <1>7, <2>1 DEF CheckCancel, SeesCancel, JobOf, Doing, stock
  <2>3. CASE v # w
    BY <1>0, <2>2, <2>3, WorkerKept
  <2>4. CASE v = w
    <3>1. /\ worker'[v].pc = pc /\ worker'[v].next = worker[v].next
          /\ worker'[v].tally = worker[v].tally /\ worker'[v].job = worker[v].job
          /\ worker'[v].late = d /\ worker'[v].read = worker[v].read
      BY <1>0, <2>2, <2>4 DEF WorkerState
    <3>2. Knows(v)'
      BY <1>0, <2>1, <2>2, <2>4, <3>1 DEF WorkerOK, Knows, Running
    <3>3. Ahead(v)' /\ Counted(v)'
      BY <1>0, <2>1, <2>2, <2>4, <3>1 DEF Ahead, Counted, Before, WorkerOK
    <3>4. StopsIn(v)'
      BY <1>0, <2>1, <2>4, <3>1 DEF StopsIn, WorkerOK
    <3> QED BY <3>2, <3>3, <3>4 DEF WorkerOK
  <2> QED BY <2>3, <2>4
<1>8. ASSUME NEW w \in Worker, NEW bad \in SUBSET Row, RunBatch(w, bad)
      PROVE  WorkerOK(v)'
  <2>1. /\ worker' = [worker EXCEPT ![w] = Furthered(w, bad)]
        /\ worker[w].pc = "batch"
        /\ Write(w, worker[w].job, ImportedBy(w, bad))
    BY <1>8, RunBatchParts DEF Batched
  <2>2. worker[w].job \in Job /\ ImportedBy(w, bad) \in SUBSET Row
    BY <1>0, <2>1, BatchRows DEF WorkerOK, Knows
  <2>3. ledger' = ledger \union NewMovements(w, worker[w].job, ImportedBy(w, bad))
    BY <2>1, <2>2, WriteType
  <2>4. CASE v # w
    BY <1>0, <2>1, <2>3, <2>4, OwnMovements, WorkerKept
  <2>5. CASE v = w
    <3>1. /\ worker'[v].pc = AfterBatch(NextOf(w)) /\ worker'[v].job = worker[w].job
          /\ worker'[v].next = NextOf(w) /\ worker'[v].tally = TallyAfter(w, bad)
          /\ worker'[v].late =
               IF job[worker[w].job] = "cancelled" THEN worker[w].late + 1 ELSE worker[w].late
          /\ worker'[v].read = worker[w].read
      BY <1>0, <2>1, <2>5, FurtherType DEF WorkerOK
    <3>2. AfterBatch(NextOf(w)) \in {"check", "completed"}
      BY DEF AfterBatch
    <3>3. Knows(v)'
      BY <1>0, <2>1, <2>5, <3>1, <3>2 DEF WorkerOK, Knows, Running
    <3>4. Ahead(v)'
      <4> SUFFICES ASSUME NEW m \in ledger', m[1] = worker[w].job, m[2] = w
                   PROVE  m[3] < NextOf(w)
        BY <2>5, <3>1, <3>2 DEF Ahead
      <4>1. CASE m \in ledger
        <5>1. m[3] \in Row /\ m[3] < worker[w].next
          BY <1>0, <2>1, <4>1 DEF WorkerOK, Ahead, Typed, TypeOK, Movements
        <5>2. m[3] \in Before(NextOf(w))
          BY <5>1, BatchRows DEF Before
        <5> QED BY <5>2 DEF Before
      <4>2. CASE m \notin ledger
        <5>1. m[3] \in ImportedBy(w, bad)
          BY <2>3, <4>2 DEF NewMovements
        <5>2. m[3] \in Before(NextOf(w))
          BY <5>1, BatchRows
        <5> QED BY <5>2 DEF Before
      <4> QED BY <4>1, <4>2
    <3>5. Counted(v)'
      <4>1. Sums3(TallyAfter(w, bad)) = Cardinality(Before(NextOf(w)))
        BY <1>0, BatchTally DEF WorkerOK
      <4> QED BY <2>5, <3>1, <4>1 DEF Counted, Before
    <3>6. StopsIn(v)'
      <4>1. worker[w].late = 0
        BY <1>0, <2>1 DEF WorkerOK, StopsIn, WorkerState
      <4> QED BY <2>5, <3>1, <3>2, <4>1 DEF StopsIn
    <3> QED BY <3>3, <3>4, <3>5, <3>6 DEF WorkerOK
  <2> QED BY <2>4, <2>5
<1>9. ASSUME NEW w \in Worker, Step(w)
      PROVE  WorkerOK(v)'
  <2>1. CASE Claim(w) \/ Start(w)
    BY <1>4, <1>5, <2>1 DEF Claim, Start, Doing, stock
  <2>2. CASE Finish(w) \/ MarkFailed(w) \/ Cancel(w)
    <3>1. Rest(w) /\ ledger' = ledger
      BY <2>2 DEF Finish, MarkFailed, Cancel, stock
    <3> QED BY <1>5, <3>1
  <2>3. CASE Rollback(w)
    <3>1. Rest(w) /\ \A m \in ledger' : m \in ledger
      BY <2>3, RollbackParts DEF RolledBack
    <3> QED BY <1>5, <3>1
  <2> QED BY <1>3, <1>7, <1>8, <1>9, <2>1, <2>2, <2>3 DEF Step
<1>10. ASSUME NEW w \in Worker, Raise(w)
       PROVE  WorkerOK(v)'
  BY <1>4, <1>10 DEF Raise
<1>11. ASSUME NEW w \in Worker, NEW j \in Job,
              Confirm(w, j) \/ ReadForCancel(w, j) \/ ReadForRetry(w, j)
              \/ ReadForRollback(w, j)
       PROVE  WorkerOK(v)'
  <2>1. CASE Confirm(w, j)
    <3>1. job[j] = "pending" /\ Take(w, "launched", j, {}, {}) /\ ledger' = ledger
      BY <2>1 DEF Confirm, stock
    <3>2. j \in FirstJob /\ MovementsOf(j) = {}
      BY <3>1 DEF JobsOK, JobOK, Unstarted, Bare
    <3> QED BY <1>6, <3>1, <3>2
  <2>2. CASE ReadForCancel(w, j)
    <3>1. job[j] \in {"pending", "running"} /\ Take(w, "cancel", j, {}, {}) /\ ledger' = ledger
      BY <2>2 DEF ReadForCancel, stock
    <3>2. j \in FirstJob
      BY <3>1 DEF JobsOK, JobOK
    <3> QED BY <1>6, <3>1, <3>2
  <2>3. CASE ReadForRollback(w, j)
    <3>1. Take(w, "rollback", j, MovementsOf(j), {}) /\ ledger' = ledger
      BY <2>3 DEF ReadForRollback, stock
    <3> QED BY <1>6, <3>1
  <2>4. CASE ReadForRetry(w, j)
    <3>1. Take(w, "retry", j, {}, failed[j]) /\ ledger' = ledger
      BY <2>4 DEF ReadForRetry, stock
    <3>2. failed[j] \in SUBSET Row
      BY DEF Typed, TypeOK
    <3> QED BY <1>6, <3>1, <3>2
  <2> QED BY <1>11, <2>1, <2>2, <2>3, <2>4
<1> QED
  BY <1>1, <1>2, <1>9, <1>10, <1>11
  DEF Next, Upload, LookUp, CreateProduct, Move, stock

-----------------------------------------------------------------------------
(* Jobs                                                                    *)

\* No task starts on a job or gets further with it, and no rollback reads it.
NoWork(j) ==
  \A v \in Worker :
    /\ worker'[v].pc \in Active /\ worker'[v].job = j =>
         /\ worker[v].pc \in Active /\ worker[v].job = j
         /\ worker'[v].next = worker[v].next /\ worker'[v].tally = worker[v].tally
    /\ worker'[v].pc = "rollback" /\ worker'[v].job = j =>
         /\ worker[v].pc = "rollback" /\ worker[v].job = j
         /\ worker'[v].read = worker[v].read

\* A status that a job may get while nothing else happens to it.
StatusKept(j) ==
  \/ job'[j] = job[j]
  \/ j \in FirstJob /\ job'[j] \in {"cancelled", "failed"}
  \/ j \in FirstJob /\ job[j] = "none" /\ job'[j] = "pending"

RecordKept(j) ==
  /\ failed'[j] = failed[j]
  /\ counts'[j] = counts[j]
  /\ MovementsOf(j)' = MovementsOf(j)
  /\ CreatedBy(j)' \subseteq CreatedBy(j)
  /\ j \in undone' <=> j \in undone

\* What a step leaves of a job it is not about.
SameJob(j) ==
  /\ starts'[j] = starts[j]
  /\ StatusKept(j)
  /\ starts[j] <= 1 => RecordKept(j)
  /\ NoWork(j)

LEMMA JobKept ==
  ASSUME Typed, NEW j \in Job, JobOK(j), SameJob(j)
  PROVE  JobOK(j)'
<1>0. /\ starts'[j] = starts[j] /\ starts[j] \in Nat
      /\ ActiveAt(j)' \subseteq ActiveAt(j) /\ UndoingAt(j)' \subseteq UndoingAt(j)
  BY DEF SameJob, NoWork, ActiveAt, UndoingAt, Typed, TypeOK
<1>1. job'[j] \in {"none", "pending"} => starts'[j] = 0
  BY <1>0 DEF JobOK, SameJob, StatusKept
<1>2. j \notin FirstJob => starts'[j] = 0 /\ job'[j] \in {"none", "completed", "rolled_back"}
  BY <1>0 DEF JobOK, SameJob, StatusKept
<1>3. Unstarted(j)' => Bare(j)'
  <2> SUFFICES ASSUME Unstarted(j)' PROVE Bare(j)'
    OBVIOUS
  <2>1. Unstarted(j) /\ starts[j] = 0
    BY <1>0 DEF Unstarted, JobOK, SameJob, StatusKept
  <2>2. Bare(j) /\ RecordKept(j)
    BY <2>1 DEF JobOK, SameJob
  <2>3. job'[j] \in {"none", "pending", "cancelled", "failed"}
    BY <2>2 DEF Bare, SameJob, StatusKept
  <2> QED BY <1>0, <2>2, <2>3 DEF Bare, RecordKept
<1>4. ASSUME starts[j] <= 1
      PROVE  Once(j)'
  <2>1. Once(j) /\ RecordKept(j)
    BY <1>4 DEF JobOK, SameJob
  <2>2. Alone(j)'
    BY <1>0, <2>1 DEF Once, Alone
  <2>3. Settled(j)'
    <3>1. job'[j] = "completed" \/ j \in undone' \/ UndoingAt(j)' # {} => ActiveAt(j)' = {}
      BY <1>0, <2>1 DEF Once, Settled, RecordKept, SameJob, StatusKept
    <3>2. \A w \in UndoingAt(j)' : MovementsOf(j)' \subseteq worker'[w].read
      <4>1. \A w \in UndoingAt(j)' : worker'[w].read = worker[w].read
        BY DEF UndoingAt, SameJob, NoWork
      <4> QED BY <1>0, <2>1, <4>1 DEF Once, Settled, RecordKept
    <3>3. j \in undone' => MovementsOf(j)' = {} /\ CreatedBy(j)' = {}
      BY <2>1 DEF Once, Settled, RecordKept
    <3> QED BY <3>1, <3>2, <3>3 DEF Settled
  <2>4. j \notin undone' => Told(j)'
    <3>1. j \notin undone' => Told(j)
      BY <2>1 DEF Once, RecordKept
    <3>2. /\ failed'[j] = failed[j] /\ counts'[j] = counts[j]
          /\ MovementsOf(j)' = MovementsOf(j)
      BY <2>1 DEF RecordKept
    <3> QED BY <3>1, <3>2 DEF Told, RowsOf
  <2>5. j \notin undone' => Tracked(j)'
    <3>1. j \notin undone' => Tracked(j)
      BY <2>1 DEF Once, RecordKept
    <3>2. /\ failed'[j] = failed[j] /\ counts'[j] = counts[j]
          /\ MovementsOf(j)' = MovementsOf(j)
      BY <2>1 DEF RecordKept
    <3>3. \A w \in ActiveAt(j)' : /\ w \in ActiveAt(j) /\ worker'[w].next = worker[w].next
                                  /\ worker'[w].tally = worker[w].tally
      BY DEF ActiveAt, SameJob, NoWork
    <3> QED BY <3>1, <3>2, <3>3 DEF Tracked, RowsOf, Before
  <2> QED BY <2>2, <2>3, <2>4, <2>5 DEF Once
<1>5. starts'[j] <= 1 => Once(j)'
  BY <1>0, <1>4
<1> QED BY <1>1, <1>2, <1>3, <1>5 DEF JobOK, Unstarted

\* Steps of one worker that are no work on a job.
LEMMA NoWorkOne ==
  ASSUME NEW w \in Worker, \A v \in Worker : v # w => worker'[v] = worker[v], NEW j,
         \/ worker'[w].pc \notin Active \union {"rollback"}
         \/ worker'[w].job # j
         \/ /\ worker[w].pc \in Active /\ worker'[w].pc # "rollback"
            /\ worker'[w].job = worker[w].job
            /\ worker'[w].next = worker[w].next /\ worker'[w].tally = worker[w].tally
  PROVE  NoWork(j)
  BY DEF NoWork, Active

LEMMA NoWorkSame ==
  ASSUME worker' = worker, NEW j
  PROVE  NoWork(j)
  BY DEF NoWork

\* A step that leaves the stock and everything on record.
LEMMA QuietRecord ==
  ASSUME UNCHANGED <<failed, counts, ledger, creator, undone>>, NEW j
  PROVE  RecordKept(j)
  BY DEF RecordKept, MovementsOf, CreatedBy

\* What is written for a job is not about another one.
LEMMA WriteOther ==
  ASSUME Typed, NEW w \in Worker, NEW k \in Job, NEW rows \in SUBSET Row, Write(w, k, rows),
         NEW j \in Job, j # k
  PROVE  MovementsOf(j)' = MovementsOf(j) /\ CreatedBy(j)' \subseteq CreatedBy(j)
<1>1. ledger' = ledger \union NewMovements(w, k, rows)
  BY WriteType
<1>2. MovementsOf(j)' = MovementsOf(j)
  BY <1>1 DEF MovementsOf, NewMovements
<1>3. CreatedBy(j)' \subseteq CreatedBy(j)
  BY DEF CreatedBy, Write
<1> QED BY <1>2, <1>3

LEMMA WriteOwn ==
  ASSUME Typed, NEW w \in Worker, NEW k \in Job, NEW rows \in SUBSET Row, Write(w, k, rows)
  PROVE  RowsOf(MovementsOf(k)') =
           RowsOf(MovementsOf(k)) \union {r \in rows : File[r].qty > 0}
<1>1. ledger' = ledger \union NewMovements(w, k, rows)
  BY WriteType
<1>2. MovementsOf(k)' = MovementsOf(k) \union NewMovements(w, k, rows)
  BY <1>1 DEF MovementsOf, NewMovements
<1>3. RowsOf(NewMovements(w, k, rows)) = {r \in rows : File[r].qty > 0}
  <2> PICK N : N = NewMovements(w, k, rows)
    OBVIOUS
  <2>1. \A m \in N : m[3] \in rows /\ File[m[3]].qty > 0
    BY DEF NewMovements
  <2>2. \A r \in {s \in rows : File[s].qty > 0} : \E m \in N : m[3] = r
    <3> SUFFICES ASSUME NEW r \in {s \in rows : File[s].qty > 0}
                 PROVE  \E m \in N : m[3] = r
      OBVIOUS
    <3>1. <<k, w, r>> \in N /\ <<k, w, r>>[3] = r
      BY DEF NewMovements
    <3> QED BY <3>1
  <2>3. RowsOf(N) = {r \in rows : File[r].qty > 0}
    BY <2>1, <2>2 DEF RowsOf
  <2> QED BY <2>3
<1>4. \A M, N : RowsOf(M \union N) = RowsOf(M) \union RowsOf(N)
  BY DEF RowsOf
<1> QED BY <1>2, <1>3, <1>4

LEMMA RowsApart ==
  ASSUME NEW A \in SUBSET Row, NEW B \in SUBSET Row, A \intersect B = {}
  PROVE  Cardinality(A \union B) = Cardinality(A) + Cardinality(B)
<1>1. /\ IsFiniteSet(A) /\ Cardinality(A) \in Nat
      /\ IsFiniteSet(B) /\ Cardinality(B) \in Nat
  BY RowsFinite, Rows
<1>2. Cardinality(A \union B) = Cardinality(A) + Cardinality(B) - Cardinality(A \intersect B)
  BY <1>1, FS_Union
<1>3. Cardinality(A \intersect B) = 0
  BY FS_EmptySet
<1> QED BY <1>1, <1>2, <1>3

\* A job set running: the only task at work has nothing to count yet.
LEMMA JobStarts ==
  ASSUME Typed, WorkersOK, JobsOK, NEW w \in Worker, Start(w), NEW j, j = worker[w].job
  PROVE  JobOK(j)'
<1>1. /\ worker[w].pc = "claimed" /\ j \in FirstJob /\ j \in Job
      /\ worker[w].tally = NoCounts /\ worker[w].next = 1
  BY ImportsAssumption DEF WorkersOK, Knows, Running, Start, Doing
<1>2. /\ job'[j] = "running" /\ starts'[j] = starts[j] + 1 /\ starts[j] \in Nat
      /\ UNCHANGED <<counts, failed, ledger, creator, undone>>
      /\ Become(w, "check")
  BY <1>1 DEF Start, JobOf, Typed, TypeOK, stock
<1>3. /\ \A v \in Worker : v # w => worker'[v] = worker[v]
      /\ worker'[w] = [worker[w] EXCEPT !.pc = "check"]
      /\ worker[w] \in WorkerState
  BY <1>2, BecomeType, StepNames DEF Typed, TypeOK, WorkerState
<1>4. ASSUME starts[j] = 0
      PROVE  Once(j)'
  <2>1. Bare(j)
    BY <1>1, <1>4 DEF JobsOK, JobOK, Unstarted
  <2>2. ActiveAt(j)' = {w} /\ worker'[w].tally = NoCounts
    BY <1>1, <1>3, <2>1 DEF ActiveAt, Bare, Active, WorkerState
  <2>3. UndoingAt(j)' = {}
    BY <1>3, <2>1 DEF UndoingAt, Bare, WorkerState
  <2>4. /\ MovementsOf(j)' = {} /\ failed'[j] = {} /\ counts'[j] = NoCounts /\ j \notin undone'
        /\ RowsOf(MovementsOf(j)') = {}
    BY <1>2, <2>1 DEF Bare, MovementsOf, RowsOf
  <2>5. Alone(j)' /\ Settled(j)'
    BY <1>2, <2>2, <2>3, <2>4 DEF Alone, Settled
  <2>6. Told(j)'
    BY <2>4, FS_EmptySet DEF Told, RowsOf, NoCounts
  <2>7. Tracked(j)'
    BY <2>2, <2>4 DEF Tracked, RowsOf
  <2> QED BY <2>5, <2>6, <2>7 DEF Once
<1>5. starts'[j] <= 1 => starts[j] = 0
  BY <1>2
<1>6. JobOK(j)'
  <2>1. ~Unstarted(j)'
    BY <1>1, <1>2 DEF Unstarted
  <2> QED BY <1>1, <1>2, <1>4, <1>5, <2>1 DEF JobOK, Unstarted
<1> QED BY <1>6

\* One batch more: what failed and what was imported are new, and counted.
LEMMA JobBatch ==
  ASSUME Typed, WorkersOK, JobsOK, NEW w \in Worker, NEW bad \in SUBSET Row, RunBatch(w, bad),
         NEW j, j = worker[w].job
  PROVE  JobOK(j)'
<1> PICK ok, no : ok = ImportedBy(w, bad) /\ no = FailedBy(w, bad)
  OBVIOUS
<1>1. /\ worker[w].pc = "batch" /\ j \in Job /\ j \in FirstJob
      /\ Write(w, j, ok)
      /\ failed' = [failed EXCEPT ![j] = failed[j] \union no]
      /\ counts' = [counts EXCEPT ![j] = TallyAfter(w, bad)]
      /\ UNCHANGED <<job, starts, undone>>
  BY RunBatchParts, ImportsAssumption DEF Batched, WorkersOK, Knows, Running
<1>2. /\ \A v \in Worker : v # w => worker'[v] = worker[v]
      /\ worker'[w].pc = AfterBatch(NextOf(w)) /\ worker'[w].job = j
      /\ worker'[w].next = NextOf(w) /\ worker'[w].tally = TallyAfter(w, bad)
  BY RunBatchParts, FurtherType DEF WorkersOK, Typed, TypeOK
<1>3. AfterBatch(NextOf(w)) \in {"check", "completed"}
  BY DEF AfterBatch
<1>4. w \in ActiveAt(j) /\ ActiveAt(j)' \subseteq ActiveAt(j) /\ UndoingAt(j)' \subseteq UndoingAt(j)
  BY <1>1, <1>2, <1>3 DEF ActiveAt, UndoingAt, Active
<1>5. JobOK(j) /\ ~Unstarted(j)
  BY <1>1, <1>4 DEF JobsOK, JobOK, Bare
<1>6. ok \in SUBSET Row /\ no \in SUBSET Row /\ ok \intersect no = {}
      /\ ok \subseteq Before(NextOf(w)) /\ no \subseteq Before(NextOf(w))
      /\ Before(worker[w].next) \subseteq Before(NextOf(w))
      /\ (ok \union no) \intersect Before(worker[w].next) = {}
  BY BatchRows
<1>7. ASSUME starts[j] <= 1
      PROVE  Once(j)'
  <2>1. Once(j) /\ j \notin undone
    BY <1>4, <1>5, <1>7 DEF JobOK, Once, Settled
  <2>2. PICK F, I, imported, errors, oldI :
          /\ F = failed[j] /\ I = RowsOf(MovementsOf(j))
          /\ imported = {r \in ok : File[r].qty > 0}
          /\ errors = Cardinality(F) /\ oldI = worker[w].tally.imported
    OBVIOUS
  <2>3. /\ F \subseteq Before(worker[w].next) /\ I \subseteq Before(worker[w].next)
        /\ counts[j] = worker[w].tally
        /\ F \intersect I = {}
        /\ worker[w].tally.errors = Cardinality(F)
        /\ (\A r \in Row : File[r].qty > 0) => worker[w].tally.imported = Cardinality(I)
    BY <1>4, <2>1, <2>2 DEF Once, Told, Tracked
  <2>4. /\ failed'[j] = F \union no
        /\ RowsOf(MovementsOf(j)') = I \union imported
        /\ counts'[j] = TallyAfter(w, bad)
    BY <1>1, <1>6, <2>2, WriteOwn DEF Typed, TypeOK
  <2>5. imported \subseteq ok /\ F \in SUBSET Row /\ I \in SUBSET Row
    BY <2>2, <2>3 DEF Before
  <2>6. Alone(j)'
    BY <1>4, <2>1 DEF Once, Alone
  <2>7. Settled(j)'
    <3>1. job[j] # "completed" /\ UndoingAt(j) = {}
      BY <1>4, <2>1 DEF Once, Settled
    <3> QED BY <1>1, <1>4, <2>1, <3>1 DEF Settled
  <2>8. Told(j)'
    <3>1. (F \union no) \intersect (I \union imported) = {}
      BY <1>6, <2>3, <2>5
    <3>2. TallyAfter(w, bad).errors = Cardinality(F \union no)
      <4>1. Cardinality(F \union no) = Cardinality(F) + Cardinality(no)
        BY <1>6, <2>3, <2>5, RowsApart
      <4>2. TallyAfter(w, bad).errors = worker[w].tally.errors + Cardinality(no)
        BY BatchTally DEF WorkersOK
      <4> QED BY <2>3, <4>1, <4>2
    <3>3. ASSUME \A r \in Row : File[r].qty > 0
          PROVE  TallyAfter(w, bad).imported = Cardinality(I \union imported)
      <4>1. imported = ok
        BY <1>6, <2>2, <3>3
      <4>2. Cardinality(I \union ok) = Cardinality(I) + Cardinality(ok)
        BY <1>6, <2>3, <2>5, RowsApart
      <4>3. TallyAfter(w, bad).imported = worker[w].tally.imported + Cardinality(ok)
        BY BatchTally DEF WorkersOK
      <4> QED BY <2>3, <3>3, <4>1, <4>2, <4>3
    <3> QED BY <2>4, <3>1, <3>2, <3>3 DEF Told, RowsOf
  <2>9. Tracked(j)'
    <3>1. \A v \in ActiveAt(j)' : v = w
      BY <1>4, <2>1 DEF Once, Alone
    <3>2. failed'[j] \subseteq Before(NextOf(w)) /\ RowsOf(MovementsOf(j)') \subseteq Before(NextOf(w))
      BY <1>6, <2>3, <2>4, <2>5
    <3> QED BY <1>2, <2>4, <3>1, <3>2 DEF Tracked, RowsOf, Before
  <2> QED BY <2>6, <2>7, <2>8, <2>9 DEF Once
<1> QED BY <1>1, <1>5, <1>7 DEF JobOK, Unstarted

\* A job that ends: the counters were right already, and nobody works on it any more.
LEMMA JobEnds ==
  ASSUME Typed, WorkersOK, JobsOK, NEW w \in Worker, Finish(w), NEW j, j = worker[w].job
  PROVE  JobOK(j)'
<1>1. PICK end \in {"completed", "cancelled"} : worker[w].pc = end /\ job' = [job EXCEPT ![j] = end]
  BY DEF Finish, Doing, JobOf
<1>2. j \in Job /\ j \in FirstJob
  BY <1>1, ImportsAssumption DEF WorkersOK, Knows, Running
<1>3. /\ job'[j] = end /\ counts'[j] = worker[w].tally
      /\ UNCHANGED <<failed, ledger, creator, starts, undone>>
      /\ Rest(w)
  BY <1>1, <1>2 DEF Finish, JobOf, Typed, TypeOK, stock
<1>4. /\ \A v \in Worker : v # w => worker'[v] = worker[v]
      /\ worker'[w].pc = "idle"
  BY <1>3, RestType DEF Typed, TypeOK, WorkerState, Idle
<1>5. w \in ActiveAt(j)
  BY <1>1 DEF ActiveAt, Active
<1>6. /\ ActiveAt(j)' = ActiveAt(j) \ {w} /\ UndoingAt(j)' \subseteq UndoingAt(j)
      /\ \A v \in UndoingAt(j)' : worker'[v] = worker[v]
  BY <1>4 DEF ActiveAt, UndoingAt, Active
<1>7. JobOK(j) /\ ~Unstarted(j)
  BY <1>2, <1>5 DEF JobsOK, JobOK, Bare
<1>8. ASSUME starts[j] <= 1
      PROVE  Once(j)'
  <2>1. Once(j) /\ j \notin undone /\ counts[j] = worker[w].tally
    BY <1>5, <1>7, <1>8 DEF JobOK, Once, Settled, Tracked
  <2>2. ActiveAt(j)' = {}
    BY <1>5, <1>6, <2>1 DEF Once, Alone
  <2>3. /\ MovementsOf(j)' = MovementsOf(j) /\ failed'[j] = failed[j]
        /\ counts'[j] = counts[j] /\ j \notin undone'
    BY <1>3, <2>1 DEF MovementsOf
  <2>4. Alone(j)' /\ Tracked(j)'
    BY <2>2 DEF Alone, Tracked
  <2>5. Settled(j)'
    BY <1>6, <2>1, <2>2, <2>3 DEF Once, Settled
  <2>6. Told(j)'
    BY <2>1, <2>3 DEF Once, Told, RowsOf
  <2> QED BY <2>4, <2>5, <2>6 DEF Once
<1> QED BY <1>1, <1>2, <1>3, <1>7, <1>8 DEF JobOK, Unstarted

\* The job of a retry is bare before, and tells of one batch afterwards.
LEMMA JobRetries ==
  ASSUME Typed, JobsOK, NEW w \in Worker, NEW j \in Job \ FirstJob,
         NEW bad, Retry(w, j, bad)
  PROVE  JobOK(j)'
<1> PICK rows, ok, no : /\ rows = worker[w].rows /\ ok = Imported(rows, rows, bad)
                        /\ no = Failing(rows, rows, bad)
  OBVIOUS
<1>1. /\ job[j] = "none" /\ job'[j] = "completed"
      /\ Write(w, j, ok) /\ failed'[j] = no
      /\ counts'[j] = Tally(rows, rows, bad)
      /\ Rest(w) /\ UNCHANGED <<starts, undone>>
  BY DEF Retry, Typed, TypeOK
<1>2. rows \in SUBSET Row /\ ok \in SUBSET Row /\ no \in SUBSET Row /\ ok \intersect no = {}
  BY DEF Imported, Failing, Typed, TypeOK
<1>3. JobOK(j) /\ Bare(j) /\ starts[j] = 0
  BY <1>1 DEF JobsOK, JobOK, Unstarted
<1>4. PICK imported : imported = {r \in ok : File[r].qty > 0}
  OBVIOUS
<1>5. RowsOf(MovementsOf(j)') = imported
  <2>1. RowsOf(MovementsOf(j)') = RowsOf(MovementsOf(j)) \union imported
    BY <1>1, <1>2, <1>4, WriteOwn
  <2> QED BY <1>3, <2>1 DEF Bare, RowsOf
<1>6. ActiveAt(j)' = {} /\ UndoingAt(j)' = {}
  <2>1. /\ \A v \in Worker : v # w => worker'[v] = worker[v]
        /\ worker'[w].pc = "idle"
    BY <1>1, RestType DEF Typed, TypeOK, WorkerState, Idle
  <2> QED BY <1>3, <2>1 DEF Bare, ActiveAt, UndoingAt, Active
<1>7. Alone(j)' /\ Settled(j)' /\ Tracked(j)'
  BY <1>1, <1>3, <1>6 DEF Alone, Settled, Tracked, Bare
<1>8. Told(j)'
  <2>1. /\ Tally(rows, rows, bad).imported = Cardinality(ok)
        /\ Tally(rows, rows, bad).errors = Cardinality(no)
    BY <1>2, TallyAddsUp
  <2>2. no \intersect imported = {}
    BY <1>2, <1>4
  <2>3. (\A r \in Row : File[r].qty > 0) => imported = ok
    BY <1>2, <1>4
  <2> QED BY <1>1, <1>5, <2>1, <2>2, <2>3 DEF Told, RowsOf
<1>9. Once(j)'
  BY <1>7, <1>8 DEF Once
<1> QED BY <1>1, <1>3, <1>9 DEF JobOK, Unstarted

\* A rollback reads a job that has ended: all its movements.
LEMMA JobIsRead ==
  ASSUME Typed, JobsOK, NEW w \in Worker, NEW j \in Job, ReadForRollback(w, j)
  PROVE  JobOK(j)'
<1>1. /\ job[j] = "completed" /\ worker[w].pc = "idle"
      /\ Take(w, "rollback", j, MovementsOf(j), {})
      /\ UNCHANGED <<job, counts, failed, ledger, creator, starts, undone>>
  BY DEF ReadForRollback, Doing, stock
<1>2. /\ \A v \in Worker : v # w => worker'[v] = worker[v]
      /\ Fresh(worker'[w], "rollback", j, MovementsOf(j))
  <2>1. worker \in [Worker -> WorkerState] /\ MovementsOf(j) \in SUBSET Movements
    BY DEF MovementsOf, Typed, TypeOK, WorkerState
  <2>2. "rollback" \in WorkerStep /\ {} \in SUBSET Row
    BY StepNames
  <2> QED BY <1>1, <2>1, <2>2, TakeType
<1>3. JobOK(j) /\ ~Unstarted(j)
  BY <1>1 DEF JobsOK, JobOK, Bare
<1>4. ActiveAt(j)' \subseteq ActiveAt(j) /\ UndoingAt(j)' \subseteq UndoingAt(j) \union {w}
  BY <1>2 DEF ActiveAt, UndoingAt, Active, Fresh
<1>5. MovementsOf(j)' = MovementsOf(j) /\ CreatedBy(j)' = CreatedBy(j)
  BY <1>1 DEF MovementsOf, CreatedBy
<1>6. ASSUME starts[j] <= 1
      PROVE  Once(j)'
  <2>1. Once(j) /\ ActiveAt(j)' = {}
    BY <1>1, <1>3, <1>4, <1>6 DEF JobOK, Once, Settled
  <2>2. Alone(j)' /\ Tracked(j)'
    BY <2>1 DEF Alone, Tracked
  <2>3. \A v \in UndoingAt(j)' : MovementsOf(j)' \subseteq worker'[v].read
    <3> SUFFICES ASSUME NEW v \in UndoingAt(j)' PROVE MovementsOf(j) \subseteq worker'[v].read
      BY <1>5
    <3>1. CASE v = w
      BY <1>2, <3>1 DEF Fresh
    <3>2. CASE v # w
      <4>1. v \in UndoingAt(j) /\ worker'[v] = worker[v]
        BY <1>2, <1>4, <3>2 DEF UndoingAt
      <4> QED BY <2>1, <4>1 DEF Once, Settled
    <3> QED BY <3>1, <3>2
  <2>4. Settled(j)'
    BY <1>1, <1>5, <2>1, <2>3 DEF Once, Settled
  <2>5. j \notin undone' => Told(j)'
    BY <1>1, <1>5, <2>1 DEF Once, Told, RowsOf
  <2> QED BY <2>2, <2>4, <2>5 DEF Once
<1> QED BY <1>1, <1>3, <1>6 DEF JobOK, Unstarted

\* A job rolled back: its movements are gone, and the products it created.
LEMMA JobRolledBack ==
  ASSUME Typed, WorkersOK, JobsOK, NEW w \in Worker, Rollback(w), RolledBack(w),
         NEW j, j = worker[w].job
  PROVE  JobOK(j)'
<1>1. /\ worker[w].pc = "rollback" /\ Rest(w) /\ j \in Job
      /\ starts' = starts
  BY RollbackParts DEF WorkersOK, Knows
<1>2. /\ job'[j] = "rolled_back" /\ j \in undone'
      /\ ledger' = ledger \ worker[w].read
      /\ CreatedBy(j)' = {}
  BY <1>1, ImportsAssumption DEF RolledBack, CreatedBy, Typed, TypeOK
<1>3. w \in UndoingAt(j)
  BY <1>1 DEF UndoingAt
<1>4. JobOK(j) /\ ~Unstarted(j)
  BY <1>1, <1>3 DEF JobsOK, JobOK, Bare
<1>5. /\ \A v \in Worker : v # w => worker'[v] = worker[v]
      /\ worker'[w].pc = "idle"
  BY <1>1, RestType DEF Typed, TypeOK, WorkerState, Idle
<1>6. ActiveAt(j)' \subseteq ActiveAt(j)
  BY <1>5 DEF ActiveAt, Active
<1>7. ASSUME starts[j] <= 1
      PROVE  Once(j)'
  <2>1. ActiveAt(j)' = {} /\ MovementsOf(j) \subseteq worker[w].read
    BY <1>3, <1>4, <1>6, <1>7 DEF JobOK, Once, Settled
  <2>2. MovementsOf(j)' = {}
    BY <1>2, <2>1 DEF MovementsOf
  <2>3. Alone(j)' /\ Settled(j)'
    BY <1>2, <2>1, <2>2 DEF Alone, Settled
  <2> QED BY <1>2, <2>3 DEF Once
<1> QED BY <1>1, <1>2, <1>4, <1>7 DEF JobOK, Unstarted

\* Every step leaves every job in order: the one it is about by the lemmas above,
\* the others because it does not touch them.
LEMMA NextJobs ==
  ASSUME Typed, WorkersOK, JobsOK, Next
  PROVE  JobsOK'
<1> SUFFICES ASSUME NEW j \in Job PROVE JobOK(j)'
  BY DEF JobsOK
<1>0. /\ JobOK(j) /\ j # None /\ j # Others
      /\ worker \in [Worker -> WorkerState]
      /\ \A v \in Worker : worker[v].pc # "idle" => worker[v].job \in Job
      /\ \A v \in Worker : worker[v].pc \in Running \union {"failing", "cancel"} =>
           worker[v].job \in FirstJob
  BY ImportsAssumption DEF JobsOK, Typed, TypeOK, WorkerState, WorkersOK, Knows
<1>1. ASSUME NEW k \in FirstJob, Upload(k)
      PROVE  JobOK(j)'
  <2>1. /\ job[k] = "none" /\ job' = [job EXCEPT ![k] = "pending"]
        /\ UNCHANGED <<failed, counts, ledger, creator, undone, starts, worker>>
    BY <1>1 DEF Upload, stock
  <2>2. StatusKept(j)
    BY <2>1 DEF StatusKept, Typed, TypeOK
  <2>3. SameJob(j)
    BY <2>1, <2>2, QuietRecord, NoWorkSame DEF SameJob
  <2> QED BY <1>0, <2>3, JobKept
<1>2. ASSUME NEW w \in Worker, Claim(w) \/ CheckCancel(w) \/ Raise(w)
      PROVE  JobOK(j)'
  <2>1. UNCHANGED <<job, failed, counts, ledger, creator, undone, starts>>
    BY <1>2 DEF Claim, CheckCancel, Raise, stock
  <2>2. NoWork(j)
    <3>1. CASE Claim(w) \/ Raise(w)
      <4>1. PICK pc \in {"claimed", "failing"} : Become(w, pc) \/ Rest(w)
        BY <3>1 DEF Claim, Raise
      <4>2. pc \in WorkerStep
        BY StepNames
      <4>3. /\ \A v \in Worker : v # w => worker'[v] = worker[v]
            /\ worker'[w].pc \in {"claimed", "failing", "idle"}
        <5>1. CASE Become(w, pc)
          <6>1. /\ \A v \in Worker : v # w => worker'[v] = worker[v]
                /\ worker'[w] = [worker[w] EXCEPT !.pc = pc]
            BY <1>0, <4>2, <5>1, BecomeType
          <6>2. worker'[w].pc = pc
            BY <1>0, <6>1 DEF WorkerState
          <6> QED BY <6>1, <6>2
        <5>2. CASE Rest(w)
          BY <1>0, <5>2, RestType DEF Idle
        <5> QED BY <4>1, <5>1, <5>2
      <4> QED BY <4>3, NoWorkOne DEF Active
    <3>2. CASE CheckCancel(w)
      <4>1. PICK pc \in {"cancelled", "batch"}, d \in {worker[w].late, 0} :
              worker' = [worker EXCEPT ![w].pc = pc, ![w].late = d] /\ worker[w].pc = "check"
        BY <3>2 DEF CheckCancel, Doing
      <4>2. /\ \A v \in Worker : v # w => worker'[v] = worker[v]
            /\ worker'[w].pc = pc /\ worker'[w].job = worker[w].job
            /\ worker'[w].next = worker[w].next /\ worker'[w].tally = worker[w].tally
        BY <1>0, <4>1 DEF WorkerState
      <4> QED BY <4>1, <4>2, NoWorkOne DEF Active
    <3> QED BY <1>2, <3>1, <3>2
  <2>3. SameJob(j)
    BY <2>1, <2>2, QuietRecord DEF SameJob, StatusKept
  <2> QED BY <1>0, <2>3, JobKept
<1>3. ASSUME NEW w \in Worker, Start(w)
      PROVE  JobOK(j)'
  <2>1. CASE j = worker[w].job
    BY <1>3, <2>1, JobStarts
  <2>2. CASE j # worker[w].job
    <3>1. /\ Become(w, "check") /\ worker[w].job \in Job
          /\ job' = [job EXCEPT ![worker[w].job] = "running"]
          /\ starts' = [starts EXCEPT ![worker[w].job] = @ + 1]
          /\ UNCHANGED <<failed, counts, ledger, creator, undone>>
      BY <1>0, <1>3 DEF Start, JobOf, Doing, stock
    <3>2. /\ \A v \in Worker : v # w => worker'[v] = worker[v]
          /\ worker'[w].job = worker[w].job
      <4>1. /\ \A v \in Worker : v # w => worker'[v] = worker[v]
            /\ worker'[w] = [worker[w] EXCEPT !.pc = "check"]
        BY <1>0, <3>1, BecomeType, StepNames
      <4>2. worker[w] \in WorkerState
        BY <1>0
      <4> QED BY <4>1, <4>2 DEF WorkerState
    <3>3. NoWork(j)
      BY <2>2, <3>2, NoWorkOne
    <3>4. StatusKept(j) /\ starts'[j] = starts[j]
      BY <2>2, <3>1 DEF StatusKept, Typed, TypeOK
    <3>5. SameJob(j)
      BY <3>1, <3>3, <3>4, QuietRecord DEF SameJob
    <3> QED BY <1>0, <3>5, JobKept
  <2> QED BY <2>1, <2>2
<1>4. ASSUME NEW w \in Worker, \E bad \in SUBSET Row : RunBatch(w, bad)
      PROVE  JobOK(j)'
  <2>1. PICK bad \in SUBSET Row : RunBatch(w, bad)
    BY <1>4
  <2>2. CASE j = worker[w].job
    BY <2>1, <2>2, JobBatch
  <2>3. CASE j # worker[w].job
    <3>1. /\ worker[w].job \in Job /\ ImportedBy(w, bad) \in SUBSET Row
          /\ Write(w, worker[w].job, ImportedBy(w, bad))
          /\ failed' = [failed EXCEPT ![worker[w].job] = @ \union FailedBy(w, bad)]
          /\ counts' = [counts EXCEPT ![worker[w].job] = TallyAfter(w, bad)]
          /\ UNCHANGED <<job, starts, undone>>
      BY <1>0, <2>1, RunBatchParts, BatchRows DEF Batched
    <3>2. /\ \A v \in Worker : v # w => worker'[v] = worker[v]
          /\ worker'[w].job = worker[w].job
      BY <1>0, <2>1, RunBatchParts, FurtherType DEF WorkersOK
    <3>3. NoWork(j)
      BY <2>3, <3>2, NoWorkOne
    <3>4. failed'[j] = failed[j] /\ counts'[j] = counts[j]
      BY <2>3, <3>1 DEF Typed, TypeOK
    <3>5. RecordKept(j)
      BY <2>3, <3>1, <3>4, WriteOther DEF RecordKept
    <3>6. SameJob(j)
      BY <3>1, <3>3, <3>5 DEF SameJob, StatusKept
    <3> QED BY <1>0, <3>6, JobKept
  <2> QED BY <2>2, <2>3
<1>5. ASSUME NEW w \in Worker, Finish(w)
      PROVE  JobOK(j)'
  <2>1. CASE j = worker[w].job
    BY <1>5, <2>1, JobEnds
  <2>2. CASE j # worker[w].job
    <3>1. PICK end : job' = [job EXCEPT ![worker[w].job] = end]
      BY <1>5 DEF Finish, JobOf
    <3>2. /\ counts' = [counts EXCEPT ![worker[w].job] = worker[w].tally]
          /\ UNCHANGED <<failed, ledger, creator, starts, undone>> /\ Rest(w)
      BY <1>5 DEF Finish, JobOf, stock
    <3>3. NoWork(j)
      BY <1>0, <3>2, RestType, NoWorkOne DEF Idle, Active
    <3>4. RecordKept(j)
      BY <2>2, <3>2 DEF RecordKept, stock, MovementsOf, CreatedBy, Typed, TypeOK
    <3>5. StatusKept(j)
      BY <2>2, <3>1 DEF StatusKept, Typed, TypeOK
    <3>6. SameJob(j)
      BY <3>2, <3>3, <3>4, <3>5 DEF SameJob
    <3> QED BY <1>0, <3>6, JobKept
  <2> QED BY <2>1, <2>2
<1>6. ASSUME NEW w \in Worker, MarkFailed(w) \/ Cancel(w)
      PROVE  JobOK(j)'
  <2>1. PICK end \in {"failed", "cancelled"} : job' = [job EXCEPT ![worker[w].job] = end]
    BY <1>6 DEF MarkFailed, Cancel, JobOf
  <2>2. /\ worker[w].job \in FirstJob /\ Rest(w)
        /\ UNCHANGED <<failed, counts, ledger, creator, starts, undone>>
    BY <1>0, <1>6 DEF MarkFailed, Cancel, Doing, stock
  <2>3. NoWork(j)
    BY <1>0, <2>2, RestType, NoWorkOne DEF Idle, Active
  <2>4. StatusKept(j)
    BY <2>1, <2>2 DEF StatusKept, Typed, TypeOK
  <2>5. SameJob(j)
    BY <2>2, <2>3, <2>4, QuietRecord DEF SameJob
  <2> QED BY <1>0, <2>5, JobKept
<1>7. CASE Stop
  <2>1. \A v \in Worker : worker'[v].pc = "idle"
    BY <1>7 DEF Stop, Idle
  <2>2. UNCHANGED <<job, failed, counts, ledger, creator, undone, starts>>
    BY <1>7 DEF Stop, stock
  <2>3. NoWork(j)
    BY <2>1 DEF NoWork, Active
  <2>4. SameJob(j)
    BY <2>2, <2>3, QuietRecord DEF SameJob, StatusKept
  <2> QED BY <1>0, <2>4, JobKept
<1>8. ASSUME NEW w \in Worker, NEW k \in Job,
             Confirm(w, k) \/ ReadForCancel(w, k) \/ ReadForRetry(w, k)
      PROVE  JobOK(j)'
  <2>1. PICK pc \in {"launched", "cancel", "retry"}, rows \in {{}, failed[k]} :
          Take(w, pc, k, {}, rows)
    BY <1>8 DEF Confirm, ReadForCancel, ReadForRetry
  <2>2. UNCHANGED <<job, failed, counts, ledger, creator, undone, starts>>
    BY <1>8 DEF Confirm, ReadForCancel, ReadForRetry, stock
  <2>3. /\ \A v \in Worker : v # w => worker'[v] = worker[v]
        /\ worker'[w].pc = pc
    <3>1. pc \in WorkerStep /\ {} \in SUBSET Movements /\ rows \in SUBSET Row
      BY StepNames DEF Typed, TypeOK
    <3> QED BY <1>0, <2>1, <3>1, TakeType DEF Fresh
  <2>4. NoWork(j)
    BY <2>3, NoWorkOne DEF Active
  <2>5. SameJob(j)
    BY <2>2, <2>4, QuietRecord DEF SameJob, StatusKept
  <2> QED BY <1>0, <2>5, JobKept
<1>9. ASSUME NEW w \in Worker, NEW k \in Job, ReadForRollback(w, k)
      PROVE  JobOK(j)'
  <2>1. CASE j = k
    BY <1>9, <2>1, JobIsRead
  <2>2. CASE j # k
    <3>1. /\ Take(w, "rollback", k, MovementsOf(k), {})
          /\ UNCHANGED <<job, failed, counts, ledger, creator, undone, starts>>
      BY <1>9 DEF ReadForRollback, stock
    <3>2. /\ \A v \in Worker : v # w => worker'[v] = worker[v]
          /\ worker'[w].job = k
      <4>1. MovementsOf(k) \in SUBSET Movements
        BY DEF MovementsOf, Typed, TypeOK
      <4>2. "rollback" \in WorkerStep /\ {} \in SUBSET Row
        BY StepNames
      <4>3. /\ \A v \in Worker : v # w => worker'[v] = worker[v]
            /\ Fresh(worker'[w], "rollback", k, MovementsOf(k))
        BY <1>0, <3>1, <4>1, <4>2, TakeType
      <4> QED BY <4>3 DEF Fresh
    <3>3. NoWork(j)
      BY <2>2, <3>2, NoWorkOne
    <3>4. SameJob(j)
      BY <3>1, <3>3, QuietRecord DEF SameJob, StatusKept
    <3> QED BY <1>0, <3>4, JobKept
  <2> QED BY <2>1, <2>2
<1>10. ASSUME NEW w \in Worker, NEW l \in Job \ FirstJob, NEW bad \in SUBSET Row,
              Retry(w, l, bad)
       PROVE  JobOK(j)'
  <2>1. CASE j = l
    BY <1>10, <2>1, JobRetries
  <2>2. CASE j # l
    <3>1. /\ Write(w, l, Imported(worker[w].rows, worker[w].rows, bad))
          /\ Imported(worker[w].rows, worker[w].rows, bad) \in SUBSET Row
          /\ job' = [job EXCEPT ![l] = "completed"]
          /\ failed' = [failed EXCEPT ![l] = Failing(worker[w].rows, worker[w].rows, bad)]
          /\ counts' = [counts EXCEPT ![l] = Tally(worker[w].rows, worker[w].rows, bad)]
          /\ Rest(w) /\ UNCHANGED <<starts, undone>>
      BY <1>10 DEF Retry, Imported, Typed, TypeOK
    <3>2. RecordKept(j)
      <4>1. failed'[j] = failed[j] /\ counts'[j] = counts[j]
        BY <2>2, <3>1 DEF Typed, TypeOK
      <4> QED BY <2>2, <3>1, <4>1, WriteOther DEF RecordKept
    <3>3. StatusKept(j)
      BY <2>2, <3>1 DEF StatusKept, Typed, TypeOK
    <3>4. NoWork(j)
      BY <1>0, <3>1, RestType, NoWorkOne DEF Idle, Active
    <3>5. SameJob(j)
      BY <3>1, <3>2, <3>3, <3>4 DEF SameJob
    <3> QED BY <1>0, <3>5, JobKept
  <2> QED BY <2>1, <2>2
<1>11. ASSUME NEW w \in Worker, Rollback(w)
       PROVE  JobOK(j)'
  <2>1. /\ worker[w].pc = "rollback" /\ worker[w].job \in Job /\ Rest(w)
        /\ UNCHANGED <<failed, counts, starts>>
    BY <1>0, <1>11, RollbackParts
  <2>2. NoWork(j)
    BY <1>0, <2>1, RestType, NoWorkOne DEF Idle, Active
  <2>3. CASE UNCHANGED <<onHand, lost, saw, shelved, ledger, creator, job, undone, mishap>>
    <3>1. RecordKept(j)
      BY <2>1, <2>3 DEF RecordKept, MovementsOf, CreatedBy
    <3>2. SameJob(j)
      BY <2>1, <2>2, <2>3, <3>1 DEF SameJob, StatusKept
    <3> QED BY <1>0, <3>2, JobKept
  <2>4. CASE RolledBack(w) /\ j = worker[w].job
    BY <1>11, <2>4, JobRolledBack
  <2>5. CASE RolledBack(w) /\ j # worker[w].job
    <3>1. \A m \in worker[w].read : m[1] # j
      BY <2>1, <2>5 DEF WorkersOK, Knows
    <3>2. MovementsOf(j)' = MovementsOf(j)
      BY <2>5, <3>1 DEF RolledBack, MovementsOf
    <3>3. CreatedBy(j)' \subseteq CreatedBy(j)
      BY <1>0, <2>5 DEF RolledBack, CreatedBy
    <3>4. RecordKept(j)
      BY <2>1, <2>5, <3>2, <3>3 DEF RecordKept, RolledBack
    <3>5. StatusKept(j)
      BY <2>5 DEF StatusKept, RolledBack, Typed, TypeOK
    <3>6. SameJob(j)
      BY <2>1, <2>2, <3>4, <3>5 DEF SameJob
    <3> QED BY <1>0, <3>6, JobKept
  <2> QED BY <1>11, <2>3, <2>4, <2>5, RollbackParts
<1>12. ASSUME NEW p \in Product, CreateProduct(p)
       PROVE  JobOK(j)'
  <2>1. /\ creator' = [creator EXCEPT ![p] = Others]
        /\ UNCHANGED <<job, counts, failed, worker, ledger, starts, undone>>
    BY <1>12 DEF CreateProduct
  <2>2. RecordKept(j)
    BY <1>0, <2>1 DEF RecordKept, MovementsOf, CreatedBy, Typed, TypeOK
  <2>3. SameJob(j)
    BY <2>1, <2>2, NoWorkSame DEF SameJob, StatusKept
  <2> QED BY <1>0, <2>3, JobKept
<1>13. ASSUME NEW x \in Place, NEW kind \in {"receipts", "issues"}, Move(x, kind)
       PROVE  JobOK(j)'
  <2>1. UNCHANGED <<job, counts, failed, worker, ledger, creator, starts, undone>>
    BY <1>13 DEF Move
  <2>2. RecordKept(j)
    BY <2>1 DEF RecordKept, MovementsOf, CreatedBy
  <2>3. SameJob(j)
    BY <2>1, <2>2, NoWorkSame DEF SameJob, StatusKept
  <2> QED BY <1>0, <2>3, JobKept
<1>14. ASSUME NEW w \in Worker, NEW x \in Place, LookUp(w, x)
       PROVE  JobOK(j)'
  <2>1. UNCHANGED <<job, counts, failed, worker, ledger, creator, starts, undone>>
    BY <1>14 DEF LookUp
  <2>2. SameJob(j)
    BY <2>1, QuietRecord, NoWorkSame DEF SameJob, StatusKept
  <2> QED BY <1>0, <2>2, JobKept
<1> QED
  BY <1>1, <1>2, <1>3, <1>4, <1>5, <1>6, <1>7, <1>8, <1>9, <1>10, <1>11, <1>12, <1>13, <1>14
  DEF Next, Step

-----------------------------------------------------------------------------
(* Products and stock                                                      *)

LEMMA WriteShelves ==
  ASSUME Typed, ShelvesOK, NEW w \in Worker, NEW k \in Job, NEW rows \in SUBSET Row,
         Write(w, k, rows)
  PROVE  ShelvesOK'
<1> SUFFICES ASSUME NEW x \in Place, x \notin shelved'
             PROVE  activity'[x] = NoActivity /\ \A m \in ledger' : PlaceOf(m[3]) # x
  BY DEF ShelvesOK, Kept
<1>1. /\ ledger' = ledger \union NewMovements(w, k, rows) /\ activity' = activity
      /\ shelved' = shelved \union Touched(rows)
  BY WriteType
<1>2. \A m \in NewMovements(w, k, rows) : PlaceOf(m[3]) \in Touched(rows)
  BY DEF NewMovements, Touched, StockRows
<1> QED BY <1>1, <1>2 DEF ShelvesOK, Kept

\* There is nothing at the places of a product that a rollback deletes.
LEMMA NothingGone ==
  ASSUME Typed, NEW w \in Worker, Allowed(w), RolledBack(w),
         NEW x \in Place, x[1] \in CreatedBy(worker[w].job)
  PROVE  activity[x] = NoActivity /\ \A m \in ledger' : PlaceOf(m[3]) # x
<1>1. x[1] \in Product /\ x[2] \in Warehouse /\ x = <<x[1], x[2]>>
  BY DEF Place
<1>2. Deletable(x[1], worker[w].read) /\ ledger' = ledger \ worker[w].read
  BY DEF Allowed, RolledBack
<1>3. activity[x] = NoActivity /\ \A m \in ledger' : File[m[3]].sku # x[1]
  BY <1>1, <1>2 DEF Deletable
<1> QED BY <1>3 DEF PlaceOf

LEMMA NextShelves ==
  ASSUME Typed, WorkersOK, ShelvesOK, Next
  PROVE  ShelvesOK'
<1>1. CASE UNCHANGED <<activity, ledger, shelved>>
  BY <1>1 DEF ShelvesOK, Kept
<1>2. ASSUME NEW w \in Worker, NEW bad \in SUBSET Row, RunBatch(w, bad)
      PROVE  ShelvesOK'
  <2>1. worker[w].job \in Job /\ Write(w, worker[w].job, ImportedBy(w, bad))
    BY <1>2, RunBatchParts DEF Batched, WorkersOK, Knows
  <2>2. ImportedBy(w, bad) \in SUBSET Row
    BY BatchRows
  <2> QED BY <2>1, <2>2, WriteShelves
<1>3. ASSUME NEW w \in Worker, NEW k \in Job, NEW bad \in SUBSET Row, Retry(w, k, bad)
      PROVE  ShelvesOK'
  <2>1. Imported(worker[w].rows, worker[w].rows, bad) \in SUBSET Row
    BY DEF Imported, Typed, TypeOK
  <2>2. Write(w, k, Imported(worker[w].rows, worker[w].rows, bad))
    BY <1>3 DEF Retry
  <2> QED BY <2>1, <2>2, WriteShelves
<1>4. ASSUME NEW w \in Worker, Rollback(w)
      PROVE  ShelvesOK'
  <2>1. activity' = activity
    BY <1>4, RollbackParts
  <2>2. CASE Allowed(w) /\ RolledBack(w)
    <3> SUFFICES ASSUME NEW x \in Place, x \notin shelved'
                 PROVE  activity[x] = NoActivity /\ \A m \in ledger' : PlaceOf(m[3]) # x
      BY <2>1 DEF ShelvesOK, Kept
    <3>1. CASE x[1] \in CreatedBy(worker[w].job)
      BY <2>2, <3>1, NothingGone
    <3>2. CASE x[1] \notin CreatedBy(worker[w].job)
      <4>1. x \notin shelved /\ ledger' \subseteq ledger
        BY <2>2, <3>2 DEF RolledBack
      <4> QED BY <4>1 DEF ShelvesOK, Kept
    <3> QED BY <3>1, <3>2
  <2> QED BY <1>1, <1>4, <2>1, <2>2, RollbackParts
<1>5. ASSUME NEW x \in Place, NEW kind \in {"receipts", "issues"}, Move(x, kind)
      PROVE  ShelvesOK'
  <2>1. /\ ledger' = ledger /\ shelved' = shelved \union {x}
        /\ activity' = [activity EXCEPT ![x][kind] = @ + 1]
    BY <1>5 DEF Move
  <2>2. \A y \in Place : y # x => activity'[y] = activity[y]
    BY <2>1 DEF Typed, TypeOK
  <2> QED BY <2>1, <2>2 DEF ShelvesOK, Kept
<1> QED
  BY <1>1, <1>2, <1>3, <1>4, <1>5
  DEF Next, Step, Upload, Confirm, Claim, Start, CheckCancel, Finish, Raise, MarkFailed, Stop,
      ReadForCancel, Cancel, ReadForRetry, ReadForRollback, LookUp, CreateProduct, stock

\* Nothing is brought in where no row with a quantity points.
LEMMA QtyUntouched ==
  ASSUME NEW rows \in SUBSET Row, NEW x, x \notin Touched(rows)
  PROVE  QtyAt(rows, x) = 0
<1>1. \A r \in rows : RowQty(x)[r] = 0
  BY Rows DEF RowQty, Touched, StockRows
<1> QED BY <1>1, RowsFinite, SumZero DEF QtyAt

\* What is kept of a place, in numbers.
LEMMA PlaceTypes ==
  ASSUME Typed, NEW x \in Place
  PROVE  /\ activity[x].receipts \in Nat /\ activity[x].issues \in Nat
         /\ onHand[x] \in Nat /\ lost[x] \in Int
<1>1. activity[x] \in [receipts : 0..MaxActivity, issues : 0..MaxActivity]
  BY DEF Typed, TypeOK
<1>2. onHand[x] \in Nat /\ lost[x] \in Int
  BY DEF Typed, TypeOK
<1> QED BY <1>1, <1>2, ImportsAssumption

\* New movements and the stock they bring keep in step, but for what was overwritten.
LEMMA WriteStock ==
  ASSUME Typed, LedgerIsStock, mishap' = mishap,
         NEW w \in Worker, NEW k \in Job, NEW rows \in SUBSET Row, Write(w, k, rows),
         NewMovements(w, k, rows) \intersect ledger = {}
  PROVE  LedgerIsStock'
<1> SUFFICES ASSUME "doubled" \notin mishap, NEW x \in Place
             PROVE  onHand'[x] = (Qty(ledger', x) + activity'[x].receipts - activity'[x].issues)
                                 - lost'[x]
  BY DEF LedgerIsStock, Net
<1> PICK N : N = NewMovements(w, k, rows)
  OBVIOUS
<1>1. ledger' = ledger \union N /\ activity' = activity
  BY WriteType
<1>2. /\ N \in SUBSET Movements /\ IsFiniteSet(N) /\ ledger \in SUBSET Movements
      /\ IsFiniteSet(ledger) /\ Qty(N, x) = QtyAt(rows, x)
  <2>1. ledger \in SUBSET Movements /\ IsFiniteSet(ledger)
    BY DEF Typed, TypeOK
  <2> QED BY <2>1, QtyOfRows
<1>3. PICK a \in Nat, q \in Nat : a = Qty(ledger, x) /\ q = QtyAt(rows, x)
  BY <1>2, QtyType, QtyAtType
<1>4. Qty(ledger', x) = a + q
  BY <1>1, <1>2, <1>3, QtyUnion
<1>5. PICK r \in Nat, i \in Nat, o \in Nat, l \in Int :
        r = activity[x].receipts /\ i = activity[x].issues /\ o = onHand[x] /\ l = lost[x]
  BY PlaceTypes
<1>6. PICK b \in Nat : b = Balance(w, x)
  BY BalanceType
<1>7. o = (a + r - i) - l
  BY <1>3, <1>5 DEF LedgerIsStock, Net
<1>8. onHand'[x] = ((a + q) + r - i) - lost'[x]
  <2>1. CASE x \in Touched(rows)
    <3>1. onHand'[x] = b + q /\ lost'[x] = l + o - b
      BY <1>3, <1>5, <1>6, <2>1 DEF Write
    <3> QED BY <1>5, <1>7, <3>1
  <2>2. CASE x \notin Touched(rows)
    <3>1. onHand'[x] = o /\ lost'[x] = l /\ q = 0
      BY <1>3, <1>5, <1>6, <2>2, QtyUntouched DEF Write
    <3> QED BY <1>5, <1>7, <3>1
  <2> QED BY <2>1, <2>2
<1> QED BY <1>1, <1>4, <1>5, <1>8

\* A rollback that finds its movements takes away what they brought, and what is
\* deleted with a product was nothing.
LEMMA RollbackStock ==
  ASSUME Typed, WorkersOK, ShelvesOK, LedgerIsStock,
         NEW w \in Worker, Allowed(w), RolledBack(w), activity' = activity
  PROVE  LedgerIsStock'
<1> SUFFICES ASSUME "doubled" \notin mishap', NEW x \in Place
             PROVE  onHand'[x] = (Qty(ledger', x) + activity[x].receipts - activity[x].issues)
                                 - lost'[x]
  BY DEF LedgerIsStock, Net
<1> PICK M, gone : M = worker[w].read /\ gone = CreatedBy(worker[w].job)
  OBVIOUS
<1>1. /\ M \subseteq ledger /\ mishap' = mishap /\ ledger' = ledger \ M
      /\ onHand'[x] = IF x[1] \in gone THEN 0
                      ELSE IF x \in shelved THEN onHand[x] - Qty(M, x) ELSE onHand[x]
      /\ lost'[x] = IF x[1] \in gone THEN 0 ELSE lost[x]
  BY DEF RolledBack, StockWithout
<1>2. /\ ledger \in SUBSET Movements /\ IsFiniteSet(ledger)
      /\ M \in SUBSET Movements /\ IsFiniteSet(M)
      /\ ledger' \in SUBSET Movements /\ IsFiniteSet(ledger')
  BY <1>1, FS_Subset DEF Typed, TypeOK, WorkersOK, Knows
<1>3. PICK r \in Nat, i \in Nat, o \in Nat, l \in Int :
        r = activity[x].receipts /\ i = activity[x].issues /\ o = onHand[x] /\ l = lost[x]
  BY PlaceTypes
<1>4. o = (Qty(ledger, x) + r - i) - l
  BY <1>1, <1>3 DEF LedgerIsStock, Net
<1>5. CASE x[1] \in gone
  <2>1. activity[x] = NoActivity /\ \A m \in ledger' : PlaceOf(m[3]) # x
    BY <1>5, NothingGone
  <2>2. r = 0 /\ i = 0 /\ Qty(ledger', x) = 0
    BY <1>2, <1>3, <2>1, QtyZero DEF NoActivity
  <2> QED BY <1>1, <1>3, <1>5, <2>2
<1>6. CASE x[1] \notin gone /\ x \in shelved
  <2>1. ledger = ledger' \union M /\ ledger' \intersect M = {}
    BY <1>1
  <2>2. PICK a \in Nat, q \in Nat : a = Qty(ledger', x) /\ q = Qty(M, x)
    BY <1>2, QtyType
  <2>3. Qty(ledger, x) = a + q
    BY <1>2, <2>1, <2>2, QtyUnion
  <2>4. onHand'[x] = o - q /\ lost'[x] = l
    BY <1>1, <1>3, <1>6, <2>2
  <2>5. o - q = (a + r - i) - l
    BY <1>4, <2>3
  <2> QED BY <1>3, <2>2, <2>4, <2>5
<1>7. CASE x[1] \notin gone /\ x \notin shelved
  <2>1. \A m \in ledger : PlaceOf(m[3]) # x
    BY <1>7 DEF ShelvesOK, Kept
  <2>2. Qty(ledger, x) = 0 /\ Qty(ledger', x) = 0
    BY <1>1, <1>2, <2>1, QtyZero
  <2>3. onHand'[x] = o /\ lost'[x] = l
    BY <1>1, <1>3, <1>7
  <2> QED BY <1>3, <1>4, <2>2, <2>3
<1> QED BY <1>5, <1>6, <1>7

LEMMA NextStock ==
  ASSUME Typed, WorkersOK, JobsOK, ShelvesOK, LedgerIsStock, Next
  PROVE  LedgerIsStock'
<1>1. CASE UNCHANGED <<activity, ledger, onHand, lost>> /\ ("doubled" \in mishap => "doubled" \in mishap')
  BY <1>1 DEF LedgerIsStock, Net
<1>2. ASSUME NEW w \in Worker, NEW bad \in SUBSET Row, RunBatch(w, bad)
      PROVE  LedgerIsStock'
  <2>1. /\ worker[w].job \in Job /\ Write(w, worker[w].job, ImportedBy(w, bad))
        /\ worker[w].pc = "batch" /\ mishap' = mishap
    BY <1>2, RunBatchParts DEF Batched, WorkersOK, Knows
  <2>2. ImportedBy(w, bad) \in SUBSET BatchOf(w) /\ BatchOf(w) \in SUBSET Row
    BY BatchRows
  <2>3. NewMovements(w, worker[w].job, ImportedBy(w, bad)) \intersect ledger = {}
    <3> SUFFICES ASSUME NEW m \in ledger, m \in NewMovements(w, worker[w].job, ImportedBy(w, bad))
                 PROVE  FALSE
      OBVIOUS
    <3>1. m[1] = worker[w].job /\ m[2] = w /\ m[3] \in BatchOf(w)
      BY <2>2 DEF NewMovements
    <3>2. m[3] < worker[w].next
      BY <2>1, <3>1 DEF WorkersOK, Ahead
    <3>3. m[3] >= worker[w].next /\ m[3] \in Nat /\ worker[w].next \in Nat
      BY <2>2, <3>1, Rows DEF BatchOf, Typed, TypeOK
    <3> QED BY <3>2, <3>3
  <2> QED BY <2>1, <2>2, <2>3, WriteStock
<1>3. ASSUME NEW w \in Worker, NEW k \in Job \ FirstJob, NEW bad \in SUBSET Row,
             Retry(w, k, bad)
      PROVE  LedgerIsStock'
  <2>1. Imported(worker[w].rows, worker[w].rows, bad) \in SUBSET Row
    BY DEF Imported, Typed, TypeOK
  <2>2. /\ Write(w, k, Imported(worker[w].rows, worker[w].rows, bad)) /\ mishap' = mishap
        /\ job[k] = "none"
    BY <1>3 DEF Retry
  <2>3. MovementsOf(k) = {}
    BY <2>2 DEF JobsOK, JobOK, Unstarted, Bare
  <2>4. NewMovements(w, k, Imported(worker[w].rows, worker[w].rows, bad)) \intersect ledger = {}
    BY <2>3 DEF NewMovements, MovementsOf
  <2> QED BY <2>1, <2>2, <2>4, WriteStock
<1>4. ASSUME NEW w \in Worker, Rollback(w)
      PROVE  LedgerIsStock'
  BY <1>1, <1>4, RollbackParts, RollbackStock
<1>5. ASSUME NEW x \in Place, NEW kind \in {"receipts", "issues"}, Move(x, kind)
      PROVE  LedgerIsStock'
  <2> SUFFICES ASSUME "doubled" \notin mishap, NEW y \in Place
               PROVE  onHand'[y] = (Qty(ledger, y) + activity'[y].receipts - activity'[y].issues)
                                     - lost[y]
    BY <1>5 DEF LedgerIsStock, Net, Move
  <2>1. PICK a \in Nat : a = Qty(ledger, y)
    BY QtyType DEF Typed, TypeOK
  <2>2. PICK r \in Nat, i \in Nat : r = activity[y].receipts /\ i = activity[y].issues
    BY PlaceTypes
  <2>3. PICK l \in Int : l = lost[y] /\ onHand[y] = (a + r - i) - l
    BY <2>1, <2>2, PlaceTypes DEF LedgerIsStock, Net
  <2>4. CASE y # x
    <3>1. onHand'[y] = onHand[y] /\ activity'[y] = activity[y]
      BY <1>5, <2>4 DEF Move, Typed, TypeOK
    <3> QED BY <2>1, <2>2, <2>3, <3>1
  <2>5. CASE y = x /\ kind = "receipts"
    <3>1. onHand'[y] = onHand[y] + 1
      BY <1>5, <2>5 DEF Move, Typed, TypeOK
    <3>2. activity'[y].receipts = r + 1 /\ activity'[y].issues = i
      BY <1>5, <2>2, <2>5 DEF Move, Typed, TypeOK
    <3> QED BY <2>1, <2>3, <3>1, <3>2
  <2>6. CASE y = x /\ kind = "issues"
    <3>1. onHand'[y] = onHand[y] - 1
      BY <1>5, <2>6 DEF Move, Typed, TypeOK
    <3>2. activity'[y].receipts = r /\ activity'[y].issues = i + 1
      BY <1>5, <2>2, <2>6 DEF Move, Typed, TypeOK
    <3> QED BY <2>1, <2>3, <3>1, <3>2
  <2> QED BY <2>4, <2>5, <2>6
<1>6. CASE Stop
  BY <1>1, <1>6 DEF Stop
<1> QED
  BY <1>1, <1>2, <1>3, <1>4, <1>5, <1>6
  DEF Next, Step, Upload, Confirm, Claim, Start, CheckCancel, Finish, Raise, MarkFailed,
      ReadForCancel, Cancel, ReadForRetry, ReadForRollback, LookUp, CreateProduct, stock

-----------------------------------------------------------------------------
(* The invariant                                                           *)

LEMMA JInvInit == Init => JInv
<1> SUFFICES ASSUME Init PROVE JInv
  OBVIOUS
<1>1. Typed
  <2>1. worker \in [Worker -> WorkerState] /\ counts \in [Job -> Counts]
    BY IdleType DEF Init
  <2>2. onHand \in [Place -> Nat] /\ creator \in [Product -> Job \union {None, Others}]
    BY DEF Init
  <2>3. activity \in [Place -> [receipts : 0..MaxActivity, issues : 0..MaxActivity]]
    BY ImportsAssumption DEF Init, NoActivity
  <2>4. /\ job \in [Job -> JobStatus] /\ failed \in [Job -> SUBSET Row]
        /\ requests \in 0..MaxRequests /\ starts \in [Job -> Nat]
        /\ undone \subseteq Job /\ mishap \subseteq {"stopped", "doubled"}
        /\ ledger \subseteq Movements /\ aborted \subseteq Job /\ shelved \subseteq Place
    BY ImportsAssumption DEF Init, JobStatus
  <2>5. IsFiniteSet(ledger)
    BY FS_EmptySet DEF Init
  <2>6. saw \in [Worker -> SawState] /\ lost \in [Place -> Int]
    BY DEF Init, Unseen, SawState
  <2> QED BY <2>1, <2>2, <2>3, <2>4, <2>5, <2>6 DEF Typed, TypeOK, WorkerState, SawState
<1>2. WorkersOK
  <2> SUFFICES ASSUME NEW w \in Worker
               PROVE  Knows(w) /\ Ahead(w) /\ Counted(w) /\ StopsIn(w)
    BY DEF WorkersOK
  <2>1. /\ worker[w].pc = "idle" /\ worker[w].next = 1 /\ worker[w].tally = NoCounts
        /\ worker[w].late = 0 /\ worker[w].read = {}
    BY DEF Init, Idle
  <2>2. Knows(w)
    BY <2>1, FS_EmptySet DEF Knows, Running
  <2>3. Ahead(w) /\ StopsIn(w)
    BY <2>1 DEF Ahead, StopsIn
  <2>4. Counted(w)
    BY <2>1, NothingBefore DEF Counted
  <2> QED BY <2>2, <2>3, <2>4
<1>3. JobsOK
  <2> SUFFICES ASSUME NEW j \in Job PROVE JobOK(j)
    BY DEF JobsOK
  <2>1. ActiveAt(j) = {} /\ UndoingAt(j) = {}
    BY DEF Init, Idle, ActiveAt, UndoingAt, Active
  <2>2. /\ MovementsOf(j) = {} /\ failed[j] = {} /\ counts[j] = NoCounts /\ j \notin undone
        /\ job[j] = "none" /\ starts[j] = 0
    BY DEF Init, MovementsOf
  <2>3. CreatedBy(j) = {}
    BY ImportsAssumption DEF Init, CreatedBy
  <2>4. Bare(j)
    BY <2>1, <2>2, <2>3 DEF Bare
  <2>5. Alone(j) /\ Settled(j) /\ Tracked(j)
    BY <2>1, <2>2 DEF Alone, Settled, Tracked
  <2>6. Told(j)
    <3>1. RowsOf(MovementsOf(j)) = {}
      BY <2>2 DEF RowsOf
    <3>2. counts[j].errors = 0 /\ counts[j].imported = 0 /\ Cardinality({}) = 0
      BY <2>2, FS_EmptySet DEF NoCounts
    <3> QED BY <2>2, <3>1, <3>2 DEF Told
  <2> QED BY <2>2, <2>4, <2>5, <2>6 DEF JobOK, Once
<1>4. ShelvesOK
  BY DEF Init, ShelvesOK, Kept
<1>5. LedgerIsStock
  <2> SUFFICES ASSUME NEW x \in Place PROVE onHand[x] = Net(x) - lost[x]
    BY DEF LedgerIsStock
  <2>1. Qty(ledger, x) = 0
    BY SumEmpty DEF Init, Qty
  <2>2. onHand[x] = 0 /\ lost[x] = 0 /\ activity[x].receipts = 0 /\ activity[x].issues = 0
    BY DEF Init, NoActivity
  <2> QED BY <2>1, <2>2 DEF Net
<1> QED BY <1>1, <1>2, <1>3, <1>4, <1>5 DEF JInv

LEMMA JInvStutter == JInv /\ UNCHANGED vars => JInv'
<1> SUFFICES ASSUME JInv, UNCHANGED vars PROVE JInv'
  OBVIOUS
<1> USE DEF vars
<1>1. Typed'
  BY DEF JInv, Typed, TypeOK
<1>2. WorkersOK'
  BY DEF JInv, WorkersOK, Knows, Ahead, Counted, StopsIn, Before
<1>3. JobsOK'
  <2> SUFFICES ASSUME NEW j \in Job PROVE JobOK(j)'
    BY DEF JobsOK
  <2>1. SameJob(j)
    BY NoWorkSame DEF SameJob, StatusKept, RecordKept, MovementsOf, CreatedBy
  <2> QED BY <2>1, JobKept DEF JInv, JobsOK
<1>4. ShelvesOK'
  BY DEF JInv, ShelvesOK, Kept
<1>5. LedgerIsStock'
  BY DEF JInv, LedgerIsStock, Net
<1> QED BY <1>1, <1>2, <1>3, <1>4, <1>5 DEF JInv

LEMMA JInvStep == JInv /\ [Next]_vars => JInv'
<1>1. ASSUME JInv, Next PROVE JInv'
  BY <1>1, NextTypes, NextWorkers, NextJobs, NextShelves, NextStock DEF JInv
<1> QED BY <1>1, JInvStutter

LEMMA JInvAlways == Spec => []JInv
<1>1. ImportsAssumption
  BY ImportsAssumption
<1> QED BY <1>1, JInvInit, JInvStep, PTL DEF Spec

\* Every column keeps its type: in particular no batch, retry, rollback or other
\* movement leaves a negative stock, and no counter exceeds the rows of the file.
THEOREM ImportsTyped == Spec => []TypeOK
<1>1. JInv => TypeOK
  BY DEF JInv, Typed
<1> QED BY <1>1, JInvAlways, PTL

\* The stock is what the ledger says, less what imports have overwritten, unless one
\* job was rolled back twice at the same time: an import that looked at a balance
\* before others changed it loses what they did, no more and no less.
THEOREM StockFollowsLedger == Spec => []LedgerIsStock
<1>1. JInv => LedgerIsStock
  BY DEF JInv
<1> QED BY <1>1, JInvAlways, PTL

\* The counters and the errors of a job that was started once are what it has
\* committed, however often tasks were launched for it, failed or were lost.
THEOREM ProgressSurvives == Spec => []BatchesAddUp
<1>1. JInv => BatchesAddUp
  BY DEF JInv, JobsOK, JobOK, Once, Told, BatchesAddUp
<1> QED BY <1>1, JInvAlways, PTL

\* A rollback of a job that was started once leaves nothing of it: nobody was still
\* at work on it, and the rollback had read all its movements.
THEOREM RollbackIsComplete == Spec => []RolledBackIsGone
<1>1. JInv => RolledBackIsGone
  BY DEF JInv, Typed, TypeOK, JobsOK, JobOK, Once, Settled, CreatedBy, RolledBackIsGone
<1> QED BY <1>1, JInvAlways, PTL

\* The check between two batches bounds what is committed in spite of a
\* cancellation that stands.
THEOREM CancelBoundsTheTask == Spec => []CancelStopsTheTask
<1>1. JInv => CancelStopsTheTask
  BY DEF JInv, WorkersOK, StopsIn, CancelStopsTheTask
<1> QED BY <1>1, JInvAlways, PTL
-----------------------------------------------------------------------------
(* Progress                                                                *)

\* What a worker at step pc, with row next to process, takes at most this many steps
\* more for: two for each batch, of at least one row, and those before and after them.
StepsFrom(pc, next) ==
  LET rows == Len(File) + 1 - next
  IN  CASE pc = "launched" -> 2 * rows + 4
        [] pc = "claimed" -> 2 * rows + 3
        [] pc = "check" -> 2 * rows + 2
        [] pc = "batch" -> 2 * rows + 1
        [] pc \in {"completed", "cancelled"} -> 2
        [] pc \in {"failing", "cancel", "retry", "rollback"} -> 1
        [] OTHER -> 0

Left(w) == StepsFrom(worker[w].pc, worker[w].next)

LEMMA StepsLeft ==
  ASSUME NEW pc \in WorkerStep, NEW n \in Nat,
         pc \in {"launched", "claimed", "check", "batch"} => n \in 1..Len(File)
  PROVE  /\ StepsFrom(pc, n) \in 0..(2 * Len(File) + 4)
         /\ pc # "idle" => StepsFrom(pc, n) > 0
         /\ pc \in Running => StepsFrom(pc, n) > 1
<1>0. Len(File) \in Nat
  BY Rows
<1>1. CASE pc \in {"launched", "claimed", "check", "batch"}
  <2>1. n \in 1..Len(File)
    BY <1>1
  <2> QED BY <1>0, <1>1, <2>1 DEF StepsFrom
<1>2. CASE pc \in {"completed", "cancelled"}
  BY <1>0, <1>2 DEF StepsFrom
<1>3. CASE pc \in {"failing", "cancel", "retry", "rollback"}
  BY <1>0, <1>3 DEF StepsFrom, Running
<1>4. CASE pc = "idle"
  BY <1>0, <1>4 DEF StepsFrom, Running
<1> QED BY <1>1, <1>2, <1>3, <1>4 DEF WorkerStep, Running

\* The steps of a task, one after the other.
LEMMA StepsFall ==
  ASSUME NEW n \in 1..Len(File), NEW m \in Nat, m > n
  PROVE  /\ StepsFrom("claimed", n) < StepsFrom("launched", n)
         /\ StepsFrom("check", n) < StepsFrom("claimed", n)
         /\ StepsFrom("batch", n) < StepsFrom("check", n)
         /\ StepsFrom("cancelled", n) < StepsFrom("check", n)
         /\ StepsFrom("check", m) < StepsFrom("batch", n)
         /\ StepsFrom("completed", m) < StepsFrom("batch", n)
<1>1. Len(File) \in Nat
  BY Rows
<1>2. StepsFrom("claimed", n) < StepsFrom("launched", n)
  BY <1>1 DEF StepsFrom
<1>3. StepsFrom("check", n) < StepsFrom("claimed", n)
  BY <1>1 DEF StepsFrom
<1>4. StepsFrom("batch", n) < StepsFrom("check", n)
  BY <1>1 DEF StepsFrom
<1>5. StepsFrom("cancelled", n) < StepsFrom("check", n)
  BY <1>1 DEF StepsFrom
<1>6. StepsFrom("check", m) < StepsFrom("batch", n)
  BY <1>1 DEF StepsFrom
<1>7. StepsFrom("completed", m) < StepsFrom("batch", n)
  BY <1>1 DEF StepsFrom
<1> QED BY <1>2, <1>3, <1>4, <1>5, <1>6, <1>7

\* A task looks at the job between batches only while there are rows left.
InFile(w) ==
  worker[w].pc \in {"launched", "claimed", "check", "batch"} => worker[w].next \in 1..Len(File)

Progresses(w) == worker[w].pc # "idle" => worker'[w] = worker[w] \/ Left(w)' < Left(w)

\* What a worker does: it takes on a request, or what it has taken on goes on.
LEMMA WorkerSteps ==
  ASSUME Typed, WorkersOK, Next, NEW w \in Worker
  PROVE  \/ worker'[w] = worker[w]
         \/ worker'[w] = Idle
         \/ worker[w].pc = "idle" /\ worker'[w].next = 1
         \/ /\ worker'[w].next = worker[w].next
            /\ <<worker[w].pc, worker'[w].pc>> \in
                 {<<"launched", "claimed">>, <<"claimed", "check">>, <<"check", "batch">>,
                  <<"check", "cancelled">>}
         \/ worker[w].pc \in Running /\ worker'[w].pc = "failing"
         \/ /\ worker[w].pc = "batch"
            /\ worker'[w].next = NextOf(w) /\ worker'[w].pc = AfterBatch(NextOf(w))
<1> DEFINE Goal == \/ worker'[w] = worker[w]
                   \/ worker'[w] = Idle
                   \/ worker[w].pc = "idle" /\ worker'[w].next = 1
                   \/ /\ worker'[w].next = worker[w].next
                      /\ <<worker[w].pc, worker'[w].pc>> \in
                           {<<"launched", "claimed">>, <<"claimed", "check">>,
                            <<"check", "batch">>, <<"check", "cancelled">>}
                   \/ worker[w].pc \in Running /\ worker'[w].pc = "failing"
                   \/ /\ worker[w].pc = "batch"
                      /\ worker'[w].next = NextOf(w) /\ worker'[w].pc = AfterBatch(NextOf(w))
<1>0. /\ worker \in [Worker -> WorkerState]
      /\ \A j \in Job : MovementsOf(j) \in SUBSET Movements
  BY DEF Typed, TypeOK, WorkerState, MovementsOf
<1>1. ASSUME NEW v \in Worker, Rest(v) PROVE Goal
  BY <1>0, <1>1, RestType
<1>2. ASSUME NEW v \in Worker, NEW pc \in WorkerStep, Become(v, pc),
             \/ <<worker[v].pc, pc>> \in {<<"launched", "claimed">>, <<"claimed", "check">>}
             \/ worker[v].pc \in Running /\ pc = "failing"
      PROVE  Goal
  <2>1. CASE v # w
    BY <1>0, <1>2, <2>1, BecomeType
  <2>2. CASE v = w
    <3>1. worker[w] \in WorkerState /\ worker'[w] = [worker[w] EXCEPT !.pc = pc]
      BY <1>0, <1>2, <2>2, BecomeType
    <3>2. worker'[w].pc = pc /\ worker'[w].next = worker[w].next
      BY <3>1 DEF WorkerState
    <3>3. CASE worker[v].pc \in Running /\ pc = "failing"
      BY <2>2, <3>2, <3>3
    <3>4. CASE <<worker[v].pc, pc>> \in {<<"launched", "claimed">>, <<"claimed", "check">>}
      BY <2>2, <3>2, <3>4
    <3> QED BY <1>2, <3>3, <3>4
  <2> QED BY <2>1, <2>2
<1>3. ASSUME NEW v \in Worker, NEW j \in Job,
             Confirm(v, j) \/ ReadForCancel(v, j) \/ ReadForRetry(v, j) \/ ReadForRollback(v, j)
      PROVE  Goal
  <2>1. PICK pc \in {"launched", "cancel", "retry", "rollback"}, M \in {{}, MovementsOf(j)},
             rows \in {{}, failed[j]} : Take(v, pc, j, M, rows)
    BY <1>3 DEF Confirm, ReadForCancel, ReadForRetry, ReadForRollback
  <2>2. /\ pc \in WorkerStep /\ M \in SUBSET Movements /\ rows \in SUBSET Row
        /\ worker[v].pc = "idle"
    BY <1>0, <1>3, <2>1, StepNames
    DEF Confirm, ReadForCancel, ReadForRetry, ReadForRollback, Doing, Typed, TypeOK
  <2>3. /\ \A u \in Worker : u # v => worker'[u] = worker[u]
        /\ worker'[v].next = 1
    BY <1>0, <2>1, <2>2, TakeType DEF Fresh
  <2> QED BY <2>2, <2>3
<1>4. ASSUME NEW v \in Worker, CheckCancel(v) PROVE Goal
  <2>1. PICK pc \in {"cancelled", "batch"}, late \in {worker[v].late, 0} :
          worker' = [worker EXCEPT ![v] = [@ EXCEPT !.pc = pc, !.late = late]]
    BY <1>4 DEF CheckCancel
  <2>2. worker[v].pc = "check"
    BY <1>4 DEF CheckCancel, Doing
  <2>3. worker'[v].pc = pc /\ worker'[v].next = worker[v].next
    BY <1>0, <2>1 DEF WorkerState
  <2>4. CASE v # w
    BY <1>0, <2>1, <2>4
  <2>5. CASE v = w
    BY <2>1, <2>2, <2>3, <2>5
  <2> QED BY <2>4, <2>5
<1>5. ASSUME NEW v \in Worker, NEW bad \in SUBSET Row, RunBatch(v, bad) PROVE Goal
  <2>1. worker[v].pc = "batch" /\ worker' = [worker EXCEPT ![v] = Furthered(v, bad)]
    BY <1>5, RunBatchParts DEF RunBatch, Doing
  <2>2. CASE v # w
    BY <1>0, <2>1, <2>2
  <2>3. CASE v = w
    <3>1. worker'[w] = Furthered(w, bad)
      BY <1>0, <2>1, <2>3
    <3>2. worker'[w].next = NextOf(w) /\ worker'[w].pc = AfterBatch(NextOf(w))
      BY <3>1, FurtherType DEF WorkersOK
    <3> QED BY <2>1, <2>3, <3>2
  <2> QED BY <2>2, <2>3
<1>6. ASSUME NEW v \in Worker, Step(v) PROVE Goal
  <2>1. CASE Claim(v)
    <3>1. CASE Rest(v)
      BY <1>1, <3>1
    <3>2. CASE Become(v, "claimed")
      BY <1>2, <2>1, <3>2, StepNames DEF Claim, Doing
    <3> QED BY <2>1, <3>1, <3>2 DEF Claim
  <2>2. CASE Start(v)
    BY <1>2, <2>2, StepNames DEF Start, Doing
  <2>3. CASE \/ Finish(v) \/ MarkFailed(v) \/ Cancel(v) \/ Rollback(v)
             \/ \E bad \in SUBSET Row, k \in Job \ FirstJob : Retry(v, k, bad)
    BY <1>1, <2>3 DEF Finish, MarkFailed, Cancel, Rollback, Retry
  <2> QED BY <1>4, <1>5, <1>6, <2>1, <2>2, <2>3 DEF Step
<1>7. ASSUME NEW v \in Worker, Raise(v) PROVE Goal
  BY <1>2, <1>7, StepNames DEF Raise
<1>8. CASE Stop
  BY <1>8 DEF Stop
<1> HIDE DEF Goal
<1>9. Goal
  BY <1>3, <1>6, <1>7, <1>8 DEF Next, Upload, LookUp, CreateProduct, Move, Goal
<1> QED BY <1>9 DEF Goal

\* Each of these stays in the file, and brings the worker nearer to its end.
LEMMA WorkerProgress ==
  ASSUME Typed, WorkersOK, Next, NEW w \in Worker, InFile(w)
  PROVE  InFile(w)' /\ Progresses(w)
<1> DEFINE n == worker[w].next
           p == worker[w].pc
<1>1. n \in Nat /\ p \in WorkerStep /\ BatchSize \in Nat \ {0} /\ Len(File) \in Nat \ {0}
  BY ImportsAssumption, Rows DEF Typed, TypeOK
<1>2. /\ Left(w) \in 0..(2 * Len(File) + 4)
      /\ p # "idle" => Left(w) > 0
      /\ p \in Running => Left(w) > 1
  BY <1>1, StepsLeft DEF InFile, Left
<1>3. CASE worker'[w] = worker[w]
  BY <1>3 DEF InFile, Progresses
<1>4. CASE worker'[w] = Idle
  <2>1. worker'[w].pc = "idle"
    BY <1>4 DEF Idle
  <2>2. Left(w)' = 0
    BY <2>1 DEF Left, StepsFrom
  <2>3. p # "idle" => Left(w)' < Left(w)
    BY <1>2, <2>2
  <2> QED BY <2>1, <2>3 DEF InFile, Progresses
<1>5. CASE p = "idle" /\ worker'[w].next = 1
  BY <1>1, <1>5 DEF InFile, Progresses
<1>6. CASE /\ worker'[w].next = n
           /\ <<p, worker'[w].pc>> \in
                {<<"launched", "claimed">>, <<"claimed", "check">>, <<"check", "batch">>,
                 <<"check", "cancelled">>}
  <2>1. n \in 1..Len(File) /\ n + 1 \in Nat /\ n + 1 > n
    BY <1>1, <1>6 DEF InFile
  <2>2. Left(w)' < Left(w)
    BY <1>6, <2>1, StepsFall DEF Left
  <2> QED BY <1>6, <2>1, <2>2 DEF InFile, Progresses
<1>7. CASE p \in Running /\ worker'[w].pc = "failing"
  <2>1. Left(w)' = 1
    BY <1>7 DEF Left, StepsFrom
  <2>2. Left(w)' < Left(w)
    BY <1>1, <1>2, <1>7, <2>1
  <2> QED BY <1>7, <2>2 DEF InFile, Progresses
<1>8. CASE /\ p = "batch"
           /\ worker'[w].next = NextOf(w) /\ worker'[w].pc = AfterBatch(NextOf(w))
  <2>1. n \in 1..Len(File) /\ NextOf(w) \in Nat /\ NextOf(w) > n
    BY <1>1, <1>8 DEF InFile, NextOf
  <2>2. AfterBatch(NextOf(w)) = IF NextOf(w) <= Len(File) THEN "check" ELSE "completed"
    BY DEF AfterBatch
  <2>3. Left(w)' < Left(w)
    BY <1>8, <2>1, <2>2, StepsFall DEF Left
  <2> QED BY <1>1, <1>8, <2>1, <2>2, <2>3 DEF InFile, Progresses
<1> QED BY <1>3, <1>4, <1>5, <1>6, <1>7, <1>8, WorkerSteps

\* A task or a request never goes back or stands still: every step of a worker that is
\* at work brings it nearer to its end, and what it has left is at most two steps for
\* each row of the file and four more, whatever the batch size and whoever else writes
\* to its job.  That a running job ends is then a matter of the event loop running its
\* task (RunningJobsEnd).
THEOREM TasksAdvance ==
  Spec => /\ []\A w \in Worker : Left(w) \in 0..(2 * Len(File) + 4)
          /\ [][\A w \in Worker : Progresses(w)]_vars
<1> DEFINE Inv == JInv /\ \A w \in Worker : InFile(w)
           All == \A w \in Worker : Progresses(w)
           Bounded == \A w \in Worker : Left(w) \in 0..(2 * Len(File) + 4)
<1>1. Init => Inv
  BY JInvInit DEF Init, Idle, InFile
<1>2. Inv /\ [Next]_vars => Inv'
  <2>1. ASSUME Inv, Next PROVE \A w \in Worker : InFile(w)'
    BY <2>1, WorkerProgress DEF JInv
  <2>2. ASSUME Inv, UNCHANGED vars PROVE \A w \in Worker : InFile(w)'
    BY <2>2 DEF InFile, vars
  <2> QED BY <2>1, <2>2, JInvStep
<1>3. Inv /\ [Next]_vars => [All]_vars
  BY WorkerProgress DEF JInv
<1>4. Inv => Bounded
  <2> SUFFICES ASSUME Inv, NEW w \in Worker PROVE Left(w) \in 0..(2 * Len(File) + 4)
    OBVIOUS
  <2>1. worker[w].pc \in WorkerStep /\ worker[w].next \in Nat
    BY DEF JInv, Typed, TypeOK
  <2> QED BY <2>1, StepsLeft DEF InFile, Left
<1> HIDE DEF Inv, All, Bounded
<1>5. Spec => []Inv
  BY <1>1, <1>2, PTL DEF Spec
<1>6. Spec => []Bounded
  BY <1>4, <1>5, PTL
<1>7. Spec => [][All]_vars
  BY <1>3, <1>5, PTL DEF Spec
<1> QED BY <1>6, <1>7 DEF All, Bounded
=============================================================================
