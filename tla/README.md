# Verification of the inventory and procurement platform

TLA+ models of the stock, document and money core of this repository (`backend/app`), checked with
TLC and, where it matters most, proved with TLAPS. The models are translated from the code; where a
comment, a document or a test of the repository says something else, that is a finding (section 6).

Run everything from this directory:

```
tlc -workers 2 -config MCInventory.cfg MCInventory      # any other MC module and .cfg likewise
tlapm InventoryProofs.tla
```

`PROJECT.json` lists the components, the runs, which lines of the code each definition stands for
("map"), for every property of a passing run one plausible bug that breaks it ("mutants": the
operators marked *Faulty variant* in the modules), the hazards and the theorems.

---------------------------------------------------------------------------------------------------

## 1. The system

A FastAPI backend over PostgreSQL 16, used by many tenants, with a React client. What shapes every
model:

- **One transaction per request** (`api/v1/deps.py: get_db`): READ COMMITTED, committed at the end,
  rolled back on any exception. A handler whose check fails raises, so a failed request changes
  nothing.
- **Row locks**: handlers read what they are about to change with `SELECT ... FOR UPDATE` - usually
  the document's header, then the inventory rows, one after the other. Where they do not, two
  requests interleave.
- **Objects are cached in the session** (`expire_on_commit=False`, `autoflush=False`, identity map):
  an object that a request has read before is not refreshed when it is locked later.
- **Append-only ledgers, derived balances**: `stock_movements` next to `inventory`,
  `account_movements` next to accounts whose balance is never stored.
- Quantities and money are `NUMERIC`, that is, exact: integers in units of the last digit.

### Inventory of components

| Component | State | Operations | Interacts with | What is hard | What makes it correct |
|---|---|---|---|---|---|
| Inventory core (`services/inventory_service.py`, `repositories/inventory_repo.py`, `reservation_repo.py`) | `inventory` rows (on hand, reserved, damaged), `stock_movements`, `inventory_reservations` | receive, opening balance, issue, issue against a reservation, adjust, transfer, reserve, consume, release | called by every part that moves stock | read-compute-write on shared rows, rows that do not exist yet, holds consumed in parts, clip at zero | ledger explains balance; reserved = active holds; no stock promised twice; requests atomic and free of avoidable deadlock |
| Demand feed (`demand/`) | `sales_daily` | written by sales and by a rebuild from issue movements | inventory, forecast, reorder | rebuilt at any time, two writers | no source counts more than was issued |
| Order requests and stock transfers (`order_requests/`) | `request_headers`, `request_lines` | create, submit, approve (clamped), reject, cancel, issue, receive, complete | inventory | partial approvals, repeated issues and receipts, recounts, correction while in transit | holds = what is owed; conservation from source to destination; closing needs every line reconciled |
| Procurement (`procurement/`) | `purchase_orders`, lines | create, edit, submit, approve, reject, cancel, send, receive in parts | reorder, inventory, e-mail and PDF | partial receipts, edits against approval | status tells receipts; approved = delivered; stock comes from receipts |
| Reorder engine (`reorder/`) | `reorder_recommendations` | run (evaluate and persist), convert to purchase orders | inventory, procurement, demand | unlocked reads, two statements of one run see two moments, concurrent conversions | a recommendation makes one order; quantity arithmetic |
| Sales (`sales/`) | quotations, orders, deliveries, invoices, receipts, returns, credit notes | create, confirm, cancel, deliver in parts, invoice, pay, till sale, void, return, credit | inventory, finance, motorcycles | long document chains in any order, voids and credit notes that cross | orders hold what they owe; notes explain deliveries; status tells settlement; money follows the invoice |
| Finance (`finance/`) | accounts, `account_movements`, expenses, transfers, handovers, method mapping | post, reverse, confirm, map, (de)activate | sales | documents that are not locked, lock order, foreign-key locks, stale account objects | transfers conserve money; documents in force are backed; reversals cancel exactly what they reverse |
| Import jobs (`imports/`: runner, service, rollback, retry) | `import_jobs`, files, errors | upload, confirm, run in batches in the background, cancel, retry, roll back | inventory | crash between batches, cancel racing the last batch, rollback racing sales, statuses read without a lock | a job's effects are explained by its counters; a rollback undoes its job; running jobs end |
| Whole-file import targets (`imports/targets/`) | what the nine targets write: openings, replayed movements, counts, units, pending sales, notes of the past, a sales log | plan without a lock, commit under locks in the same request | inventory, motorcycles, sales | plans overtaken by other requests, histories written out of order, two files about one unit | written whole or not at all; a rebuilt history is never negative; one invoice per unit |
| Motorcycles (`motorcycles/`) | serialized units, events | create, transition, reserve, sell, revert, assemble, transfer | sales, dispatch, issuance, consignment, handover, repairs | one unit referred to by many documents, each with its own check | a unit's columns agree; one unit is in one place and sold once |
| Dispatch notes (`dispatch/`) | notes and lines | draft, dispatch, receive, cancel | inventory, motorcycles | received more than once, lost and damaged units | what leaves arrives or is reported |
| Issuances (`issuance/`) | loans and lines | draft, issue, return in parts, cancel | inventory, motorcycles | checks at the draft only | a loan's hold is returned or booked as a loss |
| Customer deliveries and consignment (`customer_delivery/`) | deliveries and lines | draft, deliver, settle in parts, cancel | inventory, motorcycles, sales | settled over time | consigned = settled + returned + held |
| Customer handovers (`customer_handovers/`) | one record per sold unit | draft, edit, complete | motorcycles, sales | sale voided in between | completed only for a sold unit |
| Bike issues (`bike_issues/`) | repairs and part lines | open, edit, resolve | motorcycles, inventory | several holders of one unit's status | repair releases what it held |
| Service follow-up (`service_followup/`) | services logged, usage of a unit, service plans | log, set usage, edit plans; derived list | motorcycles | dates derived from several anchors, rounding of scaled gaps | harder use is due sooner; a service never brings the next one forward; the list is by date |
| Container and assembly planning (`container/`, `assembly/`) | targets only | plan | inventory, motorcycles | rounding up, capacity left over | least number of containers; within what there is to build |
| Forecast, intelligence, advisor, assistant, notifications | results, signals, messages | scheduled or on demand | read the core | external failures, isolated per tenant | advisory only |
| Prices (`sales/domain/pricing.py`, the totals of `sales/service.py`) | amounts frozen on lines and documents | price a line, total, convert | sales | each amount rounded on its own, lines and credits converted in different groups | net and VAT add up; nothing is owed after a full credit but a rounding |
| Reports (`reports/`) and the books of finance (`finance/service.py`, from `_bounds` on) | none: read from the records | aging, stock position, supplier performance, sales log and summary, balances, statement, day book, dashboard | read the core | one figure computed in two places from two groupings; replay order; boundaries of days and periods | every record is in exactly one row; two reports of one thing agree |
| Company dashboard, search | - | read | read the core | - | - |
| Master data, users, sign-in, permissions, flags, rate limiting | one row each | create, edit | all | - | unique keys |
| Database schema, web client | - | - | - | - | - |

`PROJECT.json` repeats the list with the source files and, for a part that is not modelled, the
reason.

---------------------------------------------------------------------------------------------------

## 2. Modules

```
AtomicStock            what concurrent stock requests promise
   ^ implemented by (AtomicSpec: proved for any kinds of request)
StockTransactions      row locks, missing rows, commit, rollback, deadlock
   | justifies one action per operation in
Inventory              balances, ledger, reservations, demand feed
   | whose reservations and issues are used by
   +- OrderRequests
   +- Sales <- Quotations
   +- Motorcycles <- DispatchNotes, Loans, Parcels, Repairs, BikeSales (on Loans and Parcels) <- Units
   +- Imports, WholeImports
Finance                accounts and documents lock by lock; the money side of Sales
ReorderMath <- Procurement            ReorderMath <- LoadPlans            FollowUps
Pricing      StockReports      SalesReports      Statements
```

`A <- B`: B extends A. The MC modules add the values of the instances. Proofs are in
`InventoryProofs` (with StockTransactions and StockReports), `OrderRequestsProofs`, `ProcurementProofs` (with ReorderMath, LoadPlans, FollowUps
and WholeImports), `SalesProofs` (with Quotations,
Pricing and SalesReports), `FinanceProofs` (with Statements), `UnitsProofs`, `ImportsProofs`, and in `Sums`, which
holds the lemmas about sums over finite sets that they use.

**Inventory.** One action per operation of `InventoryService` and of the reservation repository,
because every operation is a transaction that locks the rows it reads. `ledger` keeps per row the
sums of its movements by kind: `stock` (receipt, opening balance, adjustment, transfer in and out),
`issue`, `reserve` (reserve and unreserve), `damage`. A basket names several products, so that a
request is refused as a whole. `ConsumeHold` is `ReservationRepository.consume` with its clip
`max(0, ..)`; that the clip never hides anything is `ReservedIsActiveHolds`. `IssueRequestLine`
looks at on-hand stock only, like the code; its precondition - the caller asks for no more than the
line still holds - is `HoldIsWhatIsOwed` of OrderRequests, which is proved.

**StockTransactions.** The same requests cut at every statement that may wait: which row is asked
for next (in the order of the lines, but sorted for a transfer), the lock, the missing row that is
inserted, the business check, COMMIT, ROLLBACK, PostgreSQL's deadlock detector. Uncommitted changes
are seen by nobody: the request remembers what it read (`seen`) and what it adds (`delta`), and the
sum becomes visible when it commits. `Refuse` also stands for the UNIQUE constraint that a second
INSERT of a row violates. An import (`set_initial_stock`) reads without a lock. Only free stock is
modelled.

**AtomicStock.** Balances and ledger move together, in one step, and never below zero; an import
promises less: its movement, and that it touches its own row only. Inventory and StockTransactions
both refine it.

**OrderRequests.** The header's state machine, the quantities of the lines, the hold of each line
and the stock of source and destination. The header is locked first by every handler, hence one
action per handler. Stock corrections by others (`Correct`) compete with it.

**Procurement.** Order life and receipts, and the reorder requests, which read without locks and
write later: a run reads the stock and then what is on order (`ReadStock`, `Recommend`), a
conversion reads the recommendations and then creates the order (`ReadRecs`, `Convert`), without
looking at them again. The history `follows` remembers which orders had been converted before the
conversion of an order began to read. How much is recommended is `ReorderMath`.

**ReorderMath, LoadPlans, FollowUps.** Pure operators: reorder point, order-up-to level, rounding to
cartons and minimum order; containers and top-off of a shipment, motorcycles to assemble; due dates
of services. They keep no state; theorems say what they compute for every input.

**Pricing, StockReports, SalesReports, Statements.** Pure operators too: what the code computes from
committed records. `Pricing` is the arithmetic of a line by its VAT treatment and the conversion to
the billing currency, in whole numbers with the roundings where the code has them. `StockReports`
replays a ledger first in, first out, merges stock and transit by branch, and takes the shares of a
supplier's orders. `SalesReports` makes events of invoice lines, imported history and sold units, puts
them into periods and kinds, and has the summary that starts from the invoices instead. `Statements`
has the balance of an account, its statement row by row, and the day book, over the movements that
Finance posts. They read one moment of the database; each report is in fact several statements of
one request, between which others may commit.

**Sales, Quotations.** Orders, deliveries, invoices, the till, voids, returns and credit notes over
one product at unit price; `banked` is what finance holds for an invoice. Quotations are drafted,
sent, declined, expire by status only and are converted into orders.

**Finance.** A request is a list of locks it still wants and of movements it will post: a key share
of an account where the insert of a document refers to it, the account row for update where a
movement is posted. Documents other than sales are read without a lock. `read` are the accounts the
request has seen before it locks them: their `is_active` is the one it saw. `Revive` is the effect
of a credit note on a voided sale that Sales has as its finding.

**Motorcycles and the documents of units.** `Motorcycles` is the registry: status, place, customer,
sale and assembly of each unit, and the row of the one part that moves beside the units. A unit is
never counted in stock. Its place is its warehouse, which is optional: `CreateUnit` may leave it
out, `EditUnit` may clear it, and `TransferUnit` leaves it alone when none is named. `ImportUnit` is
the registry import (`imports/targets/motorcycle_units.py`), which writes what no document does -
units sold on no invoice, assembled without a date, or with a customer while in stock - and marks
them `imported`. `DispatchNotes` (notes between locations), `Loans` (internal issuances),
`Parcels` (customer deliveries and consignment), `Repairs` (bike issues) and `BikeSales` (promising,
selling in bulk, voiding, handing over) extend it, each with its own document variable. `Units`
puts them side by side: its `Next` is every operation of every document. The checks a document
makes at its draft and does not repeat are two steps (`CheckNote`, `DraftNote`) or a guard of the
draft only, as in the code.

**Imports.** Jobs that are uploaded, confirmed, claimed by a background task, run in batches that
commit one by one, cancelled, retried and rolled back. A status is read without a lock and written
later, so claim, check for cancellation, batch and final status are steps of their own. `Stop` is the
loss of the process between two of them. `Fails` decides a row like `targets/inventory.py`. A stock
row is looked up without a lock (`LookUp`) and written, with the sum, at the end of the transaction
(`Write`): `saw` is what a batch or a retry has looked up, and `lost` what its write took away of the
movements committed in between. A retry reads the failed rows first, among them the row 0 that
`_safe_run` leaves for a task that broke off (`aborted`), which is no row of the file: retrying it
makes an empty job.

**WholeImports.** The nine targets that are imported in the confirming request. `Plan` reads the
database without a lock and decides the rows; `Commit` applies them under the locks of the engine or
refuses them all. `activity` of others (movements, reservations, sales, loans) comes in between.
`FilesAssumption` says what the rows of a file may be: the fields of their target, an opening and a
count of no negative quantity (`imports/domain/validation.py:62`), quantities of a replay of any sign,
since it is the plan that rejects those.

---------------------------------------------------------------------------------------------------

## 3. What the runs check

| Run | Instance | What it shows |
|---|---|---|
| `inventory` | 1 product, 2 warehouses, 2 demand lines on one row; at most 2 units per row, request and history of issues | Every stock operation in any order: balances, ledger and reservations explain each other (`LedgerExplainsBalance`, `ReservedIsActiveHolds`), nothing but a correction takes what others hold (`PromisesKept`), the demand feed stays within the issues, each operation is a move of `AtomicStock` (`OperationsAreAtomic`) |
| `requests` | a transfer of two lines and an issue of one, same source row; stock up to 2, quantities of 1 | Holds follow what is owed line by line, also of requests that ended, stock is conserved over issues, recounts and corrections, a closed transfer reconciles, approvals promise only free stock |
| `stock` | 2 requests of up to 2 lines, 2 rows, imports too; stock up to 1 | Interleaved requests implement `AtomicStock`, every circle of waiting requests has an issue or a receipt of several lines in it, and every request ends |
| `stock_import` | 2 requests, 1 row | **Violation**, finding 1 |
| `procurement` | 2 orders, 2 recommendations, 2 products, 2 reorder requests at the same time; 1 unit in stock, quantities up to 2 | The status of an order follows from the receipts of all its lines, over partial receipts, edits and runs (`StatusTellsReceipts`); two orders share a recommendation only if their conversions overlapped (`OrderedOnce`) |
| `sales` | 1 quotation, 2 orders, notes, invoices and credit notes, 1 return; quantities up to 2 | Orders, tills, deliveries, invoices, payments, voids, returns and credit notes in any order: each balance is explained by its documents, and an invoice voided once more was revived by a credit note (`RevivedByCredit`) |
| `sales_void` | 1 document of each kind, so that the counterexample is short | **Violation**, finding 2 |
| `finance` | 2 requests, 2 accounts, an expense, two opposite transfers, a handover, a sale; 1 method, amount 1 (counts of 0, 1 and 2); no request starts once 4 movements are on the books | Movements explain documents and reversals cancel exactly what they reverse, lock by lock; which requests a deadlock takes |
| `units` | 1 unit, registered by hand or by the import, 1 part, 2 places; up to 2 of each document but at most 2 documents in all | Any two documents about one unit, in any order: its columns agree, no document loses it, it is not sold while it is out, a sold one stays sold, and the part's stock is explained by the documents |
| `notes_twice` | as `units` | **Violation**, finding 3 |
| `imports` | a file of three rows (one skipped) in batches of 2, 2 jobs, 2 workers, 4 requests, 1 other movement | Stock and ledger part by what imports overwrote and by nothing else (`LedgerIsStock`), counters say what was committed, a rolled-back job is gone, a cancellation that stands stops the task, running jobs end |
| `whole_imports` | 8 files, one of a kind, and a copy for a retry; 2 requests at once, 3 in all, 1 act of others; 2 places, 1 unit | A file is written whole or not at all, a unit has one invoice, plans nothing disturbed succeed, and a history made of an opening and a replay is never negative on any day |

**Why the bounds are enough to be interesting.** Quantity 2 is the least that can be consumed,
delivered or received in two different parts, and with stock 2 two demands of 2 compete, while two of
1 do not. Two lines on one row, or two orders, are what it takes for one to sell what the other
holds. `requests` has three lines instead: one line may be counted while another has not been issued,
and a rival competes; larger quantities - and with them an issue in parts - are covered by the
theorems, which hold for all. Two requests are what a lost update, a duplicate insert, a double
reversal and a circle of two need; longer circles of finance requests are covered by the proof of
`TransfersNeverDeadlock` and of stock requests by that of `OrderedRequestsNeverDeadlock`, longer
interleavings of stock requests by `LockedReads` and `Refinement`. Finance's `MaxMoves` bounds
the movements on the books when a request *starts*: with 4, a document can be posted, confirmed,
reversed by two requests at once and paid again, and a sale paid in two lines, voided, revived, paid
and voided again. In `units` two documents suffice for every pairwise race that the hazards name; a
third document about the same unit is not explored by TLC, but the theorems of `UnitsProofs` hold
for any number of documents and units. In `imports` the second job is the retry of the
first, or its rival for the same rows; two workers are a task and a request, or two tasks. Two
reorder requests and two orders are what it takes for conversions to overlap or to follow each
other; `OrderedOnceUnlessRaced` holds for any number.
Three workers of `imports` matter - a second task may overwrite the cancellation of the first - and are covered by
`ImportsProofs`, like any other number.

**Type invariants** are run for Units and Imports; those of Inventory, StockTransactions,
OrderRequests, Procurement, Sales and Finance are proved (section 4) and not run.

**Bounds that are no rules of the code**: `MaxStock`, `MaxQty`, `MaxIssued`, `MaxConsumed`, `MaxMoves`, `MaxLines`,
`MaxDocuments`, `MaxRequests`, `MaxActivity`, and the numbers of documents. They stand in guards,
next to the rule they are not. `LedgerNearby` of `stock` cuts off how far imports may make the
ledger drift; the drift never enables or disables a step, so no behaviour that matters to
`RequestsEnd` is lost.

**Stopping.** `CHECK_DEADLOCK FALSE` is set where the instance runs out of documents or requests:
`sales`, `sales_void`, `finance`, `imports` and `whole_imports`. Everywhere else TLC checks that
some step is always possible.

**Fairness.** Two properties need it. `RequestsEnd` of `stock`: strong fairness of the steps of every
request. A request that can go on is run by the server; a row that is released again and again is
given to the request that has waited longest, because PostgreSQL queues the waiters of a row, and a
circle is broken by its deadlock detector (`DeadlockAbort`, without which the property fails).
`RunningJobsEnd` of `imports`: weak fairness of the steps of the workers together - a task that was
started is run by the event loop - and it names the exception, a process that stops. Nothing forces
new requests to arrive, and a request may be rolled back at any time.

**Mutants.** For each property of a passing run one definition is replaced by a faulty variant -
a dropped check, a hold that is not released, an unlocked read, a one-sided posting - and TLC then
reports that property as violated under the same configuration.

---------------------------------------------------------------------------------------------------

## 4. What is proved

TLAPS proves these for every value of the constants, from the named assumptions in the modules. The
sets of products, warehouses, requests, accounts and rows may be infinite; finite are the sets over
which sums or maxima are taken - `Line` of OrderRequests, `PO` of Procurement, the documents of Sales
and of Units, the products and warehouses of Imports, the places and rows of WholeImports - and what a circle needs to have a last element: the sessions of
`TransfersNeverDeadlock`, the requests and rows of `OrderedRequestsNeverDeadlock`. `None` is assumed to differ from what it stands beside, and the bounds to be
natural numbers.

*`InventoryProofs`* - `Typing`, `ReservedUnits`, `HoldStatuses`, `BalanceIsLedger`, `DemandBounded`,
`EndedHolds`, `RequestIssuesFree`, `Promises`, `OperationsAreMoves`. The inductive invariant has layers. (1) Types, and
that issue movements only take stock out; every action keeps them by itself. (2) Reservations: the
units held on a row, one element per unit, are finite and as many as `qty_reserved`, and only active
reservations hold any. A step changes one line, so the set changes by one block of numbered units,
counted with the library's theorems on cardinality. (3) The ledger: it needs (2), because `consume`
and `release` clip `qty_reserved` at zero and only the reservations show that the clip never bites.
(4) The demand feed, from (1) and the sign of the issues. `PromisesKept` and the properties of
ended holds and of issues drawn within a hold follow from (1) and (2) action by action.
`OperationsAreMoves` refines AtomicStock: no operation changes a row by more than a line, and by (3)
the movements that change stock change with it. The stock core that callers see and the row locks
below thus implement one abstract specification, the first for its operations, the second for their
interleaving.

*Stock requests* (in `InventoryProofs`) - `RequestTypes`, `OrderedRequestsNeverDeadlock`, `Refinement`,
`SomeRequestGoesOn`, `RequestsAdvance`; and, for instances without imports, `LockedReads`. The invariant `Guarded` says that only a request
under way holds a row, that it has read what is committed unless it is an import, that a row not
committed yet has nothing on hand and that only an import is ever about to overwrite. Only `Commit`
changes the abstract state: it is a `Move` of AtomicStock by what the committing request holds, or,
for an import, an `Overwrite` of the one row it names; every other step stutters. With imports the
hypothesis of `LockedReads` fails, and so does the property: finding 1. For deadlocks `OInv` says where a request stands in its
lines: what it holds is none of the rows it still has to visit, and a transfer visits its rows by
rank. In a circle of transfers and of requests of one row, the request that waits for the row of the
highest rank waits for one that holds it and wants a row of a higher rank still, or nothing.
Of whether requests end, two halves are proved. *They never all stand still* (`SomeRequestGoesOn`):
if no request under way could go on, each would wait for another of them, so that some of them wait
in a circle, one of which the detector ends. `CanGoOn` spells out when a request has a step, since
ENABLED is out of the prover's reach. *None goes on for ever* (`RequestsAdvance`): each step lowers
`StepsToEnd`, which is at most three for each row and one more; a row found missing is created, or
the request refused, and never looked for again. That fairness lets those go on that can is `RequestsEnd`, which TLC checks.

*`OrderRequestsProofs`* - `Typing`, `HoldsAreOwed`, `TransitIsCounted`, `StockIsConserved`,
`PromisesAreKept`. The invariant: a line of an approved request holds approved minus issued, which is
never negative; what was captured reconciles with what was issued; and the stock of a row is its
corrections, minus what the lines issued from it, plus what they delivered to it. The last one is a
sum over the lines, which a step changes in one summand.

*`ProcurementProofs`* - `Typing`, `ReceiptStatus` (the status follows from what all lines received,
which needs the number of lines still open, a sum), `OrderedOnceUnlessRaced`, for any number of
reorder requests at the same time. Its invariant: what an order was made from is marked; what a
conversion in flight has read is in no order that was there when it read; a new order has no sources
yet, so that no conversion follows it. That the recommendations in flight are still pending is not
part of it, because it is not so: another conversion may have ordered them since they were read
(section 6).

*`SalesProofs`* - `SalesTypes`, `HoldsAreOwed`, `SoldStockIsAccountedFor`, `SettlementIsTold`,
`MoneyFollowsInvoice`, `OnlyCreditRevives`, `QuotesBind`, all of the specification with quotations. `QInv` adds to the
properties what none of them says: a document that is not written yet is blank, one that is written
stands on documents that are (a note on its order, an invoice on its note, a return on its invoice, a
credit note on its return), and its quantity is positive. It is inductive only as a whole: stock is
enough for a delivery because the holds of all orders together are in stock, which is a sum over
orders; what a return may bring back is bounded by the note; the status of an invoice follows the
credit of its notes, a sum over credit notes of which a step changes one. Each handler is first
reduced to its effect on orders and holds, on notes and stock, and on one invoice.
`OnlyCreditRevives` bounds finding 2: the voids of an invoice are counted against the credit notes
applied to it, so that an invoice without one is voided, and its stock restored, once.

*`FinanceProofs`* - `Typing`, `TransfersNeverDeadlock`, `ReversalsCancel`, `ForceIsPosted`,
`TransfersNet`. For deadlocks the invariant
says what a request of each kind has locked while it still wants a lock: a transfer one account, lower
in the order than the one it wants; an expense at most a key share of the account it wants; a
confirmation nothing. In a circle of such requests, one waits for the account last in the order, and
whoever it waits for is an expense of that account: those form a circle by themselves. For reversals
the invariant says of every document that its reversals point at originals, that in a sale no two
point at the same one, and that what is still open of a reversed document is money that came in; and
of every request under way that it posts originals, or reversals that cover whatever was open when
it looked. The rest is that nobody else works on a locked sale or on a document being created.
`BInv` adds what the books of a document in force look like, movement by movement (`InForce`), that
those of a transfer add up to zero always (`Backed`), and what each request is about to post
(`Prepared`): a reversal of a transfer posts both legs or none, because it either found both open or
both reversed, and whatever it has not found is none of its business. This is why a transfer reversed
by two requests at once is reversed twice, but never on one side.

*`UnitsProofs`* - `UnitsTyped`, `StatusIsTold`, `UnitsAreSomewhere`, `StockIsExplained`, and of single
steps `LentUnitsAreKept`, `SoldUnitsAreKept`, `LifecycleIsKept`, `OnlyReReceiptsOvercredit`, for any number of units, documents, places, customers
and invoices. `UInv` says of every kind of document which columns are empty at which status (a loan
that is not out holds nothing, a part that is settled or returned was delivered), that the units a
document names are registered, and of every unit what `StatusTellsFacts` says: the three ways in
which an imported unit may differ are named there, and stay the only ones whatever acts on it later.
`NoUnitIsLost` is about steps: only an edit takes the warehouse of a unit that had one, or that a
note has on the way, and leaves it nowhere.
Each kind of document keeps its own columns whatever the others do; the registry is written by all,
so that each write is reduced to one of a few effects on a unit (`Transition`, a move, a sale, its
reverse). The stock is explained place by place by a sum over each kind of document, of which a step
changes one summand; that held units are on hand needs that the summands are natural numbers, which
is where the types of the columns come in. That a partly received note credits its destination twice
(finding 3) is in the explanation, as `credited`: the theorem says where every unit of stock came from,
not that it should have come. `OnlyReReceiptsOvercredit` says that this is the only way: a first
receipt credits at most what was dispatched. `LifecycleIsKept` compares every step, whichever
document takes it, with the transition graph of the registry that most of them do not ask, and names
the three exceptions.

*`ImportsProofs`* - `ImportsTyped`, `StockFollowsLedger`, `ProgressSurvives`, `RollbackIsComplete`,
`CancelBoundsTheTask`, `TasksAdvance`, for any file, any number of jobs, tasks, requests, products and rows. `JInv`
says of a worker that it knows its job and has no movement yet of the rows it has still to process -
this is what makes the movements of a batch new, so that stock and ledger grow by the same sum - and
that its tally counts the rows before them. Of a job it says that one never started is bare: no
movement, error, counter, product or task; and that one started at most once has at most one task
that has set it running, that what is on record comes from the rows this task has gone through and is
what it has counted, that nobody works on it once it has ended, and that whoever rolls it back has
read all its movements. The last point needs the others: only a completed job is rolled back, and it
is completed by the task that would otherwise go on. A job that was started twice is excepted by
`starts`, and keeps the stock invariant all the same. `StockFollowsLedger` counts what a write takes
away of the movements committed since the balance was looked up (`lost`), and says that stock and
ledger part by that and by nothing else: neither a failed batch, a task that breaks off, a retry nor a
rollback adds to it. Of a product that does not exist it says that
there is no movement of it, which is why a rollback that deletes a product loses no stock.
`TasksAdvance` is the half of `RunningJobsEnd` that needs no fairness: every step of a busy worker
lowers `Left`, at most two for each row of the file and four more, whatever the batch size and
whoever else writes to its job.

*Imports of whole files* (in `ProcurementProofs`) - `HistoryAlways`, `FilesAreWhole`, `OneInvoice`,
`PlansHold`, for any files, places, units and requests. For the history, `HistoryInv` numbers the
movements by their commit and says of a plan that what it read is a snapshot: the sums of the movements
up to some commit, and the day of the opening where that is all there was. When a replay is committed
and its place still counts as rebuilt, what others committed can only have been the one opening, before
or after the snapshot. The dry run then covers every day: of the rows up to a day the last that takes
something leaves at least nothing, and those after it only add (`NeverShort`). Before the opening a
replay only adds, as the plan rejects rows that take earlier. If the opening came after the snapshot, the
replay covers itself from zero. Counts are of today, where the balance is the stock, which the engine
keeps from being negative. `JobsOK` says that a job somebody works on is as it was uploaded, unless
two do, and `UnitsOK` that a unit with an invoice is sold, which the sale itself checks. `PlansHold`
needs both the dry run and that a place is counted once in a file.

*Planning and follow-up* (in `ProcurementProofs`) - `OrderQuantity`, `ReorderRefills`,
`RiskPullsForward`, `ContainersAreLeast`, `TopOffIsFree`, `AssemblyMeetsTarget`, `HarderUseIsSooner`,
`LoggedTodayIsNotOverdue`, `LoggingNeverBringsForward`, `ListIsByDate`: what the pure operators
compute, for every input.

*Prices* (in `SalesProofs`) - `NetAndVatAddUp`, `InclusivePriceIsPaid`, `DiscountNeverCosts`,
`DocumentAddsUp` bound how far amounts that are rounded apart may drift from each other;
`FullCreditResidue` and `FullCreditMayLeaveDebt` say what a full credit leaves. All follow from the two
inequalities of a rounded quotient and a sum bounded term by term.

*Reports* - of stock (in `InventoryProofs`): `AgedStockCoversBalance`, `AgedStockIsNewest`,
`BucketsAddUp`, `IssueReadFirstIsLost`, by induction over the ledger: what is left is a suffix of the
receipts, and its sum follows the balance until an issue finds nothing to consume;
`InTransitShownOnce` and `RatesAreShares` group sums by destination and compare them. Of money (in
`FinanceProofs`): `ClosingIsNextOpening`, `BalanceIsClosing`, `StatementCloses`, `OtherMoneyIsLeft`,
`BranchesAddUp`, `BreakdownAddsUp`: the balance, the statement, the day book and the dashboard are sums
over the same movements split in different ways, and each split is exact. Of sales (in `SalesProofs`):
`PeriodsDoNotOverlap` (from what a calendar promises), `EverySaleInOneRow`, and of the summary
`SummaryCountsInvoicePerUnit` - the bikes are the totals of their invoices, each as often as units were
sold on it - with `BulkSaleCountedPerBike`, what that means for a bulk sale.

*`Sums`* holds the step a sum makes when one summand changes, sums over unions, over groups and over
lists, and their bounds. Induction over
finite sets is stated without an operator parameter: over the set of those subsets for which a claim
holds, by a minimal counterexample under strict inclusion.

Only model-checked: `RequestsEnd` and `RunningJobsEnd`, since liveness under fairness is outside what
TLAPS proves. What is proved of them is that work under way gets done in boundedly many steps
(`RequestsAdvance`, `TasksAdvance`) and that some request can always take one (`SomeRequestGoesOn`).

---------------------------------------------------------------------------------------------------

## 5. Correspondence, and what is abstracted

- Tenants, branches, users, permissions, audit rows, notifications, numbers, dates and names are left
  out: no property tells them apart. Row-level security keeps tenants apart, so one tenant is
  modelled. Prices, VAT and currencies are left out of the documents of Sales and are in Pricing by
  themselves.
- Amounts in Pricing are not negative, which the request schemas see to, and the decimal context of
  the code is wide enough that only the explicit roundings round. Reports that end in binary floating
  point are modelled before that conversion.
- A handler that locks its document first is one action. This is sound where everything it reads
  and later relies on is under that lock or another one it holds; where it is not - reorder
  requests, imports, finance documents, the draft of a note - the handler is cut at the reads.
- Returning an error is not a step: it changes nothing.
- Finance's documents other than sales are unlocked in the code and in the model. For sales, the
  invoice is locked by whoever pays, voids or credits it (`SaleIsFree`).
- `Correct` (OrderRequests), `Consume` (Procurement), `Supply` (Sales) and the `activity` of the
  imports stand for the rest of the system's use of the stock rows.
- Decimals are integers in units of their last digit. The gaps of a service plan are scaled by 1.25
  for light and by 0.7 for heavy use in binary floating point: a tie of the first goes to the even
  day, and the second is not exact, so that its ties fall either way (45 * 0.7 is just below 31.5 and
  gives 31). `Gaps` admits both.
- Finance keeps two caches per session, of accounts and of method mappings; only the `is_active` of an
  account that the request has read is modelled as one that may be stale (`read`).
- A unit's branch is left out; its warehouse is its place, and optional. The part beside the units is one row per place, with
  the holds of loans and consignments computed from the documents.
- All jobs of `Imports` run the same file; what differs between rows is whether they are valid,
  skipped or fail, and whether they were imported before.

---------------------------------------------------------------------------------------------------

## 6. Findings and hazards

Findings, each a run that TLC reports as violated:

1. `stock_import`: an inventory import reads the balance without a lock and overwrites a movement
   committed since (`imports/service.py:157`); the ledger keeps it, the balance loses it.
2. `sales_void`: a credit note applied after its invoice was voided recomputes its status and brings
   it back into force (`sales/service.py:1034`); it can then be voided, and its stock restored, again.
3. `notes_twice`: a note received in part is received again from the start and credits the
   destination a second time with what had arrived (`dispatch/service.py:164`).

The hazards in `PROJECT.json` are what was found in this code that a test would hardly reach. The
models also reach behaviours that differ from a comment or a document, or that a reader would not
expect, without a run of their own; the properties are stated so that they name them:

- *Order requests*: a request received while partially issued can be closed, and the rest of its
  reservation stays active (`order_requests/domain/status.py:62`).
- *Reorder*: two conversions at the same time read one recommendation as pending and both order it
  (`reorder/service.py:289`), though the endpoint says that recommendations which are not convertible
  are skipped (`reorder/api.py:88`); recommendations of several runs stand for the same need; a run's
  two reads see two moments.
- *Stock*: demand is counted from two writers; damaged units of a receipt are subtracted from
  available stock although they never were on hand.
- *Sales*: several invoices and returns may stand for one delivery; a quotation can be converted again
  after it was accepted.
- *Finance*: a document can be reversed twice by concurrent requests, and a handover confirmed after
  it was reversed; expenses and handovers can deadlock through the key shares of their foreign keys;
  a movement can be posted to an account deactivated after the request had read it.
- *Units*: voiding a sale of several units puts back one of them (`motorcycles/service.py:368`); a
  return from a loan in need of attention puts a sold unit on hold, while `revert_sale_for_invoice`
  calls itself the only way out of "sold"; a repair releases a unit whoever holds it; selling directly
  accepts a voided invoice; a unit stays handed over after its sale was voided, and one whose sale was
  voided after the draft is handed over all the same (`customer_handovers/service.py:191`); the
  registry import writes a unit that is in stock with a customer
  (`imports/targets/motorcycle_units.py:419`), which `lifecycle.py:63` says only reserved and sold ones
  have; a line of a loan that is kept holds its part after the loan is closed.
- *Imports*: two confirmations of one job can import its file twice, since it stays pending until the
  task starts; two rollbacks at once take the stock back twice; a second retry imports the same rows
  again; a cancellation is overwritten by the final status, by a second task that starts and by one
  that fails, after which the first task goes on (with three workers; `CancelStopsTheTask` speaks of a
  job while it stays cancelled), and overwrites the "completed" of a
  whole-file import confirmed in between; a job whose process stopped stays running; the rollback of
  a whole-file import changes its status and nothing else, its retry writes nothing; a second replay,
  or a second opening, may make a past day negative; a count posts a stale difference when stock
  moved since its plan; two files can deliver one unit twice.
- *Prices*: lines are converted to the billing currency one by one and a credit at once
  (`sales/service.py:1174`): an invoice that was credited in full may stay partially paid over a
  fraction of an ngwee for each line (`FullCreditMayLeaveDebt`).
- *Reports*: an invoice over several units enters the sales summary, and the daily digest, once for
  each (`reports/repository.py:263`, `BulkSaleCountedPerBike`), while the comment above says that each
  invoice is counted once. Movements are replayed by the start of their transaction, so that an
  issue may be read before its receipt and is dropped (`IssueReadFirstIsLost`). The sales log adds the
  totals of live part lines, in the base currency, to revenues in the billing currency. A reversal
  keeps the category of its original, so that a voided payment stays in the money that came in and
  leaves with other money.
- *Service follow-up*: services logged for an earlier sale count for the next one, so that a unit sold
  again may be overdue at once; the date of a service is not compared with the sale.

---------------------------------------------------------------------------------------------------

## 7. Plan

Done, in this order: the stock core and its proofs; order requests and transfers; the interleaving of
stock requests and its refinement; procurement and reorder requests; sales and quotations; finance;
the registry of units and the documents about them; import jobs; whole-file imports; the arithmetic
of planning and of service follow-up; prices, reports and statements; the proofs of order requests,
procurement, sales with quotations, finance, units with their documents, import jobs, whole-file imports,
planning, follow-up and of the derived figures.

Worth doing next:

1. Three documents about one unit in TLC; an import target beside a request in transit.

### Not modelled

- *Forecasting, the statistical safety stocks, the fill score of containers and the scaling of risks*:
  floating-point arithmetic; the models take their results as given numbers.
- *Market intelligence, assistant, alerts, advisor*: results of external services or of a language
  model over read-only queries. A concurrent ingest (delete, then insert) and a daily alert that is
  repeated or missed, depending on the interval (`assistant/scheduler.py`), are noted, not modelled.
- *Notifications*: written in a savepoint of the caller; a failure is swallowed and changes nothing.
- *Company dashboard, search, lists and printed documents*: read-only; their figures are plain counts and
  sums of rows.
- What is left of the code beyond the parts named here is request and response schemas, routes, access
  checks, PDF and message layout, SQL read models and the client. It changes no stock, document or
  money, and an operator for it would repeat the code.
- *Master data, sign-in, permissions, rate limiting, flags*: one row per request, uniqueness left to the
  database; outside the stock, document and money core.
- *Import parsing*: turns a file into rows; the models start from the rows. *HTTP schemas* decide
  which inputs exist; the models enumerate those. *Integrations* call an external service.
- *Web client*: every rule is enforced by the backend. *Database scripts*: their constraints are used
  by the models, the scripts are not modelled.
