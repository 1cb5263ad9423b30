----------------------------- MODULE SalesReports -----------------------------
(***************************************************************************)
(* The sales log, and the sales summary that the daily digest also shows.     *)
(*   backend/app/reports/sales_log.py, repository.py, service.py             *)
(* A date is a number of days, day 0 a Monday; first[n] is the first day of   *)
(* the n-th month.  Amounts are whole numbers of the smallest unit.           *)
(***************************************************************************)
EXTENDS Integers, Functions, FiniteSets

CONSTANTS InvoiceRef, NoRef

-----------------------------------------------------------------------------
(* Periods                                                                 *)

\* What the date library promises: months follow each other, without a gap.
Calendar(first) ==
  /\ \A n \in Int : first[n] \in Int
  /\ \A m, n \in Int : m < n => first[m] < first[n]
  /\ \A day \in Int : \E n \in Int : first[n] <= day /\ day < first[n + 1]

Month(first, day) == CHOOSE n \in Int : first[n] <= day /\ day < first[n + 1]

Granularities == {"daily", "weekly", "monthly"}
PeriodStart(first, day, granularity) ==
  CASE granularity = "daily" -> day
    [] granularity = "weekly" -> day - (day % 7)
    [] granularity = "monthly" -> first[Month(first, day)]
PeriodEnd(first, day, granularity) ==
  CASE granularity = "daily" -> day
    [] granularity = "weekly" -> PeriodStart(first, day, granularity) + 6
    [] granularity = "monthly" -> first[Month(first, day) + 1] - 1

-----------------------------------------------------------------------------
(* The log: sale events by period and kind                                 *)

Kinds == {"parts", "motorcycle_new", "motorcycle_historical"}
KindsOf(type) ==
  CASE type = "all" -> Kinds
    [] type = "parts" -> {"parts"}
    [] type = "motorcycles" -> {"motorcycle_new", "motorcycle_historical"}

SaleEvent == [day : Int, kind : Kinds, units : Nat, revenue : Nat]

\* The events of the days asked for, and those of the kinds.
Dated(events, from, to) ==
  [e \in {d \in DOMAIN events : from <= events[d].day /\ events[d].day <= to} |-> events[e]]
Kept(events, type) == {e \in DOMAIN events : events[e].kind \in KindsOf(type)}
Start(events, first, granularity) ==
  [e \in DOMAIN events |-> PeriodStart(first, events[e].day, granularity)]
Field(events, name) == [e \in DOMAIN events |-> events[e][name]]

\* One component of one row, a row, and the totals; name is units or revenue.
Component(events, first, granularity, start, kind, name) ==
  SumFunctionOnSet(Field(events, name),
    {e \in DOMAIN events : /\ events[e].kind = kind
                           /\ Start(events, first, granularity)[e] = start})
Row(events, first, granularity, type, start, name) ==
  SumFunctionOnSet(
    [kind \in Kinds |-> Component(events, first, granularity, start, kind, name)], KindsOf(type))
LogRows(events, first, granularity, type) ==
  {Start(events, first, granularity)[e] : e \in Kept(events, type)}
GrandTotal(events, first, granularity, type, name) ==
  SumFunctionOnSet(
    [start \in LogRows(events, first, granularity, type) |->
       Row(events, first, granularity, type, start, name)],
    LogRows(events, first, granularity, type))

-----------------------------------------------------------------------------
(* Where the events come from                                              *)

InvoiceRow == [day : Int, voided : BOOLEAN, total : Nat]
\* The price of a unit is the one charged, else the selling price; its date of sale the
\* one recorded, else the day of its last change.
LineRow == [invoice : InvoiceRef, qty : Nat, amount : Nat]
UnitRow == [ref : InvoiceRef \union {NoRef}, sold : BOOLEAN, historical : BOOLEAN,
            price : Nat, dateSold : Int]

\* Invoices that some unit names as its sale; their lines are no sale of parts.
Linked(units) == {units[u].ref : u \in DOMAIN units} \ {NoRef}
PartLines(invoices, lines, units) ==
  {l \in DOMAIN lines : /\ lines[l].invoice \notin Linked(units)
                        /\ ~invoices[lines[l].invoice].voided}
SoldUnits(units) == {u \in DOMAIN units : units[u].sold}

SaleDate(invoices, unit) == IF unit.ref # NoRef THEN invoices[unit.ref].day ELSE unit.dateSold

PartEvent(invoices, line) ==
  [day |-> invoices[line.invoice].day, kind |-> "parts", units |-> line.qty, revenue |-> line.amount]
UnitEvent(invoices, unit) ==
  [day |-> SaleDate(invoices, unit), units |-> 1, revenue |-> unit.price,
   kind |-> IF unit.historical THEN "motorcycle_historical" ELSE "motorcycle_new"]

\* The events of the log: live lines, imported history and sold units, each under a
\* name of its own.
Events(invoices, lines, units, imported) ==
  [e \in ({"line"} \X PartLines(invoices, lines, units)) \union ({"unit"} \X SoldUnits(units))
           \union ({"imported"} \X DOMAIN imported) |->
     CASE e[1] = "line" -> PartEvent(invoices, lines[e[2]])
       [] e[1] = "unit" -> UnitEvent(invoices, units[e[2]])
       [] e[1] = "imported" -> imported[e[2]]]

-----------------------------------------------------------------------------
(* The summary of a day or a month, from the invoices                      *)

InPeriod(invoice, from, to) == ~invoice.voided /\ from <= invoice.day /\ invoice.day <= to

\* A part line counts its amount, a unit the total of the invoice it was sold on.
SummaryParts(invoices, lines, units, from, to) ==
  SumFunctionOnSet([l \in DOMAIN lines |-> lines[l].amount],
    {l \in PartLines(invoices, lines, units) : InPeriod(invoices[lines[l].invoice], from, to)})
BikeRows(invoices, units, from, to) ==
  {u \in DOMAIN units : units[u].ref # NoRef /\ InPeriod(invoices[units[u].ref], from, to)}
SummaryBikes(invoices, units, from, to) ==
  SumFunctionOnSet([u \in BikeRows(invoices, units, from, to) |-> invoices[units[u].ref].total],
                   BikeRows(invoices, units, from, to))
GrossTotal(invoices, lines, units, from, to) ==
  SummaryParts(invoices, lines, units, from, to) + SummaryBikes(invoices, units, from, to)

\* Payments of the invoices of the period: what was allocated to each.
Collected(invoices, allocated, from, to) ==
  SumFunctionOnSet(allocated, {i \in DOMAIN invoices : InPeriod(invoices[i], from, to)})
OutstandingAmount(gross, collected) == gross - collected

=============================================================================
