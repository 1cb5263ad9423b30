------------------------------ MODULE Statements ------------------------------
(***************************************************************************)
(* What the books of the finance accounts say: balances, the statement of an  *)
(* account, the day book and the dashboard.                                  *)
(*   backend/app/finance/service.py, finance/repository.py                   *)
(* books is the append-only list of movements, by identifier; opened the      *)
(* opening balance of each account.  An instant is a number of microseconds   *)
(* (the resolution of the database), a date a number of days.                 *)
(***************************************************************************)
EXTENDS Integers, Sequences, Functions

CONSTANTS LedgerAccount,
          Branch    \* of the accounts; an account without a branch has one of its own here

DayLength == 24 * 60 * 60 * 1000000
StartOf(date) == date * DayLength
EndOf(date) == StartOf(date) + (DayLength - 1)

BookEntry == [account : LedgerAccount, direction : {"IN", "OUT"}, amount : Nat \ {0},
            category : {"sale_payment", "expense", "transfer", "handover", "none"}, at : Int]

Amounts(books) == [m \in DOMAIN books |-> books[m].amount]

On(books, accounts) == {m \in DOMAIN books : books[m].account \in accounts}
Until(books, accounts, date) == {m \in On(books, accounts) : books[m].at < StartOf(date)}
During(books, accounts, from, to) ==
  {m \in On(books, accounts) : StartOf(from) <= books[m].at /\ books[m].at <= EndOf(to)}

Money(books, S, direction) ==
  SumFunctionOnSet(Amounts(books), {m \in S : books[m].direction = direction})
CategorySum(books, S, category, direction) ==
  SumFunctionOnSet(Amounts(books),
    {m \in S : books[m].direction = direction /\ books[m].category = category})

DeriveBalance(opening, in, out) == opening + in - out

\* The balance of an account in the list of accounts: its whole ledger.
CurrentBalance(books, opened, account) ==
  LET S == On(books, {account})
  IN  DeriveBalance(opened[account], Money(books, S, "IN"), Money(books, S, "OUT"))

\* The combined balance of the accounts as a date begins.
Opening(books, opened, accounts, date) ==
  LET S == Until(books, accounts, date)
  IN  DeriveBalance(SumFunctionOnSet(opened, accounts), Money(books, S, "IN"), Money(books, S, "OUT"))

\* The cash position of a set of accounts over a period.
DayBookRow(books, opened, accounts, from, to) ==
  LET S == During(books, accounts, from, to)
      in == Money(books, S, "IN")
      out == Money(books, S, "OUT")
      Sum(category, direction) == CategorySum(books, S, category, direction)
  IN  [opening |-> Opening(books, opened, accounts, from),
       moneyIn |-> Sum("sale_payment", "IN"),
       expenses |-> Sum("expense", "OUT"),
       handovers |-> Sum("handover", "OUT"),
       transfersIn |-> Sum("transfer", "IN"),
       transfersOut |-> Sum("transfer", "OUT"),
       otherIn |-> in - Sum("sale_payment", "IN") - Sum("transfer", "IN"),
       otherOut |-> out - Sum("expense", "OUT") - Sum("handover", "OUT") - Sum("transfer", "OUT"),
       closing |-> DeriveBalance(Opening(books, opened, accounts, from), in, out)]

\* One row for each branch that has an account, and one for all.
OfBranch(accounts, branchOf, branch) == {a \in accounts : branchOf[a] = branch}
DayBook(books, opened, accounts, branchOf, from, to) ==
  [rows |-> [branch \in {branchOf[a] : a \in accounts} |->
               DayBookRow(books, opened, OfBranch(accounts, branchOf, branch), from, to)],
   totals |-> DayBookRow(books, opened, accounts, from, to)]

\* The movements of one account in the order of a statement: by time, and those of
\* one instant in any order.
Listings(books, S) ==
  {list \in Seq(S) : /\ \A m \in S : \E n \in 1..Len(list) : list[n] = m
                     /\ \A i, j \in 1..Len(list) :
                          i < j => list[i] # list[j] /\ books[list[i]].at <= books[list[j]].at}

\* The balance after each row of a statement.
SignedAmount(posting) == IF posting.direction = "IN" THEN posting.amount ELSE -posting.amount
RunningBalance(books, opening, list) ==
  [n \in 0..Len(list) |->
     opening + SumFunctionOnSet([k \in 1..Len(list) |-> SignedAmount(books[list[k]])], 1..n)]

ClosingBalance(books, opened, account, from, list) ==
  RunningBalance(books, Opening(books, opened, {account}, from), list)[Len(list)]

\* Money in from sales by account, the breakdown on the dashboard, and what the
\* dashboard shows above it.
MoneyInByAccount(books, account, from, to) ==
  CategorySum(books, During(books, {account}, from, to), "sale_payment", "IN")
Dashboard(books, accounts, from, to) ==
  LET S == During(books, accounts, from, to)
  IN  [moneyIn |-> CategorySum(books, S, "sale_payment", "IN"),
       expensesOut |-> CategorySum(books, S, "expense", "OUT"),
       handoversOut |-> CategorySum(books, S, "handover", "OUT"),
       transfersOut |-> CategorySum(books, S, "transfer", "OUT"),
       netMovement |-> Money(books, S, "IN") - Money(books, S, "OUT"),
       breakdown |-> [a \in accounts |-> MoneyInByAccount(books, a, from, to)]]
=============================================================================
