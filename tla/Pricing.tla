------------------------------- MODULE Pricing -------------------------------
(***************************************************************************)
(* What a sales document charges: VAT by the treatment of each line, totals, *)
(* and the amounts frozen in the billing currency.                          *)
(*   backend/app/sales/domain/pricing.py, sales/service.py                   *)
(* An amount of money of a line is a whole number of ten-thousandths (the     *)
(* scale of its column), a billed amount a whole number of ngwee; a discount, *)
(* a VAT rate and an exchange rate are in millionths.  Amounts are never      *)
(* negative, and the division of the code carries more digits than any amount *)
(* has, so that rounding its result rounds the exact quotient.               *)
(***************************************************************************)
EXTENDS Integers, Sequences, Functions

Whole == 1000000
Unit == 10000 * Whole   \* quantity x price x share of the price, in one amount
Ngwee == 100 * Whole    \* amount x exchange rate, in one ngwee

Treatments == {"exclusive", "inclusive"}
Line == [qty : Nat, price : Nat, discount : 0..Whole, rate : Nat, treatment : Treatments]

\* n / d to the nearest whole number, a half upwards.
Round(n, d) == (2 * n + d) \div (2 * d)

NormaliseTreatment(t) == IF t \in Treatments THEN t ELSE "exclusive"

Base(l) == l.qty * l.price
Taxable(l) == Base(l) * (Whole - l.discount)

\* Net, VAT and payable are as Whole, the rate and both together. An exclusive
\* price is the net, an inclusive one the payable.
Divisor(l) == Unit * (IF l.treatment = "inclusive" THEN Whole + l.rate ELSE Whole)

LineAmounts(l) ==
  [gross |-> Round(Base(l) * Whole, Unit),
   discount |-> Round(Base(l) * l.discount, Unit),
   net |-> Round(Taxable(l) * Whole, Divisor(l)),
   vat |-> Round(Taxable(l) * l.rate, Divisor(l)),
   total |-> Round(Taxable(l) * (Whole + l.rate), Divisor(l))]

Total(amounts) == SumFunctionOnSet(amounts, 1..Len(amounts))
Column(lines, name) == [i \in 1..Len(lines) |-> LineAmounts(lines[i])[name]]

\* The totals of a document: each line is rounded, then they are added.
DocumentTotals(lines) ==
  [name \in {"gross", "discount", "net", "vat", "total"} |-> Total(Column(lines, name))]

\* An amount at an exchange rate, in ngwee.
ToZmw(amount, fx) == Round(amount * fx, Ngwee)
LinesZmw(amounts, fx) == [i \in 1..Len(amounts) |-> ToZmw(amounts[i], fx)]

\* The billed total: every line is converted, then they are added.
FreezeLineZmw(amounts, fx) == Total(LinesZmw(amounts, fx))

\* A quotation: parts at the exchange rate, motorcycles priced in the billing
\* currency; net, VAT and payable are converted each on its own.
QuoteZmwTotals(parts, bikes, fx) ==
  [name \in {"net", "vat", "total"} |->
     FreezeLineZmw(Column(parts, name), fx) + FreezeLineZmw(Column(bikes, name), Whole)]

\* What an invoice still owes: its credit is one amount, converted once.
CreditZmw(credit, fx) == ToZmw(credit, fx)
BalanceZmw(billed, paid, credit, fx) == billed - paid - CreditZmw(credit, fx)
=============================================================================
