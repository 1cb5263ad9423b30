----------------------------- MODULE ReorderMath -----------------------------
(***************************************************************************)
(* The reorder engine: how much to order of one product.                    *)
(*   backend/app/reorder/domain/engine.py, rounding.py, risk.py              *)
(* Quantities are whole units: the code's are decimals, rounded up to whole  *)
(* cartons at the end.  Safety stock is given (an override or the result of  *)
(* one of the two methods); what a risk does to it is the buffer it adds.    *)
(***************************************************************************)
EXTENDS Integers

Larger(a, b) == IF a >= b THEN a ELSE b

CeilDiv(a, b) == IF a <= 0 THEN 0 ELSE (a + b - 1) \div b

\* The full-carton rule.
RoundUpToCarton(qty, carton) == CeilDiv(qty, carton) * carton

\* The full-carton rule, then the minimum order quantity, itself in full cartons.
EnforceOrderQuantity(raw, carton, moq) ==
  LET units == RoundUpToCarton(raw, carton)
  IN  IF raw > 0 /\ units < moq THEN RoundUpToCarton(moq, carton) ELSE units

\* demand and lead time, review period, safety stock, and what a risk adds to the
\* lead time (extra) and to the safety stock (buffer); override is the manual
\* reorder point of a product that has one.
Policy == [demand : Nat, lead : Nat, review : Nat, safety : Nat, extra : Nat, buffer : Nat,
           manual : BOOLEAN, override : Nat, carton : Nat \ {0}, moq : Nat]

ReorderPoint(p) ==
  IF p.manual THEN p.override + p.demand * p.extra + p.buffer
  ELSE p.demand * (p.lead + p.extra) + p.safety + p.buffer

OrderUpTo(p) ==
  Larger(p.demand * (p.lead + p.extra + p.review) + p.safety + p.buffer, ReorderPoint(p))

Raw(p, position) ==
  IF position <= ReorderPoint(p) THEN Larger(0, OrderUpTo(p) - position) ELSE 0

ComputeReorder(p, position) == EnforceOrderQuantity(Raw(p, position), p.carton, p.moq)
=============================================================================
