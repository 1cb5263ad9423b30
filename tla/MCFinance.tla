------------------------------ MODULE MCFinance ------------------------------
(* Two requests, and documents of each kind over the same two accounts.    *)
EXTENDS Finance, TLC

CONSTANTS s1, s2, cash, bank, exp1, tra1, tra2, han1, inv1, m1

Kinds == [d \in Doc |-> CASE d = exp1 -> "expense" [] d \in {tra1, tra2} -> "transfer"
                          [] d = han1 -> "handover" [] d = inv1 -> "sale"]
Payer == [d \in Doc |-> IF d = tra1 THEN bank ELSE cash]
Payee == [d \in Doc |-> IF d = tra1 THEN cash ELSE bank]
ById == [a \in Account |-> IF a = cash THEN 1 ELSE 2]

Symmetry == Permutations(Session)
=============================================================================
