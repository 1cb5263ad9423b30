---------------------------- MODULE MCWholeImports ----------------------------
(* One file of each kind; the movements of the replay are not in the order of *)
(* their days.                                                              *)
EXTENDS WholeImports, Sequences, TLC

CONSTANTS opening, replay, count, register, sales, deliveries, notes, log, again, a, b, x, p, q

Requests == Permutations(Worker)

Of(kind, at, qty, time) == [kind |-> kind, at |-> at, qty |-> qty, time |-> time]

Files ==
  opening :> <<Of("opening", a, 1, 1)>>
  @@ replay :> <<Of("receipt", a, 1, 3),
                 [kind |-> "transfer", at |-> a, to |-> b, qty |-> 1, time |-> 2],
                 Of("sale", b, 1, 2)>>
  @@ count :> <<Of("count", a, 1, 4), Of("count", b, 1, 4)>>
  @@ register :> <<[kind |-> "register", bike |-> x, status |-> "assembled", buyer |-> Absent, model |-> "m"]>>
  @@ sales :> <<[kind |-> "sell", bike |-> x, buyer |-> "customer"]>>
  @@ deliveries :> <<[kind |-> "deliver", bike |-> x, buyer |-> Absent]>>
  @@ log :> <<[kind |-> "log", qty |-> 1]>>
  @@ notes :> <<[kind |-> "transfer_note", bike |-> x], [kind |-> "issuance_note", bike |-> x, requestor |-> "r"]>>
=============================================================================
