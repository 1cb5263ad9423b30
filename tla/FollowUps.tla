------------------------------ MODULE FollowUps ------------------------------
(***************************************************************************)
(* When the next service of a sold motorcycle is due.                       *)
(*   backend/app/service_followup/domain/schedule.py, service.py             *)
(* A date is a number of days. A unit is what the list knows of it: its date *)
(* of sale, how many services are logged and the date of the last, its usage.*)
(***************************************************************************)
EXTENDS Integers, Sequences

CONSTANT Nil  \* no date, no model

Usages == {"light", "medium", "heavy"}
Stage == [interval : Nat \ {0}]
Schedules == Seq(Stage) \ {<<>>}
Unit == [sale : Int \cup {Nil}, done : Nat, last : Int \cup {Nil}, usage : Usages]

\* The gap in days for light (5/4), medium (1) and heavy use (7/10), rounded to
\* the nearest day. A tie of the light gap goes to the even day; the heavy factor
\* has no exact binary value, so that its ties fall either way.
Gaps(interval, usage) ==
  {g \in Nat \ {0} :
     \/ usage = "light" /\ -2 <= 4 * g - 5 * interval /\ 4 * g - 5 * interval <= 2
                        /\ (4 * g - 5 * interval \in {-2, 2} => g % 2 = 0)
     \/ usage = "medium" /\ g = interval
     \/ usage = "heavy" /\ -5 <= 10 * g - 7 * interval /\ 10 * g - 7 * interval <= 5}

\* A rounding: one gap for each interval and usage.
Scalings ==
  {f \in [Nat \ {0} -> [Usages -> Nat \ {0}]] :
     \A i \in Nat \ {0}, u \in Usages : f[i][u] \in Gaps(i, u)}

\* The schedule used when no plan is stored.
DefaultStages ==
  <<[interval |-> 30], [interval |-> 60], [interval |-> 90], [interval |-> 90]>>

\* The stored rows that make sense, or the default (a row without a whole
\* interval is given as 0).
StagesFromConfig(raw) ==
  LET kept == SelectSeq(raw, LAMBDA row : row.interval >= 1)
  IN IF kept = <<>> THEN DefaultStages ELSE kept

\* The plan of the model, else the plan of the tenant, else the default.
PlanFor(plans, model) ==
  IF model \in DOMAIN plans THEN plans[model]
  ELSE IF Nil \in DOMAIN plans THEN plans[Nil] ELSE DefaultStages

\* The stage of the n-th service: the last one repeats.
StageFor(stages, n) == IF n <= Len(stages) THEN stages[n] ELSE stages[Len(stages)]

Anchor(unit) == IF unit.last # Nil THEN unit.last ELSE unit.sale

\* The date on which the next service falls due: none without an anchor.
NextDue(unit, stages, scaled) ==
  IF Anchor(unit) = Nil THEN Nil
  ELSE Anchor(unit) + scaled[StageFor(stages, unit.done + 1).interval][unit.usage]

DueSoonDays == 14

Status(due, today) ==
  IF due - today < 0 THEN "overdue"
  ELSE IF due - today <= DueSoonDays THEN "due_soon" ELSE "upcoming"

\* The order in which the list is shown: by bucket, then by date.
Rank == [overdue |-> 0, due_soon |-> 1, upcoming |-> 2]
ShownBefore(due1, due2, today) ==
  \/ Rank[Status(due1, today)] < Rank[Status(due2, today)]
  \/ Status(due1, today) = Status(due2, today) /\ due1 < due2

\* A service is logged on any date; only a sold unit has one logged.
CanLog(unit) == unit.sale # Nil
LogService(unit, date) ==
  [unit EXCEPT !.done = unit.done + 1,
               !.last = IF unit.last = Nil \/ unit.last < date THEN date ELSE unit.last]

SetUsage(unit, usage) == [unit EXCEPT !.usage = usage]

\* A schedule in which no gap is shorter than the one before.
GapsGrow(stages) ==
  \A i, j \in DOMAIN stages : i <= j => stages[i].interval <= stages[j].interval
=============================================================================
