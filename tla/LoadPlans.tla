------------------------------ MODULE LoadPlans ------------------------------
(***************************************************************************)
(* What is derived from stock and settings and only proposed: the containers *)
(* of a shipment and the motorcycles to assemble.                           *)
(*   backend/app/container/domain/planning.py                                *)
(*   backend/app/assembly/domain/planner.py, assembly/service.py             *)
(* Volumes and weights are whole numbers of the code's smallest step; the    *)
(* items of a load are given by their totals.                               *)
(***************************************************************************)
EXTENDS ReorderMath

\* A load, and a type of container with its usable volume and its payload.
Load == [cartons : Nat, volume : Nat, weight : Nat]
ContainerSpec == [volume : Nat \ {0}, payload : Nat \ {0}]

IsEmpty(load) == load.cartons = 0 \/ (load.volume = 0 /\ load.weight = 0)

Containers(load, spec) ==
  IF IsEmpty(load) THEN 0
  ELSE Larger(Larger(CeilDiv(load.volume, spec.volume), CeilDiv(load.weight, spec.payload)), 1)

\* The type that needs the fewest containers; of several the fuller one, which
\* makes no difference to what is said of it here.
RecommendContainer(load, specs) ==
  CHOOSE s \in specs : \A t \in specs : Containers(load, s) <= Containers(load, t)

SpareVolume(load, spec) == Containers(load, spec) * spec.volume - load.volume
SpareWeight(load, spec) == Containers(load, spec) * spec.payload - load.weight
Smaller(a, b) == IF a <= b THEN a ELSE b

\* How many more cartons of one kind fit (products without a volume and a weight
\* are not planned).
AdditionalCartons(load, spec, volume, weight) ==
  Smaller(SpareVolume(load, spec) \div volume, SpareWeight(load, spec) \div weight)

\* A load with n more cartons of one kind.
Topped(load, n, volume, weight) ==
  [cartons |-> load.cartons + n, volume |-> load.volume + n * volume,
   weight |-> load.weight + n * weight]

-----------------------------------------------------------------------------
(* Assembly                                                                *)

\* Units assembled and unassembled, what to keep and when to act.
Combo == [assembled : Nat, unassembled : Nat, target : Nat, threshold : Nat]

IsThin(c) == c.assembled <= c.threshold
IsGap(c) == IsThin(c) /\ c.unassembled = 0

Assemble(c) ==
  IF IsThin(c) THEN Larger(0, Smaller(c.target - c.assembled, c.unassembled)) ELSE 0
=============================================================================
