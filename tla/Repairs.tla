------------------------------- MODULE Repairs -------------------------------
(***************************************************************************)
(* Bike issues: a unit taken in for repair goes on hold, and comes back to    *)
(* the status it had when the issue is resolved; the parts planned for it are *)
(* issued in the same transaction.                                           *)
(*   backend/app/bike_issues/service.py, repository.py, domain/status.py     *)
(***************************************************************************)
EXTENDS Motorcycles

CONSTANT Repair \* bike_issues

VARIABLES
  repair,       \* bike_issues.status, "none" before open
  repairRow,    \* its unit, prior_status and the location of its parts
  planned       \* units of the part on its repair lines

repairs == <<repair, repairRow, planned>>

ActiveRepair == {"open", "in_repair"}
OpenableFrom == {"unassembled", "assembled"}
RepairRow == [unit : Unit, prior : OpenableFrom, at : Warehouse]

RepairsInit ==
  /\ repair = [r \in Repair |-> "none"]
  /\ repairRow = [r \in Repair |-> None]
  /\ planned = [r \in Repair |-> 0]

\* open and _hold_unit
OpenRepair(r, u, w, q) ==
  /\ repair[r] = "none"
  /\ status[u] \in OpenableFrom
  /\ repair' = [repair EXCEPT ![r] = "open"]
  /\ repairRow' = [repairRow EXCEPT ![r] = [unit |-> u, prior |-> status[u], at |-> w]]
  /\ planned' = [planned EXCEPT ![r] = q]
  /\ status' = [status EXCEPT ![u] = "on_hold"]
  /\ customer' = [customer EXCEPT ![u] = None]
  /\ UNCHANGED <<place, soldOn, built, owed, handed, imported, parts>>

\* add_line and remove_line, while the issue is active.
PlanParts(r, q) ==
  /\ repair[r] \in ActiveRepair
  /\ planned' = [planned EXCEPT ![r] = q]
  /\ UNCHANGED <<repair, repairRow, registry, parts>>

\* set_status: open to in_repair is the only such step.
StartRepair(r) ==
  /\ repair[r] = "open"
  /\ repair' = [repair EXCEPT ![r] = "in_repair"]
  /\ UNCHANGED <<repairRow, planned, registry, parts>>

\* Faulty variant: the unit returns whatever became of it meanwhile.
ReleasedAnyway(u, prior) == prior

\* _release_unit: only a unit on hold returns to its prior status.
Released(u, prior) == IF status[u] = "on_hold" THEN prior ELSE status[u]

\* resolve: all or nothing.
ResolveRepair(r) ==
  LET row == repairRow[r]
  IN  /\ repair[r] \in ActiveRepair
      /\ IssuePart(row.at, planned[r])
      /\ status' = [status EXCEPT ![row.unit] = Released(row.unit, row.prior)]
      /\ repair' = [repair EXCEPT ![r] = "resolved"]
      /\ UNCHANGED <<repairRow, planned, place, customer, soldOn, built, owed, handed, imported>>

RepairsNext ==
  \E r \in Repair :
    \/ \E u \in Unit, w \in Warehouse, q \in 0..MaxQty : OpenRepair(r, u, w, q)
    \/ \E q \in 0..MaxQty : PlanParts(r, q)
    \/ StartRepair(r)
    \/ ResolveRepair(r)

RepairsTypeOK ==
  /\ repair \in [Repair -> ActiveRepair \union {"none", "resolved"}]
  /\ repairRow \in [Repair -> RepairRow \union {None}]
  /\ planned \in [Repair -> 0..MaxQty]
=============================================================================
