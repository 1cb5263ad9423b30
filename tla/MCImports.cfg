CONSTANTS
  helmet = helmet
  depot = depot
  Job = {j1, j2}
  FirstJob = {j1}
  Worker = {w1, w2}
  Product = {helmet}
  Warehouse = {depot}
  File <- ThreeRows
  BatchSize = 2
  None = None
  Others = Others
  MaxRequests = 4
  MaxActivity = 1
SPECIFICATION Spec
INVARIANTS TypeOK LedgerIsStock BatchesAddUp RolledBackIsGone CancelStopsTheTask
PROPERTIES RunningJobsEnd
CHECK_DEADLOCK FALSE
