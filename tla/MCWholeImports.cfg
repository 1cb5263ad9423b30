CONSTANTS
  opening = opening
  replay = replay
  count = count
  register = register
  sales = sales
  deliveries = deliveries
  notes = notes
  log = log
  again = again
  a = a
  b = b
  x = x
  Absent = Absent
  Job = {opening, replay, count, register, sales, deliveries, notes, log, again}
  FirstJob = {opening, replay, count, register, sales, deliveries, notes, log}
  File <- Files
  p = p
  q = q
  Worker = {p, q}
  Place = {a, b}
  Bike = {x}
  Now = 4
  MaxRequests = 3
  MaxActivity = 1
CHECK_DEADLOCK FALSE
SPECIFICATION FilesSpec
INVARIANTS HistoryIsSound CompleteOrNothing InvoicedOnce
PROPERTIES PlansAreKept
SYMMETRY Requests
