CONSTANTS
  p1 = p1
  p2 = p2
  w1 = w1
  w2 = w2
  l1 = l1
  l2 = l2
  Product = {p1}
  Warehouse = {w1, w2}
  Line = {l1, l2}
  LineCell <- RivalLines
  MaxStock = 2
  MaxQty = 2
  MaxIssued = 2
SYMMETRY Symmetry
SPECIFICATION Spec
INVARIANTS LedgerExplainsBalance DemandWithinIssues ReservedIsActiveHolds
PROPERTIES PromisesKept OperationsAreAtomic
