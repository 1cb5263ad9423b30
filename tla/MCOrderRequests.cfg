CONSTANTS
  r1 = r1
  r2 = r2
  l1 = l1
  l2 = l2
  l3 = l3
  src = src
  dst = dst
  None = None
  Request = {r1, r2}
  Line = {l1, l2, l3}
  Cell = {src, dst}
  LineRequest <- TwoAndOne
  SourceCell <- FromSrc
  DestCell <- ToDst
  Transfers = {r1}
  MaxQty = 1
  MaxStock = 2
SPECIFICATION Spec
SYMMETRY Symmetry
INVARIANTS HoldIsWhatIsOwed StockIsAccountedFor NothingLostInTransit
PROPERTIES ApprovalsArePromises
