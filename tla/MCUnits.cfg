CONSTANTS
  depot = depot
  shop = shop
  None = None
  Unit = {u1}
  Warehouse = {depot, shop}
  Customer = {c1}
  Invoice = {i1, i2}
  Note = {n1, n2}
  Loan = {l1, l2}
  Parcel = {d1, d2}
  Repair = {r1}
  Opening <- AtDepot
  MaxQty = 1
  MaxStock = 2
  MaxDocuments = 2
SPECIFICATION Spec
SYMMETRY Documentary
INVARIANTS TypeOK StatusTellsFacts DocumentsExplainStock
PROPERTIES NoUnitIsLost LentUnitsStayOurs SoldUnitsStaySold
