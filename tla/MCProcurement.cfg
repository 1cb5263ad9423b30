CONSTANTS
  None = None
  PO = {po1, po2}
  Rec = {rec1, rec2}
  Product = {prod1, prod2}
  Session = {ses1, ses2}
  Point = 1
  Target = 2
  Carton = 2
  Moq = 1
  MaxQty = 2
  MaxStock = 1
  MaxConsumed = 1
SYMMETRY Symmetry
SPECIFICATION Spec
INVARIANTS StatusTellsReceipts OrderedOnce
