CONSTANTS
  None = None
  Order = {so1}
  Note = {dn1}
  Invoice = {inv1}
  Return = {ret1}
  Credit = {cn1}
  Quote = {}
  Supply = 2
  MaxQty = 2
  MaxStock = 3
SYMMETRY Symmetry
SPECIFICATION QuotationsSpec
PROPERTIES VoidedStaysVoided
CHECK_DEADLOCK FALSE
