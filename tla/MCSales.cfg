CONSTANTS
  None = None
  Order = {so1, so2}
  Note = {dn1, dn2}
  Invoice = {inv1, inv2}
  Return = {ret1}
  Credit = {cn1, cn2}
  Quote = {quo1}
  Supply = 2
  MaxQty = 2
  MaxStock = 2
SYMMETRY Symmetry
SPECIFICATION QuotationsSpec
INVARIANTS OrdersHoldWhatTheyOwe StockIsAccountedFor StatusTellsSettlement BankedFollowsInvoice RevivedByCredit QuotesBindOrders
CHECK_DEADLOCK FALSE
