CONSTANTS
  s1 = s1
  s2 = s2
  cash = cash
  bank = bank
  exp1 = exp1
  tra1 = tra1
  tra2 = tra2
  han1 = han1
  inv1 = inv1
  m1 = m1
  None = None
  Session = {s1, s2}
  Account = {cash, bank}
  Doc = {exp1, tra1, tra2, han1, inv1}
  Kind <- Kinds
  From <- Payer
  To <- Payee
  Method = {m1}
  Rank <- ById
  Amount = 1
  MaxMoves = 4
SYMMETRY Symmetry
SPECIFICATION Spec
INVARIANTS TransfersMoveMoney InForceIsPosted ReversalsCancelOriginals OrderedTransfersNeverDeadlock
CHECK_DEADLOCK FALSE
