CONSTANTS
  t1 = t1
  t2 = t2
  a = a
  b = b
  None = None
  Txn = {t1, t2}
  Row = {a}
  Rank <- RowOrder
  Kinds = {"issue", "receive", "import"}
  MaxLines = 1
  MaxLineQty = 1
  MaxBalance = 2
SYMMETRY Symmetry
SPECIFICATION RequestsSpec
INVARIANTS BalanceMatchesLedger
