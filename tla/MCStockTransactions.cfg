CONSTANTS
  t1 = t1
  t2 = t2
  a = a
  b = b
  None = None
  Txn = {t1, t2}
  Row = {a, b}
  Rank <- RowOrder
  Kinds = {"issue", "receive", "transfer", "import"}
  MaxLines = 2
  MaxLineQty = 1
  MaxBalance = 1
CONSTRAINT LedgerNearby
SPECIFICATION LiveSpec
INVARIANTS OnlyUnsortedLinesDeadlock
PROPERTIES AtomicSpec RequestsEnd
