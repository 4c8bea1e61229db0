SPECIFICATION Spec
CONSTANTS
  Wrappers = {w1, w2}
  Orders = {"o1", "o2"}
  Trades = {"t1"}
  Depth = 2
  History <- MCHistory
  MaxTx = 4
SYMMETRY MCSymmetry
INVARIANTS
  TypeOK
  StaleOnlyAhead
  TransactionsKept
  OwnDealsSeen
CHECK_DEADLOCK FALSE
