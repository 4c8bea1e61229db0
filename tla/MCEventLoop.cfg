SPECIFICATION FairSpec
CONSTANTS
  Pairs <- MCPairs
  Bids <- MCBids
  Spread = 1
  Rows <- MCRows
  Warmup = 0
  Every = 2
  TradeUnits = 1
  QueueMax = 2
  MaxSignals = 3
INVARIANTS
  TypeOK
  SignalsMatchPosition
  BooksBalance
  TradesAccounted
  OrdersMatchPosition
PROPERTIES
  OnlyGrows
  Ends
CHECK_DEADLOCK FALSE
