SPECIFICATION Spec
CONSTANTS
  t1 = t1
  t2 = t2
  eurusd = eurusd
  None = None
  Trade = {t1, t2}
  Instrument = {eurusd}
  Terms <- MCTerms
  Bid = {0}
  Spread = 1
  ZeroPip = 10
  SaveEvery = 1
  SyncEvery = 2
  MaxTicks = 1
  MaxCrashes = 0
INVARIANTS
  SnapshotNeverAhead
PROPERTIES
  LedgerSpec
