SPECIFICATION Spec
CONSTANTS
  t1 = t1
  t2 = t2
  eurusd = eurusd
  None = None
  Trade = {t1}
  Instrument = {eurusd}
  Terms <- MCTerms
  Bid = {0, 1, 2}
  Spread = 1
  ZeroPip = 10
  SaveEvery = 1
  SyncEvery = 2
  MaxTicks = 2
  MaxCrashes = 1
INVARIANTS
  TypeOK
  SnapshotNeverAhead
  SnapshotCovered
  Truthful
PROPERTIES
  MarksShrinkOnlyToSnapshot
  LedgerSpec
