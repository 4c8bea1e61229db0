SPECIFICATION FairSpec
CONSTANTS
  t1 = t1
  t2 = t2
  eurusd = eurusd
  None = None
  Trade = {t1, t2}
  Instrument = {eurusd}
  Terms <- MCTerms
  Bid = {}
  Spread = 1
  ZeroPip = 10
  SaveEvery = 1
  SyncEvery = 1
  MaxTicks = 0
  MaxCrashes = 0
PROPERTIES
  ListedAdopted
  GoneForGood
