SPECIFICATION Spec
CONSTANTS
  t1 = t1
  t2 = t2
  t3 = t3
  t4 = t4
  t5 = t5
  eurusd = eurusd
  None = None
  Trade = {t1, t2, t3, t4, t5}
  Instrument = {eurusd}
  Terms <- MCTerms
  MaxTrade = 2
  MaxTried = 1
  Lag = 1
  MaxSignals = 1
  MaxCrashes = 1
INVARIANTS
  TypeOK
  OnePerPair
  AtMostMaxTrade
