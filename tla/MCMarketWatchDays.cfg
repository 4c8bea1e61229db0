SPECIFICATION Spec
CONSTANTS
  PeriodChoices <- MCWeeks
  Length <- MCLength
  Monday = 0
  MonthStarts <- MCMonths
  MaxNow = 5
  Instruments <- MCInstruments
  Resistance <- MCLasting
  Support <- MCSupport
  Price = {}
  Symbols <- MCInstruments
  MaxCandles = 2
  Traded <- MCTradedDays
  LastMoment = 5
  Ticks = {}
  QueueMax = 1
  MaxFaults = 1
  MaxChanges = 2
INVARIANTS
  CandlesInOrder
  CountedOnce
