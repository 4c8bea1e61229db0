SPECIFICATION FairSpec
CONSTANTS
  PeriodChoices <- MCPeriods
  Length <- MCLength
  Monday = 0
  MonthStarts <- MCMonths
  MaxNow = 2
  Instruments <- MCInstruments
  Resistance <- MCResistance
  Support <- MCSupport
  Price = {1, 2}
  Symbols <- MCNone
  MaxCandles = 2
  Traded <- MCTraded
  LastMoment = 2
  Ticks <- MCTicks
  QueueMax = 1
  MaxFaults = 1
  MaxChanges = 2
INVARIANTS
  TypeOK
  CopyLagsOnlyBehindOperator
  ToldOnce
PROPERTIES
  LevelsHeard
  ClockCatchesUp
