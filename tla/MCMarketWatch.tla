--------------------------- MODULE MCMarketWatch ---------------------------
(* Small instances of MarketWatch for TLC: days of two units, one           *)
(* instrument. MCMarketWatch.cfg has months of four, a daily level and one  *)
(* that stays on each side, and prices on both sides of the levels, but no  *)
(* densities; MCMarketWatchDays.cfg has weeks, one density and no levels.   *)
EXTENDS MarketWatch

MCPeriods == <<"D1", "MN1">>
MCLength == [D1 |-> 2, W1 |-> 4]
MCMonths == {0, 3}
MCInstruments == <<"EURUSD">>
MCResistance == <<"R1", "R">>
MCNone == <<>>
MCSupport == <<"S1", "S">>
MCTicks == {<<1, 1>>, <<2, 2>>}
MCTraded == {2}

\* For several days and weeks of one density, with no prices and so no levels.
MCWeeks == <<"D1", "W1">>
MCLasting == <<"R">>
MCTradedDays == {0, 1, 2, 4, 5}
=============================================================================
