----------------------------- MODULE Positions -----------------------------
(***************************************************************************)
(* The Position classes of backtest/portfolio.py and portfolio/position.py *)
(* as operators on records. A price quote is [bid, ask]. avg_price is kept *)
(* as what the units have cost, which spares the division; profits are in  *)
(* price units times units, before the conversion to the home currency and *)
(* the rounding of the code.                                               *)
(***************************************************************************)
EXTENDS Integers

Flat == [side |-> 0, units |-> 0, cost |-> 0, cur |-> 0]
IsOpen(ps) == ps.side # 0

\* What one unit costs to take on, and yields when it is given up.
OpenPrice(side, quote) == IF side = 1 THEN quote.ask ELSE quote.bid
ClosePrice(side, quote) == IF side = 1 THEN quote.bid ELSE quote.ask

NewPosition(side, units, quote) ==
  [side |-> side, units |-> units, cost |-> units * OpenPrice(side, quote),
   cur |-> ClosePrice(side, quote)]

UpdatePositionPrice(ps, quote) == [ps EXCEPT !.cur = ClosePrice(ps.side, quote)]

AddUnits(ps, units, quote) ==
  [ps EXCEPT !.units = @ + units, !.cost = @ + units * OpenPrice(ps.side, quote)]

\* calculate_pips times the units.
Profit(ps) == ps.side * (ps.cur * ps.units - ps.cost)

\* Long counts up, short down.
Signed(ps) == ps.side * ps.units
=============================================================================
