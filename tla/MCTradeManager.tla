--------------------------- MODULE MCTradeManager ---------------------------
(* Small instances of TradeManager for TLC. *)
EXTENDS TradeManager

CONSTANTS t1, t2, eurusd

\* t1 is a BUY at 1; t2 a SELL at 2, which the ask (bid + 1) values.
MCTerms ==
  [t \in Trade |-> IF t = t1
                   THEN [instrument |-> eurusd, side |-> "BUY", open_price |-> 1]
                   ELSE [instrument |-> eurusd, side |-> "SELL", open_price |-> 2]]
=============================================================================
