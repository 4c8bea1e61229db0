----------------------------- MODULE Strategies -----------------------------
(***************************************************************************)
(* The strategies of the backtest (backtest/strategy.py). A strategy sees  *)
(* the ticks of all pairs and puts signals: side "true" to buy, "false" to *)
(* sell. It never asks the portfolio what is held; it remembers, per pair, *)
(* flags that say what it believes to be invested.                         *)
(*                                                                         *)
(* Four of them are a rolling indicator and a list of rules that are tried *)
(* in order on every tick. What the indicator says about a price is left   *)
(* open: the model chooses among the combinations of conditions that can   *)
(* hold together.                                                          *)
(***************************************************************************)
EXTENDS Integers, Sequences

\* if <when> and flag is not <set>: put a signal, set the flag.
Rule(when, flag, set, side) ==
  [when |-> when, flag |-> flag, set |-> set, side |-> side]

\* The short average against the long one; equal says nothing.
MovingAverageCrossStrategy ==
  [zones |-> {{"above"}, {"below"}, {}},
   rules |-> <<Rule("above", "long", TRUE, "true"),
               Rule("below", "long", FALSE, "false")>>]

\* The price against the three bands, which coincide in a window of equal prices.
BollingerBandStrategy ==
  [zones |-> {{"upper", "over"}, {"over"}, {"over", "under"}, {"under"},
              {"lower", "under"}, {"upper", "lower", "over", "under"}},
   rules |-> <<Rule("upper", "short", TRUE, "false"),
               Rule("lower", "long", TRUE, "true"),
               Rule("under", "short", FALSE, "true"),
               Rule("over", "long", FALSE, "false")>>]

\* The price against the highest and the lowest of the window it is itself in.
DonchianChannelStrategy ==
  [zones |-> {{"upper"}, {"lower"}, {"inside"}, {"upper", "lower"}},
   rules |-> <<Rule("upper", "long", TRUE, "true"),
               Rule("lower", "short", TRUE, "false"),
               Rule("inside", "long", FALSE, "false"),
               Rule("inside", "short", FALSE, "true")>>]

\* The index against 30, 50 and 70; it is 50 until the window is full.
RSIStrategy ==
  [zones |-> {{"lt30", "lt50"}, {"lt50"}, {}, {"gt50"}, {"gt50", "gt70"}},
   rules |-> <<Rule("lt30", "long", TRUE, "true"),
               Rule("gt70", "short", TRUE, "false"),
               Rule("gt50", "long", FALSE, "false"),
               Rule("lt50", "short", FALSE, "true")>>]

RuleBased ==
  [MovingAverageCross |-> MovingAverageCrossStrategy,
   BollingerBand |-> BollingerBandStrategy,
   DonchianChannel |-> DonchianChannelStrategy,
   RSI |-> RSIStrategy]

\* A mutant of Fire: a rule forgets to set its flag back.
FireSticky(zone, acc, r) ==
  IF r.when \in zone /\ acc.flags[r.flag] # r.set
  THEN [flags |-> [acc.flags EXCEPT ![r.flag] = TRUE], out |-> Append(acc.out, r.side)]
  ELSE acc

Fire(zone, acc, r) ==
  IF r.when \in zone /\ acc.flags[r.flag] # r.set
  THEN [flags |-> [acc.flags EXCEPT ![r.flag] = r.set], out |-> Append(acc.out, r.side)]
  ELSE acc

\* calculate_signals of the four: the flags afterwards and the sides put, in order.
TryRules(name, zone, flags) ==
  LET rules == RuleBased[name].rules
      tried[i \in 0 .. Len(rules)] ==
        IF i = 0 THEN [flags |-> flags, out |-> <<>>] ELSE Fire(zone, tried[i - 1], rules[i])
  IN  tried[Len(rules)]

\* PortfolioAllocation after its first tick: nothing while the share of the pair is
\* near its target. Below it, the missing units are bought; the share is computed
\* anew, and when rounding leaves it above the target by however little, the excess
\* is sold in the same breath. A sale or purchase of less than 1000 units counts 0.
PortfolioAllocation(MaxUnits) ==
  {<<>>}
    \cup {<<[side |-> "true", units |-> u]>> : u \in 0 .. MaxUnits}
    \cup {<<[side |-> "false", units |-> u]>> : u \in 0 .. MaxUnits}
    \cup {<<[side |-> "true", units |-> u], [side |-> "false", units |-> 0]>>
            : u \in 0 .. MaxUnits}
=============================================================================
