----------------------------- MODULE EventLoop -----------------------------
(***************************************************************************)
(* The two event-driven programs that share one design (README.md, "Event- *)
(* Driven Architecture"): ticks go to the strategy, which puts signals;    *)
(* signals go to the portfolio, which puts orders; all through one queue.  *)
(*                                                                         *)
(* backtest: backtest/backtest.py with its portfolio, strategies and price *)
(*   handler: one thread, a queue without bound, ticks from rows of past   *)
(*   candles whenever the queue is empty, orders that nobody executes.     *)
(* live: trading/trading.py with portfolio/portfolio.py and pricing/       *)
(*   streaming.py: a price thread and a trading thread on a queue of 2000, *)
(*   which write and read the table of prices without a lock.              *)
(*                                                                         *)
(* A behaviour runs one of the programs, with one of the strategies.       *)
(***************************************************************************)
EXTENDS Strategies, Positions, Sums, FiniteSetsExt

CONSTANTS
  Pairs,        \* the currency pairs, in order; none is listed twice
  Bids,         \* the bid prices of each pair; an ask is Spread above its bid
  Spread,
  Rows,         \* backtest: the number of rows of each pair's data
  Warmup,       \* backtest: ticks of a pair before its strategy starts
  Every,        \* backtest: TestRandomStrategy acts on each Every-th tick
  TradeUnits,   \* trade_units, the size of a trade that names none
  QueueMax,     \* live: the size of the queue
  MaxSignals    \* bound: signals of the live strategy

Pair == {Pairs[i] : i \in DOMAIN Pairs}

ASSUME LoopAssumption ==
  /\ Pairs \in Seq(Pair) /\ IsFiniteSet(Pair)
  /\ \A i, j \in DOMAIN Pairs : Pairs[i] = Pairs[j] => i = j
  /\ Spread \in Nat /\ Bids \in [Pair -> SUBSET (Nat \ {0})]
  /\ Rows \in [Pair -> Nat]
  /\ {Warmup, MaxSignals} \subseteq Nat
  /\ {Every, TradeUnits, QueueMax} \subseteq Nat \ {0}

VARIABLES
  program,      \* "backtest" or "live"; never changes
  strategy,     \* the strategy of the backtest; never changes
  phase,        \* running, finished, crashed
  queue,        \* the events
  quotes,       \* ticker.prices
  \* The portfolio.
  positions, balance, trades, wins, losses,
  \* The strategy's memory.
  memory,       \* ticks and flags per pair; TestRandomStrategy's own two
  \* The backtest's ticker.
  row,          \* cur_date_indx
  more,         \* continue_backtest
  \* The two threads of the live program.
  stream,       \* the price thread: the pair and the price it works on, and its step
  todo,         \* the calls the trading thread still has to make
  \* Bookkeeping of the model.
  cash,         \* what all fills were worth at the prices of their moment
  missed,       \* per pair, what the close at the end booked and the market did not pay
  executed,     \* per pair, the signed units of the orders given to execution
  signals       \* signals of the live strategy so far

portfolioVars == <<positions, balance, trades, wins, losses, cash, missed>>
tickerVars == <<row, more>>
threadVars == <<stream, todo, executed, signals>>
vars == <<program, strategy, phase, queue, quotes, portfolioVars, memory,
          tickerVars, threadVars>>

NoQuote == 0
Idle == [at |-> "idle", pair |-> Pairs[1], bid |-> NoQuote]
Strategy == DOMAIN RuleBased \cup {"TestRandom", "PortfolioAllocation"}

QuoteOf(p) == [bid : Bids[p] \cup {NoQuote},
               ask : {b + Spread : b \in Bids[p]} \cup {NoQuote}, inverse : BOOLEAN]
Event == [type : {"TICK"}, pair : Pair]
           \cup [type : {"SIGNAL", "ORDER"}, pair : Pair, side : {"true", "false"}, units : Nat]

\* What a strategy remembers, and what the trading thread may still have to call.
Memory == [ticks : [Pair -> Nat], flags : [Pair -> [long : BOOLEAN, short : BOOLEAN]],
           all : Nat, invested : BOOLEAN]
Call == [do : {"update"}, pair : Pair] \cup [do : {"put"}, event : Event]

(* Every variable stays in its range. The live queue keeps its size, a      *)
(* backtest reads no row beyond any pair's data, a position has units just  *)
(* when it is open, and what the price thread is writing is a price of its  *)
(* pair.                                                                    *)
TypeOK ==
  /\ program \in {"backtest", "live"}
  /\ strategy \in Strategy
  /\ phase \in {"running", "finished", "crashed"}
  /\ queue \in Seq(Event)
  /\ program = "live" => Len(queue) <= QueueMax
  /\ \A p \in Pair : quotes[p] \in QuoteOf(p)
  /\ \A p \in Pair : /\ positions[p].side \in {-1, 0, 1}
                     /\ positions[p].units \in Nat
                     /\ IsOpen(positions[p]) <=> positions[p].units > 0
  /\ balance \in Int /\ cash \in Int /\ missed \in [Pair -> Int]
  /\ {trades, wins, losses} \subseteq Nat
  /\ memory \in Memory
  /\ row \in Nat /\ more \in BOOLEAN
  /\ \A p \in Pair : row <= Rows[p]
  /\ stream.at \in {"idle", "bid", "ask", "inverse", "put", "ended"}
  /\ stream.at \notin {"idle", "ended"} =>
       stream.pair \in Pair /\ stream.bid \in Bids[stream.pair]
  /\ todo \in Seq(Call)
  /\ executed \in [Pair -> Int]

\* The constructors of the ticker, the portfolio, the strategies and the price stream.
TickerInit ==
  /\ quotes = [p \in Pair |-> [bid |-> NoQuote, ask |-> NoQuote, inverse |-> FALSE]]
  /\ row = 0 /\ more = TRUE

PortfolioInit ==
  /\ positions = [p \in Pair |-> Flat]
  /\ balance = 0 /\ cash = 0
  /\ trades = 0 /\ wins = 0 /\ losses = 0
  /\ missed = [p \in Pair |-> 0]

StrategyInit ==
  memory = [ticks |-> [p \in Pair |-> 0],
            flags |-> [p \in Pair |-> [long |-> FALSE, short |-> FALSE]],
            all |-> 0, invested |-> FALSE]

Init ==
  /\ program \in {"backtest", "live"}
  /\ strategy \in Strategy
  /\ program = "live" => strategy = "TestRandom"   \* not used there
  /\ phase = "running"
  /\ queue = <<>>
  /\ TickerInit /\ PortfolioInit /\ StrategyInit
  /\ stream = Idle /\ todo = <<>>
  /\ executed = [p \in Pair |-> 0] /\ signals = 0

-----------------------------------------------------------------------------
(* Filling: the portfolio's books, and what the market really paid.        *)

SideOf(e) == IF e.side = "true" THEN 1 ELSE -1

Pay(side, units, p) ==
  cash' = cash - side * units * (IF side = 1 THEN quotes[p].ask ELSE quotes[p].bid)

\* add_new_position and add_position_units.
Opens(p, side, units) ==
  /\ positions' = [positions EXCEPT ![p] = NewPosition(side, units, quotes[p])]
  /\ Pay(side, units, p)
  /\ UNCHANGED balance

\* The live program's add_units takes the current price as well.
Grows(p, units) ==
  /\ LET grown == AddUnits(positions[p], units, quotes[p])
     IN  positions' = [positions EXCEPT ![p] =
           IF program = "live" THEN UpdatePositionPrice(grown, quotes[p]) ELSE grown]
  /\ Pay(positions[p].side, units, p)
  /\ UNCHANGED balance

\* close_position of a position with the given current price.
Closes(p, ps) ==
  /\ positions' = [positions EXCEPT ![p] = Flat]
  /\ balance' = balance + Profit(ps)
  /\ Pay(-ps.side, ps.units, p)

\* A mutant of Counted: a closing at no profit counts as nothing.
CountedStrictly(profit) ==
  /\ wins' = wins + (IF profit > 0 THEN 1 ELSE 0)
  /\ losses' = losses + (IF profit < 0 THEN 1 ELSE 0)
  /\ UNCHANGED trades

Counted(profit) ==
  /\ wins' = wins + (IF profit > 0 THEN 1 ELSE 0)
  /\ losses' = losses + (IF profit > 0 THEN 0 ELSE 1)
  /\ UNCHANGED trades

-----------------------------------------------------------------------------
(* The backtest.                                                           *)

InBacktest == program = "backtest" /\ phase = "running"

\* stream_next_tick: one row of every pair, in order, up to the first pair that
\* has no more. That one ends the backtest, the ticks before it are in the queue.
StreamNextTick ==
  /\ InBacktest /\ more /\ queue = <<>>
  /\ LET ended == {i \in DOMAIN Pairs : row >= Rows[Pairs[i]]}
         n == IF ended = {} THEN Len(Pairs) ELSE Min(ended) - 1
     IN  /\ \E bid \in [1 .. n -> UNION {Bids[p] : p \in Pair}] :
              /\ \A i \in 1 .. n : bid[i] \in Bids[Pairs[i]]
              /\ quotes' = [p \in Pair |->
                IF \E i \in 1 .. n : Pairs[i] = p
                THEN LET i == CHOOSE j \in 1 .. n : Pairs[j] = p
                     IN  [bid |-> bid[i], ask |-> bid[i] + Spread, inverse |-> FALSE]
                ELSE quotes[p]]
         /\ queue' = [i \in 1 .. n |-> [type |-> "TICK", pair |-> Pairs[i]]]
         /\ more' = (ended = {})
         /\ row' = IF ended = {} THEN row + 1 ELSE row
  /\ UNCHANGED <<program, strategy, phase, portfolioVars, memory, threadVars>>

\* What calculate_signals may put for a tick of p, with the memory afterwards.
RuleOutcomes(p) ==
  LET gate == memory.ticks[p] > Warmup
      seen == [memory EXCEPT !.ticks[p] = @ + 1]
      result(zone) == TryRules(strategy, zone, memory.flags[p])
      trade(side) == [side |-> side, units |-> TradeUnits]
  IN  IF ~gate THEN {[out |-> <<>>, memory |-> seen]}
      ELSE {[out |-> [i \in DOMAIN result(z).out |-> trade(result(z).out[i])],
             memory |-> [seen EXCEPT !.flags[p] = result(z).flags]]
              : z \in RuleBased[strategy].zones}

\* TestRandomStrategy counts the ticks of all pairs together.
TestRandomStrategy ==
  LET all == memory.all + 1
      side == IF memory.invested THEN "false" ELSE "true"
  IN  IF all % Every # 0 THEN {[out |-> <<>>, memory |-> [memory EXCEPT !.all = all]]}
      ELSE {[out |-> <<[side |-> side, units |-> TradeUnits]>>,
             memory |-> [memory EXCEPT !.all = all, !.invested = ~@]]}

AllocationOutcomes(p) ==
  LET seen == [memory EXCEPT !.ticks[p] = @ + 1]
      first == {<<[side |-> "true", units |-> u]>> : u \in 0 .. TradeUnits}
  IN  {[out |-> o, memory |-> seen]
         : o \in IF memory.ticks[p] < 1 THEN first ELSE PortfolioAllocation(TradeUnits)}

Outcomes(p) ==
  CASE strategy = "TestRandom" -> TestRandomStrategy
    [] strategy = "PortfolioAllocation" -> AllocationOutcomes(p)
    [] OTHER -> RuleOutcomes(p)

\* A mutant of UpdatePortfolio: refreshed only when the queue has been emptied.
UpdatePortfolioLater(p) ==
  positions' = IF IsOpen(positions[p]) /\ Len(queue) = 1
               THEN [positions EXCEPT ![p] = UpdatePositionPrice(@, quotes[p])]
               ELSE positions

UpdatePortfolio(p) ==
  positions' = IF IsOpen(positions[p])
               THEN [positions EXCEPT ![p] = UpdatePositionPrice(@, quotes[p])]
               ELSE positions

HandleTick ==
  /\ InBacktest /\ more /\ queue # <<>> /\ Head(queue).type = "TICK"
  /\ LET p == Head(queue).pair
     IN  /\ \E o \in Outcomes(p) :
              /\ queue' = Tail(queue) \o [i \in DOMAIN o.out |->
                   [type |-> "SIGNAL", pair |-> p, side |-> o.out[i].side,
                    units |-> o.out[i].units]]
              /\ memory' = o.memory
         /\ UpdatePortfolio(p)
  /\ UNCHANGED <<program, strategy, phase, quotes, balance, trades, wins, losses,
                 cash, missed, tickerVars, threadVars>>

\* A mutant of DividesByZero: the return of no units is taken to be nothing.
NeverDivides(units) == FALSE

\* calculate_profit_perc of a new position divides by its units.
DividesByZero(units) == units = 0

\* execute_signal of backtest/portfolio.py: a signal against the position closes all
\* of it, whatever its size. A new position of no units divides by zero, which ends
\* the program. The order goes into the queue and is dropped there.
HandleSignal ==
  /\ InBacktest /\ more /\ queue # <<>> /\ Head(queue).type = "SIGNAL"
  /\ \E p \in Pair :
       LET e == Head(queue)
           ps == positions[p]
       IN  /\ e.pair = p
           /\ \/ /\ ~IsOpen(ps) /\ DividesByZero(e.units)
                 /\ phase' = "crashed"
                 /\ UNCHANGED <<queue, portfolioVars>>
              \/ /\ \/ /\ ~IsOpen(ps) /\ ~DividesByZero(e.units)
                       /\ Opens(p, SideOf(e), e.units)
                       /\ trades' = trades + 1
                       /\ UNCHANGED <<wins, losses>>
                    \/ /\ IsOpen(ps) /\ ps.side = SideOf(e)
                       /\ Grows(p, e.units)
                       /\ UNCHANGED <<trades, wins, losses>>
                    \/ /\ IsOpen(ps) /\ ps.side # SideOf(e)
                       /\ Closes(p, ps)
                       /\ Counted(Profit(ps))
                 /\ queue' = Append(Tail(queue), [e EXCEPT !.type = "ORDER"])
                 /\ UNCHANGED <<phase, missed>>
  /\ UNCHANGED <<program, strategy, quotes, memory, tickerVars, threadVars>>

HandleOrder ==
  /\ InBacktest /\ more /\ queue # <<>> /\ Head(queue).type = "ORDER"
  /\ queue' = Tail(queue)
  /\ UNCHANGED <<program, strategy, phase, quotes, portfolioVars, memory,
                 tickerVars, threadVars>>

\* get_win_rate divides by the number of trades.
Verdict == IF trades = 0 THEN "crashed" ELSE "finished"

\* A figure of each pair, summed over the pairs.
Total(f) == SumOf([i \in DOMAIN Pairs |-> f[Pairs[i]]])

\* After the loop every open position is closed at the price it was last updated
\* with, and the rates are printed.
OpenPairs == {p \in Pair : IsOpen(positions[p])}

Settle ==
  /\ balance' = balance + Total([p \in Pair |-> Profit(positions[p])])
  /\ cash' = cash + Total([p \in Pair |-> Signed(positions[p])
                                            * ClosePrice(positions[p].side, quotes[p])])
  /\ missed' = [p \in Pair |-> Signed(positions[p])
                  * (positions[p].cur - ClosePrice(positions[p].side, quotes[p]))]

CloseAll ==
  /\ Settle
  /\ LET won == {p \in OpenPairs : Profit(positions[p]) > 0}
     IN  /\ wins' = wins + Cardinality(won)
         /\ losses' = losses + Cardinality(OpenPairs \ won)
  /\ positions' = [p \in Pair |-> Flat]
  /\ phase' = Verdict
  /\ UNCHANGED <<program, strategy, queue, quotes, trades, memory, tickerVars, threadVars>>

\* A mutant of EndBacktest: the loop waits for the queue to be emptied.
EndBacktestDrained == InBacktest /\ queue = <<>> /\ CloseAll

\* The loop ends when the ticker says so or max_iters is reached, which is some number.
EndBacktest == InBacktest /\ CloseAll

-----------------------------------------------------------------------------
(* The live program.                                                       *)

InLive == program = "live" /\ phase = "running"
LiveFrame == UNCHANGED <<program, strategy, phase, memory, tickerVars, trades, wins, losses,
                         missed>>

\* stream_to_queue, the price thread: a line from the broker, then one write after
\* the other, then put, which waits while the queue is full. A line that is no JSON,
\* or the end of the response, ends the thread.
Hear ==
  /\ InLive /\ stream.at = "idle"
  /\ \/ \E p \in Pair : \E b \in Bids[p] : stream' = [at |-> "bid", pair |-> p, bid |-> b]
     \/ stream' = [Idle EXCEPT !.at = "ended"]
  /\ LiveFrame
  /\ UNCHANGED <<queue, quotes, positions, balance, cash, todo, executed, signals>>

WriteQuote ==
  /\ InLive /\ stream.at \in {"bid", "ask", "inverse"}
  /\ LET p == stream.pair
     IN  \/ /\ stream.at = "bid"
            /\ quotes' = [quotes EXCEPT ![p].bid = stream.bid]
            /\ stream' = [stream EXCEPT !.at = "ask"]
         \/ /\ stream.at = "ask"
            /\ quotes' = [quotes EXCEPT ![p].ask = stream.bid + Spread]
            /\ stream' = [stream EXCEPT !.at = "inverse"]
         \/ /\ stream.at = "inverse"
            /\ quotes' = [quotes EXCEPT ![p].inverse = TRUE]
            /\ stream' = [stream EXCEPT !.at = "put"]
  /\ LiveFrame
  /\ UNCHANGED <<queue, positions, balance, cash, todo, executed, signals>>

PutTick ==
  /\ InLive /\ stream.at = "put"
  /\ Len(queue) < QueueMax
  /\ queue' = Append(queue, [type |-> "TICK", pair |-> stream.pair])
  /\ stream' = Idle
  /\ LiveFrame
  /\ UNCHANGED <<quotes, positions, balance, cash, todo, executed, signals>>

\* trade, the trading thread: calculate_signals of whatever strategy it was given
\* puts a signal or none, then the position's price is updated. Its own put waits
\* for room in the queue too. The sides "buy" and "sell" are written as the
\* backtest's "true" and "false".
LiveTick ==
  /\ InLive /\ todo = <<>> /\ queue # <<>> /\ Head(queue).type = "TICK"
  /\ LET p == Head(queue).pair
         update == [do |-> "update", pair |-> p]
         put(side) == [do |-> "put", event |-> [type |-> "SIGNAL", pair |-> p,
                                                side |-> side, units |-> TradeUnits]]
     IN  \/ todo' = <<update>> /\ UNCHANGED signals
         \/ /\ signals < MaxSignals
            /\ \E side \in {"true", "false"} : todo' = <<put(side), update>>
            /\ signals' = signals + 1
  /\ queue' = Tail(queue)
  /\ LiveFrame
  /\ UNCHANGED <<quotes, positions, balance, cash, stream, executed>>

LivePut ==
  /\ InLive /\ todo # <<>> /\ Head(todo).do = "put"
  /\ Len(queue) < QueueMax
  /\ queue' = Append(queue, Head(todo).event)
  /\ todo' = Tail(todo)
  /\ LiveFrame
  /\ UNCHANGED <<quotes, positions, balance, cash, stream, executed, signals>>

LiveUpdate ==
  /\ InLive /\ todo # <<>> /\ Head(todo).do = "update"
  /\ UpdatePortfolio(Head(todo).pair)
  /\ todo' = Tail(todo)
  /\ LiveFrame
  /\ UNCHANGED <<queue, quotes, balance, cash, stream, executed, signals>>

\* close_position of the live program takes the current price first.
ClosesNow(p) == Closes(p, UpdatePositionPrice(positions[p], quotes[p]))

\* execute_signal of portfolio/portfolio.py: nothing until every price is known; a
\* position is closed only when it has the size of one trade, and at the prices of
\* this moment; in all other cases against the position nothing is done or ordered.
AllKnown == \A p \in Pair : /\ quotes[p].bid # NoQuote /\ quotes[p].ask # NoQuote
                            /\ quotes[p].inverse

\* A mutant of Closable: a larger position is closed by a trade of the usual size.
ClosableAny(ps) == TRUE

Closable(ps) == ps.units = TradeUnits

LiveSignal ==
  /\ InLive /\ todo = <<>> /\ queue # <<>> /\ Head(queue).type = "SIGNAL"
  /\ LET e == Head(queue)
         ps == positions[e.pair]
         against == IsOpen(ps) /\ ps.side # SideOf(e)
     IN  IF AllKnown /\ (against => Closable(ps))
         THEN /\ \/ ~IsOpen(ps) /\ Opens(e.pair, SideOf(e), TradeUnits)
                 \/ IsOpen(ps) /\ ~against /\ Grows(e.pair, TradeUnits)
                 \/ against /\ ClosesNow(e.pair)
              /\ todo' = <<[do |-> "put", event |-> [e EXCEPT !.type = "ORDER"]]>>
         ELSE UNCHANGED <<positions, balance, cash, todo>>
  /\ queue' = Tail(queue)
  /\ LiveFrame
  /\ UNCHANGED <<quotes, stream, executed, signals>>

\* execute_order of the execution handler.
LiveOrder ==
  /\ InLive /\ todo = <<>> /\ queue # <<>> /\ Head(queue).type = "ORDER"
  /\ executed' = [executed EXCEPT ![Head(queue).pair] = @ + SideOf(Head(queue)) * Head(queue).units]
  /\ queue' = Tail(queue)
  /\ LiveFrame
  /\ UNCHANGED <<quotes, positions, balance, cash, stream, todo, signals>>

BacktestStep == StreamNextTick \/ HandleTick \/ HandleSignal \/ HandleOrder \/ EndBacktest
LiveStep == Hear \/ WriteQuote \/ PutTick \/ LiveTick \/ LivePut \/ LiveUpdate
              \/ LiveSignal \/ LiveOrder
Next == BacktestStep \/ LiveStep

Spec == Init /\ [][Next]_vars

\* One thread that never waits runs the backtest.
FairSpec == Spec /\ WF_vars(BacktestStep)

-----------------------------------------------------------------------------
(* Properties.                                                             *)

\* What executing an event makes of the side held of p: a signal for the side that
\* is held already would add to the position, which doubles the number.
Executed(side, e, p) ==
  IF e.type # "SIGNAL" \/ e.pair # p THEN side
  ELSE IF side = 0 THEN SideOf(e)
  ELSE IF side = SideOf(e) THEN 2 * side ELSE 0

\* The side of p after each of the events of s.
Sides(s, p, side) ==
  LET after[i \in 0 .. Len(s)] == IF i = 0 THEN side ELSE Executed(after[i - 1], s[i], p)
  IN  after

\* What the orders of a sequence of events, and of the calls still to be made, add up to.
OrderOf(e, p) == IF e.type = "ORDER" /\ e.pair = p THEN SideOf(e) * e.units ELSE 0
Ordered(s, p) == SumOf([i \in DOMAIN s |-> OrderOf(s[i], p)])
Waiting(p) == SumOf([i \in DOMAIN todo |->
                IF todo[i].do = "put" THEN OrderOf(todo[i].event, p) ELSE 0])

(* backtest/strategy.py never asks what is held: it goes by its flags. In   *)
(* the four rule-based strategies the flags are right all the same: once    *)
(* the signals under way are executed, the position of a pair is long minus *)
(* short, one trade in size. None of those signals adds to a position or    *)
(* reverses it, even where both flags are set and nothing is held.          *)
SignalsMatchPosition ==
  program = "backtest" /\ strategy \in DOMAIN RuleBased /\ phase = "running" =>
    \A p \in Pair :
      LET after == Sides(queue, p, positions[p].side)
          flag(name) == IF memory.flags[p][name] THEN 1 ELSE 0
      IN  /\ after[Len(queue)] = flag("long") - flag("short")
          /\ \A i \in 0 .. Len(queue) : after[i] \in {-1, 0, 1}
          /\ IsOpen(positions[p]) => positions[p].units = TradeUnits

(* The balance of backtest/portfolio.py is computed from the price that a   *)
(* position was last updated with, not from the market. While the loop runs *)
(* it is all the same what the market paid, less what is still invested:    *)
(* every close comes after its pair's tick was handled. The close at the    *)
(* end is off, and only for positions whose pair's tick is still in the     *)
(* queue: that is so when max_iters stops the loop, and also when the data  *)
(* of a later pair ends first, so that the ticks of the earlier pairs' last *)
(* rows are put and never handled. The live portfolio, which closes at the  *)
(* prices of the moment, always books what was paid.                        *)
BooksBalance ==
  LET invested == [p \in Pair |-> positions[p].side * positions[p].cost]
  IN  /\ balance = cash + Total(invested) + Total(missed)
      /\ \A p \in Pair : missed[p] # 0 =>
           /\ program = "backtest" /\ phase = "finished"
           /\ \E i \in DOMAIN queue : queue[i].type = "TICK" /\ queue[i].pair = p

(* Every trade that the backtest counts (backtest/portfolio.py, trade_count) *)
(* is either still open or counted once, as won or as lost, also by the      *)
(* closing of what is open at the end: the printed rates add up to 100%.     *)
TradesAccounted ==
  program = "backtest" =>
    trades = wins + losses + Cardinality(OpenPairs)

(* The live portfolio books a trade when it puts the order and never hears   *)
(* of it again: the signed units it believes to hold are those the orders    *)
(* executed so far add up to, plus the orders under way in the queue or in   *)
(* a put that waits for room.                                                *)
OrdersMatchPosition ==
  program = "live" =>
    \A p \in Pair :
      Signed(positions[p]) = executed[p] + Ordered(queue, p) + Waiting(p)

(* A live position that was added to can only grow: portfolio/portfolio.py   *)
(* closes a position of exactly one trade's size, so a second signal of the  *)
(* same side takes from every later one against it the power to close.       *)
OnlyGrows ==
  [][program = "live" =>
       \A p \in Pair : positions[p].units > TradeUnits =>
         /\ positions'[p].side = positions[p].side
         /\ positions'[p].units >= positions[p].units]_vars

(* A backtest ends (backtest/backtest.py: the loop reads continue_backtest), *)
(* with a report or with a division by zero, even when one pair's data ends  *)
(* before the other's and ticks or signals are still in the queue.           *)
Ends == (program = "backtest") ~> (phase # "running")
=============================================================================
