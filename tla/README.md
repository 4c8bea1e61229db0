# A verification development for QSForex

TLA+ modules that model the trading programs of this repository, TLC runs that
check them on small instances, and proofs, checked by TLAPS, of theorems about them.
Everything is translated from the Python source; `PROJECT.json` gives for every
definition the lines it stands for, for every run its question, and for every property
a plausible bug ("mutant") that violates it.

    tlc -workers 2 -config MCTradeManager.cfg MCTradeManager     # a run
    tlapm TradeManagerProofs.tla                                 # the proofs

## 1. The system and its parts

The repository holds two programs that share their vocabulary: the live system
(`main.py`, FXCM broker) and an older event-driven trader (`trading/`, `backtest/`,
`broker/oanda/`) that runs over past candles or against OANDA. The live system is one
process, supervised (`deploy/supervisord.conf`: `autorestart=true`):

    fxcmpy socket thread --- tick_data, trade_closed ---> +-------------+
    (also rewrites open_pos and the tick prices)          | RedisQueue  |
    event/debug.py, from a shell --- ConnectEvent ------> |  ('FXCM')   |
    handlers --- SignalEvent, TradeOpenEvent -----------> |             |
    main loop --- HeartBeat, StartUp, Market -----------> +------+------+
                                                                 | get(False)
                              FXCMStreamRunner.run --> handle_event, handler by handler:
      TimeFrameTicker, HLHBTrendStrategy, FXCMExecutionHandler, PriceDensityHandler,
      DebugHandler, HeartBeatHandler, PriceAlertHandler, TradeManageHandler

The older program is a loop over one queue: ticks go to the strategy, its signals to the
portfolio, its orders to execution. `backtest/backtest.py` runs it in one thread over past
candles, `trading/trading.py` in two over a bounded queue, with `pricing/streaming.py`
writing the table of prices that the portfolio reads.

| component | state | operations | what makes it correct |
|---|---|---|---|
| **Trade manager** `event/trade_manager.py` | `self.trades` (memory), the snapshot under `TRADES` (Redis), `Trade` rows (database) | `process_price`, `trade_open`, `trade_close`, `heartbeat`, `sync_trades`, `load_trades`, `save_to_db` | it manages what the broker lists, drops nothing that is open, restores after a crash without inventing marks, closes only what was closed |
| **Event queue** `utils/redis.py`, `event/handler.py`, `event/runner.py` | a list in Redis that outlives the process | `put` (RPUSH), `get` (LPOP), `handle_event`, `process_event` | an event is handled at most once, and by all its handlers; the re-put of `handle_event` retries |
| **Stream runner** `broker/fxcm/streaming.py` | connection, `is_market_open`, `last_tick_time`, `loop_counter`, `error_counter`, `initialized` | `run`, `check_market_status`, `check_connection`, `new_connect`, `reconnect`, `process_connect_event`, `handle_error` | one working connection for runner and handlers; heartbeats; it follows the market |
| **Order execution** `execution/execution.py`, `broker/fxcm/{account,order,trade}.py` | none of its own; reads `open_pos` and the tick price | `open` | no duplicate of a pair and side, at most `max_trade` trades |
| **Strategy** `strategy/` | none | `signal`, `can_open`, `check_cross` | signals only for crossings, in hours and weekdays |
| **Market calendar** `utils/market.py` | none (a function of the clock) | `is_market_open` | closed at weekends and holidays, never shut in for long |
| **Candle clock** `event/handler.py` TimeFrameTicker, `mt4/constants.py` | `candle_time` | `process`, `get_candle_time` | one event per candle and timeframe |
| **Price alerts** `event/handler.py` PriceAlertHandler | `prices`, a cache of levels in Redis | `price_alert`, `update_price`, `remove`, `reset_rs` | one alert per level |
| **Price density** `utils/price_density.py` | a histogram and its `LAST_TIME`, two keys in Redis | `update_density` (handler), `init_density` (by hand) | volumes are counted once |
| **Backtest** `backtest/` | event queue, tick frames, positions, balance | `_run_backtest`, `execute_signal`, strategies | ticks in order, balance = sum of closed profits |
| **Portfolio** `portfolio/`, `trading/` | positions, balance | `execute_signal`, `add_units`, `remove_units`, `close_position` | netting of signals; profit arithmetic |
| **OANDA account** `broker/oanda/account.py` | orders, trades, positions, transactions, `lastTransactionID` | `pull`, `apply_changes`, `apply_state` | the cache equals the server's state at `lastTransactionID` |
| **OANDA orders, prices, streaming; FXCM entry orders** | none | requests | - |
| **Performance** `performance/` | none | `create_drawdowns` | equals the definition of a drawdown |
| django models, telegram, sms, scripts | - | I/O | - |

**What is hard here.** Nothing in the process takes a lock. The socket thread changes
`open_pos` and puts events while handlers iterate and read; the queue is emptied destructively
and survives the process; a handler may raise at any line and is then abandoned where it is
(`process_event` logs the exception and goes on); levels, densities and trades are kept in
memory and in Redis, by writes one after the other; a trade is kept in five places (broker,
`open_pos`, memory, Redis, database); the connection is replaced under the handlers; and the
market opens and closes in between. In the older program, strategies believe what they remember
instead of asking the portfolio, the portfolio books trades it never hears of again, and
several OANDA wrappers share caches of a server that moves on between two requests.
`PROJECT.json` lists these hazards one by one, at the line where each bites.

## 2. Modules

| module | models | kind |
|---|---|---|
| `TradeManager` | the trade manager with its queue, broker, snapshot and rows | component |
| `TradeLedger` | what the trade manager promises | abstract specification |
| `Execution` | strategy -> queue -> runner -> order | component |
| `StreamRunner` | the process, its loop and its connection | component |
| `MarketHours` | the market calendar over the years | algorithm and clock |
| `CandleClock`, `PriceAlert`, `PriceDensity` | the ticker, the alerts, the density: state and operations of each handler | components |
| `MarketWatch` | the three on one queue, with clock, operator and crashes | composition |
| `Strategies`, `Positions` | the strategies of the backtest; positions as records | operators |
| `EventLoop` | the backtest and the older live program | composition |
| `Sums` | the sum of a sequence, as a recursive function | operator |
| `OandaAccount` | the caches of the OANDA wrappers against a server | component |
| `MC...` | the constants of the small instances | for TLC |
| `TradeManagerProofs`, `ExecutionProofs`, `StreamRunnerProofs`, `MarketWatchProofs`, `EventLoopProofs`, `OandaAccountProofs`, `MarketHoursProofs` | theorems about the components | proofs |
| `EventLoopLemmas` | lemmas on recursion, sums and the rules of a strategy | proofs |

### TradeManager

*State.* `life[t]` is where a trade is at the broker: `new`, `placed` (order accepted,
not in `open_pos` yet), `listed` (in `open_pos`), `gone`. `reported` are the trades whose
closing message came. `queue`, `snap` and `row` are Redis and the database; `trades` is
`self.trades`, reduced to the marks `max` and `min` and to whether
`last_profitable_start` is set. `pc`, `placed`, `market` and `beat` are the main thread.

*Actions.* One per handler and outcome. A handler that calls others (`load_trades` ends
in `saved_to_redis`) is one action with all of it. A handler that raises half way is an
action of its own (`CloseFails`, `HeartbeatFails`, `MarketFails`, `SyncFails`) whose
outcomes are the states the code can leave behind: which part of `open_pos` had been
adopted, which part of the snapshot restored, which entries popped. `heartbeat` runs
`sync_trades` after a second look at `open_pos`, so that is a step of its own (`pc =
"sync"`), as is announcing an order after the broker has accepted it (`pc = "place"`).
The other parts of the loop enter as far as the manager sees them: `LoopTick` (heartbeat),
`CloseMarket` (the market event handled on the spot), `OpenMarket` (put into the queue).
The loop drains the queue before it sleeps (streaming.py 67-76), so heartbeats and market
events never pile up behind each other: `Drained`.

*Kept although it looks odd,* since the code does it: a profit of exactly zero counts as
one pip unit (`pip()` tests `if price`); `trade_close` divides by `max - min` and raises
when they are equal; `sync_trades` raises on an unbound name when the account has no
trade; `close_trade_to_db` fills the close fields only of a row it creates itself;
`save_to_db` returns at the first closed row.

*Crash.* `Crash` between events, `CrashInHandler` after the event was popped and a part
of the handler's writes were made; `Restart` is `__init__` with its `load_trades`.

### TradeLedger

The same promises without queue, snapshot, heartbeat or failure: which trades may be
held, when a living process may let one go, and which rows may be written. `TradeManager`
instantiates it (`Ledger == INSTANCE TradeLedger WITH ...`); `LedgerSpec` is checked by two
runs and proved.

### Execution

The steps of `FXCMExecutionHandler.open` in the order of the code: `CheckExist`,
`CheckSpread`, `GetLots`, `MarketOrder` / `AnswerLost` / `Rejected`, `Announce`; each looks at a
table the socket thread may have changed since the last. `Finish` is the end of
`handle_event`, with its re-put; `Processed` is `BaseExecutionHandler.process`, which loses
the answer of `open`. `Lag` bounds how many accepted orders may still be missing from
`open_pos` when the next signal is taken: the code has no such bound, the broker's latency
does, and both bounds proved are stated in it.

### StreamRunner

`conn` is `self.fxcm`: none, closed by us, lost by the network, silent, live. `shared` says
that `account.fxcmpy` is the same object: the runner sets it last in `new_connect`. What a
call does is an operator on these two (`NewConnect`, `NewConnectRaises`, ...); callers
that let an exception through may end the process (`Dies`), `market_open` may not. The
main loop is one action per branch. `Network`, `Age` and `Debug` are the network, the clock
and a shell putting connect events. Handlers appear as what they can do to the
connection: raise (`HandlerFails`). Events that handlers put themselves are handled like
the others and left out.

### MarketHours

`is_market_open` as the operator `IsMarketOpen`, under a clock that runs hour by hour
through every sequence of years; `spell` counts how long the answer has not changed. The module
has no type invariant: its only state is the clock, which is the environment's.

### MarketWatch = CandleClock + PriceAlert + PriceDensity

*State.* `candle_time` is the ticker's memory. `level` are the levels in Redis and `prices`
the alert handler's copy (a popped key is not in its domain). `counted` and `last` are the
two Redis keys of the density: how often each one-minute candle is in the sum, and
`LAST_TIME`. `update` is the `update_density` of the handler that is under way, with what it
has read; `rebuilds` are the `init_density` runs under way, each in a process of its own:
nothing in the code keeps them from overlapping each other or an update. `queue` is Redis
again; `todo` are the calls that the event popped last still
leads to, handler by handler in the order of `main.py`, each an action: `AnnounceFrame`,
`AskLastTime`, `ReadCandles`, `CountCandles` and `StampTime` (the two reads and the two writes
of `update_density`; it may raise before it writes), `TellLevel`, `ResetLevels` and its
`DropLevel`s (the daily reset), `RefreshLevels`. A call tests its condition itself, when it is
its turn: what an earlier handler did to the same event counts.
`touched`, `alerts`, `broken`, `torn`, `lost` and `spoilt` are bookkeeping for the properties
and guard nothing.

*Environment.* `TimePasses`, `Arrives` (ticks and heartbeats), `OperatorSets` (a level),
`OperatorRebuilds` (`init_density` begins) and `RebuildGoesOn` (it writes the sum, writes
`LAST_TIME`, or dies before either). `Restart` is a death between any two calls, reads or writes,
followed by `__init__` of the handlers.

*Kept although it looks odd:* an alert removes whatever level Redis holds by now, also one
set a moment ago; the reset stops at the first key that is not in the copy (`pop` raises);
the time frame event is lost when `put` swallows an error, and the ticker goes on; a
running candle may or may not be in the answer of the broker, and is counted once either
way, because `LAST_TIME` comes from the answer; a rebuilding that dies between its two writes
leaves the new sum with the old `LAST_TIME`, and the next update counts the candles in between
a second time.

### EventLoop with Strategies and Positions

One behaviour runs one of the two programs; they share queue, price table and positions
and differ in actions. *Backtest:* `StreamNextTick` (rows until the shortest data ends),
`HandleTick` (strategy, then `update_portfolio`), `HandleSignal` (`execute_signal`),
`HandleOrder`, `EndBacktest` with `CloseAll`. *Live:* the price thread is `Hear`, `WriteQuote`
(bid, ask and the inverse prices one by one, no lock), `PutTick`; the trading thread is
`LiveTick`, `LivePut`, `LiveUpdate`, `LiveSignal`, `LiveOrder`. The inverse prices, two writes in
the code, are one: nothing reads them but the test that all prices are known.

`Strategies` gives the four indicator strategies as data: the combinations of conditions
that a price can be in, and the rules tried in order on each tick (`TryRules`). The other two,
`TestRandomStrategy` and `PortfolioAllocation`, are operators. `Positions` keeps the cost of
the units instead of their average price, which avoids the division. `cash` is what the
market paid for every fill, against which the balance is compared; `missed` is, per pair, how
far the close at the end was off.

*Kept although it looks odd:* a backtest ends with ticks in the queue, when `max_iters` stops
it and also when the data of a later pair ends first (`stream_next_tick` puts the ticks of the
earlier pairs' next rows before it finds out): the positions are then closed at the prices of
the ticks before; a signal of less than 1000 units counts zero units and divides by zero when
it opens a position; a residue of a floating point share closes a whole position; the live
portfolio closes only a position of exactly one trade's size; the trading thread puts into the
queue it alone empties, and waits for ever when that is full.

### OandaAccount

*State.* `log` is the server's list of transactions: which items each changes and whether
they live on. `cache` are the orders and trades of the class `OANDABase`, shared by all
wrappers; `position`, `last` and `transactions` belong to one wrapper. An item is cached as
the number of the transaction that made it what the cache shows. `client` is the call under
way: a deal that will pull, or a pull between its changes and its states; its `deal` is every
item that the deal changed, the trade a market order opened as well as the order. `strays` are
the items that a failed constructor cached and that ended before there was any wrapper.

*Actions.* `Construct`; `ConstructFails` (`list_instruments` raises when the shared caches are
filled: they stay, the object does not); the lookups and lists; `PlaceOrder`, `PlaceExit`,
`CancelOrder`, `CloseTrade`, `ClosePosition`; `Pull`, `FetchState` (one request per order or
trade), `EndPull`, `PullFails`. `MarketMoves` may happen between any two requests.

*Kept although it looks odd:* exit orders, cancellations and reductions do not pull;
`cancel_pending_order` raises after its first order, `close_position` after the server has
closed everything; `get_order` caches orders that have ended; no pull
ever removes a stray.

## 3. Runs

| run | question | instance | result |
|---|---|---|---|
| `trade_manager` | safety and refinement with ticks, failures, a crash | 1 trade, 3 prices, 2 ticks waiting, 1 crash, a sync every second heartbeat | holds, 1.7 million states |
| `trade_manager_two` | the loops over several trades that fail half way | 2 trades, 1 price, no crash | holds, 2.8 million |
| `trade_manager_live` | is every trade adopted, and every dead one dropped? | 2 trades, no ticks, no crash | holds, 85 thousand |
| `execution` | duplicates and the maximum of trades | 5 trades of one pair, `max_trade` 2, lag 1, 1 crash | holds, 300 thousand |
| `execution_retry` | is a refused signal retried, as the comment says? | same | **violated** |
| `stream_runner` | one connection, market and connection together; do ticks and heartbeats come back, is closing followed? | 2 foreign events per iteration, 1 death | holds, 920 thousand |
| `market_hours` | how long are the spells, when does the market close? | all years, spells to 130 h | holds, 124 thousand |
| `market_holiday` | is the market closed on the listed holidays? | same | **violated** |
| `market_watch` | is the copy of the levels right, is a level told once, and in the end? does the clock catch up? | 1 pair, 4 levels (two of them of the day), 2 prices, frames of a day and a month, 1 fault, 2 changes by the operator | holds, 114 thousand |
| `market_watch_days` | are frames in order, candles counted once? | 1 density, 6 moments with 5 candles, no levels, frames of a day and a week, 1 fault, 2 rebuildings | holds, 4.4 million |
| `event_loop` | do flags, position, balance, counters and orders agree? does a backtest end? | 2 pairs with 4 and 3 rows, all strategies; live queue of 2, 3 signals | holds, 384 thousand |
| `oanda_account` | is a change on the server ever missed for good? | 2 wrappers (symmetric), 2 orders, 1 trade, 4 transactions, any number of failed constructors | holds, 546 thousand |

*Bounds.* One trade is enough for what memory, snapshot, row and broker say of one trade;
the second is needed for loops that stop half way, and a third would repeat it: handlers
treat trades independently except for the order of a loop. Three bids put the trade at a
loss, at zero and in profit, and two waiting ticks are needed for marks to widen twice
between a snapshot and its restore. One crash is enough: a restart begins with
`load_trades` whatever came before, and the proofs have no bound. Five trades with `max_trade`
2 let every bound of `Execution` be reached (`Lag` + 1 duplicates, `MaxTrade` + `Lag`
trades). `BeatEvery` = `RenewEvery` = 2 distinguish the iterations with a heartbeat, and the
errors with a renewal, from the others. 130 hours exceed the longest spell.

In both runs of `MarketWatch` a day is two units of time. `market_watch` sees the frames turn
alone and together; R1 and S1 are levels of the day, so that the reset can stop between them,
R and S are not; two prices lie on either side of a level; one fault reaches every failing call
and every death after an alert, and the second change lets the operator set a level anew after it
was told or while the copy is old. It has no densities, which share only the queue with the
alerts. `market_watch_days` leaves levels and prices out and gains three days with candles
before, between and after the turns. Its two rebuildings overlap an update at every one of its
steps, overlap each other, and die at every one of their own; the one fault is a lost event, a
failing update or a death anywhere in it. Densities of two symbols have nothing in common but
the loop over them. In `event_loop` three handled ticks of a pair let a rule set its flag, set
it back and set it again. The first pair has four rows and the second three, so that the tick of
the first pair's fourth row is put but never handled: that is the price which the close at the
end misses. `QueueMax` = 2 is enough for the live program to fill its queue. In `oanda_account`
the first order exists already, so four transactions hold a fill, a close and two changes under
a pull, and a stray is there after one failed constructor and one transaction;
more than two wrappers only repeat that another one has applied a change already.
Deadlock is checked in every run but two: a backtest ends and the live program can block
on its own queue (`event_loop`), and the log is bounded (`oanda_account`).

*Fairness.* `TradeManager!FairSpec`: the main thread handles what is in its queue, beats, and
is restarted (WF); what fails by an accident of timing does not fail every time (SF on the
successful outcomes). Nothing is assumed of the broker, the operator or the socket thread: no
close need be reported. That heartbeats keep coming is what `StreamRunner!KeepsBeating` checks.
It holds because `Burst` bounds what is put from outside before the queue is found empty: the
loop drains the queue before it does anything else, so producers faster than the handlers would
starve it. `StreamRunner!FairSpec` assumes in addition that time passes and that opening the
market and mending the connection do not fail for ever. `MarketWatch!Fairness`: the runner goes
on (WF), heartbeats and ticks at each price arrive again and again when there is room (SF).
`LevelsHeard` is conditional on the market trading beyond the level, which that fairness
provides. It says two things: such a level does not stay, and once the handler's copy has it,
it is *told*, unless the operator writes the key again or the daily reset comes first. Before
that, the alert of the level it replaced may delete it unheard. `EventLoop!FairSpec` is WF of
the backtest's step: one thread that never waits. Nothing is assumed of the live program, and
nothing is promised.

*What does not hold.* Two disagreements between comment and code are kept as runs that TLC
must find violated, see `findings` in `PROJECT.json`: a signal refused for its spread is
not pushed back, since `process` does not return what `open` returns; and 26 December is
not a holiday, since (month, day) is compared with (day, month).

## 4. Theorems

TLC checks small instances; these hold for every value of the constants that satisfies the
named assumptions. Those ask for types (numbers, sequences of names), positive intervals and
sizes, and in addition: finitely many trades (`Execution`), finitely many orders and trades
(`OandaAccount`), a history the account starts with that is made of transactions, the levels R
and S at the end of their lists (`PriceAlert`, as the settings have them), a month that began
before the clock (`CandleClock`), and a list of pairs that names none twice (`EventLoop`).

* **TradeManagerProofs.** `TypeCorrect` (`TypeOK` is inductive). `MarksShrink`: case by case
  from `Adopted`, `Matched` and `Restored`. `SnapshotSafe` and `SnapshotComplete`: neither
  invariant is inductive alone, because a restart with nothing in memory adopts with marks of
  zero and then restores: one needs that marks lie around zero in both books and that a dead
  process holds nothing. `Consistent` joins these; `orphaned` is the exact exception, the trades
  popped by a sync or reload that failed before its save. `TruthCorrect`: what queue and memory
  say of trades is backed by the broker, across restarts. `Refinement`: `Spec => LedgerSpec`,
  by three facts about every step: what enters is known to the broker, what leaves is
  unlisted or reported (`LeavesClosed`, which needs `Truthful` for the queued close), and rows
  are written as the ledger allows.
* **ExecutionProofs.** `TypeCorrect`; `PairBounded` and `TradesBounded`: at most `Lag` + 1 own
  trades of a pair and side and at most `MaxTrade` + `Lag` in all. The strengthening is
  `Readings`: what remains true of a reading after the table has changed, at each program point.
* **StreamRunnerProofs.** `TypeCorrect`; `ConnectionShared`, where the one caller that swallows
  what `new_connect` raises is harmless only because it then never calls it; `MarketMoves`.
* **MarketWatchProofs.** `CopyCorrect`: `CopyLagsOnlyBehindOperator` is inductive once every
  key has a level, and nothing need be known of queue or waiting calls: each of the three ways
  to write (renew, remove from both, the operator) keeps it (`Renewed`, `Removed`, `Written`).
  The others follow from `MarketInv`, a part for each group of variables. `FramesInOrder`: no
  time frame event in the queue begins before an earlier one of its frame ends, none ends after
  the candle the ticker remembers began (`QueueInOrder`, `TickerBehind`), and the frames it has
  still to look at are those of one moment (`FramesCurrent`). `LevelsToldOnce`: either every
  alert for a key was answered for by a broken removal, or one more is out and the level is
  gone from Redis *and* from the copy (`ToldInv`); with the level gone from only one, the next
  tick would tell it again. `CandlesCountedOnce`: what is counted beyond `LAST_TIME` was torn
  or is about to be stamped, by an update or by a rebuilding (`CountInv`), as long as no two
  calls have worked on the symbol at once. It needs that an update under way belongs to the
  first of the waiting calls, that a rebuilding between its writes has summed just the candles
  before its start (`RebuildInv`), and that what the update has read is still there if nobody
  overlapped it (`UpdateInv`). `TypeCorrect` includes that nothing the program remembers,
  announces or stamps is ahead of the clock.
* **OandaAccountProofs.** `CachesLag` (`StaleOnlyAhead`, whose one exception are the strays of
  failed constructors): while a pull is between the changes and
  the states, what is stale came after the id it is going to store (`PullApplied`), so storing it
  is safe whatever the market does meanwhile; a deal that a pull follows came after the last id
  (`DealAhead`), and the states asked for are of what was open then (`AsksLiving`). The lemmas on
  `Version` say what a longer log changes. `TransactionsCorrect`, `DealsSeen` (for every order,
  trade and position the deal changed) and `TypeCorrect` come from the same invariant.
* **MarketHoursProofs.** `Spells`: `Longest` says for every hour of the week and
  for the days around New Year how long the answer can have been what it is, and no hour adds
  more than one to it (`LongestGrows`). The calendar of the code depends on the leap year only
  through the day after, which for the one holiday that exists it does not (`Holidays`, `Opening`).
  `Closes`, the action property `ClosesAtCloseHour`, comes from the same case distinction.
* **EventLoopLemmas.** The library's induction theorems cannot be used (their
  parameter is an operator), so `Inductive` says for sets of numbers what they say for predicates;
  from it, that a recursion over 0 .. n exists and is unique, and what a sum is of a sequence
  shortened, lengthened, or changed in one place. `TriesSound`: the sides that the rules of any of
  the four strategies put are a way from what the flags said to what they say.
* **EventLoopProofs.** `Accounting`: trades = won + lost + open, where opening, growing and
  closing change the set of open pairs by one, none, one, and the end splits it. `NeverCloses`:
  the action property `OnlyGrows`, from the invariant that a closed live position has no units.
  Both rest on `Formed`: every pair has a position with its fields, which no signal destroys.
  `TypeCorrect` (`TypeInv`: the fields of every event, call and position). `OrdersMatch`: each
  step moves an order between position, call, queue and execution and leaves the sum as it
  was; it needs that every event under way has the size of one trade (`OneSize`), since a close
  orders what the signal says and not what is held. `Balance`: a close books the price a position
  knows, which is right while the ticks of a row stand before its signals (`TicksFirst`) and a
  position with an old price has its tick in the queue (`Fresh`); so the close at the end is off
  only by positions whose tick is there (`NothingMissed`); with `Accounting`, since a run
  without a trade ends in an error with nothing to close. `SignalsMatch`: the signals under way
  are, one by one, a way between 1, 0 and -1 from the position held to the flags (`Leads`); a tick
  prolongs it by what `TriesSound` says, a signal takes its first step, and no step of it adds.

*What the proofs found.* `CountedOnce` used to say that a density has every candle between the
first one in it and `LAST_TIME`. That failed: an update torn before its first `LAST_TIME` leaves
candles in the sum that the next update, which then reads only the last `MaxCandles`, need not
continue; the instance that TLC had checked was too short to show it. The property now excepts
what a torn update left, and `market_watch_days` is long enough to see it. `TypeOK` of `EventLoop`
let the backtest read rows up to the end of the longest data, not of every pair's; and
`SignalsMatchPosition` asked where the signals under way lead, and now asks of every step on the
way that it adds to no position.

*What the code does not keep*, and the properties therefore except, by name: `CountedOnce`
bounds what a rebuilding that died between its two writes leaves to be counted again or left
out, and is silent about a symbol on which two calls overlapped (`spoilt`) until a rebuilding
that nobody overlaps; `StaleOnlyAhead` excepts the strays; `BooksBalance` says which positions
the close at the end of a backtest books at an old price; `TransactionsKept` leaves out
wrappers of which a pull failed half-way, which cache transactions twice.

*Only checked by TLC:* the liveness properties (`ListedAdopted`, `GoneForGood`, `StreamsAgain`,
`FollowsClosing`, `KeepsBeating`, `LevelsHeard`, `ClockCatchesUp`, `Ends`): leads-to under
fairness is out of the prover's reach. Every invariant and every action property of a passing
run is a theorem.

## 5. What is not modelled

* *In the live system:* failures of Redis itself (every handler touches it; the process then
  dies or logs); the order of Python dictionaries (any order is allowed instead); lots, stops
  and limits, messages; serialisation of events. The age of the last tick is a Boolean: that
  `.seconds` drops whole days delays a renewal by a minute a day. The time of an order is
  taken to be a `datetime`, as the handlers expect of the broker library. CLOSE, UPDATE, LIMIT
  and STOP signals: the handler has code for them, no live component sends them. FXCM entry
  orders: no event reaches them.
* *Of the density:* how a candle's volume is spread over its prices, the drawings, and
  `tick_density.py`, a script over the same data. An `update_density` started by hand (the module
  can be run as a script) beside that of the handler; two rebuildings of a symbol that
  begin in the same minute are one as long as they are equally far.
* *Of the older program:* the arithmetic of indicators, the rounding and the conversion to the
  home currency; `remove_units`, which nothing calls; `output_results` and
  `create_drawdowns`, arithmetic over a finished curve;
  the CSV price handler; `OandaV20Portfolio`, read-only properties of an account. The strategies
  of `strategy/strategy.py` are replaced by one that may signal anything.
* *Of OANDA:* prices, instruments and streaming (one request, one response; the streaming
  runner repeats the loop of `event/runner.py`); the parameters of orders and client
  extensions, which change nothing the model keeps.
* Django models, message senders, download scripts, deployment: I/O without control state.

## 6. Plan

Done: every safety invariant and action property of the runs, and the refinement of
`TradeLedger`, are proved. Next, in this order; each with its run, and theorems where it has
an invariant worth it.

1. Composition: `StreamRunner` with `TradeManager` (which events are lost when the connection
   is replaced), and a refinement of `TradeManager!LoopTick` / `CloseMarket` / `OpenMarket` by
   the runner's loop, step by step.
2. Refinements of abstract specifications: a density as a set of candles that only grows, by
   `PriceDensity`; an account that knows its items up to an id, by `OandaAccount`.
3. Pure operators against reference definitions: `check_cross` and its siblings, `get_lots`,
   `create_drawdowns`, the codec of the events.
4. Strengthen `TradesBounded` to any lag function; the account attributes that a renewed
   connection loses.
