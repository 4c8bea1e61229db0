---------------------------- MODULE TradeManager ----------------------------
(***************************************************************************)
(* The trade manager of the live system (event/trade_manager.py), together *)
(* with what it shares with the rest of the process:                       *)
(*   - the persistent event queue in Redis that the stream runner drains;  *)
(*   - the table of open positions that the broker library keeps up to     *)
(*     date from its own socket thread (account.get_trades());             *)
(*   - the Redis snapshot it restores itself from, and the database rows.  *)
(*                                                                         *)
(* Three parties interleave: the main thread, which takes one event at a   *)
(* time from the queue and runs the handler of the event to its end; the   *)
(* socket thread, which puts ticks and close reports into the queue and    *)
(* changes the open positions; and the operator or the host, which may     *)
(* open trades by hand and may kill the process at any point.              *)
(***************************************************************************)
EXTENDS Integers, Sequences, FiniteSets

CONSTANTS
  Trade,          \* broker trade ids
  Instrument,     \* currency pairs
  None,           \* Python's None: no entry in a dictionary
  Terms,          \* Terms[t]: instrument, side and open price of trade t
  Bid,            \* the bid prices a tick may carry
  Spread,         \* ask - bid
  ZeroPip,        \* what pip() answers for one unit of price difference; a
                  \* difference of zero answers 1, see ProfitPip
  SaveEvery,      \* heartbeats between two save_to_db calls (30 s)
  SyncEvery,      \* heartbeats between two sync_trades calls (15 min)
  MaxTicks,       \* bound: ticks waiting in the queue
  MaxCrashes      \* bound: process deaths in a behaviour

Side == {"BUY", "SELL"}

ASSUME NoneAssumption ==
  None \notin [max : Int, min : Int, profitable : BOOLEAN] \cup Trade
ASSUME TermsAssumption ==
  Terms \in [Trade -> [instrument : Instrument, side : Side, open_price : Int]]
ASSUME NumberAssumption ==
  /\ Bid \subseteq Int
  /\ Spread \in Nat
  /\ ZeroPip \in Nat \ {0, 1}
  /\ SaveEvery \in Nat \ {0}
  /\ SyncEvery \in Nat \ {0}
  /\ SyncEvery % SaveEvery = 0
  /\ MaxTicks \in Nat
  /\ MaxCrashes \in Nat

VARIABLES
  \* The broker, as the socket thread sees it.
  life,      \* life[t]: new, placed (order accepted), listed (in open_pos), gone
  reported,  \* trades whose ClosedPosition record reached trade_closed
  \* Redis and the database: they outlive the process.
  queue,     \* the events waiting in RedisQueue('FXCM')
  snap,      \* snap[t]: the marks of t in the snapshot under TRADES_KEY, or None
  row,       \* row[t]: the Trade row of t: none, open, closed (close_price set)
  \* The process.
  trades,    \* trades[t]: the marks of t in self.trades, or None
  pc,        \* the main thread: down, loop, place (an order is out), sync
  placed,    \* the trade of the order that is out while pc = "place"
  market,    \* the runner's is_market_open
  beat,      \* loop_counter, in heartbeats and modulo SyncEvery
  \* Bookkeeping of the model.
  orphaned,  \* trades popped since self.trades was last written to the snapshot
  crashes    \* process deaths so far

broker == <<life, reported>>
loop == <<pc, placed, market, beat>>
vars == <<life, reported, queue, snap, row, trades, pc, placed, market, beat,
          orphaned, crashes>>

-----------------------------------------------------------------------------
(* What a managed trade carries. last_profitable_start is kept as whether  *)
(* it is set; the seconds it measures, prices, times and lots are data no  *)
(* property is about.                                                      *)

Mark == [max : Int, min : Int, profitable : BOOLEAN]

Fresh == [max |-> 0, min |-> 0, profitable |-> FALSE]

Event ==
  [type : {"TICK_PRICE"}, instrument : Instrument, bid : Bid]
    \cup [type : {"TRADE_OPEN", "ORDER_CLOSE"}, trade_id : Trade]
    \cup [type : {"HEARTBEAT"}, counter : 0 .. SyncEvery - 1]
    \cup [type : {"MARKET"}]

(* Every variable stays in its range. In particular a managed trade always *)
(* carries marks, whichever way it came in (announced, adopted, restored   *)
(* from the snapshot), and an order is held exactly while it is out.       *)
TypeOK ==
  /\ life \in [Trade -> {"new", "placed", "listed", "gone"}]
  /\ reported \in SUBSET Trade
  /\ queue \in Seq(Event)
  /\ snap \in [Trade -> Mark \cup {None}]
  /\ row \in [Trade -> {"none", "open", "closed"}]
  /\ trades \in [Trade -> Mark \cup {None}]
  /\ pc \in {"down", "loop", "place", "sync"}
  /\ placed \in IF pc = "place" THEN Trade ELSE {None}
  /\ market \in BOOLEAN
  /\ beat \in 0 .. SyncEvery - 1
  /\ orphaned \in SUBSET Trade
  /\ crashes \in 0 .. MaxCrashes

Listed == {t \in Trade : life[t] = "listed"}
Managed == {t \in Trade : trades[t] # None}
Nobody == [t \in Trade |-> None]

\* profit_pip: a BUY is valued at the bid, a SELL at the ask. pip() tests
\* "if price", so a difference of exactly zero returns the pip unit itself, a
\* tiny positive number, instead of zero pips.
ProfitPip(t, bid) ==
  LET profit == IF Terms[t].side = "BUY"
                THEN bid - Terms[t].open_price
                ELSE Terms[t].open_price - (bid + Spread)
  IN IF profit = 0 THEN 1 ELSE ZeroPip * profit

\* process_trade: the marks of a trade after a tick that values it at pips.
Marked(m, pips) ==
  [max |-> IF pips > m.max THEN pips ELSE m.max,
   min |-> IF pips < m.min THEN pips ELSE m.min,
   profitable |-> pips >= 0]

\* Mutants of Adopted: one that drops the test "not in self.trades", and one
\* that inverts it.
AdoptedAnew(S) ==
  [t \in Trade |-> IF t \in S THEN Fresh ELSE trades[t]]
AdoptedInverted(S) ==
  [t \in Trade |-> IF t \in S /\ trades[t] # None THEN Fresh ELSE trades[t]]

\* _load_trade for every trade of S that self.trades lacks.
Adopted(S) ==
  [t \in Trade |-> IF t \in S /\ trades[t] = None THEN Fresh ELSE trades[t]]

\* Mutants of Matched: one that looks the string key up among the integer ids, so
\* that every entry is popped, and one that pops nothing.
MatchedByString == Nobody
MatchedKeeping == Adopted(Listed)

\* Add what the account lists and pop what it does not.
Matched == [t \in Trade |-> IF t \in Listed THEN Adopted(Listed)[t] ELSE None]

\* The entries of S that the snapshot also has take the snapshot's marks back.
Restored(book, S) ==
  [t \in Trade |-> IF t \in S /\ book[t] # None /\ snap[t] # None
                   THEN snap[t] ELSE book[t]]

\* saved_to_redis replaces the whole snapshot.
SavedToRedis(book) == snap' = book /\ orphaned' = {}

\* save_to_db writes a row for every managed trade, but returns from the whole
\* loop at the first one whose row is closed already. The order of the
\* dictionary is not modelled: the trades before that one may be any of them.
Visits(book) ==
  LET entries == {t \in Trade : book[t] # None}
      closed == {t \in entries : row[t] = "closed"}
  IN IF closed = {} THEN {entries} ELSE SUBSET (entries \ closed)

RowsAfter(visited) ==
  [t \in Trade |-> IF t \in visited /\ row[t] = "none" THEN "open" ELSE row[t]]

\* close_trade_to_db fills the close fields only of a row it creates itself: a
\* row that save_to_db made before is saved again without them.
ClosedRow(t) == [row EXCEPT ![t] = IF @ = "none" THEN "closed" ELSE @]

Put(e) == queue' = Append(queue, e)

Pending(type) == {i \in DOMAIN queue : queue[i].type = type}

-----------------------------------------------------------------------------
(* The broker's socket thread and the operator.                            *)

\* The position message of an executed order reaches open_pos.
List(t) ==
  /\ life[t] = "placed"
  /\ life' = [life EXCEPT ![t] = "listed"]
  /\ UNCHANGED <<reported, queue, snap, row, trades, loop, orphaned, crashes>>

\* A trade the program did not open: nothing announces it.
OpenByHand(t) ==
  /\ life[t] = "new"
  /\ life' = [life EXCEPT ![t] = "listed"]
  /\ UNCHANGED <<reported, queue, snap, row, trades, loop, orphaned, crashes>>

\* The broker closed t (stop, limit, operator or program): open_pos drops it.
Delist(t) ==
  /\ life[t] = "listed"
  /\ life' = [life EXCEPT ![t] = "gone"]
  /\ UNCHANGED <<reported, queue, snap, row, trades, loop, orphaned, crashes>>

\* trade_closed: the ClosedPosition record, which may come before or after the
\* position leaves open_pos, or never if the process or its connection is down.
Report(t) ==
  /\ pc # "down"
  /\ life[t] \in {"listed", "gone"}
  /\ t \notin reported
  /\ reported' = reported \cup {t}
  /\ Put([type |-> "ORDER_CLOSE", trade_id |-> t])
  /\ UNCHANGED <<life, snap, row, trades, loop, orphaned, crashes>>

\* tick_data.
Tick(i, bid) ==
  /\ pc # "down"
  /\ Cardinality(Pending("TICK_PRICE")) < MaxTicks
  /\ Put([type |-> "TICK_PRICE", instrument |-> i, bid |-> bid])
  /\ UNCHANGED <<broker, snap, row, trades, loop, orphaned, crashes>>

-----------------------------------------------------------------------------
(* The main thread. Take(type) removes the event that the handler handles; *)
(* an event taken is never put back, whether the handler succeeds or not.  *)

Take(type) ==
  /\ pc = "loop"
  /\ market
  /\ queue # <<>>
  /\ Head(queue).type = type
  /\ queue' = Tail(queue)

HandleTick ==
  /\ Take("TICK_PRICE")
  /\ LET e == Head(queue) IN
       trades' = [t \in Trade |->
                    IF t \in Managed /\ Terms[t].instrument = e.instrument
                    THEN Marked(trades[t], ProfitPip(t, e.bid))
                    ELSE trades[t]]
  /\ UNCHANGED <<broker, snap, row, loop, orphaned, crashes>>

\* A mutant of PlaceOrder whose order the broker has not accepted.
PlaceOrderUnaccepted(t) ==
  /\ pc = "loop"
  /\ market
  /\ life[t] = "new"
  /\ pc' = "place"
  /\ placed' = t
  /\ UNCHANGED <<life, reported, queue, snap, row, trades, market, beat, orphaned,
                 crashes>>

\* The execution handler's order is accepted by the broker; the handler still
\* has to announce it.
PlaceOrder(t) ==
  /\ pc = "loop"
  /\ market
  /\ life[t] = "new"
  /\ life' = [life EXCEPT ![t] = "placed"]
  /\ pc' = "place"
  /\ placed' = t
  /\ UNCHANGED <<reported, queue, snap, row, trades, market, beat, orphaned,
                 crashes>>

\* A mutant of Announce that clears the order before it reads it.
AnnounceCleared ==
  /\ pc = "place"
  /\ pc' = "loop"
  /\ placed' = None
  /\ \/ Put([type |-> "TRADE_OPEN", trade_id |-> placed'])
     \/ UNCHANGED queue
  /\ UNCHANGED <<broker, snap, row, trades, market, beat, orphaned, crashes>>

\* ... and puts the TradeOpenEvent, unless reading the order raised.
Announce ==
  /\ pc = "place"
  /\ pc' = "loop"
  /\ placed' = None
  /\ \/ Put([type |-> "TRADE_OPEN", trade_id |-> placed])
     \/ UNCHANGED queue
  /\ UNCHANGED <<broker, snap, row, trades, market, beat, orphaned, crashes>>

\* trade_open.
HandleOpen ==
  /\ Take("TRADE_OPEN")
  /\ trades' = Adopted({Head(queue).trade_id})
  /\ UNCHANGED <<broker, snap, row, loop, orphaned, crashes>>

\* trade_close, for a trade without an entry: it is logged and forgotten.
HandleUnknownClose ==
  /\ Take("ORDER_CLOSE")
  /\ trades[Head(queue).trade_id] = None
  /\ UNCHANGED <<broker, snap, row, trades, loop, orphaned, crashes>>

\* A mutant of HandleClose without the saved_to_redis after the pop.
HandleCloseUnsaved ==
  /\ Take("ORDER_CLOSE")
  /\ LET t == Head(queue).trade_id IN
       /\ trades[t] # None
       /\ trades[t].max # trades[t].min
       /\ row' = ClosedRow(t)
       /\ trades' = [trades EXCEPT ![t] = None]
  /\ UNCHANGED <<broker, snap, loop, orphaned, crashes>>

\* trade_close: the analysis divides by max - min, then the row is written, the
\* entry popped and the snapshot saved.
HandleClose ==
  /\ Take("ORDER_CLOSE")
  /\ LET t == Head(queue).trade_id IN
       /\ trades[t] # None
       /\ trades[t].max # trades[t].min
       /\ row' = ClosedRow(t)
       /\ trades' = [trades EXCEPT ![t] = None]
  /\ SavedToRedis(trades')
  /\ UNCHANGED <<broker, loop, crashes>>

\* trade_close that raises on the way: max = min (no tick since the trade was
\* adopted), a trade that lasted a whole number of days to the second, or a
\* database error. Only last_profitable_start has changed by then.
CloseFails ==
  /\ Take("ORDER_CLOSE")
  /\ LET t == Head(queue).trade_id IN
       /\ trades[t] # None
       /\ trades' = [trades EXCEPT ![t].profitable = FALSE]
  /\ UNCHANGED <<broker, snap, row, loop, orphaned, crashes>>

\* load_trades, run by a MARKET event, at start-up and when the market closes.
LoadTrades ==
  /\ trades' = Restored(Matched, Trade)
  /\ SavedToRedis(trades')

\* load_trades that raises: the socket thread changed open_pos under the loop
\* that adds, or a trade's age divided by zero in the loop that restores.
LoadAborts ==
  /\ Listed # {}
  /\ \/ \E S \in SUBSET Listed : trades' = Adopted(S) /\ UNCHANGED orphaned
     \/ \E S \in SUBSET Listed : /\ trades' = Restored(Matched, S)
                                 /\ orphaned' = orphaned \cup (Managed \ Listed)
  /\ UNCHANGED snap

HandleMarket ==
  /\ Take("MARKET")
  /\ LoadTrades
  /\ UNCHANGED <<broker, row, loop, crashes>>

MarketFails ==
  /\ Take("MARKET")
  /\ LoadAborts
  /\ UNCHANGED <<broker, row, loop, crashes>>

\* heartbeat up to and including save_to_db.
HandleHeartbeat ==
  /\ Take("HEARTBEAT")
  /\ trades' = Adopted(Listed)
  /\ SavedToRedis(trades')
  /\ LET counter == Head(queue).counter IN
       /\ IF counter % SaveEvery = 0
          THEN \E visited \in Visits(trades') : row' = RowsAfter(visited)
          ELSE UNCHANGED row
       /\ pc' = IF counter % SyncEvery = 0 THEN "sync" ELSE "loop"
  /\ UNCHANGED <<broker, placed, market, beat, crashes>>

\* heartbeat that raises: open_pos changed under the loop, a trade's age divided
\* by zero, or the database failed after some of the rows.
HeartbeatFails ==
  /\ Take("HEARTBEAT")
  /\ Listed \cup Managed # {}
  /\ \/ /\ \E S \in SUBSET Listed : trades' = Adopted(S)
        /\ UNCHANGED <<snap, row, orphaned>>
     \/ /\ Head(queue).counter % SaveEvery = 0
        /\ trades' = Adopted(Listed)
        /\ SavedToRedis(trades')
        /\ \E visited \in Visits(trades') :
             \E some \in SUBSET visited : row' = RowsAfter(some)
  /\ UNCHANGED <<broker, loop, crashes>>

\* sync_trades, after the rest of the heartbeat: open_pos may have changed.
SyncTrades ==
  /\ pc = "sync"
  /\ Listed = {} => Managed = {}
  /\ trades' = Matched
  /\ SavedToRedis(trades')
  /\ pc' = "loop"
  /\ UNCHANGED <<broker, queue, row, placed, market, beat, crashes>>

\* sync_trades that raises: open_pos changed under the first loop, or the account
\* has no open trade at all, so that the log line after the first pop reads the
\* unbound trade_id and the other pops and the snapshot are skipped.
SyncFails ==
  /\ pc = "sync"
  /\ \/ /\ \E S \in SUBSET Listed : S # {} /\ trades' = Adopted(S)
        /\ UNCHANGED orphaned
     \/ /\ Listed = {}
        /\ \E t \in Managed : /\ trades' = [trades EXCEPT ![t] = None]
                              /\ orphaned' = orphaned \cup {t}
  /\ pc' = "loop"
  /\ UNCHANGED <<broker, queue, snap, row, placed, market, beat, crashes>>

-----------------------------------------------------------------------------
(* The runner around the handlers. The loop drains the queue before it     *)
(* sleeps, so what the main thread put itself is gone by then.             *)

Drained == Pending("HEARTBEAT") \cup Pending("MARKET") = {}

\* generate_heartbeat; the loop counts on while the market is closed.
LoopTick ==
  /\ pc = "loop"
  /\ market => Drained
  /\ beat' = (beat + 1) % SyncEvery
  /\ IF market THEN Put([type |-> "HEARTBEAT", counter |-> beat'])
               ELSE UNCHANGED queue
  /\ UNCHANGED <<broker, snap, row, trades, pc, placed, market, orphaned, crashes>>

\* check_market_status: closing is handled on the spot, opening through the queue.
CloseMarket ==
  /\ pc = "loop"
  /\ market
  /\ Drained
  /\ LoadTrades \/ LoadAborts
  /\ market' = FALSE
  /\ UNCHANGED <<broker, queue, row, pc, placed, beat, crashes>>

OpenMarket ==
  /\ pc = "loop"
  /\ ~market
  /\ market' = TRUE
  /\ Put([type |-> "MARKET"])
  /\ UNCHANGED <<broker, snap, row, trades, pc, placed, beat, orphaned, crashes>>

\* The process dies and what it held in memory with it.
Dies ==
  /\ crashes < MaxCrashes
  /\ crashes' = crashes + 1
  /\ pc' = "down"
  /\ placed' = None
  /\ trades' = Nobody
  /\ UNCHANGED <<broker, market, beat, orphaned>>

Crash ==
  /\ pc # "down"
  /\ Dies
  /\ UNCHANGED <<queue, snap, row>>

\* It dies inside a handler: the event is gone from the queue, and what the
\* handler had written so far stays.
CrashInHandler ==
  /\ pc = "loop" /\ market /\ queue # <<>>
  /\ Dies
  /\ queue' = Tail(queue)
  /\ LET e == Head(queue) IN
       \/ UNCHANGED <<snap, row>>
       \/ /\ e.type = "ORDER_CLOSE"
          /\ trades[e.trade_id] # None
          /\ trades[e.trade_id].max # trades[e.trade_id].min
          /\ row' = ClosedRow(e.trade_id)
          /\ UNCHANGED snap
       \/ /\ e.type = "HEARTBEAT"
          /\ snap' = Adopted(Listed)
          /\ \/ UNCHANGED row
             \/ /\ e.counter % SaveEvery = 0
                /\ \E visited \in Visits(snap') :
                     \E some \in SUBSET visited : row' = RowsAfter(some)

\* supervisord starts the process again: __init__ calls load_trades.
Restart ==
  /\ pc = "down"
  /\ pc' = "loop"
  /\ LoadTrades
  /\ market' \in BOOLEAN
  /\ beat' = 0
  /\ UNCHANGED <<broker, queue, row, placed, crashes>>

-----------------------------------------------------------------------------
Init ==
  /\ life = [t \in Trade |-> "new"]
  /\ reported = {}
  /\ queue = <<>>
  /\ snap = Nobody
  /\ row = [t \in Trade |-> "none"]
  /\ trades = Nobody
  /\ pc = "loop"
  /\ placed = None
  /\ market \in BOOLEAN
  /\ beat = 0
  /\ orphaned = {}
  /\ crashes = 0

Broker ==
  \E t \in Trade : List(t) \/ OpenByHand(t) \/ Delist(t) \/ Report(t)

Handle ==
  \/ HandleTick
  \/ HandleOpen
  \/ HandleUnknownClose
  \/ HandleClose
  \/ CloseFails
  \/ HandleMarket
  \/ MarketFails
  \/ HandleHeartbeat
  \/ HeartbeatFails
  \/ SyncTrades
  \/ SyncFails
  \/ Announce

Next ==
  \/ Broker
  \/ \E i \in Instrument, bid \in Bid : Tick(i, bid)
  \/ \E t \in Trade : PlaceOrder(t)
  \/ Handle
  \/ LoopTick
  \/ CloseMarket
  \/ OpenMarket
  \/ Crash
  \/ CrashInHandler
  \/ Restart

Spec == Init /\ [][Next]_vars

\* The main thread and the supervisor keep running, and what fails by accident
\* of timing (open_pos changing under an iteration, an age that is a whole number
\* of days to the second) does not fail every time it is tried. Nothing is
\* assumed of the broker, the operator or the socket thread.
FairSpec ==
  /\ Spec
  /\ WF_vars(Handle)
  /\ WF_vars(LoopTick)
  /\ WF_vars(OpenMarket)
  /\ WF_vars(Restart)
  /\ SF_vars(HandleMarket)
  /\ SF_vars(HandleHeartbeat)
  /\ SF_vars(HandleHeartbeat /\ pc' = "sync")
  /\ SF_vars(SyncTrades)

-----------------------------------------------------------------------------
(* The snapshot in Redis never says more of a managed trade than memory    *)
(* does: restoring from it (load_trades) can lose marks but never invents  *)
(* a profit or a loss the trade did not show. The exceptions are exactly   *)
(* the trades that a failed sync_trades or load_trades popped without      *)
(* reaching saved_to_redis, until the next save.                           *)
SnapshotNeverAhead ==
  \A t \in Trade \ orphaned :
    snap[t] # None /\ trades[t] # None =>
      /\ snap[t].max <= trades[t].max
      /\ snap[t].min >= trades[t].min

(* Every entry of the snapshot belongs to a trade the living manager still *)
(* has, so a later adoption of that trade cannot start from nothing behind *)
(* an old entry; again but for the orphaned ones.                          *)
SnapshotCovered ==
  pc # "down" =>
    \A t \in Trade : snap[t] # None => trades[t] # None \/ t \in orphaned

\* Best and worst profit start at zero and move apart.
AroundZero(book) ==
  \A t \in Trade : book[t] # None => book[t].min <= 0 /\ 0 <= book[t].max

(* What the queue and the main thread say of a trade is so at the broker:  *)
(* an announced or a managed trade was accepted, a queued close reported.  *)
(* The queue outlives the process, so this spans restarts.                 *)
Truthful ==
  /\ \A i \in DOMAIN queue :
       /\ queue[i].type = "TRADE_OPEN" => life[queue[i].trade_id] # "new"
       /\ queue[i].type = "ORDER_CLOSE" => queue[i].trade_id \in reported
  /\ \A t \in Managed \cup reported : life[t] # "new"
  /\ pc = "place" => life[placed] # "new"

(* The two books taken together; inductive with TypeOK.                    *)
Consistent ==
  /\ SnapshotCovered
  /\ SnapshotNeverAhead
  /\ AroundZero(snap)
  /\ AroundZero(trades)
  /\ pc = "down" => Managed = {}

(* While a trade stays managed its best and worst profit only widen, with  *)
(* one exception: load_trades puts back the snapshot's marks over newer    *)
(* ones. So marks that shrink are the snapshot's.                          *)
MarksShrinkOnlyToSnapshot ==
  [][\A t \in Trade :
       (/\ trades[t] # None
        /\ trades'[t] # None
        /\ \/ trades'[t].max < trades[t].max
           \/ trades'[t].min > trades[t].min)
       => trades'[t] = snap[t]]_vars

(* The manager keeps the promises of TradeLedger: no trade the broker      *)
(* still lists and has not reported closed is dropped by a living process, *)
(* no row is closed without a report, and no row changes form.             *)
Ledger == INSTANCE TradeLedger
  WITH alive <- pc # "down",
       known <- {t \in Trade : life[t] # "new"},
       listed <- Listed,
       held <- Managed,
       record <- row

LedgerSpec == Ledger!Spec

(* A trade that stays open at the broker is eventually managed, whoever    *)
(* opened it and whatever event was lost: the heartbeat adopts it.         *)
ListedAdopted ==
  \A t \in Trade : life[t] = "listed" ~> (trades[t] # None \/ life[t] = "gone")

(* A trade that is gone is eventually out of the manager for good, even if *)
(* its close was never reported, was handled before its open, or failed to *)
(* be handled: a sync or a reload sweeps it.                               *)
GoneForGood ==
  \A t \in Trade : life[t] = "gone" ~> [](trades[t] = None)
=============================================================================
