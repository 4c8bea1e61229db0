----------------------------- MODULE Execution -----------------------------
(***************************************************************************)
(* From a strategy's signal to an order: the event loop of the runner      *)
(* (event/runner.py), the strategy that puts signals into the queue        *)
(* (strategy/base.py, strategy/hlhb_trend.py), and the execution handler   *)
(* that turns a signal into a broker order (execution/execution.py,        *)
(* broker/fxcm/account.py get_lots).                                       *)
(*                                                                         *)
(* The handler runs in the main thread, but everything it looks at may     *)
(* change under it: the table of open positions and the last tick price    *)
(* are written by the broker's socket thread, and an order it has placed   *)
(* is not in the table until the broker's message about it arrives. So     *)
(* each of its readings is a step of its own.                              *)
(*                                                                         *)
(* Signals here are what the live strategy sends: market orders to open.   *)
(***************************************************************************)
EXTENDS Integers, Sequences, FiniteSets

CONSTANTS
  Trade,        \* broker trade ids
  Instrument,   \* currency pairs
  Terms,        \* Terms[t]: the instrument and side trade t has if it is opened
  None,         \* no signal in hand
  MaxTrade,     \* max_trade of get_lots
  MaxTried,     \* re-puts of an event before handle_event gives it up
  Lag,          \* bound: own orders still missing from the table of open
                \* positions when the handler turns to the next signal
  MaxSignals,   \* bound: signals waiting in the queue
  MaxCrashes    \* bound: process deaths in a behaviour

Side == {"BUY", "SELL"}
Signal == [instrument : Instrument, side : Side, tried : 0 .. MaxTried + 1]

ASSUME TradeAssumption ==
  /\ IsFiniteSet(Trade)
  /\ Terms \in [Trade -> [instrument : Instrument, side : Side]]
  /\ None \notin Signal
ASSUME BoundAssumption ==
  {MaxTrade, MaxTried, Lag, MaxSignals, MaxCrashes} \subseteq Nat

VARIABLES
  life,     \* life[t]: new, flying (accepted by the broker), listed, gone
  own,      \* trades the program ordered
  spread,   \* spread[i]: what the tick price in Redis says: none, narrow, wide
  queue,    \* the signals waiting in RedisQueue('FXCM')
  pc,       \* the handler: idle, or the reading it is about to make
  signal,   \* the signal in hand
  crashes   \* process deaths so far

vars == <<life, own, spread, queue, pc, signal, crashes>>
handler == <<pc, signal>>

(* Every variable stays in its range, and the handler holds a signal       *)
(* exactly while it is busy: a return or an exception never leaves one.    *)
TypeOK ==
  /\ life \in [Trade -> {"new", "flying", "listed", "gone"}]
  /\ own \in SUBSET Trade
  /\ spread \in [Instrument -> {"none", "narrow", "wide"}]
  /\ queue \in Seq(Signal)
  /\ pc \in {"idle", "exist", "spread", "lots", "order", "announce"}
  /\ IF pc = "idle" THEN signal = None ELSE signal \in Signal
  /\ crashes \in 0 .. MaxCrashes

Listed == {t \in Trade : life[t] = "listed"}
Flying == {t \in Trade : life[t] = "flying"}
Fits(t, s) == Terms[t].instrument = s.instrument /\ Terms[t].side = s.side

-----------------------------------------------------------------------------
(* The broker, its socket thread, the operator.                            *)

\* The position of an accepted order reaches open_pos.
List(t) ==
  /\ life[t] = "flying"
  /\ life' = [life EXCEPT ![t] = "listed"]
  /\ UNCHANGED <<own, spread, queue, handler, crashes>>

OpenByHand(t) ==
  /\ life[t] = "new"
  /\ life' = [life EXCEPT ![t] = "listed"]
  /\ UNCHANGED <<own, spread, queue, handler, crashes>>

\* A position is closed, by whomever.
Delist(t) ==
  /\ life[t] = "listed"
  /\ life' = [life EXCEPT ![t] = "gone"]
  /\ UNCHANGED <<own, spread, queue, handler, crashes>>

\* tick_data stores the tick price.
Quote(i, width) ==
  /\ spread[i] # width
  /\ spread' = [spread EXCEPT ![i] = width]
  /\ UNCHANGED <<life, own, queue, handler, crashes>>

-----------------------------------------------------------------------------
(* The main thread: handle_event and the handlers.                         *)

\* The strategy answers a start-up or an hourly event with a signal for a pair
\* that crosses.
SendSignal(i, side) ==
  /\ pc = "idle"
  /\ Len(queue) < MaxSignals
  /\ queue' = Append(queue, [instrument |-> i, side |-> side, tried |-> 0])
  /\ UNCHANGED <<life, own, spread, handler, crashes>>

\* The runner takes the next event. Lag is what we assume of the broker: how many
\* orders may still be on their way into open_pos by then.
Take ==
  /\ pc = "idle"
  /\ queue # <<>>
  /\ Cardinality(Flying) <= Lag
  /\ pc' = "exist"
  /\ signal' = Head(queue)
  /\ queue' = Tail(queue)
  /\ UNCHANGED <<life, own, spread, crashes>>

\* BaseExecutionHandler.process calls open and returns nothing, whatever open
\* returned.
Processed(result) == FALSE

\* A mutant of Finish that believes open's answer and never gives up.
FinishForever(result) ==
  /\ pc' = "idle"
  /\ signal' = None
  /\ IF result
     THEN queue' = Append(queue, [signal EXCEPT !.tried = @ + 1])
     ELSE UNCHANGED queue

\* handle_event after the last handler: an event whose handler asked for it is put
\* again, unless it was too often.
Finish(result) ==
  /\ pc' = "idle"
  /\ signal' = None
  /\ IF Processed(result) /\ signal.tried <= MaxTried
     THEN queue' = Append(queue, [signal EXCEPT !.tried = @ + 1])
     ELSE UNCHANGED queue

Continue(next) == pc' = next /\ UNCHANGED <<signal, queue>>

\* A mutant of Exists that looks for the opposite side.
ExistsOpposite(s) ==
  \E t \in Listed : Terms[t].instrument = s.instrument /\ Terms[t].side # s.side

\* check_trade_exist.
Exists(s) == \E t \in Listed : Fits(t, s)

CheckExist ==
  /\ pc = "exist"
  /\ IF Exists(signal) THEN Finish(FALSE) ELSE Continue("spread")
  /\ UNCHANGED <<life, own, spread, crashes>>

CheckSpread ==
  /\ pc = "spread"
  /\ CASE spread[signal.instrument] = "none" -> Finish(FALSE)
       [] spread[signal.instrument] = "wide" -> Finish(TRUE)
       [] spread[signal.instrument] = "narrow" -> Continue("lots")
  /\ UNCHANGED <<life, own, spread, crashes>>

\* A mutant of Full with an off-by-one.
FullLate == Cardinality(Listed) > MaxTrade

\* get_lots answers zero once the account has max_trade open trades.
Full == Cardinality(Listed) >= MaxTrade

GetLots ==
  /\ pc = "lots"
  /\ IF Full THEN Finish(FALSE) ELSE Continue("order")
  /\ UNCHANGED <<life, own, spread, crashes>>

\* Reading open_pos or the account raised: process_event logs it, the event is lost.
ReadFails ==
  /\ pc \in {"exist", "lots"}
  /\ Finish(FALSE)
  /\ UNCHANGED <<life, own, spread, crashes>>

\* The broker accepts the order.
Accept(t) ==
  /\ pc = "order"
  /\ life[t] = "new"
  /\ Fits(t, signal)
  /\ life' = [life EXCEPT ![t] = "flying"]
  /\ own' = own \cup {t}
  /\ UNCHANGED <<spread, crashes>>

MarketOrder(t) == Accept(t) /\ Continue("announce")

\* The broker accepted the order, but its answer is lost: open returns.
AnswerLost(t) == Accept(t) /\ Finish(FALSE)

Rejected ==
  /\ pc = "order"
  /\ Finish(FALSE)
  /\ UNCHANGED <<life, own, spread, crashes>>

\* The TradeOpenEvent is put, or reading the trade for it raises; the trade manager
\* takes it from there.
Announce ==
  /\ pc = "announce"
  /\ Finish(FALSE)
  /\ UNCHANGED <<life, own, spread, crashes>>

\* The process dies and is started again: the queue survives, the event in hand
\* does not.
Crash ==
  /\ crashes < MaxCrashes
  /\ crashes' = crashes + 1
  /\ pc' = "idle"
  /\ signal' = None
  /\ UNCHANGED <<life, own, spread, queue>>

-----------------------------------------------------------------------------
Init ==
  /\ life = [t \in Trade |-> "new"]
  /\ own = {}
  /\ spread = [i \in Instrument |-> "none"]
  /\ queue = <<>>
  /\ pc = "idle"
  /\ signal = None
  /\ crashes = 0

Broker ==
  \/ \E t \in Trade : List(t) \/ OpenByHand(t) \/ Delist(t)
  \/ \E i \in Instrument, width \in {"narrow", "wide"} : Quote(i, width)

Open ==
  \/ CheckExist
  \/ CheckSpread
  \/ GetLots
  \/ ReadFails
  \/ \E t \in Trade : MarketOrder(t) \/ AnswerLost(t)
  \/ Rejected
  \/ Announce

Next ==
  \/ Broker
  \/ \E i \in Instrument, side \in Side : SendSignal(i, side)
  \/ Take
  \/ Open
  \/ Crash

Spec == Init /\ [][Next]_vars

-----------------------------------------------------------------------------
\* The program's own trades, on their way or open, and those of one pair and side.
OwnLive == own \cap (Flying \cup Listed)
OwnOf(i, side) == {t \in OwnLive : Terms[t] = [instrument |-> i, side |-> side]}

(* The program never holds more than one trade of a pair and side, but for *)
(* orders that were not yet in the table of open positions when it looked: *)
(* each such order may cost one duplicate.                                 *)
OnePerPair ==
  \A i \in Instrument, side \in Side : Cardinality(OwnOf(i, side)) <= Lag + 1

(* Nor more than max_trade trades in all, with the same exception, though  *)
(* the count is read only once and the order goes out later.               *)
AtMostMaxTrade == Cardinality(OwnLive) <= MaxTrade + Lag

(* What the handler may rely on between its readings, while the table of   *)
(* open positions changes: the strengthening of the two bounds.            *)
Readings ==
  /\ \A t \in own : life[t] # "new"
  /\ pc \in {"exist", "spread", "lots", "order"} => Cardinality(Flying) <= Lag
  /\ pc \in {"spread", "lots", "order"}
       => Cardinality(OwnOf(signal.instrument, signal.side)) <= Lag
  /\ pc = "order" => Cardinality(OwnLive) < MaxTrade + Lag

(* What the comment on the return says: a signal refused for a wide spread *)
(* is pushed back into the queue (execution.py:104), to be tried again.    *)
PushedBack ==
  [][(/\ pc = "spread"
      /\ spread[signal.instrument] = "wide"
      /\ signal.tried <= MaxTried
      /\ crashes' = crashes
      /\ pc' = "idle")
     => \E k \in DOMAIN queue' : queue'[k] = [signal EXCEPT !.tried = @ + 1]]_vars
=============================================================================
