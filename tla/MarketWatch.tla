---------------------------- MODULE MarketWatch ----------------------------
(***************************************************************************)
(* The handlers of the live process that watch the market: the ticker, the *)
(* price density and the price alerts, driven by one queue (main.py,       *)
(* event/runner.py). The queue is a list in Redis; the runner pops an      *)
(* event and runs each subscribed handler in turn, catching whatever it    *)
(* raises. Meanwhile time passes, the operator changes levels and rebuilds *)
(* densities, and the process may die between any two calls to Redis or to *)
(* the messengers; supervisord starts it again and __init__ of each        *)
(* handler runs. What was popped is lost, what is in Redis stays.          *)
(*                                                                         *)
(* An event being handled is the list of the calls still to be made for it.*)
(***************************************************************************)
EXTENDS CandleClock, PriceAlert, PriceDensity

CONSTANTS
  Ticks,        \* the <<bid, ask>> a tick may carry
  QueueMax,     \* bound: no tick or heartbeat comes on top of so many events
  MaxFaults,    \* bound: calls that raise, process deaths
  MaxChanges    \* bound: changes the operator makes

ASSUME WatchAssumption ==
  /\ Ticks \subseteq Price \X Price
  /\ LastMoment = MaxNow
  /\ {QueueMax, MaxFaults, MaxChanges} \subseteq Nat

VARIABLES
  queue,        \* RedisQueue('FXCM')
  todo,         \* the calls still to be made for the event popped last
  faults,       \* faults so far
  changes       \* the operator's changes so far

vars == <<now, candle_time, level, prices, touched, alerts, broken,
          redisVars, update, rebuilds, bookVars, queue, todo, faults, changes>>
clockVars == <<now, candle_time>>

Tick == [type : {"TICK_PRICE"}, instrument : ToSet(Instruments), tick : Ticks]
HeartBeat == [type : {"HEARTBEAT"}, full : BOOLEAN]
Event == Tick \cup HeartBeat \cup TimeFrameEvent

Call == [do : {"frame"}, frame : TimeFrame, at : Time]
          \cup [do : {"count"}, symbol : Symbol]
          \cup [do : {"tell"}, key : Key, tick : Ticks]
          \cup [do : {"reset"}, instrument : ToSet(Instruments)]
          \cup [do : {"drop"}, key : Key]
          \cup [do : {"refresh"}]

IsFrame(e) == e.type = "TIMEFRAME"

(* Every variable stays in its range: no LAST_TIME, no candle the ticker   *)
(* remembers or has announced and no moment it still looks at lies in the  *)
(* future, and only levels and known keys are compared.                    *)
TypeOK ==
  /\ ClockTypeOK
  /\ AlertTypeOK
  /\ DensityTypeOK
  /\ queue \in Seq(Event)
  /\ todo \in Seq(Call)
  /\ \A s \in Symbol : last[s] <= now
  /\ \A tf \in TimeFrame : candle_time[tf] <= now
  /\ \A i \in DOMAIN queue : IsFrame(queue[i]) => queue[i].current <= now
  /\ \A i \in DOMAIN todo : todo[i].do = "frame" => todo[i].at <= now
  /\ faults \in 0 .. MaxFaults
  /\ changes \in 0 .. MaxChanges

Init ==
  /\ now = 0
  /\ candle_time = RunningCandles(0)
  /\ AlertInit
  /\ DensityInit
  /\ queue = <<>>
  /\ todo = <<>>
  /\ faults = 0
  /\ changes = 0

-----------------------------------------------------------------------------
(* The environment.                                                        *)

TimePasses ==
  /\ Elapse
  /\ UNCHANGED <<alertVars, densityVars, queue, todo, faults, changes>>

\* on_tick and generate_heartbeat; a full heartbeat is one the counter singles out.
Arrives(e) ==
  /\ Len(queue) < QueueMax
  /\ queue' = Append(queue, e)
  /\ UNCHANGED <<clockVars, alertVars, densityVars, todo, faults, changes>>

OperatorSets(k, v) ==
  /\ changes < MaxChanges
  /\ level[k] # v
  /\ SetLevel(k, v)
  /\ changes' = changes + 1
  /\ UNCHANGED <<clockVars, densityVars, queue, todo, faults>>

\* The operator runs init_density, which goes on, or ends, beside everything else.
OperatorRebuilds(s) ==
  /\ changes < MaxChanges
  /\ StartRebuild(s, now)
  /\ changes' = changes + 1
  /\ UNCHANGED <<clockVars, alertVars, queue, todo, faults>>

RebuildGoesOn(r) ==
  /\ SaveRebuild(r) \/ StampRebuild(r) \/ EndRebuild(r)
  /\ UNCHANGED <<clockVars, alertVars, queue, todo, faults, changes>>

Fault == faults < MaxFaults /\ faults' = faults + 1

-----------------------------------------------------------------------------
(* The runner.                                                             *)

\* The calls of each handler; one that would only find nothing to do makes none.
Announcing ==
  IF \E tf \in TimeFrame : Moved(tf, now)
  THEN [i \in DOMAIN PeriodChoices |-> [do |-> "frame", frame |-> PeriodChoices[i], at |-> now]]
  ELSE <<>>

Telling(keys, tick) ==
  IF \E i \in DOMAIN keys : Crossed(keys[i], tick)
  THEN [i \in DOMAIN keys |-> [do |-> "tell", key |-> keys[i], tick |-> tick]]
  ELSE <<>>

\* The calls an event leads to, handler by handler.
Calls(e) ==
  CASE e.type = "TICK_PRICE" -> Announcing \o Telling(KeysOf(e.instrument), e.tick)
    [] e.type = "HEARTBEAT" ->
         IF e.full THEN Append(Announcing, [do |-> "refresh"]) ELSE Announcing
    [] e.type = "TIMEFRAME" /\ e.timeframe = "D1" ->
         [i \in DOMAIN Symbols |-> [do |-> "count", symbol |-> Symbols[i]]]
           \o [i \in DOMAIN Instruments |-> [do |-> "reset", instrument |-> Instruments[i]]]
    [] OTHER -> <<>>

Take ==
  /\ todo = <<>>
  /\ queue # <<>>
  /\ todo' = Calls(Head(queue))
  /\ queue' = Tail(queue)
  /\ UNCHANGED <<clockVars, alertVars, densityVars, faults, changes>>

Pending(do) == todo # <<>> /\ Head(todo).do = do

AnnounceFrame ==
  LET c == Head(todo)
  IN  /\ Pending("frame")
      /\ \/ /\ Moved(c.frame, c.at)
            /\ \/ queue' = Append(queue, Announcement(c.frame, c.at)) /\ UNCHANGED faults
               \/ UNCHANGED queue /\ Fault
            /\ Advance(c.frame, c.at)
         \/ ~Moved(c.frame, c.at) /\ UNCHANGED <<candle_time, queue, faults>>
      /\ todo' = Tail(todo)
      /\ UNCHANGED <<now, alertVars, densityVars, changes>>

\* PriceDensityHandler calls update_density for one symbol after the other.
AskLastTime ==
  /\ Pending("count") /\ update = Idle
  /\ AskTime(Head(todo).symbol)
  /\ UNCHANGED <<clockVars, alertVars, queue, todo, faults, changes>>

\* process catches what one symbol raises, and goes on with the next.
ReadCandles ==
  /\ Pending("count") /\ update.phase = "asked"
  /\ \/ ReadSum(now) /\ UNCHANGED <<todo, faults>>
     \/ Abandon /\ todo' = Tail(todo) /\ Fault
  /\ UNCHANGED <<clockVars, alertVars, queue, changes>>

CountCandles ==
  /\ Pending("count") /\ update.phase = "answered"
  /\ Count
  /\ todo' = IF update.answer = {} THEN Tail(todo) ELSE todo
  /\ UNCHANGED <<clockVars, alertVars, queue, faults, changes>>

StampTime ==
  /\ Pending("count") /\ update.phase = "saved"
  /\ Stamp
  /\ todo' = Tail(todo)
  /\ UNCHANGED <<clockVars, alertVars, queue, faults, changes>>

\* What raises in PriceAlertHandler ends its work on the event: it is the last
\* handler with any.
TellLevel ==
  LET c == Head(todo)
  IN  /\ Pending("tell")
      /\ \/ /\ Crossed(c.key, c.tick)
            /\ \/ Tell(c.key) /\ todo' = Tail(todo) /\ UNCHANGED faults
               \/ TellBreaks(c.key) /\ todo' = <<>> /\ Fault
         \/ /\ ~Crossed(c.key, c.tick)
            /\ todo' = Tail(todo)
            /\ UNCHANGED <<alertVars, faults>>
      /\ UNCHANGED <<clockVars, densityVars, queue, changes>>

\* reset_rs, instrument by instrument.
ResetLevels ==
  LET keys == DailyKeys(Head(todo).instrument)
  IN  /\ Pending("reset")
      /\ todo' = [i \in DOMAIN keys |-> [do |-> "drop", key |-> keys[i]]] \o Tail(todo)
      /\ UNCHANGED <<clockVars, alertVars, densityVars, queue, faults, changes>>

DropLevel ==
  /\ Pending("drop")
  /\ Drop(Head(todo).key)
  /\ todo' = IF HasCopy(Head(todo).key) THEN Tail(todo) ELSE <<>>
  /\ UNCHANGED <<clockVars, densityVars, queue, faults, changes>>

RefreshLevels ==
  /\ Pending("refresh")
  /\ UpdatePrice
  /\ todo' = Tail(todo)
  /\ UNCHANGED <<clockVars, densityVars, queue, faults, changes>>

\* The process dies and is started again. The first call of todo may have been
\* made half: the sum is saved and LAST_TIME is not; the alert is out and the
\* level is still there.
Restart ==
  /\ Fault
  /\ Abandon
  /\ StartClock
  /\ prices' = level
  /\ touched' = {}
  /\ \/ UNCHANGED <<alerts, broken>>
     \/ /\ Pending("tell") /\ Crossed(Head(todo).key, Head(todo).tick)
        /\ alerts' = [alerts EXCEPT ![Head(todo).key] = @ + 1]
        /\ broken' = [broken EXCEPT ![Head(todo).key] = @ + 1]
  /\ todo' = <<>>
  /\ UNCHANGED <<now, level, queue, changes>>

Handle == Take \/ AnnounceFrame \/ AskLastTime \/ ReadCandles \/ CountCandles \/ StampTime
            \/ TellLevel \/ ResetLevels \/ DropLevel \/ RefreshLevels

Next ==
  \/ TimePasses
  \/ \E e \in Tick \cup HeartBeat : Arrives(e)
  \/ \E k \in Key, v \in Price \cup {None} : OperatorSets(k, v)
  \/ \E s \in Symbol : OperatorRebuilds(s)
  \/ \E r \in rebuilds : RebuildGoesOn(r)
  \/ Handle
  \/ Restart

Spec == Init /\ [][Next]_vars

\* The runner goes on; heartbeats keep coming, and ticks at every price do, each
\* whenever there is room for it again and again.
Fairness ==
  /\ WF_vars(Handle)
  /\ SF_vars(Arrives([type |-> "HEARTBEAT", full |-> TRUE]))
  /\ \A e \in Tick : SF_vars(Arrives(e))

FairSpec == Spec /\ Fairness

-----------------------------------------------------------------------------
QueueInOrder ==
  /\ \A i \in DOMAIN queue : IsFrame(queue[i]) =>
       /\ queue[i].previous < queue[i].current
       /\ queue[i].current <= candle_time[queue[i].timeframe]
  /\ \A i, j \in DOMAIN queue :
       i < j /\ IsFrame(queue[i]) /\ IsFrame(queue[j]) /\ queue[i].timeframe = queue[j].timeframe
         => queue[i].current <= queue[j].previous

(* The events of a time frame that wait in the queue never overlap and     *)
(* come in order, across restarts too, and none of them is ahead of the    *)
(* ticker, nor the ticker ahead of the time: so no midnight resets the     *)
(* levels twice, and no candle a strategy has seen closing opens again.    *)
CandlesInOrder ==
  QueueInOrder /\ \A tf \in TimeFrame : candle_time[tf] <= CandleTime(now, tf)

(* The handler's copy differs from Redis only where the operator wrote     *)
(* since the last full heartbeat: the code that deletes from both, crashes *)
(* and the half-done reset leave no level behind in one of them.           *)
CopyLagsOnlyBehindOperator ==
  \A k \in Key \ touched :
    IF k \in DOMAIN prices THEN prices[k] = level[k] ELSE level[k] = None

(* A level is told once for each time the operator sets it, plus once for  *)
(* each time the messenger raised or the process died after sending and    *)
(* before the removal; queued ticks beyond the level add nothing.          *)
ToldOnce == \A k \in Key : alerts[k] <= 1 + broken[k]

(* The density holds each candle once: every candle from the first one in  *)
(* it through LAST_TIME is in it, none after, and one is in it twice only  *)
(* if an update or a rebuilding died between its two writes, or the candle *)
(* was still running when the density was built from scratch. A rebuilding *)
(* that died may also have left out candles before LAST_TIME. What a torn  *)
(* update left behind does not count as the first one: an update without a *)
(* LAST_TIME does not go back that far. Nothing is said while a call is    *)
(* between its two writes, nor after two calls worked on the symbol at     *)
(* once; a rebuilding that finds no other at work puts that right.         *)
CountedOnce ==
  \A s \in Symbol \ spoilt, c \in Traded :
    ~(Updating(s) /\ update.phase = "saved") /\ Unstamped(s) = {} =>
      /\ counted[s][c] <= 1 + torn[s][c]
      /\ c > last[s] => counted[s][c] <= torn[s][c]
      /\ (c <= last[s] /\ \E d \in Traded : d < c /\ counted[s][d] > torn[s][d])
           => counted[s][c] > 0 \/ c \in lost[s]

\* The market trades beyond the level, again and again under Fairness.
Beyond(k, v) ==
  \E t \in Ticks : IF k[2] \in ToSet(Resistance) THEN t[1] > v ELSE t[2] < v

(* However long a level the market trades beyond has to wait for a         *)
(* heartbeat, whatever the queue holds and whatever raises, it does not    *)
(* stay: once the handler's copy has it, it is told, unless the operator   *)
(* writes the key again or, for a level of the day, the reset comes first. *)
(* Before the copy has it, the alert of the level it replaced may delete   *)
(* it unheard; only then.                                                  *)
LevelsHeard ==
  \A k \in Key, v \in Price : Beyond(k, v) =>
    /\ []<>(level[k] # v)
    /\ (level[k] = v /\ k \notin touched)
         ~> (alerts[k] > 0 \/ k \in touched \/ (k \in Daily /\ level[k] = None))

(* Whatever was lost, the ticker comes to know the running candles.        *)
ClockCatchesUp == []<>(candle_time = RunningCandles(now))
=============================================================================
