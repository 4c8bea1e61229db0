---------------------------- MODULE CandleClock ----------------------------
(***************************************************************************)
(* TimeFrameTicker (event/handler.py): the handler that turns the passing  *)
(* of time into events. It keeps in memory the start of the running candle *)
(* of every time frame; whenever a tick or a heartbeat is handled it       *)
(* computes them anew, and puts a TimeFrameEvent for each one that moved.  *)
(* Nothing is persisted: a restart takes the running candles as seen, and  *)
(* what began while the process was down, or before an event was handled   *)
(* at last, is announced late, once for several candles, or never.         *)
(*                                                                         *)
(* Time is a counter. A frame of PERIOD_CHOICES lasts Length units; the    *)
(* calendar month has no fixed length and is given by its first days. What *)
(* runs when the model begins may have begun before it.                    *)
(***************************************************************************)
EXTENDS Integers, Sequences, FiniteSetsExt

CONSTANTS
  PeriodChoices,  \* PERIOD_CHOICES: the time frames, in the code's order
  Length,         \* their lengths
  Monday,         \* the start of some week
  MonthStarts,    \* the first days of the months
  MaxNow          \* bound: the last moment of the model

VARIABLES
  now,            \* datetime.utcnow(); the ticker's timezone is 0
  candle_time     \* TimeFrameTicker.candle_time

Time == 0 .. MaxNow
TimeFrame == {PeriodChoices[i] : i \in DOMAIN PeriodChoices}

ASSUME ClockAssumption ==
  /\ MaxNow \in Nat
  /\ PeriodChoices \in Seq(STRING)
  /\ \A tf \in TimeFrame \ {"MN1"} : Length[tf] \in Nat \ {0}
  /\ Monday \in Int
  /\ MonthStarts \subseteq Int /\ \E s \in MonthStarts : s <= 0

TimeFrameEvent ==
  [type : {"TIMEFRAME"}, timeframe : TimeFrame, current : Int, previous : Int]

ClockTypeOK ==
  /\ now \in Time
  /\ candle_time \in [TimeFrame -> Int]

-----------------------------------------------------------------------------
\* get_candle_time: the last Monday and the first of the month for the two long
\* frames; minutes, hours and days are cut down to a multiple of the frame.
CandleTime(t, tf) ==
  CASE tf = "MN1" -> Max({s \in MonthStarts : s <= t})
    [] tf = "W1" -> t - ((t - Monday) % Length[tf])
    [] OTHER -> t - (t % Length[tf])

RunningCandles(t) == [tf \in TimeFrame |-> CandleTime(t, tf)]

\* A mutant of StartClock: no candle counts as seen.
StartClockAtZero == candle_time' = [tf \in TimeFrame |-> 0]

\* __init__ of the ticker.
StartClock == candle_time' = RunningCandles(now)

\* One round of the loop in process, for the time the handler read at its start.
\* put swallows what the queue raises, so the event may be missing from it; the
\* candle counts as announced all the same.
Moved(tf, t) == candle_time[tf] # CandleTime(t, tf)

Announcement(tf, t) ==
  [type |-> "TIMEFRAME", timeframe |-> tf,
   current |-> CandleTime(t, tf), previous |-> candle_time[tf]]

\* A mutant of Advance: the candle is not remembered.
AdvanceForgotten(tf, t) == UNCHANGED candle_time

\* A mutant of Advance: the end of the running candle is remembered.
AdvanceToEnd(tf, t) ==
  candle_time' = [candle_time EXCEPT ![tf] = CandleTime(t, tf) + Length["D1"]]

Advance(tf, t) == candle_time' = [candle_time EXCEPT ![tf] = CandleTime(t, tf)]

Elapse ==
  /\ now < MaxNow
  /\ now' = now + 1
  /\ UNCHANGED candle_time
=============================================================================
