---------------------------- MODULE MarketHours ----------------------------
(***************************************************************************)
(* The market calendar of utils/market.py, hour by hour through any year.  *)
(* The runner asks is_market_open() every half second to open and close    *)
(* its connection (FXCMStreamRunner.check_market_status); what matters to  *)
(* it is the length of the spells the answers make, so the model counts    *)
(* them.                                                                   *)
(***************************************************************************)
EXTENDS Integers

CONSTANT MaxSpell   \* bound: spells are counted up to here

ASSUME SpellAssumption == MaxSpell \in Nat \ {0}

VARIABLES
  now,      \* the UTC clock: weekday (Monday is 0, as in Python), month, day, hour
  leap,     \* this year has a 29 February
  spell     \* hours for which the answer has been what it is now

vars == <<now, leap, spell>>

Friday == 4
Saturday == 5
Sunday == 6

MonthDays(month) ==
  CASE month \in {1, 3, 5, 7, 8, 10, 12} -> 31
    [] month \in {4, 6, 9, 11} -> 30
    [] month = 2 -> IF leap THEN 29 ELSE 28

\* The same hour of the next day.
NextDay(t) ==
  [t EXCEPT !.weekday = (@ + 1) % 7,
            !.day = IF t.day = MonthDays(t.month) THEN 1 ELSE @ + 1,
            !.month = IF t.day < MonthDays(t.month) THEN @ ELSE (@ % 12) + 1]

CloseHour == 19
OpenHour == 23

\* The pairs of HOLIDAY as they are written, (1, 1) and (12, 26).
Holiday == {<<1, 1>>, <<12, 26>>}

\* A holiday is recognised by comparing the pair with (day, month).
On(t, date) == <<t.day, t.month>> = date

\* A mutant of OnHolidayEve that looks one day too far.
OnHolidayEveEarly(t) == \E date \in Holiday : On(NextDay(NextDay(t)), date)

OnHolidayEve(t) == \E date \in Holiday : On(NextDay(t), date)
OnHoliday(t) == \E date \in Holiday : On(t, date)

\* A mutant of IsMarketOpen that opens again on Sunday at the closing hour.
IsMarketOpenEarly(t) ==
  CASE t.weekday = Saturday -> FALSE
    [] t.weekday = Friday -> t.hour < CloseHour
    [] t.weekday = Sunday -> t.hour >= CloseHour
    [] OTHER -> IF OnHolidayEve(t) THEN t.hour < CloseHour
                ELSE OnHoliday(t) => t.hour >= OpenHour

\* is_market_open: the days of the weekend are answered before any holiday is
\* looked at.
IsMarketOpen(t) ==
  CASE t.weekday = Saturday -> FALSE
    [] t.weekday = Friday -> t.hour < CloseHour
    [] t.weekday = Sunday -> t.hour >= OpenHour
    [] OTHER -> IF OnHolidayEve(t) THEN t.hour < CloseHour
                ELSE OnHoliday(t) => t.hour >= OpenHour

-----------------------------------------------------------------------------
Init ==
  /\ leap \in BOOLEAN
  /\ \E weekday \in 0 .. 6 :
       now = [weekday |-> weekday, month |-> 6, day |-> 1, hour |-> 0]
  /\ spell = 0

\* An hour passes; every new year may be a leap year.
Tick ==
  /\ now' = IF now.hour < 23 THEN [now EXCEPT !.hour = @ + 1]
            ELSE [NextDay(now) EXCEPT !.hour = 0]
  /\ IF now.month = 12 /\ now'.month = 1 THEN leap' \in BOOLEAN ELSE UNCHANGED leap
  /\ spell' = IF IsMarketOpen(now') # IsMarketOpen(now) THEN 1
              ELSE IF spell < MaxSpell THEN spell + 1 ELSE spell

Next == Tick

Spec == Init /\ [][Next]_vars

-----------------------------------------------------------------------------
(* The market is never closed for longer than a weekend, nor open for      *)
(* longer than the 116 hours from Sunday 23:00 to Friday 19:00: no new     *)
(* year's day next to a weekend joins two closed spells or leaves one out. *)
SpellsBounded ==
  IF IsMarketOpen(now) THEN spell <= 116 ELSE spell <= 52

(* The runner closes at 19:00, the hour before the weekend or a holiday,   *)
(* and at no other hour but one: at midnight after a New Year's Eve on a   *)
(* Sunday, when the weekend rule has opened the market at 23:00.           *)
ClosesAtCloseHour ==
  [][IsMarketOpen(now) /\ ~IsMarketOpen(now')
     => \/ now'.hour = CloseHour
        \/ now'.month = 1 /\ now'.day = 1 /\ now'.weekday = 0 /\ now'.hour = 0]_vars

(* The comment on HOLIDAY calls its entries month,date pairs: the market   *)
(* is closed on 1 January and on 26 December until the opening hour.       *)
HolidayClosed ==
  \A date \in Holiday :
    <<now.month, now.day>> = date /\ now.hour < OpenHour => ~IsMarketOpen(now)
=============================================================================
