------------------------- MODULE MarketHoursProofs -------------------------
(***************************************************************************)
(* Theorems of MarketHours. TLC steps through every year once; here the    *)
(* lengths of the spells come from what a spell can be at most at each     *)
(* hour of the week, which the calendar keeps step by step.                *)
(***************************************************************************)
EXTENDS MarketHours, TLAPS

Clock == [weekday : 0 .. 6, month : 1 .. 12, day : 1 .. 31, hour : 0 .. 23]

\* The date of the clock exists.
Dated == /\ leap \in BOOLEAN /\ now \in Clock /\ now.day <= MonthDays(now.month)

\* Midnight of the next day.
Midnight(t) == [NextDay(t) EXCEPT !.hour = 0]

LEMMA MonthsDated == \A month \in 1 .. 12 : MonthDays(month) \in 28 .. 31
  <1> SUFFICES ASSUME NEW month \in 1 .. 12
               PROVE  MonthDays(month) \in 28 .. 31
    OBVIOUS
  <1>1. CASE month \in {1, 3, 5, 7, 8, 10, 12}
    BY <1>1 DEF MonthDays
  <1>2. CASE month \in {4, 6, 9, 11}
    BY <1>2 DEF MonthDays
  <1>3. CASE month = 2
    BY <1>3 DEF MonthDays
  <1> QED
    BY <1>1, <1>2, <1>3

\* What tomorrow is.
LEMMA Tomorrow ==
  ASSUME NEW t \in Clock
  PROVE  LET n == NextDay(t)
             last == MonthDays(t.month)
         IN  /\ n = [weekday |-> n.weekday, month |-> n.month, day |-> n.day, hour |-> t.hour]
             /\ n.weekday = (IF t.weekday = 6 THEN 0 ELSE t.weekday + 1)
             /\ n.day = (IF t.day = last THEN 1 ELSE t.day + 1)
             /\ n.month = (IF t.day < last THEN t.month
                           ELSE IF t.month = 12 THEN 1 ELSE t.month + 1)
  <1>1. t = [weekday |-> t.weekday, month |-> t.month, day |-> t.day, hour |-> t.hour]
          /\ t.weekday \in 0 .. 6 /\ t.month \in 1 .. 12
    BY DEF Clock
  <1>2. (t.weekday + 1) % 7 = (IF t.weekday = 6 THEN 0 ELSE t.weekday + 1)
    BY <1>1
  <1>3. (t.month % 12) + 1 = (IF t.month = 12 THEN 1 ELSE t.month + 1)
    BY <1>1
  <1> DEFINE last == MonthDays(t.month)
             weekday == (t.weekday + 1) % 7
             day == IF t.day = last THEN 1 ELSE t.day + 1
             month == IF t.day < last THEN t.month ELSE (t.month % 12) + 1
  <1>4. NextDay(t) = [[[t EXCEPT !.weekday = weekday] EXCEPT !.day = day] EXCEPT !.month = month]
    BY DEF NextDay
  <1> HIDE DEF weekday, day, month
  <1>5. NextDay(t) = [weekday |-> weekday, month |-> month, day |-> day, hour |-> t.hour]
    BY <1>1, <1>4
  <1> QED
    BY <1>2, <1>3, <1>5 DEF weekday, day, month

\* The only date in Holiday that exists is the first of January.
NewYear(t) == t.day = 1 /\ t.month = 1
NewYearsEve(t) == t.day = 31 /\ t.month = 12

LEMMA Holidays ==
  \A t \in Clock : /\ OnHoliday(t) <=> NewYear(t)
                   /\ OnHolidayEve(t) <=> NewYearsEve(t)
  <1> SUFFICES ASSUME NEW t \in Clock
               PROVE  /\ OnHoliday(t) <=> NewYear(t)
                      /\ OnHolidayEve(t) <=> NewYearsEve(t)
    OBVIOUS
  <1>1. t.day \in 1 .. 31 /\ t.month \in 1 .. 12 /\ MonthDays(t.month) \in 28 .. 31
    BY MonthsDated DEF Clock
  <1>2. \A d, m : (\E date \in Holiday : <<d, m>> = date) <=> <<d, m>> = <<1, 1>> \/ <<d, m>> = <<12, 26>>
    BY DEF Holiday
  <1>3. \A d, m : (\E date \in Holiday : <<d, m>> = date) <=> (d = 1 /\ m = 1) \/ (d = 12 /\ m = 26)
    BY <1>2
  <1>4. OnHoliday(t) <=> (t.day = 1 /\ t.month = 1) \/ (t.day = 12 /\ t.month = 26)
    BY <1>3 DEF OnHoliday, On
  <1> DEFINE n == NextDay(t)
  <1>5. OnHolidayEve(t) <=> (n.day = 1 /\ n.month = 1) \/ (n.day = 12 /\ n.month = 26)
    BY <1>3 DEF OnHolidayEve, On
  <1>6. /\ n.day = (IF t.day = MonthDays(t.month) THEN 1 ELSE t.day + 1)
        /\ n.month = (IF t.day < MonthDays(t.month) THEN t.month
                      ELSE IF t.month = 12 THEN 1 ELSE t.month + 1)
    BY Tomorrow
  <1>7. t.month = 12 => MonthDays(t.month) = 31
    BY DEF MonthDays
  <1> HIDE DEF n
  <1> QED
    BY <1>1, <1>4, <1>5, <1>6, <1>7 DEF NewYear, NewYearsEve

\* The calendar, said with dates that exist. It does not depend on the leap year.
OpenAt(t) ==
  \/ t.weekday = Friday /\ t.hour < CloseHour
  \/ t.weekday = Sunday /\ t.hour >= OpenHour
  \/ /\ t.weekday \in 0 .. 3
     /\ NewYearsEve(t) => t.hour < CloseHour
     /\ NewYear(t) => t.hour >= OpenHour

LEMMA Opening == \A t \in Clock : IsMarketOpen(t) <=> OpenAt(t)
  <1> SUFFICES ASSUME NEW t \in Clock
               PROVE  IsMarketOpen(t) <=> OpenAt(t)
    OBVIOUS
  <1>1. t.weekday \in 0 .. 6
    BY DEF Clock
  <1>2. ~(NewYear(t) /\ NewYearsEve(t))
    BY DEF NewYear, NewYearsEve
  <1>3. CASE t.weekday \in 0 .. 3
    <2>1. IsMarketOpen(t) <=> IF OnHolidayEve(t) THEN t.hour < CloseHour
                              ELSE OnHoliday(t) => t.hour >= OpenHour
      BY <1>3 DEF IsMarketOpen, Friday, Saturday, Sunday
    <2>2. IsMarketOpen(t) <=> IF NewYearsEve(t) THEN t.hour < CloseHour
                              ELSE NewYear(t) => t.hour >= OpenHour
      BY <2>1, Holidays
    <2> QED
      BY <1>2, <1>3, <2>2 DEF OpenAt, Friday, Sunday
  <1>4. CASE t.weekday \in 4 .. 6
    BY <1>4 DEF IsMarketOpen, OpenAt, Friday, Saturday, Sunday
  <1> QED
    BY <1>1, <1>3, <1>4

-----------------------------------------------------------------------------
(* The clock.                                                              *)

\* An hour later the day goes on or is over.
LEMMA Later ==
  ASSUME Dated, Tick
  PROVE  /\ now' \in Clock
         /\ \/ /\ now.hour < 23 /\ now'.hour = now.hour + 1
               /\ now'.weekday = now.weekday /\ now'.day = now.day /\ now'.month = now.month
            \/ /\ now.hour = 23 /\ now'.hour = 0
               /\ now'.weekday = (IF now.weekday = 6 THEN 0 ELSE now.weekday + 1)
               /\ now'.day = (IF now.day = MonthDays(now.month) THEN 1 ELSE now.day + 1)
               /\ now'.month = (IF now.day < MonthDays(now.month) THEN now.month
                                ELSE IF now.month = 12 THEN 1 ELSE now.month + 1)
  <1>1. /\ now = [weekday |-> now.weekday, month |-> now.month, day |-> now.day, hour |-> now.hour]
        /\ now.weekday \in 0 .. 6 /\ now.month \in 1 .. 12 /\ now.day \in 1 .. 31
        /\ now.hour \in 0 .. 23 /\ now \in Clock /\ now.day <= MonthDays(now.month)
        /\ MonthDays(now.month) \in 28 .. 31
    BY MonthsDated DEF Dated, Clock
  <1>2. CASE now.hour < 23
    <2>1. now' = [now EXCEPT !.hour = now.hour + 1]
      BY <1>2 DEF Tick
    <2>2. now' = [weekday |-> now.weekday, month |-> now.month, day |-> now.day,
                  hour |-> now.hour + 1]
      BY <1>1, <2>1
    <2> QED
      BY <1>1, <1>2, <2>2 DEF Clock
  <1>3. CASE now.hour = 23
    <2> DEFINE n == NextDay(now)
    <2>1. /\ n = [weekday |-> n.weekday, month |-> n.month, day |-> n.day, hour |-> now.hour]
          /\ n.weekday = (IF now.weekday = 6 THEN 0 ELSE now.weekday + 1)
          /\ n.day = (IF now.day = MonthDays(now.month) THEN 1 ELSE now.day + 1)
          /\ n.month = (IF now.day < MonthDays(now.month) THEN now.month
                        ELSE IF now.month = 12 THEN 1 ELSE now.month + 1)
      BY <1>1, Tomorrow
    <2>2. now' = [n EXCEPT !.hour = 0]
      BY <1>3 DEF Tick
    <2> HIDE DEF n
    <2>3. now' = [weekday |-> n.weekday, month |-> n.month, day |-> n.day, hour |-> 0]
      BY <2>1, <2>2
    <2>4. n.weekday \in 0 .. 6 /\ n.month \in 1 .. 12 /\ n.day \in 1 .. 31
      BY <1>1, <2>1
    <2> QED
      BY <1>3, <2>1, <2>3, <2>4 DEF Clock
  <1> QED
    BY <1>1, <1>2, <1>3

TypeInv == Dated /\ spell \in 0 .. MaxSpell

LEMMA TypeInit == Init => TypeInv
  <1> SUFFICES ASSUME Init
               PROVE  TypeInv
    OBVIOUS
  <1>1. MonthDays(6) = 30
    BY DEF MonthDays
  <1>2. now \in Clock /\ now.day = 1 /\ now.month = 6
    BY DEF Init, Clock
  <1> QED
    BY <1>1, <1>2, SpellAssumption DEF Init, TypeInv, Dated

LEMMA TypeNext == TypeInv /\ [Next]_vars => TypeInv'
  <1>1. ASSUME TypeInv, Tick
        PROVE  TypeInv'
    <2>1. Dated /\ leap \in BOOLEAN /\ now.month \in 1 .. 12 /\ now.day \in 1 .. 31
            /\ now.day <= MonthDays(now.month) /\ MonthDays(now.month) \in 28 .. 31
      BY <1>1, MonthsDated DEF TypeInv, Dated, Clock
    <2>2. leap' \in BOOLEAN /\ (leap' = leap \/ now'.month = 1)
      BY <1>1, <2>1 DEF Tick
    <2>3. spell' \in 0 .. MaxSpell
      BY <1>1, SpellAssumption DEF Tick, TypeInv
    <2>4. now' \in Clock
      BY <1>1, <2>1, Later
    <2>5. now'.month \in 1 .. 12 /\ (now'.day <= MonthDays(now'.month) \/ now'.day = 1)
            /\ now'.day \in 1 .. 31
      <3>1. now'.month \in 1 .. 12 /\ now'.day \in 1 .. 31
        BY <2>4 DEF Clock
      <3>2. now'.month = now.month => MonthDays(now'.month) = MonthDays(now.month)
        OBVIOUS
      <3> QED
        BY <1>1, <2>1, <3>1, <3>2, Later
    <2>6. MonthDays(now'.month) = MonthDays(now.month)'
      BY <2>2 DEF MonthDays
    <2>7. (\A month \in 1 .. 12 : MonthDays(month) \in 28 .. 31)'
      BY MonthsDated, PTL
    <2>8. MonthDays(now.month)' \in 28 .. 31
      BY <2>5, <2>7
    <2> QED
      BY <2>2, <2>3, <2>4, <2>5, <2>6, <2>8 DEF TypeInv, Dated
  <1>2. ASSUME TypeInv, UNCHANGED vars
        PROVE  TypeInv'
    <2>1. now' = now /\ leap' = leap /\ spell' = spell
      BY <1>2 DEF vars
    <2>2. MonthDays(now.month)' = MonthDays(now.month)
      BY <2>1 DEF MonthDays
    <2> QED
      BY <1>2, <2>1, <2>2 DEF TypeInv, Dated
  <1> QED
    BY <1>1, <1>2 DEF Next

-----------------------------------------------------------------------------
(* The spells.                                                             *)

\* The answer a step looks forward to is the one of the next state: the year
\* changes on a day whose successor does not depend on it.
LEMMA Ahead ==
  ASSUME Dated, Dated', Tick
  PROVE  /\ IsMarketOpen(now) <=> OpenAt(now)
         /\ IsMarketOpen(now') <=> OpenAt(now')
         /\ IsMarketOpen(now)' <=> OpenAt(now')
  <1>1. (\A t \in Clock : IsMarketOpen(t) <=> OpenAt(t))'
    BY Opening, PTL
  <1>2. now \in Clock /\ now' \in Clock
    BY DEF Dated
  <1>3. IsMarketOpen(now)' <=> OpenAt(now)'
    BY <1>1, <1>2
  <1>4. OpenAt(now)' <=> OpenAt(now')
    BY DEF OpenAt, NewYear, NewYearsEve
  <1> QED
    BY <1>2, <1>3, <1>4, Opening

\* The hours for which the answer at t can have been what it is. An open spell began
\* on Sunday at the earliest; a closed one on Friday, or on New Year's Eve.
Longest(t) ==
  IF OpenAt(t) THEN IF t.weekday = Sunday THEN t.hour - 22 ELSE 24 * t.weekday + t.hour + 2
  ELSE IF t.weekday = Saturday THEN t.hour + 6
  ELSE IF t.weekday = Sunday THEN t.hour + 30
  ELSE IF t.weekday = Friday \/ NewYearsEve(t) THEN t.hour - 18
  ELSE t.hour + 6

SpellInv == TypeInv /\ spell <= Longest(now)

LEMMA LongestBounded ==
  ASSUME NEW t \in Clock
  PROVE  /\ Longest(t) \in Nat
         /\ IF OpenAt(t) THEN Longest(t) <= 116 ELSE Longest(t) <= 52
  <1>1. t.weekday \in 0 .. 6 /\ t.hour \in 0 .. 23
    BY DEF Clock
  <1>2. ~(NewYear(t) /\ NewYearsEve(t))
    BY DEF NewYear, NewYearsEve
  <1> QED
    BY <1>1, <1>2 DEF Longest, OpenAt, Friday, Saturday, Sunday, CloseHour, OpenHour

\* What a step does to the answer.
LEMMA LongestGrows ==
  ASSUME Dated, Dated', Tick
  PROVE  /\ ~(OpenAt(now) <=> OpenAt(now')) => 1 <= Longest(now')
         /\ (OpenAt(now) <=> OpenAt(now')) => Longest(now) + 1 <= Longest(now')
         /\ OpenAt(now) /\ ~OpenAt(now') =>
              \/ now'.hour = CloseHour
              \/ now'.month = 1 /\ now'.day = 1 /\ now'.weekday = 0 /\ now'.hour = 0
  <1>1. /\ now.weekday \in 0 .. 6 /\ now.month \in 1 .. 12 /\ now.day \in 1 .. 31
        /\ now.hour \in 0 .. 23
    BY DEF Dated, Clock
  <1>2. /\ MonthDays(now.month) \in 28 .. 31 /\ now.day <= MonthDays(now.month)
        /\ now.month = 12 => MonthDays(now.month) = 31
    BY <1>1, MonthsDated DEF Dated, MonthDays
  <1>3. CASE now.hour < 23
    <2>1. /\ now'.hour = now.hour + 1 /\ now'.weekday = now.weekday
          /\ NewYear(now') = NewYear(now) /\ NewYearsEve(now') = NewYearsEve(now)
      BY <1>3, Later DEF NewYear, NewYearsEve
    <2>2. ~(NewYear(now) /\ NewYearsEve(now))
      BY DEF NewYear, NewYearsEve
    <2> QED
      BY <1>1, <1>3, <2>1, <2>2
      DEF Longest, OpenAt, Friday, Saturday, Sunday, CloseHour, OpenHour
  <1>4. CASE now.hour = 23
    <2>1. /\ now'.hour = 0
          /\ now'.weekday = (IF now.weekday = 6 THEN 0 ELSE now.weekday + 1)
          /\ now'.day = (IF now.day = MonthDays(now.month) THEN 1 ELSE now.day + 1)
          /\ now'.month = (IF now.day < MonthDays(now.month) THEN now.month
                           ELSE IF now.month = 12 THEN 1 ELSE now.month + 1)
      BY <1>4, Later
    <2>2. NewYear(now') <=> NewYearsEve(now)
      BY <1>1, <1>2, <2>1 DEF NewYear, NewYearsEve
    <2>3. ~(NewYear(now') /\ NewYearsEve(now'))
      BY DEF NewYear, NewYearsEve
    <2>4. NewYear(now') => now'.month = 1 /\ now'.day = 1
      BY DEF NewYear
    <2> QED
      BY <1>1, <1>4, <2>1, <2>2, <2>3, <2>4
      DEF Longest, OpenAt, Friday, Saturday, Sunday, CloseHour, OpenHour
  <1> QED
    BY <1>1, <1>3, <1>4

\* A prime may be moved inside.
LEMMA LongestLater == Longest(now)' = Longest(now')
  BY DEF Longest, OpenAt, NewYear, NewYearsEve

LEMMA SpellInit == Init => SpellInv
  <1> SUFFICES ASSUME Init
               PROVE  SpellInv
    OBVIOUS
  <1>1. TypeInv
    BY TypeInit
  <1>2. Longest(now) \in Nat
    BY <1>1, LongestBounded DEF TypeInv, Dated
  <1> QED
    BY <1>1, <1>2 DEF Init, SpellInv

LEMMA SpellNext == SpellInv /\ [Next]_vars => SpellInv'
  <1>1. ASSUME SpellInv, Tick
        PROVE  SpellInv'
    <2>1. TypeInv /\ TypeInv' /\ Dated /\ Dated'
      <3>1. TypeInv /\ [Next]_vars
        BY <1>1 DEF SpellInv, Next
      <3> QED
        BY <3>1, TypeNext DEF TypeInv
    <2>2. /\ spell \in Nat /\ spell <= Longest(now)
          /\ Longest(now) \in Nat /\ Longest(now') \in Nat /\ spell' \in Nat
      <3>1. now \in Clock /\ now' \in Clock /\ spell \in Nat /\ spell' \in Nat
        BY <2>1, SpellAssumption DEF TypeInv, Dated
      <3> QED
        BY <1>1, <3>1, LongestBounded DEF SpellInv
    <2>3. CASE ~(OpenAt(now) <=> OpenAt(now'))
      <3>1. IsMarketOpen(now') # IsMarketOpen(now)
        BY <1>1, <2>1, <2>3, Ahead, Zenon
      <3>2. spell' = 1
        BY <1>1, <3>1 DEF Tick
      <3> QED
        BY <1>1, <2>1, <2>3, <3>2, LongestGrows, LongestLater DEF SpellInv
    <2>4. CASE OpenAt(now) <=> OpenAt(now')
      <3>1. spell' <= spell + 1
        BY <1>1, <2>2 DEF Tick
      <3>2. Longest(now) + 1 <= Longest(now')
        BY <1>1, <2>1, <2>4, LongestGrows
      <3>3. spell' <= Longest(now')
        BY <2>2, <3>1, <3>2
      <3> QED
        BY <2>1, <3>3, LongestLater DEF SpellInv
    <2> QED
      BY <2>3, <2>4
  <1>2. SpellInv /\ UNCHANGED vars => SpellInv'
    <2>1. SpellInv /\ UNCHANGED vars => TypeInv'
      BY TypeNext DEF SpellInv
    <2> QED
      BY <2>1 DEF SpellInv, vars, Longest, OpenAt, NewYear, NewYearsEve
  <1> QED
    BY <1>1, <1>2 DEF Next

(* No new year's day joins two closed spells or cuts out a closing: the     *)
(* market is closed for at most 52 hours and open for at most 116.          *)
THEOREM Spells == Spec => []SpellsBounded
  <1>1. SpellInv => SpellsBounded
    <2> SUFFICES ASSUME SpellInv
                 PROVE  SpellsBounded
      OBVIOUS
    <2>1. now \in Clock /\ spell \in Int /\ spell <= Longest(now)
      BY DEF SpellInv, TypeInv, Dated
    <2> QED
      BY <2>1, LongestBounded, Opening DEF SpellsBounded
  <1> QED
    BY <1>1, SpellInit, SpellNext, PTL DEF Spec

(* The market closes at 19:00, but for the midnight after a New Year's Eve  *)
(* on a Sunday.                                                             *)
THEOREM Closes == Spec => ClosesAtCloseHour
  <1>1. TypeInv /\ TypeInv' /\ [Next]_vars =>
          [IsMarketOpen(now) /\ ~IsMarketOpen(now')
             => \/ now'.hour = CloseHour
                \/ now'.month = 1 /\ now'.day = 1 /\ now'.weekday = 0 /\ now'.hour = 0]_vars
    BY Ahead, LongestGrows DEF TypeInv, Next
  <1> QED
    BY <1>1, TypeInit, TypeNext, PTL DEF Spec, ClosesAtCloseHour
=============================================================================
