------------------------- MODULE MarketWatchProofs -------------------------
(***************************************************************************)
(* Theorems of MarketWatch. The copy of the levels that PriceAlertHandler  *)
(* keeps in memory differs from Redis only where the operator wrote since  *)
(* it was renewed: nothing is assumed there of the queue, of the calls     *)
(* that are waiting or of the keys they name. The others follow from one   *)
(* inductive invariant in parts, one for each group of variables, and the  *)
(* lemmas are about what a kind of step does to one part.                  *)
(***************************************************************************)
EXTENDS MarketWatch, WellFoundedInduction, TLAPS

(* The copy of the levels.                                                 *)

\* CopyLagsOnlyBehindOperator is inductive with this beside it: a level can be
\* looked up for every key.
LevelForEveryKey == level = [k \in Key |-> level[k]]

CopyInv == LevelForEveryKey /\ CopyLagsOnlyBehindOperator

-----------------------------------------------------------------------------
\* Renewing the copy, at a start or at a full heartbeat, ends every difference.
LEMMA Renewed ==
  ASSUME CopyInv, prices' = level, touched' = {}, UNCHANGED level
  PROVE  CopyInv'
  BY DEF CopyInv, LevelForEveryKey, CopyLagsOnlyBehindOperator

\* Removing a key from both places ends its difference and makes no other one.
LEMMA Removed ==
  ASSUME CopyInv, NEW k,
         level' = [level EXCEPT ![k] = None],
         prices' = [j \in DOMAIN prices \ {k} |-> prices[j]],
         UNCHANGED touched
  PROVE  CopyInv'
  <1>1. LevelForEveryKey'
    BY DEF CopyInv, LevelForEveryKey
  <1>2. CopyLagsOnlyBehindOperator'
    <2> SUFFICES ASSUME NEW j \in Key \ touched
                 PROVE  IF j \in DOMAIN prices' THEN prices'[j] = level'[j]
                                                ELSE level'[j] = None
      BY DEF CopyLagsOnlyBehindOperator
    <2>1. IF j \in DOMAIN prices THEN prices[j] = level[j] ELSE level[j] = None
      BY DEF CopyInv, CopyLagsOnlyBehindOperator
    <2>2. level'[j] = IF j = k THEN None ELSE level[j]
      BY DEF CopyInv, LevelForEveryKey
    <2> QED
      BY <2>1, <2>2
  <1> QED
    BY <1>1, <1>2 DEF CopyInv

\* What the operator writes is a difference that touched allows for.
LEMMA Written ==
  ASSUME CopyInv, NEW k, NEW v, SetLevel(k, v)
  PROVE  CopyInv'
  <1>1. LevelForEveryKey'
    BY DEF CopyInv, LevelForEveryKey, SetLevel
  <1>2. CopyLagsOnlyBehindOperator'
    <2> SUFFICES ASSUME NEW j \in Key \ touched'
                 PROVE  IF j \in DOMAIN prices' THEN prices'[j] = level'[j]
                                                ELSE level'[j] = None
      BY DEF CopyLagsOnlyBehindOperator
    <2>1. j \in Key \ touched /\ j # k /\ prices' = prices
      BY DEF SetLevel
    <2>2. level'[j] = level[j]
      BY <2>1 DEF CopyInv, LevelForEveryKey, SetLevel
    <2> QED
      BY <2>1, <2>2 DEF CopyInv, CopyLagsOnlyBehindOperator
  <1> QED
    BY <1>1, <1>2 DEF CopyInv

\* A step that touches neither the levels nor the copy.
LEMMA Untouched ==
  ASSUME CopyInv, UNCHANGED <<level, prices, touched>>
  PROVE  CopyInv'
  BY DEF CopyInv, LevelForEveryKey, CopyLagsOnlyBehindOperator

LEMMA CopyInvInit == Init => CopyInv
  BY DEF Init, AlertInit, CopyInv, LevelForEveryKey, CopyLagsOnlyBehindOperator

LEMMA CopyInvNext == CopyInv /\ [Next]_vars => CopyInv'
  <1> SUFFICES ASSUME CopyInv, [Next]_vars
               PROVE  CopyInv'
    OBVIOUS
  <1>1. CASE TimePasses
    BY <1>1, Untouched DEF TimePasses, alertVars
  <1>2. ASSUME NEW e, Arrives(e) PROVE CopyInv'
    BY <1>2, Untouched DEF Arrives, alertVars
  <1>3. ASSUME NEW k, NEW v, OperatorSets(k, v) PROVE CopyInv'
    BY <1>3, Written DEF OperatorSets
  <1>4. ASSUME NEW s, OperatorRebuilds(s) PROVE CopyInv'
    BY <1>4, Untouched DEF OperatorRebuilds, alertVars
  <1>5. CASE Take
    BY <1>5, Untouched DEF Take, alertVars
  <1>6. CASE AnnounceFrame
    BY <1>6, Untouched DEF AnnounceFrame, alertVars
  <1>7. CASE AskLastTime \/ ReadCandles \/ CountCandles
    BY <1>7, Untouched DEF AskLastTime, ReadCandles, CountCandles, alertVars
  <1>8. CASE StampTime
    BY <1>8, Untouched DEF StampTime, alertVars
  <1>9. CASE TellLevel
    <2>1. CASE Tell(Head(todo).key)
      BY <2>1, Removed DEF Tell
    <2>2. CASE TellBreaks(Head(todo).key)
      BY <2>2, Untouched DEF TellBreaks
    <2>3. CASE UNCHANGED alertVars
      BY <2>3, Untouched DEF alertVars
    <2> QED
      BY <1>9, <2>1, <2>2, <2>3 DEF TellLevel
  <1>14. CASE ResetLevels
    BY <1>14, Untouched DEF ResetLevels, alertVars
  <1>10. CASE DropLevel
    BY <1>10, Removed DEF DropLevel, Drop
  <1>11. CASE RefreshLevels
    BY <1>11, Renewed DEF RefreshLevels, UpdatePrice
  <1>12. CASE Restart
    BY <1>12, Renewed DEF Restart
  <1>13. CASE UNCHANGED vars
    BY <1>13, Untouched DEF vars
  <1>15. ASSUME NEW r, RebuildGoesOn(r) PROVE CopyInv'
    BY <1>15, Untouched DEF RebuildGoesOn, alertVars
  <1> QED
    BY <1>1, <1>2, <1>3, <1>4, <1>5, <1>6, <1>7, <1>8, <1>9, <1>10, <1>11, <1>12, <1>13, <1>14,
       <1>15
    DEF Next, Handle

(* The copy of the levels in PriceAlertHandler (event/handler.py) lags      *)
(* behind Redis only where the operator wrote since the last full           *)
(* heartbeat, for any pairs, levels, prices and any number of faults.       *)
THEOREM CopyCorrect == Spec => []CopyLagsOnlyBehindOperator
  <1>1. CopyInv => CopyLagsOnlyBehindOperator
    BY DEF CopyInv
  <1> QED
    BY <1>1, CopyInvInit, CopyInvNext, PTL DEF Spec

-----------------------------------------------------------------------------
(* The inductive invariant of the others.                                  *)

\* No candle is known before it began.
TickerBehind ==
  \A tf \in TimeFrame, t \in Time : now = t => candle_time[tf] <= CandleTime(t, tf)

\* The ticker works off its frames for one moment, and none of them has run ahead
\* of it.
FramesCurrent ==
  /\ \A i \in DOMAIN todo, tf \in TimeFrame, t \in Time :
       todo[i].do = "frame" /\ todo[i].frame = tf /\ todo[i].at = t
         => t <= now /\ candle_time[tf] <= CandleTime(t, tf)
  /\ \A i, j \in DOMAIN todo :
       todo[i].do = "frame" /\ todo[j].do = "frame" => todo[i].at = todo[j].at

\* An answer goes on from LAST_TIME: its candles come after it, and it leaves out
\* none between two of them, nor between LAST_TIME and them.
Follows(s, S) ==
  /\ S \subseteq Traded
  /\ \A c \in S : last[s] < c
  /\ \A c \in Traded \ S, e \in S :
       c < e => /\ \A d \in S : c < d
                /\ last[s] # Never => c <= last[s]

AnswerKnown ==
  update.phase \in {"answered", "saved"} =>
    /\ update.answer \subseteq Traded
    /\ \A c \in update.answer : c <= now
    /\ update.phase = "saved" => update.answer # {}

\* What update_density has read is still so, unless two calls worked on the symbol.
UpdateInv ==
  \A s \in Symbol \ spoilt : Updating(s) =>
    /\ Unstamped(s) = {}
    /\ update.phase = "asked" => update.from = last[s]
    /\ update.phase = "answered" => update.sum = counted[s]
    /\ update.phase \in {"answered", "saved"} => Follows(s, update.answer)
    /\ update.phase = "saved" => \A c \in update.answer : counted[s][c] > 0

\* A rebuilding between its two writes, alone on its symbol: the sum holds every
\* candle before its start once and none after.
RebuildInv ==
  /\ \A r \in rebuilds : r.at <= now
  /\ \A r \in rebuilds : r.saved /\ r.symbol \notin spoilt =>
       /\ Unstamped(r.symbol) = {r}
       /\ \A c \in Traded : /\ counted[r.symbol][c] <= 1
                            /\ c < r.at => counted[r.symbol][c] = 1
                            /\ c > r.at => counted[r.symbol][c] = 0

InHand(s, c) == Updating(s) /\ update.phase = "saved" /\ c \in update.answer

\* CountedOnce, during an update too: candle by candle of its answer.
CountInv ==
  \A s \in Symbol \ spoilt, c \in Traded : Unstamped(s) = {} =>
    /\ counted[s][c] <= 1 + torn[s][c]
    /\ c > last[s] => counted[s][c] <= torn[s][c] \/ InHand(s, c)
    /\ \A d \in Traded :
         c <= last[s] /\ d < c /\ counted[s][d] > torn[s][d]
           => counted[s][c] > 0 \/ c \in lost[s]

\* Either every alert for a key has been answered for, or one more is out and the
\* level is gone from Redis and from the copy.
ToldInv ==
  \A k \in Key :
    \/ alerts[k] <= broken[k]
    \/ /\ alerts[k] = broken[k] + 1
       /\ level[k] = None
       /\ k \in DOMAIN prices => prices[k] = None

\* The parts of the inductive invariant, by the variables they speak of.
ClockPart ==
  ClockTypeOK /\ queue \in Seq(Event) /\ QueueInOrder /\ TickerBehind
TodoPart == todo \in Seq(Call) /\ FramesCurrent
AlertPart == AlertTypeOK /\ ToldInv
DensityPart ==
  /\ DensityTypeOK
  /\ \A s \in Symbol : last[s] <= now
  /\ AnswerKnown
  /\ UpdateInv
  /\ RebuildInv
  /\ CountInv
CounterPart == faults \in 0 .. MaxFaults /\ changes \in 0 .. MaxChanges

MarketInv == ClockPart /\ TodoPart /\ AlertPart /\ DensityPart /\ CounterPart

-----------------------------------------------------------------------------
(* Time.                                                                   *)

\* A non-empty set of integers with an upper bound has a last element.
LEMMA LastExists ==
  ASSUME NEW n \in Int, NEW S \in SUBSET Int, S # {}, \A x \in S : x <= n
  PROVE  \E x \in S : \A y \in S : y <= x
<1> DEFINE T == {n - x : x \in S}
<1>1. T \subseteq Nat
  <2> SUFFICES ASSUME NEW x \in S PROVE n - x \in Nat
    OBVIOUS
  <2>1. x \in Int /\ x <= n
    OBVIOUS
  <2> QED  BY <2>1
<1>2. T # {}
  OBVIOUS
<1>3. \E t \in T : \A u \in T : <<u, t>> \notin OpToRel(<, Nat)
  <2> HIDE DEF T
  <2> QED  BY <1>1, <1>2, NatLessThanWellFounded, WFMin
<1>4. PICK t \in T : \A u \in T : <<u, t>> \notin OpToRel(<, Nat)
  BY <1>3
<1>5. \A u \in T : t <= u
  <2>1. \A u \in T : ~(u < t)
    BY <1>4, <1>1 DEF OpToRel
  <2> HIDE DEF T
  <2> QED  BY <2>1, <1>1
<1>6. PICK x \in S : t = n - x
  OBVIOUS
<1>7. \A y \in S : y <= x
  <2> SUFFICES ASSUME NEW y \in S PROVE y <= x
    OBVIOUS
  <2>1. n - x <= n - y
    BY <1>5, <1>6
  <2>2. x \in Int /\ y \in Int
    BY <1>6
  <2> QED  BY <2>1, <2>2
<1> QED  BY <1>7

\* Cutting down to a multiple is monotone.
LEMMA CutMonotone ==
  ASSUME NEW L \in Nat \ {0}, NEW t \in Int, NEW u \in Int, t <= u
  PROVE  t - (t % L) <= u - (u % L)
<1> DEFINE q == t \div L
           r == u \div L
<1>1. t = L * q + (t % L) /\ t % L \in 0 .. L - 1 /\ q \in Int
  OBVIOUS
<1>2. u = L * r + (u % L) /\ u % L \in 0 .. L - 1 /\ r \in Int
  OBVIOUS
<1> HIDE DEF q, r
<1>3. q <= r
  <2> SUFFICES ASSUME r + 1 <= q PROVE FALSE
    BY <1>1, <1>2
  <2>1. L * (r + 1) <= L * q
    BY <1>1, <1>2
  <2>2. L * (r + 1) = L * r + L
    BY <1>2
  <2> QED  BY <2>1, <2>2, <1>1, <1>2
<1>4. L * q <= L * r
  BY <1>1, <1>2, <1>3
<1>5. \A a, b, x, y \in Int : (t = a + x /\ u = b + y /\ a <= b) => t - x <= u - y
  OBVIOUS
<1> QED  BY <1>1, <1>2, <1>4, <1>5

\* The running candle began by now, and candles follow one another in time.
LEMMA CandleTimeMonotone ==
  ASSUME NEW tf \in TimeFrame, NEW t \in Nat, NEW u \in Nat, t <= u
  PROVE  /\ CandleTime(t, tf) \in Int
         /\ CandleTime(t, tf) <= CandleTime(u, tf)
<1>1. CASE tf = "MN1"
  <2> DEFINE Begun(v) == {s \in MonthStarts : s <= v}
  <2>1. \A v \in Nat : /\ Max(Begun(v)) \in Begun(v)
                       /\ \A s \in Begun(v) : s <= Max(Begun(v))
    <3> SUFFICES ASSUME NEW v \in Nat
                 PROVE  /\ Max(Begun(v)) \in Begun(v)
                        /\ \A s \in Begun(v) : s <= Max(Begun(v))
      OBVIOUS
    <3>1. MonthStarts \subseteq Int
      BY ClockAssumption
    <3>2. PICK s \in MonthStarts : s <= 0
      BY ClockAssumption
    <3>3. s <= v
      BY <3>1, <3>2
    <3>4. Begun(v) \in SUBSET Int /\ Begun(v) # {} /\ \A x \in Begun(v) : x <= v
      BY <3>1, <3>3
    <3>5. v \in Int
      OBVIOUS
    <3>6. \E x \in Begun(v) : \A y \in Begun(v) : y <= x
      <4> HIDE DEF Begun
      <4> QED  BY <3>4, <3>5, LastExists
    <3>7. \E x \in Begun(v) : \A y \in Begun(v) : x >= y
      BY <3>4, <3>6
    <3>8. \A x, y \in Begun(v) : x >= y <=> y <= x
      BY <3>4
    <3> QED  BY <3>7, <3>8 DEF Max
  <2>2. MonthStarts \subseteq Int
    BY ClockAssumption
  <2>4. Begun(t) \subseteq Begun(u) /\ Begun(t) \subseteq Int
    <3>1. \A s \in Int : s <= t => s <= u
      OBVIOUS
    <3> QED  BY <2>2, <3>1
  <2>3. CandleTime(t, tf) = Max(Begun(t)) /\ CandleTime(u, tf) = Max(Begun(u))
    BY <1>1 DEF CandleTime
  <2> HIDE DEF Begun
  <2> QED  BY <2>1, <2>4, <2>3
<1>2. CASE tf = "W1"
  <2>1. Length[tf] \in Nat \ {0} /\ Monday \in Int
    BY <1>2, ClockAssumption
  <2>2. /\ CandleTime(t, tf) = t - ((t - Monday) % Length[tf])
        /\ CandleTime(u, tf) = u - ((u - Monday) % Length[tf])
    BY <1>2 DEF CandleTime
  <2>3. (t - Monday) - ((t - Monday) % Length[tf])
          <= (u - Monday) - ((u - Monday) % Length[tf])
    BY <2>1, CutMonotone
  <2>4. (t - Monday) % Length[tf] \in Int /\ (u - Monday) % Length[tf] \in Int
    BY <2>1
  <2> QED  BY <2>1, <2>2, <2>3, <2>4
<1>3. CASE tf \notin {"MN1", "W1"}
  <2>1. Length[tf] \in Nat \ {0}
    BY <1>3, ClockAssumption
  <2>2. CandleTime(t, tf) = t - (t % Length[tf]) /\ CandleTime(u, tf) = u - (u % Length[tf])
    BY <1>3 DEF CandleTime
  <2>3. t % Length[tf] \in Int /\ u % Length[tf] \in Int
    BY <2>1
  <2> QED  BY <2>1, <2>2, <2>3, CutMonotone
<1> QED  BY <1>1, <1>2, <1>3

-----------------------------------------------------------------------------
\* What a call carries.
LEMMA CallKinds ==
  ASSUME NEW c \in Call
  PROVE  /\ c.do = "frame" => c.frame \in TimeFrame /\ c.at \in Time
         /\ c.do = "count" => c.symbol \in Symbol
         /\ c.do \in {"tell", "drop"} => c.key \in Key
         /\ c.do = "reset" => c.instrument \in ToSet(Instruments)
  BY DEF Call

LEMMA EventKinds ==
  ASSUME NEW e \in Event
  PROVE  /\ IsFrame(e) => /\ e.timeframe \in TimeFrame
                          /\ e.current \in Int /\ e.previous \in Int
         /\ e.type = "TICK_PRICE" => e.instrument \in ToSet(Instruments) /\ e.tick \in Ticks
  BY DEF Event, Tick, HeartBeat, TimeFrameEvent, IsFrame

LEMMA TailOf ==
  ASSUME NEW S, NEW q \in Seq(S), q # <<>>
  PROVE  /\ Head(q) \in S /\ 1 \in DOMAIN q /\ q[1] = Head(q)
         /\ Tail(q) \in Seq(S)
         /\ \A i \in DOMAIN Tail(q) : i + 1 \in DOMAIN q /\ Tail(q)[i] = q[i + 1] /\ i + 1 # 1
  OBVIOUS

LEMMA JoinOf ==
  ASSUME NEW S, NEW p \in Seq(S), NEW q \in Seq(S)
  PROVE  /\ p \o q \in Seq(S)
         /\ \A i \in DOMAIN (p \o q) :
              \/ i \in DOMAIN p /\ (p \o q)[i] = p[i]
              \/ i - Len(p) \in DOMAIN q /\ (p \o q)[i] = q[i - Len(p)]
  OBVIOUS

LEMMA KeysTyped ==
  ASSUME NEW ins \in ToSet(Instruments)
  PROVE  KeysOf(ins) \in Seq(Key) /\ DailyKeys(ins) \in Seq(Key)
<1>1. Resistance \in Seq(STRING) /\ Support \in Seq(STRING)
  BY AlertAssumption
<1> DEFINE R == Resistance \o Support
<1>2. R \in Seq(STRING) /\ \A i \in 1 .. Len(R) : R[i] \in Suffix
  BY <1>1 DEF Suffix, ToSet
<1>3. KeysOf(ins) \in Seq(Key)
  <2>1. KeysOf(ins) = [i \in 1 .. Len(R) |-> <<ins, R[i]>>]
    BY DEF KeysOf
  <2>2. Len(R) \in Nat
    BY <1>2
  <2>3. \A i \in 1 .. Len(R) : <<ins, R[i]>> \in Key
    BY <1>2 DEF Key
  <2> HIDE DEF R
  <2> QED  BY <2>1, <2>2, <2>3
<1>4. DailyKeys(ins) \in Seq(Key)
  <2>0. Last(Resistance) = "R" /\ Last(Support) = "S"
    BY AlertAssumption
  <2>1. /\ Front(Resistance) \in Seq(STRING)
        /\ \A i \in DOMAIN Front(Resistance) :
              i \in DOMAIN Resistance /\ Front(Resistance)[i] = Resistance[i]
    BY <1>1 DEF Front
  <2>2. /\ Front(Support) \in Seq(STRING)
        /\ \A i \in DOMAIN Front(Support) :
              i \in DOMAIN Support /\ Front(Support)[i] = Support[i]
    BY <1>1 DEF Front
  <2>3. /\ \A i \in DOMAIN Resistance : Resistance[i] \in Suffix
        /\ \A i \in DOMAIN Support : Support[i] \in Suffix
    <3>1. \A i \in DOMAIN Resistance : i \in 1 .. Len(R) /\ R[i] = Resistance[i]
      BY <1>1
    <3>2. \A i \in DOMAIN Support : i + Len(Resistance) \in 1 .. Len(R)
                                     /\ R[i + Len(Resistance)] = Support[i]
      BY <1>1
    <3> HIDE DEF R
    <3> QED  BY <1>2, <3>1, <3>2
  <2>4. DailySuffix \in Seq(STRING) /\ \A i \in DOMAIN DailySuffix : DailySuffix[i] \in Suffix
    BY <2>1, <2>2, <2>3, JoinOf DEF DailySuffix
  <2>5. \A i \in DOMAIN DailySuffix : <<ins, DailySuffix[i]>> \in Key
    BY <2>4 DEF Key
  <2> QED  BY <2>4, <2>5 DEF DailyKeys
<1> QED  BY <1>3, <1>4

\* What an event leads to: calls, and frames for this moment.
LEMMA CallsTyped ==
  ASSUME NEW e \in Event, now \in Time
  PROVE  /\ Calls(e) \in Seq(Call)
         /\ \A i \in DOMAIN Calls(e) : Calls(e)[i].do = "frame" => Calls(e)[i].at = now
<1> DEFINE Fresh(q) == /\ q \in Seq(Call)
                       /\ \A i \in DOMAIN q : q[i].do = "frame" => q[i].at = now
<1>1. \A p, q : Fresh(p) /\ Fresh(q) => Fresh(p \o q)
  <2> SUFFICES ASSUME NEW p, NEW q, Fresh(p), Fresh(q)
               PROVE  Fresh(p \o q)
    OBVIOUS
  <2> QED  BY JoinOf
<1>2. Fresh(<<>>)
  OBVIOUS
<1>3. Fresh(Announcing)
  <2>1. PeriodChoices \in Seq(STRING)
    BY ClockAssumption
  <2> DEFINE F == [i \in DOMAIN PeriodChoices |->
                     [do |-> "frame", frame |-> PeriodChoices[i], at |-> now]]
  <2>2. \A i \in DOMAIN PeriodChoices :
          [do |-> "frame", frame |-> PeriodChoices[i], at |-> now] \in Call
    BY DEF Call, TimeFrame
  <2>3. Fresh(F)
    BY <2>1, <2>2
  <2>4. Announcing = F \/ Announcing = <<>>
    BY DEF Announcing
  <2> HIDE DEF Fresh, F
  <2> QED  BY <2>3, <2>4, <1>2
<1>4. Fresh(<<[do |-> "refresh"]>>)
  BY DEF Call
<1>5. CASE e.type = "TICK_PRICE"
  <2>1. KeysOf(e.instrument) \in Seq(Key) /\ e.tick \in Ticks
    BY <1>5, EventKinds, KeysTyped
  <2> DEFINE K == KeysOf(e.instrument)
             F == [i \in DOMAIN K |-> [do |-> "tell", key |-> K[i], tick |-> e.tick]]
  <2>2. Fresh(F)
    <3> HIDE DEF K
    <3>1. K \in Seq(Key)
      BY <2>1 DEF K
    <3>2. \A i \in DOMAIN K : [do |-> "tell", key |-> K[i], tick |-> e.tick] \in Call
      BY <3>1, <2>1 DEF Call
    <3> QED  BY <3>1, <3>2
  <2>3. Telling(K, e.tick) = F \/ Telling(K, e.tick) = <<>>
    BY DEF Telling
  <2>4. Fresh(Telling(K, e.tick))
    <3> HIDE DEF Fresh, F, K
    <3> QED  BY <2>2, <2>3, <1>2
  <2>5. Calls(e) = Announcing \o Telling(K, e.tick)
    BY <1>5 DEF Calls
  <2>6. Fresh(Calls(e))
    <3> HIDE DEF Fresh, F, K
    <3> QED  BY <1>1, <1>3, <2>4, <2>5
  <2> QED  BY <2>6
<1>6. CASE e.type = "HEARTBEAT"
  <2>1. Calls(e) = Announcing \/ Calls(e) = Append(Announcing, [do |-> "refresh"])
    BY <1>6 DEF Calls
  <2>2. Append(Announcing, [do |-> "refresh"]) = Announcing \o <<[do |-> "refresh"]>>
    BY <1>3
  <2>3. Fresh(Calls(e))
    <3> HIDE DEF Fresh
    <3> QED  BY <1>1, <1>3, <1>4, <2>1, <2>2
  <2> QED  BY <2>3
<1>7. CASE e.type = "TIMEFRAME" /\ e.timeframe = "D1"
  <2> DEFINE C == [i \in DOMAIN Symbols |-> [do |-> "count", symbol |-> Symbols[i]]]
             D == [i \in DOMAIN Instruments |->
                     [do |-> "reset", instrument |-> Instruments[i]]]
  <2>1. Symbols \in Seq(STRING) /\ Instruments \in Seq(STRING)
    BY DensityAssumption, AlertAssumption
  <2>2. /\ \A i \in DOMAIN Symbols : [do |-> "count", symbol |-> Symbols[i]] \in Call
        /\ \A i \in DOMAIN Instruments :
             [do |-> "reset", instrument |-> Instruments[i]] \in Call
    BY DEF Call, Symbol, ToSet
  <2>3. Fresh(C) /\ Fresh(D)
    <3>1. Fresh(C)
      BY <2>1, <2>2
    <3>2. Fresh(D)
      BY <2>1, <2>2
    <3> QED  BY <3>1, <3>2
  <2>4. Calls(e) = C \o D
    BY <1>7 DEF Calls
  <2>5. Fresh(Calls(e))
    <3> HIDE DEF Fresh, C, D
    <3> QED  BY <1>1, <2>3, <2>4
  <2> QED  BY <2>5
<1>8. CASE ~(e.type = "TICK_PRICE") /\ ~(e.type = "HEARTBEAT")
           /\ ~(e.type = "TIMEFRAME" /\ e.timeframe = "D1")
  BY <1>8, <1>2 DEF Calls
<1> QED  BY <1>5, <1>6, <1>7, <1>8

-----------------------------------------------------------------------------
(* The calls still to be made.                                             *)

LEMMA TodoKept ==
  ASSUME TodoPart, UNCHANGED <<candle_time, todo>>, now \in Int, now' \in Int, now <= now'
  PROVE  TodoPart'
<1>1. FramesCurrent'
  <2>1. \A t \in Time : t <= now => t <= now'
    BY DEF Time
  <2> QED  BY <2>1 DEF TodoPart, FramesCurrent
<1> QED  BY <1>1 DEF TodoPart

LEMMA TodoEmptied ==
  ASSUME todo' = <<>>
  PROVE  TodoPart'
  BY DEF TodoPart, FramesCurrent

LEMMA TodoShrinks ==
  ASSUME TodoPart, todo # <<>>, todo' = Tail(todo), UNCHANGED <<now, candle_time>>
  PROVE  TodoPart'
<1>1. /\ Tail(todo) \in Seq(Call)
      /\ \A i \in DOMAIN Tail(todo) :
           i + 1 \in DOMAIN todo /\ Tail(todo)[i] = todo[i + 1] /\ i + 1 # 1
  BY TailOf DEF TodoPart
<1>2. FramesCurrent'
  BY <1>1 DEF TodoPart, FramesCurrent
<1> QED  BY <1>1, <1>2 DEF TodoPart

\* A first call makes way for others that carry no frame.
LEMMA TodoExpands ==
  ASSUME TodoPart, todo # <<>>, NEW q \in Seq(Call),
         \A i \in DOMAIN q : q[i].do # "frame",
         todo' = q \o Tail(todo), UNCHANGED <<now, candle_time>>
  PROVE  TodoPart'
<1>1. /\ Tail(todo) \in Seq(Call)
      /\ \A i \in DOMAIN Tail(todo) :
           i + 1 \in DOMAIN todo /\ Tail(todo)[i] = todo[i + 1] /\ i + 1 # 1
  BY TailOf DEF TodoPart
<1>2. /\ todo' \in Seq(Call)
      /\ \A i \in DOMAIN todo' :
           \/ i \in DOMAIN q /\ todo'[i] = q[i]
           \/ i - Len(q) \in DOMAIN Tail(todo) /\ todo'[i] = Tail(todo)[i - Len(q)]
  BY <1>1, JoinOf
<1>3. \A i \in DOMAIN todo' :
        \/ todo'[i].do # "frame"
        \/ \E j \in DOMAIN todo : j # 1 /\ todo'[i] = todo[j]
  <2> SUFFICES ASSUME NEW i \in DOMAIN todo'
               PROVE  \/ todo'[i].do # "frame"
                      \/ \E j \in DOMAIN todo : j # 1 /\ todo'[i] = todo[j]
    OBVIOUS
  <2>1. CASE i \in DOMAIN q /\ todo'[i] = q[i]
    BY <2>1
  <2>2. CASE i - Len(q) \in DOMAIN Tail(todo) /\ todo'[i] = Tail(todo)[i - Len(q)]
    <3> DEFINE m == i - Len(q)
    <3>1. m + 1 \in DOMAIN todo /\ todo'[i] = todo[m + 1] /\ m + 1 # 1
      BY <2>2, <1>1
    <3> QED  BY <3>1
  <2> QED  BY <1>2, <2>1, <2>2
<1>4. FramesCurrent'
  <2>1. \A i \in DOMAIN todo' : todo'[i].do = "frame" => \E j \in DOMAIN todo : todo'[i] = todo[j]
    BY <1>3
  <2>2. \A i \in DOMAIN todo', tf \in TimeFrame, t \in Time :
          todo'[i].do = "frame" /\ todo'[i].frame = tf /\ todo'[i].at = t
            => t <= now /\ candle_time[tf] <= CandleTime(t, tf)
    BY <2>1 DEF TodoPart, FramesCurrent
  <2>3. \A i, j \in DOMAIN todo' :
          todo'[i].do = "frame" /\ todo'[j].do = "frame" => todo'[i].at = todo'[j].at
    <3> SUFFICES ASSUME NEW i \in DOMAIN todo', NEW j \in DOMAIN todo',
                        todo'[i].do = "frame", todo'[j].do = "frame"
                 PROVE  todo'[i].at = todo'[j].at
      OBVIOUS
    <3>1. PICK m \in DOMAIN todo : todo'[i] = todo[m]
      BY <2>1
    <3>2. PICK n \in DOMAIN todo : todo'[j] = todo[n]
      BY <2>1
    <3> QED  BY <3>1, <3>2 DEF TodoPart, FramesCurrent
  <2> QED  BY <2>2, <2>3 DEF FramesCurrent
<1> QED  BY <1>2, <1>4 DEF TodoPart

\* The runner takes an event.
LEMMA TodoTaken ==
  ASSUME ClockPart, NEW e \in Event, todo' = Calls(e), UNCHANGED <<now, candle_time>>
  PROVE  TodoPart'
<1>1. /\ todo' \in Seq(Call)
      /\ \A i \in DOMAIN todo' : todo'[i].do = "frame" => todo'[i].at = now
  <2>1. now \in Time
    BY DEF ClockPart, ClockTypeOK
  <2> QED  BY <2>1, CallsTyped
<1>2. FramesCurrent'
  <2>1. now \in Time /\ now' = now /\ now <= now
    BY DEF ClockPart, ClockTypeOK, Time
  <2>2. \A tf \in TimeFrame : candle_time[tf] <= CandleTime(now, tf)
    BY <2>1 DEF ClockPart, TickerBehind
  <2> QED  BY <1>1, <2>1, <2>2 DEF FramesCurrent
<1> QED  BY <1>1, <1>2 DEF TodoPart

\* The ticker has gone on to the candle of its first frame, and no other frame is
\* for another moment.
LEMMA TodoAdvances ==
  ASSUME TodoPart, todo # <<>>, todo' = Tail(todo), UNCHANGED now,
         candle_time \in [TimeFrame -> Int], NEW tf \in TimeFrame, NEW t \in Time,
         Head(todo).do = "frame", Head(todo).at = t, Advance(tf, t)
  PROVE  TodoPart'
<1>1. /\ Tail(todo) \in Seq(Call) /\ 1 \in DOMAIN todo /\ todo[1] = Head(todo)
      /\ \A i \in DOMAIN Tail(todo) :
           i + 1 \in DOMAIN todo /\ Tail(todo)[i] = todo[i + 1] /\ i + 1 # 1
  BY TailOf DEF TodoPart
<1>2. \A i \in DOMAIN todo' : todo'[i].do = "frame" => todo'[i].at = t
  BY <1>1 DEF TodoPart, FramesCurrent
<1>3. ASSUME NEW i \in DOMAIN todo', NEW f \in TimeFrame, NEW u \in Time,
             todo'[i].do = "frame", todo'[i].frame = f, todo'[i].at = u
      PROVE  u <= now /\ candle_time'[f] <= CandleTime(u, f)
  <2>1. u <= now /\ candle_time[f] <= CandleTime(u, f)
    BY <1>1, <1>3 DEF TodoPart, FramesCurrent
  <2>2. CASE f = tf
    <3>1. candle_time'[f] = CandleTime(u, f)
      BY <1>2, <1>3, <2>2 DEF Advance
    <3>2. CandleTime(u, f) \in Int
      BY CandleTimeMonotone DEF Time
    <3> QED  BY <2>1, <3>1, <3>2
  <2>3. CASE f # tf
    BY <2>1, <2>3 DEF Advance
  <2> QED  BY <2>2, <2>3
<1>4. FramesCurrent'
  BY <1>2, <1>3 DEF FramesCurrent
<1> QED  BY <1>1, <1>4 DEF TodoPart

-----------------------------------------------------------------------------
(* The clock and the queue.                                                *)

LEMMA ClockKept ==
  ASSUME ClockPart, UNCHANGED <<now, candle_time, queue>>
  PROVE  ClockPart'
  BY DEF ClockPart, ClockTypeOK, QueueInOrder, TickerBehind

LEMMA ClockElapses ==
  ASSUME ClockPart, Elapse, UNCHANGED queue
  PROVE  ClockPart'
<1>1. now \in Time /\ now' \in Time /\ now' = now + 1 /\ candle_time' = candle_time
  BY ClockAssumption DEF ClockPart, ClockTypeOK, Elapse, Time
<1>2. TickerBehind'
  <2> SUFFICES ASSUME NEW tf \in TimeFrame, NEW t \in Time, now' = t
               PROVE  candle_time[tf] <= CandleTime(t, tf)
    BY <1>1 DEF TickerBehind
  <2> DEFINE u == t - 1
  <2>1. u \in Time /\ now = u /\ t \in Nat /\ u \in Nat /\ u <= t
    BY <1>1 DEF Time
  <2>2. candle_time[tf] <= CandleTime(u, tf)
    BY <2>1 DEF ClockPart, TickerBehind
  <2>3. /\ CandleTime(u, tf) \in Int /\ CandleTime(t, tf) \in Int
        /\ CandleTime(u, tf) <= CandleTime(t, tf)
    BY <2>1, CandleTimeMonotone
  <2>4. candle_time[tf] \in Int
    BY DEF ClockPart, ClockTypeOK
  <2> QED  BY <2>2, <2>3, <2>4
<1>3. QueueInOrder'
  BY <1>1 DEF ClockPart, QueueInOrder
<1> QED  BY <1>1, <1>2, <1>3 DEF ClockPart, ClockTypeOK

\* What is not about a time frame does not count for the order.
LEMMA QueueGrows ==
  ASSUME ClockPart, NEW e \in Event, ~IsFrame(e), queue' = Append(queue, e),
         UNCHANGED <<now, candle_time>>
  PROVE  ClockPart'
<1>1. /\ queue' \in Seq(Event)
      /\ \A i \in DOMAIN queue' : IsFrame(queue'[i]) => i \in DOMAIN queue /\ queue'[i] = queue[i]
  BY DEF ClockPart
<1>2. QueueInOrder'
  BY <1>1 DEF ClockPart, QueueInOrder, IsFrame
<1> QED  BY <1>1, <1>2 DEF ClockPart, ClockTypeOK, TickerBehind

LEMMA QueueShrinks ==
  ASSUME ClockPart, queue # <<>>, queue' = Tail(queue), UNCHANGED <<now, candle_time>>
  PROVE  ClockPart' /\ Head(queue) \in Event
<1>1. /\ Head(queue) \in Event /\ queue' \in Seq(Event)
      /\ \A i \in DOMAIN queue' : i + 1 \in DOMAIN queue /\ queue'[i] = queue[i + 1]
  BY TailOf DEF ClockPart
<1>2. QueueInOrder'
  <2>1. \A i \in DOMAIN queue' : IsFrame(queue'[i]) =>
          /\ queue'[i].previous < queue'[i].current
          /\ queue'[i].current <= candle_time'[queue'[i].timeframe]
    BY <1>1 DEF ClockPart, QueueInOrder
  <2>2. \A i, j \in DOMAIN queue' :
          i < j /\ IsFrame(queue'[i]) /\ IsFrame(queue'[j])
                /\ queue'[i].timeframe = queue'[j].timeframe
            => queue'[i].current <= queue'[j].previous
    <3> SUFFICES ASSUME NEW i \in DOMAIN queue', NEW j \in DOMAIN queue',
                        i < j, IsFrame(queue'[i]), IsFrame(queue'[j]),
                        queue'[i].timeframe = queue'[j].timeframe
                 PROVE  queue'[i].current <= queue'[j].previous
      OBVIOUS
    <3>1. i + 1 < j + 1
      BY <1>1
    <3> QED  BY <1>1, <3>1 DEF ClockPart, QueueInOrder
  <2> QED  BY <2>1, <2>2 DEF QueueInOrder, IsFrame
<1> QED  BY <1>1, <1>2 DEF ClockPart, ClockTypeOK, TickerBehind

\* The ticker goes on to the candle of one frame and says so, or the queue fails.
LEMMA FrameAnnounced ==
  ASSUME ClockPart, NEW tf \in TimeFrame, NEW t \in Time, UNCHANGED now,
         t <= now, candle_time[tf] <= CandleTime(t, tf), Moved(tf, t), Advance(tf, t),
         queue' = queue \/ queue' = Append(queue, Announcement(tf, t))
  PROVE  ClockPart'
<1> DEFINE new == CandleTime(t, tf)
           e == Announcement(tf, t)
<1>1. now \in Time /\ candle_time \in [TimeFrame -> Int] /\ queue \in Seq(Event)
  BY DEF ClockPart, ClockTypeOK
<1>2. new \in Int
  BY CandleTimeMonotone DEF Time
<1>3. candle_time[tf] < new /\ candle_time[tf] \in Int
  BY <1>1, <1>2 DEF Moved
<1>4. candle_time' = [candle_time EXCEPT ![tf] = new] /\ candle_time' \in [TimeFrame -> Int]
  BY <1>1, <1>2 DEF Advance
<1>5. \A f \in TimeFrame : candle_time[f] <= candle_time'[f]
  BY <1>1, <1>3, <1>4
<1>6. TickerBehind'
  <2> SUFFICES ASSUME NEW f \in TimeFrame, NEW u \in Time, now = u
               PROVE  candle_time'[f] <= CandleTime(u, f)
    BY DEF TickerBehind
  <2>1. CASE f = tf
    <3>1. t \in Nat /\ u \in Nat /\ t <= u
      BY DEF Time
    <3>2. new <= CandleTime(u, tf)
      BY <3>1, CandleTimeMonotone
    <3> QED  BY <2>1, <3>2, <1>1, <1>4
  <2>2. CASE f # tf
    BY <2>2, <1>1, <1>4 DEF ClockPart, TickerBehind
  <2> QED  BY <2>1, <2>2
<1>7. /\ e \in Event /\ e.timeframe = tf /\ e.current = new /\ e.previous = candle_time[tf]
  BY <1>2, <1>3 DEF Announcement, Event, TimeFrameEvent
<1>8. \A i \in DOMAIN queue : IsFrame(queue[i]) =>
        /\ queue[i].previous < queue[i].current
        /\ queue[i].current <= candle_time[queue[i].timeframe]
        /\ queue[i].current <= candle_time'[queue[i].timeframe]
  <2> SUFFICES ASSUME NEW i \in DOMAIN queue, IsFrame(queue[i])
               PROVE  /\ queue[i].previous < queue[i].current
                      /\ queue[i].current <= candle_time[queue[i].timeframe]
                      /\ queue[i].current <= candle_time'[queue[i].timeframe]
    OBVIOUS
  <2>1. queue[i] \in Event
    BY <1>1
  <2>2. queue[i].timeframe \in TimeFrame /\ queue[i].current \in Int
    BY <2>1, EventKinds
  <2>3. /\ queue[i].previous < queue[i].current
        /\ queue[i].current <= candle_time[queue[i].timeframe]
    BY DEF ClockPart, QueueInOrder
  <2>4. /\ candle_time[queue[i].timeframe] <= candle_time'[queue[i].timeframe]
        /\ candle_time[queue[i].timeframe] \in Int
        /\ candle_time'[queue[i].timeframe] \in Int
    BY <2>2, <1>1, <1>4, <1>5
  <2> QED  BY <2>2, <2>3, <2>4
<1>9. CASE queue' = queue
  <2>1. QueueInOrder'
    BY <1>8, <1>9 DEF ClockPart, QueueInOrder
  <2> QED  BY <1>1, <1>4, <1>6, <1>9, <2>1 DEF ClockPart, ClockTypeOK
<1>10. CASE queue' = Append(queue, e)
  <2> HIDE DEF new, e
  <2>1. /\ queue' \in Seq(Event)
        /\ \A i \in DOMAIN queue' :
             \/ i \in DOMAIN queue /\ queue'[i] = queue[i] /\ i <= Len(queue)
             \/ i = Len(queue) + 1 /\ queue'[i] = e
    BY <1>1, <1>7, <1>10
  <2>2. \A i \in DOMAIN queue' : IsFrame(queue'[i]) =>
          /\ queue'[i].previous < queue'[i].current
          /\ queue'[i].current <= candle_time'[queue'[i].timeframe]
    <3> SUFFICES ASSUME NEW i \in DOMAIN queue', IsFrame(queue'[i])
                 PROVE  /\ queue'[i].previous < queue'[i].current
                        /\ queue'[i].current <= candle_time'[queue'[i].timeframe]
      OBVIOUS
    <3>1. CASE i \in DOMAIN queue /\ queue'[i] = queue[i]
      BY <3>1, <1>8
    <3>2. CASE queue'[i] = e
      <4>1. candle_time'[tf] = new
        BY <1>1, <1>4
      <4> QED  BY <3>2, <4>1, <1>2, <1>3, <1>7
    <3> QED  BY <2>1, <3>1, <3>2
  <2>3. \A i, j \in DOMAIN queue' :
          i < j /\ IsFrame(queue'[i]) /\ IsFrame(queue'[j])
                /\ queue'[i].timeframe = queue'[j].timeframe
            => queue'[i].current <= queue'[j].previous
    <3> SUFFICES ASSUME NEW i \in DOMAIN queue', NEW j \in DOMAIN queue',
                        i < j, IsFrame(queue'[i]), IsFrame(queue'[j]),
                        queue'[i].timeframe = queue'[j].timeframe
                 PROVE  queue'[i].current <= queue'[j].previous
      OBVIOUS
    <3>1. i \in DOMAIN queue /\ queue'[i] = queue[i]
      BY <1>1, <2>1
    <3>2. CASE j \in DOMAIN queue /\ queue'[j] = queue[j]
      BY <3>1, <3>2 DEF ClockPart, QueueInOrder
    <3>3. CASE queue'[j] = e
      <4>1. queue[i].current <= candle_time[queue[i].timeframe]
        BY <3>1, <1>8
      <4> QED  BY <3>1, <3>3, <4>1, <1>7
    <3> QED  BY <2>1, <3>2, <3>3
  <2>4. QueueInOrder'
    BY <2>2, <2>3 DEF QueueInOrder, IsFrame
  <2> QED  BY <1>1, <1>4, <1>6, <2>1, <2>4 DEF ClockPart, ClockTypeOK
<1> QED  BY <1>9, <1>10

\* A start takes the running candles as known.
LEMMA ClockStarts ==
  ASSUME ClockPart, StartClock, UNCHANGED <<now, queue>>
  PROVE  ClockPart'
<1>1. now \in Time /\ candle_time \in [TimeFrame -> Int] /\ queue \in Seq(Event)
  BY DEF ClockPart, ClockTypeOK
<1>2. \A tf \in TimeFrame : /\ CandleTime(now, tf) \in Int
                            /\ candle_time[tf] <= CandleTime(now, tf)
                            /\ candle_time'[tf] = CandleTime(now, tf)
  <2>1. now \in Nat /\ now <= now
    BY <1>1 DEF Time
  <2>2. \A tf \in TimeFrame : CandleTime(now, tf) \in Int
    BY <2>1, CandleTimeMonotone
  <2>3. \A tf \in TimeFrame : candle_time[tf] <= CandleTime(now, tf)
    BY <1>1 DEF ClockPart, TickerBehind
  <2> QED  BY <2>2, <2>3 DEF StartClock, RunningCandles
<1>3. candle_time' \in [TimeFrame -> Int]
  BY <1>2 DEF StartClock, RunningCandles
<1>4. TickerBehind'
  <2> SUFFICES ASSUME NEW tf \in TimeFrame, NEW t \in Time, now = t
               PROVE  candle_time'[tf] <= CandleTime(t, tf)
    BY DEF TickerBehind
  <2>1. candle_time'[tf] = CandleTime(t, tf) /\ CandleTime(t, tf) \in Int
    BY <1>2
  <2> QED  BY <2>1
<1>5. QueueInOrder'
  <2>1. \A i \in DOMAIN queue : IsFrame(queue[i]) =>
          queue[i].current <= candle_time'[queue[i].timeframe]
    <3> SUFFICES ASSUME NEW i \in DOMAIN queue, IsFrame(queue[i])
                 PROVE  queue[i].current <= candle_time'[queue[i].timeframe]
      OBVIOUS
    <3>1. queue[i].timeframe \in TimeFrame /\ queue[i].current \in Int
      BY <1>1, EventKinds
    <3>2. queue[i].current <= candle_time[queue[i].timeframe]
      BY DEF ClockPart, QueueInOrder
    <3>3. /\ candle_time[queue[i].timeframe] <= candle_time'[queue[i].timeframe]
          /\ candle_time[queue[i].timeframe] \in Int /\ candle_time'[queue[i].timeframe] \in Int
      BY <1>1, <1>2, <1>3, <3>1
    <3> QED  BY <3>1, <3>2, <3>3
  <2> QED  BY <2>1 DEF ClockPart, QueueInOrder
<1> QED  BY <1>1, <1>3, <1>4, <1>5 DEF ClockPart, ClockTypeOK

-----------------------------------------------------------------------------
(* The levels.                                                             *)

LEMMA AlertKept ==
  ASSUME AlertPart, UNCHANGED alertVars
  PROVE  AlertPart'
  BY DEF AlertPart, AlertTypeOK, ToldInv, alertVars

LEMMA LevelSet ==
  ASSUME AlertPart, NEW k \in Key, NEW v \in Price \cup {None}, SetLevel(k, v)
  PROVE  AlertPart'
  BY DEF AlertPart, AlertTypeOK, ToldInv, SetLevel

\* Only a level that is in the copy is told; when it has been told once more than
\* there were breaks, it is gone from there.
LEMMA LevelTold ==
  ASSUME AlertPart, NEW k \in Key, NEW tick, Crossed(k, tick), Tell(k) \/ TellBreaks(k)
  PROVE  AlertPart'
<1>1. alerts[k] <= broken[k] /\ alerts[k] \in Nat /\ broken[k] \in Nat
  BY DEF AlertPart, AlertTypeOK, ToldInv, Crossed
<1>2. CASE Tell(k)
  <2>1. AlertTypeOK'
    BY <1>1, <1>2 DEF AlertPart, AlertTypeOK, Tell
  <2>2. ToldInv'
    <3> SUFFICES ASSUME NEW j \in Key
                 PROVE  \/ alerts'[j] <= broken[j]
                        \/ /\ alerts'[j] = broken[j] + 1
                           /\ level'[j] = None
                           /\ j \in DOMAIN prices' => prices'[j] = None
      BY <1>2 DEF ToldInv, Tell
    <3>1. CASE j = k
      BY <3>1, <1>1, <1>2 DEF AlertPart, AlertTypeOK, Tell
    <3>2. CASE j # k
      BY <3>2, <1>2 DEF AlertPart, AlertTypeOK, ToldInv, Tell
    <3> QED  BY <3>1, <3>2
  <2> QED  BY <2>1, <2>2 DEF AlertPart
<1>3. CASE TellBreaks(k)
  BY <1>1, <1>3 DEF AlertPart, AlertTypeOK, ToldInv, TellBreaks
<1> QED  BY <1>2, <1>3

LEMMA LevelDropped ==
  ASSUME AlertPart, NEW k \in Key, Drop(k)
  PROVE  AlertPart'
  BY DEF AlertPart, AlertTypeOK, ToldInv, Drop

LEMMA LevelsRenewed ==
  ASSUME AlertPart, prices' = level, touched' = {}, UNCHANGED <<level, alerts, broken>>
  PROVE  AlertPart'
  BY DEF AlertPart, AlertTypeOK, ToldInv

\* The process dies between an alert and the removal of its level.
LEMMA LevelsRenewedLate ==
  ASSUME AlertPart, NEW k \in Key, prices' = level, touched' = {}, UNCHANGED level,
         alerts' = [alerts EXCEPT ![k] = @ + 1],
         broken' = [broken EXCEPT ![k] = @ + 1]
  PROVE  AlertPart'
<1>1. AlertTypeOK'
  BY DEF AlertPart, AlertTypeOK
<1>2. ToldInv'
  BY DEF AlertPart, AlertTypeOK, ToldInv
<1> QED  BY <1>1, <1>2 DEF AlertPart

-----------------------------------------------------------------------------
(* The density.                                                            *)

LEMMA DensityTyped ==
  ASSUME DensityPart
  PROVE  /\ counted \in [Symbol -> Sum] /\ last \in [Symbol -> LastTime]
         /\ torn \in [Symbol -> Sum] /\ lost \in [Symbol -> SUBSET Candle]
         /\ \A s \in Symbol, c \in Candle : counted[s][c] \in Nat /\ torn[s][c] \in Nat
         /\ Traded \subseteq Candle /\ Candle \subseteq Nat
         /\ \A s \in Symbol : last[s] \in Int /\ (last[s] = Never \/ last[s] \in Candle)
         /\ update \in Update
         /\ \A r \in rebuilds : /\ r \in Rebuild /\ r.symbol \in Symbol /\ r.saved \in BOOLEAN
                                /\ r.at \in Candle /\ r.at > 0 /\ r.at - 1 \in Candle
<1>1. /\ counted \in [Symbol -> Sum] /\ last \in [Symbol -> LastTime]
      /\ torn \in [Symbol -> Sum] /\ lost \in [Symbol -> SUBSET Candle]
      /\ update \in Update /\ rebuilds \subseteq Rebuild
  BY DEF DensityPart, DensityTypeOK
<1>2. Traded \subseteq Candle /\ Candle \subseteq Nat /\ LastMoment \in Nat
  BY DensityAssumption DEF Candle
<1>3. \A s \in Symbol, c \in Candle : counted[s][c] \in Nat /\ torn[s][c] \in Nat
  BY <1>1 DEF Sum
<1>4. \A s \in Symbol : last[s] \in Int /\ (last[s] = Never \/ last[s] \in Candle)
  <2>1. \A x \in LastTime : x = Never \/ x \in Candle
    BY DEF LastTime
  <2>2. Never \in Int /\ \A x \in Candle : x \in Int
    BY <1>2 DEF Never
  <2> QED  BY <1>1, <2>1, <2>2
<1>5. \A r \in Rebuild : /\ r.symbol \in Symbol /\ r.saved \in BOOLEAN
                         /\ r.at \in Candle /\ r.at > 0 /\ r.at - 1 \in Candle
  BY <1>2 DEF Rebuild, Candle
<1> QED  BY <1>1, <1>2, <1>3, <1>4, <1>5

\* What an update carries.
LEMMA UpdateKinds ==
  ASSUME NEW u \in Update
  PROVE  /\ u.phase = "idle" <=> u = Idle
         /\ u # Idle => u.symbol \in Symbol
         /\ u.phase = "answered" => u.sum \in Sum
         /\ u.phase \in {"answered", "saved"} => u.answer \subseteq Candle
         /\ u.phase = "asked" => u.from \in LastTime
  BY DEF Update, Idle

\* As time passes and other handlers work.
LEMMA DensityKept ==
  ASSUME DensityPart, UNCHANGED densityVars, now \in Time, now' \in Time, now <= now'
  PROVE  DensityPart'
<1>1. \A c \in Int : c <= now => c <= now'
  BY DEF Time
<1>2. Traded \subseteq Int /\ \A s \in Symbol : last[s] \in Int
  BY DensityTyped DEF DensityPart
<1>3. \A r \in rebuilds : r.at \in Int
  BY DensityTyped
<1>4. UNCHANGED <<counted, last, update, rebuilds, torn, lost, spoilt>>
  BY DEF densityVars, redisVars, bookVars
<1>5. DensityTypeOK' /\ \A s \in Symbol : last'[s] <= now'
  BY <1>1, <1>2, <1>4 DEF DensityPart, DensityTypeOK
<1>6. AnswerKnown'
  BY <1>1, <1>2, <1>4 DEF DensityPart, AnswerKnown
<1>7. UpdateInv'
  BY <1>4 DEF DensityPart, UpdateInv, Updating, Unstamped, Follows
<1>8. RebuildInv'
  BY <1>1, <1>3, <1>4 DEF DensityPart, RebuildInv, Unstamped
<1>9. CountInv'
  BY <1>4 DEF DensityPart, CountInv, InHand, Updating, Unstamped
<1> QED  BY <1>5, <1>6, <1>7, <1>8, <1>9 DEF DensityPart

\* A set of candles has a latest one.
LEMMA LatestExists ==
  ASSUME NEW S \in SUBSET Candle, S # {}
  PROVE  Latest(S) \in S /\ \A c \in S : c <= Latest(S)
<1>1. LastMoment \in Int /\ S \in SUBSET Int /\ \A c \in S : c <= LastMoment
  BY DensityAssumption DEF Candle
<1>2. \E c \in S : \A d \in S : d <= c
  BY <1>1, LastExists
<1> QED  BY <1>2 DEF Latest

\* A further answer: it begins after LAST_TIME, or where the number of candles one
\* request gets begins, and has all that is traded up to now, but for now.
LEMMA AnswerShape ==
  ASSUME NEW from \in LastTime, NEW t \in Time,
         NEW S \in {Answer(from, t), Answer(from, t) \ {t}}
  PROVE  /\ S \subseteq Traded
         /\ \A c \in S : from < c /\ c <= t
         /\ \A c \in Traded \ S, e \in S :
              c < e => /\ \A d \in S : c < d
                       /\ from # Never => c <= from
<1>1. Traded \subseteq 0 .. LastMoment /\ LastMoment \in Nat /\ MaxCandles \in Nat
  BY DensityAssumption DEF Candle
<1>2. t \in Nat
  BY DEF Time
<1>3. \A c \in Traded : c \in Nat
  BY <1>1
<1>4. CASE from # Never
  <2>1. from \in Nat
    BY <1>1, <1>4 DEF Candle, LastTime
  <2>2. Answer(from, t) = {c \in Traded : from < c /\ c <= t}
    BY <1>4 DEF Answer
  <2>3. S \subseteq Traded /\ \A c \in S : from < c /\ c <= t
    BY <2>2
  <2>4. \A c \in Traded \ S, e \in S : c < e => c <= from
    <3> SUFFICES ASSUME NEW c \in Traded \ S, NEW e \in S, c < e
                 PROVE  c <= from
      OBVIOUS
    <3>1. e <= t /\ c \in Nat /\ e \in Nat
      BY <2>3, <1>3
    <3>2. c <= t /\ c # t
      BY <3>1, <1>2
    <3>3. ~(from < c)
      BY <2>2, <3>2
    <3> QED  BY <2>1, <3>1, <3>3
  <2>5. \A c \in Traded \ S, e \in S : c < e => \A d \in S : c < d
    <3> SUFFICES ASSUME NEW c \in Traded \ S, NEW e \in S, c < e, NEW d \in S
                 PROVE  c < d
      OBVIOUS
    <3>1. c <= from /\ from < d
      BY <2>3, <2>4
    <3>2. c \in Nat /\ d \in Nat
      BY <2>3, <1>3
    <3> QED  BY <2>1, <3>1, <3>2
  <2> QED  BY <2>3, <2>4, <2>5
<1>5. CASE from = Never
  <2>1. Answer(from, t) = {c \in Traded : t - MaxCandles < c /\ c <= t}
    BY <1>5 DEF Answer
  <2>2. S \subseteq Traded /\ \A c \in S : t - MaxCandles < c /\ c <= t
    BY <2>1
  <2>3. \A c \in S : from < c
    BY <2>2, <1>3, <1>5 DEF Never
  <2>4. \A c \in Traded \ S, e \in S : c < e => \A d \in S : c < d
    <3> SUFFICES ASSUME NEW c \in Traded \ S, NEW e \in S, c < e, NEW d \in S
                 PROVE  c < d
      OBVIOUS
    <3>1. e <= t /\ c \in Nat /\ e \in Nat /\ d \in Nat /\ t - MaxCandles < d
      BY <2>2, <1>3
    <3>2. c <= t /\ c # t
      BY <3>1, <1>2
    <3>3. ~(t - MaxCandles < c)
      BY <2>1, <3>2
    <3> QED  BY <1>1, <1>2, <3>1, <3>3
  <2> QED  BY <2>2, <2>3, <2>4, <1>5
<1> QED  BY <1>4, <1>5

\* One more of each candle of S.
LEMMA PlusOf ==
  ASSUME NEW f \in Sum, NEW S
  PROVE  /\ Plus(f, S) \in Sum
         /\ \A c \in Candle : Plus(f, S)[c] = IF c \in S THEN f[c] + 1 ELSE f[c]
  BY DEF Plus, Sum

\* update_density reads LAST_TIME; if a rebuilding is between its writes, the
\* symbol is spoilt.
LEMMA TimeAsked ==
  ASSUME DensityPart, UNCHANGED now, NEW s \in Symbol, update = Idle, AskTime(s)
  PROVE  DensityPart'
<1>1. /\ UNCHANGED <<counted, last, rebuilds, torn, lost>>
      /\ update' = [phase |-> "asked", symbol |-> s, from |-> last[s]]
      /\ spoilt' = IF Unstamped(s) # {} THEN spoilt \cup {s} ELSE spoilt
  BY DEF AskTime, redisVars
<1>2. \A z : Unstamped(z)' = Unstamped(z)
  BY <1>1 DEF Unstamped
<1>3. DensityTypeOK' /\ \A z \in Symbol : last'[z] <= now'
  BY <1>1, DensityTyped DEF DensityPart, DensityTypeOK, Update
<1>4. AnswerKnown'
  BY <1>1 DEF AnswerKnown
<1>5. UpdateInv'
  <2> SUFFICES ASSUME NEW z \in Symbol \ spoilt', Updating(z)'
               PROVE  Unstamped(z) = {} /\ update'.from = last'[z]
    BY <1>1, <1>2 DEF UpdateInv
  <2>1. z = s
    BY <1>1 DEF Updating
  <2> QED  BY <1>1, <2>1
<1>6. RebuildInv'
  BY <1>1, <1>2 DEF DensityPart, RebuildInv
<1>7. CountInv'
  <2>1. \A z, c : InHand(z, c) => FALSE
    BY DEF InHand, Updating
  <2> QED  BY <1>1, <1>2, <2>1 DEF DensityPart, CountInv
<1> QED  BY <1>3, <1>4, <1>5, <1>6, <1>7 DEF DensityPart

\* It reads the sum, and the broker answers what follows LAST_TIME.
LEMMA SumRead ==
  ASSUME DensityPart, now \in Time, UNCHANGED now, update.phase = "asked", ReadSum(now)
  PROVE  DensityPart'
<1>1. UNCHANGED <<counted, last, rebuilds, torn, lost, spoilt>>
  BY DEF ReadSum, redisVars, bookVars
<1>2. PICK S \in {Answer(update.from, now), Answer(update.from, now) \ {now}} :
        update' = [phase |-> "answered", symbol |-> update.symbol,
                   sum |-> counted[update.symbol], answer |-> S]
  BY DEF ReadSum
<1>3. update.symbol \in Symbol /\ update.from \in LastTime /\ update # Idle
  BY DensityTyped, UpdateKinds DEF Idle
<1>4. /\ S \subseteq Traded
      /\ \A c \in S : update.from < c /\ c <= now
      /\ \A c \in Traded \ S, e \in S :
           c < e => /\ \A d \in S : c < d
                    /\ update.from # Never => c <= update.from
  BY <1>3, AnswerShape
<1> DEFINE y == update.symbol
           h == counted[update.symbol]
<1>5. update' = [phase |-> "answered", symbol |-> y, sum |-> h, answer |-> S]
  BY <1>2
<1>6. y \in Symbol /\ h \in Sum /\ S \in SUBSET Candle
  BY <1>3, <1>4, DensityTyped
<1>7. update' \in Update
  <2> HIDE DEF y, h
  <2> QED  BY <1>5, <1>6 DEF Update
<1>8. DensityTypeOK' /\ \A z \in Symbol : last'[z] <= now'
  BY <1>1, <1>7 DEF DensityPart, DensityTypeOK
<1>9. \A z : Unstamped(z)' = Unstamped(z)
  BY <1>1 DEF Unstamped
<1>10. AnswerKnown'
  BY <1>4, <1>5 DEF AnswerKnown
<1>11. UpdateInv'
  <2> SUFFICES ASSUME NEW z \in Symbol \ spoilt', Updating(z)'
               PROVE  Unstamped(z) = {} /\ h = counted[z] /\ Follows(z, S)
    BY <1>1, <1>5, <1>9 DEF UpdateInv, Follows
  <2>1. z = y /\ Updating(z) /\ z \in Symbol \ spoilt
    BY <1>1, <1>3, <1>5 DEF Updating
  <2>2. Unstamped(z) = {} /\ update.from = last[z]
    BY <2>1 DEF DensityPart, UpdateInv
  <2>3. Follows(z, S)
    BY <1>4, <2>2 DEF Follows
  <2> QED  BY <2>1, <2>2, <2>3
<1>12. RebuildInv'
  BY <1>1, <1>9 DEF DensityPart, RebuildInv
<1>13. CountInv'
  <2>1. \A z, c : InHand(z, c) => FALSE
    BY DEF InHand
  <2> QED  BY <1>1, <1>9, <2>1 DEF DensityPart, CountInv
<1> QED  BY <1>8, <1>10, <1>11, <1>12, <1>13 DEF DensityPart

\* The candles of an answer are added. They all come after LAST_TIME, so none is in
\* the sum but for what died.
LEMMA CandlesCounted ==
  ASSUME DensityPart, UNCHANGED now, update.phase = "answered", Count
  PROVE  DensityPart'
<1> DEFINE s == update.symbol
           S == update.answer
           new == [phase |-> "saved", symbol |-> s, answer |-> S]
<1>0. /\ Traded \subseteq Candle /\ Candle \subseteq Nat
      /\ \A z \in Symbol, c \in Candle : counted[z][c] \in Nat /\ torn[z][c] \in Nat
      /\ \A z \in Symbol : last[z] \in Int
      /\ counted \in [Symbol -> Sum]
  BY DensityTyped
<1>1. update # Idle /\ s \in Symbol /\ update.sum \in Sum
  BY DensityTyped, UpdateKinds DEF Idle
<1>2. S \subseteq Traded /\ \A c \in S : c <= now
  BY DEF DensityPart, AnswerKnown
<1>3. UNCHANGED <<last, rebuilds, torn, lost, spoilt>>
  BY DEF Count, bookVars
<1>4. /\ counted' \in [Symbol -> Sum]
      /\ \A z \in Symbol : z # s => counted'[z] = counted[z]
      /\ \A c \in Candle : counted'[s][c] = IF c \in S THEN update.sum[c] + 1 ELSE update.sum[c]
  <2>1. counted' = [counted EXCEPT ![s] = Plus(update.sum, S)]
    BY DEF Count
  <2>2. /\ Plus(update.sum, S) \in Sum
        /\ \A c \in Candle :
             Plus(update.sum, S)[c] = IF c \in S THEN update.sum[c] + 1 ELSE update.sum[c]
    BY <1>1, PlusOf
  <2> HIDE DEF s, S
  <2> QED  BY <1>0, <1>1, <2>1, <2>2
<1>5. update' = IF S = {} THEN Idle ELSE new
  BY DEF Count
<1>6. s \notin spoilt => /\ Unstamped(s) = {} /\ update.sum = counted[s] /\ Follows(s, S)
  BY <1>1 DEF DensityPart, UpdateInv, Updating
<1>7. \A z : Unstamped(z)' = Unstamped(z)
  BY <1>3 DEF Unstamped
<1>8. \A z, c : z \in Symbol => (InHand(z, c)' <=> (z = s /\ c \in S))
  <2>1. Idle.phase # "saved"
    BY DEF Idle
  <2>2. new # Idle /\ new.phase = "saved" /\ new.symbol = s /\ new.answer = S
    BY DEF Idle
  <2> HIDE DEF new, s, S
  <2> QED  BY <1>5, <2>1, <2>2 DEF InHand, Updating
<1>9. new \in Update /\ Idle \in Update
  <2>1. S \in SUBSET Candle
    BY <1>0, <1>2
  <2> HIDE DEF s, S
  <2> QED  BY <1>1, <2>1 DEF Update
<1>10. DensityTypeOK' /\ \A z \in Symbol : last'[z] <= now'
  BY <1>3, <1>4, <1>5, <1>9 DEF DensityPart, DensityTypeOK
<1> DEFINE kind == update'.phase
<1>11. /\ update' = Idle => kind = "idle"
       /\ update' # Idle => /\ kind = "saved" /\ S # {}
                            /\ update'.symbol = s /\ update'.answer = S
  BY <1>5 DEF Idle
<1>12. kind \notin {"asked", "answered"} /\ (kind = "saved" => update' # Idle)
  BY <1>11 DEF Idle
<1> HIDE DEF new, s, S, kind
<1>13. AnswerKnown'
  BY <1>2, <1>3, <1>11, <1>12 DEF AnswerKnown, kind
<1>14. UpdateInv'
  <2> SUFFICES ASSUME NEW z \in Symbol \ spoilt', Updating(z)'
               PROVE  /\ Unstamped(z) = {} /\ Follows(z, S) /\ S # {}
                      /\ \A c \in S : counted'[z][c] > 0
    BY <1>3, <1>7, <1>11, <1>12 DEF UpdateInv, Updating, Follows, kind
  <2>1. z = s /\ S # {} /\ s \notin spoilt
    BY <1>3, <1>11 DEF Updating
  <2>2. Follows(s, S)
    BY <1>6, <2>1
  <2>3. \A c \in S : counted'[s][c] > 0
    BY <1>0, <1>1, <1>2, <1>4, <1>6, <2>1
  <2> QED  BY <1>6, <2>1, <2>2, <2>3
<1>15. RebuildInv'
  <2> SUFFICES ASSUME NEW r \in rebuilds, r.saved, r.symbol \notin spoilt
               PROVE  /\ Unstamped(r.symbol) = {r}
                      /\ \A c \in Traded :
                           /\ counted'[r.symbol][c] <= 1
                           /\ c < r.at => counted'[r.symbol][c] = 1
                           /\ c > r.at => counted'[r.symbol][c] = 0
    BY <1>3, <1>7 DEF DensityPart, RebuildInv
  <2>1. r \in Unstamped(r.symbol) /\ r.symbol \in Symbol
    BY DensityTyped DEF Unstamped
  <2>2. r.symbol # s
    BY <1>6, <2>1
  <2>3. counted'[r.symbol] = counted[r.symbol]
    BY <1>4, <2>1, <2>2
  <2> QED  BY <2>3 DEF DensityPart, RebuildInv
<1>16. CountInv'
  <2> SUFFICES ASSUME NEW z \in Symbol \ spoilt, NEW c \in Traded, Unstamped(z) = {}
               PROVE  /\ counted'[z][c] <= 1 + torn[z][c]
                      /\ c > last[z] => counted'[z][c] <= torn[z][c] \/ (z = s /\ c \in S)
                      /\ \A d \in Traded :
                           c <= last[z] /\ d < c /\ counted'[z][d] > torn[z][d]
                             => counted'[z][c] > 0 \/ c \in lost[z]
    BY <1>3, <1>7, <1>8 DEF CountInv
  <2>0. c \in Candle
    BY <1>0
  <2>1. \A e : ~InHand(z, e)
    BY DEF InHand
  <2>2. \A e \in Traded :
          /\ counted[z][e] <= 1 + torn[z][e]
          /\ e > last[z] => counted[z][e] <= torn[z][e]
          /\ \A d \in Traded : e <= last[z] /\ d < e /\ counted[z][d] > torn[z][d]
               => counted[z][e] > 0 \/ e \in lost[z]
    BY <2>1 DEF DensityPart, CountInv
  <2>3. CASE z # s
    BY <1>4, <2>2, <2>3
  <2>4. CASE z = s
    <3>1. /\ \A e \in S : e > last[z]
          /\ \A e \in Traded : counted'[z][e] = IF e \in S THEN counted[z][e] + 1 ELSE counted[z][e]
      BY <1>0, <1>4, <1>6, <2>4 DEF Follows
    <3>2. counted'[z][c] <= 1 + torn[z][c]
      BY <1>0, <2>0, <2>2, <3>1
    <3>3. c > last[z] => counted'[z][c] <= torn[z][c] \/ (z = s /\ c \in S)
      BY <2>2, <2>4, <3>1
    <3>4. ASSUME NEW d \in Traded, c <= last[z], d < c, counted'[z][d] > torn[z][d]
          PROVE  counted'[z][c] > 0 \/ c \in lost[z]
      <4>1. d \in Candle /\ d \in Int /\ c \in Int
        BY <1>0, <2>0
      <4>2. ~(d > last[z])
        BY <1>0, <3>4, <4>1
      <4>3. counted[z][d] > torn[z][d]
        BY <3>1, <3>4, <4>2
      <4>4. counted[z][c] > 0 \/ c \in lost[z]
        BY <2>2, <3>4, <4>3
      <4>5. counted[z][c] \in Nat
        BY <1>0, <2>0
      <4> QED  BY <3>1, <4>4, <4>5
    <3> QED  BY <3>2, <3>3, <3>4
  <2> QED  BY <2>3, <2>4
<1> QED  BY <1>10, <1>13, <1>14, <1>15, <1>16 DEF DensityPart

\* LAST_TIME moves to the latest candle of the answer: all candles after it are out
\* of the answer, and those between the old LAST_TIME and it are in the sum.
LEMMA CandlesStamped ==
  ASSUME DensityPart, UNCHANGED now, update.phase = "saved", Stamp
  PROVE  DensityPart'
<1> DEFINE s == update.symbol
           S == update.answer
           l == Latest(S)
<1>0. /\ Traded \subseteq Candle /\ Candle \subseteq Nat
      /\ \A z \in Symbol, c \in Candle : counted[z][c] \in Nat /\ torn[z][c] \in Nat
      /\ \A z \in Symbol : last[z] \in Int /\ (last[z] = Never \/ last[z] \in Candle)
      /\ last \in [Symbol -> LastTime]
  BY DensityTyped
<1>1. update # Idle /\ s \in Symbol
  BY DensityTyped, UpdateKinds DEF Idle
<1>2. S \subseteq Traded /\ S # {} /\ \A c \in S : c <= now
  BY DEF DensityPart, AnswerKnown
<1>3. l \in S /\ \A c \in S : c <= l
  BY <1>0, <1>2, LatestExists
<1>4. /\ UNCHANGED <<counted, rebuilds, torn, lost, spoilt>> /\ update' = Idle
      /\ last' = [last EXCEPT ![s] = l]
  BY DEF Stamp, bookVars
<1>5. s \notin spoilt => /\ Unstamped(s) = {} /\ Follows(s, S)
                         /\ \A c \in S : counted[s][c] > 0
  BY <1>1 DEF DensityPart, UpdateInv, Updating
<1>6. \A z, c : InHand(z, c) => z = s /\ c \in S
  BY DEF InHand, Updating
<1> HIDE DEF s, S, l
<1>7. \A z : Unstamped(z)' = Unstamped(z) /\ ~Updating(z)' /\ \A c : ~InHand(z, c)'
  BY <1>4 DEF Unstamped, Updating, InHand
<1>8. DensityTypeOK' /\ \A z \in Symbol : last'[z] <= now'
  <2>1. l \in LastTime /\ l <= now
    BY <1>0, <1>2, <1>3 DEF LastTime
  <2>2. \A z \in Symbol : last[z] <= now
    BY DEF DensityPart
  <2>3. Idle \in Update
    BY DEF Update
  <2>4. last' \in [Symbol -> LastTime] /\ \A z \in Symbol : last'[z] <= now'
    BY <1>0, <1>4, <2>1, <2>2
  <2> QED  BY <1>4, <2>3, <2>4 DEF DensityPart, DensityTypeOK
<1>9. AnswerKnown' /\ UpdateInv' /\ RebuildInv'
  <2>1. AnswerKnown'
    BY <1>4 DEF AnswerKnown, Idle
  <2>2. UpdateInv'
    BY <1>7 DEF UpdateInv
  <2>3. RebuildInv'
    BY <1>4, <1>7 DEF DensityPart, RebuildInv
  <2> QED  BY <2>1, <2>2, <2>3
<1>10. CountInv'
  <2> SUFFICES ASSUME NEW z \in Symbol \ spoilt, NEW c \in Traded, Unstamped(z) = {}
               PROVE  /\ counted[z][c] <= 1 + torn[z][c]
                      /\ c > last'[z] => counted[z][c] <= torn[z][c]
                      /\ \A d \in Traded :
                           c <= last'[z] /\ d < c /\ counted[z][d] > torn[z][d]
                             => counted[z][c] > 0 \/ c \in lost[z]
    BY <1>4, <1>7 DEF CountInv
  <2>1. \A e \in Traded :
          /\ counted[z][e] <= 1 + torn[z][e]
          /\ e > last[z] => counted[z][e] <= torn[z][e] \/ (z = s /\ e \in S)
          /\ \A d \in Traded : e <= last[z] /\ d < e /\ counted[z][d] > torn[z][d]
               => counted[z][e] > 0 \/ e \in lost[z]
    BY <1>6 DEF DensityPart, CountInv
  <2>2. CASE z # s
    <3>1. last'[z] = last[z]
      BY <1>0, <1>4, <2>2
    <3> QED  BY <2>1, <2>2, <3>1
  <2>3. CASE z = s
    <3>2. \A e \in Traded : e \in Nat /\ e \in Int /\ e \in Candle
      BY DensityAssumption DEF Candle
    <3>0. s \notin spoilt /\ last[z] \in Int
      BY <1>0, <2>3
    <3>1. last'[z] = l /\ l \in Int /\ last[z] < l /\ last[z] \in Int
      <4>1. l \in Traded /\ last[s] < l
        BY <1>2, <1>3, <1>5, <3>0 DEF Follows
      <4>2. last'[s] = l
        BY <1>0, <1>1, <1>4
      <4> QED  BY <2>3, <3>0, <3>2, <4>1, <4>2
    <3>3. c > l => counted[z][c] <= torn[z][c]
      <4>1. c > l => c \notin S /\ c > last[z]
        BY <1>3, <3>1, <3>2
      <4> QED  BY <2>1, <4>1
    <3>4. ASSUME NEW d \in Traded, c <= l, d < c, counted[z][d] > torn[z][d]
          PROVE  counted[z][c] > 0 \/ c \in lost[z]
      <4>1. CASE c <= last[z]
        BY <2>1, <3>4, <4>1
      <4>2. CASE c \in S
        BY <1>5, <2>3, <4>2
      <4>3. CASE ~(c <= last[z]) /\ c \notin S
        <5>1. c < l
          BY <1>3, <3>1, <3>2, <3>4, <4>3
        <5>2. last[z] = Never /\ \A e \in S : c < e
          BY <1>3, <1>5, <2>3, <4>3, <5>1 DEF Follows
        <5>3. d \notin S
          BY <3>2, <3>4, <5>2
        <5>4. d > last[z]
          BY <1>0, <3>2, <5>2 DEF Never
        <5>5. counted[z][d] <= torn[z][d]
          BY <2>1, <5>3, <5>4
        <5>6. counted[z][d] \in Nat /\ torn[z][d] \in Nat
          BY <1>0, <3>2
        <5> QED  BY <3>4, <5>5, <5>6
      <4> QED  BY <4>1, <4>2, <4>3
    <3> QED  BY <2>1, <3>1, <3>3, <3>4
  <2> QED  BY <2>2, <2>3
<1> QED  BY <1>8, <1>9, <1>10 DEF DensityPart

\* What an update was at is dropped; candles it has added are torn.
LEMMA UpdateAbandoned ==
  ASSUME DensityPart, UNCHANGED now, Abandon
  PROVE  DensityPart'
<1> DEFINE s == update.symbol
           S == update.answer
<1>0. /\ Traded \subseteq Candle
      /\ \A z \in Symbol, c \in Candle : counted[z][c] \in Nat /\ torn[z][c] \in Nat
      /\ torn \in [Symbol -> Sum]
  BY DensityTyped
<1>1. UNCHANGED <<counted, last, rebuilds, lost, spoilt>> /\ update' = Idle
  BY DEF Abandon, redisVars
<1>2. update.phase = "saved" => s \in Symbol
  BY DensityTyped, UpdateKinds DEF Idle
<1>3. /\ torn' \in [Symbol -> Sum]
      /\ \A z \in Symbol, c \in Candle :
           /\ torn[z][c] <= torn'[z][c] /\ torn'[z][c] \in Nat
           /\ InHand(z, c) => torn'[z][c] = torn[z][c] + 1
  <2>1. CASE update.phase = "saved"
    <3>1. torn' = [torn EXCEPT ![s] = Plus(torn[s], S)]
      BY <2>1 DEF Abandon
    <3>2. s \in Symbol /\ \A z, c : InHand(z, c) => z = s /\ c \in S
      BY <1>2, <2>1 DEF InHand, Updating
    <3> HIDE DEF s, S
    <3>3. /\ Plus(torn[s], S) \in Sum
          /\ \A c \in Candle :
               Plus(torn[s], S)[c] = IF c \in S THEN torn[s][c] + 1 ELSE torn[s][c]
      BY <1>0, <3>2, PlusOf
    <3>4. torn' \in [Symbol -> Sum]
      BY <1>0, <3>1, <3>3
    <3>5. \A z \in Symbol, c \in Candle :
            torn'[z][c] = IF z = s /\ c \in S THEN torn[z][c] + 1 ELSE torn[z][c]
      BY <1>0, <3>1, <3>2, <3>3
    <3> QED  BY <1>0, <3>2, <3>4, <3>5
  <2>2. CASE update.phase # "saved"
    <3>1. torn' = torn /\ \A z, c : ~InHand(z, c)
      BY <2>2 DEF Abandon, InHand
    <3> QED  BY <1>0, <3>1
  <2> QED  BY <2>1, <2>2
<1>4. \A z : Unstamped(z)' = Unstamped(z) /\ ~Updating(z)' /\ \A c : ~InHand(z, c)'
  BY <1>1 DEF Unstamped, Updating, InHand
<1>5. DensityTypeOK' /\ \A z \in Symbol : last'[z] <= now'
  BY <1>1, <1>3 DEF DensityPart, DensityTypeOK, Update
<1>6. AnswerKnown' /\ UpdateInv' /\ RebuildInv'
  <2>1. AnswerKnown'
    BY <1>1 DEF AnswerKnown, Idle
  <2>2. UpdateInv'
    BY <1>4 DEF UpdateInv
  <2>3. RebuildInv'
    BY <1>1, <1>4 DEF DensityPart, RebuildInv
  <2> QED  BY <2>1, <2>2, <2>3
<1>7. CountInv'
  <2> SUFFICES ASSUME NEW z \in Symbol \ spoilt, NEW c \in Traded, Unstamped(z) = {}
               PROVE  /\ counted[z][c] <= 1 + torn'[z][c]
                      /\ c > last[z] => counted[z][c] <= torn'[z][c]
                      /\ \A d \in Traded :
                           c <= last[z] /\ d < c /\ counted[z][d] > torn'[z][d]
                             => counted[z][c] > 0 \/ c \in lost[z]
    BY <1>1, <1>4 DEF CountInv
  <2>1. /\ counted[z][c] <= 1 + torn[z][c]
        /\ c > last[z] => counted[z][c] <= torn[z][c] \/ InHand(z, c)
        /\ \A d \in Traded : c <= last[z] /\ d < c /\ counted[z][d] > torn[z][d]
             => counted[z][c] > 0 \/ c \in lost[z]
    BY DEF DensityPart, CountInv
  <2>2. \A x \in Traded : /\ counted[z][x] \in Nat /\ torn[z][x] \in Nat
                          /\ torn'[z][x] \in Nat /\ torn[z][x] <= torn'[z][x]
                          /\ InHand(z, x) => torn'[z][x] = torn[z][x] + 1
    BY <1>0, <1>3
  <2>3. counted[z][c] <= 1 + torn'[z][c]
    BY <2>1, <2>2
  <2>4. c > last[z] => counted[z][c] <= torn'[z][c]
    BY <2>1, <2>2
  <2>5. \A d \in Traded : counted[z][d] > torn'[z][d] => counted[z][d] > torn[z][d]
    BY <2>2
  <2> QED  BY <2>1, <2>3, <2>4, <2>5
<1> QED  BY <1>5, <1>6, <1>7 DEF DensityPart

-----------------------------------------------------------------------------
(* The rebuildings of a density.                                           *)

\* One more, which has written nothing.
LEMMA RebuildStarted ==
  ASSUME DensityPart, now \in Time, UNCHANGED now, NEW s \in Symbol, StartRebuild(s, now)
  PROVE  DensityPart'
<1> DEFINE new == [symbol |-> s, at |-> now, saved |-> FALSE]
<1>1. /\ UNCHANGED <<counted, last, update, torn, lost, spoilt>>
      /\ rebuilds' = rebuilds \cup {new} /\ now > 0
  BY DEF StartRebuild, redisVars, bookVars
<1>2. now \in Candle \ {0} /\ now <= now
  BY <1>1, DensityAssumption, WatchAssumption DEF Time, Candle
<1>3. new \in Rebuild /\ ~new.saved /\ new.at = now
  BY <1>2 DEF Rebuild
<1> HIDE DEF new
<1>4. \A z : Unstamped(z)' = Unstamped(z)
  BY <1>1, <1>3 DEF Unstamped
<1>5. DensityTypeOK' /\ \A z \in Symbol : last'[z] <= now'
  BY <1>1, <1>3 DEF DensityPart, DensityTypeOK
<1>6. AnswerKnown'
  BY <1>1 DEF DensityPart, AnswerKnown
<1>7. UpdateInv'
  BY <1>1, <1>4 DEF DensityPart, UpdateInv, Updating, Follows
<1>8. RebuildInv'
  BY <1>1, <1>2, <1>3, <1>4 DEF DensityPart, RebuildInv
<1>9. CountInv'
  BY <1>1, <1>4 DEF DensityPart, CountInv, InHand, Updating
<1> QED  BY <1>5, <1>6, <1>7, <1>8, <1>9 DEF DensityPart

\* Whatever a rebuilding does is about its own symbol: the others keep what is
\* known of them.
Others(s) ==
  \A z \in Symbol : z # s =>
    /\ counted'[z] = counted[z] /\ last'[z] = last[z] /\ torn'[z] = torn[z]
    /\ lost'[z] = lost[z] /\ (z \in spoilt' <=> z \in spoilt)
    /\ Unstamped(z)' = Unstamped(z)

LEMMA OthersUpdated ==
  ASSUME UpdateInv, NEW s, Others(s), UNCHANGED <<update, now>>,
         NEW z \in Symbol \ spoilt', z # s, Updating(z)'
  PROVE  /\ Unstamped(z)' = {}
         /\ update'.phase = "asked" => update'.from = last'[z]
         /\ update'.phase = "answered" => update'.sum = counted'[z]
         /\ update'.phase \in {"answered", "saved"} => Follows(z, update.answer)'
         /\ update'.phase = "saved" => \A c \in update'.answer : counted'[z][c] > 0
<1>1. /\ counted'[z] = counted[z] /\ last'[z] = last[z] /\ z \in Symbol \ spoilt
      /\ Unstamped(z)' = Unstamped(z) /\ Updating(z)
  BY DEF Others, Updating
<1>2. /\ Unstamped(z) = {}
      /\ update.phase = "asked" => update.from = last[z]
      /\ update.phase = "answered" => update.sum = counted[z]
      /\ update.phase \in {"answered", "saved"} => Follows(z, update.answer)
      /\ update.phase = "saved" => \A c \in update.answer : counted[z][c] > 0
  BY <1>1 DEF UpdateInv
<1> QED  BY <1>1, <1>2 DEF Follows

LEMMA OthersCounted ==
  ASSUME CountInv, NEW s, Others(s), UNCHANGED update,
         NEW z \in Symbol \ spoilt', z # s, NEW c \in Traded, Unstamped(z)' = {}
  PROVE  /\ counted'[z][c] <= 1 + torn'[z][c]
         /\ c > last'[z] => counted'[z][c] <= torn'[z][c] \/ InHand(z, c)'
         /\ \A d \in Traded :
              c <= last'[z] /\ d < c /\ counted'[z][d] > torn'[z][d]
                => counted'[z][c] > 0 \/ c \in lost'[z]
<1>1. /\ counted'[z] = counted[z] /\ last'[z] = last[z] /\ torn'[z] = torn[z]
      /\ lost'[z] = lost[z] /\ z \in Symbol \ spoilt /\ Unstamped(z) = {}
      /\ InHand(z, c)' = InHand(z, c)
  BY DEF Others, InHand, Updating
<1> QED  BY <1>1 DEF CountInv

LEMMA OthersRebuilt ==
  ASSUME RebuildInv, NEW s, Others(s), NEW r \in rebuilds, r.symbol \in Symbol, r.symbol # s,
         r.saved, r.symbol \notin spoilt'
  PROVE  /\ Unstamped(r.symbol)' = {r}
         /\ \A c \in Traded :
              /\ counted'[r.symbol][c] <= 1
              /\ c < r.at => counted'[r.symbol][c] = 1
              /\ c > r.at => counted'[r.symbol][c] = 0
  BY DEF Others, RebuildInv

\* The sum is written, with every candle through the start of the rebuilding, the
\* running one perhaps.
LEMMA RebuildSaved ==
  ASSUME DensityPart, UNCHANGED now, NEW r \in rebuilds, SaveRebuild(r)
  PROVE  DensityPart'
<1> DEFINE s == r.symbol
           new == [r EXCEPT !.saved = TRUE]
<1>0. /\ Traded \subseteq Candle /\ Candle \subseteq Nat
      /\ counted \in [Symbol -> Sum] /\ torn \in [Symbol -> Sum] /\ lost \in [Symbol -> SUBSET Candle]
      /\ r \in Rebuild /\ s \in Symbol /\ r.at \in Candle /\ r.at \in Int
  BY DensityTyped
<1>1. /\ UNCHANGED <<last, update>> /\ ~r.saved
      /\ rebuilds' = (rebuilds \ {r}) \cup {new}
      /\ spoilt' = IF Beside(r) THEN spoilt \cup {s} ELSE spoilt \ {s}
  BY DEF SaveRebuild
<1>2. PICK S \in {{c \in Traded : c <= r.at}, {c \in Traded : c < r.at}} :
        counted' = [counted EXCEPT ![s] = [c \in Candle |-> IF c \in S THEN 1 ELSE 0]]
  BY DEF SaveRebuild
<1>3. new \in Rebuild /\ new.saved /\ new.symbol = s /\ new.at = r.at
  BY <1>0 DEF Rebuild
<1>4. /\ counted' \in [Symbol -> Sum]
      /\ \A c \in Traded : /\ counted'[s][c] <= 1
                           /\ c < r.at => counted'[s][c] = 1
                           /\ c > r.at => counted'[s][c] = 0
      /\ \A z \in Symbol : z # s => counted'[z] = counted[z]
  <2> DEFINE f == [c \in Candle |-> IF c \in S THEN 1 ELSE 0]
  <2>1. f \in Sum /\ \A c \in Candle : f[c] = IF c \in S THEN 1 ELSE 0
    BY DEF Sum
  <2>2. \A c \in Traded : (c < r.at => c \in S) /\ (c > r.at => c \notin S)
    <3>1. \A c \in Traded : c \in Int
      BY <1>0
    <3> QED  BY <1>0, <1>2, <3>1
  <2> HIDE DEF s, f
  <2>3. counted' = [counted EXCEPT ![s] = f]
    BY <1>2 DEF f
  <2>4. counted'[s] = f
    BY <1>0, <2>3
  <2> QED  BY <1>0, <2>1, <2>2, <2>3, <2>4
<1>5. /\ torn' \in [Symbol -> Sum] /\ lost' \in [Symbol -> SUBSET Candle]
      /\ \A z \in Symbol : z # s => torn'[z] = torn[z] /\ lost'[z] = lost[z]
  <2>1. /\ torn' = [torn EXCEPT ![s] = [c \in Candle |-> 0]]
        /\ lost' = [lost EXCEPT ![s] = {}]
    BY DEF SaveRebuild
  <2>2. [c \in Candle |-> 0] \in Sum
    BY DEF Sum
  <2> QED  BY <1>0, <2>1, <2>2
<1>6. \A o \in rebuilds : o.symbol \in Symbol
  BY DensityTyped
<1>7. Unstamped(s)' = Unstamped(s) \cup {new} /\ Unstamped(s) \ {r} = Unstamped(s)
  BY <1>1, <1>3 DEF Unstamped
<1>8. Others(s)
  <2>1. \A z \in Symbol : z # s => Unstamped(z)' = Unstamped(z)
    BY <1>1, <1>3 DEF Unstamped
  <2> QED  BY <1>1, <1>4, <1>5, <2>1 DEF Others
<1>9. s \notin spoilt' => ~Updating(s) /\ Unstamped(s) = {}
  BY <1>1, <1>7 DEF Beside
<1>10. DensityTypeOK' /\ \A z \in Symbol : last'[z] <= now'
  BY <1>0, <1>1, <1>3, <1>4, <1>5 DEF DensityPart, DensityTypeOK
<1>11. AnswerKnown'
  BY <1>1 DEF DensityPart, AnswerKnown
<1> HIDE DEF s, new
<1>12. UpdateInv'
  <2> SUFFICES ASSUME NEW z \in Symbol \ spoilt', Updating(z)'
               PROVE  /\ Unstamped(z)' = {}
                      /\ update'.phase = "asked" => update'.from = last'[z]
                      /\ update'.phase = "answered" => update'.sum = counted'[z]
                      /\ update'.phase \in {"answered", "saved"} => Follows(z, update.answer)'
                      /\ update'.phase = "saved" => \A c \in update'.answer : counted'[z][c] > 0
    BY <1>1 DEF UpdateInv
  <2>1. z # s
    BY <1>1, <1>9 DEF Updating
  <2> QED  BY <1>1, <1>8, <2>1, OthersUpdated DEF DensityPart
<1>13. RebuildInv'
  <2>1. \A o \in rebuilds' : o.at <= now'
    BY <1>1, <1>3 DEF DensityPart, RebuildInv
  <2>2. ASSUME NEW o \in rebuilds', o.saved, o.symbol \notin spoilt'
        PROVE  /\ Unstamped(o.symbol)' = {o}
               /\ \A c \in Traded :
                    /\ counted'[o.symbol][c] <= 1
                    /\ c < o.at => counted'[o.symbol][c] = 1
                    /\ c > o.at => counted'[o.symbol][c] = 0
    <3>1. CASE o = new
      BY <1>3, <1>4, <1>7, <1>9, <2>2, <3>1
    <3>2. CASE o # new
      <4>1. o \in rebuilds /\ o.symbol \in Symbol
        BY <1>1, <1>6, <3>2
      <4>2. o.symbol # s
        <5>1. o.symbol = s => o \in Unstamped(s)
          BY <2>2, <4>1 DEF Unstamped
        <5> QED  BY <1>9, <2>2, <5>1
      <4> QED  BY <1>8, <2>2, <4>1, <4>2, OthersRebuilt DEF DensityPart
    <3> QED  BY <3>1, <3>2
  <2> QED  BY <2>1, <2>2 DEF RebuildInv
<1>14. CountInv'
  <2> SUFFICES ASSUME NEW z \in Symbol \ spoilt', NEW c \in Traded, Unstamped(z)' = {}
               PROVE  /\ counted'[z][c] <= 1 + torn'[z][c]
                      /\ c > last'[z] => counted'[z][c] <= torn'[z][c] \/ InHand(z, c)'
                      /\ \A d \in Traded :
                           c <= last'[z] /\ d < c /\ counted'[z][d] > torn'[z][d]
                             => counted'[z][c] > 0 \/ c \in lost'[z]
    BY DEF CountInv
  <2>1. z # s
    BY <1>7
  <2> QED  BY <1>1, <1>8, <2>1, OthersCounted DEF DensityPart
<1> QED  BY <1>10, <1>11, <1>12, <1>13, <1>14 DEF DensityPart

\* A rebuilding is over. If no other call worked on its symbol, the candles are in
\* order by what its sum is known to hold.
LEMMA RebuildOver ==
  ASSUME DensityPart, UNCHANGED <<now, counted, update>>, NEW r \in rebuilds,
         rebuilds' = rebuilds \ {r}, DensityTypeOK',
         \A z \in Symbol : last'[z] <= now',
         \A z \in Symbol : z # r.symbol =>
           /\ last'[z] = last[z] /\ torn'[z] = torn[z] /\ lost'[z] = lost[z]
           /\ z \in spoilt' <=> z \in spoilt,
         ~r.saved => last' = last /\ torn' = torn /\ lost' = lost /\ spoilt' = spoilt,
         r.saved /\ r.symbol \notin spoilt' =>
           /\ r.symbol \notin spoilt
           /\ \A c \in Traded :
                /\ counted[r.symbol][c] <= 1 + torn'[r.symbol][c]
                /\ c > last'[r.symbol] => counted[r.symbol][c] <= torn'[r.symbol][c]
                /\ c <= last'[r.symbol] => counted[r.symbol][c] > 0 \/ c \in lost'[r.symbol]
  PROVE  DensityPart'
<1> DEFINE s == r.symbol
<1>0. s \in Symbol /\ \A o \in rebuilds : o.symbol \in Symbol
  BY DensityTyped
<1>1. AnswerKnown'
  BY DEF DensityPart, AnswerKnown
<1>2. Others(s)
  <2>1. \A z \in Symbol : z # s => Unstamped(z)' = Unstamped(z)
    BY DEF Unstamped
  <2> QED  BY <2>1 DEF Others
<1>3. r.saved /\ s \notin spoilt => Unstamped(s) = {r} /\ ~Updating(s)
  <2>1. r.saved => r \in Unstamped(s)
    BY DEF Unstamped
  <2> QED  BY <1>0, <2>1 DEF DensityPart, RebuildInv, UpdateInv
<1>4. ~r.saved => Unstamped(s)' = Unstamped(s)
  BY DEF Unstamped
<1>5. r.saved /\ s \notin spoilt => Unstamped(s)' = {}
  BY <1>3 DEF Unstamped
<1>6. UpdateInv'
  <2> SUFFICES ASSUME NEW z \in Symbol \ spoilt', Updating(z)'
               PROVE  /\ Unstamped(z)' = {}
                      /\ update'.phase = "asked" => update'.from = last'[z]
                      /\ update'.phase = "answered" => update'.sum = counted'[z]
                      /\ update'.phase \in {"answered", "saved"} => Follows(z, update.answer)'
                      /\ update'.phase = "saved" => \A c \in update'.answer : counted'[z][c] > 0
    BY DEF UpdateInv
  <2>1. CASE z # s
    BY <1>2, <2>1, OthersUpdated DEF DensityPart
  <2>2. CASE z = s
    <3>1. ~r.saved
      BY <1>3, <2>2 DEF Updating
    <3>2. z \in Symbol \ spoilt /\ Updating(z)
      BY <3>1 DEF Updating
    <3> QED  BY <1>4, <2>2, <3>1, <3>2 DEF DensityPart, UpdateInv, Follows
  <2> QED  BY <2>1, <2>2
<1>7. RebuildInv'
  <2>1. \A o \in rebuilds' : o.at <= now'
    BY DEF DensityPart, RebuildInv
  <2>2. ASSUME NEW o \in rebuilds', o.saved, o.symbol \notin spoilt'
        PROVE  /\ Unstamped(o.symbol)' = {o}
               /\ \A c \in Traded :
                    /\ counted'[o.symbol][c] <= 1
                    /\ c < o.at => counted'[o.symbol][c] = 1
                    /\ c > o.at => counted'[o.symbol][c] = 0
    <3>0. o \in rebuilds /\ o.symbol \in Symbol /\ o # r
      BY <1>0
    <3>1. CASE o.symbol # s
      BY <1>2, <2>2, <3>0, <3>1, OthersRebuilt DEF DensityPart
    <3>2. CASE o.symbol = s
      <4>1. o \in Unstamped(s)
        BY <2>2, <3>0, <3>2 DEF Unstamped
      <4>2. ~r.saved
        BY <1>3, <2>2, <3>0, <3>2, <4>1
      <4> QED  BY <1>4, <2>2, <3>0, <3>2, <4>2 DEF DensityPart, RebuildInv
    <3> QED  BY <3>1, <3>2
  <2> QED  BY <2>1, <2>2 DEF RebuildInv
<1>8. CountInv'
  <2> SUFFICES ASSUME NEW z \in Symbol \ spoilt', NEW c \in Traded, Unstamped(z)' = {}
               PROVE  /\ counted'[z][c] <= 1 + torn'[z][c]
                      /\ c > last'[z] => counted'[z][c] <= torn'[z][c] \/ InHand(z, c)'
                      /\ \A d \in Traded :
                           c <= last'[z] /\ d < c /\ counted'[z][d] > torn'[z][d]
                             => counted'[z][c] > 0 \/ c \in lost'[z]
    BY DEF CountInv
  <2>1. CASE z # s
    BY <1>2, <2>1, OthersCounted DEF DensityPart
  <2>2. CASE z = s /\ r.saved
    BY <2>2
  <2>3. CASE z = s /\ ~r.saved
    <3>1. UNCHANGED <<last, torn, lost, spoilt>> /\ Unstamped(z) = {}
      BY <1>4, <2>3
    <3>2. InHand(z, c)' = InHand(z, c)
      BY DEF InHand, Updating
    <3> QED  BY <3>1, <3>2 DEF DensityPart, CountInv
  <2> QED  BY <2>1, <2>2, <2>3
<1> QED  BY <1>1, <1>6, <1>7, <1>8 DEF DensityPart

\* It writes LAST_TIME: every candle before its start is in the sum once.
LEMMA RebuildStamped ==
  ASSUME DensityPart, now \in Int, UNCHANGED now, NEW r \in rebuilds, StampRebuild(r)
  PROVE  DensityPart'
<1> DEFINE s == r.symbol
           n == counted[s][r.at]
<1>0. /\ Traded \subseteq Candle /\ Candle \subseteq Nat
      /\ last \in [Symbol -> LastTime] /\ torn \in [Symbol -> Sum]
      /\ s \in Symbol /\ r.at \in Candle /\ r.at \in Int /\ r.at - 1 \in Candle
      /\ \A z \in Symbol, c \in Candle : counted[z][c] \in Nat /\ torn[z][c] \in Nat
  BY DensityTyped
<1>1. /\ UNCHANGED <<counted, update, lost>> /\ r.saved /\ rebuilds' = rebuilds \ {r}
      /\ last' = [last EXCEPT ![s] = r.at - 1]
      /\ torn' = [torn EXCEPT ![s][r.at] = n]
      /\ spoilt' = IF Beside(r) THEN spoilt \cup {s} ELSE spoilt
  BY DEF StampRebuild
<1>2. n \in Nat
  BY <1>0
<1> HIDE DEF s, n
<1>3. /\ last' \in [Symbol -> LastTime] /\ torn' \in [Symbol -> Sum]
      /\ last'[s] = r.at - 1 /\ torn'[s][r.at] = n
      /\ \A c \in Candle : torn'[s][c] \in Nat
      /\ \A z \in Symbol : z # s => last'[z] = last[z] /\ torn'[z] = torn[z]
  <2>1. last' \in [Symbol -> LastTime] /\ last'[s] = r.at - 1
    BY <1>0, <1>1 DEF LastTime
  <2>2. torn' \in [Symbol -> Sum] /\ torn'[s][r.at] = n
    BY <1>0, <1>1, <1>2 DEF Sum
  <2>3. \A c \in Candle : torn'[s][c] \in Nat
    BY <1>0, <2>2 DEF Sum
  <2>4. \A z \in Symbol : z # s => last'[z] = last[z] /\ torn'[z] = torn[z]
    BY <1>0, <1>1
  <2> QED  BY <2>1, <2>2, <2>3, <2>4
<1>4. DensityTypeOK'
  BY <1>0, <1>1, <1>3 DEF DensityPart, DensityTypeOK, s
<1>5. \A z \in Symbol : last'[z] <= now'
  <2>1. r.at <= now /\ \A z \in Symbol : last[z] <= now
    BY DEF DensityPart, RebuildInv
  <2> QED  BY <1>0, <1>3, <2>1
<1>6. ASSUME s \notin spoilt', NEW c \in Traded
      PROVE  /\ counted[s][c] <= 1 + torn'[s][c]
             /\ c > last'[s] => counted[s][c] <= torn'[s][c]
             /\ c <= last'[s] => counted[s][c] > 0
  <2>1. s \notin spoilt
    BY <1>1, <1>6
  <2>2. /\ counted[s][c] <= 1
        /\ c < r.at => counted[s][c] = 1
        /\ c > r.at => counted[s][c] = 0
    BY <1>1, <2>1 DEF DensityPart, RebuildInv, s
  <2>3. c \in Candle /\ c \in Nat
    BY <1>0
  <2>5. counted[s][c] \in Nat /\ torn'[s][c] \in Nat
    BY <1>0, <1>3, <2>3
  <2>4. c = r.at => counted[s][c] = torn'[s][c]
    BY <1>3 DEF n, s
  <2> QED  BY <1>0, <1>3, <2>2, <2>3, <2>4, <2>5
<1>7. r.saved /\ s \notin spoilt' =>
        /\ s \notin spoilt
        /\ \A c \in Traded :
             /\ counted[s][c] <= 1 + torn'[s][c]
             /\ c > last'[s] => counted[s][c] <= torn'[s][c]
             /\ c <= last'[s] => counted[s][c] > 0 \/ c \in lost'[s]
  BY <1>1, <1>6
<1>8. \A z \in Symbol : z # s => /\ last'[z] = last[z] /\ torn'[z] = torn[z] /\ lost'[z] = lost[z]
                                 /\ z \in spoilt' <=> z \in spoilt
  BY <1>1, <1>3
<1> QED  BY <1>1, <1>4, <1>5, <1>7, <1>8, RebuildOver DEF s

\* It ends early: what its sum holds beyond LAST_TIME is torn, what it lacks before
\* is lost.
LEMMA RebuildEnded ==
  ASSUME DensityPart, UNCHANGED now, NEW r \in rebuilds, EndRebuild(r)
  PROVE  DensityPart'
<1> DEFINE s == r.symbol
           t == [c \in Candle |-> IF c > last[s] THEN counted[s][c] ELSE 0]
           m == {c \in Traded : c <= last[s] /\ counted[s][c] = 0}
<1>0. /\ Traded \subseteq Candle /\ Candle \subseteq Nat
      /\ torn \in [Symbol -> Sum] /\ lost \in [Symbol -> SUBSET Candle]
      /\ s \in Symbol /\ last[s] \in Int
      /\ \A z \in Symbol, c \in Candle : counted[z][c] \in Nat /\ torn[z][c] \in Nat
  BY DensityTyped
<1>1. /\ UNCHANGED <<counted, last, update, spoilt>> /\ rebuilds' = rebuilds \ {r}
      /\ r.saved => torn' = [torn EXCEPT ![s] = t] /\ lost' = [lost EXCEPT ![s] = m]
      /\ ~r.saved => UNCHANGED <<torn, lost>>
  BY DEF EndRebuild, redisVars
<1>2. /\ t \in Sum /\ m \subseteq Candle
      /\ \A c \in Candle : t[c] = IF c > last[s] THEN counted[s][c] ELSE 0
      /\ \A c \in Traded : c \in m <=> c <= last[s] /\ counted[s][c] = 0
  BY <1>0 DEF Sum
<1> HIDE DEF s, t, m
<1>3. /\ torn' \in [Symbol -> Sum] /\ lost' \in [Symbol -> SUBSET Candle]
      /\ r.saved => torn'[s] = t /\ lost'[s] = m
      /\ \A z \in Symbol : z # s => torn'[z] = torn[z] /\ lost'[z] = lost[z]
  <2>1. CASE r.saved
    <3>1. torn' = [torn EXCEPT ![s] = t] /\ lost' = [lost EXCEPT ![s] = m]
      BY <1>1, <2>1
    <3> QED  BY <1>0, <1>2, <3>1
  <2>2. CASE ~r.saved
    BY <1>0, <1>1, <2>2
  <2> QED  BY <2>1, <2>2
<1>4. DensityTypeOK' /\ \A z \in Symbol : last'[z] <= now'
  BY <1>1, <1>3 DEF DensityPart, DensityTypeOK
<1>5. ASSUME r.saved, s \notin spoilt, NEW c \in Traded
      PROVE  /\ counted[s][c] <= 1 + torn'[s][c]
             /\ c > last'[s] => counted[s][c] <= torn'[s][c]
             /\ c <= last'[s] => counted[s][c] > 0 \/ c \in lost'[s]
  <2>1. counted[s][c] <= 1
    BY <1>5 DEF DensityPart, RebuildInv, s
  <2>2. c \in Candle /\ c \in Int /\ counted[s][c] \in Nat
    BY <1>0
  <2>3. torn'[s][c] = (IF c > last[s] THEN counted[s][c] ELSE 0)
    BY <1>2, <1>3, <1>5, <2>2
  <2>4. c <= last[s] => counted[s][c] > 0 \/ c \in lost'[s]
    BY <1>2, <1>3, <1>5, <2>2
  <2> QED  BY <1>0, <1>1, <2>1, <2>2, <2>3, <2>4
<1>6. r.saved /\ s \notin spoilt' =>
        /\ s \notin spoilt
        /\ \A c \in Traded :
             /\ counted[s][c] <= 1 + torn'[s][c]
             /\ c > last'[s] => counted[s][c] <= torn'[s][c]
             /\ c <= last'[s] => counted[s][c] > 0 \/ c \in lost'[s]
  BY <1>1, <1>5
<1>7. \A z \in Symbol : z # s => /\ last'[z] = last[z] /\ torn'[z] = torn[z] /\ lost'[z] = lost[z]
                                 /\ z \in spoilt' <=> z \in spoilt
  BY <1>1, <1>3
<1>8. ~r.saved => last' = last /\ torn' = torn /\ lost' = lost /\ spoilt' = spoilt
  BY <1>1
<1>9. /\ UNCHANGED <<now, counted, update>> /\ rebuilds' = rebuilds \ {r}
      /\ DensityTypeOK' /\ \A z \in Symbol : last'[z] <= now'
  BY <1>1, <1>4
<1> QED  BY <1>6, <1>7, <1>8, <1>9, RebuildOver DEF s

-----------------------------------------------------------------------------
(* Every step keeps every part.                                            *)

LEMMA MarketInvInit == Init => MarketInv
<1> SUFFICES ASSUME Init PROVE MarketInv
  OBVIOUS
<1>1. now = 0 /\ 0 \in Time /\ queue = <<>> /\ todo = <<>>
  BY ClockAssumption DEF Init, Time
<1>2. ClockPart
  <2>1. \A tf \in TimeFrame : /\ CandleTime(0, tf) \in Int
                              /\ candle_time[tf] = CandleTime(0, tf)
    <3>1. \A tf \in TimeFrame : CandleTime(0, tf) \in Int
      BY CandleTimeMonotone
    <3> QED  BY <3>1 DEF Init, RunningCandles
  <2>2. candle_time \in [TimeFrame -> Int]
    BY <2>1 DEF Init, RunningCandles
  <2>3. TickerBehind
    BY <1>1, <2>1 DEF TickerBehind
  <2> QED  BY <1>1, <2>2, <2>3 DEF ClockPart, ClockTypeOK, QueueInOrder
<1>3. TodoPart
  BY <1>1 DEF TodoPart, FramesCurrent
<1>4. AlertPart
  BY DEF Init, AlertInit, AlertPart, AlertTypeOK, ToldInv
<1>5. DensityPart
  <2>1. /\ counted = [s \in Symbol |-> [c \in Candle |-> 0]]
        /\ last = [s \in Symbol |-> Never]
        /\ update = Idle /\ rebuilds = {}
        /\ torn = counted /\ lost = [s \in Symbol |-> {}] /\ spoilt = {}
    BY DEF Init, DensityInit
  <2>2. Traded \subseteq Candle /\ \A c \in Candle : c \in Nat
    BY DensityAssumption DEF Candle
  <2>3. CountInv
    BY <2>1, <2>2 DEF CountInv, Never
  <2>4. DensityTypeOK /\ \A s \in Symbol : last[s] <= now
    BY <1>1, <2>1 DEF DensityTypeOK, Never, Sum, LastTime, Update
  <2>5. AnswerKnown /\ UpdateInv /\ RebuildInv
    BY <2>1 DEF AnswerKnown, UpdateInv, RebuildInv, Updating, Idle
  <2> QED  BY <2>3, <2>4, <2>5 DEF DensityPart
<1>6. CounterPart
  BY WatchAssumption DEF Init, CounterPart
<1> QED  BY <1>2, <1>3, <1>4, <1>5, <1>6 DEF MarketInv

\* What the first call of todo is.
LEMMA FirstCall ==
  ASSUME TodoPart, NEW do, Pending(do)
  PROVE  todo # <<>> /\ Head(todo) \in Call /\ Head(todo).do = do
  BY TailOf DEF TodoPart, Pending

LEMMA FaultCounted ==
  ASSUME CounterPart, Fault \/ UNCHANGED faults, UNCHANGED changes
  PROVE  CounterPart'
  BY WatchAssumption DEF CounterPart, Fault

LEMMA ChangeCounted ==
  ASSUME CounterPart, changes < MaxChanges, changes' = changes + 1, UNCHANGED faults
  PROVE  CounterPart'
  BY WatchAssumption DEF CounterPart

LEMMA TimeTyped == MarketInv => now \in Time /\ now \in Int /\ now <= now
  BY DEF MarketInv, ClockPart, ClockTypeOK, Time

LEMMA TimeInv == MarketInv /\ TimePasses => MarketInv'
<1> SUFFICES ASSUME MarketInv, TimePasses PROVE MarketInv'
  OBVIOUS
<1>1. ClockPart'
  BY ClockElapses DEF MarketInv, TimePasses
<1>2. now \in Time /\ now' \in Time /\ now <= now' /\ now \in Int /\ now' \in Int
  BY <1>1, TimeTyped DEF TimePasses, Elapse, ClockPart, ClockTypeOK, Time
<1>3. UNCHANGED <<candle_time, alertVars, densityVars, todo, faults, changes>>
  BY DEF TimePasses, Elapse
<1>4. TodoPart'
  BY <1>2, <1>3, TodoKept DEF MarketInv
<1>5. AlertPart'
  BY <1>3, AlertKept DEF MarketInv
<1>6. DensityPart'
  BY <1>2, <1>3, DensityKept DEF MarketInv
<1>7. CounterPart'
  BY <1>3 DEF MarketInv, CounterPart
<1> QED  BY <1>1, <1>4, <1>5, <1>6, <1>7 DEF MarketInv

LEMMA ArrivesInv ==
  ASSUME MarketInv, NEW e \in Tick \cup HeartBeat, Arrives(e)
  PROVE  MarketInv'
<1>1. UNCHANGED <<now, candle_time, alertVars, densityVars, todo, faults, changes>>
  BY DEF Arrives, clockVars
<1>2. ClockPart'
  <2>1. e \in Event /\ ~IsFrame(e)
    BY DEF Event, Tick, HeartBeat, IsFrame
  <2> QED  BY <1>1, <2>1, QueueGrows DEF MarketInv, Arrives
<1>3. TodoPart'
  BY <1>1, TimeTyped, TodoKept DEF MarketInv
<1>4. AlertPart'
  BY <1>1, AlertKept DEF MarketInv
<1>5. DensityPart'
  BY <1>1, TimeTyped, DensityKept DEF MarketInv
<1>6. CounterPart'
  BY <1>1 DEF MarketInv, CounterPart
<1> QED  BY <1>2, <1>3, <1>4, <1>5, <1>6 DEF MarketInv

LEMMA OperatorSetsInv ==
  ASSUME MarketInv, NEW k \in Key, NEW v \in Price \cup {None}, OperatorSets(k, v)
  PROVE  MarketInv'
<1>1. UNCHANGED <<now, candle_time, densityVars, queue, todo, faults>>
  BY DEF OperatorSets, clockVars
<1>2. ClockPart'
  BY <1>1, ClockKept DEF MarketInv
<1>3. TodoPart'
  BY <1>1, TimeTyped, TodoKept DEF MarketInv
<1>4. AlertPart'
  BY LevelSet DEF MarketInv, OperatorSets
<1>5. DensityPart'
  BY <1>1, TimeTyped, DensityKept DEF MarketInv
<1>6. CounterPart'
  BY <1>1, ChangeCounted DEF MarketInv, OperatorSets
<1> QED  BY <1>2, <1>3, <1>4, <1>5, <1>6 DEF MarketInv

LEMMA OperatorRebuildsInv ==
  ASSUME MarketInv, NEW s \in Symbol, OperatorRebuilds(s)
  PROVE  MarketInv'
<1>1. UNCHANGED <<now, candle_time, alertVars, queue, todo, faults>>
  BY DEF OperatorRebuilds, clockVars
<1>2. ClockPart'
  BY <1>1, ClockKept DEF MarketInv
<1>3. TodoPart'
  BY <1>1, TimeTyped, TodoKept DEF MarketInv
<1>4. AlertPart'
  BY <1>1, AlertKept DEF MarketInv
<1>5. DensityPart'
  BY <1>1, TimeTyped, RebuildStarted DEF MarketInv, OperatorRebuilds
<1>6. CounterPart'
  BY <1>1, ChangeCounted DEF MarketInv, OperatorRebuilds
<1> QED  BY <1>2, <1>3, <1>4, <1>5, <1>6 DEF MarketInv

\* A step on the density that leaves the clock, the queue and the levels alone.
LEMMA DensityStep ==
  ASSUME MarketInv, UNCHANGED <<now, candle_time, alertVars, queue, changes>>,
         Fault \/ UNCHANGED faults, TodoPart', DensityPart'
  PROVE  MarketInv'
<1>1. ClockPart'
  BY ClockKept DEF MarketInv
<1>2. AlertPart'
  BY AlertKept DEF MarketInv
<1>3. CounterPart'
  BY FaultCounted DEF MarketInv
<1> QED  BY <1>1, <1>2, <1>3 DEF MarketInv

LEMMA RebuildGoesOnInv ==
  ASSUME MarketInv, NEW r \in rebuilds, RebuildGoesOn(r)
  PROVE  MarketInv'
<1>1. UNCHANGED <<now, candle_time, alertVars, queue, todo, faults, changes>>
  BY DEF RebuildGoesOn, clockVars
<1>2. TodoPart'
  BY <1>1, TimeTyped, TodoKept DEF MarketInv
<1>3. DensityPart'
  BY <1>1, TimeTyped, RebuildSaved, RebuildStamped, RebuildEnded DEF MarketInv, RebuildGoesOn
<1> QED  BY <1>1, <1>2, <1>3, DensityStep

LEMMA TakeInv == MarketInv /\ Take => MarketInv'
<1> SUFFICES ASSUME MarketInv, Take PROVE MarketInv'
  OBVIOUS
<1>1. /\ UNCHANGED <<now, candle_time, alertVars, densityVars, faults, changes>>
      /\ queue # <<>> /\ queue' = Tail(queue) /\ todo = <<>> /\ todo' = Calls(Head(queue))
  BY DEF Take, clockVars
<1>2. ClockPart' /\ Head(queue) \in Event
  BY <1>1, QueueShrinks DEF MarketInv
<1>3. PICK e \in Event : e = Head(queue)
  BY <1>2
<1>4. TodoPart'
  BY <1>1, <1>3, TodoTaken DEF MarketInv
<1>5. AlertPart'
  BY <1>1, AlertKept DEF MarketInv
<1>6. DensityPart'
  BY <1>1, TimeTyped, DensityKept DEF MarketInv
<1>7. CounterPart'
  BY <1>1 DEF MarketInv, CounterPart
<1> QED  BY <1>2, <1>4, <1>5, <1>6, <1>7 DEF MarketInv

LEMMA AnnounceFrameInv == MarketInv /\ AnnounceFrame => MarketInv'
<1> SUFFICES ASSUME MarketInv, AnnounceFrame PROVE MarketInv'
  OBVIOUS
<1> DEFINE c == Head(todo)
<1>1. /\ UNCHANGED <<now, alertVars, densityVars, changes>>
      /\ todo' = Tail(todo) /\ Pending("frame")
      /\ \/ /\ Moved(c.frame, c.at)
            /\ Advance(c.frame, c.at)
            /\ queue' = queue \/ queue' = Append(queue, Announcement(c.frame, c.at))
         \/ UNCHANGED <<candle_time, queue>>
      /\ Fault \/ UNCHANGED faults
  BY DEF AnnounceFrame
<1>2. todo # <<>> /\ c \in Call /\ c.do = "frame"
  BY <1>1, FirstCall DEF MarketInv
<1>3. 1 \in DOMAIN todo /\ todo[1] = c
  BY <1>2, TailOf DEF MarketInv, TodoPart
<1>4. PICK tf \in TimeFrame, t \in Time : tf = c.frame /\ t = c.at
  BY <1>2, CallKinds
<1>5. t <= now /\ candle_time[tf] <= CandleTime(t, tf)
  BY <1>2, <1>3, <1>4 DEF MarketInv, TodoPart, FramesCurrent
<1> HIDE DEF c
<1>6. ClockPart' /\ TodoPart'
  <2>1. CASE UNCHANGED <<candle_time, queue>>
    <3>1. ClockPart'
      BY <1>1, <2>1, ClockKept DEF MarketInv
    <3>2. TodoPart'
      BY <1>1, <1>2, <2>1, TodoShrinks DEF MarketInv
    <3> QED  BY <3>1, <3>2
  <2>2. CASE /\ Moved(tf, t) /\ Advance(tf, t)
             /\ queue' = queue \/ queue' = Append(queue, Announcement(tf, t))
    <3>1. ClockPart'
      BY <1>1, <1>5, <2>2, FrameAnnounced DEF MarketInv
    <3>2. candle_time \in [TimeFrame -> Int]
      BY DEF MarketInv, ClockPart, ClockTypeOK
    <3>3. TodoPart'
      BY <1>1, <1>2, <1>4, <2>2, <3>2, TodoAdvances DEF MarketInv, c
    <3> QED  BY <3>1, <3>3
  <2> QED  BY <1>1, <1>4, <2>1, <2>2
<1>7. AlertPart'
  BY <1>1, AlertKept DEF MarketInv
<1>8. DensityPart'
  BY <1>1, TimeTyped, DensityKept DEF MarketInv
<1>9. CounterPart'
  BY <1>1, FaultCounted DEF MarketInv
<1> QED  BY <1>6, <1>7, <1>8, <1>9 DEF MarketInv

LEMMA AskLastTimeInv == MarketInv /\ AskLastTime => MarketInv'
<1> SUFFICES ASSUME MarketInv, AskLastTime PROVE MarketInv'
  OBVIOUS
<1>1. /\ UNCHANGED <<now, candle_time, alertVars, queue, todo, faults, changes>>
      /\ Pending("count") /\ update = Idle /\ AskTime(Head(todo).symbol)
  BY DEF AskLastTime, clockVars
<1>2. PICK s \in Symbol : s = Head(todo).symbol
  BY <1>1, FirstCall, CallKinds DEF MarketInv
<1>3. TodoPart'
  BY <1>1, TimeTyped, TodoKept DEF MarketInv
<1>4. DensityPart'
  BY <1>1, <1>2, TimeAsked DEF MarketInv
<1> QED  BY <1>1, <1>3, <1>4, DensityStep

LEMMA ReadCandlesInv == MarketInv /\ ReadCandles => MarketInv'
<1> SUFFICES ASSUME MarketInv, ReadCandles PROVE MarketInv'
  OBVIOUS
<1>1. /\ UNCHANGED <<now, candle_time, alertVars, queue, changes>>
      /\ Pending("count") /\ update.phase = "asked"
      /\ \/ ReadSum(now) /\ UNCHANGED <<todo, faults>>
         \/ Abandon /\ todo' = Tail(todo) /\ Fault
  BY DEF ReadCandles, clockVars
<1>2. todo # <<>>
  BY <1>1, FirstCall DEF MarketInv
<1>3. TodoPart'
  BY <1>1, <1>2, TimeTyped, TodoKept, TodoShrinks DEF MarketInv
<1>4. DensityPart'
  BY <1>1, TimeTyped, SumRead, UpdateAbandoned DEF MarketInv
<1> QED  BY <1>1, <1>3, <1>4, DensityStep

LEMMA CountCandlesInv == MarketInv /\ CountCandles => MarketInv'
<1> SUFFICES ASSUME MarketInv, CountCandles PROVE MarketInv'
  OBVIOUS
<1>1. /\ UNCHANGED <<now, candle_time, alertVars, queue, faults, changes>>
      /\ Pending("count") /\ update.phase = "answered" /\ Count
      /\ todo' = Tail(todo) \/ todo' = todo
  BY DEF CountCandles, clockVars
<1>2. todo # <<>>
  BY <1>1, FirstCall DEF MarketInv
<1>3. TodoPart'
  BY <1>1, <1>2, TimeTyped, TodoKept, TodoShrinks DEF MarketInv
<1>4. DensityPart'
  BY <1>1, CandlesCounted DEF MarketInv
<1> QED  BY <1>1, <1>3, <1>4, DensityStep

LEMMA StampTimeInv == MarketInv /\ StampTime => MarketInv'
<1> SUFFICES ASSUME MarketInv, StampTime PROVE MarketInv'
  OBVIOUS
<1>1. /\ UNCHANGED <<now, candle_time, alertVars, queue, faults, changes>>
      /\ Pending("count") /\ update.phase = "saved" /\ Stamp /\ todo' = Tail(todo)
  BY DEF StampTime, clockVars
<1>2. todo # <<>>
  BY <1>1, FirstCall DEF MarketInv
<1>3. TodoPart'
  BY <1>1, <1>2, TodoShrinks DEF MarketInv
<1>4. DensityPart'
  BY <1>1, TimeTyped, CandlesStamped DEF MarketInv
<1> QED  BY <1>1, <1>3, <1>4, DensityStep

\* A step of the alert handler: it leaves the clock and the density alone.
LEMMA AlertStep ==
  ASSUME MarketInv, UNCHANGED <<now, candle_time, queue, densityVars, changes>>,
         Fault \/ UNCHANGED faults, TodoPart', AlertPart'
  PROVE  MarketInv'
<1>1. ClockPart'
  BY ClockKept DEF MarketInv
<1>2. DensityPart'
  BY TimeTyped, DensityKept DEF MarketInv
<1>3. CounterPart'
  BY FaultCounted DEF MarketInv
<1> QED  BY <1>1, <1>2, <1>3 DEF MarketInv

LEMMA TellLevelInv == MarketInv /\ TellLevel => MarketInv'
<1> SUFFICES ASSUME MarketInv, TellLevel PROVE MarketInv'
  OBVIOUS
<1>1. /\ UNCHANGED <<now, candle_time, queue, densityVars, changes>>
      /\ Fault \/ UNCHANGED faults
      /\ Pending("tell")
      /\ todo' = Tail(todo) \/ todo' = <<>>
  BY DEF TellLevel, clockVars
<1>2. todo # <<>> /\ Head(todo) \in Call /\ Head(todo).do = "tell"
  BY <1>1, FirstCall DEF MarketInv
<1>3. PICK k \in Key : k = Head(todo).key
  BY <1>2, CallKinds
<1>4. TodoPart'
  BY <1>1, <1>2, TodoShrinks, TodoEmptied DEF MarketInv
<1>5. \/ Crossed(k, Head(todo).tick) /\ (Tell(k) \/ TellBreaks(k))
      \/ UNCHANGED alertVars
  BY <1>3 DEF TellLevel
<1>6. AlertPart'
  BY <1>5, LevelTold, AlertKept DEF MarketInv
<1> QED  BY <1>1, <1>4, <1>6, AlertStep

LEMMA ResetLevelsInv == MarketInv /\ ResetLevels => MarketInv'
<1> SUFFICES ASSUME MarketInv, ResetLevels PROVE MarketInv'
  OBVIOUS
<1>1. UNCHANGED <<now, candle_time, queue, alertVars, densityVars, faults, changes>>
      /\ Pending("reset")
  BY DEF ResetLevels, clockVars
<1>2. todo # <<>> /\ Head(todo) \in Call /\ Head(todo).do = "reset"
  BY <1>1, FirstCall DEF MarketInv
<1>3. PICK ins \in ToSet(Instruments) : ins = Head(todo).instrument
  BY <1>2, CallKinds
<1> DEFINE K == DailyKeys(ins)
           q == [i \in DOMAIN K |-> [do |-> "drop", key |-> K[i]]]
<1>4. /\ q \in Seq(Call)
      /\ \A i \in DOMAIN q : q[i].do # "frame"
  <2>1. K \in Seq(Key)
    BY KeysTyped
  <2> HIDE DEF K
  <2>2. \A i \in DOMAIN K : [do |-> "drop", key |-> K[i]] \in Call
    BY <2>1 DEF Call
  <2> QED  BY <2>1, <2>2
<1>5. todo' = q \o Tail(todo)
  BY <1>3 DEF ResetLevels
<1> HIDE DEF q, K
<1>6. TodoPart'
  BY <1>1, <1>2, <1>4, <1>5, TodoExpands DEF MarketInv
<1>7. AlertPart'
  BY <1>1, AlertKept DEF MarketInv
<1> QED  BY <1>1, <1>6, <1>7, AlertStep

LEMMA DropLevelInv == MarketInv /\ DropLevel => MarketInv'
<1> SUFFICES ASSUME MarketInv, DropLevel PROVE MarketInv'
  OBVIOUS
<1>1. /\ UNCHANGED <<now, candle_time, queue, densityVars, faults, changes>>
      /\ Pending("drop") /\ Drop(Head(todo).key)
      /\ todo' = Tail(todo) \/ todo' = <<>>
  BY DEF DropLevel, clockVars
<1>2. todo # <<>> /\ Head(todo) \in Call /\ Head(todo).do = "drop"
  BY <1>1, FirstCall DEF MarketInv
<1>3. PICK k \in Key : k = Head(todo).key
  BY <1>2, CallKinds
<1>4. TodoPart'
  BY <1>1, <1>2, TodoShrinks, TodoEmptied DEF MarketInv
<1>5. AlertPart'
  BY <1>1, <1>3, LevelDropped DEF MarketInv
<1> QED  BY <1>1, <1>4, <1>5, AlertStep

LEMMA RefreshLevelsInv == MarketInv /\ RefreshLevels => MarketInv'
<1> SUFFICES ASSUME MarketInv, RefreshLevels PROVE MarketInv'
  OBVIOUS
<1>1. /\ UNCHANGED <<now, candle_time, queue, densityVars, faults, changes>>
      /\ Pending("refresh") /\ UpdatePrice /\ todo' = Tail(todo)
  BY DEF RefreshLevels, clockVars
<1>2. todo # <<>>
  BY <1>1, FirstCall DEF MarketInv
<1>3. TodoPart'
  BY <1>1, <1>2, TodoShrinks DEF MarketInv
<1>4. AlertPart'
  BY <1>1, LevelsRenewed DEF MarketInv, UpdatePrice
<1> QED  BY <1>1, <1>3, <1>4, AlertStep

LEMMA RestartInv == MarketInv /\ Restart => MarketInv'
<1> SUFFICES ASSUME MarketInv, Restart PROVE MarketInv'
  OBVIOUS
<1>1. /\ UNCHANGED <<now, level, queue, changes>>
      /\ Fault /\ Abandon /\ StartClock /\ prices' = level /\ touched' = {} /\ todo' = <<>>
  BY DEF Restart
<1>2. ClockPart'
  BY <1>1, ClockStarts DEF MarketInv
<1>3. TodoPart'
  BY <1>1, TodoEmptied
<1>4. AlertPart'
  <2>1. CASE UNCHANGED <<alerts, broken>>
    BY <1>1, <2>1, LevelsRenewed DEF MarketInv
  <2>2. CASE /\ Pending("tell")
             /\ alerts' = [alerts EXCEPT ![Head(todo).key] = @ + 1]
             /\ broken' = [broken EXCEPT ![Head(todo).key] = @ + 1]
    <3>1. Head(todo) \in Call /\ Head(todo).do = "tell"
      BY <2>2, FirstCall DEF MarketInv
    <3>2. PICK k \in Key : k = Head(todo).key
      BY <3>1, CallKinds
    <3> QED  BY <1>1, <2>2, <3>2, LevelsRenewedLate DEF MarketInv
  <2> QED  BY <2>1, <2>2 DEF Restart
<1>5. DensityPart'
  BY <1>1, TimeTyped, UpdateAbandoned DEF MarketInv
<1>6. CounterPart'
  BY <1>1, FaultCounted DEF MarketInv
<1> QED  BY <1>2, <1>3, <1>4, <1>5, <1>6 DEF MarketInv

LEMMA StutterInv == MarketInv /\ UNCHANGED vars => MarketInv'
<1> SUFFICES ASSUME MarketInv, UNCHANGED vars PROVE MarketInv'
  OBVIOUS
<1>1. UNCHANGED <<now, candle_time, alertVars, densityVars, queue, todo, faults, changes>>
  BY DEF vars, alertVars, densityVars
<1>2. ClockPart'
  BY <1>1, ClockKept DEF MarketInv
<1>3. TodoPart'
  BY <1>1, TimeTyped, TodoKept DEF MarketInv
<1>4. AlertPart'
  BY <1>1, AlertKept DEF MarketInv
<1>5. DensityPart'
  BY <1>1, TimeTyped, DensityKept DEF MarketInv
<1>6. CounterPart'
  BY <1>1 DEF MarketInv, CounterPart
<1> QED  BY <1>2, <1>3, <1>4, <1>5, <1>6 DEF MarketInv

LEMMA MarketInvNext == MarketInv /\ [Next]_vars => MarketInv'
  BY TimeInv, ArrivesInv, OperatorSetsInv, OperatorRebuildsInv, RebuildGoesOnInv, TakeInv,
     AnnounceFrameInv, AskLastTimeInv, ReadCandlesInv, CountCandlesInv, StampTimeInv,
     TellLevelInv, ResetLevelsInv, DropLevelInv, RefreshLevelsInv, RestartInv, StutterInv
  DEF Next, Handle

LEMMA MarketInvAlways == Spec => []MarketInv
  BY MarketInvInit, MarketInvNext, PTL DEF Spec

-----------------------------------------------------------------------------
\* A candle has begun by the moment it runs at.
LEMMA CandleBegun ==
  ASSUME NEW tf \in TimeFrame, NEW t \in Nat
  PROVE  CandleTime(t, tf) \in Int /\ CandleTime(t, tf) <= t
<1>0. CandleTime(t, tf) \in Int
  BY CandleTimeMonotone
<1>1. CASE tf = "MN1"
  <2> DEFINE Begun == {s \in MonthStarts : s <= t}
  <2>1. Begun \in SUBSET Int /\ Begun # {} /\ \A x \in Begun : x <= t
    <3>1. PICK s \in MonthStarts : s <= 0
      BY ClockAssumption
    <3>2. s \in Int /\ s <= t
      BY <3>1, ClockAssumption
    <3> QED  BY <3>1, <3>2, ClockAssumption
  <2>2. \E x \in Begun : \A y \in Begun : x >= y
    <3> HIDE DEF Begun
    <3>0. t \in Int
      OBVIOUS
    <3>1. \E x \in Begun : \A y \in Begun : y <= x
      BY <2>1, <3>0, LastExists
    <3> QED  BY <2>1, <3>1
  <2>3. CandleTime(t, tf) = Max(Begun)
    BY <1>1 DEF CandleTime
  <2>4. Max(Begun) \in Begun
    BY <2>2 DEF Max
  <2> HIDE DEF Begun
  <2> QED  BY <1>0, <2>1, <2>3, <2>4
<1>2. CASE tf = "W1"
  <2>1. Length[tf] \in Nat \ {0} /\ Monday \in Int
    BY <1>2, ClockAssumption
  <2>2. (t - Monday) % Length[tf] \in Nat
    BY <2>1
  <2>3. CandleTime(t, tf) = t - ((t - Monday) % Length[tf])
    BY <1>2 DEF CandleTime
  <2> QED  BY <1>0, <2>2, <2>3
<1>3. CASE tf \notin {"MN1", "W1"}
  <2>1. t % Length[tf] \in Nat
    BY <1>3, ClockAssumption
  <2>2. CandleTime(t, tf) = t - (t % Length[tf])
    BY <1>3 DEF CandleTime
  <2> QED  BY <1>0, <2>1, <2>2
<1> QED  BY <1>0, <1>1, <1>2, <1>3

\* No candle that is known, or announced, begins later than now.
LEMMA NoneInFuture ==
  ASSUME MarketInv
  PROVE  /\ \A tf \in TimeFrame : candle_time[tf] <= now
         /\ \A i \in DOMAIN queue : IsFrame(queue[i]) => queue[i].current <= now
         /\ \A i \in DOMAIN todo : todo[i].do = "frame" => todo[i].at <= now
<1>1. now \in Time /\ now \in Nat /\ candle_time \in [TimeFrame -> Int] /\ queue \in Seq(Event)
  BY DEF MarketInv, ClockPart, ClockTypeOK, Time
<1>2. ASSUME NEW tf \in TimeFrame PROVE candle_time[tf] <= now
  <2>1. CandleTime(now, tf) \in Int /\ CandleTime(now, tf) <= now
    BY <1>1, CandleBegun
  <2>2. candle_time[tf] <= CandleTime(now, tf)
    BY <1>1 DEF MarketInv, ClockPart, TickerBehind
  <2> QED  BY <1>1, <2>1, <2>2
<1>3. ASSUME NEW i \in DOMAIN queue, IsFrame(queue[i]) PROVE queue[i].current <= now
  <2>1. queue[i].timeframe \in TimeFrame /\ queue[i].current \in Int
    BY <1>1, <1>3, EventKinds
  <2>2. queue[i].current <= candle_time[queue[i].timeframe]
    BY <1>3 DEF MarketInv, ClockPart, QueueInOrder
  <2> QED  BY <1>1, <1>2, <2>1, <2>2
<1>4. ASSUME NEW i \in DOMAIN todo, todo[i].do = "frame" PROVE todo[i].at <= now
  <2>1. todo[i] \in Call
    BY DEF MarketInv, TodoPart
  <2>2. todo[i].frame \in TimeFrame /\ todo[i].at \in Time
    BY <1>4, <2>1, CallKinds
  <2> QED  BY <1>4, <2>2 DEF MarketInv, TodoPart, FramesCurrent
<1> QED  BY <1>2, <1>3, <1>4

(* Every variable of the handlers keeps its range, and no LAST_TIME, no     *)
(* candle of the ticker or of an event of the queue and no moment it still  *)
(* looks at lies in the future, for any frames, pairs, levels and faults.   *)
THEOREM TypeCorrect == Spec => []TypeOK
<1>1. MarketInv => TypeOK
  <2> SUFFICES ASSUME MarketInv PROVE TypeOK
    OBVIOUS
  <2>1. ClockTypeOK /\ AlertTypeOK /\ queue \in Seq(Event) /\ todo \in Seq(Call)
    BY DEF MarketInv, ClockPart, TodoPart, AlertPart
  <2>2. DensityTypeOK /\ \A s \in Symbol : last[s] <= now
    BY DEF MarketInv, DensityPart
  <2>3. faults \in 0 .. MaxFaults /\ changes \in 0 .. MaxChanges
    BY DEF MarketInv, CounterPart
  <2> QED  BY <2>1, <2>2, <2>3, NoneInFuture DEF TypeOK
<1> QED  BY <1>1, MarketInvAlways, PTL

(* The TimeFrameEvents of a frame that wait in the queue do not overlap and *)
(* are in order, across restarts of the ticker (event/handler.py) too.      *)
THEOREM FramesInOrder == Spec => []CandlesInOrder
<1>1. MarketInv => CandlesInOrder
  <2> SUFFICES ASSUME MarketInv PROVE CandlesInOrder
    OBVIOUS
  <2>1. now \in Time
    BY TimeTyped
  <2> QED  BY <2>1 DEF MarketInv, ClockPart, CandlesInOrder, TickerBehind
<1> QED  BY <1>1, MarketInvAlways, PTL

(* PriceAlertHandler tells a level once for each time it is set, and once   *)
(* more only for each time the removal after the messages did not happen.   *)
THEOREM LevelsToldOnce == Spec => []ToldOnce
<1>1. MarketInv => ToldOnce
  BY DEF MarketInv, AlertPart, AlertTypeOK, ToldInv, ToldOnce
<1> QED  BY <1>1, MarketInvAlways, PTL

(* update_density and init_density (utils/price_density.py): whenever no    *)
(* call is between its two writes and no two have worked on the symbol at   *)
(* once, each candle through LAST_TIME is in the sum once and none after,   *)
(* but for those that a call which died between its writes added or left    *)
(* out, and for the one that was running when the sum was built.            *)
THEOREM CandlesCountedOnce == Spec => []CountedOnce
<1>1. MarketInv => CountedOnce
  <2> SUFFICES ASSUME MarketInv, NEW s \in Symbol \ spoilt, NEW c \in Traded,
                      ~(Updating(s) /\ update.phase = "saved"), Unstamped(s) = {}
               PROVE  /\ counted[s][c] <= 1 + torn[s][c]
                      /\ c > last[s] => counted[s][c] <= torn[s][c]
                      /\ (c <= last[s] /\ \E d \in Traded : d < c /\ counted[s][d] > torn[s][d])
                           => counted[s][c] > 0 \/ c \in lost[s]
    BY DEF CountedOnce
  <2>1. ~InHand(s, c)
    BY DEF InHand
  <2> QED  BY <2>1 DEF MarketInv, DensityPart, CountInv
<1> QED  BY <1>1, MarketInvAlways, PTL
=============================================================================
