---------------------------- MODULE PriceDensity ----------------------------
(***************************************************************************)
(* update_density and init_density (utils/price_density.py): how much was  *)
(* traded at each price, summed over all one-minute candles. The sum       *)
(* (<symbol>_H1) and the time up to which candles are in it                *)
(* (<symbol>_LAST_TIME) are two keys of Redis, read and written one after  *)
(* the other. The handler runs update_density; init_density is run by      *)
(* hand, in a process of its own, at any time and several times at once.   *)
(* What a candle adds to which price is left out; what is kept is how      *)
(* often each candle has been added.                                       *)
(*                                                                         *)
(* A candle is one unit of time. A LAST_TIME is written half a minute into *)
(* the last candle of the answer, so it says "through candle t".           *)
(***************************************************************************)
EXTENDS Integers, Sequences

CONSTANTS
  Symbols,      \* the handler's pairs, in order
  MaxCandles,   \* FXCM.MAX_CANDLES, what one request without a start answers
  Traded,       \* the moments a candle exists for: none while the market is closed
  LastMoment    \* bound: no candle starts later

VARIABLES
  counted,      \* how often each candle is in the sum of a symbol
  last,         \* LAST_TIME of a symbol, Never when it has none
  update,       \* the call of update_density under way
  rebuilds,     \* the calls of init_density under way
  \* Bookkeeping of the model.
  torn,         \* per candle: added by a call that died before it wrote LAST_TIME,
                \* or still running when the sum was built from scratch
  lost,         \* candles before LAST_TIME that the sum of a dead rebuilding lacks
  spoilt        \* symbols that two calls worked on at once, since the last
                \* rebuilding that wrote the sum while no other call was at work

redisVars == <<counted, last>>
bookVars == <<torn, lost, spoilt>>
densityVars == <<redisVars, update, rebuilds, bookVars>>

Symbol == {Symbols[i] : i \in DOMAIN Symbols}
Candle == 0 .. LastMoment
Never == -1

ASSUME DensityAssumption ==
  /\ Symbols \in Seq(STRING)
  /\ MaxCandles \in Nat \ {0}
  /\ LastMoment \in Nat
  /\ Traded \subseteq Candle

Sum == [Candle -> Nat]
LastTime == Candle \cup {Never}
Idle == [phase |-> "idle"]
Update ==
  {Idle}
    \cup [phase : {"asked"}, symbol : Symbol, from : LastTime]
    \cup [phase : {"answered"}, symbol : Symbol, sum : Sum, answer : SUBSET Candle]
    \cup [phase : {"saved"}, symbol : Symbol, answer : SUBSET Candle]
Rebuild == [symbol : Symbol, at : Candle \ {0}, saved : BOOLEAN]

DensityTypeOK ==
  /\ counted \in [Symbol -> Sum]
  /\ last \in [Symbol -> LastTime]
  /\ update \in Update
  /\ rebuilds \subseteq Rebuild
  /\ torn \in [Symbol -> Sum]
  /\ lost \in [Symbol -> SUBSET Candle]
  /\ spoilt \subseteq Symbol

DensityInit ==
  /\ counted = [s \in Symbol |-> [c \in Candle |-> 0]]
  /\ last = [s \in Symbol |-> Never]
  /\ update = Idle
  /\ rebuilds = {}
  /\ torn = counted
  /\ lost = [s \in Symbol |-> {}]
  /\ spoilt = {}

-----------------------------------------------------------------------------
\* Who works on a symbol: update_density from its first read to its last write,
\* init_density, which reads nothing, between its two writes.
Updating(s) == update # Idle /\ update.symbol = s
Unstamped(s) == {r \in rebuilds : r.symbol = s /\ r.saved}

\* A mutant of Answer: LAST_TIME is read as the start of the last candle.
AnswerFromStart(from, t) ==
  IF from # Never
  THEN {c \in Traded : from <= c /\ c <= t}
  ELSE {c \in Traded : t - MaxCandles < c /\ c <= t}

\* What get_candles answers at time t: from LAST_TIME on, or the last MAX_CANDLES.
Answer(from, t) ==
  IF from # Never
  THEN {c \in Traded : from < c /\ c <= t}
  ELSE {c \in Traded : t - MaxCandles < c /\ c <= t}

Plus(f, S) == [c \in Candle |-> IF c \in S THEN f[c] + 1 ELSE f[c]]
Latest(S) == CHOOSE c \in S : \A d \in S : d <= c

\* update_density reads LAST_TIME.
AskTime(s) ==
  /\ update' = [phase |-> "asked", symbol |-> s, from |-> last[s]]
  /\ spoilt' = IF Unstamped(s) # {} THEN spoilt \cup {s} ELSE spoilt
  /\ UNCHANGED <<redisVars, rebuilds, torn, lost>>

\* It reads the sum and asks the broker. The answer may lack the candle that is
\* still running.
ReadSum(t) ==
  /\ \E S \in {Answer(update.from, t), Answer(update.from, t) \ {t}} :
       update' = [phase |-> "answered", symbol |-> update.symbol,
                  sum |-> counted[update.symbol], answer |-> S]
  /\ UNCHANGED <<redisVars, rebuilds, bookVars>>

\* _save_redis. After an empty answer df.iloc[-1] raises, with the sum saved
\* unchanged.
Count ==
  /\ counted' = [counted EXCEPT ![update.symbol] = Plus(update.sum, update.answer)]
  /\ update' = IF update.answer = {} THEN Idle
               ELSE [phase |-> "saved", symbol |-> update.symbol, answer |-> update.answer]
  /\ UNCHANGED <<last, rebuilds, bookVars>>

Stamp ==
  /\ last' = [last EXCEPT ![update.symbol] = Latest(update.answer)]
  /\ update' = Idle
  /\ UNCHANGED <<counted, rebuilds, bookVars>>

\* What the call was at is dropped: it raises, or the process dies.
Abandon ==
  /\ update' = Idle
  /\ torn' = IF update.phase = "saved"
             THEN [torn EXCEPT ![update.symbol] = Plus(@, update.answer)] ELSE torn
  /\ UNCHANGED <<redisVars, rebuilds, lost, spoilt>>

-----------------------------------------------------------------------------
\* init_density takes the time, then fetches the candles through it in a loop.
StartRebuild(s, t) ==
  /\ t > 0
  /\ rebuilds' = rebuilds \cup {[symbol |-> s, at |-> t, saved |-> FALSE]}
  /\ UNCHANGED <<redisVars, update, bookVars>>

\* Another call works on the symbol of r.
Beside(r) == Updating(r.symbol) \/ Unstamped(r.symbol) \ {r} # {}

\* It writes the sum, whatever Redis holds by then.
SaveRebuild(r) ==
  /\ ~r.saved
  /\ rebuilds' = (rebuilds \ {r}) \cup {[r EXCEPT !.saved = TRUE]}
  /\ \E S \in {{c \in Traded : c <= r.at}, {c \in Traded : c < r.at}} :
       counted' = [counted EXCEPT ![r.symbol] = [c \in Candle |-> IF c \in S THEN 1 ELSE 0]]
  /\ torn' = [torn EXCEPT ![r.symbol] = [c \in Candle |-> 0]]
  /\ lost' = [lost EXCEPT ![r.symbol] = {}]
  /\ spoilt' = IF Beside(r) THEN spoilt \cup {r.symbol} ELSE spoilt \ {r.symbol}
  /\ UNCHANGED <<last, update>>

\* It writes LAST_TIME, a minute before its start: the candle that was running
\* then will be read again.
StampRebuild(r) ==
  /\ r.saved
  /\ rebuilds' = rebuilds \ {r}
  /\ last' = [last EXCEPT ![r.symbol] = r.at - 1]
  /\ torn' = [torn EXCEPT ![r.symbol][r.at] = counted[r.symbol][r.at]]
  /\ spoilt' = IF Beside(r) THEN spoilt \cup {r.symbol} ELSE spoilt
  /\ UNCHANGED <<counted, update, lost>>

\* The call raises or is killed; between its writes it leaves a sum that does not
\* fit LAST_TIME.
EndRebuild(r) ==
  LET s == r.symbol
  IN  /\ rebuilds' = rebuilds \ {r}
      /\ IF r.saved
         THEN /\ torn' = [torn EXCEPT ![s] =
                            [c \in Candle |-> IF c > last[s] THEN counted[s][c] ELSE 0]]
              /\ lost' = [lost EXCEPT ![s] =
                            {c \in Traded : c <= last[s] /\ counted[s][c] = 0}]
         ELSE UNCHANGED <<torn, lost>>
      /\ UNCHANGED <<redisVars, update, spoilt>>
=============================================================================
