----------------------------- MODULE PriceAlert -----------------------------
(***************************************************************************)
(* PriceAlertHandler (event/handler.py): tells the operator when a price   *)
(* crosses one of the levels he has put into Redis. The handler compares   *)
(* ticks with its own copy of the levels, which it renews at its start and *)
(* at every HEARTBEAT-th heartbeat. A level is told once: it is deleted    *)
(* from Redis and from the copy after the messages have gone out. The      *)
(* levels of the day are deleted when the day's candle event arrives.      *)
(*                                                                         *)
(* The operator changes Redis at any time (he is not part of src/).        *)
(***************************************************************************)
EXTENDS Integers, Sequences, SequencesExt

CONSTANTS
  Instruments,  \* self.instruments, in order
  Resistance,   \* resistance_suffix, in order
  Support,      \* support_suffix, in order
  Price         \* the prices of ticks and levels; 0 is no level

VARIABLES
  level,        \* the levels in Redis
  prices,       \* the handler's copy: key -> level, a popped key is not there
  \* Bookkeeping of the model.
  touched,      \* keys the operator wrote since the copy was last renewed
  alerts,       \* alerts sent for a key since the operator last wrote it
  broken        \* alerts for it that were sent and not followed by its removal

alertVars == <<level, prices, touched, alerts, broken>>

None == 0
Suffix == ToSet(Resistance \o Support)
Key == ToSet(Instruments) \X Suffix

ASSUME AlertAssumption ==
  /\ Price \subseteq Nat \ {None}
  /\ Instruments \in Seq(STRING)
  /\ Resistance \in Seq(STRING) /\ Last(Resistance) = "R"
  /\ Support \in Seq(STRING) /\ Last(Support) = "S"

AlertTypeOK ==
  /\ level \in [Key -> Price \cup {None}]
  /\ DOMAIN prices \subseteq Key
  /\ \A k \in DOMAIN prices : prices[k] \in Price \cup {None}
  /\ touched \subseteq Key
  /\ alerts \in [Key -> Nat]
  /\ broken \in [Key -> Nat]

AlertInit ==
  /\ level = [k \in Key |-> None]
  /\ prices = level
  /\ touched = {}
  /\ alerts = [k \in Key |-> 0]
  /\ broken = alerts

-----------------------------------------------------------------------------
\* The keys a tick is compared with, and those the daily reset removes, in order:
\* reset_rs takes R and S, the last of their lists, out.
KeysOf(ins) == [i \in 1 .. Len(Resistance \o Support) |->
                  <<ins, (Resistance \o Support)[i]>>]

DailySuffix == Front(Resistance) \o Front(Support)
DailyKeys(ins) == [i \in DOMAIN DailySuffix |-> <<ins, DailySuffix[i]>>]
Daily == ToSet(Instruments) \X ToSet(DailySuffix)

\* A mutant of UpdatePrice: keys that are gone from Redis keep their last level.
UpdatePriceKeeps ==
  /\ prices' = [k \in Key |-> IF level[k] = None /\ k \in DOMAIN prices
                              THEN prices[k] ELSE level[k]]
  /\ touched' = {}
  /\ UNCHANGED <<level, alerts, broken>>

\* A mutant of UpdatePrice: only keys that are in the copy are read again.
UpdatePriceKnown ==
  /\ prices' = [k \in DOMAIN prices |-> level[k]]
  /\ touched' = {}
  /\ UNCHANGED <<level, alerts, broken>>

\* update_price.
UpdatePrice ==
  /\ prices' = level
  /\ touched' = {}
  /\ UNCHANGED <<level, alerts, broken>>

\* The condition under which price_alert tells a key of a <<bid, ask>>.
Crossed(k, tick) ==
  /\ k \in DOMAIN prices /\ prices[k] # None
  /\ IF k[2] \in ToSet(Resistance) THEN tick[1] > prices[k] ELSE tick[2] < prices[k]

\* A mutant of Tell: the key is only popped.
TellPopsOnly(k) ==
  /\ prices' = [j \in DOMAIN prices \ {k} |-> prices[j]]
  /\ alerts' = [alerts EXCEPT ![k] = @ + 1]
  /\ UNCHANGED <<level, touched, broken>>

\* remove after the messages: the level Redis holds now goes, whichever it is.
Tell(k) ==
  /\ level' = [level EXCEPT ![k] = None]
  /\ prices' = [j \in DOMAIN prices \ {k} |-> prices[j]]
  /\ alerts' = [alerts EXCEPT ![k] = @ + 1]
  /\ UNCHANGED <<touched, broken>>

\* send_to_admin or tg.send_me raises, or the process dies, before the removal.
TellBreaks(k) ==
  /\ alerts' = [alerts EXCEPT ![k] = @ + 1]
  /\ broken' = [broken EXCEPT ![k] = @ + 1]
  /\ UNCHANGED <<level, prices, touched>>

\* remove in reset_rs: the key leaves Redis in any case, and then pop raises
\* KeyError for a key that is not in the copy (HasCopy tells the caller).
HasCopy(k) == k \in DOMAIN prices

Drop(k) ==
  /\ level' = [level EXCEPT ![k] = None]
  /\ prices' = [j \in DOMAIN prices \ {k} |-> prices[j]]
  /\ UNCHANGED <<touched, alerts, broken>>

\* The operator, with redis-cli or a script of his own.
SetLevel(k, v) ==
  /\ level' = [level EXCEPT ![k] = v]
  /\ touched' = touched \cup {k}
  /\ alerts' = [alerts EXCEPT ![k] = 0]
  /\ broken' = [broken EXCEPT ![k] = 0]
  /\ UNCHANGED prices
=============================================================================
