------------------------- MODULE StreamRunnerProofs -------------------------
(* Theorems about StreamRunner: its types, and what ties the runner's      *)
(* connection to the handlers' and to the market. Liveness is left to TLC. *)
EXTENDS StreamRunner, TLAPS

\* The counters stay in their ranges.
LEMMA CounterTypes ==
  /\ 0 \in 0 .. BeatEvery - 1
  /\ 0 \in 0 .. RenewEvery - 1
  /\ 0 \in 0 .. Burst
  /\ \A n \in Nat : (n + 1) % BeatEvery \in 0 .. BeatEvery - 1
  /\ \A n \in Nat : (n + 1) % RenewEvery \in 0 .. RenewEvery - 1
BY BoundAssumption

\* What is put is an event, and a queue without its head is a queue.
LEMMA QueueTypes ==
  ASSUME queue \in Seq(Event)
  PROVE  /\ \A e \in Event : Append(queue, e) \in Seq(Event)
         /\ queue # <<>> => Tail(queue) \in Seq(Event)
         /\ queue \o <<"HEARTBEAT">> \in Seq(Event)
         /\ queue \o <<"HEARTBEAT", "STARTUP">> \in Seq(Event)
  <1>1. "HEARTBEAT" \in Event /\ "STARTUP" \in Event
    BY DEF Event, Handled
  <1>2. <<"HEARTBEAT">> \in Seq(Event) /\ <<"HEARTBEAT", "STARTUP">> \in Seq(Event)
    BY <1>1
  <1> QED
    BY <1>2

LEMMA TypeInit == Init => TypeOK
  <1> SUFFICES ASSUME Init PROVE TypeOK
    OBVIOUS
  <1>1. queue \in Seq(Event)
    BY DEF Init
  <1>2. 0 \in 0 .. MaxDeaths
    BY BoundAssumption
  <1> QED
    BY <1>1, <1>2, CounterTypes DEF Init, TypeOK, Connected

\* A process that dies leaves its variables in their ranges, whatever it was at.
LEMMA DiesType ==
  ASSUME TypeOK, Dies, queue' \in Seq(Event)
  PROVE  TypeOK'
  <1>1. deaths' \in 0 .. MaxDeaths
    BY BoundAssumption DEF TypeOK, Dies
  <1> QED
    BY <1>1, CounterTypes DEF TypeOK, Dies

\* Whatever a call on the connection does, conn and shared stay in their ranges.
LEMMA LinkTypes ==
  ASSUME TypeOK,
         \/ NewConnect \/ NewConnectRaises \/ Reconnect \/ ReconnectRaises
         \/ Close \/ MarketOpens \/ MarketOpenFails \/ Mend \/ UNCHANGED link
         \/ \E e \in Order : Obeys(e)
  PROVE  conn' \in Connected \cup {"none", "closed"} /\ shared' \in BOOLEAN
  <1>1. /\ NewConnect => conn' \in Connected /\ shared' \in BOOLEAN
        /\ NewConnectRaises => conn' \in Connected \cup {"none"} /\ shared' \in BOOLEAN
        /\ Reconnect => conn' \in Connected /\ shared' \in BOOLEAN
        /\ ReconnectRaises => conn' \in Connected \cup {"none", "closed"} /\ shared' \in BOOLEAN
        /\ Close => conn' \in {"closed"} /\ shared' \in BOOLEAN
        /\ UNCHANGED link => conn' \in Connected \cup {"none", "closed"} /\ shared' \in BOOLEAN
    BY DEF NewConnect, NewConnectRaises, Reconnect, ReconnectRaises, Close, TypeOK, link
  <1>2. ASSUME NEW e \in Order, Obeys(e)
        PROVE  \/ NewConnect \/ NewConnectRaises \/ Reconnect \/ ReconnectRaises
               \/ Close \/ UNCHANGED link
    BY <1>2 DEF Obeys, Order, MarketOpens, MarketOpenFails
  <1> QED
    BY <1>1, <1>2 DEF MarketOpens, MarketOpenFails, Mend

LEMMA TypeStep == TypeOK /\ [Next]_vars => TypeOK'
  <1> SUFFICES ASSUME TypeOK, [Next]_vars PROVE TypeOK'
    OBVIOUS
  <1> USE DEF TypeOK
  <1>0. queue \in Seq(Event)
    OBVIOUS
  <1>1. CASE MarketTurns
    BY <1>1 DEF MarketTurns, link, counters
  <1>2. CASE Network
    BY <1>2 DEF Network, counters
  <1>3. CASE Age
    BY <1>3 DEF Age, link, counters
  <1>4. CASE Tick
    <2>1. "TICK_PRICE" \in Event
      BY DEF Event, Handled
    <2>2. queue' \in Seq(Event) /\ burst' \in 0 .. Burst
      BY <1>4, <2>1, QueueTypes, BoundAssumption DEF Tick, PutFromOutside
    <2> QED
      BY <1>4, <2>2 DEF Tick, link, counters
  <1>5. ASSUME NEW e \in Order, Debug(e) PROVE TypeOK'
    <2>1. e \in Event
      BY DEF Event
    <2>2. queue' \in Seq(Event) /\ burst' \in 0 .. Burst
      BY <1>5, <2>1, QueueTypes, BoundAssumption DEF Debug, PutFromOutside
    <2> QED
      BY <1>5, <2>2 DEF Debug, link, counters
  <1>6. CASE Take
    BY <1>6, QueueTypes DEF Take, Remains, link
  <1>7. CASE HandlerFails
    <2>1. CASE Dies /\ UNCHANGED queue
      BY <2>1, DiesType
    <2>2. CASE /\ errors' = (errors + 1) % RenewEvery
               /\ NewConnect \/ (errors' # 0 /\ UNCHANGED link)
               /\ UNCHANGED <<world, stale, queue, pc, market, loops, initialized,
                              burst, deaths>>
      <3>1. conn' \in Connected \cup {"none", "closed"} /\ shared' \in BOOLEAN
        BY <2>2, LinkTypes
      <3>2. errors' \in 0 .. RenewEvery - 1
        BY <2>2, CounterTypes, BoundAssumption
      <3> QED
        BY <2>2, <3>1, <3>2
    <2> QED
      BY <1>7, <2>1, <2>2 DEF HandlerFails
  <1>8. CASE HandlersDone
    BY <1>8 DEF HandlersDone, Remains, link
  <1>9. CASE Obey
    <2>1. queue' \in Seq(Event)
      BY <1>9, QueueTypes DEF Obey
    <2>2. CASE Dies
      BY <2>1, <2>2, DiesType
    <2>3. CASE /\ Obeys(Head(queue))
               /\ UNCHANGED <<pc, market, loops, burst>>
               /\ Remains
      <3>1. conn' \in Connected \cup {"none", "closed"} /\ shared' \in BOOLEAN
        BY <1>9, <2>3, LinkTypes DEF Obey
      <3> QED
        BY <2>1, <2>3, <3>1 DEF Remains
    <2> QED
      BY <1>9, <2>2, <2>3 DEF Obey
  <1>10. CASE Sleep
    <2>1. loops' \in 0 .. BeatEvery - 1
      BY <1>10, CounterTypes, BoundAssumption DEF Sleep
    <2> QED
      BY <1>10, <2>1, CounterTypes DEF Sleep, Remains, link
  <1>11. CASE Unchanged
    BY <1>11 DEF Unchanged, Remains, link
  <1>12. CASE Opens
    <2>1. queue' \in Seq(Event)
      BY <1>12, QueueTypes DEF Opens, Event, Handled
    <2>2. CASE Dies
      BY <2>1, <2>2, DiesType
    <2>3. CASE /\ MarketOpens
               /\ market' = TRUE
               /\ pc' = "beat"
               /\ UNCHANGED <<loops, burst>>
               /\ Remains
      <3>1. conn' \in Connected \cup {"none", "closed"} /\ shared' \in BOOLEAN
        BY <2>3, LinkTypes
      <3> QED
        BY <2>1, <2>3, <3>1 DEF Remains
    <2> QED
      BY <1>12, <2>2, <2>3 DEF Opens
  <1>13. CASE OpenFails
    <2>1. conn' \in Connected \cup {"none", "closed"} /\ shared' \in BOOLEAN
      BY <1>13, LinkTypes DEF OpenFails
    <2> QED
      BY <1>13, <2>1 DEF OpenFails, Remains
  <1>14. CASE Closes
    BY <1>14 DEF Closes, Remains, link
  <1>15. CASE Closed
    <2>1. CASE Dies
      BY <1>15, <2>1, DiesType DEF Closed
    <2>2. CASE Close /\ pc' = "drain"
      BY <1>15, <2>2 DEF Closed, Close, Remains, Dies
    <2> QED
      BY <1>15, <2>1, <2>2 DEF Closed
  <1>16. CASE Beat
    BY <1>16, QueueTypes DEF Beat, link
  <1>17. CASE Fine
    BY <1>17 DEF Fine, Remains, link
  <1>18. CASE CheckConnection
    <2>1. CASE Dies
      BY <1>18, <2>1, DiesType DEF CheckConnection
    <2>2. CASE Mend /\ pc' = "drain" /\ UNCHANGED <<market, loops, burst>> /\ Remains
      <3>1. conn' \in Connected \cup {"none", "closed"} /\ shared' \in BOOLEAN
        BY <2>2, LinkTypes
      <3> QED
        BY <1>18, <2>2, <3>1 DEF CheckConnection, Remains
    <2> QED
      BY <1>18, <2>1, <2>2 DEF CheckConnection
  <1>19. CASE Crash
    BY <1>19, DiesType DEF Crash
  <1>20. CASE Restart
    BY <1>20 DEF Restart, Remains, Connected
  <1>21. CASE UNCHANGED vars
    BY <1>21 DEF vars
  <1> QED
    BY <1>1, <1>2, <1>3, <1>4, <1>5, <1>6, <1>7, <1>8, <1>9, <1>10, <1>11, <1>12,
       <1>13, <1>14, <1>15, <1>16, <1>17, <1>18, <1>19, <1>20, <1>21
    DEF Next, Outside, MainLoop

(* Type correctness, for every heartbeat interval and every bound.         *)
THEOREM TypeCorrect == Spec => []TypeOK
  <1> QED
    BY TypeInit, TypeStep, PTL DEF Spec

-----------------------------------------------------------------------------
(* OneConnection is inductive. The step that matters is market_open's: it  *)
(* is the one caller that swallows what new_connect raises, and it calls   *)
(* new_connect only when there is no connection, which the invariant rules *)
(* out. Everywhere else a new_connect that raises ends the process.        *)
LEMMA OneStep == TypeOK /\ OneConnection /\ [Next]_vars => OneConnection'
  <1> SUFFICES ASSUME TypeOK, OneConnection, [Next]_vars PROVE OneConnection'
    OBVIOUS
  <1> USE DEF OneConnection
  <1>1. CASE Outside
    BY <1>1 DEF Outside, MarketTurns, Network, Age, Tick, Debug, link, Connected
  <1>2. ASSUME Dies PROVE OneConnection'
    BY <1>2 DEF Dies
  <1>3. ASSUME pc # "down",
               \/ NewConnect \/ Reconnect \/ ReconnectRaises
               \/ Close \/ MarketOpens \/ MarketOpenFails \/ UNCHANGED link
        PROVE  conn' # "none" /\ shared'
    <2>1. conn # "none" /\ shared
      BY <1>3
    <2>2. CASE NewConnect
      BY <2>2 DEF NewConnect, Connected
    <2>3. CASE Reconnect \/ ReconnectRaises \/ Close \/ UNCHANGED link
      BY <2>1, <2>3 DEF Reconnect, ReconnectRaises, Close, link, Connected
    <2> QED
      BY <1>3, <2>1, <2>2, <2>3 DEF MarketOpens, MarketOpenFails
  <1>4. CASE Take \/ HandlersDone \/ Sleep \/ Unchanged \/ Closes \/ Beat \/ Fine
    BY <1>4 DEF Take, HandlersDone, Sleep, Unchanged, Closes, Beat, Fine, link
  <1>5. CASE HandlerFails
    BY <1>2, <1>3, <1>5 DEF HandlerFails
  <1>6. CASE Obey
    <2>1. ASSUME Obeys(Head(queue)) PROVE OneConnection'
      BY <1>3, <1>6, <2>1 DEF Obey, Obeys, Order
    <2> QED
      BY <1>2, <1>6, <2>1 DEF Obey
  <1>7. CASE Opens \/ OpenFails
    BY <1>2, <1>3, <1>7 DEF Opens, OpenFails
  <1>8. CASE Closed
    BY <1>2, <1>3, <1>8 DEF Closed
  <1>9. CASE CheckConnection
    BY <1>2, <1>3, <1>9 DEF CheckConnection, Mend
  <1>10. CASE Crash
    BY <1>2, <1>10 DEF Crash
  <1>11. CASE Restart
    BY <1>11 DEF Restart, Connected
  <1>12. CASE UNCHANGED vars
    BY <1>12 DEF vars
  <1> QED
    BY <1>1, <1>4, <1>5, <1>6, <1>7, <1>8, <1>9, <1>10, <1>11, <1>12
    DEF Next, MainLoop

(* While the process lives, runner and handlers use one and the same       *)
(* connection.                                                             *)
THEOREM ConnectionShared == Spec => []OneConnection
  <1>1. Init => OneConnection
    BY DEF Init, OneConnection, Connected
  <1> QED
    BY <1>1, OneStep, TypeCorrect, PTL DEF Spec

(* The market opens and closes for the runner only together with its       *)
(* connection.                                                             *)
THEOREM MarketMoves == Spec => MarketMovesWithConnection
  <1> DEFINE Moves == pc # "down" /\ pc' # "down" /\ market' # market
                        => IF market' THEN conn' \in Connected ELSE conn' = "closed"
  <1>1. TypeOK /\ OneConnection /\ [Next]_vars => [Moves]_vars
    <2> SUFFICES ASSUME TypeOK, OneConnection, Next, pc # "down", pc' # "down",
                        market' # market
                 PROVE  IF market' THEN conn' \in Connected ELSE conn' = "closed"
      OBVIOUS
    <2>1. ~Dies
      BY DEF Dies
    <2>2. CASE Outside
      BY <2>2 DEF Outside, MarketTurns, Network, Age, Tick, Debug
    <2>3. CASE Opens
      BY <2>1, <2>3 DEF Opens, MarketOpens, OneConnection, Reconnect
    <2>4. CASE Closed
      BY <2>1, <2>4 DEF Closed, Close
    <2>5. CASE Take \/ HandlersDone \/ Obey \/ Sleep \/ Unchanged \/ OpenFails
               \/ Closes \/ Beat \/ Fine \/ CheckConnection \/ HandlerFails
      BY <2>1, <2>5 DEF Take, HandlersDone, Obey, Sleep, Unchanged, OpenFails,
           Closes, Beat, Fine, CheckConnection, HandlerFails
    <2>6. CASE Crash \/ Restart
      BY <2>1, <2>6 DEF Crash, Restart
    <2> QED
      BY <2>2, <2>3, <2>4, <2>5, <2>6 DEF Next, MainLoop
  <1> QED
    BY <1>1, TypeCorrect, ConnectionShared, PTL DEF Spec, MarketMovesWithConnection
=============================================================================
