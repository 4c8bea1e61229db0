------------------------- MODULE TradeManagerProofs -------------------------
(***************************************************************************)
(* Proofs about TradeManager, for every set of trades, of prices, and of   *)
(* periods. TypeOK is inductive by itself; Consistent and Truthful are     *)
(* inductive with it, and the refinement needs all three.                  *)
(***************************************************************************)
EXTENDS TradeManager, TLAPS

-----------------------------------------------------------------------------
(* The operators the handlers are made of.                                 *)

(* Books of marks stay books of marks.                                     *)
LEMMA BookTypes ==
  ASSUME TypeOK
  PROVE  /\ Nobody \in [Trade -> Mark \cup {None}]
         /\ \A S \in SUBSET Trade : Adopted(S) \in [Trade -> Mark \cup {None}]
         /\ Matched \in [Trade -> Mark \cup {None}]
         /\ \A S \in SUBSET Trade :
              Restored(Matched, S) \in [Trade -> Mark \cup {None}]
<1>1. Fresh \in Mark
  BY DEF Fresh, Mark
<1>2. \A S \in SUBSET Trade : Adopted(S) \in [Trade -> Mark \cup {None}]
  BY <1>1 DEF TypeOK, Adopted
<1>3. Matched \in [Trade -> Mark \cup {None}]
  BY <1>2 DEF Matched, Listed
<1>4. \A S \in SUBSET Trade :
        Restored(Matched, S) \in [Trade -> Mark \cup {None}]
  BY <1>3 DEF Restored, TypeOK
<1>5. Nobody \in [Trade -> Mark \cup {None}]
  BY DEF Nobody
<1> QED  BY <1>2, <1>3, <1>4, <1>5

(* A tick leaves a mark a mark.                                            *)
LEMMA MarkedType ==
  ASSUME NEW t \in Trade, NEW bid \in Int, NEW m \in Mark
  PROVE  /\ ProfitPip(t, bid) \in Int
         /\ Marked(m, ProfitPip(t, bid)) \in Mark
         /\ Marked(m, ProfitPip(t, bid)).max >= m.max
         /\ Marked(m, ProfitPip(t, bid)).min <= m.min
<1>1. Terms[t].open_price \in Int
  BY TermsAssumption
<1>2. /\ bid - Terms[t].open_price \in Int
      /\ Terms[t].open_price - (bid + Spread) \in Int
  BY <1>1, NumberAssumption
<1>3. ProfitPip(t, bid) \in Int
  BY <1>2, NumberAssumption DEF ProfitPip
<1> QED  BY <1>3 DEF Marked, Mark

(* Rows keep their type whatever save_to_db visits and trade_close closes. *)
LEMMA RowTypes ==
  ASSUME TypeOK
  PROVE  /\ \A visited : RowsAfter(visited) \in [Trade -> {"none", "open", "closed"}]
         /\ \A t \in Trade : ClosedRow(t) \in [Trade -> {"none", "open", "closed"}]
BY DEF TypeOK, RowsAfter, ClosedRow

(* Taking an event leaves a queue of events.                               *)
LEMMA QueueTypes ==
  ASSUME TypeOK
  PROVE  /\ \A e \in Event : Append(queue, e) \in Seq(Event)
         /\ queue # <<>> => Head(queue) \in Event /\ Tail(queue) \in Seq(Event)
BY DEF TypeOK

(* The loop counter stays below SyncEvery.                                 *)
LEMMA BeatType ==
  ASSUME TypeOK
  PROVE  (beat + 1) % SyncEvery \in 0 .. SyncEvery - 1
BY NumberAssumption DEF TypeOK

(* What an event carries, by its type.                                     *)
LEMMA EventFields ==
  ASSUME NEW e \in Event
  PROVE  /\ e.type = "TICK_PRICE" => e.instrument \in Instrument /\ e.bid \in Int
         /\ e.type \in {"TRADE_OPEN", "ORDER_CLOSE"} => e.trade_id \in Trade
         /\ e.type = "HEARTBEAT" => e.counter \in Int
<1>1. CASE e \in [type : {"TICK_PRICE"}, instrument : Instrument, bid : Bid]
  BY <1>1, NumberAssumption
<1>2. CASE e \in [type : {"TRADE_OPEN", "ORDER_CLOSE"}, trade_id : Trade]
  BY <1>2
<1>3. CASE e \in [type : {"HEARTBEAT"}, counter : 0 .. SyncEvery - 1]
  BY <1>3, NumberAssumption
<1>4. CASE e \in [type : {"MARKET"}]
  BY <1>4
<1> QED  BY <1>1, <1>2, <1>3, <1>4 DEF Event
-----------------------------------------------------------------------------
(* Type correctness.                                                       *)

(* What taking an event tells of it and of the queue.                      *)
LEMMA TakeType ==
  ASSUME TypeOK, NEW type, Take(type)
  PROVE  /\ queue' \in Seq(Event)
         /\ Head(queue) \in Event
         /\ Head(queue).type = type
         /\ pc = "loop"
BY QueueTypes DEF Take

(* Reloading leaves books of marks, whether or not it completes.           *)
LEMMA LoadType ==
  ASSUME TypeOK, LoadTrades \/ LoadAborts
  PROVE  /\ trades' \in [Trade -> Mark \cup {None}]
         /\ snap' \in [Trade -> Mark \cup {None}]
         /\ orphaned' \in SUBSET Trade
<1> USE BookTypes DEF TypeOK, SavedToRedis, Listed, Managed
<1>1. CASE LoadTrades
  BY <1>1 DEF LoadTrades
<1>2. CASE LoadAborts
  BY <1>2 DEF LoadAborts
<1> QED  BY <1>1, <1>2

(* Every event the process or the socket thread puts is an event.          *)
LEMMA PutType ==
  ASSUME TypeOK, NEW e \in Event, Put(e)
  PROVE  queue' \in Seq(Event)
BY QueueTypes DEF Put

(* Every step of the system preserves the types.                           *)
LEMMA TypeStep == TypeOK /\ [Next]_vars => TypeOK'
<1> SUFFICES ASSUME TypeOK, [Next]_vars PROVE TypeOK'
  OBVIOUS
<1> USE DEF broker, loop
<1>1. CASE Broker
  <2> SUFFICES ASSUME NEW t \in Trade,
                      List(t) \/ OpenByHand(t) \/ Delist(t) \/ Report(t)
               PROVE  TypeOK'
    BY <1>1 DEF Broker
  <2>1. CASE List(t) \/ OpenByHand(t) \/ Delist(t)
    BY <2>1 DEF List, OpenByHand, Delist, TypeOK
  <2>2. CASE Report(t)
    <3>1. [type |-> "ORDER_CLOSE", trade_id |-> t] \in Event
      BY DEF Event
    <3> QED  BY <2>2, <3>1, PutType DEF Report, TypeOK
  <2> QED  BY <2>1, <2>2
<1>2. ASSUME NEW i \in Instrument, NEW bid \in Bid, Tick(i, bid)
      PROVE  TypeOK'
  <2>1. [type |-> "TICK_PRICE", instrument |-> i, bid |-> bid] \in Event
    BY DEF Event
  <2> QED  BY <1>2, <2>1, PutType DEF Tick, TypeOK
<1>3. ASSUME NEW t \in Trade, PlaceOrder(t)
      PROVE  TypeOK'
  BY <1>3 DEF PlaceOrder, TypeOK
<1>4. CASE HandleTick
  <2>1. \A t \in Trade : trades[t] # None /\ Terms[t].instrument = Head(queue).instrument
          => Marked(trades[t], ProfitPip(t, Head(queue).bid)) \in Mark
    BY <1>4, TakeType, EventFields, MarkedType DEF HandleTick, TypeOK
  <2>2. trades' \in [Trade -> Mark \cup {None}]
    BY <1>4, <2>1 DEF HandleTick, TypeOK, Managed
  <2> QED  BY <1>4, <2>2, TakeType DEF HandleTick, TypeOK
<1>5. CASE HandleOpen
  <2>1. Head(queue).trade_id \in Trade
    BY <1>5, TakeType, EventFields DEF HandleOpen
  <2> QED  BY <1>5, <2>1, TakeType, BookTypes DEF HandleOpen, TypeOK
<1>6. CASE HandleUnknownClose
  BY <1>6, TakeType DEF HandleUnknownClose, TypeOK
<1>7. CASE HandleClose
  <2>1. Head(queue).trade_id \in Trade
    BY <1>7, TakeType, EventFields DEF HandleClose
  <2>2. trades' \in [Trade -> Mark \cup {None}]
    BY <1>7, <2>1 DEF HandleClose, TypeOK
  <2> QED  BY <1>7, <2>1, <2>2, TakeType, RowTypes DEF HandleClose, SavedToRedis, TypeOK
<1>8. CASE CloseFails
  <2>1. Head(queue).trade_id \in Trade
    BY <1>8, TakeType, EventFields DEF CloseFails
  <2>2. trades[Head(queue).trade_id] \in Mark
    BY <1>8, <2>1 DEF CloseFails, TypeOK
  <2>3. trades' \in [Trade -> Mark \cup {None}]
    BY <1>8, <2>1, <2>2 DEF CloseFails, TypeOK, Mark
  <2> QED  BY <1>8, <2>3, TakeType DEF CloseFails, TypeOK
<1>9. CASE HandleMarket \/ MarketFails
  BY <1>9, TakeType, LoadType DEF HandleMarket, MarketFails, TypeOK
<1>10. CASE HandleHeartbeat
  <2>1. trades' \in [Trade -> Mark \cup {None}]
    BY <1>10, BookTypes DEF HandleHeartbeat, Listed
  <2>2. row' \in [Trade -> {"none", "open", "closed"}]
    BY <1>10, RowTypes DEF HandleHeartbeat, TypeOK
  <2>3. pc = "loop" /\ pc' \in {"loop", "sync"}
    BY <1>10, TakeType DEF HandleHeartbeat
  <2> QED  BY <1>10, <2>1, <2>2, <2>3, TakeType DEF HandleHeartbeat, SavedToRedis, TypeOK
<1>11. CASE HeartbeatFails
  <2>1. /\ trades' \in [Trade -> Mark \cup {None}]
        /\ snap' \in [Trade -> Mark \cup {None}]
        /\ orphaned' \in SUBSET Trade
    BY <1>11, BookTypes DEF HeartbeatFails, SavedToRedis, Listed, TypeOK
  <2>2. row' \in [Trade -> {"none", "open", "closed"}]
    BY <1>11, RowTypes DEF HeartbeatFails, TypeOK
  <2> QED  BY <1>11, <2>1, <2>2, TakeType DEF HeartbeatFails, TypeOK
<1>12. CASE SyncTrades
  BY <1>12, BookTypes DEF SyncTrades, SavedToRedis, TypeOK
<1>13. CASE SyncFails
  BY <1>13, BookTypes DEF SyncFails, Listed, Managed, TypeOK
<1>14. CASE Announce
  <2>1. [type |-> "TRADE_OPEN", trade_id |-> placed] \in Event
    BY <1>14 DEF Announce, TypeOK, Event
  <2>2. queue' \in Seq(Event)
    BY <1>14, <2>1, PutType DEF Announce, TypeOK
  <2> QED  BY <1>14, <2>2 DEF Announce, TypeOK
<1>15. CASE LoopTick
  <2>1. beat' \in 0 .. SyncEvery - 1
    BY <1>15, BeatType DEF LoopTick
  <2>2. [type |-> "HEARTBEAT", counter |-> beat'] \in Event
    BY <2>1 DEF Event
  <2> QED  BY <1>15, <2>1, <2>2, PutType DEF LoopTick, TypeOK
<1>16. CASE CloseMarket
  BY <1>16, LoadType DEF CloseMarket, TypeOK
<1>17. CASE OpenMarket
  <2>1. [type |-> "MARKET"] \in Event
    BY DEF Event
  <2> QED  BY <1>17, <2>1, PutType DEF OpenMarket, TypeOK
<1>18. CASE Crash
  BY <1>18, BookTypes, NumberAssumption DEF Crash, Dies, TypeOK
<1>19. CASE CrashInHandler
  <2>1. Head(queue) \in Event /\ queue' \in Seq(Event)
    BY <1>19, QueueTypes DEF CrashInHandler
  <2>2. snap' \in [Trade -> Mark \cup {None}] /\ row' \in [Trade -> {"none", "open", "closed"}]
    BY <1>19, <2>1, EventFields, BookTypes, RowTypes DEF CrashInHandler, Listed, TypeOK
  <2> QED  BY <1>19, <2>1, <2>2, BookTypes, NumberAssumption DEF CrashInHandler, Dies, TypeOK
<1>20. CASE Restart
  BY <1>20, LoadType, NumberAssumption DEF Restart, TypeOK
<1>21. CASE UNCHANGED vars
  BY <1>21 DEF vars, TypeOK
<1> QED
  BY <1>1, <1>2, <1>3, <1>4, <1>5, <1>6, <1>7, <1>8, <1>9, <1>10, <1>11, <1>12,
     <1>13, <1>14, <1>15, <1>16, <1>17, <1>18, <1>19, <1>20, <1>21
  DEF Next, Handle

LEMMA TypeInit == Init => TypeOK
BY BookTypes, NumberAssumption DEF Init, TypeOK, Nobody

(* Every variable keeps its type in every behaviour.                       *)
THEOREM TypeCorrect == Spec => []TypeOK
<1>1. Init => TypeOK
  BY TypeInit
<1>2. TypeOK /\ [Next]_vars => TypeOK'
  BY TypeStep
<1> QED  BY <1>1, <1>2, PTL DEF Spec

-----------------------------------------------------------------------------
(* What a step does to the marks of a trade.                               *)

Goes(t) ==
  \/ trades'[t] = trades[t]
  \/ trades'[t] = None
  \/ trades[t] = None /\ trades'[t] = Fresh
  \/ snap[t] # None /\ trades'[t] = snap[t]
  \/ /\ trades[t] # None /\ trades'[t] # None
     /\ trades'[t].max >= trades[t].max
     /\ trades'[t].min <= trades[t].min

(* The entries of a book made by adoption, matching or restoring.          *)
LEMMA AdoptedEntry ==
  ASSUME NEW S, NEW t \in Trade
  PROVE  \/ Adopted(S)[t] = trades[t]
         \/ t \in S /\ trades[t] = None /\ Adopted(S)[t] = Fresh
BY DEF Adopted

LEMMA MatchedEntry ==
  ASSUME NEW t \in Trade
  PROVE  \/ t \notin Listed /\ Matched[t] = None
         \/ t \in Listed /\ Matched[t] = trades[t]
         \/ t \in Listed /\ trades[t] = None /\ Matched[t] = Fresh
BY DEF Matched, Adopted

LEMMA RestoredEntry ==
  ASSUME NEW S, NEW t \in Trade
  PROVE  \/ t \notin Listed /\ Restored(Matched, S)[t] = None
         \/ t \in Listed /\ Restored(Matched, S)[t] = trades[t]
         \/ t \in Listed /\ trades[t] = None /\ Restored(Matched, S)[t] = Fresh
         \/ t \in Listed /\ snap[t] # None /\ Restored(Matched, S)[t] = snap[t]
<1>1. \/ Restored(Matched, S)[t] = Matched[t]
      \/ Matched[t] # None /\ snap[t] # None /\ Restored(Matched, S)[t] = snap[t]
  BY DEF Restored
<1> QED  BY <1>1, MatchedEntry

LEMMA NobodyEntry == \A t \in Trade : Nobody[t] = None
BY DEF Nobody

LEMMA LoadGoes ==
  ASSUME LoadTrades \/ LoadAborts, NEW t \in Trade
  PROVE  Goes(t)
<1>1. CASE LoadTrades
  BY <1>1, RestoredEntry DEF LoadTrades, Goes
<1>2. CASE LoadAborts
  BY <1>2, RestoredEntry, AdoptedEntry DEF LoadAborts, Goes
<1> QED  BY <1>1, <1>2

(* Every step treats every trade in one of these ways.                     *)
LEMMA MarksStep ==
  ASSUME TypeOK, [Next]_vars, NEW t \in Trade
  PROVE  Goes(t)
<1>1. CASE UNCHANGED trades
  BY <1>1 DEF Goes
<1>2. CASE HandleTick
  <2>1. CASE trades[t] # None /\ Terms[t].instrument = Head(queue).instrument
    <3> DEFINE m == Marked(trades[t], ProfitPip(t, Head(queue).bid))
    <3>1. m \in Mark /\ m.max >= trades[t].max /\ m.min <= trades[t].min
      BY <1>2, <2>1, TakeType, EventFields, MarkedType DEF HandleTick, TypeOK
    <3>2. trades'[t] = m
      BY <1>2, <2>1 DEF HandleTick, Managed
    <3>3. m # None
      BY <3>1, NoneAssumption DEF Mark
    <3> QED  BY <2>1, <3>1, <3>2, <3>3 DEF Goes
  <2>2. CASE ~(trades[t] # None /\ Terms[t].instrument = Head(queue).instrument)
    BY <1>2, <2>2 DEF HandleTick, Managed, Goes
  <2> QED  BY <2>1, <2>2
<1>3. CASE HandleOpen
  BY <1>3, AdoptedEntry DEF HandleOpen, Goes
<1>4. CASE HandleClose
  BY <1>4 DEF HandleClose, TypeOK, Goes
<1>5. CASE CloseFails
  <2> DEFINE c == Head(queue).trade_id
  <2>1. c \in Trade /\ trades[c] \in Mark
    BY <1>5, TakeType, EventFields DEF CloseFails, TypeOK
  <2>2. trades' = [trades EXCEPT ![c] = [trades[c] EXCEPT !.profitable = FALSE]]
    BY <1>5 DEF CloseFails
  <2>3. trades'[c] = [trades[c] EXCEPT !.profitable = FALSE]
    BY <2>1, <2>2 DEF TypeOK
  <2>4. trades'[c] \in Mark /\ trades'[c].max = trades[c].max /\ trades'[c].min = trades[c].min
    BY <2>1, <2>3 DEF Mark
  <2>5. trades'[c].max >= trades[c].max /\ trades'[c].min <= trades[c].min
    BY <2>1, <2>4 DEF Mark
  <2>6. trades[c] # None /\ trades'[c] # None
    BY <2>1, <2>4, NoneAssumption DEF Mark
  <2>7. t # c => trades'[t] = trades[t]
    BY <2>2 DEF TypeOK
  <2> QED  BY <2>5, <2>6, <2>7 DEF Goes
<1>6. CASE HandleMarket \/ MarketFails \/ CloseMarket \/ Restart
  BY <1>6, LoadGoes DEF HandleMarket, MarketFails, CloseMarket, Restart
<1>7. CASE HandleHeartbeat \/ HeartbeatFails
  BY <1>7, AdoptedEntry DEF HandleHeartbeat, HeartbeatFails, Goes
<1>8. CASE SyncTrades
  BY <1>8, MatchedEntry DEF SyncTrades, Goes
<1>9. CASE SyncFails
  BY <1>9, AdoptedEntry DEF SyncFails, TypeOK, Goes
<1>10. CASE Crash \/ CrashInHandler
  BY <1>10, NobodyEntry DEF Crash, CrashInHandler, Dies, Goes
<1> QED
  BY <1>1, <1>2, <1>3, <1>4, <1>5, <1>6, <1>7, <1>8, <1>9, <1>10
  DEF Next, Handle, Broker, List, OpenByHand, Delist, Report, Tick, PlaceOrder,
      HandleUnknownClose, Announce, LoopTick, OpenMarket, vars

(* Marks shrink only to the snapshot's, in every step of every behaviour.  *)
THEOREM MarksShrink == Spec => MarksShrinkOnlyToSnapshot
<1> DEFINE Shrink ==
      \A t \in Trade :
        (/\ trades[t] # None
         /\ trades'[t] # None
         /\ \/ trades'[t].max < trades[t].max
            \/ trades'[t].min > trades[t].min)
        => trades'[t] = snap[t]
<1>1. TypeOK /\ TypeOK' /\ [Next]_vars => [Shrink]_vars
  <2> SUFFICES ASSUME TypeOK, TypeOK', [Next]_vars, NEW t \in Trade,
                      trades[t] # None, trades'[t] # None,
                      trades'[t].max < trades[t].max \/ trades'[t].min > trades[t].min
               PROVE  trades'[t] = snap[t]
    OBVIOUS
  <2>1. trades[t] \in Mark /\ trades'[t] \in Mark
    BY DEF TypeOK
  <2>2. Goes(t)
    BY MarksStep
  <2> QED  BY <2>1, <2>2 DEF Goes, Mark
<1>2. Spec => []TypeOK
  BY TypeCorrect
<1> QED  BY <1>1, <1>2, PTL DEF Spec, MarksShrinkOnlyToSnapshot

-----------------------------------------------------------------------------
(* The snapshot against the book in memory.                                *)

(* The ways a step may treat the two books and the record of orphans.      *)
Keeps ==
  /\ snap' = snap
  /\ orphaned \subseteq orphaned'
  /\ \/ pc # "down" /\ pc' # "down"
     \/ pc' = pc /\ UNCHANGED trades
  /\ \A t \in Trade : trades[t] # None /\ trades'[t] = None => t \in orphaned'

Saves == snap' = trades' /\ pc' # "down"

Dying ==
  /\ pc' = "down"
  /\ trades' = Nobody
  /\ snap' = snap \/ snap' = Adopted(Listed)
  /\ orphaned' = orphaned

LEMMA LoadBooks ==
  ASSUME TypeOK, LoadTrades \/ LoadAborts, pc' # "down", LoadTrades \/ pc # "down"
  PROVE  Keeps \/ Saves
<1>1. CASE LoadTrades
  BY <1>1 DEF LoadTrades, SavedToRedis, Saves
<1>2. CASE LoadAborts /\ pc # "down"
  <2>1. CASE \E S \in SUBSET Listed : trades' = Adopted(S) /\ UNCHANGED orphaned
    BY <1>2, <2>1, AdoptedEntry DEF LoadAborts, Keeps
  <2>2. CASE \E S \in SUBSET Listed : /\ trades' = Restored(Matched, S)
                                      /\ orphaned' = orphaned \cup (Managed \ Listed)
    <3>1. \A t \in Trade : trades[t] # None /\ trades'[t] = None => t \in Managed \ Listed
      BY <2>2, RestoredEntry DEF Managed, Fresh, Mark
    <3> QED  BY <1>2, <2>2, <3>1 DEF LoadAborts, Keeps
  <2> QED  BY <1>2, <2>1, <2>2 DEF LoadAborts
<1> QED  BY <1>1, <1>2

(* Every step treats the books in one of these ways.                       *)
LEMMA BooksStep ==
  ASSUME TypeOK, [Next]_vars
  PROVE  Keeps \/ Saves \/ Dying
<1> USE DEF loop, broker
<1>1. CASE UNCHANGED <<snap, trades, pc, orphaned>>
  BY <1>1 DEF Keeps
<1>2. CASE HandleTick
  <2>1. \A t \in Trade : trades[t] # None => trades'[t] # None
    <3> SUFFICES ASSUME NEW t \in Trade, trades[t] # None
                 PROVE  trades'[t] # None
      OBVIOUS
    <3>1. Terms[t].instrument = Head(queue).instrument
            => Marked(trades[t], ProfitPip(t, Head(queue).bid)) \in Mark
      BY <1>2, TakeType, EventFields, MarkedType DEF HandleTick, TypeOK
    <3> QED  BY <1>2, <3>1, NoneAssumption DEF HandleTick, Managed, Mark
  <2> QED  BY <1>2, <2>1, TakeType DEF HandleTick, Keeps
<1>3. CASE HandleOpen
  <2>1. trades' = Adopted({Head(queue).trade_id})
    BY <1>3 DEF HandleOpen
  <2>2. \A t \in Trade : trades[t] # None => trades'[t] # None
    BY <2>1 DEF Adopted
  <2> QED  BY <1>3, <2>2, TakeType DEF HandleOpen, Keeps
<1>4. CASE HandleClose \/ SyncTrades
  BY <1>4, TakeType DEF HandleClose, SyncTrades, SavedToRedis, Saves
<1>5. CASE CloseFails
  <2>1. \A t \in Trade : trades[t] # None => trades'[t] # None
    <3> SUFFICES ASSUME NEW t \in Trade, trades[t] # None
                 PROVE  trades'[t] # None
      OBVIOUS
    <3> DEFINE c == Head(queue).trade_id
    <3>1. trades' = [trades EXCEPT ![c] = [trades[c] EXCEPT !.profitable = FALSE]]
      BY <1>5 DEF CloseFails
    <3>2. c \in Trade /\ trades[c] \in Mark
      BY <1>5, TakeType, EventFields DEF CloseFails, TypeOK
    <3>3. [trades[c] EXCEPT !.profitable = FALSE] \in Mark
      BY <3>2 DEF Mark
    <3>4. [trades[c] EXCEPT !.profitable = FALSE] # None
      BY <3>3, NoneAssumption DEF Mark
    <3> QED  BY <3>1, <3>2, <3>4 DEF TypeOK
  <2> QED  BY <1>5, <2>1, TakeType DEF CloseFails, Keeps
<1>6. CASE HandleMarket \/ MarketFails
  BY <1>6, LoadBooks, TakeType DEF HandleMarket, MarketFails
<1>7. CASE CloseMarket
  BY <1>7, LoadBooks DEF CloseMarket
<1>8. CASE Restart
  BY <1>8, LoadBooks DEF Restart
<1>9. CASE HandleHeartbeat
  BY <1>9, TakeType DEF HandleHeartbeat, SavedToRedis, Saves
<1>10. CASE HeartbeatFails
  BY <1>10, TakeType, AdoptedEntry DEF HeartbeatFails, SavedToRedis, Saves, Keeps
<1>11. CASE SyncFails
  BY <1>11, AdoptedEntry DEF SyncFails, TypeOK, Keeps
<1>12. CASE Crash \/ CrashInHandler
  BY <1>12 DEF Crash, CrashInHandler, Dies, Dying
<1>13. CASE \E t \in Trade : PlaceOrder(t)
  BY <1>13 DEF PlaceOrder, Keeps
<1>14. CASE Announce
  BY <1>14 DEF Announce, Keeps
<1> QED
  BY <1>1, <1>2, <1>3, <1>4, <1>5, <1>6, <1>7, <1>8, <1>9, <1>10, <1>11, <1>12,
     <1>13, <1>14
  DEF Next, Handle, Broker, List, OpenByHand, Delist, Report, Tick,
      HandleUnknownClose, LoopTick, OpenMarket, vars

LEMMA ConsistentInit == Init => Consistent
BY NobodyEntry
   DEF Init, Consistent, SnapshotCovered, SnapshotNeverAhead, AroundZero, Managed

(* Every step keeps the books consistent.                                  *)
LEMMA ConsistentStep ==
  ASSUME TypeOK, TypeOK', Consistent, [Next]_vars
  PROVE  Consistent'
<1> \A t \in Trade : /\ trades[t] \in Mark \cup {None}
                     /\ snap[t] \in Mark \cup {None}
                     /\ trades'[t] \in Mark \cup {None}
                     /\ snap'[t] \in Mark \cup {None}
  BY DEF TypeOK
<1> \A t \in Trade : Goes(t)
  BY MarksStep
<1> \A m \in Mark : m.max \in Int /\ m.min \in Int /\ m # None
  BY NoneAssumption DEF Mark
<1> Fresh \in Mark /\ Fresh.max = 0 /\ Fresh.min = 0
  BY DEF Fresh, Mark
<1>1. AroundZero(trades')
  <2> SUFFICES ASSUME NEW t \in Trade, trades'[t] # None
               PROVE  trades'[t].min <= 0 /\ 0 <= trades'[t].max
    BY DEF AroundZero
  <2>1. trades[t] # None => trades[t].min <= 0 /\ 0 <= trades[t].max
    BY DEF Consistent, AroundZero
  <2>2. snap[t] # None => snap[t].min <= 0 /\ 0 <= snap[t].max
    BY DEF Consistent, AroundZero
  <2> QED  BY <2>1, <2>2 DEF Goes
<1>2. CASE Keeps
  <2>1. SnapshotCovered'
    BY <1>2 DEF Keeps, Consistent, SnapshotCovered
  <2>2. SnapshotNeverAhead'
    <3> SUFFICES ASSUME NEW t \in Trade, t \notin orphaned',
                        snap'[t] # None, trades'[t] # None
                 PROVE  /\ snap'[t].max <= trades'[t].max
                        /\ snap'[t].min >= trades'[t].min
      BY DEF SnapshotNeverAhead
    <3>1. snap'[t] = snap[t] /\ t \notin orphaned
      BY <1>2 DEF Keeps
    <3>2. CASE trades[t] # None
      <4>1. snap[t].max <= trades[t].max /\ snap[t].min >= trades[t].min
        BY <3>1, <3>2 DEF Consistent, SnapshotNeverAhead
      <4> QED  BY <3>1, <3>2, <4>1 DEF Goes
    <3>3. CASE trades[t] = None
      <4>1. pc = "down"
        BY <3>1, <3>3 DEF Consistent, SnapshotCovered
      <4> QED  BY <1>2, <3>3, <4>1 DEF Keeps
    <3> QED  BY <3>2, <3>3
  <2>3. AroundZero(snap')
    BY <1>2 DEF Keeps, Consistent
  <2>4. pc' = "down" => Managed' = {}
    BY <1>2 DEF Keeps, Consistent, Managed
  <2> QED  BY <1>1, <2>1, <2>2, <2>3, <2>4 DEF Consistent, AroundZero
<1>3. CASE Saves
  <2>1. SnapshotCovered' /\ SnapshotNeverAhead'
    BY <1>3 DEF Saves, SnapshotCovered, SnapshotNeverAhead
  <2> QED  BY <1>1, <1>3, <2>1 DEF Saves, Consistent, AroundZero
<1>4. CASE Dying
  <2>1. \A t \in Trade : trades'[t] = None
    BY <1>4, NobodyEntry DEF Dying
  <2>2. SnapshotCovered' /\ SnapshotNeverAhead' /\ Managed' = {}
    BY <1>4, <2>1 DEF Dying, SnapshotCovered, SnapshotNeverAhead, Managed
  <2>3. AroundZero(snap')
    <3>1. CASE snap' = snap
      BY <3>1 DEF Consistent
    <3>2. CASE snap' = Adopted(Listed)
      BY <3>2, AdoptedEntry DEF Consistent, AroundZero
    <3> QED  BY <1>4, <3>1, <3>2 DEF Dying
  <2> QED  BY <1>1, <2>2, <2>3 DEF Consistent, AroundZero
<1> QED  BY <1>2, <1>3, <1>4, BooksStep

LEMMA ConsistentAlways == Spec => []Consistent
<1>1. Init => Consistent
  BY ConsistentInit
<1>2. TypeOK /\ TypeOK' /\ Consistent /\ [Next]_vars => Consistent'
  BY ConsistentStep
<1>3. Spec => []TypeOK
  BY TypeCorrect
<1> QED  BY <1>1, <1>2, <1>3, PTL DEF Spec

(* The snapshot (save_trades) never says more of a trade than the memory   *)
(* that load_trades would overwrite with it.                               *)
THEOREM SnapshotSafe == Spec => []SnapshotNeverAhead
<1>1. Consistent => SnapshotNeverAhead
  BY DEF Consistent
<1> QED  BY <1>1, ConsistentAlways, PTL

(* Every entry of the snapshot is one the living manager has, but for the  *)
(* orphans that a failed sync_trades or load_trades left there.            *)
THEOREM SnapshotComplete == Spec => []SnapshotCovered
<1>1. Consistent => SnapshotCovered
  BY DEF Consistent
<1> QED  BY <1>1, ConsistentAlways, PTL

-----------------------------------------------------------------------------
(* What the queue and the main thread say of trades, against the broker.   *)

TrueEvent(e, lives, reports) ==
  /\ e.type = "TRADE_OPEN" => lives[e.trade_id] # "new"
  /\ e.type = "ORDER_CLOSE" => e.trade_id \in reports

(* A trade enters the book only if the broker has accepted it.             *)
LEMMA EntersKnown ==
  ASSUME TypeOK, Truthful, [Next]_vars,
         NEW t \in Trade, trades[t] = None, trades'[t] # None
  PROVE  life[t] # "new"
<1>1. CASE HandleTick
  BY <1>1 DEF HandleTick, Managed
<1>2. CASE HandleOpen
  <2>1. t = Head(queue).trade_id
    BY <1>2, AdoptedEntry DEF HandleOpen
  <2>2. 1 \in DOMAIN queue /\ Head(queue) = queue[1]
    BY <1>2 DEF HandleOpen, Take, TypeOK
  <2> QED  BY <1>2, <2>1, <2>2, TakeType DEF HandleOpen, Truthful
<1>3. CASE HandleClose
  BY <1>3 DEF HandleClose, TypeOK
<1>4. CASE CloseFails
  BY <1>4 DEF CloseFails, TypeOK
<1>5. CASE LoadTrades \/ LoadAborts
  BY <1>5, RestoredEntry, AdoptedEntry DEF LoadTrades, LoadAborts, Listed
<1>6. CASE HandleHeartbeat \/ HeartbeatFails
  BY <1>6, AdoptedEntry DEF HandleHeartbeat, HeartbeatFails, Listed
<1>7. CASE SyncTrades
  BY <1>7, MatchedEntry DEF SyncTrades, Listed
<1>8. CASE SyncFails
  BY <1>8, AdoptedEntry DEF SyncFails, Listed, TypeOK
<1>9. CASE Crash \/ CrashInHandler
  BY <1>9, NobodyEntry DEF Crash, CrashInHandler, Dies
<1> QED
  BY <1>1, <1>2, <1>3, <1>4, <1>5, <1>6, <1>7, <1>8, <1>9
  DEF Next, Handle, Broker, List, OpenByHand, Delist, Report, Tick, PlaceOrder,
      HandleUnknownClose, HandleMarket, MarketFails, CloseMarket, Restart,
      Announce, LoopTick, OpenMarket, vars

(* The broker never takes back an acceptance or a report.                  *)
LEMMA BrokerGrows ==
  ASSUME TypeOK, [Next]_vars
  PROVE  /\ \A t \in Trade : life[t] # "new" => life'[t] # "new"
         /\ reported \subseteq reported'
<1>1. CASE \E t \in Trade : List(t) \/ OpenByHand(t) \/ Delist(t) \/ PlaceOrder(t)
  BY <1>1 DEF List, OpenByHand, Delist, PlaceOrder, TypeOK
<1>2. CASE \E t \in Trade : Report(t)
  BY <1>2 DEF Report
<1>3. CASE UNCHANGED broker
  BY <1>3 DEF broker
<1> QED
  BY <1>1, <1>2, <1>3
  DEF Next, Handle, Broker, Tick, HandleTick, HandleOpen, HandleUnknownClose,
      HandleClose, CloseFails, HandleMarket, MarketFails, HandleHeartbeat,
      HeartbeatFails, SyncTrades, SyncFails, Announce, LoopTick, CloseMarket,
      OpenMarket, Crash, CrashInHandler, Dies, Restart, vars, broker

(* A step leaves the queue, drops its head, or adds an event that is true. *)
LEMMA QueueStep ==
  ASSUME TypeOK, Truthful, [Next]_vars
  PROVE  \/ queue' = queue
         \/ queue # <<>> /\ queue' = Tail(queue)
         \/ \E e \in Event : queue' = Append(queue, e) /\ TrueEvent(e, life', reported')
<1>1. CASE \E t \in Trade : Report(t)
  <2> PICK t \in Trade : Report(t)
    BY <1>1
  <2> DEFINE e == [type |-> "ORDER_CLOSE", trade_id |-> t]
  <2>1. e \in Event
    BY DEF Event
  <2>2. TrueEvent(e, life', reported') /\ queue' = Append(queue, e)
    BY DEF Report, TrueEvent, Put
  <2> QED  BY <2>1, <2>2
<1>2. CASE \E i \in Instrument, bid \in Bid : Tick(i, bid)
  <2> PICK i \in Instrument, bid \in Bid : Tick(i, bid)
    BY <1>2
  <2> DEFINE e == [type |-> "TICK_PRICE", instrument |-> i, bid |-> bid]
  <2>1. e \in Event
    BY DEF Event
  <2>2. TrueEvent(e, life', reported') /\ queue' = Append(queue, e)
    BY DEF Tick, TrueEvent, Put
  <2> QED  BY <2>1, <2>2
<1>3. CASE Announce
  <2> DEFINE e == [type |-> "TRADE_OPEN", trade_id |-> placed]
  <2>1. e \in Event
    BY <1>3 DEF Announce, TypeOK, Event
  <2>2. TrueEvent(e, life', reported')
    BY <1>3 DEF Announce, TrueEvent, Truthful, broker
  <2> QED  BY <1>3, <2>1, <2>2 DEF Announce, Put
<1>4. CASE LoopTick
  <2> DEFINE e == [type |-> "HEARTBEAT", counter |-> beat']
  <2>1. e \in Event
    BY <1>4, BeatType DEF LoopTick, Event
  <2>2. TrueEvent(e, life', reported')
    BY DEF TrueEvent
  <2> QED  BY <1>4, <2>1, <2>2 DEF LoopTick, Put
<1>5. CASE OpenMarket
  <2> DEFINE e == [type |-> "MARKET"]
  <2>1. e \in Event /\ TrueEvent(e, life', reported')
    BY DEF Event, TrueEvent
  <2> QED  BY <1>5, <2>1 DEF OpenMarket, Put
<1> QED
  BY <1>1, <1>2, <1>3, <1>4, <1>5
  DEF Next, Handle, Take, Broker, List, OpenByHand, Delist, PlaceOrder, HandleTick,
      HandleOpen, HandleUnknownClose, HandleClose, CloseFails, HandleMarket,
      MarketFails, HandleHeartbeat, HeartbeatFails, SyncTrades, SyncFails,
      CloseMarket, Crash, CrashInHandler, Restart, vars

(* Every step keeps them true.                                             *)
LEMMA TruthStep ==
  ASSUME TypeOK, TypeOK', Truthful, [Next]_vars
  PROVE  Truthful'
<1>1. ASSUME NEW e \in Event, TrueEvent(e, life, reported)
      PROVE  TrueEvent(e, life', reported')
  BY <1>1, BrokerGrows, EventFields DEF TrueEvent
<1>2. ASSUME NEW i \in DOMAIN queue'
      PROVE  TrueEvent(queue'[i], life', reported')
  <2>1. \A j \in DOMAIN queue : queue[j] \in Event /\ TrueEvent(queue[j], life, reported)
    BY DEF Truthful, TrueEvent, TypeOK
  <2>2. CASE queue' = queue
    BY <1>1, <1>2, <2>1, <2>2
  <2>3. CASE queue # <<>> /\ queue' = Tail(queue)
    <3>1. i + 1 \in DOMAIN queue /\ queue'[i] = queue[i + 1]
      BY <1>2, <2>3 DEF TypeOK
    <3> QED  BY <1>1, <2>1, <3>1
  <2>4. CASE \E e \in Event : queue' = Append(queue, e) /\ TrueEvent(e, life', reported')
    <3> PICK e \in Event : queue' = Append(queue, e) /\ TrueEvent(e, life', reported')
      BY <2>4
    <3>1. queue \in Seq(Event) /\ i \in 1 .. Len(queue')
      BY <1>2 DEF TypeOK
    <3>2. CASE i \in 1 .. Len(queue)
      <4>1. i \in DOMAIN queue /\ queue'[i] = queue[i]
        BY <3>1, <3>2
      <4> QED  BY <1>1, <2>1, <4>1
    <3>3. CASE i \notin 1 .. Len(queue)
      <4>1. queue'[i] = e
        BY <3>1, <3>3
      <4> QED  BY <4>1
    <3> QED  BY <3>2, <3>3
  <2> QED  BY <2>2, <2>3, <2>4, QueueStep
<1>3. \A t \in Managed' : life'[t] # "new"
  BY BrokerGrows, EntersKnown DEF Truthful, Managed
<1>4. \A t \in reported' : life'[t] # "new"
  <2>1. CASE reported' = reported
    BY <2>1, BrokerGrows DEF Truthful, TypeOK
  <2>2. CASE \E t \in Trade : Report(t)
    BY <2>2 DEF Report, Truthful
  <2> QED
    BY <2>1, <2>2
    DEF Next, Handle, Broker, List, OpenByHand, Delist, PlaceOrder, Tick, HandleTick,
        HandleOpen, HandleUnknownClose, HandleClose, CloseFails, HandleMarket,
        MarketFails, HandleHeartbeat, HeartbeatFails, SyncTrades, SyncFails,
        Announce, LoopTick, CloseMarket, OpenMarket, Crash, CrashInHandler, Dies,
        Restart, vars, broker
<1>5. pc' = "place" => life'[placed'] # "new"
  <2>1. CASE \E t \in Trade : PlaceOrder(t)
    BY <2>1 DEF PlaceOrder, TypeOK
  <2>2. CASE pc' = pc /\ placed' = placed
    BY <2>2, BrokerGrows DEF Truthful, TypeOK
  <2>3. CASE pc' # "place"
    BY <2>3
  <2> QED
    BY <2>1, <2>2, <2>3
    DEF Next, Handle, Broker, List, OpenByHand, Delist, Report, Tick, HandleTick,
        HandleOpen, HandleUnknownClose, HandleClose, CloseFails, HandleMarket,
        MarketFails, HandleHeartbeat, HeartbeatFails, SyncTrades, SyncFails,
        Announce, LoopTick, CloseMarket, OpenMarket, Crash, CrashInHandler, Dies,
        Restart, vars, loop
<1> QED  BY <1>2, <1>3, <1>4, <1>5 DEF Truthful, TrueEvent

LEMMA TruthInit == Init => Truthful
BY NobodyEntry DEF Init, Truthful, Managed

-----------------------------------------------------------------------------
(* The manager implements the ledger.                                      *)

(* A trade leaves the book of a living process only if the broker does not *)
(* list it or has reported it closed.                                      *)
LEMMA LeavesClosed ==
  ASSUME TypeOK, Truthful, [Next]_vars, pc' # "down",
         NEW t \in Trade, trades[t] # None, trades'[t] = None
  PROVE  t \notin Listed \/ t \in reported
<1>1. CASE HandleTick
  <2>1. Terms[t].instrument = Head(queue).instrument
          => Marked(trades[t], ProfitPip(t, Head(queue).bid)) \in Mark
    BY <1>1, TakeType, EventFields, MarkedType DEF HandleTick, TypeOK
  <2> QED  BY <1>1, <2>1, NoneAssumption DEF HandleTick, Managed, Mark
<1>2. CASE HandleOpen
  BY <1>2, AdoptedEntry DEF HandleOpen
<1>3. CASE HandleClose
  <2>1. t = Head(queue).trade_id
    BY <1>3 DEF HandleClose, TypeOK
  <2>2. 1 \in DOMAIN queue /\ Head(queue) = queue[1]
    BY <1>3 DEF HandleClose, Take, TypeOK
  <2> QED  BY <1>3, <2>1, <2>2, TakeType DEF HandleClose, Truthful
<1>4. CASE CloseFails
  <2> DEFINE c == Head(queue).trade_id
  <2>1. trades' = [trades EXCEPT ![c] = [trades[c] EXCEPT !.profitable = FALSE]]
    BY <1>4 DEF CloseFails
  <2>2. c \in Trade /\ trades[c] \in Mark
    BY <1>4, TakeType, EventFields DEF CloseFails, TypeOK
  <2>3. [trades[c] EXCEPT !.profitable = FALSE] \in Mark
    BY <2>2 DEF Mark
  <2>4. [trades[c] EXCEPT !.profitable = FALSE] # None
    BY <2>3, NoneAssumption DEF Mark
  <2> QED  BY <2>1, <2>2, <2>4 DEF TypeOK
<1>5. CASE LoadTrades \/ LoadAborts
  BY <1>5, RestoredEntry, AdoptedEntry DEF LoadTrades, LoadAborts
<1>6. CASE HandleHeartbeat \/ HeartbeatFails
  BY <1>6, AdoptedEntry DEF HandleHeartbeat, HeartbeatFails
<1>7. CASE SyncTrades
  BY <1>7, MatchedEntry DEF SyncTrades
<1>8. CASE SyncFails
  BY <1>8, AdoptedEntry DEF SyncFails, Listed
<1> QED
  BY <1>1, <1>2, <1>3, <1>4, <1>5, <1>6, <1>7, <1>8
  DEF Next, Handle, Broker, List, OpenByHand, Delist, Report, Tick, PlaceOrder,
      HandleUnknownClose, HandleMarket, MarketFails, CloseMarket, Restart, Crash,
      CrashInHandler, Dies, Announce, LoopTick, OpenMarket, vars

(* save_to_db writes rows for managed trades and never over a closed row.  *)
LEMMA VisitsManaged ==
  ASSUME NEW book, NEW visited \in Visits(book)
  PROVE  \A t \in visited : t \in Trade /\ book[t] # None
BY DEF Visits

LEMMA RowsAfterEntry ==
  ASSUME NEW visited, NEW t \in Trade
  PROVE  \/ RowsAfter(visited)[t] = row[t]
         \/ t \in visited /\ row[t] = "none" /\ RowsAfter(visited)[t] = "open"
BY DEF RowsAfter

LEMMA SavedRows ==
  ASSUME TypeOK, NEW visited \in Visits(Adopted(Listed)), NEW some \in SUBSET visited,
         row' = RowsAfter(some)
  PROVE  Ledger!WritesRows
<1>1. row' \in [Trade -> {"none", "open", "closed"}]
  BY RowTypes
<1>2. ASSUME NEW t \in Trade
      PROVE  \/ row'[t] = row[t]
             \/ row[t] = "none" /\ row'[t] = "open" /\ t \in Managed \cup Listed
  BY <1>2, RowsAfterEntry, VisitsManaged, AdoptedEntry DEF Managed
<1> QED  BY <1>1, <1>2 DEF Ledger!WritesRows, Ledger!Writes

LEMMA ClosedRows ==
  ASSUME TypeOK, NEW t \in Trade, trades[t] # None, t \in reported,
         row' = ClosedRow(t), trades'[t] = None
  PROVE  Ledger!WritesRows
<1>1. row' \in [Trade -> {"none", "open", "closed"}]
  BY RowTypes
<1>2. \A u \in Trade :
        \/ row'[u] = row[u]
        \/ u = t /\ row[u] = "none" /\ row'[u] = "closed"
  BY DEF ClosedRow, TypeOK
<1>3. t \in (Managed \cap reported) \ Managed'
  BY DEF Managed
<1> QED  BY <1>1, <1>2, <1>3 DEF Ledger!WritesRows, Ledger!Writes

LEMMA SameRows ==
  ASSUME TypeOK, row' = row
  PROVE  Ledger!WritesRows
BY DEF TypeOK, Ledger!WritesRows, Ledger!Writes

(* How the handlers write rows.                                            *)
LEMMA RowsStep ==
  ASSUME TypeOK, Truthful, [Next]_vars
  PROVE  Ledger!WritesRows
<1>1. CASE row' = row
  BY <1>1, SameRows
<1>2. CASE HandleClose
  <2>1. Head(queue).trade_id \in Trade
    BY <1>2, TakeType, EventFields DEF HandleClose
  <2>2. 1 \in DOMAIN queue /\ Head(queue) = queue[1]
    BY <1>2 DEF HandleClose, Take, TypeOK
  <2>3. Head(queue).trade_id \in reported
    BY <1>2, <2>2, TakeType DEF HandleClose, Truthful
  <2> QED  BY <1>2, <2>1, <2>3, ClosedRows DEF HandleClose, TypeOK
<1>3. CASE HandleHeartbeat /\ row' # row
  <2> PICK visited \in Visits(Adopted(Listed)) : row' = RowsAfter(visited)
    BY <1>3 DEF HandleHeartbeat
  <2> QED  BY SavedRows
<1>4. CASE HeartbeatFails /\ row' # row
  <2> PICK visited \in Visits(Adopted(Listed)) :
             \E some \in SUBSET visited : row' = RowsAfter(some)
    BY <1>4 DEF HeartbeatFails
  <2> PICK some \in SUBSET visited : row' = RowsAfter(some)
    OBVIOUS
  <2> QED  BY SavedRows
<1>5. CASE CrashInHandler /\ row' # row
  <2>1. trades' = Nobody
    BY <1>5 DEF CrashInHandler, Dies
  <2>2. CASE Head(queue).type = "ORDER_CLOSE"
    <3>1. /\ Head(queue).trade_id \in Trade
          /\ 1 \in DOMAIN queue /\ Head(queue) = queue[1]
      BY <1>5, <2>2, QueueTypes, EventFields DEF CrashInHandler, TypeOK
    <3>2. Head(queue).trade_id \in reported
      BY <2>2, <3>1 DEF Truthful
    <3>3. /\ trades[Head(queue).trade_id] # None
          /\ row' = ClosedRow(Head(queue).trade_id)
      BY <1>5, <2>2 DEF CrashInHandler
    <3> QED  BY <2>1, <3>1, <3>2, <3>3, NobodyEntry, ClosedRows
  <2>3. CASE Head(queue).type # "ORDER_CLOSE"
    <3> PICK visited \in Visits(Adopted(Listed)) :
             \E some \in SUBSET visited : row' = RowsAfter(some)
      BY <1>5, <2>3 DEF CrashInHandler
    <3> PICK some \in SUBSET visited : row' = RowsAfter(some)
      OBVIOUS
    <3> QED  BY SavedRows
  <2> QED  BY <2>2, <2>3
<1> QED
  BY <1>1, <1>2, <1>3, <1>4, <1>5
  DEF Next, Handle, Broker, List, OpenByHand, Delist, Report, Tick, PlaceOrder,
      HandleTick, HandleOpen, HandleUnknownClose, CloseFails, HandleMarket,
      MarketFails, SyncTrades, SyncFails, CloseMarket, Restart, Crash, Announce,
      LoopTick, OpenMarket, vars

LEMMA LedgerInit == Init => Ledger!Init
BY NobodyEntry DEF Init, Ledger!Init, Listed, Managed

Known == {t \in Trade : life[t] # "new"}

LEMMA SameBroker ==
  ASSUME UNCHANGED broker
  PROVE  Known' = Known /\ Listed' = Listed /\ reported' = reported
BY DEF broker, Known, Listed

(* A step of the process that leaves it alive is a step of the manager.    *)
LEMMA ManagesStep ==
  ASSUME TypeOK, Truthful, [Next]_vars, UNCHANGED broker, pc # "down", pc' # "down"
  PROVE  Ledger!Manages
<1>1. Managed' \subseteq Managed \cup Known
  BY EntersKnown DEF Managed, Known
<1>2. \A t \in Managed \ Managed' : t \notin Listed \/ t \in reported
  BY LeavesClosed DEF Managed
<1> QED  BY <1>1, <1>2, RowsStep, SameBroker DEF Ledger!Manages, Known

(* Every step of the system is a step of the ledger, or leaves it as it is. *)
LEMMA LedgerStep ==
  ASSUME TypeOK, TypeOK', Truthful, Truthful', Consistent, [Next]_vars
  PROVE  [Ledger!Next]_(Ledger!vars)
<1>1. CASE \/ \E t \in Trade : List(t) \/ OpenByHand(t) \/ Delist(t) \/ Report(t)
           \/ \E t \in Trade : PlaceOrder(t)
  <2>1. Known \subseteq Known' /\ Known' \subseteq Trade
    BY BrokerGrows DEF Known
  <2>2. Listed' \subseteq Known'
    BY DEF Listed, Known
  <2>3. reported \subseteq reported' /\ reported' \subseteq Known'
    BY BrokerGrows DEF Truthful, Known, TypeOK
  <2>4. UNCHANGED <<trades, row>> /\ (pc # "down") = (pc' # "down")
    BY <1>1 DEF List, OpenByHand, Delist, Report, PlaceOrder, loop
  <2>5. Managed' = Managed
    BY <2>4 DEF Managed
  <2> QED
    BY <2>1, <2>2, <2>3, <2>4, <2>5 DEF Ledger!Next, Ledger!BrokerMoves, Known
<1>2. CASE UNCHANGED broker /\ pc # "down" /\ pc' # "down"
  BY <1>2, ManagesStep DEF Ledger!Next
<1>3. CASE Crash \/ CrashInHandler
  <2>1. pc # "down" /\ pc' = "down" /\ UNCHANGED broker
    BY <1>3 DEF Crash, CrashInHandler, Dies
  <2>2. Managed' = {}
    BY <1>3, NobodyEntry DEF Crash, CrashInHandler, Dies, Managed
  <2> QED
    BY <2>1, <2>2, RowsStep, SameBroker DEF Ledger!Next, Ledger!Forgets, Known
<1>4. CASE Restart
  <2>1. pc = "down" /\ pc' = "loop" /\ UNCHANGED <<broker, row>>
    BY <1>4 DEF Restart
  <2>2. Managed = {}
    BY <2>1 DEF Consistent
  <2>3. trades' = Restored(Matched, Trade)
    BY <1>4 DEF Restart, LoadTrades
  <2>4. Fresh # None
    <3>1. Fresh \in Mark
      BY DEF Fresh, Mark
    <3> QED  BY <3>1, NoneAssumption DEF Mark
  <2>5. \A t \in Trade : trades[t] = None
    BY <2>2 DEF Managed
  <2>6. \A t \in Trade : trades'[t] # None <=> t \in Listed
    <3> SUFFICES ASSUME NEW t \in Trade PROVE trades'[t] # None <=> t \in Listed
      OBVIOUS
    <3>1. Matched[t] = IF t \in Listed THEN Fresh ELSE None
      BY <2>5 DEF Matched, Adopted
    <3> QED  BY <2>3, <2>4, <3>1 DEF Restored
  <2>7. Managed' = Listed
    BY <2>6 DEF Managed, Listed
  <2> QED  BY <2>1, <2>7, SameBroker DEF Ledger!Next, Ledger!Recovers, Known
<1>5. CASE UNCHANGED vars
  BY <1>5 DEF vars, Ledger!vars, Listed, Managed
<1> QED
  BY <1>1, <1>2, <1>3, <1>4, <1>5
  DEF Next, Handle, Take, Broker, Tick, HandleTick, HandleOpen, HandleUnknownClose,
      HandleClose, CloseFails, HandleMarket, MarketFails, HandleHeartbeat,
      HeartbeatFails, SyncTrades, SyncFails, CloseMarket, Announce, LoopTick,
      OpenMarket, broker, loop

(* What the broker, the queue and the main thread say of trades agrees.    *)
THEOREM TruthCorrect == Spec => []Truthful
<1>1. Init => Truthful
  BY TruthInit
<1>2. TypeOK /\ TypeOK' /\ Truthful /\ [Next]_vars => Truthful'
  BY TruthStep
<1>3. Spec => []TypeOK
  BY TypeCorrect
<1> QED  BY <1>1, <1>2, <1>3, PTL DEF Spec

(* The trade manager, with its queue, its snapshot, its crashes and its    *)
(* failing handlers, implements TradeLedger.                               *)
THEOREM Refinement == Spec => LedgerSpec
<1>1. Init => Ledger!Init
  BY LedgerInit
<1>2. /\ TypeOK /\ TypeOK' /\ Truthful /\ Truthful' /\ Consistent
      /\ [Next]_vars
      => [Ledger!Next]_(Ledger!vars)
  BY LedgerStep
<1>3. Spec => []TypeOK /\ []Truthful
  BY TypeCorrect, TruthCorrect
<1>4. Init => Consistent
  BY ConsistentInit
<1>5. TypeOK /\ TypeOK' /\ Consistent /\ [Next]_vars => Consistent'
  BY ConsistentStep
<1> QED  BY <1>1, <1>2, <1>3, <1>4, <1>5, PTL DEF Spec, LedgerSpec, Ledger!Spec
=============================================================================
