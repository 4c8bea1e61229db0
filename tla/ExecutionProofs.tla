-------------------------- MODULE ExecutionProofs --------------------------
(***************************************************************************)
(* Proofs about Execution: the two bounds on the program's own trades, for *)
(* every number of trades, every max_trade and every lag of the broker.    *)
(***************************************************************************)
EXTENDS Execution, FiniteSetTheorems, TLAPS

(* Every set of trades is finite, and a smaller one is not larger.         *)
LEMMA TradeSets ==
  ASSUME NEW S \in SUBSET Trade, NEW T \in SUBSET S
  PROVE  /\ IsFiniteSet(S)
         /\ Cardinality(S) \in Nat
         /\ Cardinality(T) \in Nat
         /\ Cardinality(T) <= Cardinality(S)
<1>1. IsFiniteSet(S)
  BY FS_Subset, TradeAssumption
<1>2. IsFiniteSet(T) /\ Cardinality(T) <= Cardinality(S)
  BY <1>1, FS_Subset
<1> QED  BY <1>1, <1>2, FS_CardinalityType

(* One more trade costs at most one.                                       *)
LEMMA OneMore ==
  ASSUME NEW S \in SUBSET Trade, NEW t \in Trade
  PROVE  Cardinality(S \cup {t}) <= Cardinality(S) + 1
<1>1. IsFiniteSet(S) /\ Cardinality(S) \in Nat
  BY TradeSets
<1> QED  BY <1>1, FS_AddElement

LEMMA Constants == MaxTrade \in Nat /\ MaxTried \in Nat /\ Lag \in Nat
BY BoundAssumption

-----------------------------------------------------------------------------
LEMMA FinishType ==
  ASSUME TypeOK, NEW result, Finish(result)
  PROVE  pc' = "idle" /\ signal' = None /\ queue' \in Seq(Signal)
BY DEF TypeOK, Finish, Processed

LEMMA TypeInit == Init => TypeOK
BY BoundAssumption DEF Init, TypeOK

(* Every step preserves the types.                                         *)
LEMMA TypeStep == TypeOK /\ [Next]_vars => TypeOK'
<1> SUFFICES ASSUME TypeOK, [Next]_vars PROVE TypeOK'
  OBVIOUS
<1> USE DEF handler
<1>1. CASE Broker
  BY <1>1 DEF Broker, List, OpenByHand, Delist, Quote, TypeOK
<1>2. ASSUME NEW i \in Instrument, NEW side \in Side, SendSignal(i, side)
      PROVE  TypeOK'
  <2>1. [instrument |-> i, side |-> side, tried |-> 0] \in Signal
    BY Constants DEF Signal
  <2> QED  BY <1>2, <2>1 DEF SendSignal, TypeOK
<1>3. CASE Take
  <2>1. Head(queue) \in Signal /\ Tail(queue) \in Seq(Signal)
    BY <1>3 DEF Take, TypeOK
  <2> QED  BY <1>3, <2>1 DEF Take, TypeOK
<1>4. CASE CheckExist
  BY <1>4, FinishType DEF CheckExist, Continue, TypeOK
<1>5. CASE CheckSpread
  <2>1. signal \in Signal /\ spread[signal.instrument] \in {"none", "narrow", "wide"}
    BY <1>5 DEF CheckSpread, TypeOK, Signal
  <2>2. Finish(FALSE) \/ Finish(TRUE) \/ Continue("lots")
    BY <1>5, <2>1 DEF CheckSpread
  <2>3. UNCHANGED <<life, own, spread, crashes>>
    BY <1>5 DEF CheckSpread
  <2> QED  BY <2>1, <2>2, <2>3, FinishType DEF Continue, TypeOK
<1>6. CASE GetLots
  BY <1>6, FinishType DEF GetLots, Continue, TypeOK
<1>7. CASE ReadFails \/ Rejected \/ Announce
  BY <1>7, FinishType DEF ReadFails, Rejected, Announce, TypeOK
<1>8. ASSUME NEW t \in Trade, MarketOrder(t) \/ AnswerLost(t)
      PROVE  TypeOK'
  BY <1>8, FinishType DEF MarketOrder, AnswerLost, Accept, Continue, TypeOK
<1>9. CASE Crash
  BY <1>9, BoundAssumption DEF Crash, TypeOK
<1>10. CASE UNCHANGED vars
  BY <1>10 DEF vars, TypeOK
<1> QED
  BY <1>1, <1>2, <1>3, <1>4, <1>5, <1>6, <1>7, <1>8, <1>9, <1>10 DEF Next, Open

(* Every variable keeps its type, and the handler its signal.              *)
THEOREM TypeCorrect == Spec => []TypeOK
<1>1. Init => TypeOK
  BY TypeInit
<1>2. TypeOK /\ [Next]_vars => TypeOK'
  BY TypeStep
<1> QED  BY <1>1, <1>2, PTL DEF Spec

-----------------------------------------------------------------------------
(* The two bounds.                                                         *)

Bounded == Readings /\ OnePerPair /\ AtMostMaxTrade

LEMMA OwnSets ==
  /\ Flying \in SUBSET Trade /\ Listed \in SUBSET Trade /\ OwnLive \in SUBSET Trade
  /\ \A i, side : OwnOf(i, side) \in SUBSET OwnLive
BY DEF Flying, Listed, OwnLive, OwnOf

(* A step that puts no order out leaves no more of the program's trades    *)
(* open or on their way than there were.                                   *)
LEMMA NoOrder ==
  ASSUME TypeOK, Readings, [Next]_vars, own' = own
  PROVE  /\ Flying' \subseteq Flying
         /\ OwnLive' \subseteq OwnLive
         /\ \A i, side : OwnOf(i, side)' \subseteq OwnOf(i, side)
         /\ \A t \in own' : life'[t] # "new"
<1>1. \A t \in Trade :
        \/ life'[t] = life[t]
        \/ life[t] = "flying" /\ life'[t] = "listed"
        \/ life[t] = "new" /\ life'[t] = "listed"
        \/ life[t] = "listed" /\ life'[t] = "gone"
        \/ life[t] = "new" /\ life'[t] = "flying" /\ t \in own'
  BY DEF Next, Broker, List, OpenByHand, Delist, Quote, SendSignal, Take, Open,
         CheckExist, CheckSpread, GetLots, ReadFails, Rejected, Announce, MarketOrder,
         AnswerLost, Accept, Crash, vars, TypeOK
<1>2. \A t \in own : life[t] # "new"
  BY DEF Readings
<1>3. Flying' \subseteq Flying
  BY <1>1, <1>2 DEF Flying
<1>4. OwnLive' \subseteq OwnLive
  BY <1>1, <1>2 DEF OwnLive, Flying, Listed
<1>5. \A i, side : OwnOf(i, side)' \subseteq OwnOf(i, side)
  BY <1>4 DEF OwnOf
<1>6. \A t \in own' : life'[t] # "new"
  BY <1>1, <1>2 DEF TypeOK
<1> QED  BY <1>3, <1>4, <1>5, <1>6

LEMMA BoundedInit == Init => Bounded
<1> SUFFICES ASSUME Init PROVE Bounded
  OBVIOUS
<1>1. OwnLive = {} /\ \A i, side : OwnOf(i, side) = {}
  BY DEF Init, OwnLive, OwnOf
<1>2. Cardinality(OwnLive) = 0 /\ \A i, side : Cardinality(OwnOf(i, side)) = 0
  BY <1>1, FS_EmptySet
<1>3. Readings
  BY DEF Init, Readings
<1> QED
  BY <1>2, <1>3, Constants DEF Bounded, OnePerPair, AtMostMaxTrade

(* Whatever the handler has read before stays true until the order.        *)
LEMMA ReadingsStep ==
  ASSUME TypeOK, TypeOK', Bounded, [Next]_vars, own' = own
  PROVE  Readings'
<1>1. /\ Cardinality(Flying') <= Cardinality(Flying)
      /\ Cardinality(OwnLive') <= Cardinality(OwnLive)
      /\ \A i, side : Cardinality(OwnOf(i, side)') <= Cardinality(OwnOf(i, side))
  BY NoOrder, OwnSets, TradeSets DEF Bounded
<1>2. /\ Cardinality(Flying) \in Nat /\ Cardinality(Flying') \in Nat
      /\ Cardinality(OwnLive) \in Nat /\ Cardinality(OwnLive') \in Nat
      /\ Cardinality(Listed) \in Nat
      /\ \A i, side : /\ Cardinality(OwnOf(i, side)) \in Nat
                      /\ Cardinality(OwnOf(i, side)') \in Nat
  <2>1. /\ Flying' \in SUBSET Trade /\ OwnLive' \in SUBSET Trade
        /\ \A i, side : OwnOf(i, side)' \in SUBSET Trade
    BY DEF Flying, Listed, OwnLive, OwnOf
  <2> QED  BY <2>1, OwnSets, TradeSets
<1>3. \A t \in own' : life'[t] # "new"
  BY NoOrder DEF Bounded
<1>4. CASE pc' = "idle" \/ pc' = "announce"
  BY <1>3, <1>4 DEF Readings
<1>5. CASE pc' = pc /\ signal' = signal
  BY <1>1, <1>2, <1>3, <1>5, Constants DEF Bounded, Readings
<1>6. CASE Take
  BY <1>1, <1>2, <1>3, <1>6, Constants DEF Take, Readings
<1>7. CASE CheckExist /\ pc' # "idle"
  <2>1. pc = "exist" /\ pc' = "spread" /\ signal' = signal /\ ~Exists(signal)
    BY <1>7 DEF CheckExist, Finish, Continue
  <2>2. OwnOf(signal.instrument, signal.side) \subseteq Flying
    BY <2>1 DEF OwnOf, OwnLive, Exists, Fits
  <2>3. Cardinality(OwnOf(signal.instrument, signal.side)) <= Cardinality(Flying)
    BY <2>2, OwnSets, TradeSets
  <2> QED  BY <1>1, <1>2, <1>3, <2>1, <2>3, Constants DEF Bounded, Readings
<1>8. CASE CheckSpread /\ pc' # "idle"
  <2>1. signal \in Signal /\ spread[signal.instrument] \in {"none", "narrow", "wide"}
    BY <1>8 DEF CheckSpread, TypeOK, Signal
  <2>2. pc = "spread" /\ pc' = "lots" /\ signal' = signal
    BY <1>8, <2>1 DEF CheckSpread, Finish, Continue
  <2> QED  BY <1>1, <1>2, <1>3, <2>2, Constants DEF Bounded, Readings
<1>9. CASE GetLots /\ pc' # "idle"
  <2>1. pc = "lots" /\ pc' = "order" /\ signal' = signal /\ Cardinality(Listed) < MaxTrade
    <3>1. pc = "lots" /\ pc' = "order" /\ signal' = signal /\ ~Full
      BY <1>9 DEF GetLots, Finish, Continue
    <3>2. Cardinality(Listed) < MaxTrade
      BY <1>2, <3>1, Constants DEF Full
    <3> QED  BY <3>1, <3>2
  <2>2. Cardinality(OwnLive) <= Cardinality(Flying) + Cardinality(Listed)
    <3>1. OwnLive \subseteq Flying \cup Listed /\ Flying \cup Listed \in SUBSET Trade
      BY DEF OwnLive, Flying, Listed
    <3>2. Cardinality(OwnLive) <= Cardinality(Flying \cup Listed)
      BY <3>1, TradeSets
    <3>3. IsFiniteSet(Flying) /\ IsFiniteSet(Listed) /\ Flying \cap Listed = {}
      BY OwnSets, TradeSets DEF Flying, Listed
    <3>4. Cardinality(Flying \cup Listed) = Cardinality(Flying) + Cardinality(Listed)
      <4>1. Cardinality(Flying \cup Listed)
              = Cardinality(Flying) + Cardinality(Listed) - Cardinality(Flying \cap Listed)
        BY <3>3, FS_Union
      <4>2. Cardinality(Flying \cap Listed) = 0
        BY <3>3, FS_EmptySet
      <4> QED  BY <1>2, <4>1, <4>2
    <3> QED  BY <3>2, <3>4
  <2> QED  BY <1>1, <1>2, <1>3, <2>1, <2>2, Constants DEF Bounded, Readings
<1> QED
  BY <1>4, <1>5, <1>6, <1>7, <1>8, <1>9
  DEF Next, Broker, List, OpenByHand, Delist, Quote, SendSignal, Open, ReadFails,
      Rejected, Announce, MarketOrder, AnswerLost, Accept, Continue, Finish, Crash,
      vars, handler

(* Every step keeps the bounds.                                            *)
LEMMA BoundedStep ==
  ASSUME TypeOK, TypeOK', Bounded, [Next]_vars
  PROVE  Bounded'
<1>1. CASE own' = own
  <2>1. /\ Cardinality(OwnLive') <= Cardinality(OwnLive)
        /\ \A i, side : Cardinality(OwnOf(i, side)') <= Cardinality(OwnOf(i, side))
    BY <1>1, NoOrder, OwnSets, TradeSets DEF Bounded
  <2>2. /\ Cardinality(OwnLive) \in Nat /\ Cardinality(OwnLive') \in Nat
        /\ \A i, side : /\ Cardinality(OwnOf(i, side)) \in Nat
                        /\ Cardinality(OwnOf(i, side)') \in Nat
    <3>1. OwnLive' \in SUBSET Trade /\ \A i, side : OwnOf(i, side)' \in SUBSET Trade
      BY DEF Flying, Listed, OwnLive, OwnOf
    <3> QED  BY <3>1, OwnSets, TradeSets
  <2>3. OnePerPair' /\ AtMostMaxTrade'
    BY <2>1, <2>2, Constants DEF Bounded, OnePerPair, AtMostMaxTrade
  <2> QED  BY <1>1, <2>3, ReadingsStep DEF Bounded
<1>2. ASSUME NEW t \in Trade, MarketOrder(t) \/ AnswerLost(t)
      PROVE  Bounded'
  <2>1. /\ pc = "order" /\ life[t] = "new" /\ Fits(t, signal)
        /\ life' = [life EXCEPT ![t] = "flying"] /\ own' = own \cup {t}
        /\ pc' \in {"idle", "announce"}
    BY <1>2 DEF MarketOrder, AnswerLost, Accept, Continue, Finish
  <2>2. OwnLive' \subseteq OwnLive \cup {t}
    BY <2>1 DEF OwnLive, Flying, Listed, TypeOK
  <2>3. \A i, side : OwnOf(i, side)' \subseteq OwnOf(i, side) \cup {t}
    BY <2>2 DEF OwnOf
  <2>4. \A i, side : Terms[t] # [instrument |-> i, side |-> side]
                     => OwnOf(i, side)' \subseteq OwnOf(i, side)
    BY <2>2 DEF OwnOf
  <2>5. Terms[t] = [instrument |-> signal.instrument, side |-> signal.side]
    BY <2>1, TradeAssumption DEF Fits
  <2>6. AtMostMaxTrade'
    <3>1. Cardinality(OwnLive') <= Cardinality(OwnLive \cup {t})
      BY <2>2, OwnSets, TradeSets
    <3>2. Cardinality(OwnLive \cup {t}) <= Cardinality(OwnLive) + 1
      BY OwnSets, OneMore
    <3>3. /\ Cardinality(OwnLive) \in Nat /\ Cardinality(OwnLive') \in Nat
          /\ Cardinality(OwnLive \cup {t}) \in Nat
      <4>1. OwnLive' \in SUBSET Trade /\ OwnLive \cup {t} \in SUBSET Trade
        BY OwnSets DEF OwnLive, Flying, Listed
      <4> QED  BY <4>1, OwnSets, TradeSets
    <3>4. Cardinality(OwnLive) < MaxTrade + Lag
      BY <2>1 DEF Bounded, Readings
    <3> QED  BY <3>1, <3>2, <3>3, <3>4, Constants DEF AtMostMaxTrade
  <2>7. ASSUME NEW i \in Instrument, NEW side \in Side
        PROVE  Cardinality(OwnOf(i, side)') <= Lag + 1
    <3>1. /\ Cardinality(OwnOf(i, side)) \in Nat /\ Cardinality(OwnOf(i, side)') \in Nat
          /\ Cardinality(OwnOf(i, side) \cup {t}) \in Nat
      <4>1. /\ OwnOf(i, side)' \in SUBSET Trade
            /\ OwnOf(i, side) \in SUBSET Trade
            /\ OwnOf(i, side) \cup {t} \in SUBSET Trade
        BY DEF OwnOf, OwnLive, Flying, Listed
      <4> QED  BY <4>1, TradeSets
    <3>2. CASE Terms[t] = [instrument |-> i, side |-> side]
      <4>1. i = signal.instrument /\ side = signal.side
        BY <2>5, <3>2
      <4>2. Cardinality(OwnOf(i, side)) <= Lag
        BY <2>1, <4>1 DEF Bounded, Readings
      <4>3. Cardinality(OwnOf(i, side)') <= Cardinality(OwnOf(i, side) \cup {t})
        <5>1. OwnOf(i, side) \cup {t} \in SUBSET Trade
          BY DEF OwnOf, OwnLive, Flying, Listed
        <5> QED  BY <2>3, <5>1, TradeSets
      <4>4. Cardinality(OwnOf(i, side) \cup {t}) <= Cardinality(OwnOf(i, side)) + 1
        BY OneMore, OwnSets
      <4> QED  BY <3>1, <4>2, <4>3, <4>4, Constants
    <3>3. CASE Terms[t] # [instrument |-> i, side |-> side]
      <4>1. Cardinality(OwnOf(i, side)') <= Cardinality(OwnOf(i, side))
        BY <2>4, <3>3, OwnSets, TradeSets
      <4>2. Cardinality(OwnOf(i, side)) <= Lag + 1
        BY DEF Bounded, OnePerPair
      <4> QED  BY <3>1, <4>1, <4>2, Constants
    <3> QED  BY <3>2, <3>3
  <2>8. Readings'
    <3>1. \A u \in own' : life'[u] # "new"
      BY <2>1 DEF Bounded, Readings, TypeOK
    <3> QED  BY <2>1, <3>1 DEF Readings
  <2> QED  BY <2>6, <2>7, <2>8 DEF Bounded, OnePerPair
<1> QED
  BY <1>1, <1>2
  DEF Next, Broker, List, OpenByHand, Delist, Quote, SendSignal, Take, Open, CheckExist,
      CheckSpread, GetLots, ReadFails, Rejected, Announce, Crash, vars

LEMMA BoundedAlways == Spec => []Bounded
<1>1. Init => Bounded
  BY BoundedInit
<1>2. TypeOK /\ TypeOK' /\ Bounded /\ [Next]_vars => Bounded'
  BY BoundedStep
<1>3. Spec => []TypeOK
  BY TypeCorrect
<1> QED  BY <1>1, <1>2, <1>3, PTL DEF Spec

(* One trade per pair and side (check_trade_exist), but for one more for   *)
(* each order that may be missing from the table of open positions when    *)
(* the handler looks: the bound degrades with the lag and no further.      *)
THEOREM PairBounded == Spec => []OnePerPair
<1>1. Bounded => OnePerPair
  BY DEF Bounded
<1> QED  BY <1>1, BoundedAlways, PTL

(* The same of max_trade (get_lots), which bounds the trades of all pairs. *)
THEOREM TradesBounded == Spec => []AtMostMaxTrade
<1>1. Bounded => AtMostMaxTrade
  BY DEF Bounded
<1> QED  BY <1>1, BoundedAlways, PTL
=============================================================================
