-------------------------- MODULE EventLoopProofs --------------------------
(***************************************************************************)
(* Theorems of EventLoop, for any pairs, prices, data, strategies and size *)
(* of a trade, each from an invariant of its own:                          *)
(*                                                                         *)
(* Accounting, NeverCloses: what a step may do to the counters and to a    *)
(*   position's units. Neither needs to know what is in the queue.         *)
(* TypeCorrect: the range of every variable, on which the others build.    *)
(* OrdersMatch: every event and call under way has the size of one trade.  *)
(* Balance: the ticks of a row stand before its signals in the queue, and  *)
(*   a position whose price is old has its tick there.                     *)
(* SignalsMatch: the signals under way are a way from the position held to *)
(*   the flags of the strategy.                                            *)
(***************************************************************************)
EXTENDS EventLoop, EventLoopLemmas, FiniteSetTheorems

\* Every pair has a position with its four fields.
WellFormed(ps) ==
  ps = [side |-> ps.side, units |-> ps.units, cost |-> ps.cost, cur |-> ps.cur]

Formed ==
  /\ positions = [p \in Pair |-> positions[p]]
  /\ \A p \in Pair : WellFormed(positions[p])

\* How a step may change sides and units: those of p become s and u, others stay.
Becomes(p, s, u) ==
  \A q \in Pair :
    /\ positions'[q].side = IF q = p THEN s ELSE positions[q].side
    /\ positions'[q].units = IF q = p THEN u ELSE positions[q].units

SidesStay == \A q \in Pair : positions'[q].side = positions[q].side
UnitsStay == \A q \in Pair : positions'[q].units = positions[q].units

-----------------------------------------------------------------------------
(* What the portfolio's operations do to sides and units.                  *)

\* A new price changes neither.
LEMMA PriceOnly ==
  ASSUME NEW ps, WellFormed(ps), NEW quote
  PROVE  /\ WellFormed(UpdatePositionPrice(ps, quote))
         /\ UpdatePositionPrice(ps, quote).side = ps.side
         /\ UpdatePositionPrice(ps, quote).units = ps.units
  BY DEF WellFormed, UpdatePositionPrice

LEMMA MoreUnits ==
  ASSUME NEW ps, WellFormed(ps), NEW units, NEW quote
  PROVE  /\ WellFormed(AddUnits(ps, units, quote))
         /\ AddUnits(ps, units, quote).side = ps.side
         /\ AddUnits(ps, units, quote).units = ps.units + units
  <1> DEFINE paid == units * OpenPrice(ps.side, quote)
             more1 == [ps EXCEPT !.units = ps.units + units]
             grown == [more1 EXCEPT !.cost = ps.cost + paid]
  <1>1. AddUnits(ps, units, quote) = grown
    BY DEF AddUnits
  <1> HIDE DEF paid
  <1>2. more1 = [side |-> ps.side, units |-> ps.units + units, cost |-> ps.cost, cur |-> ps.cur]
    BY DEF WellFormed
  <1> HIDE DEF more1
  <1>3. grown = [side |-> ps.side, units |-> ps.units + units, cost |-> ps.cost + paid,
                 cur |-> ps.cur]
    BY <1>2
  <1> HIDE DEF grown
  <1>4. WellFormed(grown) /\ grown.side = ps.side /\ grown.units = ps.units + units
    BY <1>3 DEF WellFormed
  <1> QED
    BY <1>1, <1>4

\* Replacing one position by a well-formed one.
LEMMA Replaced1 ==
  ASSUME Formed, NEW p \in Pair, NEW ps, WellFormed(ps),
         positions' = [positions EXCEPT ![p] = ps]
  PROVE  Formed' /\ Becomes(p, ps.side, ps.units)
  <1>1. \A q \in Pair : positions'[q] = IF q = p THEN ps ELSE positions[q]
    BY DEF Formed
  <1>2. positions' = [q \in Pair |-> positions'[q]]
    BY DEF Formed
  <1> QED
    BY <1>1, <1>2 DEF Formed, Becomes

LEMMA UpdateStays ==
  ASSUME Formed, NEW p, UpdatePortfolio(p)
  PROVE  Formed' /\ SidesStay /\ UnitsStay
  <1> DEFINE ps == UpdatePositionPrice(positions[p], quotes[p])
  <1>1. CASE p \in Pair /\ IsOpen(positions[p])
    <2>1. WellFormed(ps) /\ ps.side = positions[p].side /\ ps.units = positions[p].units
      BY <1>1, PriceOnly DEF Formed
    <2>2. positions' = [positions EXCEPT ![p] = ps]
      BY <1>1 DEF UpdatePortfolio
    <2> HIDE DEF ps
    <2>3. Formed' /\ Becomes(p, ps.side, ps.units)
      BY <1>1, <2>1, <2>2, Replaced1
    <2> QED
      BY <2>1, <2>3 DEF Becomes, SidesStay, UnitsStay
  <1>2. CASE ~(p \in Pair /\ IsOpen(positions[p]))
    <2>1. positions' = positions
      BY <1>2 DEF UpdatePortfolio, Formed
    <2> QED
      BY <2>1 DEF Formed, SidesStay, UnitsStay
  <1> QED
    BY <1>1, <1>2

LEMMA OpensBecomes ==
  ASSUME Formed, NEW p \in Pair, NEW side, NEW units, Opens(p, side, units)
  PROVE  Formed' /\ Becomes(p, side, units)
  <1> DEFINE ps == NewPosition(side, units, quotes[p])
  <1>1. WellFormed(ps) /\ ps.side = side /\ ps.units = units
    BY DEF WellFormed, NewPosition
  <1>2. positions' = [positions EXCEPT ![p] = ps]
    BY DEF Opens
  <1> HIDE DEF ps
  <1> QED
    BY <1>1, <1>2, Replaced1

LEMMA GrowsBecomes ==
  ASSUME Formed, NEW p \in Pair, NEW units, Grows(p, units)
  PROVE  Formed' /\ Becomes(p, positions[p].side, positions[p].units + units)
  <1> DEFINE grown == AddUnits(positions[p], units, quotes[p])
             ps == IF program = "live" THEN UpdatePositionPrice(grown, quotes[p]) ELSE grown
  <1>1. WellFormed(grown) /\ grown.side = positions[p].side
          /\ grown.units = positions[p].units + units
    BY MoreUnits DEF Formed
  <1>2. positions' = [positions EXCEPT ![p] = ps]
    BY DEF Grows
  <1> HIDE DEF grown
  <1>3. WellFormed(ps) /\ ps.side = grown.side /\ ps.units = grown.units
    BY <1>1, PriceOnly
  <1> HIDE DEF ps
  <1> QED
    BY <1>1, <1>2, <1>3, Replaced1

LEMMA ClosesBecomes ==
  ASSUME Formed, NEW p \in Pair, NEW ps, Closes(p, ps)
  PROVE  Formed' /\ Becomes(p, 0, 0)
  <1>1. WellFormed(Flat) /\ Flat.side = 0 /\ Flat.units = 0
    BY DEF WellFormed, Flat
  <1>2. positions' = [positions EXCEPT ![p] = Flat]
    BY DEF Closes
  <1> QED
    BY <1>1, <1>2, Replaced1

LEMMA CloseAllFlat ==
  ASSUME CloseAll
  PROVE  Formed' /\ OpenPairs' = {}
  <1>1. WellFormed(Flat) /\ Flat.side = 0
    BY DEF WellFormed, Flat
  <1>2. positions' = [p \in Pair |-> Flat]
    BY DEF CloseAll
  <1> QED
    BY <1>1, <1>2 DEF Formed, OpenPairs, IsOpen

LEMMA FormedInit == Init => Formed
  BY DEF Init, PortfolioInit, Formed, WellFormed, Flat

\* Steps that leave the positions alone.
LEMMA FormedStays ==
  ASSUME Formed, positions' = positions
  PROVE  Formed' /\ SidesStay /\ UnitsStay /\ OpenPairs' = OpenPairs
  BY DEF Formed, SidesStay, UnitsStay, OpenPairs

\* Whatever a signal makes the portfolios do, backtest or live.
LEMMA FormedNext == Formed /\ [Next]_vars => Formed'
  <1> SUFFICES ASSUME Formed, [Next]_vars
               PROVE  Formed'
    OBVIOUS
  <1>1. CASE StreamNextTick
    BY <1>1, FormedStays DEF StreamNextTick, portfolioVars
  <1>2. CASE HandleTick
    BY <1>2, UpdateStays DEF HandleTick
  <1>3. CASE HandleSignal
    <2>1. PICK p \in Pair :
            \/ UNCHANGED portfolioVars
            \/ Opens(p, SideOf(Head(queue)), Head(queue).units)
            \/ Grows(p, Head(queue).units)
            \/ Closes(p, positions[p])
      BY <1>3 DEF HandleSignal
    <2> QED
      BY <2>1, FormedStays, OpensBecomes, GrowsBecomes, ClosesBecomes DEF portfolioVars
  <1>4. CASE HandleOrder
    BY <1>4, FormedStays DEF HandleOrder, portfolioVars
  <1>5. CASE EndBacktest
    BY <1>5, CloseAllFlat DEF EndBacktest
  <1>6. CASE Hear \/ WriteQuote \/ PutTick \/ LiveTick \/ LivePut \/ LiveOrder
    BY <1>6, FormedStays DEF Hear, WriteQuote, PutTick, LiveTick, LivePut, LiveOrder
  <1>7. CASE LiveUpdate
    BY <1>7, UpdateStays DEF LiveUpdate
  <1>8. CASE LiveSignal
    <2>1. CASE Head(queue).pair \in Pair
      <3> DEFINE p == Head(queue).pair
      <3>1. \/ UNCHANGED positions
            \/ Opens(p, SideOf(Head(queue)), TradeUnits)
            \/ Grows(p, TradeUnits)
            \/ Closes(p, UpdatePositionPrice(positions[p], quotes[p]))
        BY <1>8 DEF LiveSignal, ClosesNow
      <3> QED
        BY <2>1, <3>1, FormedStays, OpensBecomes, GrowsBecomes, ClosesBecomes
    <2>2. CASE Head(queue).pair \notin Pair
      <3>1. positions' = positions
        BY <1>8, <2>2 DEF LiveSignal, Opens, Grows, ClosesNow, Closes, Formed
      <3> QED
        BY <3>1, FormedStays
    <2> QED
      BY <2>1, <2>2
  <1>9. CASE UNCHANGED vars
    BY <1>9, FormedStays DEF vars, portfolioVars
  <1> QED
    BY <1>1, <1>2, <1>3, <1>4, <1>5, <1>6, <1>7, <1>8, <1>9 DEF Next, BacktestStep, LiveStep
-----------------------------------------------------------------------------
(* Accounting.                                                             *)

CountsTyped == trades \in Nat /\ wins \in Nat /\ losses \in Nat

AccountInv == Formed /\ CountsTyped /\ TradesAccounted

LEMMA OpenPairsFinite == IsFiniteSet(OpenPairs) /\ Cardinality(OpenPairs) \in Nat
  BY LoopAssumption, FS_Subset, FS_CardinalityType DEF LoopAssumption, OpenPairs

LEMMA OpenPairsAfter ==
  ASSUME NEW p \in Pair, NEW s, NEW u, Becomes(p, s, u)
  PROVE  OpenPairs' = IF s = 0 THEN OpenPairs \ {p} ELSE OpenPairs \cup {p}
  BY DEF Becomes, OpenPairs, IsOpen

LEMMA SideIsOpen == \A e : SideOf(e) # 0
  BY DEF SideOf

\* A signal opens a trade, changes an open one or closes one.
LEMMA SignalAccounted ==
  ASSUME AccountInv, HandleSignal
  PROVE  AccountInv'
  <1>1. program' = program /\ program = "backtest" /\ Formed /\ CountsTyped
          /\ trades = wins + losses + Cardinality(OpenPairs)
    BY DEF AccountInv, HandleSignal, InBacktest, TradesAccounted
  <1>2. PICK p \in Pair :
          \/ UNCHANGED portfolioVars
          \/ /\ ~IsOpen(positions[p])
             /\ Opens(p, SideOf(Head(queue)), Head(queue).units)
             /\ trades' = trades + 1 /\ UNCHANGED <<wins, losses>>
          \/ /\ IsOpen(positions[p])
             /\ Grows(p, Head(queue).units)
             /\ UNCHANGED <<trades, wins, losses>>
          \/ /\ IsOpen(positions[p])
             /\ Closes(p, positions[p])
             /\ Counted(Profit(positions[p]))
    BY DEF HandleSignal
  <1>3. p \in OpenPairs <=> IsOpen(positions[p])
    BY DEF OpenPairs
  <1>4. CASE UNCHANGED portfolioVars
    BY <1>1, <1>4, FormedStays DEF portfolioVars, AccountInv, CountsTyped, TradesAccounted
  <1>5. CASE /\ ~IsOpen(positions[p])
             /\ Opens(p, SideOf(Head(queue)), Head(queue).units)
             /\ trades' = trades + 1 /\ UNCHANGED <<wins, losses>>
    <2>1. Formed' /\ OpenPairs' = OpenPairs \cup {p}
      BY <1>1, <1>5, OpensBecomes, OpenPairsAfter, SideIsOpen
    <2>2. Cardinality(OpenPairs \cup {p}) = Cardinality(OpenPairs) + 1
      BY <1>3, <1>5, OpenPairsFinite, FS_AddElement
    <2> QED
      BY <1>1, <1>5, <2>1, <2>2, OpenPairsFinite DEF AccountInv, CountsTyped, TradesAccounted
  <1>6. CASE /\ IsOpen(positions[p])
             /\ Grows(p, Head(queue).units)
             /\ UNCHANGED <<trades, wins, losses>>
    <2>1. Formed' /\ OpenPairs' = OpenPairs
      BY <1>1, <1>3, <1>6, GrowsBecomes, OpenPairsAfter DEF IsOpen
    <2> QED
      BY <1>1, <1>6, <2>1 DEF AccountInv, CountsTyped, TradesAccounted
  <1>7. CASE /\ IsOpen(positions[p])
             /\ Closes(p, positions[p])
             /\ Counted(Profit(positions[p]))
    <2>1. Formed' /\ OpenPairs' = OpenPairs \ {p}
      BY <1>1, <1>7, ClosesBecomes, OpenPairsAfter
    <2>2. Cardinality(OpenPairs \ {p}) = Cardinality(OpenPairs) - 1
      BY <1>3, <1>7, OpenPairsFinite, FS_RemoveElement
    <2>3. /\ trades' = trades
          /\ \/ wins' = wins + 1 /\ losses' = losses + 0
             \/ wins' = wins + 0 /\ losses' = losses + 1
      BY <1>7 DEF Counted
    <2> QED
      BY <1>1, <2>1, <2>2, <2>3, OpenPairsFinite DEF AccountInv, CountsTyped, TradesAccounted
  <1> QED
    BY <1>2, <1>4, <1>5, <1>6, <1>7

\* At the end what is open is divided into won and lost.
LEMMA EndAccounted ==
  ASSUME AccountInv, EndBacktest
  PROVE  AccountInv'
  <1> DEFINE won == {p \in OpenPairs : Profit(positions[p]) > 0}
  <1>1. program' = program /\ program = "backtest" /\ CountsTyped
          /\ trades = wins + losses + Cardinality(OpenPairs)
    BY DEF AccountInv, EndBacktest, CloseAll, InBacktest, TradesAccounted
  <1>2. Formed' /\ OpenPairs' = {}
    BY CloseAllFlat DEF EndBacktest
  <1>3. wins' = wins + Cardinality(won) /\ losses' = losses + Cardinality(OpenPairs \ won)
          /\ trades' = trades
    BY DEF EndBacktest, CloseAll
  <1>4. won \in SUBSET OpenPairs
    OBVIOUS
  <1> HIDE DEF won
  <1>5. Cardinality(won) \in Nat /\ Cardinality(OpenPairs \ won) \in Nat
    BY <1>4, OpenPairsFinite, FS_Subset, FS_Difference, FS_CardinalityType
  <1>6. Cardinality(OpenPairs) = Cardinality(won) + Cardinality(OpenPairs \ won)
    <2>1. OpenPairs \cap won = won
      BY <1>4
    <2>2. Cardinality(OpenPairs \ won) = Cardinality(OpenPairs) - Cardinality(OpenPairs \cap won)
      BY OpenPairsFinite, FS_Difference
    <2>3. Cardinality(OpenPairs \ won) = Cardinality(OpenPairs) - Cardinality(won)
      BY <2>1, <2>2
    <2> QED
      BY <1>5, <2>3, OpenPairsFinite
  <1>7. Cardinality({}) = 0
    BY FS_EmptySet
  <1> QED
    BY <1>1, <1>2, <1>3, <1>5, <1>6, <1>7 DEF AccountInv, CountsTyped, TradesAccounted

LEMMA AccountInit == Init => AccountInv
  <1> SUFFICES ASSUME Init PROVE AccountInv
    OBVIOUS
  <1>1. OpenPairs = {}
    BY DEF Init, PortfolioInit, OpenPairs, IsOpen, Flat
  <1>2. trades = 0 /\ wins = 0 /\ losses = 0 /\ Cardinality(OpenPairs) = 0
    BY <1>1, FS_EmptySet DEF Init, PortfolioInit
  <1> QED
    BY <1>2, FormedInit DEF AccountInv, CountsTyped, TradesAccounted

LEMMA AccountNext == AccountInv /\ [Next]_vars => AccountInv'
  <1> SUFFICES ASSUME AccountInv, [Next]_vars
               PROVE  AccountInv'
    OBVIOUS
  <1>1. Formed /\ Formed'
    BY FormedNext DEF AccountInv
  <1>2. CASE HandleSignal
    BY <1>2, SignalAccounted
  <1>3. CASE EndBacktest
    BY <1>3, EndAccounted
  <1>4. CASE LiveStep
    <2>1. program = "live" /\ program' = program /\ UNCHANGED <<trades, wins, losses>>
      BY <1>4 DEF LiveStep, LiveFrame, InLive, Hear, WriteQuote, PutTick, LiveTick, LivePut,
                  LiveUpdate, LiveSignal, LiveOrder
    <2> QED
      BY <1>1, <2>1 DEF AccountInv, CountsTyped, TradesAccounted
  <1>5. CASE StreamNextTick \/ HandleTick \/ HandleOrder \/ UNCHANGED vars
    <2>1. UNCHANGED <<program, trades, wins, losses>>
      BY <1>5 DEF StreamNextTick, HandleTick, HandleOrder, portfolioVars, vars
    <2>2. positions' = positions \/ SidesStay
      BY <1>1, <1>5, UpdateStays
      DEF StreamNextTick, HandleTick, HandleOrder, portfolioVars, vars
    <2>3. OpenPairs' = OpenPairs
      BY <2>2 DEF SidesStay, OpenPairs, IsOpen
    <2> QED
      BY <1>1, <2>1, <2>3 DEF AccountInv, CountsTyped, TradesAccounted
  <1> QED
    BY <1>2, <1>3, <1>4, <1>5 DEF Next, BacktestStep

(* Every trade that the backtest counts is open, won or lost, whatever the  *)
(* strategies do and in whatever order pairs, signals and orders come.      *)
THEOREM Accounting == Spec => []TradesAccounted
  <1>1. AccountInv => TradesAccounted
    BY DEF AccountInv
  <1> QED
    BY <1>1, AccountInit, AccountNext, PTL DEF Spec

-----------------------------------------------------------------------------
(* Live positions.                                                         *)

\* A live position has units, and none when it is closed.
LiveUnits ==
  program = "live" =>
    \A p \in Pair : positions[p].units \in Nat /\ (~IsOpen(positions[p]) => positions[p].units = 0)

GrowInv == Formed /\ LiveUnits

Larger ==
  program = "live" =>
    \A p \in Pair : positions[p].units > TradeUnits =>
      /\ positions'[p].side = positions[p].side
      /\ positions'[p].units >= positions[p].units

\* A step that gives no position another side or other units.
LEMMA NothingGrows ==
  ASSUME GrowInv, Formed', program' = program, SidesStay, UnitsStay
  PROVE  GrowInv' /\ Larger
  BY DEF GrowInv, LiveUnits, SidesStay, UnitsStay, Larger, IsOpen

\* What a live signal does to a position.
LEMMA SignalGrows ==
  ASSUME GrowInv, LiveSignal
  PROVE  GrowInv' /\ Larger
  <1> DEFINE p == Head(queue).pair
             ps == positions[p]
  <1>1. Formed /\ LiveUnits /\ program = "live" /\ program' = program
          /\ TradeUnits \in Nat \ {0}
    BY LoopAssumption DEF GrowInv, LiveSignal, InLive, LiveFrame, LoopAssumption
  <1>2. \/ UNCHANGED positions
        \/ ~IsOpen(ps) /\ Opens(p, SideOf(Head(queue)), TradeUnits)
        \/ IsOpen(ps) /\ Grows(p, TradeUnits)
        \/ IsOpen(ps) /\ ps.units = TradeUnits /\ Closes(p, UpdatePositionPrice(ps, quotes[p]))
    BY DEF LiveSignal, ClosesNow, Closable
  <1>3. CASE UNCHANGED positions \/ p \notin Pair
    <2>1. positions' = positions
      BY <1>1, <1>2, <1>3 DEF Opens, Grows, Closes, Formed
    <2> QED
      BY <1>1, <2>1, FormedStays, NothingGrows
  <1>4. CASE p \in Pair /\ ~IsOpen(ps) /\ Opens(p, SideOf(Head(queue)), TradeUnits)
    <2>1. Formed' /\ Becomes(p, SideOf(Head(queue)), TradeUnits)
      BY <1>1, <1>4, OpensBecomes
    <2> QED
      BY <1>1, <1>4, <2>1, SideIsOpen DEF GrowInv, LiveUnits, Larger, Becomes, IsOpen
  <1>5. CASE p \in Pair /\ IsOpen(ps) /\ Grows(p, TradeUnits)
    <2>1. Formed' /\ Becomes(p, ps.side, ps.units + TradeUnits)
      BY <1>1, <1>5, GrowsBecomes
    <2> QED
      BY <1>1, <1>5, <2>1 DEF GrowInv, LiveUnits, Larger, Becomes, IsOpen
  <1>6. CASE /\ p \in Pair /\ IsOpen(ps) /\ ps.units = TradeUnits
             /\ Closes(p, UpdatePositionPrice(ps, quotes[p]))
    <2>1. Formed' /\ Becomes(p, 0, 0)
      BY <1>1, <1>6, ClosesBecomes
    <2> QED
      BY <1>1, <1>6, <2>1 DEF GrowInv, LiveUnits, Larger, Becomes, IsOpen
  <1> QED
    BY <1>2, <1>3, <1>4, <1>5, <1>6

LEMMA GrowInit == Init => GrowInv
  BY FormedInit DEF Init, PortfolioInit, GrowInv, LiveUnits, Flat

LEMMA GrowNext == GrowInv /\ [Next]_vars => GrowInv' /\ Larger
  <1> SUFFICES ASSUME GrowInv, [Next]_vars
               PROVE  GrowInv' /\ Larger
    OBVIOUS
  <1>1. Formed /\ Formed'
    BY FormedNext DEF GrowInv
  <1>2. CASE BacktestStep
    <2>1. program = "backtest" /\ program' = program
      BY <1>2 DEF BacktestStep, InBacktest, StreamNextTick, HandleTick, HandleSignal,
                  HandleOrder, EndBacktest, CloseAll
    <2> QED
      BY <1>1, <2>1 DEF GrowInv, LiveUnits, Larger
  <1>3. CASE Hear \/ WriteQuote \/ PutTick \/ LiveTick \/ LivePut \/ LiveOrder \/ UNCHANGED vars
    <2>1. UNCHANGED <<program, positions>>
      BY <1>3 DEF Hear, WriteQuote, PutTick, LiveTick, LivePut, LiveOrder, LiveFrame,
                  vars, portfolioVars
    <2> QED
      BY <1>1, <2>1, FormedStays, NothingGrows
  <1>4. CASE LiveUpdate
    <2>1. program' = program /\ SidesStay /\ UnitsStay
      BY <1>1, <1>4, UpdateStays DEF LiveUpdate, LiveFrame
    <2> QED
      BY <1>1, <2>1, NothingGrows
  <1>5. CASE LiveSignal
    BY <1>5, SignalGrows
  <1> QED
    BY <1>2, <1>3, <1>4, <1>5 DEF Next, LiveStep

(* A live position larger than one trade never shrinks, changes side or is  *)
(* closed, for any size of a trade and any strategy.                        *)
THEOREM NeverCloses == Spec => OnlyGrows
  <1>1. GrowInv /\ [Next]_vars => [Larger]_vars
    BY GrowNext
  <1> QED
    BY <1>1, GrowInit, GrowNext, PTL DEF Spec, OnlyGrows, Larger

-----------------------------------------------------------------------------
(* What the strategies put.                                                *)

Trade == [side : BuySell, units : Nat]

LEMMA SeqWider ==
  ASSUME NEW S, NEW T, S \subseteq T, NEW s \in Seq(S)
  PROVE  s \in Seq(T)
  OBVIOUS

\* One more tick of p seen.
LEMMA TickSeen ==
  ASSUME NEW m \in Memory, NEW p \in Pair
  PROVE  [m EXCEPT !.ticks[p] = @ + 1] \in Memory
         /\ [m EXCEPT !.ticks[p] = @ + 1].flags = m.flags
  BY DEF Memory, Flags

LEMMA FlagsSet ==
  ASSUME NEW m \in Memory, NEW p \in Pair, NEW f \in Flags
  PROVE  [m EXCEPT !.flags[p] = f] \in Memory
         /\ [m EXCEPT !.flags[p] = f].flags = [m.flags EXCEPT ![p] = f]
  BY DEF Memory, Flags

LEMMA RandomTyped ==
  ASSUME memory \in Memory, NEW o \in TestRandomStrategy
  PROVE  o.out \in Seq(Trade) /\ o.memory \in Memory
  <1> DEFINE all == memory.all + 1
             side == IF memory.invested THEN "false" ELSE "true"
  <1>1. \/ o = [out |-> <<>>, memory |-> [memory EXCEPT !.all = all]]
        \/ o = [out |-> <<[side |-> side, units |-> TradeUnits]>>,
                memory |-> [memory EXCEPT !.all = all, !.invested = ~@]]
    BY DEF TestRandomStrategy
  <1>2. all \in Nat /\ side \in BuySell /\ TradeUnits \in Nat
    BY LoopAssumption DEF LoopAssumption, Memory, Flags, BuySell
  <1> HIDE DEF all, side
  <1>3. [memory EXCEPT !.all = all] \in Memory
    BY <1>2 DEF Memory, Flags
  <1>4. [memory EXCEPT !.all = all, !.invested = ~@] \in Memory
    BY <1>2 DEF Memory, Flags
  <1>5. <<[side |-> side, units |-> TradeUnits]>> \in Seq(Trade)
    BY <1>2 DEF Trade
  <1>6. <<>> \in Seq(Trade)
    OBVIOUS
  <1>7. CASE o = [out |-> <<>>, memory |-> [memory EXCEPT !.all = all]]
    <2>1. o.out = <<>> /\ o.memory = [memory EXCEPT !.all = all]
      BY <1>7
    <2> QED
      BY <1>3, <1>6, <2>1
  <1>8. CASE o = [out |-> <<[side |-> side, units |-> TradeUnits]>>,
                  memory |-> [memory EXCEPT !.all = all, !.invested = ~@]]
    <2>1. /\ o.out = <<[side |-> side, units |-> TradeUnits]>>
          /\ o.memory = [memory EXCEPT !.all = all, !.invested = ~@]
      BY <1>8
    <2> QED
      BY <1>4, <1>5, <2>1
  <1> QED
    BY <1>1, <1>7, <1>8

LEMMA AllocationTyped ==
  ASSUME memory \in Memory, NEW p \in Pair, NEW o \in AllocationOutcomes(p)
  PROVE  o.out \in Seq(Trade) /\ o.memory \in Memory
  <1>1. o.memory = [memory EXCEPT !.ticks[p] = @ + 1]
    BY DEF AllocationOutcomes
  <1>2. o.out \in {<<[side |-> "true", units |-> u]>> : u \in 0 .. TradeUnits}
                    \cup PortfolioAllocation(TradeUnits)
    BY DEF AllocationOutcomes
  <1>3. TradeUnits \in Nat
    BY LoopAssumption DEF LoopAssumption
  <1>4. o.out \in Seq(Trade)
    <2>1. \A u \in 0 .. TradeUnits : \A s \in BuySell : [side |-> s, units |-> u] \in Trade
      BY <1>3 DEF Trade
    <2>2. \/ o.out = <<>>
          \/ \E u \in 0 .. TradeUnits : o.out = <<[side |-> "true", units |-> u]>>
          \/ \E u \in 0 .. TradeUnits : o.out = <<[side |-> "false", units |-> u]>>
          \/ \E u \in 0 .. TradeUnits :
               o.out = <<[side |-> "true", units |-> u], [side |-> "false", units |-> 0]>>
      BY <1>2 DEF PortfolioAllocation
    <2>3. "true" \in BuySell /\ "false" \in BuySell /\ 0 \in 0 .. TradeUnits
      BY <1>3 DEF BuySell
    <2>4. CASE o.out = <<>>
      BY <2>4
    <2>5. ASSUME NEW u \in 0 .. TradeUnits, NEW s \in BuySell,
                 o.out = <<[side |-> s, units |-> u]>>
          PROVE  o.out \in Seq(Trade)
      BY <2>1, <2>5
    <2>6. ASSUME NEW u \in 0 .. TradeUnits,
                 o.out = <<[side |-> "true", units |-> u], [side |-> "false", units |-> 0]>>
          PROVE  o.out \in Seq(Trade)
      <3>1. [side |-> "true", units |-> u] \in Trade /\ [side |-> "false", units |-> 0] \in Trade
        BY <2>1, <2>3
      <3> QED
        BY <2>6, <3>1
    <2> QED
      BY <2>2, <2>3, <2>4, <2>5, <2>6
  <1> QED
    BY <1>1, <1>4, TickSeen

\* What a rule-based strategy does with a tick: nothing but count it, or all its rules.
LEMMA RuleOutcome ==
  ASSUME memory \in Memory, NEW p \in Pair, strategy \in DOMAIN RuleBased,
         NEW o \in RuleOutcomes(p)
  PROVE  /\ o.out \in Seq([side : BuySell, units : {TradeUnits}])
         /\ o.memory \in Memory
         /\ \E acc \in Accs :
              /\ Sound(memory.flags[p], acc)
              /\ o.memory.flags = [memory.flags EXCEPT ![p] = acc.flags]
              /\ o.out = [i \in 1 .. Len(acc.out) |-> [side |-> acc.out[i], units |-> TradeUnits]]
  <1> DEFINE seen == [memory EXCEPT !.ticks[p] = @ + 1]
             start == [flags |-> memory.flags[p], out |-> <<>>]
  <1>1. memory.flags[p] \in Flags /\ memory.flags \in [Pair -> Flags]
    BY DEF Memory, Flags
  <1>2. seen \in Memory /\ seen.flags = memory.flags
    BY TickSeen
  <1> HIDE DEF seen
  <1>3. ASSUME NEW acc, Sound(memory.flags[p], acc),
               o.out = [i \in DOMAIN acc.out |-> [side |-> acc.out[i], units |-> TradeUnits]],
               o.memory = [seen EXCEPT !.flags[p] = acc.flags]
        PROVE  /\ o.out \in Seq([side : BuySell, units : {TradeUnits}])
               /\ o.memory \in Memory
               /\ acc \in Accs
               /\ o.memory.flags = [memory.flags EXCEPT ![p] = acc.flags]
               /\ o.out = [i \in 1 .. Len(acc.out) |-> [side |-> acc.out[i], units |-> TradeUnits]]
    <2>1. acc.out \in Seq(BuySell) /\ acc.flags \in Flags /\ acc \in Accs
      BY <1>3 DEF Sound, Accs
    <2>2. DOMAIN acc.out = 1 .. Len(acc.out) /\ Len(acc.out) \in Nat
            /\ \A i \in 1 .. Len(acc.out) : acc.out[i] \in BuySell
      BY <2>1
    <2> QED
      BY <1>2, <1>3, <2>1, <2>2, FlagsSet
  <1>4. CASE ~(memory.ticks[p] > Warmup)
    <2>1. o = [out |-> <<>>, memory |-> seen]
      BY <1>4 DEF RuleOutcomes, seen
    <2>2. [seen EXCEPT !.flags[p] = memory.flags[p]] = seen
      BY <1>1, <1>2 DEF Memory, Flags
    <2>3. Sound(memory.flags[p], start) /\ start.out = <<>> /\ start.flags = memory.flags[p]
      BY <1>1, SoundStart
    <2>4. <<>> = [i \in DOMAIN start.out |-> [side |-> start.out[i], units |-> TradeUnits]]
      BY <2>3
    <2> HIDE DEF start
    <2> QED
      <3>1. o.out = [i \in DOMAIN start.out |-> [side |-> start.out[i], units |-> TradeUnits]]
        BY <2>1, <2>4
      <3>2. o.memory = [seen EXCEPT !.flags[p] = start.flags]
        BY <2>1, <2>2, <2>3
      <3> QED
        BY <1>3, <2>3, <3>1, <3>2
  <1>5. CASE memory.ticks[p] > Warmup
    <2>1. PICK z : o = [out |-> [i \in DOMAIN TryRules(strategy, z, memory.flags[p]).out |->
                                  [side |-> TryRules(strategy, z, memory.flags[p]).out[i],
                                   units |-> TradeUnits]],
                        memory |-> [seen EXCEPT !.flags[p] =
                                      TryRules(strategy, z, memory.flags[p]).flags]]
      BY <1>5 DEF RuleOutcomes, seen
    <2> DEFINE acc == TryRules(strategy, z, memory.flags[p])
    <2>2. Sound(memory.flags[p], acc)
      BY <1>1, TriesSound
    <2> HIDE DEF acc
    <2>3. /\ o.out = [i \in DOMAIN acc.out |-> [side |-> acc.out[i], units |-> TradeUnits]]
          /\ o.memory = [seen EXCEPT !.flags[p] = acc.flags]
      BY <2>1 DEF acc
    <2> QED
      BY <1>3, <2>2, <2>3
  <1> QED
    BY <1>4, <1>5

LEMMA OutcomesTyped ==
  ASSUME memory \in Memory, strategy \in Strategy, NEW p \in Pair, NEW o \in Outcomes(p)
  PROVE  o.out \in Seq(Trade) /\ o.memory \in Memory
  <1>0. "TestRandom" \notin DOMAIN RuleBased /\ "PortfolioAllocation" \notin DOMAIN RuleBased
    BY DEF RuleBased
  <1>1. CASE strategy = "TestRandom"
    BY <1>1, RandomTyped DEF Outcomes
  <1>2. CASE strategy = "PortfolioAllocation"
    BY <1>2, AllocationTyped DEF Outcomes
  <1>3. CASE strategy \in DOMAIN RuleBased
    <2>1. o \in RuleOutcomes(p)
      BY <1>0, <1>3 DEF Outcomes
    <2>2. o.out \in Seq([side : BuySell, units : {TradeUnits}]) /\ o.memory \in Memory
      BY <1>3, <2>1, RuleOutcome
    <2>3. [side : BuySell, units : {TradeUnits}] \subseteq Trade
      BY LoopAssumption DEF LoopAssumption, Trade
    <2>4. o.out \in Seq(Trade)
      BY <2>2, <2>3, SeqWider
    <2> QED
      BY <2>2, <2>4
  <1> QED
    BY <1>1, <1>2, <1>3 DEF Strategy

-----------------------------------------------------------------------------
(* Types.                                                                  *)

PositionTyped(ps) ==
  /\ ps.side \in {-1, 0, 1} /\ ps.units \in Nat /\ ps.cost \in Int /\ ps.cur \in Int
  /\ IF IsOpen(ps) THEN ps.units > 0 ELSE ps.units = 0

ProgramTyped ==
  /\ program \in {"backtest", "live"} /\ strategy \in Strategy
  /\ phase \in {"running", "finished", "crashed"}

QueueTyped == queue \in Seq(Event) /\ (program = "live" => Len(queue) <= QueueMax)

QuotesTyped ==
  /\ quotes = [p \in Pair |-> quotes[p]]
  /\ \A p \in Pair : quotes[p] \in QuoteOf(p)

PortfolioTyped ==
  /\ Formed /\ \A p \in Pair : PositionTyped(positions[p])
  /\ balance \in Int /\ cash \in Int

TickerTyped == row \in Nat /\ more \in BOOLEAN /\ \A p \in Pair : row <= Rows[p]

\* The price thread has a pair and a price of that pair whenever it has something to write.
StreamTyped ==
  /\ stream = [at |-> stream.at, pair |-> stream.pair, bid |-> stream.bid]
  /\ stream.at \in {"idle", "bid", "ask", "inverse", "put", "ended"}
  /\ stream.at \notin {"idle", "ended"} =>
       stream.pair \in Pair /\ stream.bid \in Bids[stream.pair]

TodoTyped == todo \in Seq(Call)

BooksTyped == executed \in [Pair -> Int] /\ signals \in Nat /\ missed \in [Pair -> Int]

TypeInv ==
  /\ ProgramTyped /\ QueueTyped /\ QuotesTyped /\ PortfolioTyped /\ CountsTyped
  /\ memory \in Memory /\ TickerTyped /\ StreamTyped /\ TodoTyped /\ BooksTyped

\* The prices of a quote are numbers.
LEMMA QuoteNumbers ==
  ASSUME QuotesTyped, NEW p \in Pair
  PROVE  quotes[p].bid \in Nat /\ quotes[p].ask \in Nat
  <1>1. Bids[p] \subseteq Nat /\ Spread \in Nat
    BY LoopAssumption DEF LoopAssumption
  <1> QED
    BY <1>1 DEF QuotesTyped, QuoteOf, NoQuote

LEMMA PriceTyped ==
  ASSUME NEW ps, WellFormed(ps), PositionTyped(ps),
         NEW quote, quote.bid \in Nat, quote.ask \in Nat
  PROVE  /\ PositionTyped(UpdatePositionPrice(ps, quote))
         /\ UpdatePositionPrice(ps, quote).cost = ps.cost
         /\ UpdatePositionPrice(ps, quote).cur = ClosePrice(ps.side, quote)
  BY DEF PositionTyped, UpdatePositionPrice, ClosePrice, WellFormed, IsOpen

LEMMA NewTyped ==
  ASSUME NEW side \in {-1, 1}, NEW units \in Nat, units # 0,
         NEW quote, quote.bid \in Nat, quote.ask \in Nat
  PROVE  PositionTyped(NewPosition(side, units, quote))
  <1>1. units * OpenPrice(side, quote) \in Int /\ ClosePrice(side, quote) \in Int
    BY DEF OpenPrice, ClosePrice
  <1> QED
    BY <1>1 DEF PositionTyped, NewPosition, IsOpen

LEMMA MoreTyped ==
  ASSUME NEW ps, WellFormed(ps), PositionTyped(ps), IsOpen(ps), NEW units \in Nat,
         NEW quote, quote.bid \in Nat, quote.ask \in Nat
  PROVE  /\ PositionTyped(AddUnits(ps, units, quote))
         /\ AddUnits(ps, units, quote).cost = ps.cost + units * OpenPrice(ps.side, quote)
         /\ AddUnits(ps, units, quote).cur = ps.cur
  <1> DEFINE paid == units * OpenPrice(ps.side, quote)
             more1 == [ps EXCEPT !.units = ps.units + units]
             grown == [more1 EXCEPT !.cost = ps.cost + paid]
  <1>1. AddUnits(ps, units, quote) = grown
    BY DEF AddUnits
  <1>2. paid \in Int
    BY DEF OpenPrice
  <1> HIDE DEF paid
  <1>3. more1 = [side |-> ps.side, units |-> ps.units + units, cost |-> ps.cost, cur |-> ps.cur]
    BY DEF WellFormed
  <1> HIDE DEF more1
  <1>4. grown = [side |-> ps.side, units |-> ps.units + units, cost |-> ps.cost + paid,
                 cur |-> ps.cur]
    BY <1>3
  <1> HIDE DEF grown
  <1>5. PositionTyped(grown) /\ grown.cost = ps.cost + paid /\ grown.cur = ps.cur
    BY <1>2, <1>4 DEF PositionTyped, IsOpen
  <1> QED
    BY <1>1, <1>5 DEF paid

LEMMA FlatTyped == PositionTyped(Flat) /\ WellFormed(Flat)
  BY DEF PositionTyped, Flat, IsOpen, WellFormed

LEMMA SideOfTyped == \A e : SideOf(e) \in {-1, 1}
  BY DEF SideOf

\* Replacing one position by a typed one.
LEMMA ReplacedTyped ==
  ASSUME PortfolioTyped, NEW p \in Pair, NEW ps, WellFormed(ps), PositionTyped(ps),
         positions' = [positions EXCEPT ![p] = ps]
  PROVE  /\ Formed' /\ \A q \in Pair : PositionTyped(positions'[q])
         /\ \A q \in Pair : positions'[q] = IF q = p THEN ps ELSE positions[q]
  <1>1. Formed' /\ \A q \in Pair : positions'[q] = IF q = p THEN ps ELSE positions[q]
    BY Replaced1 DEF PortfolioTyped, Formed
  <1> QED
    BY <1>1 DEF PortfolioTyped

LEMMA PayTyped ==
  ASSUME QuotesTyped, PortfolioTyped, NEW p \in Pair, NEW side \in Int, NEW units \in Int,
         Pay(side, units, p)
  PROVE  cash' \in Int
  <1> DEFINE price == IF side = 1 THEN quotes[p].ask ELSE quotes[p].bid
  <1>1. price \in Int
    BY QuoteNumbers
  <1>2. cash' = cash - side * units * price /\ cash \in Int
    BY DEF Pay, PortfolioTyped
  <1> HIDE DEF price
  <1>3. side * units * price \in Int
    BY <1>1
  <1> QED
    BY <1>2, <1>3

LEMMA ProfitTyped ==
  ASSUME NEW ps, PositionTyped(ps)
  PROVE  Profit(ps) \in Int /\ Signed(ps) \in Int
  <1>1. ps.side \in Int /\ ps.units \in Int /\ ps.cost \in Int /\ ps.cur \in Int
    BY DEF PositionTyped
  <1>2. \A a, b, c, d \in Int : a * (b * c - d) \in Int /\ a * b \in Int
    OBVIOUS
  <1> QED
    BY <1>1, <1>2 DEF Profit, Signed

LEMMA OpensTyped ==
  ASSUME QuotesTyped, PortfolioTyped, NEW p \in Pair, NEW side \in {-1, 1},
         NEW units \in Nat, units # 0, Opens(p, side, units)
  PROVE  PortfolioTyped'
  <1> DEFINE ps == NewPosition(side, units, quotes[p])
  <1>1. PositionTyped(ps) /\ WellFormed(ps)
    BY NewTyped, QuoteNumbers DEF NewPosition, WellFormed
  <1>2. positions' = [positions EXCEPT ![p] = ps]
    BY DEF Opens
  <1> HIDE DEF ps
  <1>3. cash' \in Int
    BY PayTyped DEF Opens
  <1>4. balance' \in Int
    BY DEF Opens, PortfolioTyped
  <1> QED
    BY <1>1, <1>2, <1>3, <1>4, ReplacedTyped DEF PortfolioTyped

LEMMA GrowsTyped ==
  ASSUME QuotesTyped, PortfolioTyped, NEW p \in Pair, IsOpen(positions[p]),
         NEW units \in Nat, Grows(p, units)
  PROVE  PortfolioTyped'
  <1> DEFINE grown == AddUnits(positions[p], units, quotes[p])
             ps == IF program = "live" THEN UpdatePositionPrice(grown, quotes[p]) ELSE grown
  <1>1. WellFormed(positions[p]) /\ PositionTyped(positions[p])
          /\ quotes[p].bid \in Nat /\ quotes[p].ask \in Nat
    BY QuoteNumbers DEF PortfolioTyped, Formed
  <1>2. PositionTyped(grown) /\ WellFormed(grown)
    BY <1>1, MoreTyped, MoreUnits
  <1>3. positions' = [positions EXCEPT ![p] = ps]
    BY DEF Grows
  <1> HIDE DEF grown
  <1>4. PositionTyped(ps) /\ WellFormed(ps)
    BY <1>1, <1>2, PriceTyped, PriceOnly
  <1> HIDE DEF ps
  <1>5. cash' \in Int
    <2>1. positions[p].side \in Int /\ units \in Int
      BY <1>1 DEF PositionTyped
    <2> QED
      BY <2>1, PayTyped DEF Grows
  <1>6. balance' \in Int
    BY DEF Grows, PortfolioTyped
  <1> QED
    BY <1>3, <1>4, <1>5, <1>6, ReplacedTyped DEF PortfolioTyped

LEMMA ClosesTyped ==
  ASSUME QuotesTyped, PortfolioTyped, NEW p \in Pair, NEW ps, PositionTyped(ps), Closes(p, ps)
  PROVE  PortfolioTyped'
  <1>1. positions' = [positions EXCEPT ![p] = Flat]
    BY DEF Closes
  <1>2. balance' \in Int
    BY ProfitTyped DEF Closes, PortfolioTyped
  <1>3. cash' \in Int
    <2>1. -ps.side \in Int /\ ps.units \in Int
      BY DEF PositionTyped
    <2> QED
      BY <2>1, PayTyped DEF Closes
  <1> QED
    BY <1>1, <1>2, <1>3, FlatTyped, ReplacedTyped DEF PortfolioTyped

LEMMA UpdateTyped ==
  ASSUME QuotesTyped, PortfolioTyped, NEW p \in Pair, UpdatePortfolio(p),
         UNCHANGED <<balance, cash>>
  PROVE  PortfolioTyped'
  <1> DEFINE ps == UpdatePositionPrice(positions[p], quotes[p])
  <1>1. WellFormed(positions[p]) /\ PositionTyped(positions[p])
          /\ quotes[p].bid \in Nat /\ quotes[p].ask \in Nat
    BY QuoteNumbers DEF PortfolioTyped, Formed
  <1>2. PositionTyped(ps) /\ WellFormed(ps)
    BY <1>1, PriceTyped, PriceOnly
  <1>3. positions' = [positions EXCEPT ![p] = ps] \/ positions' = positions
    BY DEF UpdatePortfolio
  <1> HIDE DEF ps
  <1> QED
    BY <1>2, <1>3, ReplacedTyped, FormedStays DEF PortfolioTyped

LEMMA PortfolioStays ==
  ASSUME PortfolioTyped, UNCHANGED <<positions, balance, cash>>
  PROVE  PortfolioTyped'
  BY FormedStays DEF PortfolioTyped

\* A figure of each pair, as a sequence of integers.
LEMMA FiguresTyped ==
  ASSUME NEW f \in [Pair -> Int]
  PROVE  /\ [i \in DOMAIN Pairs |-> f[Pairs[i]]] \in Seq(Int)
         /\ Len([i \in DOMAIN Pairs |-> f[Pairs[i]]]) = Len(Pairs)
         /\ Total(f) \in Int
  <1> DEFINE n == Len(Pairs)
             v == [i \in DOMAIN Pairs |-> f[Pairs[i]]]
  <1>1. n \in Nat /\ DOMAIN Pairs = 1 .. n /\ \A i \in 1 .. n : Pairs[i] \in Pair
    BY LoopAssumption DEF LoopAssumption
  <1>2. v = [i \in 1 .. n |-> f[Pairs[i]]] /\ \A i \in 1 .. n : f[Pairs[i]] \in Int
    BY <1>1
  <1>3. v \in Seq(Int) /\ Len(v) = n
    BY <1>1, <1>2
  <1> HIDE DEF v, n
  <1>4. SumOf(v) \in Int
    BY <1>3, SumTyped
  <1> QED
    BY <1>3, <1>4 DEF Total, v, n

LEMMA SettleTyped ==
  ASSUME QuotesTyped, PortfolioTyped, Settle
  PROVE  balance' \in Int /\ cash' \in Int /\ missed' \in [Pair -> Int]
  <1> DEFINE f == [p \in Pair |-> Profit(positions[p])]
             g == [p \in Pair |-> Signed(positions[p])
                                    * ClosePrice(positions[p].side, quotes[p])]
  <1>1. \A p \in Pair : Profit(positions[p]) \in Int
    BY ProfitTyped DEF PortfolioTyped
  <1>2. \A p \in Pair : Signed(positions[p]) * ClosePrice(positions[p].side, quotes[p]) \in Int
    <2> SUFFICES ASSUME NEW p \in Pair
                 PROVE  Signed(positions[p]) * ClosePrice(positions[p].side, quotes[p]) \in Int
      OBVIOUS
    <2>1. Signed(positions[p]) \in Int /\ ClosePrice(positions[p].side, quotes[p]) \in Int
      BY ProfitTyped, QuoteNumbers DEF PortfolioTyped, ClosePrice
    <2> QED
      BY <2>1
  <1>3. f \in [Pair -> Int] /\ g \in [Pair -> Int]
    BY <1>1, <1>2
  <1>4. balance' = balance + Total(f) /\ cash' = cash + Total(g)
    BY DEF Settle
  <1> HIDE DEF f, g
  <1>5. Total(f) \in Int /\ Total(g) \in Int
    BY <1>3, FiguresTyped
  <1>6. balance' \in Int /\ cash' \in Int
    BY <1>4, <1>5 DEF PortfolioTyped
  <1>7. missed' \in [Pair -> Int]
    <2>1. ASSUME NEW p \in Pair
          PROVE  Signed(positions[p])
                   * (positions[p].cur - ClosePrice(positions[p].side, quotes[p])) \in Int
      <3>1. /\ Signed(positions[p]) \in Int /\ positions[p].cur \in Int
            /\ ClosePrice(positions[p].side, quotes[p]) \in Int
        BY ProfitTyped, QuoteNumbers DEF PortfolioTyped, PositionTyped, ClosePrice
      <3> QED
        BY <3>1
    <2> QED
      BY <2>1 DEF Settle
  <1> QED
    BY <1>6, <1>7

\* What the events and calls of the two programs are made of.
LEMMA EventsTyped ==
  /\ \A p \in Pair : [type |-> "TICK", pair |-> p] \in Event
  /\ \A p \in Pair : \A s \in BuySell : \A u \in Nat :
       [type |-> "SIGNAL", pair |-> p, side |-> s, units |-> u] \in Event
  /\ \A e \in Event : e.pair \in Pair
  /\ \A e \in Event : e.type = "TICK" \/ (e.type \in {"SIGNAL", "ORDER"} /\ e.units \in Nat
                                          /\ e.side \in BuySell)
  /\ \A e \in Event : e.type = "SIGNAL" =>
       /\ [e EXCEPT !.type = "ORDER"] \in Event
       /\ [e EXCEPT !.type = "ORDER"].type = "ORDER"
       /\ [e EXCEPT !.type = "ORDER"].pair = e.pair
       /\ [e EXCEPT !.type = "ORDER"].side = e.side
       /\ [e EXCEPT !.type = "ORDER"].units = e.units
  BY DEF Event, BuySell

LEMMA HeadTyped ==
  ASSUME QueueTyped, queue # <<>>
  PROVE  /\ Head(queue) \in Event /\ Tail(queue) \in Seq(Event)
         /\ Len(Tail(queue)) = Len(queue) - 1 /\ Len(queue) \in Nat \ {0}
  BY DEF QueueTyped

LEMMA TypeInit == Init => TypeInv
  <1> SUFFICES ASSUME Init
               PROVE  TypeInv
    OBVIOUS
  <1>1. ProgramTyped
    BY DEF Init, ProgramTyped
  <1>2. QueueTyped
    <2>1. QueueMax \in Nat
      BY LoopAssumption DEF LoopAssumption
    <2> QED
      BY <2>1 DEF Init, QueueTyped
  <1>3. QuotesTyped
    BY DEF Init, TickerInit, QuotesTyped, QuoteOf
  <1>4. PortfolioTyped
    BY FlatTyped, FormedInit DEF Init, PortfolioInit, PortfolioTyped
  <1>5. CountsTyped
    BY DEF Init, PortfolioInit, CountsTyped
  <1>6. memory \in Memory
    BY DEF Init, StrategyInit, Memory, Flags
  <1>7. TickerTyped
    <2>1. \A p \in Pair : Rows[p] \in Nat
      BY LoopAssumption DEF LoopAssumption
    <2> QED
      BY <2>1 DEF Init, TickerInit, TickerTyped
  <1>8. StreamTyped
    BY DEF Init, StreamTyped, Idle
  <1>9. TodoTyped /\ BooksTyped
    BY DEF Init, PortfolioInit, TodoTyped, BooksTyped
  <1> QED
    BY <1>1, <1>2, <1>3, <1>4, <1>5, <1>6, <1>7, <1>8, <1>9 DEF TypeInv

-----------------------------------------------------------------------------
(* The backtest keeps the types.                                           *)

\* How many pairs still have a row, and that the ticks are those of these pairs.
Ended == {i \in DOMAIN Pairs : row >= Rows[Pairs[i]]}
Ahead == IF Ended = {} THEN Len(Pairs) ELSE Min(Ended) - 1

LEMMA AheadTyped ==
  ASSUME TickerTyped
  PROVE  /\ Ahead \in 0 .. Len(Pairs)
         /\ \A i \in 1 .. Ahead : Pairs[i] \in Pair /\ row < Rows[Pairs[i]]
         /\ Ended = {} => Ahead = Len(Pairs)
         /\ Len(Pairs) \in Nat /\ DOMAIN Pairs = 1 .. Len(Pairs)
         /\ \A p \in Pair : \E i \in 1 .. Len(Pairs) : Pairs[i] = p
  <1>1. Len(Pairs) \in Nat /\ DOMAIN Pairs = 1 .. Len(Pairs)
          /\ \A i \in 1 .. Len(Pairs) : Pairs[i] \in Pair
    BY LoopAssumption DEF LoopAssumption
  <1>2. \A p \in Pair : \E i \in 1 .. Len(Pairs) : Pairs[i] = p
    BY <1>1 DEF Pair
  <1>3. row \in Nat /\ \A p \in Pair : Rows[p] \in Nat
    BY LoopAssumption DEF TickerTyped, LoopAssumption
  <1>4. CASE Ended = {}
    <2>1. Ahead = Len(Pairs)
      BY <1>4 DEF Ahead
    <2>2. \A i \in 1 .. Len(Pairs) : row < Rows[Pairs[i]]
      BY <1>1, <1>3, <1>4 DEF Ended
    <2> QED
      BY <1>1, <1>2, <2>1, <2>2
  <1>5. CASE Ended # {}
    <2>1. Ended \in SUBSET Nat /\ Ended \subseteq 1 .. Len(Pairs)
      BY <1>1 DEF Ended
    <2>2. PICK x \in Ended : \A y \in Ended : x <= y
      BY <1>5, <2>1, LeastExists
    <2>3. Min(Ended) \in Ended /\ \A y \in Ended : Min(Ended) <= y
      BY <2>2 DEF Min
    <2> DEFINE m == Min(Ended)
    <2>4. Ahead = m - 1
      BY <1>5 DEF Ahead
    <2>5. m \in 1 .. Len(Pairs) /\ \A y \in Ended : m <= y
      BY <2>1, <2>3
    <2> HIDE DEF m
    <2>6. Ahead \in 0 .. Len(Pairs) /\ \A i \in 1 .. Ahead : i \in 1 .. Len(Pairs) /\ i < m
      BY <1>1, <2>4, <2>5
    <2>7. \A i \in 1 .. Ahead : i \notin Ended
      BY <1>1, <2>5, <2>6
    <2>8. \A i \in 1 .. Ahead : row < Rows[Pairs[i]]
      BY <1>1, <1>3, <2>6, <2>7 DEF Ended
    <2> QED
      BY <1>1, <1>2, <1>5, <2>6, <2>8
  <1> QED
    BY <1>4, <1>5

\* The next row: new prices of the pairs that have one, a tick for each, nothing else.
LEMMA RowStreams ==
  ASSUME TypeInv, StreamNextTick
  PROVE  /\ QueueTyped' /\ QuotesTyped' /\ TickerTyped'
         /\ Len(queue') = Ahead
         /\ \A i \in 1 .. Ahead : queue'[i] = [type |-> "TICK", pair |-> Pairs[i]]
         /\ \A p \in Pair : \/ quotes'[p] = quotes[p]
                            \/ \E i \in 1 .. Ahead : Pairs[i] = p
  <1> DEFINE n == Ahead
  <1>1. /\ n \in 0 .. Len(Pairs)
        /\ \A i \in 1 .. n : Pairs[i] \in Pair /\ row < Rows[Pairs[i]]
        /\ Ended = {} => n = Len(Pairs)
        /\ Len(Pairs) \in Nat
        /\ \A p \in Pair : \E i \in 1 .. Len(Pairs) : Pairs[i] = p
    BY AheadTyped DEF TypeInv
  <1>2. PICK bid \in [1 .. n -> UNION {Bids[p] : p \in Pair}] :
          /\ \A i \in 1 .. n : bid[i] \in Bids[Pairs[i]]
          /\ quotes' = [p \in Pair |->
               IF \E i \in 1 .. n : Pairs[i] = p
               THEN LET i == CHOOSE j \in 1 .. n : Pairs[j] = p
                    IN  [bid |-> bid[i], ask |-> bid[i] + Spread, inverse |-> FALSE]
               ELSE quotes[p]]
    BY DEF StreamNextTick, Ended, Ahead
  <1>3. /\ queue' = [i \in 1 .. n |-> [type |-> "TICK", pair |-> Pairs[i]]]
        /\ more' = (Ended = {})
        /\ row' = IF Ended = {} THEN row + 1 ELSE row
        /\ program' = program /\ program = "backtest"
    BY DEF StreamNextTick, Ended, Ahead, InBacktest
  <1> HIDE DEF n
  <1>4. n \in Nat /\ \A i \in 1 .. n : [type |-> "TICK", pair |-> Pairs[i]] \in Event
    BY <1>1, EventsTyped
  <1>5. queue' \in Seq(Event) /\ Len(queue') = n
          /\ \A i \in 1 .. n : queue'[i] = [type |-> "TICK", pair |-> Pairs[i]]
    BY <1>3, <1>4
  <1>6. QueueTyped'
    BY <1>3, <1>5 DEF QueueTyped
  <1>7. ASSUME NEW p \in Pair, \E i \in 1 .. n : Pairs[i] = p
        PROVE  quotes'[p] \in QuoteOf(p)
    <2> DEFINE i == CHOOSE j \in 1 .. n : Pairs[j] = p
    <2>1. i \in 1 .. n /\ Pairs[i] = p
      BY <1>7
    <2>2. quotes'[p] = [bid |-> bid[i], ask |-> bid[i] + Spread, inverse |-> FALSE]
      BY <1>2, <1>7
    <2> HIDE DEF i
    <2>3. bid[i] \in Bids[p]
      BY <1>2, <2>1
    <2> QED
      BY <2>2, <2>3 DEF QuoteOf
  <1>8. ASSUME NEW p \in Pair, ~\E i \in 1 .. n : Pairs[i] = p
        PROVE  quotes'[p] = quotes[p]
    BY <1>2, <1>8
  <1>9. QuotesTyped'
    <2>1. quotes' = [p \in Pair |-> quotes'[p]]
      BY <1>2
    <2> QED
      BY <1>7, <1>8, <2>1 DEF QuotesTyped, TypeInv
  <1>10. TickerTyped'
    <2>1. row \in Nat /\ (\A p \in Pair : row <= Rows[p]) /\ \A p \in Pair : Rows[p] \in Nat
      BY LoopAssumption DEF TypeInv, TickerTyped, LoopAssumption
    <2>2. ASSUME Ended = {}, NEW p \in Pair
          PROVE  row + 1 <= Rows[p]
      <3>1. PICK i \in 1 .. n : Pairs[i] = p
        BY <1>1, <2>2
      <3>2. row < Rows[p] /\ row \in Nat /\ Rows[p] \in Nat
        BY <1>1, <2>1, <3>1
      <3> QED
        BY <3>2
    <2> QED
      BY <1>3, <2>1, <2>2 DEF TickerTyped
  <1> QED
    BY <1>5, <1>6, <1>8, <1>9, <1>10 DEF n

\* The signals of a tick, as events.
Put(p, out) == [i \in DOMAIN out |-> [type |-> "SIGNAL", pair |-> p,
                                      side |-> out[i].side, units |-> out[i].units]]

LEMMA PutTyped ==
  ASSUME NEW p \in Pair, NEW out \in Seq(Trade)
  PROVE  /\ Put(p, out) \in Seq(Event) /\ Len(Put(p, out)) = Len(out)
         /\ \A i \in 1 .. Len(out) : Put(p, out)[i] = [type |-> "SIGNAL", pair |-> p,
                                         side |-> out[i].side, units |-> out[i].units]
         /\ \A i \in 1 .. Len(Put(p, out)) : Put(p, out)[i].type = "SIGNAL"
  <1> DEFINE n == Len(out)
  <1>1. n \in Nat /\ DOMAIN out = 1 .. n /\ \A i \in 1 .. n : out[i] \in Trade
    OBVIOUS
  <1>2. \A i \in 1 .. n : out[i].side \in BuySell /\ out[i].units \in Nat
    BY <1>1 DEF Trade
  <1>3. \A i \in 1 .. n : [type |-> "SIGNAL", pair |-> p, side |-> out[i].side,
                           units |-> out[i].units] \in Event
    BY <1>2, EventsTyped
  <1> HIDE DEF n
  <1>4. Put(p, out) = [i \in 1 .. n |-> [type |-> "SIGNAL", pair |-> p, side |-> out[i].side,
                                         units |-> out[i].units]]
    BY <1>1 DEF Put
  <1>5. Put(p, out) \in Seq(Event) /\ Len(Put(p, out)) = n
          /\ \A i \in 1 .. n : Put(p, out)[i].type = "SIGNAL"
    BY <1>1, <1>3, <1>4
  <1> QED
    BY <1>1, <1>3, <1>4, <1>5 DEF n

LEMMA TickTyped ==
  ASSUME TypeInv, HandleTick
  PROVE  TypeInv'
  <1> DEFINE p == Head(queue).pair
  <1>1. QueueTyped /\ queue # <<>> /\ program = "backtest" /\ program' = program
    BY DEF TypeInv, HandleTick, InBacktest
  <1>2. p \in Pair /\ Tail(queue) \in Seq(Event)
    BY <1>1, HeadTyped, EventsTyped
  <1>3. PICK o \in Outcomes(p) : /\ queue' = Tail(queue) \o Put(p, o.out)
                                 /\ memory' = o.memory
    BY DEF HandleTick, Put
  <1>4. o.out \in Seq(Trade) /\ o.memory \in Memory
    BY <1>2, OutcomesTyped DEF TypeInv, ProgramTyped
  <1>5. QueueTyped'
    BY <1>1, <1>2, <1>3, <1>4, PutTyped DEF QueueTyped
  <1>6. PortfolioTyped'
    <2>1. UpdatePortfolio(p) /\ UNCHANGED <<balance, cash>>
      BY DEF HandleTick
    <2> HIDE DEF p
    <2> QED
      BY <1>2, <2>1, UpdateTyped DEF TypeInv
  <1>7. memory' \in Memory
    BY <1>3, <1>4
  <1>8. UNCHANGED <<program, strategy, phase, quotes, trades, wins, losses, row, more,
                    stream, todo, executed, signals, missed>>
    BY DEF HandleTick, tickerVars, threadVars
  <1> HIDE DEF p
  <1> QED
    BY <1>5, <1>6, <1>7, <1>8
    DEF TypeInv, ProgramTyped, QuotesTyped, CountsTyped, TickerTyped, StreamTyped, TodoTyped,
        BooksTyped

LEMMA SignalTyped ==
  ASSUME TypeInv, HandleSignal
  PROVE  TypeInv'
  <1> DEFINE e == Head(queue)
             p == e.pair
             ps == positions[p]
  <1>1. QueueTyped /\ queue # <<>> /\ program = "backtest" /\ e.type = "SIGNAL"
    BY DEF TypeInv, HandleSignal, InBacktest
  <1>2. e \in Event /\ p \in Pair /\ Tail(queue) \in Seq(Event) /\ e.units \in Nat
    BY <1>1, HeadTyped, EventsTyped
  <1>3. UNCHANGED <<program, strategy, quotes, memory, row, more, stream, todo, executed, signals,
                    missed>>
    BY DEF HandleSignal, portfolioVars, tickerVars, threadVars
  <1>4. \/ /\ phase' = "crashed"
           /\ UNCHANGED <<queue, portfolioVars>>
        \/ /\ \/ /\ e.units # 0
                 /\ Opens(p, SideOf(e), e.units)
                 /\ trades' = trades + 1
                 /\ UNCHANGED <<wins, losses>>
              \/ /\ IsOpen(ps)
                 /\ Grows(p, e.units)
                 /\ UNCHANGED <<trades, wins, losses>>
              \/ /\ Closes(p, ps)
                 /\ Counted(Profit(ps))
           /\ queue' = Append(Tail(queue), [e EXCEPT !.type = "ORDER"])
           /\ UNCHANGED phase
    BY DEF HandleSignal, DividesByZero
  <1>5. [e EXCEPT !.type = "ORDER"] \in Event
    BY <1>1, <1>2, EventsTyped
  <1>6. QueueTyped'
    <2>1. queue' = queue \/ queue' = Append(Tail(queue), [e EXCEPT !.type = "ORDER"])
      BY <1>4
    <2> HIDE DEF e
    <2> QED
      BY <1>1, <1>2, <1>3, <1>5, <2>1 DEF QueueTyped
  <1>7. ProgramTyped'
    BY <1>3, <1>4 DEF TypeInv, ProgramTyped
  <1>8. PortfolioTyped'
    <2>1. QuotesTyped /\ PortfolioTyped /\ PositionTyped(ps)
      BY <1>2 DEF TypeInv, PortfolioTyped
    <2>2. \/ UNCHANGED portfolioVars
          \/ e.units # 0 /\ Opens(p, SideOf(e), e.units)
          \/ IsOpen(positions[p]) /\ Grows(p, e.units)
          \/ Closes(p, ps)
      BY <1>4
    <2>3. SideOf(e) \in {-1, 1} /\ e.units \in Nat /\ p \in Pair
      BY <1>2, SideOfTyped
    <2> HIDE DEF e, p, ps
    <2> QED
      BY <2>1, <2>2, <2>3, OpensTyped, GrowsTyped, ClosesTyped, PortfolioStays DEF portfolioVars
  <1>9. CountsTyped'
    BY <1>4 DEF TypeInv, CountsTyped, portfolioVars, Counted
  <1> HIDE DEF e, p, ps
  <1> QED
    BY <1>3, <1>6, <1>7, <1>8, <1>9
    DEF TypeInv, QuotesTyped, TickerTyped, StreamTyped, TodoTyped, BooksTyped

LEMMA EndTyped ==
  ASSUME TypeInv, EndBacktest
  PROVE  TypeInv'
  <1> DEFINE won == {p \in OpenPairs : Profit(positions[p]) > 0}
  <1>1. /\ Settle
        /\ wins' = wins + Cardinality(won)
        /\ losses' = losses + Cardinality(OpenPairs \ won)
        /\ positions' = [p \in Pair |-> Flat]
        /\ phase' = Verdict
        /\ UNCHANGED <<program, strategy, queue, quotes, trades, memory, tickerVars, threadVars>>
    BY DEF EndBacktest, CloseAll
  <1>2. ProgramTyped'
    BY <1>1 DEF TypeInv, ProgramTyped, Verdict
  <1>3. PortfolioTyped' /\ missed' \in [Pair -> Int]
    <2>1. balance' \in Int /\ cash' \in Int /\ missed' \in [Pair -> Int]
      BY <1>1, SettleTyped DEF TypeInv
    <2>2. Formed'
      BY CloseAllFlat DEF EndBacktest
    <2> QED
      BY <1>1, <2>1, <2>2, FlatTyped DEF PortfolioTyped
  <1>4. CountsTyped'
    <2>1. won \in SUBSET OpenPairs
      OBVIOUS
    <2> HIDE DEF won
    <2>2. Cardinality(won) \in Nat /\ Cardinality(OpenPairs \ won) \in Nat
      BY <2>1, OpenPairsFinite, FS_Subset, FS_Difference, FS_CardinalityType
    <2> QED
      BY <1>1, <2>2 DEF TypeInv, CountsTyped
  <1> HIDE DEF won
  <1> QED
    BY <1>1, <1>2, <1>3, <1>4
    DEF TypeInv, QueueTyped, QuotesTyped, TickerTyped, StreamTyped, TodoTyped, BooksTyped,
        tickerVars, threadVars

LEMMA BacktestTyped ==
  ASSUME TypeInv, BacktestStep
  PROVE  TypeInv'
  <1>1. CASE StreamNextTick
    <2>1. QueueTyped' /\ QuotesTyped' /\ TickerTyped'
      BY <1>1, RowStreams
    <2>2. UNCHANGED <<program, strategy, phase, positions, balance, trades, wins, losses, cash,
                      memory, stream, todo, executed, signals, missed>>
      BY <1>1 DEF StreamNextTick, portfolioVars, threadVars
    <2>3. PortfolioTyped'
      BY <2>2, PortfolioStays DEF TypeInv
    <2> QED
      BY <2>1, <2>2, <2>3
      DEF TypeInv, ProgramTyped, CountsTyped, StreamTyped, TodoTyped, BooksTyped
  <1>2. CASE HandleTick
    BY <1>2, TickTyped
  <1>3. CASE HandleSignal
    BY <1>3, SignalTyped
  <1>4. CASE HandleOrder
    <2>1. QueueTyped /\ queue # <<>> /\ queue' = Tail(queue) /\ program' = program
            /\ program = "backtest"
      BY <1>4 DEF TypeInv, HandleOrder, InBacktest
    <2>2. QueueTyped'
      BY <2>1, HeadTyped DEF QueueTyped
    <2>3. UNCHANGED <<program, strategy, phase, quotes, positions, balance, trades, wins, losses,
                      cash, memory, row, more, stream, todo, executed, signals, missed>>
      BY <1>4 DEF HandleOrder, portfolioVars, tickerVars, threadVars
    <2>4. PortfolioTyped'
      BY <2>3, PortfolioStays DEF TypeInv
    <2> QED
      BY <2>2, <2>3, <2>4
      DEF TypeInv, ProgramTyped, QuotesTyped, CountsTyped, TickerTyped, StreamTyped, TodoTyped,
          BooksTyped
  <1>5. CASE EndBacktest
    BY <1>5, EndTyped
  <1> QED
    BY <1>1, <1>2, <1>3, <1>4, <1>5 DEF BacktestStep

-----------------------------------------------------------------------------
(* The live program keeps the types.                                       *)

LEMMA CallsTyped ==
  /\ \A p \in Pair : [do |-> "update", pair |-> p] \in Call
  /\ \A e \in Event : [do |-> "put", event |-> e] \in Call
  /\ \A c \in Call : \/ c.do = "put" /\ c.event \in Event
                     \/ c.do = "update" /\ c.pair \in Pair
  BY DEF Call

LEMMA LiveFrames ==
  ASSUME InLive, LiveFrame, TypeInv
  PROVE  /\ program = "live" /\ phase = "running"
         /\ ProgramTyped' /\ CountsTyped' /\ memory' \in Memory /\ TickerTyped'
  BY DEF InLive, LiveFrame, TypeInv, ProgramTyped, CountsTyped, TickerTyped, tickerVars

LEMMA HearTyped ==
  ASSUME TypeInv, Hear
  PROVE  TypeInv'
  <1>1. ProgramTyped' /\ CountsTyped' /\ memory' \in Memory /\ TickerTyped'
    BY LiveFrames DEF Hear
  <1>2. UNCHANGED <<program, queue, quotes, positions, balance, cash, todo, executed, signals,
                    missed>>
    BY DEF Hear, LiveFrame
  <1>3. PortfolioTyped'
    BY <1>2, PortfolioStays DEF TypeInv
  <1>4. StreamTyped'
    BY DEF Hear, StreamTyped, Idle
  <1> QED
    BY <1>1, <1>2, <1>3, <1>4 DEF TypeInv, QueueTyped, QuotesTyped, TodoTyped, BooksTyped

\* What one write does to the prices: it changes one of them, of the pair in hand.
LEMMA WriteWrites ==
  ASSUME TypeInv, WriteQuote
  PROVE  /\ QuotesTyped' /\ StreamTyped'
         /\ \A p \in Pair : p # stream.pair => quotes'[p] = quotes[p]
  <1> DEFINE p == stream.pair
             b == stream.bid
             q == quotes[p]
  <1>1. p \in Pair /\ b \in Bids[p] /\ StreamTyped /\ QuotesTyped
    BY DEF TypeInv, StreamTyped, WriteQuote
  <1>2. stream = [at |-> stream.at, pair |-> p, bid |-> b]
    BY <1>1 DEF StreamTyped
  <1>3. q \in QuoteOf(p) /\ quotes = [r \in Pair |-> quotes[r]]
    BY <1>1 DEF QuotesTyped
  <1>4. PICK new \in QuoteOf(p) :
          /\ quotes' = [quotes EXCEPT ![p] = new]
          /\ \E at \in {"ask", "inverse", "put"} : stream' = [stream EXCEPT !.at = at]
    <2>1. CASE /\ quotes' = [quotes EXCEPT ![p].bid = b]
               /\ stream' = [stream EXCEPT !.at = "ask"]
      <3>1. [q EXCEPT !.bid = b] \in QuoteOf(p)
        BY <1>1, <1>3 DEF QuoteOf
      <3>2. quotes' = [quotes EXCEPT ![p] = [q EXCEPT !.bid = b]]
        BY <2>1
      <3> QED
        BY <2>1, <3>1, <3>2
    <2>2. CASE /\ quotes' = [quotes EXCEPT ![p].ask = b + Spread]
               /\ stream' = [stream EXCEPT !.at = "inverse"]
      <3>1. [q EXCEPT !.ask = b + Spread] \in QuoteOf(p)
        BY <1>1, <1>3 DEF QuoteOf
      <3>2. quotes' = [quotes EXCEPT ![p] = [q EXCEPT !.ask = b + Spread]]
        BY <2>2
      <3> QED
        BY <2>2, <3>1, <3>2
    <2>3. CASE /\ quotes' = [quotes EXCEPT ![p].inverse = TRUE]
               /\ stream' = [stream EXCEPT !.at = "put"]
      <3>1. [q EXCEPT !.inverse = TRUE] \in QuoteOf(p)
        BY <1>1, <1>3 DEF QuoteOf
      <3>2. quotes' = [quotes EXCEPT ![p] = [q EXCEPT !.inverse = TRUE]]
        BY <2>3
      <3> QED
        BY <2>3, <3>1, <3>2
    <2> QED
      BY <2>1, <2>2, <2>3 DEF WriteQuote
  <1> HIDE DEF p, b, q
  <1>5. \A r \in Pair : quotes'[r] = IF r = p THEN new ELSE quotes[r]
    BY <1>3, <1>4
  <1>6. quotes' = [r \in Pair |-> quotes'[r]]
    BY <1>3, <1>4
  <1>7. QuotesTyped'
    BY <1>1, <1>5, <1>6 DEF QuotesTyped
  <1>8. StreamTyped'
    <2>1. PICK at \in {"ask", "inverse", "put"} : stream' = [stream EXCEPT !.at = at]
      BY <1>4
    <2>2. stream' = [at |-> at, pair |-> p, bid |-> b]
      BY <1>2, <2>1
    <2> QED
      BY <1>1, <2>2 DEF StreamTyped
  <1> QED
    BY <1>5, <1>7, <1>8 DEF p

LEMMA WriteTyped ==
  ASSUME TypeInv, WriteQuote
  PROVE  TypeInv'
  <1>1. ProgramTyped' /\ CountsTyped' /\ memory' \in Memory /\ TickerTyped'
    BY LiveFrames DEF WriteQuote
  <1>2. UNCHANGED <<program, queue, positions, balance, cash, todo, executed, signals, missed>>
    BY DEF WriteQuote, LiveFrame
  <1>3. PortfolioTyped'
    BY <1>2, PortfolioStays DEF TypeInv
  <1>4. QuotesTyped' /\ StreamTyped'
    BY WriteWrites
  <1> QED
    BY <1>1, <1>2, <1>3, <1>4 DEF TypeInv, QueueTyped, TodoTyped, BooksTyped

\* Putting an event when there is room.
LEMMA PutRoom ==
  ASSUME QueueTyped, Len(queue) < QueueMax, NEW e \in Event, queue' = Append(queue, e),
         program' = program
  PROVE  QueueTyped'
  <1>1. QueueMax \in Nat
    BY LoopAssumption DEF LoopAssumption
  <1> QED
    BY <1>1 DEF QueueTyped

LEMMA PutTickTyped ==
  ASSUME TypeInv, PutTick
  PROVE  TypeInv'
  <1>1. ProgramTyped' /\ CountsTyped' /\ memory' \in Memory /\ TickerTyped'
    BY LiveFrames DEF PutTick
  <1>2. UNCHANGED <<program, quotes, positions, balance, cash, todo, executed, signals, missed>>
    BY DEF PutTick, LiveFrame
  <1>3. PortfolioTyped'
    BY <1>2, PortfolioStays DEF TypeInv
  <1>4. StreamTyped'
    BY DEF PutTick, StreamTyped, Idle
  <1>5. QueueTyped'
    <2>1. stream.pair \in Pair
      BY DEF TypeInv, StreamTyped, PutTick
    <2>2. [type |-> "TICK", pair |-> stream.pair] \in Event
      BY <2>1, EventsTyped
    <2> QED
      BY <1>2, <2>2, PutRoom DEF TypeInv, PutTick
  <1> QED
    BY <1>1, <1>2, <1>3, <1>4, <1>5 DEF TypeInv, QuotesTyped, TodoTyped, BooksTyped

\* Taking an event off the queue.
LEMMA QueueTaken ==
  ASSUME QueueTyped, queue # <<>>, queue' = Tail(queue), program' = program
  PROVE  QueueTyped'
  <1>1. QueueMax \in Nat
    BY LoopAssumption DEF LoopAssumption
  <1> QED
    BY <1>1, HeadTyped DEF QueueTyped

\* The calls that a tick of p leads to: a signal of either side or none, and the update.
SignalFor(p, side) == [type |-> "SIGNAL", pair |-> p, side |-> side, units |-> TradeUnits]

LEMMA TickCalls ==
  ASSUME TypeInv, LiveTick
  PROVE  /\ QueueTyped' /\ TodoTyped' /\ Head(queue).pair \in Pair /\ Head(queue) \in Event
         /\ LET p == Head(queue).pair
                update == [do |-> "update", pair |-> p]
            IN  \/ todo' = <<update>>
                \/ \E side \in BuySell :
                     /\ SignalFor(p, side) \in Event
                     /\ todo' = <<[do |-> "put", event |-> SignalFor(p, side)], update>>
  <1> DEFINE p == Head(queue).pair
             update == [do |-> "update", pair |-> p]
  <1>1. QueueTyped /\ queue # <<>> /\ queue' = Tail(queue) /\ program' = program
    BY DEF TypeInv, LiveTick, LiveFrame
  <1>2. Head(queue) \in Event /\ p \in Pair
    BY <1>1, HeadTyped, EventsTyped
  <1>3. QueueTyped'
    BY <1>1, QueueTaken
  <1>4. \/ todo' = <<update>>
        \/ \E side \in BuySell :
             todo' = <<[do |-> "put", event |-> SignalFor(p, side)], update>>
    BY DEF LiveTick, SignalFor, BuySell
  <1>5. update \in Call
    BY <1>2, CallsTyped
  <1>6. \A side \in BuySell : /\ SignalFor(p, side) \in Event
                              /\ [do |-> "put", event |-> SignalFor(p, side)] \in Call
    <2>1. TradeUnits \in Nat
      BY LoopAssumption DEF LoopAssumption
    <2> HIDE DEF p
    <2> QED
      BY <1>2, <2>1, EventsTyped, CallsTyped DEF SignalFor
  <1>7. TodoTyped'
    <2> HIDE DEF p, update
    <2>1. CASE todo' = <<update>>
      BY <1>5, <2>1 DEF TodoTyped
    <2>2. ASSUME NEW c \in Call, todo' = <<c, update>>
          PROVE  TodoTyped'
      BY <1>5, <2>2 DEF TodoTyped
    <2> QED
      BY <1>4, <1>6, <2>1, <2>2
  <1> QED
    BY <1>2, <1>3, <1>4, <1>6, <1>7

LEMMA LiveTickTyped ==
  ASSUME TypeInv, LiveTick
  PROVE  TypeInv'
  <1>1. ProgramTyped' /\ CountsTyped' /\ memory' \in Memory /\ TickerTyped'
    BY LiveFrames DEF LiveTick
  <1>2. UNCHANGED <<program, quotes, positions, balance, cash, stream, executed, missed>>
    BY DEF LiveTick, LiveFrame
  <1>3. PortfolioTyped'
    BY <1>2, PortfolioStays DEF TypeInv
  <1>4. QueueTyped' /\ TodoTyped'
    BY TickCalls
  <1>5. signals' \in Nat
    BY DEF LiveTick, TypeInv, BooksTyped
  <1> QED
    BY <1>1, <1>2, <1>3, <1>4, <1>5 DEF TypeInv, QuotesTyped, StreamTyped, BooksTyped

LEMMA LivePutTyped ==
  ASSUME TypeInv, LivePut
  PROVE  TypeInv'
  <1>1. ProgramTyped' /\ CountsTyped' /\ memory' \in Memory /\ TickerTyped'
    BY LiveFrames DEF LivePut
  <1>2. UNCHANGED <<program, quotes, positions, balance, cash, stream, executed, signals, missed>>
    BY DEF LivePut, LiveFrame
  <1>3. PortfolioTyped'
    BY <1>2, PortfolioStays DEF TypeInv
  <1>4. Head(todo) \in Call /\ Tail(todo) \in Seq(Call)
    BY DEF TypeInv, TodoTyped, LivePut
  <1>5. Head(todo).event \in Event
    BY <1>4, CallsTyped DEF LivePut
  <1>6. QueueTyped'
    BY <1>2, <1>5, PutRoom DEF TypeInv, LivePut
  <1>7. TodoTyped'
    BY <1>4 DEF TodoTyped, LivePut
  <1> QED
    BY <1>1, <1>2, <1>3, <1>6, <1>7 DEF TypeInv, QuotesTyped, StreamTyped, BooksTyped

LEMMA LiveUpdateTyped ==
  ASSUME TypeInv, LiveUpdate
  PROVE  TypeInv'
  <1>1. ProgramTyped' /\ CountsTyped' /\ memory' \in Memory /\ TickerTyped'
    BY LiveFrames DEF LiveUpdate
  <1>2. UNCHANGED <<program, queue, quotes, balance, cash, stream, executed, signals, missed>>
    BY DEF LiveUpdate, LiveFrame
  <1>3. Head(todo) \in Call /\ Tail(todo) \in Seq(Call)
    BY DEF TypeInv, TodoTyped, LiveUpdate
  <1>4. PortfolioTyped'
    <2>1. Head(todo).pair \in Pair
      BY <1>3, CallsTyped DEF LiveUpdate
    <2> QED
      BY <1>2, <2>1, UpdateTyped DEF TypeInv, LiveUpdate
  <1>5. TodoTyped'
    BY <1>3 DEF TodoTyped, LiveUpdate
  <1> QED
    BY <1>1, <1>2, <1>4, <1>5 DEF TypeInv, QueueTyped, QuotesTyped, StreamTyped, BooksTyped

LEMMA LiveSignalTyped ==
  ASSUME TypeInv, LiveSignal
  PROVE  TypeInv'
  <1> DEFINE e == Head(queue)
             p == e.pair
  <1>1. ProgramTyped' /\ CountsTyped' /\ memory' \in Memory /\ TickerTyped'
    BY LiveFrames DEF LiveSignal
  <1>2. UNCHANGED <<program, quotes, stream, executed, signals, missed>>
    BY DEF LiveSignal, LiveFrame
  <1>3. QueueTyped /\ queue # <<>> /\ queue' = Tail(queue) /\ e.type = "SIGNAL"
    BY DEF TypeInv, LiveSignal
  <1>4. e \in Event /\ p \in Pair /\ QueueTyped'
    BY <1>2, <1>3, HeadTyped, EventsTyped, QueueTaken
  <1>5. \/ UNCHANGED <<positions, balance, cash, todo>>
        \/ /\ \/ Opens(p, SideOf(e), TradeUnits)
              \/ IsOpen(positions[p]) /\ Grows(p, TradeUnits)
              \/ Closes(p, UpdatePositionPrice(positions[p], quotes[p]))
           /\ todo' = <<[do |-> "put", event |-> [e EXCEPT !.type = "ORDER"]]>>
    BY DEF LiveSignal, ClosesNow
  <1>6. TodoTyped'
    <2> DEFINE c == [do |-> "put", event |-> [e EXCEPT !.type = "ORDER"]]
    <2>1. c \in Call
      BY <1>3, <1>4, EventsTyped, CallsTyped
    <2>2. todo' = todo \/ todo' = <<c>>
      BY <1>5
    <2>3. todo \in Seq(Call)
      BY DEF TypeInv, TodoTyped
    <2> HIDE DEF c
    <2>4. <<c>> \in Seq(Call)
      BY <2>1
    <2> QED
      BY <2>2, <2>3, <2>4 DEF TodoTyped
  <1>7. PortfolioTyped'
    <2>1. QuotesTyped /\ PortfolioTyped
      BY DEF TypeInv
    <2>2. PositionTyped(UpdatePositionPrice(positions[p], quotes[p]))
      BY <1>4, <2>1, PriceTyped, QuoteNumbers DEF PortfolioTyped, Formed
    <2>3. TradeUnits \in Nat /\ TradeUnits # 0 /\ SideOf(e) \in {-1, 1}
      BY LoopAssumption, SideOfTyped DEF LoopAssumption
    <2> HIDE DEF e, p
    <2> QED
      BY <1>4, <1>5, <2>1, <2>2, <2>3, OpensTyped, GrowsTyped, ClosesTyped, PortfolioStays
  <1> HIDE DEF e, p
  <1> QED
    BY <1>1, <1>2, <1>4, <1>6, <1>7 DEF TypeInv, QuotesTyped, StreamTyped, BooksTyped

LEMMA LiveOrderTyped ==
  ASSUME TypeInv, LiveOrder
  PROVE  TypeInv'
  <1>1. ProgramTyped' /\ CountsTyped' /\ memory' \in Memory /\ TickerTyped'
    BY LiveFrames DEF LiveOrder
  <1>2. UNCHANGED <<program, quotes, positions, balance, cash, stream, todo, signals, missed>>
    BY DEF LiveOrder, LiveFrame
  <1>3. PortfolioTyped'
    BY <1>2, PortfolioStays DEF TypeInv
  <1>4. QueueTyped /\ queue # <<>> /\ queue' = Tail(queue) /\ Head(queue).type = "ORDER"
    BY DEF TypeInv, LiveOrder
  <1>5. QueueTyped' /\ Head(queue).pair \in Pair /\ Head(queue).units \in Nat
    BY <1>2, <1>4, HeadTyped, EventsTyped, QueueTaken
  <1>6. executed' \in [Pair -> Int]
    <2> DEFINE d == SideOf(Head(queue)) * Head(queue).units
    <2>1. d \in Int
      BY <1>5, SideOfTyped
    <2>2. executed' = [executed EXCEPT ![Head(queue).pair] = executed[Head(queue).pair] + d]
      BY DEF LiveOrder
    <2> HIDE DEF d
    <2> QED
      BY <1>5, <2>1, <2>2 DEF TypeInv, BooksTyped
  <1> QED
    BY <1>1, <1>2, <1>3, <1>5, <1>6 DEF TypeInv, QuotesTyped, StreamTyped, TodoTyped, BooksTyped

LEMMA TypeStays ==
  ASSUME TypeInv, UNCHANGED vars
  PROVE  TypeInv'
  <1>1. UNCHANGED <<program, strategy, phase, queue, quotes, positions, balance, trades, wins,
                    losses, cash, memory, row, more, stream, todo, executed, signals, missed>>
    BY DEF vars, portfolioVars, tickerVars, threadVars
  <1>2. PortfolioTyped'
    BY <1>1, PortfolioStays DEF TypeInv
  <1> QED
    BY <1>1, <1>2
    DEF TypeInv, ProgramTyped, QueueTyped, QuotesTyped, CountsTyped, TickerTyped, StreamTyped,
        TodoTyped, BooksTyped

LEMMA TypeNext == TypeInv /\ [Next]_vars => TypeInv'
  <1> SUFFICES ASSUME TypeInv, [Next]_vars
               PROVE  TypeInv'
    OBVIOUS
  <1>1. CASE BacktestStep
    BY <1>1, BacktestTyped
  <1>2. CASE LiveStep
    BY <1>2, HearTyped, WriteTyped, PutTickTyped, LiveTickTyped, LivePutTyped, LiveUpdateTyped,
       LiveSignalTyped, LiveOrderTyped
    DEF LiveStep
  <1>3. CASE UNCHANGED vars
    BY <1>3, TypeStays
  <1> QED
    BY <1>1, <1>2, <1>3 DEF Next

LEMMA TypeInvIsTypeOK == TypeInv => TypeOK
  <1> SUFFICES ASSUME TypeInv
               PROVE  TypeOK
    OBVIOUS
  <1>1. \A p \in Pair : /\ positions[p].side \in {-1, 0, 1}
                        /\ positions[p].units \in Nat
                        /\ IsOpen(positions[p]) <=> positions[p].units > 0
    BY DEF TypeInv, PortfolioTyped, PositionTyped
  <1>2. {trades, wins, losses} \subseteq Nat
    BY DEF TypeInv, CountsTyped
  <1> QED
    BY <1>1, <1>2
    DEF TypeInv, TypeOK, ProgramTyped, QueueTyped, QuotesTyped, PortfolioTyped, TickerTyped,
        StreamTyped, TodoTyped, BooksTyped

(* Every variable of both programs stays in its range: the live queue never *)
(* exceeds its size, a backtest never reads a row beyond any pair's data,   *)
(* and a position has units just when it is open, whatever strategy, prices *)
(* and data.                                                                *)
THEOREM TypeCorrect == Spec => []TypeOK
  BY TypeInit, TypeNext, TypeInvIsTypeOK, PTL DEF Spec

-----------------------------------------------------------------------------
(* The live portfolio and its orders.                                      *)

\* What a call still to be made will order.
Owed(c, p) == IF c.do = "put" THEN OrderOf(c.event, p) ELSE 0
OwedBy(calls, p) == SumOf([i \in DOMAIN calls |-> Owed(calls[i], p)])

LEMMA OrderOfTyped ==
  /\ \A e \in Event : \A p \in Pair : OrderOf(e, p) \in Int
  /\ \A c \in Call : \A p \in Pair : Owed(c, p) \in Int
  <1>1. ASSUME NEW e \in Event, NEW p \in Pair
        PROVE  OrderOf(e, p) \in Int
    <2>1. CASE e.type = "ORDER" /\ e.pair = p
      <3>1. e.units \in Int /\ SideOf(e) \in Int
        BY <2>1, EventsTyped, SideOfTyped
      <3> QED
        BY <2>1, <3>1 DEF OrderOf
    <2>2. CASE ~(e.type = "ORDER" /\ e.pair = p)
      BY <2>2 DEF OrderOf
    <2> QED
      BY <2>1, <2>2
  <1>2. ASSUME NEW c \in Call, NEW p \in Pair
        PROVE  Owed(c, p) \in Int
    BY <1>1, CallsTyped DEF Owed
  <1> QED
    BY <1>1, <1>2

\* What is ordered by a sequence of events, and owed by a sequence of calls, is that of the
\* first and of the rest, and grows by what is appended.
LEMMA OrderedSums ==
  ASSUME NEW s \in Seq(Event), NEW p \in Pair
  PROVE  /\ Ordered(s, p) \in Int /\ Ordered(<<>>, p) = 0
         /\ s # <<>> => Ordered(s, p) = OrderOf(Head(s), p) + Ordered(Tail(s), p)
         /\ \A e \in Event : Ordered(Append(s, e), p) = Ordered(s, p) + OrderOf(e, p)
  <1> DEFINE f == [e \in Event |-> OrderOf(e, p)]
  <1>1. f \in [Event -> Int]
    BY OrderOfTyped
  <1>2. \A t \in Seq(Event) : Ordered(t, p) = SumOver(f, t)
    <2> SUFFICES ASSUME NEW t \in Seq(Event)
                 PROVE  Ordered(t, p) = SumOver(f, t)
      OBVIOUS
    <2>1. \A i \in DOMAIN t : t[i] \in Event
      OBVIOUS
    <2>2. [i \in DOMAIN t |-> OrderOf(t[i], p)] = [i \in DOMAIN t |-> f[t[i]]]
      BY <2>1
    <2> QED
      BY <2>2 DEF Ordered, SumOver
  <1>3. \A e \in Event : f[e] = OrderOf(e, p) /\ Append(s, e) \in Seq(Event)
    OBVIOUS
  <1>4. <<>> \in Seq(Event) /\ (s # <<>> => Head(s) \in Event /\ Tail(s) \in Seq(Event))
    OBVIOUS
  <1> HIDE DEF f
  <1>5. /\ SumOver(f, s) \in Int /\ SumOver(f, <<>>) = 0
        /\ s # <<>> => SumOver(f, s) = f[Head(s)] + SumOver(f, Tail(s))
        /\ \A x \in Event : SumOver(f, Append(s, x)) = SumOver(f, s) + f[x]
    BY <1>1, SumOverSeq
  <1> HIDE DEF SumOver
  <1> QED
    BY <1>2, <1>3, <1>4, <1>5

LEMMA OwedSums ==
  ASSUME NEW s \in Seq(Call), NEW p \in Pair
  PROVE  /\ OwedBy(s, p) \in Int /\ OwedBy(<<>>, p) = 0
         /\ s # <<>> => OwedBy(s, p) = Owed(Head(s), p) + OwedBy(Tail(s), p)
         /\ \A c \in Call : OwedBy(Append(s, c), p) = OwedBy(s, p) + Owed(c, p)
  <1> DEFINE f == [c \in Call |-> Owed(c, p)]
  <1>1. f \in [Call -> Int]
    BY OrderOfTyped
  <1>2. \A t \in Seq(Call) : OwedBy(t, p) = SumOver(f, t)
    <2> SUFFICES ASSUME NEW t \in Seq(Call)
                 PROVE  OwedBy(t, p) = SumOver(f, t)
      OBVIOUS
    <2>1. \A i \in DOMAIN t : t[i] \in Call
      OBVIOUS
    <2>2. [i \in DOMAIN t |-> Owed(t[i], p)] = [i \in DOMAIN t |-> f[t[i]]]
      BY <2>1
    <2> QED
      BY <2>2 DEF OwedBy, SumOver
  <1>3. \A c \in Call : f[c] = Owed(c, p) /\ Append(s, c) \in Seq(Call)
    OBVIOUS
  <1>4. <<>> \in Seq(Call) /\ (s # <<>> => Head(s) \in Call /\ Tail(s) \in Seq(Call))
    OBVIOUS
  <1> HIDE DEF f
  <1>5. /\ SumOver(f, s) \in Int /\ SumOver(f, <<>>) = 0
        /\ s # <<>> => SumOver(f, s) = f[Head(s)] + SumOver(f, Tail(s))
        /\ \A x \in Call : SumOver(f, Append(s, x)) = SumOver(f, s) + f[x]
    BY <1>1, SumOverSeq
  <1> HIDE DEF SumOver
  <1> QED
    BY <1>2, <1>3, <1>4, <1>5


\* Live signals and orders are of the usual size.
Lot == {e \in Event : e.type # "TICK" => e.units = TradeUnits}
LotCall == {c \in Call : c.do = "put" => c.event \in Lot}
OneSize == program = "live" => queue \in Seq(Lot) /\ todo \in Seq(LotCall)

MatchInv == TypeInv /\ OneSize /\ OrdersMatchPosition

LEMMA MatchMeans ==
  ASSUME TypeInv
  PROVE  /\ \A p \in Pair : /\ Signed(positions[p]) \in Int /\ executed[p] \in Int
                            /\ Ordered(queue, p) \in Int /\ OwedBy(todo, p) \in Int
         /\ OrdersMatchPosition <=>
              (program = "live" =>
                 \A p \in Pair : Signed(positions[p])
                                   = executed[p] + Ordered(queue, p) + OwedBy(todo, p))
  <1>1. ASSUME NEW p \in Pair
        PROVE  /\ Signed(positions[p]) \in Int /\ executed[p] \in Int
               /\ Ordered(queue, p) \in Int /\ OwedBy(todo, p) \in Int
    <2>1. Signed(positions[p]) \in Int
      BY ProfitTyped DEF TypeInv, PortfolioTyped
    <2>2. executed[p] \in Int
      BY DEF TypeInv, BooksTyped
    <2>3. Ordered(queue, p) \in Int
      BY OrderedSums DEF TypeInv, QueueTyped
    <2>4. OwedBy(todo, p) \in Int
      BY OwedSums DEF TypeInv, TodoTyped
    <2> QED
      BY <2>1, <2>2, <2>3, <2>4
  <1>2. \A p : Waiting(p) = OwedBy(todo, p)
    BY DEF Waiting, OwedBy, Owed
  <1> QED
    BY <1>1, <1>2 DEF OrdersMatchPosition

\* The sequences of calls that the live program makes.
LEMMA FewCalls ==
  ASSUME NEW p \in Pair, NEW c \in Call, NEW d \in Call
  PROVE  /\ OwedBy(<<>>, p) = 0
         /\ OwedBy(<<c>>, p) = Owed(c, p)
         /\ OwedBy(<<c, d>>, p) = Owed(c, p) + Owed(d, p)
  <1>1. <<>> \in Seq(Call) /\ <<c>> \in Seq(Call)
          /\ <<c>> = Append(<<>>, c) /\ <<c, d>> = Append(<<c>>, d)
    OBVIOUS
  <1>2. OwedBy(<<>>, p) = 0 /\ Owed(c, p) \in Int /\ Owed(d, p) \in Int
    BY <1>1, OwedSums, OrderOfTyped
  <1>3. OwedBy(Append(<<>>, c), p) = OwedBy(<<>>, p) + Owed(c, p)
    BY <1>1, OwedSums
  <1>4. OwedBy(Append(<<c>>, d), p) = OwedBy(<<c>>, p) + Owed(d, p)
    BY <1>1, OwedSums
  <1>5. OwedBy(<<c>>, p) = Owed(c, p)
    <2>1. OwedBy(<<c>>, p) = OwedBy(Append(<<>>, c), p)
      BY <1>1
    <2> QED
      BY <1>2, <1>3, <2>1
  <1>6. OwedBy(<<c, d>>, p) = Owed(c, p) + Owed(d, p)
    <2>1. OwedBy(<<c, d>>, p) = OwedBy(Append(<<c>>, d), p)
      BY <1>1
    <2> QED
      BY <1>4, <1>5, <2>1
  <1> QED
    BY <1>2, <1>5, <1>6

\* What counts as ordered.
LEMMA OrderOfCases ==
  /\ \A e, p : e.type # "ORDER" \/ e.pair # p => OrderOf(e, p) = 0
  /\ \A e, p : e.type = "ORDER" /\ e.pair = p => OrderOf(e, p) = SideOf(e) * e.units
  /\ \A c, p : c.do = "update" => Owed(c, p) = 0
  /\ \A c, p : c.do = "put" => Owed(c, p) = OrderOf(c.event, p)
  BY DEF OrderOf, Owed

\* A step that changes neither positions nor what execution was given, and moves no order
\* out of the queue and the calls.
LEMMA MatchStays ==
  ASSUME TypeInv, TypeInv', OrdersMatchPosition, program' = program,
         \A p \in Pair : Signed(positions'[p]) = Signed(positions[p]),
         executed' = executed,
         \A p \in Pair : Ordered(queue', p) + OwedBy(todo', p)
                           = Ordered(queue, p) + OwedBy(todo, p)
  PROVE  OrdersMatchPosition'
  <1>1. \A p \in Pair : /\ Signed(positions[p]) \in Int /\ executed[p] \in Int
                        /\ Ordered(queue, p) \in Int /\ OwedBy(todo, p) \in Int
    BY MatchMeans
  <1>2. \A p \in Pair : Ordered(queue', p) \in Int /\ OwedBy(todo', p) \in Int
    BY OrderedSums, OwedSums DEF TypeInv, QueueTyped, TodoTyped
  <1>3. \A p : Waiting(p)' = OwedBy(todo', p)
    BY DEF Waiting, OwedBy, Owed
  <1>4. program = "live" =>
          \A p \in Pair : Signed(positions[p]) = executed[p] + Ordered(queue, p) + OwedBy(todo, p)
    BY MatchMeans
  <1>5. ASSUME program = "live", NEW p \in Pair
        PROVE  Signed(positions'[p]) = executed'[p] + Ordered(queue', p) + OwedBy(todo', p)
    <2>1. Signed(positions'[p]) = executed[p] + Ordered(queue, p) + OwedBy(todo, p)
      BY <1>4, <1>5
    <2>2. Ordered(queue', p) + OwedBy(todo', p) = Ordered(queue, p) + OwedBy(todo, p)
      OBVIOUS
    <2> QED
      BY <1>1, <1>2, <2>1, <2>2
  <1> QED
    BY <1>3, <1>5 DEF OrdersMatchPosition


LEMMA LotsTaken ==
  /\ \A s \in Seq(Lot) : s # <<>> => Head(s) \in Lot /\ Tail(s) \in Seq(Lot)
  /\ \A s \in Seq(Lot) : \A e \in Lot : Append(s, e) \in Seq(Lot)
  /\ \A s \in Seq(LotCall) : s # <<>> => Head(s) \in LotCall /\ Tail(s) \in Seq(LotCall)
  /\ \A c \in LotCall : \A d \in LotCall : <<c>> \in Seq(LotCall) /\ <<c, d>> \in Seq(LotCall)
  /\ Lot \subseteq Event /\ LotCall \subseteq Call
  <1>1. Lot \subseteq Event /\ LotCall \subseteq Call
    BY DEF Lot, LotCall
  <1>2. \A c \in LotCall : \A d \in LotCall : <<c>> \in Seq(LotCall) /\ <<c, d>> \in Seq(LotCall)
    OBVIOUS
  <1> QED
    BY <1>1, <1>2

LEMMA SizeInit == Init => OneSize
  <1>1. <<>> \in Seq(Lot) /\ <<>> \in Seq(LotCall)
    OBVIOUS
  <1> QED
    BY <1>1 DEF Init, OneSize

\* An order has the size of its signal.
LEMMA SizeNext ==
  ASSUME TypeInv, OneSize, [Next]_vars
  PROVE  OneSize'
  <1>1. CASE BacktestStep
    BY <1>1 DEF OneSize, BacktestStep, InBacktest, StreamNextTick, HandleTick, HandleSignal,
                HandleOrder, EndBacktest, CloseAll
  <1>2. CASE UNCHANGED vars
    BY <1>2 DEF OneSize, vars, threadVars
  <1>3. CASE LiveStep
    <2>1. program = "live" /\ program' = program
      BY <1>3 DEF LiveStep, LiveFrame, InLive, Hear, WriteQuote, PutTick, LiveTick, LivePut,
                  LiveUpdate, LiveSignal, LiveOrder
    <2>2. queue \in Seq(Lot) /\ todo \in Seq(LotCall)
      BY <2>1 DEF OneSize
    <2>3. CASE Hear \/ WriteQuote
      BY <2>2, <2>3 DEF OneSize, Hear, WriteQuote
    <2>4. CASE PutTick
      <3>1. [type |-> "TICK", pair |-> stream.pair] \in Lot
        <4>1. stream.pair \in Pair
          BY <2>4 DEF TypeInv, StreamTyped, PutTick
        <4> QED
          BY <4>1, EventsTyped DEF Lot
      <3> QED
        BY <2>2, <2>4, <3>1, LotsTaken DEF OneSize, PutTick
    <2>5. CASE LiveTick
      <3> DEFINE p == Head(queue).pair
                 update == [do |-> "update", pair |-> p]
                 put(side) == [do |-> "put", event |-> SignalFor(p, side)]
      <3>1. /\ p \in Pair
            /\ \/ todo' = <<update>>
               \/ \E side \in BuySell : SignalFor(p, side) \in Event /\ todo' = <<put(side), update>>
        BY <2>5, TickCalls
      <3>2. update \in LotCall
        BY <3>1, CallsTyped DEF LotCall
      <3>3. \A side \in BuySell : SignalFor(p, side) \in Event => put(side) \in LotCall
        BY CallsTyped DEF LotCall, Lot, SignalFor
      <3>4. queue' = Tail(queue) /\ queue # <<>>
        BY <2>5 DEF LiveTick
      <3> HIDE DEF update, put, p
      <3>5. todo' \in Seq(LotCall)
        BY <3>1, <3>2, <3>3, LotsTaken
      <3> QED
        BY <2>2, <3>4, <3>5, LotsTaken DEF OneSize
    <2>6. CASE LivePut
      <3>1. Head(todo) \in LotCall /\ Tail(todo) \in Seq(LotCall)
        BY <2>2, <2>6, LotsTaken DEF LivePut
      <3>2. Head(todo).event \in Lot
        BY <2>6, <3>1 DEF LotCall, LivePut
      <3> QED
        BY <2>2, <2>6, <3>1, <3>2, LotsTaken DEF OneSize, LivePut
    <2>7. CASE LiveUpdate
      BY <2>2, <2>7, LotsTaken DEF OneSize, LiveUpdate
    <2>8. CASE LiveSignal
      <3> DEFINE e == Head(queue)
                 put == [do |-> "put", event |-> [e EXCEPT !.type = "ORDER"]]
      <3>1. /\ queue # <<>> /\ queue' = Tail(queue) /\ e.type = "SIGNAL"
            /\ todo' = todo \/ todo' = <<put>>
        BY <2>8 DEF LiveSignal
      <3>2. e \in Lot /\ e \in Event
        BY <2>2, <3>1, LotsTaken
      <3>3. put \in LotCall
        <4>1. /\ [e EXCEPT !.type = "ORDER"] \in Event
              /\ [e EXCEPT !.type = "ORDER"].units = e.units
          BY <3>1, <3>2, EventsTyped
        <4>2. e.units = TradeUnits
          BY <3>1, <3>2 DEF Lot
        <4>3. [e EXCEPT !.type = "ORDER"] \in Lot
          BY <4>1, <4>2 DEF Lot
        <4> QED
          BY <4>3, CallsTyped, LotsTaken DEF LotCall
      <3> HIDE DEF put, e
      <3> QED
        BY <2>2, <3>1, <3>3, LotsTaken DEF OneSize
    <2>9. CASE LiveOrder
      BY <2>2, <2>9, LotsTaken DEF OneSize, LiveOrder
    <2> QED
      BY <1>3, <2>3, <2>4, <2>5, <2>6, <2>7, <2>8, <2>9 DEF LiveStep
  <1> QED
    BY <1>1, <1>2, <1>3 DEF Next

LEMMA SignedStays ==
  ASSUME SidesStay, UnitsStay
  PROVE  \A p \in Pair : Signed(positions'[p]) = Signed(positions[p])
  BY DEF SidesStay, UnitsStay, Signed

\* The price thread and the updates have nothing to do with orders.
LEMMA TicksMatch ==
  ASSUME MatchInv, TypeInv', Hear \/ WriteQuote \/ PutTick \/ LiveTick \/ LiveUpdate
  PROVE  OrdersMatchPosition'
  <1>1. TypeInv /\ OrdersMatchPosition /\ queue \in Seq(Event) /\ todo \in Seq(Call)
    BY DEF MatchInv, TypeInv, QueueTyped, TodoTyped
  <1>2. program' = program /\ executed' = executed
    BY DEF LiveFrame, Hear, WriteQuote, PutTick, LiveTick, LiveUpdate
  <1>3. \A p \in Pair : Signed(positions'[p]) = Signed(positions[p])
    <2>1. positions' = positions \/ (SidesStay /\ UnitsStay)
      BY <1>1, UpdateStays DEF Hear, WriteQuote, PutTick, LiveTick, LiveUpdate, TypeInv,
         PortfolioTyped
    <2> QED
      BY <2>1, SignedStays
  <1>4. ASSUME NEW p \in Pair
        PROVE  Ordered(queue', p) + OwedBy(todo', p) = Ordered(queue, p) + OwedBy(todo, p)
    <2>0. Ordered(queue, p) \in Int /\ OwedBy(todo, p) \in Int
      BY <1>1, OrderedSums, OwedSums
    <2>1. CASE Hear \/ WriteQuote
      BY <2>1 DEF Hear, WriteQuote
    <2>2. CASE PutTick
      <3> DEFINE e == [type |-> "TICK", pair |-> stream.pair]
      <3>1. e \in Event
        BY <1>1, <2>2, EventsTyped DEF PutTick, TypeInv, StreamTyped
      <3>2. queue' = Append(queue, e) /\ todo' = todo
        BY <2>2 DEF PutTick
      <3>3. OrderOf(e, p) = 0
        BY OrderOfCases
      <3> HIDE DEF e
      <3>4. Ordered(Append(queue, e), p) = Ordered(queue, p) + OrderOf(e, p)
        BY <1>1, <3>1, OrderedSums
      <3> QED
        BY <2>0, <3>2, <3>3, <3>4
    <2>3. CASE LiveTick
      <3>1. queue # <<>> /\ queue' = Tail(queue) /\ Head(queue).type = "TICK" /\ todo = <<>>
        BY <2>3 DEF LiveTick
      <3>2. Ordered(queue, p) = 0 + Ordered(queue', p)
        BY <1>1, <3>1, OrderedSums, OrderOfCases
      <3>3. OwedBy(todo', p) = 0
        <4> DEFINE q == Head(queue).pair
                   update == [do |-> "update", pair |-> q]
                   put(side) == [do |-> "put", event |-> SignalFor(q, side)]
        <4>1. /\ q \in Pair
              /\ \/ todo' = <<update>>
                 \/ \E side \in BuySell : SignalFor(q, side) \in Event /\ todo' = <<put(side), update>>
          BY <1>1, <2>3, TickCalls
        <4>2. update \in Call /\ Owed(update, p) = 0
          BY <4>1, CallsTyped, OrderOfCases
        <4>3. \A side \in BuySell : SignalFor(q, side) \in Event =>
                put(side) \in Call /\ Owed(put(side), p) = 0
          BY CallsTyped, OrderOfCases DEF SignalFor
        <4> HIDE DEF update, put, q
        <4>4. CASE todo' = <<update>>
          BY <4>2, <4>4, FewCalls
        <4>5. ASSUME NEW c \in Call, Owed(c, p) = 0, todo' = <<c, update>>
              PROVE  OwedBy(todo', p) = 0
          <5>1. OwedBy(<<c, update>>, p) = Owed(c, p) + Owed(update, p)
            BY <4>2, <4>5, FewCalls
          <5> QED
            BY <4>2, <4>5, <5>1
        <4> QED
          BY <4>1, <4>3, <4>4, <4>5
      <3>4. OwedBy(todo, p) = 0 /\ Ordered(queue', p) \in Int
        <4>1. Tail(queue) \in Seq(Event)
          BY <1>1, <3>1
        <4>2. Ordered(Tail(queue), p) \in Int
          BY <4>1, OrderedSums
        <4> QED
          BY <1>1, <3>1, <4>2, OwedSums
      <3> QED
        BY <3>2, <3>3, <3>4
    <2>4. CASE LiveUpdate
      <3>1. todo # <<>> /\ todo' = Tail(todo) /\ Head(todo).do = "update" /\ queue' = queue
        BY <2>4 DEF LiveUpdate
      <3>2. OwedBy(todo, p) = 0 + OwedBy(todo', p) /\ OwedBy(todo', p) \in Int
        <4>1. Tail(todo) \in Seq(Call)
          BY <1>1, <3>1
        <4>2. OwedBy(Tail(todo), p) \in Int
          BY <4>1, OwedSums
        <4> QED
          BY <1>1, <3>1, <4>2, OwedSums, OrderOfCases
      <3> QED
        BY <2>0, <3>1, <3>2
    <2> QED
      BY <2>1, <2>2, <2>3, <2>4
  <1> QED
    BY <1>1, <1>2, <1>3, <1>4, MatchStays

\* The trading thread's own put moves an event from its calls to the queue.
LEMMA PutMatches ==
  ASSUME MatchInv, TypeInv', LivePut
  PROVE  OrdersMatchPosition'
  <1> DEFINE c == Head(todo)
             e == c.event
  <1>1. TypeInv /\ OrdersMatchPosition /\ queue \in Seq(Event) /\ todo \in Seq(Call)
    BY DEF MatchInv, TypeInv, QueueTyped, TodoTyped
  <1>2. /\ program' = program /\ executed' = executed /\ positions' = positions
        /\ todo # <<>> /\ todo' = Tail(todo) /\ queue' = Append(queue, e) /\ c.do = "put"
    BY DEF LiveFrame, LivePut
  <1>3. c \in Call /\ e \in Event
    <2>1. c \in Call
      BY <1>1, <1>2
    <2> QED
      BY <1>2, <2>1, CallsTyped
  <1> HIDE DEF c, e
  <1>4. ASSUME NEW p \in Pair
        PROVE  Ordered(queue', p) + OwedBy(todo', p) = Ordered(queue, p) + OwedBy(todo, p)
    <2>1. Ordered(queue', p) = Ordered(queue, p) + OrderOf(e, p)
      BY <1>1, <1>2, <1>3, OrderedSums
    <2>2. OwedBy(todo, p) = OrderOf(e, p) + OwedBy(todo', p)
      BY <1>1, <1>2, OwedSums, OrderOfCases DEF c, e
    <2>3. Ordered(queue, p) \in Int /\ OrderOf(e, p) \in Int /\ OwedBy(todo', p) \in Int
      <3>1. Tail(todo) \in Seq(Call)
        BY <1>1, <1>2
      <3> QED
        BY <1>1, <1>2, <1>3, <3>1, OrderedSums, OwedSums, OrderOfTyped
    <2> QED
      BY <2>1, <2>2, <2>3
  <1> QED
    BY <1>1, <1>2, <1>4, MatchStays

\* What a live signal does to the units held: those of one trade, to the signal's side.
LEMMA SignalMoves ==
  ASSUME TypeInv, LiveSignal
  PROVE  LET e == Head(queue)
             put == [do |-> "put", event |-> [e EXCEPT !.type = "ORDER"]]
         IN  \/ positions' = positions /\ todo' = todo
             \/ /\ todo' = <<put>>
                /\ \A p \in Pair : Signed(positions'[p])
                     = Signed(positions[p]) + (IF p = e.pair THEN SideOf(e) * TradeUnits ELSE 0)
  <1> DEFINE e == Head(queue)
             q == e.pair
             ps == positions[q]
             put == [do |-> "put", event |-> [e EXCEPT !.type = "ORDER"]]
             s == SideOf(e)
             Moved == \A p \in Pair : Signed(positions'[p])
                        = Signed(positions[p]) + (IF p = q THEN s * TradeUnits ELSE 0)
  <1>1. Formed /\ \A p \in Pair : PositionTyped(positions[p])
    BY DEF TypeInv, PortfolioTyped
  <1>2. q \in Pair /\ s \in {-1, 1} /\ TradeUnits \in Nat
    <2>1. q \in Pair
      BY HeadTyped, EventsTyped DEF TypeInv, LiveSignal
    <2> QED
      BY <2>1, SideOfTyped, LoopAssumption DEF LoopAssumption
  <1>3. \/ positions' = positions /\ todo' = todo
        \/ /\ todo' = <<put>>
           /\ \/ ~IsOpen(ps) /\ Opens(q, s, TradeUnits)
              \/ IsOpen(ps) /\ ps.side = s /\ Grows(q, TradeUnits)
              \/ /\ IsOpen(ps) /\ ps.side # s /\ ps.units = TradeUnits
                 /\ Closes(q, UpdatePositionPrice(ps, quotes[q]))
    BY DEF LiveSignal, ClosesNow, Closable
  <1>4. /\ PositionTyped(ps)
        /\ \A p \in Pair : Signed(positions[p]) \in Int
    BY <1>1, <1>2, ProfitTyped
  <1> HIDE DEF e, q, s, put
  <1>5. ASSUME NEW side, NEW units, Becomes(q, side, units),
               side * units = Signed(ps) + s * TradeUnits
        PROVE  Moved
    <2> SUFFICES ASSUME NEW p \in Pair
                 PROVE  Signed(positions'[p])
                          = Signed(positions[p]) + (IF p = q THEN s * TradeUnits ELSE 0)
      OBVIOUS
    <2>1. CASE p = q
      BY <1>5, <2>1 DEF Becomes, Signed
    <2>2. CASE p # q
      <3>1. Signed(positions'[p]) = Signed(positions[p])
        BY <1>5, <2>2 DEF Becomes, Signed
      <3> QED
        BY <1>4, <2>2, <3>1
    <2> QED
      BY <2>1, <2>2
  <1>6. ASSUME ~IsOpen(ps) /\ Opens(q, s, TradeUnits)
        PROVE  Moved
    <2>1. Becomes(q, s, TradeUnits)
      BY <1>1, <1>2, <1>6, OpensBecomes
    <2>2. Signed(ps) = 0
      BY <1>4, <1>6 DEF Signed, IsOpen, PositionTyped
    <2>3. s * TradeUnits = Signed(ps) + s * TradeUnits
      BY <1>2, <2>2
    <2> QED
      BY <1>5, <2>1, <2>3
  <1>7. ASSUME IsOpen(ps) /\ ps.side = s /\ Grows(q, TradeUnits)
        PROVE  Moved
    <2>1. Becomes(q, s, ps.units + TradeUnits)
      BY <1>1, <1>2, <1>7, GrowsBecomes
    <2>2. s * (ps.units + TradeUnits) = Signed(ps) + s * TradeUnits
      BY <1>2, <1>4, <1>7 DEF Signed, PositionTyped
    <2> HIDE DEF ps
    <2> QED
      BY <1>5, <2>1, <2>2
  <1>8. ASSUME /\ IsOpen(ps) /\ ps.side # s /\ ps.units = TradeUnits
               /\ Closes(q, UpdatePositionPrice(ps, quotes[q]))
        PROVE  Moved
    <2>1. Becomes(q, 0, 0)
      BY <1>1, <1>2, <1>8, ClosesBecomes
    <2>2. 0 * 0 = Signed(ps) + s * TradeUnits
      BY <1>2, <1>4, <1>8 DEF Signed, PositionTyped, IsOpen
    <2> HIDE DEF ps
    <2> QED
      BY <1>5, <2>1, <2>2
  <1> QED
    BY <1>3, <1>6, <1>7, <1>8 DEF e, q, put, s

LEMMA SignalMatches ==
  ASSUME MatchInv, TypeInv', LiveSignal
  PROVE  OrdersMatchPosition'
  <1> DEFINE e == Head(queue)
             f == [e EXCEPT !.type = "ORDER"]
             put == [do |-> "put", event |-> f]
  <1>1. TypeInv /\ OrdersMatchPosition /\ queue \in Seq(Event) /\ todo \in Seq(Call)
    BY DEF MatchInv, TypeInv, QueueTyped, TodoTyped
  <1>2. /\ program' = program /\ program = "live" /\ executed' = executed /\ todo = <<>>
        /\ queue # <<>> /\ queue' = Tail(queue) /\ e.type = "SIGNAL"
    BY DEF LiveFrame, LiveSignal, InLive
  <1>3. /\ e \in Lot /\ e \in Event /\ f \in Event
        /\ f.type = "ORDER" /\ f.pair = e.pair /\ f.units = TradeUnits /\ SideOf(f) = SideOf(e)
    <2>1. e \in Lot /\ e \in Event
      BY <1>2, LotsTaken DEF MatchInv, OneSize
    <2>2. f \in Event /\ f.type = "ORDER" /\ f.pair = e.pair /\ f.units = e.units /\ f.side = e.side
      BY <1>2, <2>1, EventsTyped
    <2> QED
      BY <1>2, <2>1, <2>2 DEF Lot, SideOf
  <1>4. put \in Call /\ \A p : Owed(put, p) = OrderOf(f, p)
    BY <1>3, CallsTyped, OrderOfCases
  <1>5. \/ positions' = positions /\ todo' = todo
        \/ /\ todo' = <<put>>
           /\ \A p \in Pair : Signed(positions'[p])
                = Signed(positions[p]) + (IF p = e.pair THEN SideOf(e) * TradeUnits ELSE 0)
    BY <1>1, SignalMoves
  <1> HIDE DEF e, f, put
  <1>6. \A p \in Pair : Ordered(queue', p) = Ordered(queue, p) /\ Ordered(queue, p) \in Int
    <2> SUFFICES ASSUME NEW p \in Pair
                 PROVE  Ordered(queue', p) = Ordered(queue, p) /\ Ordered(queue, p) \in Int
      OBVIOUS
    <2>1. Ordered(queue, p) = 0 + Ordered(queue', p)
      BY <1>1, <1>2, OrderedSums, OrderOfCases DEF e
    <2>2. queue' \in Seq(Event)
      BY <1>1, <1>2
    <2>3. Ordered(queue', p) \in Int
      BY <2>2, OrderedSums
    <2> QED
      BY <2>1, <2>3
  <1>7. CASE positions' = positions /\ todo' = todo
    BY <1>1, <1>2, <1>6, <1>7, MatchStays
  <1>8. CASE /\ todo' = <<put>>
             /\ \A p \in Pair : Signed(positions'[p])
                  = Signed(positions[p]) + (IF p = e.pair THEN SideOf(e) * TradeUnits ELSE 0)
    <2>1. ASSUME NEW p \in Pair
          PROVE  Signed(positions'[p]) = executed'[p] + Ordered(queue', p) + OwedBy(todo', p)
      <3>1. OwedBy(todo', p) = OrderOf(f, p) /\ OrderOf(f, p) \in Int
        BY <1>3, <1>4, <1>8, FewCalls, OrderOfTyped
      <3>2. OrderOf(f, p) = IF p = e.pair THEN SideOf(e) * TradeUnits ELSE 0
        BY <1>3, OrderOfCases
      <3>3. Signed(positions'[p]) = Signed(positions[p]) + OrderOf(f, p)
        BY <1>8, <3>2
      <3>4. Signed(positions[p]) = executed[p] + Ordered(queue, p) + 0 /\ executed[p] \in Int
        <4>1. OwedBy(todo, p) = 0
          BY <1>1, <1>2, OwedSums
        <4> QED
          BY <1>1, <1>2, <4>1, MatchMeans
      <3> QED
        BY <1>2, <1>6, <3>1, <3>3, <3>4
    <2>2. \A p : Waiting(p)' = OwedBy(todo', p)
      BY DEF Waiting, OwedBy, Owed
    <2> QED
      BY <2>1, <2>2 DEF OrdersMatchPosition
  <1> QED
    BY <1>5, <1>7, <1>8

\* Executing an order moves it from the queue to what execution was given.
LEMMA OrderMatches ==
  ASSUME MatchInv, TypeInv', LiveOrder
  PROVE  OrdersMatchPosition'
  <1> DEFINE e == Head(queue)
             d == SideOf(e) * e.units
  <1>1. TypeInv /\ OrdersMatchPosition /\ queue \in Seq(Event) /\ executed \in [Pair -> Int]
    BY DEF MatchInv, TypeInv, QueueTyped, BooksTyped
  <1>2. /\ program' = program /\ program = "live" /\ positions' = positions /\ todo' = todo
        /\ queue # <<>> /\ queue' = Tail(queue) /\ e.type = "ORDER"
        /\ executed' = [executed EXCEPT ![e.pair] = executed[e.pair] + d]
    BY DEF LiveFrame, LiveOrder, InLive
  <1>3. e \in Event /\ e.pair \in Pair /\ Tail(queue) \in Seq(Event)
    <2>1. e \in Event /\ Tail(queue) \in Seq(Event)
      BY <1>1, <1>2
    <2> QED
      BY <2>1, EventsTyped
  <1>4. \A p \in Pair : OrderOf(e, p) = (IF p = e.pair THEN d ELSE 0) /\ OrderOf(e, p) \in Int
    BY <1>2, <1>3, OrderOfCases, OrderOfTyped
  <1>5. \A p \in Pair : executed'[p] = executed[p] + OrderOf(e, p)
    <2> HIDE DEF d, e
    <2> SUFFICES ASSUME NEW p \in Pair
                 PROVE  executed'[p] = executed[p] + OrderOf(e, p)
      OBVIOUS
    <2>1. CASE p = e.pair
      BY <1>1, <1>2, <1>3, <1>4, <2>1
    <2>2. CASE p # e.pair
      BY <1>1, <1>2, <1>3, <1>4, <2>2
    <2> QED
      BY <2>1, <2>2
  <1>6. ASSUME NEW p \in Pair
        PROVE  Signed(positions'[p]) = executed'[p] + Ordered(queue', p) + OwedBy(todo', p)
    <2>1. Ordered(queue, p) = OrderOf(e, p) + Ordered(queue', p)
      BY <1>1, <1>2, OrderedSums
    <2>2. Ordered(queue', p) \in Int
      BY <1>2, <1>3, OrderedSums
    <2>3. /\ Signed(positions[p]) = executed[p] + Ordered(queue, p) + OwedBy(todo, p)
          /\ executed[p] \in Int /\ OwedBy(todo, p) \in Int
      BY <1>1, <1>2, MatchMeans
    <2>4. executed'[p] = executed[p] + OrderOf(e, p) /\ OrderOf(e, p) \in Int
      BY <1>4, <1>5
    <2> HIDE DEF e, d
    <2> QED
      BY <1>2, <2>1, <2>2, <2>3, <2>4
  <1>7. \A p : Waiting(p)' = OwedBy(todo', p)
    BY DEF Waiting, OwedBy, Owed
  <1> QED
    BY <1>6, <1>7 DEF OrdersMatchPosition

LEMMA MatchInit == Init => MatchInv
  <1> SUFFICES ASSUME Init
               PROVE  MatchInv
    OBVIOUS
  <1>1. TypeInv /\ OneSize
    BY TypeInit, SizeInit
  <1>2. ASSUME NEW p \in Pair
        PROVE  Signed(positions[p]) = executed[p] + Ordered(queue, p) + OwedBy(todo, p)
    <2>1. Signed(positions[p]) = 0 /\ executed[p] = 0 /\ queue = <<>> /\ todo = <<>>
      BY DEF Init, PortfolioInit, Signed, Flat
    <2>2. <<>> \in Seq(Event) /\ <<>> \in Seq(Call)
      OBVIOUS
    <2>3. Ordered(<<>>, p) = 0 /\ OwedBy(<<>>, p) = 0
      BY <2>2, OrderedSums, OwedSums
    <2> QED
      BY <2>1, <2>3
  <1> QED
    BY <1>1, <1>2, MatchMeans DEF MatchInv

LEMMA MatchNext == MatchInv /\ [Next]_vars => MatchInv'
  <1> SUFFICES ASSUME MatchInv, [Next]_vars
               PROVE  MatchInv'
    OBVIOUS
  <1>1. TypeInv /\ TypeInv' /\ OneSize'
    BY TypeNext, SizeNext DEF MatchInv
  <1>2. CASE LiveStep
    BY <1>1, <1>2, TicksMatch, PutMatches, SignalMatches, OrderMatches DEF LiveStep, MatchInv
  <1>3. CASE BacktestStep
    <2>1. program = "backtest" /\ program' = program
      BY <1>3 DEF BacktestStep, InBacktest, StreamNextTick, HandleTick, HandleSignal,
                  HandleOrder, EndBacktest, CloseAll
    <2> QED
      BY <1>1, <2>1 DEF MatchInv, OrdersMatchPosition
  <1>4. CASE UNCHANGED vars
    <2>1. UNCHANGED <<program, positions, executed, queue, todo>>
      BY <1>4 DEF vars, portfolioVars, threadVars
    <2> QED
      BY <1>1, <2>1, MatchStays DEF MatchInv
  <1> QED
    BY <1>2, <1>3, <1>4 DEF Next

(* The live portfolio never loses track of an order: what it believes to    *)
(* hold of a pair is what execution was given plus the orders still in the  *)
(* queue or waiting for room in it, for any number of pairs and of signals, *)
(* any size of the queue, and prices written at any moment in between.      *)
THEOREM OrdersMatch == Spec => []OrdersMatchPosition
  <1>1. MatchInv => OrdersMatchPosition
    BY DEF MatchInv
  <1> QED
    BY <1>1, MatchInit, MatchNext, PTL DEF Spec


-----------------------------------------------------------------------------
(* The balance.                                                            *)

\* Totals of figures that differ in one pair, add up or are nothing.
Figures == [Pair -> Int]

LEMMA FigureAt ==
  /\ Len(Pairs) \in Nat /\ DOMAIN Pairs = 1 .. Len(Pairs)
  /\ \A i \in 1 .. Len(Pairs) : Pairs[i] \in Pair
  /\ \A f : \A i \in 1 .. Len(Pairs) : [j \in DOMAIN Pairs |-> f[Pairs[j]]][i] = f[Pairs[i]]
  /\ \A p \in Pair : \E k \in 1 .. Len(Pairs) :
       Pairs[k] = p /\ \A i \in 1 .. Len(Pairs) : i # k => Pairs[i] # p
  <1>1. Len(Pairs) \in Nat /\ DOMAIN Pairs = 1 .. Len(Pairs)
          /\ \A i \in 1 .. Len(Pairs) : Pairs[i] \in Pair
    BY LoopAssumption DEF LoopAssumption
  <1>2. \A p \in Pair : \E k \in 1 .. Len(Pairs) :
          Pairs[k] = p /\ \A i \in 1 .. Len(Pairs) : i # k => Pairs[i] # p
    BY <1>1, LoopAssumption DEF Pair, LoopAssumption
  <1> QED
    BY <1>1, <1>2

LEMMA TotalChanges ==
  ASSUME NEW f \in Figures, NEW g \in Figures, NEW p \in Pair, NEW d \in Int,
         g[p] = f[p] + d, \A q \in Pair : q # p => g[q] = f[q]
  PROVE  Total(g) = Total(f) + d
  <1> DEFINE n == Len(Pairs)
             v == [i \in DOMAIN Pairs |-> f[Pairs[i]]]
             w == [i \in DOMAIN Pairs |-> g[Pairs[i]]]
  <1>1. v \in Seq(Int) /\ w \in Seq(Int) /\ Len(v) = n /\ Len(w) = n
    BY FiguresTyped DEF Figures
  <1>2. \A i \in 1 .. n : v[i] = f[Pairs[i]] /\ w[i] = g[Pairs[i]] /\ Pairs[i] \in Pair
    BY FigureAt
  <1>3. PICK k \in 1 .. n : Pairs[k] = p /\ \A i \in 1 .. n : i # k => Pairs[i] # p
    BY FigureAt
  <1>4. Total(f) = SumOf(v) /\ Total(g) = SumOf(w)
    BY DEF Total
  <1> HIDE DEF v, w, n
  <1>5. w[k] = v[k] + d /\ \A i \in 1 .. n : i # k => w[i] = v[i]
    BY <1>2, <1>3
  <1>6. SumOf(w) = SumOf(v) + d
    <2>1. k \in 1 .. Len(v) /\ \A i \in 1 .. Len(v) : i # k => w[i] = v[i]
      BY <1>1, <1>5
    <2> QED
      BY <1>1, <1>5, <2>1, SumChanges
  <1> QED
    BY <1>4, <1>6

LEMMA TotalAdds ==
  ASSUME NEW f \in Figures, NEW g \in Figures, NEW h \in Figures,
         \A p \in Pair : h[p] = f[p] + g[p]
  PROVE  Total(h) = Total(f) + Total(g)
  <1> DEFINE n == Len(Pairs)
             u == [i \in DOMAIN Pairs |-> f[Pairs[i]]]
             v == [i \in DOMAIN Pairs |-> g[Pairs[i]]]
             w == [i \in DOMAIN Pairs |-> h[Pairs[i]]]
  <1>1. /\ u \in Seq(Int) /\ v \in Seq(Int) /\ w \in Seq(Int)
        /\ Len(u) = n /\ Len(v) = n /\ Len(w) = n
    BY FiguresTyped DEF Figures
  <1>2. \A i \in 1 .. n : /\ u[i] = f[Pairs[i]] /\ v[i] = g[Pairs[i]] /\ w[i] = h[Pairs[i]]
                          /\ Pairs[i] \in Pair
    BY FigureAt
  <1>3. Total(f) = SumOf(u) /\ Total(g) = SumOf(v) /\ Total(h) = SumOf(w)
    BY DEF Total
  <1> HIDE DEF u, v, w, n
  <1>4. \A i \in 1 .. n : w[i] = u[i] + v[i]
    BY <1>2
  <1>5. SumOf(w) = SumOf(u) + SumOf(v)
    <2>1. Len(u) = Len(v) /\ Len(w) = Len(v) /\ \A i \in 1 .. Len(v) : w[i] = u[i] + v[i]
      BY <1>1, <1>4
    <2> QED
      BY <1>1, <2>1, SumAdds
  <1> QED
    BY <1>3, <1>5

LEMMA TotalZero ==
  ASSUME NEW f \in Figures, \A p \in Pair : f[p] = 0
  PROVE  Total(f) = 0
  <1> DEFINE n == Len(Pairs)
             v == [i \in DOMAIN Pairs |-> f[Pairs[i]]]
  <1>1. v \in Seq(Int) /\ Len(v) = n
    BY FiguresTyped DEF Figures
  <1>2. \A i \in 1 .. n : v[i] = f[Pairs[i]] /\ Pairs[i] \in Pair
    BY FigureAt
  <1>3. Total(f) = SumOf(v)
    BY DEF Total
  <1> HIDE DEF v, n
  <1>4. \A i \in 1 .. n : v[i] = 0
    BY <1>2
  <1> QED
    BY <1>1, <1>3, <1>4, SumZero

\* What is invested: the cost of what is held, negative for what is sold.
Invested(book) == [p \in Pair |-> book[p].side * book[p].cost]
Balanced == balance = cash + Total(Invested(positions))

LEMMA InvestedTyped ==
  ASSUME NEW book, \A p \in Pair : PositionTyped(book[p])
  PROVE  /\ Invested(book) \in Figures /\ Total(Invested(book)) \in Int
         /\ \A p \in Pair : Invested(book)[p] = book[p].side * book[p].cost
                             /\ book[p].side * book[p].cost \in Int
  <1>1. \A p \in Pair : book[p].side \in Int /\ book[p].cost \in Int
    BY DEF PositionTyped
  <1>2. \A p \in Pair : book[p].side * book[p].cost \in Int
    BY <1>1
  <1>3. Invested(book) \in Figures
    BY <1>2 DEF Invested, Figures
  <1>4. Total(Invested(book)) \in Int
    BY <1>3, FiguresTyped DEF Figures
  <1> QED
    BY <1>2, <1>3, <1>4 DEF Invested

\* Nothing held that costs something else than before: nothing else invested.
LEMMA InvestedStays ==
  ASSUME NEW old, NEW new,
         \A p \in Pair : new[p].side = old[p].side /\ new[p].cost = old[p].cost
  PROVE  Invested(new) = Invested(old)
  BY DEF Invested

LEMMA InvestedMoves ==
  ASSUME NEW old, \A q \in Pair : PositionTyped(old[q]),
         NEW new, \A q \in Pair : PositionTyped(new[q]),
         NEW p \in Pair, \A q \in Pair : q # p => new[q] = old[q],
         NEW d \in Int, new[p].side * new[p].cost = old[p].side * old[p].cost + d
  PROVE  Total(Invested(new)) = Total(Invested(old)) + d
  <1>1. Invested(old) \in Figures /\ Invested(new) \in Figures
    BY InvestedTyped
  <1>2. /\ \A q \in Pair : q # p => Invested(new)[q] = Invested(old)[q]
        /\ Invested(new)[p] = Invested(old)[p] + d
    BY InvestedTyped
  <1> QED
    BY <1>1, <1>2, TotalChanges

LEMMA Products ==
  /\ \A a, b, c \in Int : a * (b * c) = a * b * c
  /\ \A a, b, c \in Int : a * (b + c) = a * b + a * c
  /\ \A a, b, c \in Int : a * (b - c) = a * b - a * c
  /\ \A a, b, c \in Int : (-a) * b * c = -(a * b * c)
  /\ \A a, b \in Int : a * b \in Int /\ a * b = b * a
  /\ \A a \in Int : 0 * a = 0
  OBVIOUS

LEMMA OpensBalances ==
  ASSUME QuotesTyped, PortfolioTyped, PortfolioTyped', Balanced,
         NEW p \in Pair, ~IsOpen(positions[p]), NEW side \in {-1, 1}, NEW units \in Nat,
         Opens(p, side, units)
  PROVE  Balanced'
  <1> DEFINE ps == NewPosition(side, units, quotes[p])
             price == OpenPrice(side, quotes[p])
             d == side * units * price
  <1>1. price \in Int /\ side \in Int /\ units \in Int
    BY QuoteNumbers DEF OpenPrice
  <1>2. /\ positions' = [positions EXCEPT ![p] = ps] /\ balance' = balance
        /\ cash' = cash - d
    BY DEF Opens, Pay, OpenPrice
  <1>3. ps.side = side /\ ps.cost = units * price
    BY DEF NewPosition
  <1> HIDE DEF ps, price
  <1>4. \A q \in Pair : positions'[q] = IF q = p THEN ps ELSE positions[q]
    BY <1>2 DEF PortfolioTyped, Formed
  <1>5. positions'[p].side * positions'[p].cost = d /\ d \in Int
    <2>1. units * price \in Int /\ side * (units * price) = d /\ d \in Int
      BY <1>1, Products
    <2>2. positions'[p].side = side /\ positions'[p].cost = units * price
      BY <1>3, <1>4
    <2> HIDE DEF d
    <2> QED
      BY <2>1, <2>2
  <1>6. positions[p].side * positions[p].cost = 0
    BY Products DEF IsOpen, PortfolioTyped, PositionTyped
  <1> HIDE DEF d
  <1>7. Total(Invested(positions')) = Total(Invested(positions)) + d
    BY <1>4, <1>5, <1>6, InvestedMoves DEF PortfolioTyped
  <1>8. Total(Invested(positions)) \in Int /\ cash \in Int
    BY InvestedTyped DEF PortfolioTyped
  <1> QED
    BY <1>2, <1>5, <1>7, <1>8 DEF Balanced

LEMMA GrowsBalances ==
  ASSUME QuotesTyped, PortfolioTyped, PortfolioTyped', Balanced,
         NEW p \in Pair, IsOpen(positions[p]), NEW units \in Nat, Grows(p, units)
  PROVE  Balanced'
  <1> DEFINE grown == AddUnits(positions[p], units, quotes[p])
             ps == IF program = "live" THEN UpdatePositionPrice(grown, quotes[p]) ELSE grown
             side == positions[p].side
             price == OpenPrice(side, quotes[p])
             d == side * units * price
  <1>1. /\ price \in Int /\ side \in Int /\ units \in Int /\ positions[p].cost \in Int
        /\ WellFormed(positions[p]) /\ PositionTyped(positions[p])
        /\ quotes[p].bid \in Nat /\ quotes[p].ask \in Nat
    BY QuoteNumbers DEF OpenPrice, PortfolioTyped, PositionTyped, Formed
  <1>2. /\ positions' = [positions EXCEPT ![p] = ps] /\ balance' = balance
        /\ cash' = cash - d
    BY DEF Grows, Pay, OpenPrice
  <1>3. ps.side = side /\ ps.cost = positions[p].cost + units * price
    <2>1. /\ PositionTyped(grown) /\ WellFormed(grown) /\ grown.side = side
          /\ grown.cost = positions[p].cost + units * price
      BY <1>1, MoreTyped, MoreUnits
    <2> HIDE DEF grown
    <2>2. /\ UpdatePositionPrice(grown, quotes[p]).cost = grown.cost
          /\ UpdatePositionPrice(grown, quotes[p]).side = grown.side
      BY <1>1, <2>1, PriceTyped, PriceOnly
    <2> QED
      BY <2>1, <2>2
  <1> HIDE DEF ps, grown
  <1>4. \A q \in Pair : positions'[q] = IF q = p THEN ps ELSE positions[q]
    BY <1>2 DEF PortfolioTyped, Formed
  <1>5. d \in Int /\ positions'[p].side * positions'[p].cost
                       = positions[p].side * positions[p].cost + d
    <2> HIDE DEF price
    <2>1. units * price \in Int /\ side * (units * price) = d /\ d \in Int
      BY <1>1, Products
    <2>2. side * (positions[p].cost + units * price)
            = side * positions[p].cost + side * (units * price)
      BY <1>1, <2>1, Products
    <2> QED
      BY <1>3, <1>4, <2>1, <2>2
  <1> HIDE DEF d
  <1>7. Total(Invested(positions')) = Total(Invested(positions)) + d
    BY <1>4, <1>5, InvestedMoves DEF PortfolioTyped
  <1>8. Total(Invested(positions)) \in Int /\ cash \in Int
    BY InvestedTyped DEF PortfolioTyped
  <1> QED
    BY <1>2, <1>5, <1>7, <1>8 DEF Balanced

\* Closing at the market's price. (The cost of ps is that of the position.)
LEMMA ClosesBalances ==
  ASSUME QuotesTyped, PortfolioTyped, PortfolioTyped', Balanced,
         NEW p \in Pair, IsOpen(positions[p]),
         NEW ps, PositionTyped(ps), ps.side = positions[p].side, ps.units = positions[p].units,
         ps.cost = positions[p].cost, ps.cur = ClosePrice(ps.side, quotes[p]),
         Closes(p, ps)
  PROVE  Balanced'
  <1> DEFINE s == ps.side
             u == ps.units
             x == ps.cur
             c == ps.cost
             d == -(s * c)
  <1>1. s \in {-1, 1} /\ s \in Int /\ u \in Int /\ x \in Int /\ c \in Int
    BY DEF PositionTyped, IsOpen
  <1>2. /\ positions' = [positions EXCEPT ![p] = Flat]
        /\ balance' = balance + s * (x * u - c)
        /\ cash' = cash - (-s) * u * (IF -s = 1 THEN quotes[p].ask ELSE quotes[p].bid)
    <2>1. positions' = [positions EXCEPT ![p] = Flat] /\ balance' = balance + Profit(ps)
      BY DEF Closes
    <2>2. cash' = cash - (-s) * u * (IF -s = 1 THEN quotes[p].ask ELSE quotes[p].bid)
      BY DEF Closes, Pay
    <2>3. Profit(ps) = s * (x * u - c)
      BY DEF Profit
    <2> HIDE DEF s, u, x, c
    <2> QED
      BY <2>1, <2>2, <2>3
  <1>3. x = IF -s = 1 THEN quotes[p].ask ELSE quotes[p].bid
    BY <1>1 DEF ClosePrice
  <1>4. \A q \in Pair : positions'[q] = IF q = p THEN Flat ELSE positions[q]
    BY <1>2 DEF PortfolioTyped, Formed
  <1>5. d \in Int /\ positions'[p].side * positions'[p].cost
                       = positions[p].side * positions[p].cost + d
    <2>1. positions'[p].side * positions'[p].cost = 0
      BY <1>4 DEF Flat
    <2>2. positions[p].side * positions[p].cost = s * c /\ s * c \in Int
      BY <1>1
    <2> HIDE DEF s, c
    <2> QED
      BY <2>1, <2>2
  <1>6. Total(Invested(positions')) = Total(Invested(positions)) + d
    <2> HIDE DEF d
    <2> QED
      BY <1>4, <1>5, InvestedMoves DEF PortfolioTyped
  <1>7. Total(Invested(positions)) \in Int /\ cash \in Int /\ balance \in Int
    BY InvestedTyped DEF PortfolioTyped
  <1>8. cash' = cash + s * u * x /\ balance' = balance + (s * u * x + d)
    <2> HIDE DEF s, u, x, c
    <2>1. cash' = cash - (-s) * u * x
      BY <1>2, <1>3
    <2>2. (-s) * u * x = -(s * u * x) /\ s * u * x \in Int
      BY <1>1, Products
    <2>3. s * (x * u - c) = s * u * x + d
      BY <1>1
    <2> QED
      BY <1>2, <1>7, <2>1, <2>2, <2>3
  <1>9. s * u * x \in Int
    BY <1>1, Products
  <1> HIDE DEF s, u, x, d, c
  <1> QED
    BY <1>5, <1>6, <1>7, <1>8, <1>9 DEF Balanced


\* A position that knows its price, and one that is closed at a price of before.
Priced(p) == positions[p].cur = ClosePrice(positions[p].side, quotes[p])
NoneMissed == missed = [p \in Pair |-> 0]

\* Closing everything: the balance is off by what the positions that do not know
\* their prices miss.
LEMMA SettleBalances ==
  ASSUME QuotesTyped, PortfolioTyped, PortfolioTyped', Balanced, Settle,
         positions' = [p \in Pair |-> Flat]
  PROVE  /\ balance' = cash' + Total(Invested(positions')) + Total(missed')
         /\ missed' \in Figures
         /\ \A p \in Pair : missed'[p] # 0 => p \in OpenPairs /\ ~Priced(p)
  <1> DEFINE f == [p \in Pair |-> Profit(positions[p])]
             g == Invested(positions)
             h == [p \in Pair |-> Signed(positions[p])
                                    * ClosePrice(positions[p].side, quotes[p])]
             k == [p \in Pair |-> f[p] + g[p]]
             m == missed'
  <1>1. balance' = balance + Total(f) /\ cash' = cash + Total(h)
    BY DEF Settle
  <1>2. ASSUME NEW p \in Pair
        PROVE  /\ Profit(positions[p]) \in Int
               /\ Signed(positions[p]) * ClosePrice(positions[p].side, quotes[p]) \in Int
               /\ m[p] \in Int
               /\ Signed(positions[p]) * ClosePrice(positions[p].side, quotes[p]) + m[p]
                    = Profit(positions[p]) + positions[p].side * positions[p].cost
               /\ m[p] # 0 => p \in OpenPairs /\ ~Priced(p)
    <2> DEFINE s == positions[p].side
               u == positions[p].units
               c == positions[p].cost
               x == positions[p].cur
               y == ClosePrice(s, quotes[p])
               d == m[p]
    <2>1. s \in Int /\ u \in Int /\ c \in Int /\ x \in Int /\ y \in Int
      BY QuoteNumbers DEF PortfolioTyped, PositionTyped, ClosePrice
    <2>2. Profit(positions[p]) = s * (x * u - c) /\ Signed(positions[p]) = s * u
      BY DEF Profit, Signed
    <2>3. d = Signed(positions[p]) * (x - y)
      BY DEF Settle
    <2>4. s # 0 /\ x # y => p \in OpenPairs /\ ~Priced(p)
      BY DEF OpenPairs, IsOpen, Priced
    <2> HIDE DEF s, u, c, x, y, d, m
    <2>5. d = (s * u) * (x - y)
      BY <2>2, <2>3
    <2>6. s * (x * u - c) \in Int /\ (s * u) * y \in Int /\ d \in Int
      BY <2>1, <2>5
    <2>7. (s * u) * y + d = s * (x * u - c) + s * c
      BY <2>1, <2>5
    <2>8. d # 0 => s # 0 /\ x # y
      <3>1. CASE s = 0
        BY <2>1, <2>5, <3>1
      <3>2. CASE x = y
        BY <2>1, <2>5, <3>2
      <3> QED
        BY <3>1, <3>2
    <2> QED
      BY <2>2, <2>4, <2>6, <2>7, <2>8 DEF s, c, y, d
  <1>3. m \in [Pair -> Int]
    <2>1. m = [p \in Pair |-> m[p]]
      BY DEF Settle
    <2> HIDE DEF m
    <2>2. \A p \in Pair : m[p] \in Int
      BY <1>2
    <2> QED
      BY <2>1, <2>2
  <1>4. f \in Figures /\ g \in Figures /\ h \in Figures /\ m \in Figures
    <2> HIDE DEF m
    <2> QED
      BY <1>2, <1>3, InvestedTyped DEF Figures, PortfolioTyped
  <1>5. k \in Figures /\ \A p \in Pair : k[p] = f[p] + g[p]
    <2> HIDE DEF f, g
    <2> QED
      BY <1>4 DEF Figures
  <1>6. \A p \in Pair : k[p] = h[p] + m[p]
    <2> SUFFICES ASSUME NEW p \in Pair
                 PROVE  k[p] = h[p] + m[p]
      OBVIOUS
    <2>1. /\ f[p] = Profit(positions[p]) /\ g[p] = positions[p].side * positions[p].cost
          /\ h[p] = Signed(positions[p]) * ClosePrice(positions[p].side, quotes[p])
      BY InvestedTyped DEF PortfolioTyped
    <2> HIDE DEF f, g, h, m, k
    <2> QED
      BY <1>2, <1>5, <2>1
  <1> HIDE DEF f, g, h, k, m
  <1>7. Total(k) = Total(f) + Total(g) /\ Total(k) = Total(h) + Total(m)
    BY <1>4, <1>5, <1>6, TotalAdds
  <1>8. Total(Invested(positions')) = 0
    <2>1. \A p \in Pair : positions'[p].side * positions'[p].cost = 0
      BY DEF Flat
    <2>2. Invested(positions') \in Figures /\ \A p \in Pair : Invested(positions')[p] = 0
      BY <2>1, InvestedTyped DEF PortfolioTyped
    <2> QED
      BY <2>2, TotalZero
  <1>9. /\ Total(f) \in Int /\ Total(g) \in Int /\ Total(h) \in Int /\ Total(m) \in Int
        /\ cash \in Int /\ balance = cash + Total(g)
    BY <1>4, FiguresTyped DEF Figures, PortfolioTyped, Balanced, g
  <1>10. balance' = cash' + Total(Invested(positions')) + Total(m)
    BY <1>1, <1>7, <1>8, <1>9
  <1> QED
    BY <1>2, <1>4, <1>10 DEF m

-----------------------------------------------------------------------------
(* What the queue of the backtest holds.                                   *)

TickFor(s, p) == \E i \in 1 .. Len(s) : s[i].type = "TICK" /\ s[i].pair = p

\* The ticks come before everything else.
TicksFirst(s) ==
  \A j \in 1 .. Len(s) : s[j].type = "TICK" => \A i \in 1 .. j : s[i].type = "TICK"

\* An open position knows its price, or its pair's tick is still to be handled.
Fresh == \A p \in OpenPairs : Priced(p) \/ TickFor(queue, p)

LEMMA QueueServed ==
  ASSUME NEW s \in Seq(Event), s # <<>>, TicksFirst(s), NEW new \in Seq(Event),
         \A i \in 1 .. Len(new) : new[i].type # "TICK", NEW t, t = Tail(s) \o new
  PROVE  /\ TicksFirst(t)
         /\ \A p : TickFor(s, p) => \/ TickFor(t, p)
                                    \/ Head(s).type = "TICK" /\ Head(s).pair = p
  <1> DEFINE n == Len(s)
             m == Len(new)
  <1>1. /\ n \in Nat \ {0} /\ m \in Nat /\ Len(t) = (n - 1) + m
        /\ \A i \in 1 .. n - 1 : t[i] = s[i + 1]
        /\ \A i \in 1 .. Len(t) : i > n - 1 => t[i] = new[i - (n - 1)]
        /\ Head(s) = s[1]
    <2>1. Tail(s) \in Seq(Event) /\ Len(Tail(s)) = n - 1 /\ n \in Nat \ {0} /\ m \in Nat
            /\ \A i \in 1 .. n - 1 : Tail(s)[i] = s[i + 1]
      OBVIOUS
    <2> DEFINE r == Tail(s)
    <2>2. Head(s) = s[1]
      OBVIOUS
    <2> HIDE DEF r
    <2>3. /\ Len(t) = Len(r) + Len(new)
          /\ \A i \in 1 .. Len(t) : t[i] = IF i <= Len(r) THEN r[i] ELSE new[i - Len(r)]
      BY <2>1, ConcatProperties DEF r
    <2> HIDE DEF n, m
    <2>4. Len(r) = n - 1 /\ Len(new) = m /\ \A i \in 1 .. n - 1 : r[i] = s[i + 1]
      BY <2>1 DEF r, m
    <2>5. \A i \in 1 .. n - 1 : i \in 1 .. Len(t) /\ i <= n - 1
      BY <2>1, <2>3, <2>4
    <2>6. \A i \in 1 .. n - 1 : t[i] = s[i + 1]
      BY <2>3, <2>4, <2>5
    <2>7. \A i \in 1 .. Len(t) : i > n - 1 => t[i] = new[i - (n - 1)]
      BY <2>1, <2>3, <2>4
    <2> QED
      BY <2>1, <2>2, <2>3, <2>4, <2>6, <2>7
  <1> HIDE DEF n
  <1>2. \A i \in 1 .. Len(t) : t[i].type = "TICK" => i \in 1 .. n - 1
    <2> SUFFICES ASSUME NEW i \in 1 .. Len(t), ~(i \in 1 .. n - 1)
                 PROVE  t[i].type # "TICK"
      OBVIOUS
    <2>1. i > n - 1 /\ i - (n - 1) \in 1 .. m
      BY <1>1
    <2> QED
      BY <1>1, <2>1
  <1>3. TicksFirst(t)
    <2> SUFFICES ASSUME NEW j \in 1 .. Len(t), t[j].type = "TICK", NEW i \in 1 .. j
                 PROVE  t[i].type = "TICK"
      BY DEF TicksFirst
    <2>1. j \in 1 .. n - 1 /\ i \in 1 .. n - 1 /\ j + 1 \in 1 .. n /\ i + 1 \in 1 .. j + 1
      BY <1>1, <1>2
    <2>2. s[j + 1].type = "TICK"
      BY <1>1, <2>1
    <2>3. s[i + 1].type = "TICK"
      BY <2>1, <2>2 DEF TicksFirst, n
    <2> QED
      BY <1>1, <2>1, <2>3
  <1>4. ASSUME NEW p, TickFor(s, p), ~(Head(s).type = "TICK" /\ Head(s).pair = p)
        PROVE  TickFor(t, p)
    <2>1. PICK i \in 1 .. n : s[i].type = "TICK" /\ s[i].pair = p
      BY <1>4 DEF TickFor, n
    <2>2. i # 1
      BY <1>1, <1>4, <2>1
    <2>3. i - 1 \in 1 .. n - 1 /\ i - 1 \in 1 .. Len(t) /\ (i - 1) + 1 = i
      BY <1>1, <2>2
    <2>4. t[i - 1] = s[i]
      BY <1>1, <2>3
    <2> QED
      BY <2>1, <2>3, <2>4 DEF TickFor
  <1> QED
    BY <1>3, <1>4

\* At a signal or an order all ticks have been handled.
LEMMA NoTickLeft ==
  ASSUME NEW s \in Seq(Event), s # <<>>, TicksFirst(s), Head(s).type # "TICK"
  PROVE  \A p : ~TickFor(s, p)
  <1>1. Head(s) = s[1] /\ \A i \in 1 .. Len(s) : 1 \in 1 .. i
    OBVIOUS
  <1> QED
    BY <1>1 DEF TicksFirst, TickFor


-----------------------------------------------------------------------------
(* The balance, step by step.                                              *)

BookInv ==
  /\ TypeInv /\ AccountInv
  /\ program = "live" \/ phase # "finished" => Balanced /\ NoneMissed
  /\ InBacktest => TicksFirst(queue) /\ Fresh
  /\ BooksBalance

\* As long as nothing is missed, the balance is what was paid less what is invested.
LEMMA BooksMean == TypeInv /\ Balanced /\ NoneMissed => BooksBalance
  <1> SUFFICES ASSUME TypeInv, Balanced, NoneMissed
               PROVE  BooksBalance
    OBVIOUS
  <1>1. missed \in Figures /\ \A p \in Pair : missed[p] = 0
    BY DEF NoneMissed, Figures
  <1>2. Total(missed) = 0
    BY <1>1, TotalZero
  <1>3. cash \in Int /\ Total(Invested(positions)) \in Int
    BY InvestedTyped DEF TypeInv, PortfolioTyped
  <1>4. balance = cash + Total(Invested(positions)) + Total(missed)
    BY <1>2, <1>3 DEF Balanced
  <1> QED
    BY <1>1, <1>4 DEF BooksBalance, Invested

\* A step that moves no money.
LEMMA BalanceStays ==
  ASSUME Balanced, UNCHANGED <<balance, cash>>,
         \A p \in Pair : /\ positions'[p].side = positions[p].side
                         /\ positions'[p].cost = positions[p].cost
  PROVE  Balanced'
  <1>1. Invested(positions') = Invested(positions)
    BY InvestedStays
  <1> QED
    BY <1>1 DEF Balanced

LEMMA UpdatePrices ==
  ASSUME QuotesTyped, PortfolioTyped, NEW p \in Pair, UpdatePortfolio(p)
  PROVE  /\ \A q \in Pair : /\ positions'[q].side = positions[q].side
                            /\ positions'[q].cost = positions[q].cost
                            /\ q # p => positions'[q] = positions[q]
         /\ IsOpen(positions[p]) => positions'[p].cur = ClosePrice(positions[p].side, quotes[p])
  <1> DEFINE ps == UpdatePositionPrice(positions[p], quotes[p])
  <1>1. /\ WellFormed(positions[p]) /\ PositionTyped(positions[p])
        /\ quotes[p].bid \in Nat /\ quotes[p].ask \in Nat /\ Formed
    BY QuoteNumbers DEF PortfolioTyped, Formed
  <1>2. /\ ps.side = positions[p].side /\ ps.cost = positions[p].cost
        /\ ps.cur = ClosePrice(positions[p].side, quotes[p])
    BY <1>1, PriceTyped, PriceOnly
  <1>3. \/ IsOpen(positions[p]) /\ positions' = [positions EXCEPT ![p] = ps]
        \/ ~IsOpen(positions[p]) /\ positions' = positions
    BY DEF UpdatePortfolio
  <1> HIDE DEF ps
  <1>4. CASE IsOpen(positions[p]) /\ positions' = [positions EXCEPT ![p] = ps]
    <2>1. \A q \in Pair : positions'[q] = IF q = p THEN ps ELSE positions[q]
      BY <1>1, <1>4 DEF Formed
    <2> QED
      BY <1>2, <1>4, <2>1
  <1>5. CASE ~IsOpen(positions[p]) /\ positions' = positions
    BY <1>5
  <1> QED
    BY <1>3, <1>4, <1>5

\* A row of prices: the pairs it changes have their ticks in the queue.
LEMMA RowBooks ==
  ASSUME BookInv, TypeInv', StreamNextTick
  PROVE  Balanced' /\ TicksFirst(queue') /\ Fresh'
  <1>1. /\ InBacktest /\ TypeInv /\ Balanced /\ Fresh /\ queue = <<>>
        /\ UNCHANGED <<positions, balance, cash, phase, program>>
    BY DEF BookInv, StreamNextTick, InBacktest, portfolioVars
  <1>2. Balanced'
    BY <1>1, BalanceStays
  <1>3. /\ Len(queue') = Ahead /\ Ahead \in Nat
        /\ \A i \in 1 .. Ahead : queue'[i] = [type |-> "TICK", pair |-> Pairs[i]]
        /\ \A p \in Pair : \/ quotes'[p] = quotes[p]
                           \/ \E i \in 1 .. Ahead : Pairs[i] = p
    BY <1>1, RowStreams, AheadTyped DEF TypeInv
  <1>4. TicksFirst(queue')
    BY <1>3 DEF TicksFirst
  <1>5. ASSUME NEW p \in OpenPairs'
        PROVE  Priced(p)' \/ TickFor(queue', p)
    <2>1. p \in OpenPairs /\ p \in Pair
      BY <1>1 DEF OpenPairs
    <2>2. ~TickFor(queue, p)
      BY <1>1 DEF TickFor
    <2>3. Priced(p)
      BY <1>1, <2>1, <2>2 DEF Fresh
    <2>4. CASE quotes'[p] = quotes[p]
      BY <1>1, <2>3, <2>4 DEF Priced
    <2>5. CASE \E i \in 1 .. Ahead : Pairs[i] = p
      BY <1>3, <2>5 DEF TickFor
    <2> QED
      BY <1>3, <2>1, <2>4, <2>5
  <1> QED
    BY <1>2, <1>4, <1>5 DEF Fresh

\* A tick: its pair's position now knows its price, and the others' ticks stay.
LEMMA TickBooks ==
  ASSUME BookInv, TypeInv', HandleTick
  PROVE  Balanced' /\ TicksFirst(queue') /\ Fresh'
  <1> DEFINE q == Head(queue).pair
  <1>1. /\ InBacktest /\ TypeInv /\ Balanced /\ Fresh /\ TicksFirst(queue)
        /\ queue # <<>> /\ Head(queue).type = "TICK" /\ queue \in Seq(Event)
        /\ UNCHANGED <<quotes, balance, cash>>
    BY DEF BookInv, HandleTick, InBacktest, TypeInv, QueueTyped
  <1>2. q \in Pair
    BY <1>1, HeadTyped, EventsTyped DEF TypeInv
  <1>3. PICK o \in Outcomes(q) : queue' = Tail(queue) \o Put(q, o.out)
    BY DEF HandleTick, Put
  <1>4. o.out \in Seq(Trade)
    BY <1>1, <1>2, OutcomesTyped DEF TypeInv, ProgramTyped
  <1>5. UpdatePortfolio(q)
    BY DEF HandleTick
  <1> HIDE DEF q
  <1> DEFINE new == Put(q, o.out)
  <1>6. new \in Seq(Event) /\ \A i \in 1 .. Len(new) : new[i].type # "TICK"
    <2>1. new \in Seq(Event) /\ \A i \in 1 .. Len(new) : new[i].type = "SIGNAL"
      BY <1>2, <1>4, PutTyped
    <2> HIDE DEF new
    <2> QED
      BY <2>1
  <1>7. /\ TicksFirst(queue')
        /\ \A p : TickFor(queue, p) => TickFor(queue', p) \/ p = q
    <2>1. queue' = Tail(queue) \o new
      BY <1>3
    <2> HIDE DEF new
    <2>2. /\ TicksFirst(queue')
          /\ \A p : TickFor(queue, p) => \/ TickFor(queue', p)
                                         \/ Head(queue).type = "TICK" /\ Head(queue).pair = p
      BY <1>1, <1>6, <2>1, QueueServed
    <2> QED
      BY <2>2 DEF q
  <1>8. /\ \A p \in Pair : /\ positions'[p].side = positions[p].side
                           /\ positions'[p].cost = positions[p].cost
                           /\ p # q => positions'[p] = positions[p]
        /\ IsOpen(positions[q]) => positions'[q].cur = ClosePrice(positions[q].side, quotes[q])
    BY <1>1, <1>2, <1>5, UpdatePrices DEF TypeInv
  <1>9. Balanced'
    BY <1>1, <1>8, BalanceStays
  <1>10. ASSUME NEW p \in OpenPairs'
         PROVE  Priced(p)' \/ TickFor(queue', p)
    <2>1. p \in OpenPairs /\ p \in Pair
      BY <1>8 DEF OpenPairs, IsOpen
    <2>2. CASE p = q
      BY <1>1, <1>8, <2>1, <2>2 DEF Priced, OpenPairs
    <2>3. CASE p # q
      <3>1. positions'[p] = positions[p] /\ quotes' = quotes
        BY <1>1, <1>8, <2>1, <2>3
      <3>2. CASE Priced(p)
        BY <3>1, <3>2 DEF Priced
      <3>3. CASE TickFor(queue, p)
        BY <1>7, <2>3, <3>3
      <3> QED
        BY <1>1, <2>1, <3>2, <3>3 DEF Fresh
    <2> QED
      BY <2>2, <2>3
  <1> QED
    BY <1>7, <1>9, <1>10 DEF Fresh

\* A signal is handled when all positions know their prices.
LEMMA SignalBooks ==
  ASSUME BookInv, TypeInv', HandleSignal
  PROVE  Balanced' /\ (InBacktest' => TicksFirst(queue') /\ Fresh')
  <1> DEFINE e == Head(queue)
             q == e.pair
             ps == positions[q]
             f == [e EXCEPT !.type = "ORDER"]
  <1>1. /\ InBacktest /\ TypeInv /\ Balanced /\ Fresh /\ TicksFirst(queue)
        /\ queue # <<>> /\ e.type = "SIGNAL" /\ queue \in Seq(Event)
        /\ program' = program /\ quotes' = quotes
    BY DEF BookInv, HandleSignal, InBacktest, TypeInv, QueueTyped
  <1>2. /\ QuotesTyped /\ PortfolioTyped /\ PortfolioTyped' /\ program = "backtest"
    BY <1>1 DEF TypeInv, InBacktest
  <1>3. e \in Event /\ q \in Pair /\ e.units \in Nat /\ SideOf(e) \in {-1, 1}
          /\ f \in Event /\ f.type = "ORDER"
    <2>1. e \in Event
      BY <1>1
    <2> QED
      BY <1>1, <2>1, EventsTyped, SideOfTyped
  <1>4. \A p \in OpenPairs : Priced(p)
    BY <1>1, NoTickLeft DEF Fresh
  <1>5. \/ /\ phase' = "crashed"
           /\ UNCHANGED portfolioVars
        \/ /\ \/ ~IsOpen(ps) /\ Opens(q, SideOf(e), e.units)
              \/ IsOpen(ps) /\ Grows(q, e.units)
              \/ IsOpen(ps) /\ Closes(q, ps)
           /\ queue' = Append(Tail(queue), f)
    BY DEF HandleSignal
  <1>6. PositionTyped(ps) /\ WellFormed(ps)
    BY <1>2, <1>3 DEF PortfolioTyped, Formed
  <1> HIDE DEF e, q, f
  <1>7. CASE phase' = "crashed" /\ UNCHANGED portfolioVars
    <2>1. UNCHANGED <<positions, balance, cash>>
      BY <1>7 DEF portfolioVars
    <2>2. Balanced'
      BY <1>1, <2>1, BalanceStays
    <2> QED
      BY <1>7, <2>2 DEF InBacktest
  <1>8. CASE queue' = Append(Tail(queue), f)
    <2>1. <<f>> \in Seq(Event) /\ \A i \in 1 .. Len(<<f>>) : <<f>>[i].type # "TICK"
      BY <1>3
    <2>2. queue' = Tail(queue) \o <<f>>
      BY <1>1, <1>8
    <2> QED
      <3>1. TicksFirst(queue')
        BY <1>1, <2>1, <2>2, QueueServed
      <3>2. Balanced' /\ Fresh'
        <4>1. CASE ~IsOpen(ps) /\ Opens(q, SideOf(e), e.units)
          <5> DEFINE new == NewPosition(SideOf(e), e.units, quotes[q])
          <5>1. Balanced'
            BY <1>1, <1>2, <1>3, <4>1, OpensBalances
          <5>2. new.side = SideOf(e) /\ new.cur = ClosePrice(SideOf(e), quotes[q])
            BY DEF NewPosition
          <5>3. positions' = [positions EXCEPT ![q] = new]
            BY <4>1 DEF Opens
          <5> HIDE DEF new
          <5>4. \A p \in Pair : positions'[p] = IF p = q THEN new ELSE positions[p]
            BY <1>2, <5>3 DEF PortfolioTyped, Formed
          <5>5. \A p \in OpenPairs' : Priced(p)'
            BY <1>1, <1>4, <5>2, <5>4 DEF Priced, OpenPairs
          <5> QED
            BY <5>1, <5>5 DEF Fresh
        <4>2. CASE IsOpen(ps) /\ Grows(q, e.units)
          <5> DEFINE grown == AddUnits(ps, e.units, quotes[q])
          <5>1. Balanced'
            BY <1>1, <1>2, <1>3, <4>2, GrowsBalances
          <5>2. grown.side = ps.side /\ grown.cur = ps.cur
            BY <1>2, <1>3, <1>6, <4>2, MoreTyped, MoreUnits, QuoteNumbers
          <5>3. positions' = [positions EXCEPT ![q] = grown]
            BY <1>2, <4>2 DEF Grows
          <5> HIDE DEF grown
          <5>4. \A p \in Pair : positions'[p] = IF p = q THEN grown ELSE positions[p]
            BY <1>2, <5>3 DEF PortfolioTyped, Formed
          <5>5. \A p \in OpenPairs' : Priced(p)'
            BY <1>1, <1>4, <4>2, <5>2, <5>4 DEF Priced, OpenPairs, IsOpen
          <5> QED
            BY <5>1, <5>5 DEF Fresh
        <4>3. CASE IsOpen(ps) /\ Closes(q, ps)
          <5>1. ps.cur = ClosePrice(ps.side, quotes[q])
            BY <1>3, <1>4, <4>3 DEF Priced, OpenPairs
          <5>2. Balanced'
            BY <1>1, <1>2, <1>3, <1>6, <4>3, <5>1, ClosesBalances
          <5>3. positions' = [positions EXCEPT ![q] = Flat]
            BY <4>3 DEF Closes
          <5>4. \A p \in Pair : positions'[p] = IF p = q THEN Flat ELSE positions[p]
            BY <1>2, <5>3 DEF PortfolioTyped, Formed
          <5>5. \A p \in OpenPairs' : Priced(p)'
            BY <1>1, <1>4, <5>4 DEF Priced, OpenPairs, IsOpen, Flat
          <5> QED
            BY <5>2, <5>5 DEF Fresh
        <4>4. CASE phase' = "crashed" /\ UNCHANGED portfolioVars
          <5>1. UNCHANGED <<positions, balance, cash>>
            BY <4>4 DEF portfolioVars
          <5>2. Balanced'
            BY <1>1, <5>1, BalanceStays
          <5>3. \A p \in OpenPairs' : Priced(p)'
            BY <1>1, <1>4, <5>1 DEF Priced, OpenPairs
          <5> QED
            BY <5>2, <5>3 DEF Fresh
        <4> QED
          BY <1>5, <4>1, <4>2, <4>3, <4>4
      <3> QED
        BY <3>1, <3>2
  <1> QED
    BY <1>5, <1>7, <1>8

LEMMA OrderBooks ==
  ASSUME BookInv, HandleOrder
  PROVE  Balanced' /\ TicksFirst(queue') /\ Fresh'
  <1>1. /\ InBacktest /\ TypeInv /\ Balanced /\ Fresh /\ TicksFirst(queue)
        /\ queue # <<>> /\ Head(queue).type # "TICK" /\ queue \in Seq(Event)
        /\ queue' = Tail(queue)
        /\ UNCHANGED <<quotes, positions, balance, cash>>
    BY DEF BookInv, HandleOrder, InBacktest, TypeInv, QueueTyped, portfolioVars
  <1>2. Balanced'
    BY <1>1, BalanceStays
  <1>3. <<>> \in Seq(Event) /\ queue' = Tail(queue) \o <<>> /\ \A i \in 1 .. Len(<<>>) : FALSE
    BY <1>1
  <1>4. TicksFirst(queue')
    BY <1>1, <1>3, QueueServed
  <1>5. \A p \in OpenPairs : Priced(p)
    BY <1>1, NoTickLeft DEF Fresh
  <1>6. \A p \in OpenPairs' : Priced(p)'
    BY <1>1, <1>5 DEF Priced, OpenPairs
  <1> QED
    BY <1>2, <1>4, <1>6 DEF Fresh

\* The end of a backtest. A crash there means that nothing was ever traded.
LEMMA EndBooks ==
  ASSUME BookInv, TypeInv', EndBacktest
  PROVE  BooksBalance' /\ ~InBacktest'
         /\ (program' = "live" \/ phase' # "finished" => Balanced' /\ NoneMissed')
  <1>1. /\ InBacktest /\ TypeInv /\ AccountInv /\ Balanced /\ Fresh
        /\ QuotesTyped /\ PortfolioTyped /\ PortfolioTyped' /\ queue \in Seq(Event)
    BY DEF BookInv, EndBacktest, InBacktest, TypeInv, QueueTyped
  <1>2. /\ Settle /\ positions' = [p \in Pair |-> Flat] /\ phase' = Verdict
        /\ program' = program /\ queue' = queue /\ program = "backtest"
    BY DEF EndBacktest, CloseAll, InBacktest
  <1>3. /\ balance' = cash' + Total(Invested(positions')) + Total(missed')
        /\ missed' \in Figures
        /\ \A p \in Pair : missed'[p] # 0 => p \in OpenPairs /\ ~Priced(p)
    BY <1>1, <1>2, SettleBalances
  <1>4. \A p \in Pair : missed'[p] # 0 =>
          \E i \in DOMAIN queue' : queue'[i].type = "TICK" /\ queue'[i].pair = p
    <2>1. \A p \in OpenPairs : Priced(p) \/ TickFor(queue, p)
      BY <1>1 DEF Fresh
    <2>2. DOMAIN queue = 1 .. Len(queue)
      BY <1>1
    <2> QED
      BY <1>2, <1>3, <2>1, <2>2 DEF TickFor
  <1>5. CASE trades = 0
    <2>1. Cardinality(OpenPairs) = 0
      BY <1>1, <1>2, <1>5, OpenPairsFinite DEF AccountInv, CountsTyped, TradesAccounted
    <2>2. OpenPairs = {}
      BY <2>1, OpenPairsFinite, FS_EmptySet
    <2>3. \A p \in Pair : missed'[p] = 0
      BY <1>3, <2>2
    <2>4. NoneMissed'
      BY <1>3, <2>3 DEF NoneMissed, Figures
    <2>5. Total(missed') = 0
      BY <1>3, <2>3, TotalZero
    <2>6. cash' \in Int /\ Total(Invested(positions')) \in Int
      BY <1>1, InvestedTyped DEF PortfolioTyped
    <2>7. Balanced' /\ phase' = "crashed"
      BY <1>2, <1>3, <1>5, <2>5, <2>6 DEF Balanced, Verdict
    <2>8. BooksBalance'
      BY <2>4, <2>7, BooksMean, PTL
    <2> QED
      BY <2>4, <2>7, <2>8 DEF InBacktest
  <1>6. CASE trades # 0
    <2>1. phase' = "finished" /\ program' = "backtest"
      BY <1>2, <1>6 DEF Verdict
    <2>2. BooksBalance'
      BY <1>3, <1>4, <2>1 DEF BooksBalance, Invested
    <2> QED
      BY <2>1, <2>2 DEF InBacktest
  <1> QED
    BY <1>5, <1>6

\* The live program books what was paid.
LEMMA LiveBooks ==
  ASSUME BookInv, TypeInv', LiveStep
  PROVE  Balanced' /\ program' = "live"
  <1>1. /\ program = "live" /\ program' = program /\ TypeInv /\ Balanced
        /\ QuotesTyped /\ PortfolioTyped /\ PortfolioTyped'
    BY DEF LiveStep, LiveFrame, InLive, Hear, WriteQuote, PutTick, LiveTick, LivePut,
           LiveUpdate, LiveSignal, LiveOrder, BookInv, TypeInv
  <1>2. CASE Hear \/ WriteQuote \/ PutTick \/ LiveTick \/ LivePut \/ LiveOrder
    <2>1. UNCHANGED <<positions, balance, cash>>
      BY <1>2 DEF Hear, WriteQuote, PutTick, LiveTick, LivePut, LiveOrder
    <2> QED
      BY <1>1, <2>1, BalanceStays
  <1>3. CASE LiveUpdate
    <2> DEFINE q == Head(todo).pair
    <2>1. UpdatePortfolio(q) /\ UNCHANGED <<balance, cash>>
      BY <1>3 DEF LiveUpdate
    <2>2. q \in Pair
      <3>1. Head(todo) \in Call
        BY <1>1, <1>3 DEF TypeInv, TodoTyped, LiveUpdate
      <3> QED
        BY <1>3, <3>1, CallsTyped DEF LiveUpdate
    <2> HIDE DEF q
    <2>3. \A p \in Pair : /\ positions'[p].side = positions[p].side
                          /\ positions'[p].cost = positions[p].cost
      BY <1>1, <2>1, <2>2, UpdatePrices
    <2> QED
      BY <1>1, <2>1, <2>3, BalanceStays
  <1>4. CASE LiveSignal
    <2> DEFINE e == Head(queue)
               q == e.pair
               ps == positions[q]
               now == UpdatePositionPrice(ps, quotes[q])
    <2>1. q \in Pair /\ SideOf(e) \in {-1, 1} /\ TradeUnits \in Nat
      <3>1. q \in Pair
        BY <1>1, <1>4, HeadTyped, EventsTyped DEF TypeInv, LiveSignal
      <3> QED
        BY <3>1, SideOfTyped, LoopAssumption DEF LoopAssumption
    <2>2. \/ UNCHANGED <<positions, balance, cash>>
          \/ ~IsOpen(ps) /\ Opens(q, SideOf(e), TradeUnits)
          \/ IsOpen(ps) /\ Grows(q, TradeUnits)
          \/ IsOpen(ps) /\ Closes(q, now)
      BY <1>4 DEF LiveSignal, ClosesNow
    <2>3. /\ PositionTyped(now) /\ now.side = ps.side /\ now.units = ps.units /\ now.cost = ps.cost
          /\ now.cur = ClosePrice(now.side, quotes[q])
      <3>1. PositionTyped(ps) /\ WellFormed(ps) /\ quotes[q].bid \in Nat /\ quotes[q].ask \in Nat
        BY <1>1, <2>1, QuoteNumbers DEF PortfolioTyped, Formed
      <3> QED
        BY <3>1, PriceTyped, PriceOnly
    <2> HIDE DEF e, q, now
    <2>4. CASE UNCHANGED <<positions, balance, cash>>
      BY <1>1, <2>4, BalanceStays
    <2>5. CASE ~IsOpen(ps) /\ Opens(q, SideOf(e), TradeUnits)
      BY <1>1, <2>1, <2>5, OpensBalances
    <2>6. CASE IsOpen(ps) /\ Grows(q, TradeUnits)
      BY <1>1, <2>1, <2>6, GrowsBalances
    <2>7. CASE IsOpen(ps) /\ Closes(q, now)
      BY <1>1, <2>1, <2>3, <2>7, ClosesBalances
    <2> QED
      BY <1>1, <2>2, <2>4, <2>5, <2>6, <2>7
  <1> QED
    BY <1>1, <1>2, <1>3, <1>4 DEF LiveStep

LEMMA BookInit == Init => BookInv
  <1> SUFFICES ASSUME Init
               PROVE  BookInv
    OBVIOUS
  <1>1. TypeInv /\ AccountInv
    BY TypeInit, AccountInit
  <1>2. Balanced
    <2>1. \A p \in Pair : positions[p].side * positions[p].cost = 0
      BY DEF Init, PortfolioInit, Flat
    <2>2. Invested(positions) \in Figures /\ \A p \in Pair : Invested(positions)[p] = 0
      BY <1>1, <2>1, InvestedTyped DEF TypeInv, PortfolioTyped
    <2>3. Total(Invested(positions)) = 0
      BY <2>2, TotalZero
    <2> QED
      BY <2>3 DEF Init, PortfolioInit, Balanced
  <1>3. TicksFirst(queue) /\ Fresh
    BY DEF Init, PortfolioInit, TicksFirst, Fresh, OpenPairs, IsOpen, Flat
  <1>4. NoneMissed
    BY DEF Init, PortfolioInit, NoneMissed
  <1> QED
    BY <1>1, <1>2, <1>3, <1>4, BooksMean DEF BookInv

\* Only the close at the end misses anything.
LEMMA NothingMissed ==
  ASSUME BookInv, StreamNextTick \/ HandleTick \/ HandleSignal \/ HandleOrder \/ LiveStep
  PROVE  NoneMissed'
  <1>1. NoneMissed
    BY DEF BookInv, StreamNextTick, HandleTick, HandleSignal, HandleOrder, InBacktest, LiveStep,
           InLive, Hear, WriteQuote, PutTick, LiveTick, LivePut, LiveUpdate, LiveSignal, LiveOrder
  <1>2. missed' = missed
    BY DEF StreamNextTick, HandleTick, HandleSignal, HandleOrder, portfolioVars, LiveStep, LiveFrame,
           Hear, WriteQuote, PutTick, LiveTick, LivePut, LiveUpdate, LiveSignal, LiveOrder
  <1> QED
    BY <1>1, <1>2 DEF NoneMissed

LEMMA BookNext == BookInv /\ [Next]_vars => BookInv'
  <1> SUFFICES ASSUME BookInv, [Next]_vars
               PROVE  BookInv'
    OBVIOUS
  <1>1. TypeInv' /\ AccountInv'
    BY TypeNext, AccountNext DEF BookInv
  <1>2. Balanced' /\ NoneMissed' => BooksBalance'
    <2>1. TypeInv' /\ Balanced' /\ NoneMissed' => BooksBalance'
      BY BooksMean, PTL
    <2> QED
      BY <1>1, <2>1
  <1>3. CASE StreamNextTick
    BY <1>1, <1>2, <1>3, RowBooks, NothingMissed DEF BookInv
  <1>4. CASE HandleTick
    BY <1>1, <1>2, <1>4, TickBooks, NothingMissed DEF BookInv
  <1>5. CASE HandleSignal
    BY <1>1, <1>2, <1>5, SignalBooks, NothingMissed DEF BookInv
  <1>6. CASE HandleOrder
    BY <1>1, <1>2, <1>6, OrderBooks, NothingMissed DEF BookInv
  <1>7. CASE EndBacktest
    BY <1>1, <1>7, EndBooks DEF BookInv
  <1>8. CASE LiveStep
    BY <1>1, <1>2, <1>8, LiveBooks, NothingMissed DEF BookInv, InBacktest
  <1>9. CASE UNCHANGED vars
    <2>1. UNCHANGED <<program, phase, queue, quotes, positions, balance, cash, missed>>
      BY <1>9 DEF vars, portfolioVars
    <2> QED
      BY <1>1, <2>1
      DEF BookInv, Balanced, NoneMissed, InBacktest, Fresh, OpenPairs, Priced, BooksBalance
  <1> QED
    BY <1>3, <1>4, <1>5, <1>6, <1>7, <1>8, <1>9 DEF Next, BacktestStep

(* The balance is what the market paid, less what is invested: in the       *)
(* backtest while it runs, because the ticks of a row are all handled       *)
(* before the first signal, so that a close is made at a price the position *)
(* knows; in the live program always. The close at the end of a backtest is *)
(* off just by what the positions miss whose ticks it left in the queue,    *)
(* whether max_iters stopped it or a later pair's data ended first. For any *)
(* pairs, prices, strategies and sizes.                                     *)
THEOREM Balance == Spec => []BooksBalance
  <1>1. BookInv => BooksBalance
    BY DEF BookInv
  <1> QED
    BY <1>1, BookInit, BookNext, PTL DEF Spec


-----------------------------------------------------------------------------
(* The signals under way.                                                  *)

\* The events of s, once executed, take the side of p from <<from>> to <<to>>, and never
\* beyond one trade.
Goes(g, s, p, from, to) ==
  /\ g[0] = from /\ g[Len(s)] = to
  /\ \A i \in 1 .. Len(s) : g[i] = Executed(g[i - 1], s[i], p)
  /\ \A i \in 0 .. Len(s) : g[i] \in {-1, 0, 1}

Leads(s, p, from, to) == \E g : Goes(g, s, p, from, to)

\* Sides is such a way, if there is one.
LEMMA SidesLead ==
  ASSUME NEW s \in Seq(Event), NEW p \in Pair, NEW from \in {-1, 0, 1}, NEW to
  PROVE  Leads(s, p, from, to) <=>
           /\ Sides(s, p, from)[Len(s)] = to
           /\ \A i \in 0 .. Len(s) : Sides(s, p, from)[i] \in {-1, 0, 1}
  <1> DEFINE n == Len(s)
             Rec(g) == g = [i \in 0 .. n |-> IF i = 0 THEN from ELSE Executed(g[i - 1], s[i], p)]
             after == CHOOSE g : Rec(g)
             F == [i \in 1 .. n |-> [x \in Int |-> Executed(x, s[i], p)]]
  <1>1. n \in Nat
    OBVIOUS
  <1>2. \A e : \A x \in Int : Executed(x, e, p) \in Int
    BY SideOfTyped DEF Executed
  <1>3. F \in [1 .. n -> [Int -> Int]]
    BY <1>2
  <1>4. \A i \in 1 .. n : \A x \in Int : F[i][x] = Executed(x, s[i], p)
    OBVIOUS
  <1>5. Sides(s, p, from) = after
    BY DEF Sides
  <1> HIDE DEF F, n
  <1>6. PICK f \in [0 .. n -> Int] : Follows(f, from, n, F)
    <2>1. from \in Int
      OBVIOUS
    <2> QED
      BY <1>1, <1>3, <2>1, RecursionExists
  <1>7. Rec(f)
    <2>1. f = [i \in 0 .. n |-> f[i]]
      OBVIOUS
    <2>2. \A i \in 0 .. n : f[i] = IF i = 0 THEN from ELSE Executed(f[i - 1], s[i], p)
      <3>1. f[0] = from /\ \A i \in 1 .. n : f[i] = F[i][f[i - 1]]
        BY <1>6 DEF Follows
      <3>2. ASSUME NEW i \in 1 .. n
            PROVE  f[i] = Executed(f[i - 1], s[i], p)
        <4>1. f[i - 1] \in Int
          BY <1>1
        <4> QED
          BY <1>4, <3>1, <4>1
      <3> QED
        BY <1>1, <3>1, <3>2
    <2>3. [i \in 0 .. n |-> f[i]]
            = [i \in 0 .. n |-> IF i = 0 THEN from ELSE Executed(f[i - 1], s[i], p)]
      BY <2>2
    <2> QED
      BY <2>1, <2>3
  <1>8. Rec(after)
    BY <1>7
  <1> HIDE DEF after
  <1>9. after[0] = from /\ \A i \in 1 .. n : after[i] = Executed(after[i - 1], s[i], p)
    BY <1>1, <1>8
  <1>10. ASSUME NEW g, Goes(g, s, p, from, to)
         PROVE  \A i \in 0 .. n : g[i] = after[i]
    <2> DEFINE S == {i \in 0 .. n : g[i] = after[i]}
    <2>1. 0 \in S
      BY <1>1, <1>9, <1>10 DEF Goes
    <2>2. \A i \in 1 .. n : i - 1 \in S => i \in S
      BY <1>1, <1>9, <1>10 DEF Goes, n
    <2>3. S \in SUBSET (0 .. n)
      OBVIOUS
    <2> HIDE DEF S
    <2>4. S = 0 .. n
      BY <1>1, <2>1, <2>2, <2>3, Inductive
    <2> QED
      BY <2>4 DEF S
  <1>11. n \in 0 .. n
    BY <1>1
  <1>12. Leads(s, p, from, to) => after[n] = to /\ \A i \in 0 .. n : after[i] \in {-1, 0, 1}
    BY <1>10, <1>11 DEF Leads, Goes, n
  <1>13. after[n] = to /\ (\A i \in 0 .. n : after[i] \in {-1, 0, 1}) => Leads(s, p, from, to)
    BY <1>9 DEF Leads, Goes, n
  <1> QED
    BY <1>5, <1>12, <1>13 DEF n

\* One way after another.
LEMMA LeadsOn ==
  ASSUME NEW s \in Seq(Event), NEW t \in Seq(Event), NEW p, NEW a, NEW b, NEW c,
         Leads(s, p, a, b), Leads(t, p, b, c)
  PROVE  Leads(s \o t, p, a, c)
  <1> DEFINE n == Len(s)
             m == Len(t)
             st == s \o t
  <1>1. PICK g : Goes(g, s, p, a, b)
    BY DEF Leads
  <1>2. PICK h : Goes(h, t, p, b, c)
    BY DEF Leads
  <1>3. n \in Nat /\ m \in Nat /\ Len(st) = n + m
          /\ \A i \in 1 .. n + m : st[i] = IF i <= n THEN s[i] ELSE t[i - n]
    BY ConcatProperties
  <1> DEFINE k == [i \in 0 .. n + m |-> IF i <= n THEN g[i] ELSE h[i - n]]
  <1>4. /\ g[0] = a /\ g[n] = b /\ h[0] = b /\ h[m] = c
        /\ \A i \in 1 .. n : g[i] = Executed(g[i - 1], s[i], p)
        /\ \A i \in 1 .. m : h[i] = Executed(h[i - 1], t[i], p)
        /\ \A i \in 0 .. n : g[i] \in {-1, 0, 1}
        /\ \A i \in 0 .. m : h[i] \in {-1, 0, 1}
    BY <1>1, <1>2 DEF Goes
  <1> HIDE DEF n, m, st
  <1>5. /\ \A i \in 0 .. n : k[i] = g[i]
        /\ \A i \in n .. n + m : k[i] = h[i - n]
    <2>1. \A i \in 0 .. n : k[i] = g[i]
      BY <1>3
    <2>2. ASSUME NEW i \in n .. n + m
          PROVE  k[i] = h[i - n]
      <3>1. CASE i = n
        BY <1>3, <1>4, <3>1
      <3>2. CASE i # n
        BY <1>3, <3>2
      <3> QED
        BY <3>1, <3>2
    <2> QED
      BY <2>1, <2>2
  <1> HIDE DEF k
  <1>6. k[0] = a /\ k[n + m] = c
    BY <1>3, <1>4, <1>5
  <1>7. ASSUME NEW i \in 1 .. n + m
        PROVE  k[i] = Executed(k[i - 1], st[i], p)
    <2>1. CASE i <= n
      <3>1. i \in 0 .. n /\ i - 1 \in 0 .. n /\ i \in 1 .. n
        BY <1>3, <2>1
      <3> QED
        BY <1>3, <1>4, <1>5, <2>1, <3>1
    <2>2. CASE i > n
      <3>1. i \in n .. n + m /\ i - 1 \in n .. n + m /\ i - n \in 1 .. m /\ (i - 1) - n = (i - n) - 1
              /\ ~(i <= n)
        BY <1>3, <2>2
      <3>2. k[i] = h[i - n] /\ k[i - 1] = h[(i - n) - 1] /\ st[i] = t[i - n]
        BY <1>3, <1>5, <3>1
      <3> QED
        BY <1>4, <3>1, <3>2
    <2> QED
      BY <1>3, <2>1, <2>2
  <1>8. ASSUME NEW i \in 0 .. n + m
        PROVE  k[i] \in {-1, 0, 1}
    <2>1. CASE i <= n
      <3>1. i \in 0 .. n
        BY <1>3, <2>1
      <3> QED
        BY <1>4, <1>5, <3>1
    <2>2. CASE i > n
      <3>1. i \in n .. n + m /\ i - n \in 0 .. m
        BY <1>3, <2>2
      <3> QED
        BY <1>4, <1>5, <3>1
    <2> QED
      BY <1>3, <2>1, <2>2
  <1>9. Goes(k, st, p, a, c)
    BY <1>3, <1>6, <1>7, <1>8 DEF Goes
  <1> QED
    BY <1>9 DEF Leads, st

\* Events that are no signal for p lead nowhere.
LEMMA LeadsNowhere ==
  ASSUME NEW s \in Seq(Event), NEW p, NEW side \in {-1, 0, 1},
         \A i \in 1 .. Len(s) : s[i].type # "SIGNAL" \/ s[i].pair # p
  PROVE  Leads(s, p, side, side)
  <1> DEFINE g == [i \in 0 .. Len(s) |-> side]
  <1>1. Len(s) \in Nat
    OBVIOUS
  <1>2. \A i \in 0 .. Len(s) : g[i] = side
    OBVIOUS
  <1> HIDE DEF g
  <1>3. \A i \in 1 .. Len(s) : g[i] = Executed(g[i - 1], s[i], p)
    BY <1>1, <1>2 DEF Executed
  <1>4. g[0] = side /\ g[Len(s)] = side /\ \A i \in 0 .. Len(s) : g[i] \in {-1, 0, 1}
    <2>1. 0 \in 0 .. Len(s) /\ Len(s) \in 0 .. Len(s)
      BY <1>1
    <2>2. \A i \in 0 .. Len(s) : g[i] \in {-1, 0, 1}
      BY <1>2
    <2> QED
      BY <1>2, <2>1, <2>2
  <1>5. Goes(g, s, p, side, side)
    BY <1>3, <1>4 DEF Goes
  <1> QED
    BY <1>5 DEF Leads

\* After the first event the rest still leads there.
LEMMA LeadsTail ==
  ASSUME NEW s \in Seq(Event), s # <<>>, NEW p, NEW from, NEW to, Leads(s, p, from, to)
  PROVE  /\ Executed(from, Head(s), p) \in {-1, 0, 1}
         /\ Leads(Tail(s), p, Executed(from, Head(s), p), to)
  <1> DEFINE n == Len(s)
  <1>1. PICK g : Goes(g, s, p, from, to)
    BY DEF Leads
  <1>2. /\ n \in Nat \ {0} /\ Head(s) = s[1] /\ Len(Tail(s)) = n - 1
        /\ \A i \in 1 .. n - 1 : Tail(s)[i] = s[i + 1]
    OBVIOUS
  <1> DEFINE h == [i \in 0 .. n - 1 |-> g[i + 1]]
  <1>3. /\ g[0] = from /\ g[n] = to
        /\ \A i \in 1 .. n : g[i] = Executed(g[i - 1], s[i], p)
        /\ \A i \in 0 .. n : g[i] \in {-1, 0, 1}
    BY <1>1 DEF Goes
  <1> HIDE DEF n
  <1>4. \A i \in 0 .. n - 1 : h[i] = g[i + 1] /\ i + 1 \in 0 .. n
    BY <1>2
  <1> HIDE DEF h
  <1>5. h[0] = Executed(from, Head(s), p) /\ h[n - 1] = to
    BY <1>2, <1>3, <1>4
  <1>6. ASSUME NEW i \in 1 .. n - 1
        PROVE  h[i] = Executed(h[i - 1], Tail(s)[i], p)
    <2>1. /\ i \in 0 .. n - 1 /\ i - 1 \in 0 .. n - 1 /\ i + 1 \in 1 .. n
          /\ (i - 1) + 1 = i /\ (i + 1) - 1 = i
      BY <1>2
    <2> QED
      BY <1>2, <1>3, <1>4, <2>1
  <1>7. \A i \in 0 .. n - 1 : h[i] \in {-1, 0, 1}
    BY <1>3, <1>4
  <1>8. 0 \in 0 .. n - 1
    BY <1>2
  <1>9. Goes(h, Tail(s), p, Executed(from, Head(s), p), to)
    BY <1>2, <1>5, <1>6, <1>7 DEF Goes
  <1> QED
    BY <1>5, <1>7, <1>8, <1>9 DEF Leads

LEMMA ExecutedTurns ==
  /\ \A side, e, p : e.type # "SIGNAL" \/ e.pair # p => Executed(side, e, p) = side
  /\ \A side, e, p : e.type = "SIGNAL" /\ e.pair = p => Executed(side, e, p) = Turn(side, e.side)
  BY DEF Executed, Turn, SideOf

\* The signals that a rule-based strategy puts lead from what it believed to what it
\* believes now.
LEMMA PutLeads ==
  ASSUME NEW p \in Pair, NEW flags, NEW acc, Sound(flags, acc), NEW s \in Seq(Event),
         Len(s) = Len(acc.out),
         \A i \in 1 .. Len(s) : s[i].type = "SIGNAL" /\ s[i].pair = p /\ s[i].side = acc.out[i]
  PROVE  Leads(s, p, Believed(flags), Believed(acc.flags))
  <1>1. PICK d : Walks(d, Believed(flags), acc.out) /\ d[Len(acc.out)] = Believed(acc.flags)
    BY DEF Sound
  <1>2. \A i \in 1 .. Len(s) : d[i] = Executed(d[i - 1], s[i], p)
    BY <1>1, ExecutedTurns DEF Walks
  <1>3. Goes(d, s, p, Believed(flags), Believed(acc.flags))
    BY <1>1, <1>2 DEF Walks, Goes
  <1> QED
    BY <1>3 DEF Leads

-----------------------------------------------------------------------------
(* Signals and positions.                                                  *)

RuleRun == program = "backtest" /\ strategy \in DOMAIN RuleBased /\ phase = "running"

\* The signals under way take the position of p to what its flags say.
Led(p) == Leads(queue, p, positions[p].side, Believed(memory.flags[p]))

SignalInv ==
  /\ TypeInv
  /\ RuleRun => /\ queue \in Seq(Lot)
                /\ \A p \in Pair : /\ Led(p)
                                   /\ IsOpen(positions[p]) => positions[p].units = TradeUnits

LEMMA SignalMeans == SignalInv => SignalsMatchPosition
  <1> SUFFICES ASSUME SignalInv, RuleRun, NEW p \in Pair
               PROVE  LET after == Sides(queue, p, positions[p].side)
                          flag(name) == IF memory.flags[p][name] THEN 1 ELSE 0
                      IN  /\ after[Len(queue)] = flag("long") - flag("short")
                          /\ \A i \in 0 .. Len(queue) : after[i] \in {-1, 0, 1}
                          /\ IsOpen(positions[p]) => positions[p].units = TradeUnits
    BY DEF SignalsMatchPosition, RuleRun
  <1>1. Led(p) /\ (IsOpen(positions[p]) => positions[p].units = TradeUnits)
    BY DEF SignalInv
  <1>2. queue \in Seq(Event) /\ positions[p].side \in {-1, 0, 1}
    BY DEF SignalInv, TypeInv, QueueTyped, PortfolioTyped, PositionTyped
  <1> DEFINE after == Sides(queue, p, positions[p].side)
             b == Believed(memory.flags[p])
  <1>3. after[Len(queue)] = b /\ \A i \in 0 .. Len(queue) : after[i] \in {-1, 0, 1}
    <2>1. Leads(queue, p, positions[p].side, b)
      BY <1>1 DEF Led
    <2> HIDE DEF b
    <2> QED
      BY <1>2, <2>1, SidesLead
  <1>4. b = (IF memory.flags[p]["long"] THEN 1 ELSE 0) - (IF memory.flags[p]["short"] THEN 1 ELSE 0)
    BY DEF Believed
  <1> HIDE DEF after, b
  <1> QED
    BY <1>1, <1>3, <1>4 DEF after

\* A row of ticks leads nowhere.
LEMMA RowLeads ==
  ASSUME SignalInv, TypeInv', StreamNextTick
  PROVE  SignalInv'
  <1>1. /\ queue = <<>> /\ UNCHANGED <<program, strategy, phase, positions, memory>> /\ TypeInv
    BY DEF StreamNextTick, portfolioVars, SignalInv
  <1>2. /\ Len(queue') = Ahead /\ Ahead \in Nat /\ queue' \in Seq(Event)
        /\ \A i \in 1 .. Ahead : queue'[i] = [type |-> "TICK", pair |-> Pairs[i]]
    BY <1>1, RowStreams, AheadTyped DEF TypeInv, QueueTyped
  <1>3. queue' \in Seq(Lot)
    <2>1. \A i \in 1 .. Len(queue') : queue'[i] \in Lot
      BY <1>2 DEF Lot
    <2> QED
      BY <1>2, <2>1
  <1>4. ASSUME RuleRun, NEW p \in Pair
        PROVE  Leads(queue', p, positions[p].side, Believed(memory.flags[p]))
    <2>1. positions[p].side \in {-1, 0, 1}
      BY <1>1 DEF TypeInv, PortfolioTyped, PositionTyped
    <2>2. positions[p].side = Believed(memory.flags[p])
      <3>1. Leads(<<>>, p, positions[p].side, Believed(memory.flags[p]))
        BY <1>1, <1>4 DEF SignalInv, Led
      <3> QED
        BY <3>1 DEF Leads, Goes
    <2>3. \A i \in 1 .. Len(queue') : queue'[i].type # "SIGNAL"
      BY <1>2
    <2>4. Leads(queue', p, positions[p].side, positions[p].side)
      BY <1>2, <2>1, <2>3, LeadsNowhere
    <2> QED
      BY <2>2, <2>4
  <1> QED
    BY <1>1, <1>3, <1>4 DEF SignalInv, RuleRun, Led

\* A tick: the strategy's signals for its pair follow those under way.
LEMMA TickLeads ==
  ASSUME SignalInv, TypeInv', HandleTick
  PROVE  SignalInv'
  <1> DEFINE q == Head(queue).pair
  <1>1. /\ TypeInv /\ queue # <<>> /\ Head(queue).type = "TICK" /\ queue \in Seq(Event)
        /\ UNCHANGED <<program, strategy, phase>>
    BY DEF HandleTick, SignalInv, TypeInv, QueueTyped
  <1> SUFFICES ASSUME RuleRun
               PROVE  /\ queue' \in Seq(Lot)
                      /\ \A p \in Pair : /\ Led(p)'
                                         /\ IsOpen(positions'[p]) => positions'[p].units = TradeUnits
    BY <1>1 DEF SignalInv, RuleRun
  <1>2. q \in Pair /\ Tail(queue) \in Seq(Event) /\ Tail(queue) \in Seq(Lot)
    <2>1. queue \in Seq(Lot)
      BY DEF SignalInv
    <2> QED
      BY <1>1, <2>1, HeadTyped, EventsTyped, LotsTaken DEF TypeInv
  <1>3. PICK o \in Outcomes(q) : queue' = Tail(queue) \o Put(q, o.out) /\ memory' = o.memory
    BY DEF HandleTick, Put
  <1>4. /\ SidesStay /\ UnitsStay
    <2>1. UpdatePortfolio(q)
      BY DEF HandleTick
    <2> QED
      BY <1>1, <2>1, UpdateStays DEF TypeInv, PortfolioTyped
  <1>5. memory \in Memory /\ strategy \in DOMAIN RuleBased /\ o \in RuleOutcomes(q)
    <2>1. strategy # "TestRandom" /\ strategy # "PortfolioAllocation"
      BY DEF RuleRun, RuleBased
    <2> QED
      BY <1>1, <2>1 DEF RuleRun, Outcomes, TypeInv
  <1> HIDE DEF q
  <1>6. PICK acc \in Accs :
          /\ Sound(memory.flags[q], acc)
          /\ o.memory.flags = [memory.flags EXCEPT ![q] = acc.flags]
          /\ o.out = [i \in 1 .. Len(acc.out) |-> [side |-> acc.out[i], units |-> TradeUnits]]
    BY <1>2, <1>5, RuleOutcome
  <1> DEFINE new == Put(q, o.out)
  <1>7. /\ new \in Seq(Event) /\ Len(new) = Len(acc.out)
        /\ \A i \in 1 .. Len(new) : /\ new[i].type = "SIGNAL" /\ new[i].pair = q
                                    /\ new[i].side = acc.out[i] /\ new[i].units = TradeUnits
    <2>1. acc.out \in Seq(BuySell)
      BY DEF Accs
    <2>2. /\ Len(acc.out) \in Nat /\ \A i \in 1 .. Len(acc.out) : acc.out[i] \in BuySell
      BY <2>1
    <2> DEFINE n == Len(acc.out)
    <2> HIDE DEF n
    <2>3. TradeUnits \in Nat
      BY LoopAssumption DEF LoopAssumption
    <2>4. DOMAIN o.out = 1 .. n /\ \A i \in 1 .. n : o.out[i].side = acc.out[i]
                                                   /\ o.out[i].units = TradeUnits
      BY <1>6, <2>2 DEF n
    <2>5. new = [i \in 1 .. n |-> [type |-> "SIGNAL", pair |-> q, side |-> acc.out[i],
                                   units |-> TradeUnits]]
      BY <2>4 DEF Put
    <2>6. \A i \in 1 .. n : [type |-> "SIGNAL", pair |-> q, side |-> acc.out[i],
                             units |-> TradeUnits] \in Event
      BY <1>2, <2>2, <2>3, EventsTyped DEF n
    <2> HIDE DEF new
    <2>7. new \in Seq(Event) /\ Len(new) = n
      BY <2>2, <2>5, <2>6 DEF n
    <2> QED
      BY <2>5, <2>7 DEF n
  <1>8. queue' = Tail(queue) \o new
    BY <1>3
  <1> HIDE DEF new
  <1>9. queue' \in Seq(Lot)
    <2>1. \A i \in 1 .. Len(new) : new[i] \in Lot
      BY <1>7 DEF Lot
    <2>2. new \in Seq(Lot)
      BY <1>7, <2>1
    <2> QED
      BY <1>2, <1>8, <2>2
  <1>10. ASSUME NEW p \in Pair
         PROVE  Led(p)'
    <2> DEFINE s == positions[p].side
               b == Believed(memory.flags[p])
               b2 == Believed(memory'.flags[p])
    <2>1. Leads(Tail(queue), p, s, b)
      <3>1. Leads(queue, p, s, b)
        BY DEF SignalInv, Led
      <3>2. Executed(s, Head(queue), p) = s
        BY <1>1, ExecutedTurns
      <3> HIDE DEF s, b
      <3> QED
        BY <1>1, <3>1, <3>2, LeadsTail
    <2>2. Leads(new, p, b, b2)
      <3>0. memory.flags \in [Pair -> Flags]
        BY <1>5 DEF Memory, Flags
      <3>1. CASE p = q
        <4>1. memory'.flags[p] = acc.flags
          BY <1>2, <1>3, <1>6, <3>0, <3>1
        <4>2. Leads(new, q, Believed(memory.flags[q]), Believed(acc.flags))
          BY <1>2, <1>6, <1>7, PutLeads
        <4> QED
          BY <3>1, <4>1, <4>2
      <3>2. CASE p # q
        <4>1. memory'.flags[p] = memory.flags[p] /\ b2 = b
          BY <1>2, <1>3, <1>6, <3>0, <3>2
        <4>2. memory.flags[p] \in Flags
          BY <3>0
        <4>3. b \in {-1, 0, 1}
          BY <4>2 DEF Believed, Flags
        <4> HIDE DEF b, b2
        <4>4. Leads(new, p, b, b)
          BY <1>7, <3>2, <4>3, LeadsNowhere
        <4> QED
          BY <4>1, <4>4
      <3> QED
        BY <3>1, <3>2
    <2>3. positions'[p].side = s
      BY <1>4 DEF SidesStay
    <2> HIDE DEF s, b, b2
    <2>4. Leads(queue', p, s, b2)
      BY <1>2, <1>7, <1>8, <2>1, <2>2, LeadsOn
    <2> QED
      BY <2>3, <2>4 DEF Led, b2
  <1>11. ASSUME NEW p \in Pair, IsOpen(positions'[p])
         PROVE  positions'[p].units = TradeUnits
    BY <1>4, <1>11 DEF SignalInv, SidesStay, UnitsStay, IsOpen
  <1> QED
    BY <1>9, <1>10, <1>11

\* A signal: it is the first on the way, and the position takes that step.
LEMMA SignalLeads ==
  ASSUME SignalInv, TypeInv', HandleSignal
  PROVE  SignalInv'
  <1> DEFINE e == Head(queue)
             q == e.pair
             ps == positions[q]
             f == [e EXCEPT !.type = "ORDER"]
  <1>1. /\ TypeInv /\ queue # <<>> /\ e.type = "SIGNAL" /\ queue \in Seq(Event)
        /\ UNCHANGED <<program, strategy, memory>>
    BY DEF HandleSignal, SignalInv, TypeInv, QueueTyped
  <1> SUFFICES ASSUME RuleRun, phase' = "running"
               PROVE  /\ queue' \in Seq(Lot)
                      /\ \A p \in Pair : /\ Led(p)'
                                         /\ IsOpen(positions'[p]) => positions'[p].units = TradeUnits
    <2>1. RuleRun' => RuleRun
      BY <1>1 DEF RuleRun, HandleSignal, InBacktest
    <2> QED
      BY <1>1, <2>1 DEF SignalInv, RuleRun
  <1>2. /\ e \in Event /\ q \in Pair /\ e.units = TradeUnits /\ e.side \in BuySell
        /\ Tail(queue) \in Seq(Event) /\ Tail(queue) \in Seq(Lot)
        /\ f \in Event /\ f \in Lot /\ f.type = "ORDER"
    <2>1. queue \in Seq(Lot)
      BY DEF SignalInv
    <2>2. e \in Lot /\ e \in Event /\ Tail(queue) \in Seq(Lot) /\ Tail(queue) \in Seq(Event)
      BY <1>1, <2>1, LotsTaken
    <2>3. e.units = TradeUnits
      BY <1>1, <2>2 DEF Lot
    <2>4. f \in Event /\ f.type = "ORDER" /\ f.units = e.units /\ q \in Pair /\ e.side \in BuySell
      BY <1>1, <2>2, EventsTyped
    <2> QED
      BY <2>2, <2>3, <2>4 DEF Lot
  <1>3. /\ \/ ~IsOpen(ps) /\ Opens(q, SideOf(e), e.units)
           \/ IsOpen(ps) /\ ps.side = SideOf(e) /\ Grows(q, e.units)
           \/ IsOpen(ps) /\ ps.side # SideOf(e) /\ Closes(q, ps)
        /\ queue' = Append(Tail(queue), f)
    BY DEF HandleSignal, RuleRun
  <1>4. /\ Formed /\ \A p \in Pair : positions[p].side \in {-1, 0, 1}
    BY <1>1 DEF TypeInv, PortfolioTyped, PositionTyped
  <1> HIDE DEF e, q, f
  <1>5. /\ \A p \in Pair : Executed(positions[p].side, e, p) \in {-1, 0, 1}
        /\ \A p \in Pair : Leads(Tail(queue), p, Executed(positions[p].side, e, p),
                                 Believed(memory.flags[p]))
    BY <1>1, LeadsTail DEF SignalInv, Led, e
  <1>6. \A p \in Pair : /\ positions'[p].side = Executed(positions[p].side, e, p)
                        /\ IsOpen(positions'[p]) => positions'[p].units = TradeUnits
    <2>1. /\ Executed(ps.side, e, q) = IF ps.side = 0 THEN SideOf(e)
                                       ELSE IF ps.side = SideOf(e) THEN 2 * ps.side ELSE 0
          /\ Executed(ps.side, e, q) \in {-1, 0, 1}
          /\ \A p \in Pair : p # q => Executed(positions[p].side, e, p) = positions[p].side
          /\ \A p \in Pair : IsOpen(positions[p]) => positions[p].units = TradeUnits
      <3>1. e.type = "SIGNAL" /\ e.pair = q
        BY <1>1 DEF q
      <3>2. Executed(ps.side, e, q) = IF ps.side = 0 THEN SideOf(e)
                                      ELSE IF ps.side = SideOf(e) THEN 2 * ps.side ELSE 0
        BY <3>1 DEF Executed
      <3>3. Executed(ps.side, e, q) \in {-1, 0, 1}
        BY <1>2, <1>5
      <3>4. \A p \in Pair : p # q => Executed(positions[p].side, e, p) = positions[p].side
        BY <3>1 DEF Executed
      <3>5. \A p \in Pair : IsOpen(positions[p]) => positions[p].units = TradeUnits
        BY DEF SignalInv
      <3> QED
        BY <3>2, <3>3, <3>4, <3>5
    <2>2. CASE ~IsOpen(ps) /\ Opens(q, SideOf(e), e.units)
      <3>1. Becomes(q, SideOf(e), e.units)
        BY <1>2, <1>4, <2>2, OpensBecomes
      <3>2. SideOf(e) = Executed(ps.side, e, q)
        BY <2>1, <2>2 DEF IsOpen
      <3>3. SideOf(e) # 0 => e.units = TradeUnits
        BY <1>2
      <3> QED
        BY <2>1, <3>1, <3>2, <3>3 DEF Becomes, IsOpen
    <2>3. CASE IsOpen(ps) /\ ps.side = SideOf(e) /\ Grows(q, e.units)
      <3>1. ps.side \in {-1, 1}
        BY <1>2, <1>4, <2>3 DEF IsOpen
      <3> QED
        BY <2>1, <2>3, <3>1
    <2>4. CASE IsOpen(ps) /\ ps.side # SideOf(e) /\ Closes(q, ps)
      <3>1. Becomes(q, 0, 0)
        BY <1>2, <1>4, <2>4, ClosesBecomes
      <3>2. 0 = Executed(ps.side, e, q)
        BY <2>1, <2>4 DEF IsOpen
      <3>3. 0 # 0 => 0 = TradeUnits
        OBVIOUS
      <3> QED
        BY <2>1, <3>1, <3>2, <3>3 DEF Becomes, IsOpen
    <2> QED
      BY <1>3, <2>2, <2>3, <2>4
  <1>7. queue' \in Seq(Lot)
    BY <1>2, <1>3
  <1>8. ASSUME NEW p \in Pair
        PROVE  Led(p)'
    <2> DEFINE s == Executed(positions[p].side, e, p)
               b == Believed(memory.flags[p])
    <2>1. Leads(Tail(queue), p, s, b)
      BY <1>5
    <2>2. Leads(<<f>>, p, b, b)
      <3>1. <<f>> \in Seq(Event) /\ \A i \in 1 .. Len(<<f>>) : <<f>>[i].type # "SIGNAL"
        BY <1>2
      <3>2. memory.flags[p] \in Flags
        BY <1>1 DEF TypeInv, Memory, Flags
      <3>3. b \in {-1, 0, 1}
        BY <3>2 DEF Believed, Flags
      <3> HIDE DEF b
      <3> QED
        BY <3>1, <3>3, LeadsNowhere
    <2>3. positions'[p].side = s /\ memory' = memory
      BY <1>1, <1>6
    <2> HIDE DEF s, b
    <2>4. queue' = Tail(queue) \o <<f>> /\ <<f>> \in Seq(Event)
      BY <1>1, <1>2, <1>3
    <2>5. Leads(queue', p, s, b)
      BY <1>2, <2>1, <2>2, <2>4, LeadsOn
    <2> QED
      BY <2>3, <2>5 DEF Led, b
  <1> QED
    BY <1>6, <1>7, <1>8

LEMMA OrderLeads ==
  ASSUME SignalInv, TypeInv', HandleOrder
  PROVE  SignalInv'
  <1>1. /\ TypeInv /\ queue # <<>> /\ Head(queue).type = "ORDER" /\ queue \in Seq(Event)
        /\ queue' = Tail(queue) /\ UNCHANGED <<program, strategy, phase, positions, memory>>
    BY DEF HandleOrder, SignalInv, TypeInv, QueueTyped, portfolioVars
  <1>2. ASSUME RuleRun, NEW p \in Pair
        PROVE  Led(p)'
    <2>1. Leads(queue, p, positions[p].side, Believed(memory.flags[p]))
      BY <1>2 DEF SignalInv, Led
    <2>2. Executed(positions[p].side, Head(queue), p) = positions[p].side
      BY <1>1, ExecutedTurns
    <2>3. Leads(Tail(queue), p, positions[p].side, Believed(memory.flags[p]))
      BY <1>1, <2>1, <2>2, LeadsTail
    <2> QED
      BY <1>1, <2>3 DEF Led
  <1>3. RuleRun => queue' \in Seq(Lot)
    BY <1>1, LotsTaken DEF SignalInv
  <1> QED
    BY <1>1, <1>2, <1>3 DEF SignalInv, RuleRun

LEMMA SignalInit == Init => SignalInv
  <1> SUFFICES ASSUME Init
               PROVE  SignalInv
    OBVIOUS
  <1>1. TypeInv /\ queue = <<>> /\ <<>> \in Seq(Lot) /\ <<>> \in Seq(Event)
    BY TypeInit DEF Init
  <1>2. ASSUME NEW p \in Pair
        PROVE  Led(p) /\ ~IsOpen(positions[p])
    <2>1. positions[p].side = 0 /\ memory.flags[p] = [long |-> FALSE, short |-> FALSE]
      BY DEF Init, PortfolioInit, StrategyInit, Flat
    <2>2. Believed(memory.flags[p]) = 0
      <3>1. ~memory.flags[p].long /\ ~memory.flags[p].short
        BY <2>1
      <3> QED
        BY <3>1 DEF Believed
    <2>3. Leads(<<>>, p, 0, 0)
      <3> DEFINE none == <<>>
      <3>1. none \in Seq(Event) /\ Len(none) = 0 /\ 0 \in {-1, 0, 1}
        BY <1>1
      <3> HIDE DEF none
      <3>2. \A i \in 1 .. Len(none) : none[i].type # "SIGNAL" \/ none[i].pair # p
        BY <3>1
      <3>3. Leads(none, p, 0, 0)
        BY <3>1, <3>2, LeadsNowhere
      <3> QED
        BY <3>3 DEF none
    <2> QED
      BY <1>1, <2>1, <2>2, <2>3 DEF Led, IsOpen
  <1> QED
    BY <1>1, <1>2 DEF SignalInv

LEMMA SignalNext == SignalInv /\ [Next]_vars => SignalInv'
  <1> SUFFICES ASSUME SignalInv, [Next]_vars
               PROVE  SignalInv'
    OBVIOUS
  <1>1. TypeInv'
    BY TypeNext DEF SignalInv
  <1>2. CASE StreamNextTick
    BY <1>1, <1>2, RowLeads
  <1>3. CASE HandleTick
    BY <1>1, <1>3, TickLeads
  <1>4. CASE HandleSignal
    BY <1>1, <1>4, SignalLeads
  <1>5. CASE HandleOrder
    BY <1>1, <1>5, OrderLeads
  <1>6. CASE EndBacktest
    <2>1. phase' # "running"
      BY <1>6 DEF EndBacktest, CloseAll, Verdict
    <2> QED
      BY <1>1, <2>1 DEF SignalInv, RuleRun
  <1>7. CASE LiveStep
    <2>1. program' = "live"
      BY <1>7 DEF LiveStep, LiveFrame, InLive, Hear, WriteQuote, PutTick, LiveTick, LivePut,
                  LiveUpdate, LiveSignal, LiveOrder
    <2> QED
      BY <1>1, <2>1 DEF SignalInv, RuleRun
  <1>8. CASE UNCHANGED vars
    <2>1. UNCHANGED <<program, strategy, phase, queue, positions, memory>>
      BY <1>8 DEF vars, portfolioVars
    <2> QED
      BY <1>1, <2>1 DEF SignalInv, RuleRun, Led
  <1> QED
    BY <1>2, <1>3, <1>4, <1>5, <1>6, <1>7, <1>8 DEF Next, BacktestStep

(* The flags of the four rule-based strategies are right although nobody    *)
(* ever compares them with the portfolio: the signals under way take every  *)
(* position to long minus short without ever adding to it, for any number   *)
(* of pairs, any prices and any order in which the indicators' conditions   *)
(* come true.                                                               *)
THEOREM SignalsMatch == Spec => []SignalsMatchPosition
  BY SignalInit, SignalNext, SignalMeans, PTL DEF Spec
=============================================================================
