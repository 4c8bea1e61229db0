---------------------------- MODULE OandaAccount ----------------------------
(***************************************************************************)
(* The account wrapper of broker/oanda: account.py, order.py, trade.py and *)
(* position.py. It keeps caches of the account's pending orders, its open  *)
(* trades, its positions and its last transactions, and brings them up to  *)
(* date with pull(), which asks the server for everything that changed     *)
(* since a transaction id. Some calls pull after what they did, some       *)
(* change a cache themselves, some do nothing about it.                    *)
(*                                                                         *)
(* orders and trades are attributes of the class (base.py): all wrappers   *)
(* of a process share the two caches, while each has its own positions,    *)
(* transactions and last transaction id. The singleton of the streaming    *)
(* program and the wrapper of OandaV20Portfolio are two of them.           *)
(*                                                                         *)
(* The server is external: a log of transactions, each with the items it   *)
(* changes and whether they live on: an order that is filled, triggered or *)
(* cancelled has ended, a trade that is reduced has not. An item is cached *)
(* as the number of the transaction that made it what the cache shows, or  *)
(* 0 when it is not cached. Between two requests the market may move.      *)
(*                                                                         *)
(* The constructor fills the shared caches and then makes one more request *)
(* (list_instruments). When that raises there is no wrapper, and the next  *)
(* attempt (utils/singleton.py keeps nothing of a failed one) finds what   *)
(* it left, also what has ended in the meantime.                           *)
(***************************************************************************)
EXTENDS Integers, Sequences, FiniteSets, SequencesExt, FiniteSetsExt

CONSTANTS
  Wrappers,     \* the objects of class OANDA in the process, for one account
  Orders, Trades,
  Depth,        \* transaction_cache_depth
  History,      \* the server's transactions when the program starts
  MaxTx         \* bound: transactions of the server

Position == "position"
Item == Orders \cup Trades \cup {Position}

\* What a transaction says of the items it changes.
Transaction == UNION {[S -> {"lives", "ended"}] : S \in SUBSET Item}

ASSUME AccountAssumption ==
  /\ Orders \cap Trades = {}
  /\ IsFiniteSet(Orders) /\ IsFiniteSet(Trades)
  /\ {Depth, MaxTx} \subseteq Nat
  /\ History \in Seq(Transaction)

VARIABLES
  log,          \* the server's transactions
  cache,        \* orders and trades, shared
  position,     \* positions, of each wrapper; one instrument
  last,         \* details.lastTransactionID; NotBuilt before the constructor
  transactions, \* the cached transactions, by id
  client,       \* the call that is under way
  failed,       \* the wrappers that had a pull fail half-way
  strays        \* what failed constructors cached while there was no wrapper; once
                \* there is one, what of it had ended by then

vars == <<log, cache, position, last, transactions, client, failed, strays>>

NotBuilt == -1
Idle == [at |-> "idle"]

\* The last transaction up to the n-th that changed i, 0 if none did.
Version(i, n) == Max({0} \cup {k \in 1 .. n : i \in DOMAIN log[k]})
Alive(i, k) == k > 0 /\ log[k][i] = "lives"
Now == Len(log)
Server(i) == Version(i, Now)
Live(S) == {i \in S : Alive(i, Server(i))}
New(S) == {i \in S : Server(i) = 0}
Built == {a \in Wrappers : last[a] # NotBuilt}

Client ==
  [at : {"idle"}]
    \cup [at : {"dealt"}, who : Wrappers, deal : SUBSET Item]
    \cup [at : {"states"}, who : Wrappers, deal : SUBSET Item,
          to : 0 .. Now, todo : Seq(Orders \cup Trades)]

(* The caches hold transactions of the server, and not too many.           *)
TypeOK ==
  /\ log \in Seq(Transaction)
  /\ cache \in [Orders \cup Trades -> 0 .. Now]
  /\ position \in [Wrappers -> 0 .. Now]
  /\ last \in [Wrappers -> NotBuilt .. Now]
  /\ transactions \in [Wrappers -> Seq(1 .. Now)]
  /\ \A a \in Wrappers : Len(transactions[a]) <= Depth
  /\ client \in Client
  /\ failed \subseteq Wrappers
  /\ strays \subseteq Orders \cup Trades

Init ==
  /\ log = History
  /\ cache = [i \in Orders \cup Trades |-> 0]
  /\ position = [a \in Wrappers |-> 0]
  /\ last = [a \in Wrappers |-> NotBuilt]
  /\ transactions = [a \in Wrappers |-> <<>>]
  /\ client = Idle
  /\ failed = {}
  /\ strays = {}

-----------------------------------------------------------------------------
(* The server.                                                             *)

Happens(txs) ==
  /\ Len(log) + Len(txs) <= MaxTx
  /\ log' = log \o txs

\* An order is created; an order ends without a fill, or by one; a trade is opened,
\* reduced or closed.
Created(o) == [i \in {o} |-> "lives"]
Ended(o) == [i \in {o} |-> "ended"]
TradeTx(t, then) == [i \in {t, Position} |-> IF i = t THEN then ELSE "lives"]
Filled(o, fill) == [i \in {o} \cup DOMAIN fill |-> IF i = o THEN "ended" ELSE fill[i]]

\* What a fill does: it opens a trade, or reduces or closes one.
Fills == {TradeTx(t, "lives") : t \in New(Trades)}
           \cup {TradeTx(t, then) : t \in Live(Trades), then \in {"lives", "ended"}}
Opens(fill) == \E t \in New(Trades) : t \in DOMAIN fill

\* Fills, expiries, stop losses, and what the trader does elsewhere.
MarketMoves ==
  /\ \/ \E o \in Live(Orders) :
          \/ \E fill \in Fills : Happens(<<Filled(o, fill)>>)
          \/ Happens(<<Ended(o)>>)
     \/ \E o \in New(Orders) : Happens(<<Created(o)>>)
     \/ \E t \in Live(Trades), then \in {"lives", "ended"} : Happens(<<TradeTx(t, then)>>)
  /\ UNCHANGED <<cache, position, last, transactions, client, failed, strays>>

-----------------------------------------------------------------------------
(* Calls that make one request.                                            *)

Free == client = Idle /\ Built # {}

\* What the server returns is put into the cache, ended orders and trades too.
Got(found) == [i \in DOMAIN cache |-> IF i \in found THEN Server(i) ELSE cache[i]]

\* The constructor: the account's pending orders and open trades are added to the
\* caches, which keep whatever another wrapper, or an attempt that failed, has put
\* there. It does not remove what has ended.
Construct(a) ==
  /\ client = Idle /\ last[a] = NotBuilt
  /\ cache' = Got(Live(DOMAIN cache))
  /\ position' = [position EXCEPT ![a] = Server(Position)]
  /\ last' = [last EXCEPT ![a] = Now]
  /\ strays' = IF Built = {} THEN strays \ Live(DOMAIN cache) ELSE strays
  /\ UNCHANGED <<log, transactions, client, failed>>

\* list_instruments or the leverage raises: the object is lost, the caches are not.
ConstructFails(a) ==
  /\ client = Idle /\ last[a] = NotBuilt
  /\ cache' = Got(Live(DOMAIN cache))
  /\ strays' = IF Built = {} THEN strays \cup Live(DOMAIN cache) ELSE strays
  /\ UNCHANGED <<log, position, last, transactions, client, failed>>

\* What list_order, list_pending_order and get_order may return, and list_trade,
\* list_open_trade and get_trade (which close_trade calls for a close in percent).
OrdersFound == {{o} : o \in Orders} \cup {Orders, Live(Orders)}
TradesFound == {{t} : t \in Trades} \cup {Trades, Live(Trades)}

Lookup ==
  /\ Free
  /\ \E found \in OrdersFound \cup TradesFound : cache' = Got(found)
  /\ UNCHANGED <<log, position, last, transactions, client, failed, strays>>

\* pull_position, list_all_positions, list_open_positions.
PullPosition ==
  /\ Free
  /\ \E a \in Built : position' = [position EXCEPT ![a] = Server(Position)]
  /\ UNCHANGED <<log, cache, last, transactions, client, failed, strays>>

\* What transactions change.
Changed(txs) == UNION {DOMAIN txs[k] : k \in DOMAIN txs}

\* A request of wrapper a for transactions, and whether a pull follows.
Deals(a, txs, pulls) ==
  /\ Happens(txs)
  /\ client' = IF pulls THEN [at |-> "dealt", who |-> a, deal |-> Changed(txs)] ELSE Idle

\* An order may be placed anew or in the place of one that waits.
Replaced == {<<>>} \cup {<<Ended(r)>> : r \in Live(Orders)}

\* limit_order, stop_order, market_order, market_if_touched. The order waits, is
\* filled or is cancelled at once; a market order does not wait and replaces nothing.
\* _process_order_response pulls for a limit or stop order that was created and for
\* a trade that was opened, but not for a fill that reduces a trade.
PlaceOrder(a) ==
  /\ Free /\ a \in Built
  /\ \E type \in {"LIMIT_OR_STOP", "MARKET", "IF_TOUCHED"}, o \in New(Orders), replaced \in Replaced :
       /\ type = "MARKET" => replaced = <<>>
       /\ LET create == replaced \o <<Created(o)>>
          IN  \/ type # "MARKET" /\ Deals(a, create, type = "LIMIT_OR_STOP")
              \/ Deals(a, create \o <<Ended(o)>>, type = "LIMIT_OR_STOP")
              \/ \E fill \in Fills :
                   Deals(a, create \o <<Filled(o, fill)>>, type = "LIMIT_OR_STOP" \/ Opens(fill))
  /\ UNCHANGED <<cache, position, last, transactions, failed, strays>>

\* take_profit, stop_loss, trailing_stop_loss: an order to close a trade, which is
\* looked up when it is not cached. It is pulled for by none of them, also when the
\* price is there already and the order ends the trade at once.
PlaceExit ==
  /\ Free
  /\ \E t \in Live(Trades), o \in New(Orders), replaced \in Replaced :
       /\ cache' = IF cache[t] = 0 THEN Got({t}) ELSE cache
       /\ LET create == replaced \o <<Created(o)>>
          IN  \/ Happens(create)
              \/ Happens(create \o <<Ended(o)>>)
              \/ Happens(create \o <<Filled(o, TradeTx(t, "ended"))>>)
  /\ UNCHANGED <<position, last, transactions, client, failed, strays>>

\* cancel_order; a rejected one raises. cancel_pending_order does this for the first
\* order that is pending in the cache: having removed it from the dictionary it is
\* going through, it raises.
CancelOrder ==
  /\ Free
  /\ \E o \in Live(Orders) : /\ Happens(<<Ended(o)>>)
                             /\ cache' = [cache EXCEPT ![o] = 0]
  /\ UNCHANGED <<position, last, transactions, client, failed, strays>>

\* close_trade pulls when the trade is closed, not when it is reduced.
CloseTrade(a) ==
  /\ Free /\ a \in Built
  /\ \E t \in Live(Trades), then \in {"lives", "ended"} :
       Deals(a, <<TradeTx(t, then)>>, then = "ended")
  /\ UNCHANGED <<cache, position, last, transactions, failed, strays>>

\* close_position: the server closes every trade; then printing the parts of the
\* response raises, so close_all_position stops after its first instrument.
ClosePosition ==
  /\ Free /\ Live(Trades) # {}
  /\ Happens(<<[i \in Live(Trades) \cup {Position} |-> IF i = Position THEN "lives" ELSE "ended"]>>)
  /\ UNCHANGED <<cache, position, last, transactions, client, failed, strays>>

-----------------------------------------------------------------------------
(* pull.                                                                   *)

\* A mutant of Applied: what ended is removed before what began is added.
AppliedSwapped(i, since) ==
  LET changes == {k \in since + 1 .. Now : i \in DOMAIN log[k] /\ Alive(i, k)}
  IN  IF Server(i) <= since THEN cache[i] ELSE Max({0} \cup changes)

\* apply_changes for one order or trade: created, then reduced, then removed.
Applied(i, since) ==
  IF Server(i) <= since THEN cache[i]
  ELSE IF Alive(i, Server(i)) THEN Server(i) ELSE 0

\* A mutant of Trim: one transaction is dropped, however many came.
TrimOnce(s) == IF Len(s) > Depth THEN Tail(s) ELSE s

\* The oldest transaction is dropped for each one too many.
Trim(s) == SubSeq(s, Max({1, Len(s) - Depth + 1}), Len(s))

\* The request for the changes, and apply_changes. What follows are requests for
\* every trade and every order that was open when the server answered.
RequestChanges(a, deal) ==
  /\ cache' = [i \in DOMAIN cache |-> Applied(i, last[a])]
  /\ position' = [position EXCEPT ![a] =
       IF Server(Position) > last[a] THEN Server(Position) ELSE @]
  /\ transactions' = [transactions EXCEPT ![a] =
       Trim(@ \o [k \in 1 .. Now - last[a] |-> last[a] + k])]
  /\ client' = [at |-> "states", who |-> a, to |-> Now, deal |-> deal,
                todo |-> SetToSeq(Live(Trades)) \o SetToSeq(Live(Orders))]
  /\ UNCHANGED <<log, last, failed, strays>>

Pull ==
  \/ Free /\ \E a \in Built : RequestChanges(a, {})
  \/ client.at = "dealt" /\ RequestChanges(client.who, client.deal)

\* get_trade or get_order of apply_state: the object as it is by now, or nothing when
\* the server answers with an error.
FetchState ==
  /\ client.at = "states" /\ client.todo # <<>>
  /\ LET i == Head(client.todo)
     IN  \/ cache' = Got({i})
         \/ UNCHANGED cache
  /\ client' = [client EXCEPT !.todo = Tail(@)]
  /\ UNCHANGED <<log, position, last, transactions, failed, strays>>

\* A mutant of NewLast: the id is asked for again.
NewLastAsked(to) == Now

\* The lastTransactionID that came with the changes.
NewLast(to) == to

EndPull ==
  /\ client.at = "states" /\ client.todo = <<>>
  /\ last' = [last EXCEPT ![client.who] = NewLast(client.to)]
  /\ client' = Idle
  /\ UNCHANGED <<log, cache, position, transactions, failed, strays>>

\* A request raises: of the changes, or of a state when the changes have been applied.
PullFails ==
  /\ client.at \in {"dealt", "states"}
  /\ failed' = IF client.at = "states" THEN failed \cup {client.who} ELSE failed
  /\ client' = Idle
  /\ UNCHANGED <<log, cache, position, last, transactions, strays>>

Next ==
  \/ MarketMoves
  \/ \E a \in Wrappers : Construct(a) \/ ConstructFails(a) \/ PlaceOrder(a) \/ CloseTrade(a)
  \/ Lookup \/ PullPosition \/ PlaceExit \/ CancelOrder \/ ClosePosition
  \/ Pull \/ FetchState \/ EndPull \/ PullFails

Spec == Init /\ [][Next]_vars

-----------------------------------------------------------------------------
(* Properties.                                                             *)

(* The caches lag behind the server only by what happened after the last    *)
(* transaction id, whatever the mixture of pulls, failed pulls, lookups and *)
(* own changes. An order or trade that lives on the server is cached as it  *)
(* is, or changed after the id of every wrapper. One that has ended and is  *)
(* still shown as living ended after the id of some wrapper: not of every   *)
(* one, because a wrapper that is built later does not remove it. The one   *)
(* exception is a stray, which a failed constructor cached and which ended  *)
(* before there was a wrapper: no id is behind its end, so that no pull     *)
(* will ever remove it. Positions go by the id of their own wrapper.        *)
StaleOnlyAhead ==
  /\ \A i \in DOMAIN cache, a \in Built :
       Alive(i, Server(i)) /\ cache[i] # Server(i) => Server(i) > last[a]
  /\ \A i \in DOMAIN cache :
       ~Alive(i, Server(i)) /\ Alive(i, cache[i]) =>
         i \in strays \/ \E a \in Built : Server(i) > last[a]
  /\ \A a \in Built : position[a] # Server(Position) => Server(Position) > last[a]

(* A wrapper whose pulls never failed half-way caches its last transactions  *)
(* since it was built without a gap and without a repetition, up to its id   *)
(* or, while a pull is under way, up to what that pull has applied. (One     *)
(* whose pull failed gets the same transactions again, and loses older ones.) *)
TransactionsKept ==
  \A a \in Built \ failed :
    LET seen == IF client.at = "states" /\ client.who = a THEN client.to ELSE last[a]
        kept == transactions[a]
    IN  kept = [k \in DOMAIN kept |-> seen - Len(kept) + k]

(* A call that pulls because of its own deal has all of it in the caches      *)
(* before it returns, however the market moves meanwhile: the order, the one  *)
(* it replaced, the trades that were opened, reduced or closed, the position. *)
(* An order or trade that was gone when the server answered is not cached     *)
(* (the tests of broker/oanda expect that of a closed trade), one that was    *)
(* open is, at least as new.                                                  *)
OwnDealsSeen ==
  client.at = "states" =>
    /\ \A i \in client.deal \cap DOMAIN cache :
         LET then == Version(i, client.to)
         IN  IF Alive(i, then) THEN cache[i] >= then ELSE cache[i] = 0
    /\ Position \in client.deal => position[client.who] >= Version(Position, client.to)
=============================================================================
