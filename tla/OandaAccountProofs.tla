------------------------- MODULE OandaAccountProofs -------------------------
(***************************************************************************)
(* Theorems of OandaAccount: whatever the mixture of pulls, failed pulls,  *)
(* lookups and own changes, the caches of broker/oanda lag behind the      *)
(* server only by what came after a last transaction id and by what failed *)
(* constructors left, the cached transactions have no gap, and a call that *)
(* pulls sees its own deal. For any number of wrappers, orders, trades and *)
(* transactions.                                                           *)
(***************************************************************************)
EXTENDS OandaAccount, WellFoundedInduction, SequenceTheorems, FiniteSetTheorems, TLAPS

(* A non-empty bounded set of numbers has a maximum.                       *)
LEMMA MaxExists ==
  ASSUME NEW n \in Nat, NEW S \in SUBSET (0 .. n), S # {}
  PROVE  /\ Max(S) \in S
         /\ \A x \in S : x <= Max(S)
<1> DEFINE T == {n - x : x \in S}
<1>1. T \subseteq Nat
  <2> SUFFICES ASSUME NEW x \in S PROVE n - x \in Nat
    OBVIOUS
  <2>1. x \in 0 .. n
    OBVIOUS
  <2> QED  BY <2>1
<1>2. T # {}
  OBVIOUS
<1>3. \E t \in T : \A u \in T : <<u, t>> \notin OpToRel(<, Nat)
  <2> HIDE DEF T
  <2> QED  BY <1>1, <1>2, NatLessThanWellFounded, WFMin
<1>4. \E x \in S : \A y \in S : x >= y
  <2>1. PICK t \in T : \A u \in T : <<u, t>> \notin OpToRel(<, Nat)
    BY <1>3
  <2>2. \A u \in T : ~(u < t)
    BY <2>1, <1>1 DEF OpToRel
  <2> QED  BY <2>2
<1> QED  BY <1>4 DEF Max

-----------------------------------------------------------------------------
(* The log of the server.                                                  *)

(* The last transaction up to the n-th that changed i is one of those that *)
(* did, or 0, and none that did comes after it.                            *)
IsVersion(i, n) ==
  /\ Version(i, n) \in 0 .. n
  /\ Version(i, n) > 0 => i \in DOMAIN log[Version(i, n)]
  /\ \A k \in 1 .. n : i \in DOMAIN log[k] => k <= Version(i, n)

LEMMA VersionProperties == \A i : \A n \in Nat : IsVersion(i, n)
<1> SUFFICES ASSUME NEW i, NEW n \in Nat
             PROVE  IsVersion(i, n)
  OBVIOUS
<1> DEFINE S == {0} \cup {k \in 1 .. n : i \in DOMAIN log[k]}
<1>1. S \in SUBSET (0 .. n) /\ S # {}
  OBVIOUS
<1>2. Max(S) \in S /\ \A x \in S : x <= Max(S)
  <2> HIDE DEF S
  <2> QED  BY <1>1, MaxExists
<1> QED  BY <1>1, <1>2 DEF IsVersion, Version

LEMMA VersionPropertiesNext == (\A i : \A n \in Nat : IsVersion(i, n))'
BY VersionProperties, PTL

(* The server only ever adds to its log.                                   *)
Kept ==
  /\ log \in Seq(Transaction) /\ log' \in Seq(Transaction)
  /\ Now <= Now'
  /\ \A k \in 1 .. Now : log'[k] = log[k]

LEMMA VersionKept ==
  ASSUME Kept, NEW i, NEW n \in 0 .. Now
  PROVE  /\ Version(i, n)' = Version(i, n)
         /\ Alive(i, n)' = Alive(i, n)
<1>1. Now \in Nat
  BY DEF Kept, Now
<1>2. {k \in 1 .. n : i \in DOMAIN log'[k]} = {k \in 1 .. n : i \in DOMAIN log[k]}
  BY <1>1 DEF Kept
<1>3. n > 0 => log'[n] = log[n]
  BY <1>1 DEF Kept
<1> QED  BY <1>2, <1>3 DEF Version, Alive

(* What is not changed by the new transactions keeps its version.          *)
LEMMA ServerKept ==
  ASSUME Kept, NEW i
  PROVE  /\ Server(i) \in 0 .. Now /\ Server(i)' \in 0 .. Now'
         /\ Server(i)' = Server(i) \/ Server(i)' > Now
         /\ \A n \in 0 .. Now : Version(i, n) \in 0 .. n /\ Version(i, n) <= Server(i)
<1>1. Now \in Nat /\ Now' \in Nat /\ Now <= Now'
  BY DEF Kept, Now
<1>2. \A n \in 0 .. Now : IsVersion(i, n)
  BY <1>1, VersionProperties
<1>3. IsVersion(i, Now)'
  BY <1>1, VersionPropertiesNext
<1>4. ASSUME NEW n \in 0 .. Now
      PROVE  Version(i, n) \in 0 .. n /\ Version(i, n) <= Server(i)
  BY <1>1, <1>2 DEF IsVersion, Server
<1>5. Server(i) \in 0 .. Now /\ Server(i)' \in 0 .. Now'
  BY <1>1, <1>2, <1>3 DEF IsVersion, Server
<1>6. ASSUME ~(Server(i)' > Now)
      PROVE  Server(i)' = Server(i)
  <2> DEFINE v == Server(i)
             w == Server(i)'
  <2>1. w \in 0 .. Now /\ v \in 0 .. Now
    BY <1>1, <1>5, <1>6
  <2>2. w > 0 => i \in DOMAIN log[w]
    BY <1>3, <2>1 DEF IsVersion, Server, Kept
  <2>3. v > 0 => i \in DOMAIN log'[v]
    BY <1>1, <1>2, <2>1 DEF IsVersion, Server, Kept
  <2>4. w <= v
    BY <1>1, <1>2, <2>1, <2>2 DEF IsVersion, Server
  <2>5. v <= w
    BY <1>1, <1>3, <2>1, <2>3 DEF IsVersion, Server
  <2> QED  BY <2>1, <2>4, <2>5
<1> QED  BY <1>4, <1>5, <1>6

(* What the server writes, and what that does to the log.                  *)
LEMMA TransactionKinds ==
  /\ \A o \in Item : Created(o) \in Transaction /\ Ended(o) \in Transaction
  /\ \A t \in Trades, then \in {"lives", "ended"} : TradeTx(t, then) \in Transaction
  /\ \A o \in Item, fill \in Transaction : Filled(o, fill) \in Transaction
<1>1. ASSUME NEW S \in SUBSET Item, NEW f \in [S -> {"lives", "ended"}]
      PROVE  f \in Transaction
  BY <1>1 DEF Transaction
<1>2. ASSUME NEW o \in Item
      PROVE  Created(o) \in Transaction /\ Ended(o) \in Transaction
  <2>1. Created(o) \in [{o} -> {"lives", "ended"}] /\ Ended(o) \in [{o} -> {"lives", "ended"}]
    BY DEF Created, Ended
  <2> QED  BY <1>1, <2>1
<1>3. ASSUME NEW t \in Trades, NEW then \in {"lives", "ended"}
      PROVE  TradeTx(t, then) \in Transaction
  <2>1. TradeTx(t, then) \in [{t, Position} -> {"lives", "ended"}]
    BY DEF TradeTx
  <2>2. {t, Position} \in SUBSET Item
    BY DEF Item
  <2> QED  BY <1>1, <2>1, <2>2
<1>4. ASSUME NEW o \in Item, NEW fill \in Transaction
      PROVE  Filled(o, fill) \in Transaction
  <2>1. PICK S \in SUBSET Item : fill \in [S -> {"lives", "ended"}]
    BY DEF Transaction
  <2>2. Filled(o, fill) \in [{o} \cup S -> {"lives", "ended"}]
    BY <2>1 DEF Filled
  <2>3. {o} \cup S \in SUBSET Item
    OBVIOUS
  <2> QED  BY <1>1, <2>2, <2>3
<1> QED  BY <1>2, <1>3, <1>4

LEMMA FillsAreTransactions == Fills \subseteq Transaction
BY TransactionKinds DEF Fills, New, Live

LEMMA ReplacedAreTransactions == Replaced \subseteq Seq(Transaction)
<1>1. \A r \in Live(Orders) : Ended(r) \in Transaction
  BY TransactionKinds DEF Live, Item
<1>2. \A r \in Live(Orders) : <<Ended(r)>> \in Seq(Transaction)
  BY <1>1
<1>3. <<>> \in Seq(Transaction)
  BY EmptySeq
<1> QED  BY <1>2, <1>3 DEF Replaced

LEMMA Adds ==
  ASSUME log \in Seq(Transaction), NEW txs \in Seq(Transaction), Happens(txs)
  PROVE  /\ Kept
         /\ \A k \in 1 .. Len(txs) : \A i \in DOMAIN txs[k] : Server(i)' > Now
<1>1. log' = log \o txs
  BY DEF Happens
<1>2. /\ log' \in Seq(Transaction)
      /\ Len(log') = Len(log) + Len(txs)
      /\ \A k \in 1 .. Len(log) + Len(txs) :
           log'[k] = IF k <= Len(log) THEN log[k] ELSE txs[k - Len(log)]
  BY <1>1, ConcatProperties
<1>3. Now \in Nat /\ Len(txs) \in Nat /\ Now' = Now + Len(txs)
  BY <1>2 DEF Now
<1>4. Kept
  BY <1>2, <1>3 DEF Kept, Now
<1>5. ASSUME NEW k \in 1 .. Len(txs), NEW i \in DOMAIN txs[k]
      PROVE  Server(i)' > Now
  <2>1. Now + k \in 1 .. Now' /\ log'[Now + k] = txs[k]
    <3>1. Now = Len(log) /\ Now + k \in 1 .. Len(log) + Len(txs) /\ ~(Now + k <= Len(log))
      BY <1>3 DEF Now
    <3>2. log'[Now + k] = txs[(Now + k) - Len(log)]
      BY <1>2, <3>1
    <3>3. (Now + k) - Len(log) = k
      BY <1>3 DEF Now
    <3> QED  BY <1>3, <3>1, <3>2, <3>3
  <2>2. IsVersion(i, Now)'
    BY <1>3, VersionPropertiesNext
  <2> QED  BY <1>3, <2>1, <2>2 DEF IsVersion, Server
<1> QED  BY <1>4, <1>5

-----------------------------------------------------------------------------
(* The inductive invariant.                                                *)

(* Only the constructor makes a wrapper one that calls and has caches, and *)
(* one that fails leaves strays.                                           *)
Working ==
  /\ client.at # "idle" => client.who \in Built
  /\ \A a \in Wrappers \ Built : transactions[a] = <<>>
  /\ Built = {} => \A i \in DOMAIN cache : cache[i] = 0 \/ i \in strays

(* The deal that a pull is going to follow came after the last id.         *)
DealAhead ==
  \A i \in Item :
    client.at = "dealt" /\ i \in client.deal => Server(i) > last[client.who]

(* Once a pull has applied the changes, the wrapper may take their id for  *)
(* its own at any time: StaleOnlyAhead holds with this id in its place.    *)
PullApplied ==
  client.at = "states" =>
    /\ \A i \in DOMAIN cache :
         Alive(i, Server(i)) /\ cache[i] # Server(i) => Server(i) > client.to
    /\ \A i \in DOMAIN cache :
         ~Alive(i, Server(i)) /\ Alive(i, cache[i]) =>
           \/ i \in strays \/ Server(i) > client.to
           \/ \E b \in Built \ {client.who} : Server(i) > last[b]
    /\ position[client.who] # Server(Position) => Server(Position) > client.to

(* The states it asks for are of what was open when it applied them.       *)
AsksLiving ==
  \A i \in Orders \cup Trades, n \in 0 .. Now :
    /\ client.at = "states" /\ client.to = n
    /\ \E k \in DOMAIN client.todo : client.todo[k] = i
    => Alive(i, Version(i, n))

(* OwnDealsSeen, said of every item and id that the call may have.         *)
DealSeen ==
  \A n \in 0 .. Now :
    client.at = "states" /\ client.to = n =>
      /\ \A i \in Orders \cup Trades :
           i \in client.deal =>
             IF Alive(i, Version(i, n)) THEN cache[i] >= Version(i, n) ELSE cache[i] = 0
      /\ Position \in client.deal => position[client.who] >= Version(Position, n)

Inv ==
  /\ TypeOK
  /\ Working
  /\ DealAhead
  /\ PullApplied
  /\ AsksLiving
  /\ StaleOnlyAhead
  /\ TransactionsKept
  /\ DealSeen

-----------------------------------------------------------------------------
LEMMA ClientTypes ==
  ASSUME TypeOK
  PROVE  /\ client.at \in {"idle", "dealt", "states"}
         /\ client.at = "idle" => client = Idle
         /\ client.at # "idle" => client.who \in Wrappers
         /\ client.at # "idle" => client.deal \in SUBSET Item
         /\ client.at = "states" => /\ client.to \in 0 .. Now
                                  /\ client.todo \in Seq(Orders \cup Trades)
<1>1. client \in Client
  BY DEF TypeOK
<1>2. CASE client \in [at : {"idle"}]
  BY <1>2 DEF Idle
<1>3. CASE client \in [at : {"dealt"}, who : Wrappers, deal : SUBSET Item]
  BY <1>3
<1>4. CASE client \in [at : {"states"}, who : Wrappers, deal : SUBSET Item,
                      to : 0 .. Now, todo : Seq(Orders \cup Trades)]
  BY <1>4
<1> QED  BY <1>1, <1>2, <1>3, <1>4 DEF Client

(* The program starts with an empty wrapper class and the server's history. *)
LEMMA InvInit == Init => Inv
<1> SUFFICES ASSUME Init PROVE Inv
  OBVIOUS
<1>1. Now \in Nat
  BY AccountAssumption DEF Init, Now
<1>2. TypeOK
  <2>1. cache \in [Orders \cup Trades -> 0 .. Now] /\ position \in [Wrappers -> 0 .. Now]
        /\ last \in [Wrappers -> NotBuilt .. Now]
    BY <1>1 DEF Init, NotBuilt
  <2>2. transactions \in [Wrappers -> Seq(1 .. Now)]
        /\ \A a \in Wrappers : Len(transactions[a]) <= Depth
    BY EmptySeq, AccountAssumption DEF Init
  <2> QED  BY <2>1, <2>2, AccountAssumption DEF Init, TypeOK, Client, Idle
<1>3. Built = {} /\ client.at = "idle"
  BY DEF Init, Built, Idle
<1>4. \A i \in DOMAIN cache : cache[i] = 0
  BY DEF Init
<1>5. Working /\ DealAhead /\ PullApplied /\ AsksLiving /\ DealSeen /\ TransactionsKept
  BY <1>3, <1>4 DEF Init, Working, DealAhead, PullApplied, AsksLiving, DealSeen,
                    TransactionsKept
<1>6. StaleOnlyAhead
  BY <1>3, <1>4 DEF StaleOnlyAhead, Alive
<1> QED  BY <1>2, <1>5, <1>6 DEF Inv

-----------------------------------------------------------------------------
(* The steps that leave the last ids and the cached transactions alone:    *)
(* all but the constructor and the two ends of a pull.                     *)

(* An item of the cache stays, becomes what the server has, or is removed  *)
(* when it has just ended. While states are asked for, only those of what  *)
(* was open are.                                                           *)
CacheMoves ==
  /\ cache' \in [Orders \cup Trades -> 0 .. Now]
  /\ Built = {} => cache' = cache
  /\ \A i \in Orders \cup Trades :
       \/ cache'[i] = cache[i]
       \/ /\ cache'[i] = Server(i)
          /\ client.at = "states" => Alive(i, Version(i, client.to))
       \/ cache'[i] = 0 /\ Server(i)' > Now /\ client.at # "states"

PositionMoves ==
  /\ position' \in [Wrappers -> 0 .. Now]
  /\ \A a \in Wrappers : position'[a] = position[a] \/ position'[a] = Server(Position)

ClientMoves ==
  /\ failed \subseteq failed' /\ failed' \subseteq Wrappers
  /\ \/ client' = client
     \/ client' = Idle /\ (client.at = "states" => client.who \in failed')
     \/ /\ client = Idle
        /\ \E a \in Built, D \in SUBSET Item :
             /\ client' = [at |-> "dealt", who |-> a, deal |-> D]
             /\ \A i \in D : Server(i)' > Now
     \/ /\ client.at = "states" /\ client.todo # <<>>
        /\ client' = [client EXCEPT !.todo = Tail(@)]

Serves == Kept /\ CacheMoves /\ PositionMoves /\ ClientMoves /\ UNCHANGED <<last, transactions, strays>>

\* The call under way after such a step.
LEMMA ClientServed ==
  ASSUME Inv, Serves
  PROVE  /\ client' \in Client'
         /\ client'.at # "idle" => client'.who \in Built
         /\ client'.at = "states" =>
              /\ client.at = "states"
              /\ client'.who = client.who /\ client'.to = client.to /\ client'.deal = client.deal
              /\ client'.todo \in {client.todo, Tail(client.todo)}
<1>1. Now \in Nat /\ Now' \in Nat /\ 0 .. Now \subseteq 0 .. Now'
  BY DEF Serves, Kept, Now
<1>2. client \in Client /\ (client.at # "idle" => client.who \in Built)
  BY DEF Inv, TypeOK, Working
<1>3. CASE client' = client
  <2>1. client \in Client'
    BY <1>1, <1>2 DEF Client
  <2> QED  BY <1>2, <1>3, <2>1
<1>4. CASE client' = Idle
  BY <1>4 DEF Client, Idle
<1>5. ASSUME NEW a \in Built, NEW D \in SUBSET Item,
             client' = [at |-> "dealt", who |-> a, deal |-> D]
      PROVE  client' \in Client' /\ client'.at = "dealt" /\ client'.who = a
  BY <1>5 DEF Client, Built
<1>6. CASE /\ client.at = "states" /\ client.todo # <<>>
           /\ client' = [client EXCEPT !.todo = Tail(@)]
  <2>1. client \in [at : {"states"}, who : Wrappers, deal : SUBSET Item,
                    to : 0 .. Now, todo : Seq(Orders \cup Trades)]
    BY <1>2, <1>6 DEF Client
  <2>2. Tail(client.todo) \in Seq(Orders \cup Trades)
    BY <1>6, <2>1, HeadTailProperties
  <2>3. client' \in [at : {"states"}, who : Wrappers, deal : SUBSET Item,
                     to : 0 .. Now', todo : Seq(Orders \cup Trades)]
    BY <1>1, <1>6, <2>1, <2>2
  <2>4. client' \in Client'
    BY <2>3 DEF Client
  <2> QED  BY <1>2, <1>6, <2>1, <2>3, <2>4
<1>7. \/ client' = client \/ client' = Idle
      \/ \E a \in Built, D \in SUBSET Item :
           client' = [at |-> "dealt", who |-> a, deal |-> D]
      \/ /\ client.at = "states" /\ client.todo # <<>>
         /\ client' = [client EXCEPT !.todo = Tail(@)]
  <2> HIDE DEF Idle, Built
  <2> QED  BY DEF Serves, ClientMoves
<1>8. (client' \in Client' /\ client'.at = "dealt" /\ client'.who \in Built)
        => (client'.at # "states" /\ (client'.at # "idle" => client'.who \in Built))
  OBVIOUS
<1>9. CASE \E a \in Built, D \in SUBSET Item :
             client' = [at |-> "dealt", who |-> a, deal |-> D]
  BY <1>5, <1>8, <1>9
<1> QED  BY <1>3, <1>4, <1>6, <1>7, <1>9

\* An item after such a step: the server has something newer, or nothing new.
LEMMA ItemServed ==
  ASSUME Inv, Serves, NEW i \in Orders \cup Trades
  PROVE  \/ Server(i)' > Now
         \/ /\ Server(i)' = Server(i)
            /\ Alive(i, Server(i))' = Alive(i, Server(i))
            /\ Alive(i, cache[i])' = Alive(i, cache'[i])
            /\ cache'[i] = cache[i] \/ cache'[i] = Server(i)
<1>1. Now \in Nat /\ \A n \in 1 .. Now : log'[n] = log[n]
  BY DEF Serves, Kept, Now
<1>2. Server(i) \in 0 .. Now /\ (Server(i)' = Server(i) \/ Server(i)' > Now)
  BY ServerKept DEF Serves
<1>3. cache'[i] \in 0 .. Now
  BY DEF Serves, CacheMoves
<1>4. cache'[i] = cache[i] \/ cache'[i] = Server(i) \/ Server(i)' > Now
  BY DEF Serves, CacheMoves
<1>5. CASE Server(i)' = Server(i)
  BY <1>1, <1>2, <1>3, <1>4, <1>5 DEF Alive
<1> QED  BY <1>2, <1>5

LEMMA TypesServed == Inv /\ Serves => TypeOK' /\ Working'
<1> SUFFICES ASSUME Inv, Serves PROVE TypeOK' /\ Working'
  OBVIOUS
<1>1. /\ Now \in Nat /\ Now' \in Nat
      /\ 0 .. Now \subseteq 0 .. Now' /\ 1 .. Now \subseteq 1 .. Now'
      /\ NotBuilt .. Now \subseteq NotBuilt .. Now'
  BY DEF Serves, Kept, Now, NotBuilt
<1>2. TypeOK /\ Working /\ last' = last /\ transactions' = transactions /\ strays' = strays
  BY DEF Inv, Serves
<1>3. transactions \in [Wrappers -> Seq(1 .. Now')]
  BY <1>1, <1>2, SeqMonotonic DEF TypeOK
<1>4. cache' \in [Orders \cup Trades -> 0 .. Now'] /\ position' \in [Wrappers -> 0 .. Now']
  BY <1>1 DEF Serves, CacheMoves, PositionMoves
<1>5. TypeOK'
  BY <1>1, <1>2, <1>3, <1>4, ClientServed DEF TypeOK, Serves, Kept, ClientMoves
<1>6. Built' = Built
  BY <1>2 DEF Built
<1>7. Built = {} => cache' = cache
  BY DEF Serves, CacheMoves
<1>8. Working'
  BY <1>2, <1>6, <1>7, ClientServed DEF Working
<1> QED  BY <1>5, <1>8

LEMMA StaleServed == Inv /\ Serves => StaleOnlyAhead'
<1> SUFFICES ASSUME Inv, Serves PROVE StaleOnlyAhead'
  OBVIOUS
<1>1. /\ Now \in Nat /\ TypeOK /\ Working /\ StaleOnlyAhead
      /\ Built' = Built /\ last' = last /\ strays' = strays
  BY DEF Inv, Serves, Kept, Now, Built
<1>2. DOMAIN cache = Orders \cup Trades /\ DOMAIN cache' = Orders \cup Trades
  BY <1>1 DEF TypeOK, Serves, CacheMoves
<1>3. \A a \in Built : last[a] \in 0 .. Now
  BY <1>1 DEF TypeOK, Built, NotBuilt
<1>4. \A i : Server(i) \in 0 .. Now /\ Server(i)' \in Int
  BY <1>1, ServerKept DEF Serves, Kept, Now
<1>5. ASSUME NEW i \in Orders \cup Trades, NEW a \in Built,
             Alive(i, Server(i))', cache'[i] # Server(i)'
      PROVE  Server(i)' > last[a]
  BY <1>1, <1>2, <1>3, <1>4, <1>5, ItemServed DEF StaleOnlyAhead
<1>6. ASSUME NEW i \in Orders \cup Trades, ~Alive(i, Server(i))', Alive(i, cache[i])'
      PROVE  i \in strays \/ \E a \in Built : Server(i)' > last[a]
  <2>1. CASE Server(i)' > Now
    <3>1. CASE Built = {}
      <4>1. cache'[i] = 0 \/ i \in strays
        BY <1>1, <1>2, <3>1 DEF Working, Serves, CacheMoves
      <4> QED  BY <4>1, <1>6 DEF Alive
    <3>2. CASE Built # {}
      BY <3>2, <2>1, <1>1, <1>3, <1>4
    <3> QED  BY <3>1, <3>2
  <2>2. CASE ~(Server(i)' > Now)
    BY <1>1, <1>2, <1>6, <2>2, ItemServed DEF StaleOnlyAhead
  <2> QED  BY <2>1, <2>2
<1>7. ASSUME NEW a \in Built, position'[a] # Server(Position)'
      PROVE  Server(Position)' > last[a]
  <2>1. Server(Position)' = Server(Position) \/ Server(Position)' > Now
    BY ServerKept DEF Serves
  <2>2. position'[a] = position[a] \/ position'[a] = Server(Position)
    BY DEF Serves, PositionMoves, Built
  <2> QED  BY <1>1, <1>3, <1>4, <1>7, <2>1, <2>2 DEF StaleOnlyAhead
<1> QED  BY <1>1, <1>2, <1>5, <1>6, <1>7 DEF StaleOnlyAhead

LEMMA PullServed == Inv /\ Serves => PullApplied'
<1> SUFFICES ASSUME Inv, Serves, client'.at = "states"
             PROVE  PullApplied'
  BY DEF PullApplied
<1>1. /\ Now \in Nat /\ TypeOK /\ PullApplied
      /\ Built' = Built /\ last' = last /\ strays' = strays
  BY DEF Inv, Serves, Kept, Now, Built
<1>2. DOMAIN cache = Orders \cup Trades /\ DOMAIN cache' = Orders \cup Trades
  BY <1>1 DEF TypeOK, Serves, CacheMoves
<1>3. client.at = "states" /\ client'.who = client.who /\ client'.to = client.to
  BY ClientServed
<1>4. client.who \in Wrappers /\ client.to \in 0 .. Now
  BY <1>1, <1>3, ClientTypes
<1>5. \A i : Server(i) \in 0 .. Now /\ Server(i)' \in Int
  BY <1>1, ServerKept DEF Serves, Kept, Now
<1>6. ASSUME NEW i \in Orders \cup Trades,
             Alive(i, Server(i))', cache'[i] # Server(i)'
      PROVE  Server(i)' > client'.to
  BY <1>1, <1>2, <1>3, <1>4, <1>5, <1>6, ItemServed DEF PullApplied
<1>7. ASSUME NEW i \in Orders \cup Trades, ~Alive(i, Server(i))', Alive(i, cache[i])'
      PROVE  \/ i \in strays' \/ Server(i)' > client'.to
             \/ \E b \in Built \ {client'.who} : Server(i)' > last[b]
  BY <1>1, <1>2, <1>3, <1>4, <1>5, <1>7, ItemServed DEF PullApplied
<1>8. ASSUME position'[client'.who] # Server(Position)'
      PROVE  Server(Position)' > client'.to
  <2>1. Server(Position)' = Server(Position) \/ Server(Position)' > Now
    BY ServerKept DEF Serves
  <2>2. \/ position'[client.who] = position[client.who]
        \/ position'[client.who] = Server(Position)
    BY <1>4 DEF Serves, PositionMoves
  <2> QED  BY <1>1, <1>3, <1>4, <1>5, <1>8, <2>1, <2>2 DEF PullApplied
<1> QED  BY <1>1, <1>2, <1>6, <1>7, <1>8 DEF PullApplied

LEMMA DealServed == Inv /\ Serves => DealAhead'
<1> SUFFICES ASSUME Inv, Serves, NEW i \in Item,
                    client'.at = "dealt", i \in client'.deal
             PROVE  Server(i)' > last'[client'.who]
  BY DEF DealAhead
<1>1. Now \in Nat /\ TypeOK /\ Working /\ DealAhead /\ last' = last
  BY DEF Inv, Serves, Kept, Now
<1>2. \A a \in Built : last[a] \in 0 .. Now
  BY <1>1 DEF TypeOK, Built, NotBuilt
<1>3. Server(i) \in 0 .. Now /\ Server(i)' \in Int /\ (Server(i)' = Server(i) \/ Server(i)' > Now)
  BY <1>1, ServerKept DEF Serves, Kept, Now
<1>4. CASE client' = client
  BY <1>1, <1>2, <1>3, <1>4 DEF DealAhead, Working
<1>5. ASSUME NEW a \in Built, NEW D \in SUBSET Item, \A j \in D : Server(j)' > Now,
             client' = [at |-> "dealt", who |-> a, deal |-> D]
      PROVE  Server(i)' > last'[client'.who]
  <2>1. client'.who = a /\ Server(i)' > Now
    BY <1>5
  <2> QED  BY <1>1, <1>2, <1>3, <2>1
<1>6. CASE client.at = "states" /\ client' = [client EXCEPT !.todo = Tail(@)]
  BY <1>1, <1>6 DEF TypeOK, Client
<1> QED  BY <1>4, <1>5, <1>6 DEF Serves, ClientMoves, Idle

LEMMA AsksServed == Inv /\ Serves => AsksLiving'
<1> SUFFICES ASSUME Inv, Serves, NEW i \in Orders \cup Trades, NEW n \in 0 .. Now',
                    client'.at = "states", client'.to = n,
                    NEW k \in DOMAIN client'.todo, client'.todo[k] = i
             PROVE  Alive(i, Version(i, n))'
  BY DEF AsksLiving
<1>1. Now \in Nat /\ TypeOK /\ AsksLiving /\ Kept
  BY DEF Inv, Serves, Kept, Now
<1>2. client.at = "states" /\ client.to = n /\ client'.todo \in {client.todo, Tail(client.todo)}
  BY ClientServed
<1>3. n \in 0 .. Now /\ client.todo \in Seq(Orders \cup Trades)
  BY <1>1, <1>2, ClientTypes
<1>4. \E j \in DOMAIN client.todo : client.todo[j] = i
  <2>1. CASE client'.todo = client.todo
    BY <2>1
  <2>2. CASE client'.todo = Tail(client.todo) /\ client.todo # <<>>
    <3>1. /\ DOMAIN Tail(client.todo) = 1 .. Len(client.todo) - 1
          /\ DOMAIN client.todo = 1 .. Len(client.todo) /\ Len(client.todo) \in Nat
          /\ \A j \in 1 .. Len(client.todo) - 1 : Tail(client.todo)[j] = client.todo[j + 1]
      BY <1>3, <2>2, HeadTailProperties, LenProperties
    <3>2. k + 1 \in DOMAIN client.todo /\ client.todo[k + 1] = i
      BY <2>2, <3>1
    <3> QED  BY <3>2
  <2>3. CASE client'.todo = Tail(client.todo) /\ client.todo = <<>>
    BY <2>3
  <2> QED  BY <1>2, <2>1, <2>2, <2>3
<1>5. Alive(i, Version(i, n))
  BY <1>1, <1>2, <1>3, <1>4 DEF AsksLiving
<1>6. Version(i, n)' = Version(i, n) /\ Version(i, n) \in 0 .. Now
  <2>1. Version(i, n)' = Version(i, n)
    BY <1>1, <1>3, VersionKept
  <2>2. Version(i, n) \in 0 .. n
    BY <1>1, <1>3, ServerKept
  <2> QED  BY <1>1, <1>3, <2>1, <2>2
<1> QED  BY <1>1, <1>5, <1>6 DEF Alive, Kept

LEMMA SeenServed == Inv /\ Serves => DealSeen'
<1> SUFFICES ASSUME Inv, Serves, NEW n \in 0 .. Now', client'.at = "states", client'.to = n
             PROVE  /\ \A i \in Orders \cup Trades :
                         i \in client'.deal =>
                           IF Alive(i, Version(i, n))' THEN cache'[i] >= Version(i, n)'
                           ELSE cache'[i] = 0
                    /\ Position \in client'.deal =>
                         position'[client'.who] >= Version(Position, n)'
  BY DEF DealSeen
<1>1. Now \in Nat /\ TypeOK /\ DealSeen /\ Kept
  BY DEF Inv, Serves, Kept, Now
<1>2. /\ client.at = "states" /\ client.to = n
      /\ client'.deal = client.deal /\ client'.who = client.who
  BY ClientServed
<1>3. n \in 0 .. Now /\ client.who \in Wrappers
  BY <1>1, <1>2, ClientTypes
<1>4. ASSUME NEW i
      PROVE  /\ Version(i, n)' = Version(i, n) /\ Version(i, n) \in 0 .. Now
             /\ Version(i, n) <= Server(i) /\ Server(i) \in Int
  <2>1. Version(i, n)' = Version(i, n)
    BY <1>1, <1>3, VersionKept
  <2>2. Version(i, n) \in 0 .. n /\ Version(i, n) <= Server(i) /\ Server(i) \in 0 .. Now
    BY <1>1, <1>3, ServerKept
  <2> QED  BY <1>1, <1>3, <2>1, <2>2
<1>5. ASSUME NEW i \in Orders \cup Trades, i \in client.deal
      PROVE  IF Alive(i, Version(i, n))' THEN cache'[i] >= Version(i, n)' ELSE cache'[i] = 0
  <2>1. IF Alive(i, Version(i, n)) THEN cache[i] >= Version(i, n) ELSE cache[i] = 0
    BY <1>1, <1>2, <1>3, <1>5 DEF DealSeen
  <2>2. Alive(i, Version(i, n))' = Alive(i, Version(i, n))
    BY <1>1, <1>4 DEF Alive, Kept
  <2>3. cache'[i] = cache[i] \/ (cache'[i] = Server(i) /\ Alive(i, Version(i, n)))
    BY <1>2 DEF Serves, CacheMoves
  <2> QED  BY <1>4, <2>1, <2>2, <2>3
<1>6. ASSUME Position \in client.deal
      PROVE  position'[client'.who] >= Version(Position, n)'
  <2>1. position[client.who] >= Version(Position, n)
    BY <1>1, <1>2, <1>3, <1>6 DEF DealSeen
  <2>2. position'[client.who] \in {position[client.who], Server(Position)}
    BY <1>3 DEF Serves, PositionMoves
  <2> QED  BY <1>2, <1>4, <2>1, <2>2
<1> QED  BY <1>2, <1>5, <1>6

LEMMA TransactionsServed == Inv /\ Serves => TransactionsKept'
<1> SUFFICES ASSUME Inv, Serves, NEW a \in Built \ failed'
             PROVE  LET seen == IF client'.at = "states" /\ client'.who = a THEN client'.to ELSE last[a]
                        kept == transactions[a]
                    IN  kept = [k \in DOMAIN kept |-> seen - Len(kept) + k]
  BY DEF TransactionsKept, Built, Serves
<1>1. a \notin failed
  BY DEF Serves, ClientMoves
<1>2. LET seen == IF client.at = "states" /\ client.who = a THEN client.to ELSE last[a]
          kept == transactions[a]
      IN  kept = [k \in DOMAIN kept |-> seen - Len(kept) + k]
  BY <1>1 DEF Inv, TransactionsKept
<1>3. CASE client' = client
  BY <1>2, <1>3
<1>4. CASE client' = Idle /\ (client.at = "states" => client.who \in failed')
  BY <1>2, <1>4 DEF Idle
<1>5. CASE client = Idle /\ client'.at = "dealt"
  BY <1>2, <1>5 DEF Idle
<1>6. CASE client.at = "states" /\ client' = [client EXCEPT !.todo = Tail(@)]
  <2>1. /\ client'.at = client.at /\ client'.who = client.who /\ client'.to = client.to
    BY <1>6
  <2> QED  BY <1>2, <2>1
<1> QED  BY <1>3, <1>4, <1>5, <1>6 DEF Serves, ClientMoves

LEMMA InvServed == Inv /\ Serves => Inv'
BY TypesServed, StaleServed, PullServed, DealServed, AsksServed, SeenServed, TransactionsServed
DEF Inv

-----------------------------------------------------------------------------
(* Every action but those three is such a step.                            *)

LEMMA LogAlone == Inv /\ UNCHANGED log => Kept
BY DEF Inv, TypeOK, Kept, Now

LEMMA CacheAlone == Inv /\ UNCHANGED cache => CacheMoves
BY DEF Inv, TypeOK, CacheMoves

LEMMA PositionAlone == Inv /\ UNCHANGED position => PositionMoves
BY DEF Inv, TypeOK, PositionMoves

LEMMA ClientAlone == Inv /\ UNCHANGED <<client, failed>> => ClientMoves
BY DEF Inv, TypeOK, ClientMoves

\* What a lookup puts into the cache.
LEMMA GotMoves ==
  ASSUME Inv, Built # {}, NEW found, cache' = Got(found),
         client.at = "states" =>
           \A i \in found \cap (Orders \cup Trades) : Alive(i, Version(i, client.to))
  PROVE  CacheMoves
<1>1. cache \in [Orders \cup Trades -> 0 .. Now] /\ Now \in Nat
  BY DEF Inv, TypeOK, Now
<1>2. \A i : Server(i) \in 0 .. Now
  BY <1>1, VersionProperties DEF IsVersion, Server
<1>3. cache' \in [Orders \cup Trades -> 0 .. Now]
  BY <1>1, <1>2 DEF Got
<1>4. \A i \in Orders \cup Trades : cache'[i] = IF i \in found THEN Server(i) ELSE cache[i]
  BY <1>1 DEF Got
<1> QED  BY <1>3, <1>4 DEF CacheMoves

\* What happens changes the items of its transactions.
LEMMA AddsChanged ==
  ASSUME Inv, NEW txs \in Seq(Transaction), Happens(txs)
  PROVE  /\ Kept
         /\ Changed(txs) \in SUBSET Item
         /\ \A i \in Changed(txs) : Server(i)' > Now
<1>1. log \in Seq(Transaction) /\ DOMAIN txs = 1 .. Len(txs)
  BY LenProperties DEF Inv, TypeOK
<1>2. Kept /\ \A k \in 1 .. Len(txs) : \A i \in DOMAIN txs[k] : Server(i)' > Now
  BY <1>1, Adds
<1>3. \A tx \in Transaction : DOMAIN tx \in SUBSET Item
  BY DEF Transaction
<1>4. \A k \in 1 .. Len(txs) : txs[k] \in Transaction
  BY ElementOfSeq
<1>5. Changed(txs) \in SUBSET Item
  BY <1>1, <1>3, <1>4 DEF Changed
<1>6. \A i \in Changed(txs) : Server(i)' > Now
  BY <1>1, <1>2 DEF Changed
<1> QED  BY <1>2, <1>5, <1>6

\* A deal of a wrapper, with or without a pull to follow.
LEMMA DealsMoves ==
  ASSUME Inv, client = Idle, NEW a \in Built, NEW txs \in Seq(Transaction),
         NEW pulls \in BOOLEAN, Deals(a, txs, pulls), UNCHANGED failed
  PROVE  Kept /\ ClientMoves
<1>1. failed \subseteq Wrappers
  BY DEF Inv, TypeOK
<1>2. /\ Kept
      /\ Changed(txs) \in SUBSET Item
      /\ \A i \in Changed(txs) : Server(i)' > Now
  BY AddsChanged DEF Deals
<1>3. CASE pulls
  <2>1. client' = [at |-> "dealt", who |-> a, deal |-> Changed(txs)]
    BY <1>3 DEF Deals
  <2> HIDE DEF Changed, Idle
  <2> QED  BY <1>1, <1>2, <2>1 DEF ClientMoves
<1>4. CASE ~pulls
  <2>1. client' = Idle /\ client.at # "states"
    BY <1>4 DEF Deals, Idle
  <2> QED  BY <1>1, <1>2, <2>1 DEF ClientMoves
<1> QED  BY <1>3, <1>4

LEMMA OneTransaction ==
  ASSUME NEW tx \in Transaction
  PROVE  <<tx>> \in Seq(Transaction)
OBVIOUS

LEMMA AddsOne ==
  ASSUME Inv, NEW tx \in Transaction, Happens(<<tx>>)
  PROVE  Kept /\ \A i \in DOMAIN tx : Server(i)' > Now
<1>1. log \in Seq(Transaction) /\ <<tx>> \in Seq(Transaction) /\ Len(<<tx>>) = 1 /\ <<tx>>[1] = tx
  BY DEF Inv, TypeOK
<1>2. Kept /\ \A k \in 1 .. Len(<<tx>>) : \A i \in DOMAIN <<tx>>[k] : Server(i)' > Now
  BY <1>1, Adds
<1> QED  BY <1>1, <1>2

\* An order that is placed, and perhaps ends at once.
LEMMA PlacedAreTransactions ==
  ASSUME NEW o \in Orders, NEW replaced \in Replaced
  PROVE  /\ replaced \o <<Created(o)>> \in Seq(Transaction)
         /\ \A tx \in Transaction :
              (replaced \o <<Created(o)>>) \o <<tx>> \in Seq(Transaction)
<1>1. replaced \in Seq(Transaction) /\ Created(o) \in Transaction
  BY ReplacedAreTransactions, TransactionKinds DEF Item
<1>2. replaced \o <<Created(o)>> \in Seq(Transaction)
  BY <1>1, OneTransaction, ConcatProperties
<1> QED  BY <1>2, OneTransaction, ConcatProperties

LEMMA MarketMovesServes == Inv /\ MarketMoves => Serves
<1> SUFFICES ASSUME Inv, MarketMoves PROVE Serves
  OBVIOUS
<1>1. \E tx \in Transaction : Happens(<<tx>>)
  <2>1. ASSUME NEW o \in Live(Orders), NEW fill \in Fills
        PROVE  Filled(o, fill) \in Transaction
    BY FillsAreTransactions, TransactionKinds DEF Live, Item
  <2>2. ASSUME NEW o \in Orders
        PROVE  Created(o) \in Transaction /\ Ended(o) \in Transaction
    BY TransactionKinds DEF Item
  <2>3. ASSUME NEW t \in Live(Trades), NEW then \in {"lives", "ended"}
        PROVE  TradeTx(t, then) \in Transaction
    BY TransactionKinds DEF Live
  <2> QED  BY <2>1, <2>2, <2>3 DEF MarketMoves, Live, New
<1>2. Kept
  BY <1>1, AddsOne
<1> QED  BY <1>2, CacheAlone, PositionAlone, ClientAlone DEF MarketMoves, Serves

LEMMA LookupServes == Inv /\ Lookup => Serves
<1> SUFFICES ASSUME Inv, Lookup PROVE Serves
  OBVIOUS
<1>1. CacheMoves
  BY GotMoves DEF Lookup, Free, Idle
<1> QED  BY <1>1, LogAlone, PositionAlone, ClientAlone DEF Lookup, Serves

LEMMA PullPositionServes == Inv /\ PullPosition => Serves
<1> SUFFICES ASSUME Inv, PullPosition PROVE Serves
  OBVIOUS
<1>1. Now \in Nat /\ position \in [Wrappers -> 0 .. Now]
  BY DEF Inv, TypeOK, Now
<1>2. Server(Position) \in 0 .. Now
  BY <1>1, VersionProperties DEF IsVersion, Server
<1>3. PositionMoves
  BY <1>1, <1>2 DEF PullPosition, PositionMoves
<1> QED  BY <1>3, LogAlone, CacheAlone, ClientAlone DEF PullPosition, Serves

LEMMA PlaceOrderServes == ASSUME Inv, NEW a, PlaceOrder(a) PROVE Serves
<1>1. PICK type \in {"LIMIT_OR_STOP", "MARKET", "IF_TOUCHED"}, o \in New(Orders),
           replaced \in Replaced :
        \/ Deals(a, replaced \o <<Created(o)>>, type = "LIMIT_OR_STOP")
        \/ Deals(a, (replaced \o <<Created(o)>>) \o <<Ended(o)>>, type = "LIMIT_OR_STOP")
        \/ \E fill \in Fills :
             Deals(a, (replaced \o <<Created(o)>>) \o <<Filled(o, fill)>>,
                   type = "LIMIT_OR_STOP" \/ Opens(fill))
  BY DEF PlaceOrder
<1>2. o \in Orders /\ Ended(o) \in Transaction
  BY TransactionKinds DEF New, Item
<1>3. \A fill \in Fills : Filled(o, fill) \in Transaction
  BY <1>2, FillsAreTransactions, TransactionKinds DEF Item
<1>4. \E txs \in Seq(Transaction), pulls \in BOOLEAN : Deals(a, txs, pulls)
  <2>1. /\ replaced \o <<Created(o)>> \in Seq(Transaction)
        /\ \A tx \in Transaction : (replaced \o <<Created(o)>>) \o <<tx>> \in Seq(Transaction)
    BY <1>2, PlacedAreTransactions
  <2>2. (type = "LIMIT_OR_STOP") \in BOOLEAN
    OBVIOUS
  <2>3. \A fill \in Fills : (type = "LIMIT_OR_STOP" \/ Opens(fill)) \in BOOLEAN
    OBVIOUS
  <2> QED  BY <1>1, <1>2, <1>3, <2>1, <2>2, <2>3
<1>5. client = Idle /\ a \in Built /\ UNCHANGED <<cache, position, last, transactions, failed, strays>>
  BY DEF PlaceOrder, Free
<1>6. Kept /\ ClientMoves
  BY <1>4, <1>5, DealsMoves
<1> QED  BY <1>5, <1>6, CacheAlone, PositionAlone DEF Serves

LEMMA PlaceExitServes == Inv /\ PlaceExit => Serves
<1> SUFFICES ASSUME Inv, PlaceExit PROVE Serves
  OBVIOUS
<1>1. PICK t \in Live(Trades), o \in New(Orders), replaced \in Replaced :
        /\ cache' = IF cache[t] = 0 THEN Got({t}) ELSE cache
        /\ \/ Happens(replaced \o <<Created(o)>>)
           \/ Happens((replaced \o <<Created(o)>>) \o <<Ended(o)>>)
           \/ Happens((replaced \o <<Created(o)>>) \o <<Filled(o, TradeTx(t, "ended"))>>)
  BY DEF PlaceExit
<1>2. o \in Orders /\ Ended(o) \in Transaction /\ Filled(o, TradeTx(t, "ended")) \in Transaction
  <2>1. o \in Orders /\ o \in Item /\ t \in Trades
    BY DEF New, Live, Item
  <2>2. TradeTx(t, "ended") \in Transaction
    BY <2>1, TransactionKinds
  <2> QED  BY <2>1, <2>2, TransactionKinds
<1>3. Kept
  BY <1>1, <1>2, PlacedAreTransactions, AddsChanged
<1>4. CacheMoves
  BY <1>1, GotMoves, CacheAlone DEF PlaceExit, Free, Idle
<1> QED  BY <1>3, <1>4, PositionAlone, ClientAlone DEF PlaceExit, Serves

LEMMA CancelOrderServes == Inv /\ CancelOrder => Serves
<1> SUFFICES ASSUME Inv, CancelOrder PROVE Serves
  OBVIOUS
<1>1. PICK o \in Live(Orders) : Happens(<<Ended(o)>>) /\ cache' = [cache EXCEPT ![o] = 0]
  BY DEF CancelOrder
<1>2. Ended(o) \in Transaction /\ o \in DOMAIN Ended(o)
  <2>1. o \in Item
    BY DEF Live, Item
  <2> QED  BY <2>1, TransactionKinds DEF Ended
<1>3. Kept /\ Server(o)' > Now
  BY <1>1, <1>2, AddsOne
<1>4. CacheMoves
  <2>1. cache \in [Orders \cup Trades -> 0 .. Now] /\ Now \in Nat
    BY DEF Inv, TypeOK, Now
  <2>2. Built # {} /\ client.at # "states"
    BY DEF CancelOrder, Free, Idle
  <2>3. cache' \in [Orders \cup Trades -> 0 .. Now]
    <3>1. 0 \in 0 .. Now
      BY <2>1
    <3> QED  BY <1>1, <2>1, <3>1
  <2>4. ASSUME NEW i \in Orders \cup Trades
        PROVE  cache'[i] = cache[i] \/ (cache'[i] = 0 /\ Server(i)' > Now)
    BY <1>1, <1>3, <2>1
  <2> QED  BY <2>2, <2>3, <2>4 DEF CacheMoves
<1> QED  BY <1>3, <1>4, PositionAlone, ClientAlone DEF CancelOrder, Serves

LEMMA CloseTradeServes == ASSUME Inv, NEW a, CloseTrade(a) PROVE Serves
<1>1. PICK t \in Live(Trades), then \in {"lives", "ended"} :
        Deals(a, <<TradeTx(t, then)>>, then = "ended")
  BY DEF CloseTrade
<1>2. <<TradeTx(t, then)>> \in Seq(Transaction)
  BY TransactionKinds, OneTransaction DEF Live
<1>3. client = Idle /\ a \in Built /\ UNCHANGED <<cache, position, last, transactions, failed, strays>>
  BY DEF CloseTrade, Free
<1>4. Kept /\ ClientMoves
  <2>1. (then = "ended") \in BOOLEAN
    OBVIOUS
  <2> QED  BY <1>1, <1>2, <1>3, <2>1, DealsMoves
<1> QED  BY <1>3, <1>4, CacheAlone, PositionAlone DEF Serves

LEMMA ClosePositionServes == Inv /\ ClosePosition => Serves
<1> SUFFICES ASSUME Inv, ClosePosition PROVE Serves
  OBVIOUS
<1> DEFINE tx == [i \in Live(Trades) \cup {Position} |-> IF i = Position THEN "lives" ELSE "ended"]
<1>1. tx \in Transaction
  <2>1. Live(Trades) \cup {Position} \in SUBSET Item
    BY DEF Live, Item
  <2>2. tx \in [Live(Trades) \cup {Position} -> {"lives", "ended"}]
    OBVIOUS
  <2> QED  BY <2>1, <2>2 DEF Transaction
<1>2. Kept
  <2>1. Happens(<<tx>>)
    BY DEF ClosePosition
  <2> HIDE DEF tx
  <2> QED  BY <1>1, <2>1, AddsOne
<1> QED  BY <1>2, CacheAlone, PositionAlone, ClientAlone DEF ClosePosition, Serves

LEMMA FetchStateServes == Inv /\ FetchState => Serves
<1> SUFFICES ASSUME Inv, FetchState PROVE Serves
  OBVIOUS
<1>1. /\ client.at = "states" /\ client.todo # <<>>
      /\ client' = [client EXCEPT !.todo = Tail(@)]
      /\ cache' = Got({Head(client.todo)}) \/ UNCHANGED cache
      /\ UNCHANGED <<log, position, last, transactions, failed, strays>>
  BY DEF FetchState
<1>2. TypeOK /\ Working /\ AsksLiving /\ failed \subseteq Wrappers
  BY DEF Inv, TypeOK
<1>3. client.todo \in Seq(Orders \cup Trades) /\ client.to \in 0 .. Now /\ Built # {}
  BY <1>1, <1>2, ClientTypes DEF Working
<1>4. Head(client.todo) \in Orders \cup Trades /\ Head(client.todo) = client.todo[1]
      /\ 1 \in DOMAIN client.todo
  BY <1>1, <1>3
<1>5. Alive(Head(client.todo), Version(Head(client.todo), client.to))
  BY <1>1, <1>2, <1>3, <1>4 DEF AsksLiving
<1>6. CacheMoves
  BY <1>1, <1>3, <1>5, GotMoves, CacheAlone
<1>7. ClientMoves
  BY <1>1, <1>2 DEF ClientMoves
<1> QED  BY <1>1, <1>6, <1>7, LogAlone, PositionAlone DEF Serves

LEMMA PullFailsServes == Inv /\ PullFails => Serves
<1> SUFFICES ASSUME Inv, PullFails PROVE Serves
  OBVIOUS
<1>1. ClientMoves
  BY ClientTypes DEF PullFails, ClientMoves, Inv, TypeOK
<1> QED  BY <1>1, LogAlone, CacheAlone, PositionAlone DEF PullFails, Serves

-----------------------------------------------------------------------------
(* The constructor and the two ends of a pull.                             *)

\* What these steps have in common: the log does not change.
LEMMA LogSame ==
  ASSUME Inv, UNCHANGED log
  PROVE  /\ Now \in Nat /\ Now' = Now
         /\ \A i : Server(i)' = Server(i) /\ Server(i) \in 0 .. Now
         /\ \A i, n : Version(i, n)' = Version(i, n) /\ Alive(i, n)' = Alive(i, n)
<1>1. Now \in Nat /\ Now' = Now
  BY DEF Inv, TypeOK, Now
<1>2. \A i, n : Version(i, n)' = Version(i, n) /\ Alive(i, n)' = Alive(i, n)
  BY DEF Version, Alive
<1>3. \A i : Server(i)' = Server(i)
  BY <1>1, <1>2 DEF Server, Version
<1>4. \A i : Server(i) \in 0 .. Now
  BY <1>1, VersionProperties DEF IsVersion, Server
<1> QED  BY <1>1, <1>2, <1>3, <1>4

\* What the constructor puts into the caches, whether or not it fails afterwards.
LEMMA FetchedAll ==
  ASSUME TypeOK, cache' = Got(Live(DOMAIN cache))
  PROVE  /\ cache' \in [Orders \cup Trades -> 0 .. Now]
         /\ \A i \in Orders \cup Trades :
              cache'[i] = IF Alive(i, Server(i)) THEN Server(i) ELSE cache[i]
<1>1. cache \in [Orders \cup Trades -> 0 .. Now] /\ Now \in Nat
  BY DEF TypeOK, Now
<1>2. \A i : Server(i) \in 0 .. Now
  BY <1>1, VersionProperties DEF IsVersion, Server
<1> QED  BY <1>1, <1>2 DEF Got, Live

\* The constructor of account.py.
LEMMA ConstructKeeps ==
  ASSUME Inv, NEW a \in Wrappers, Construct(a)
  PROVE  Inv'
<1>1. /\ client = Idle /\ last[a] = NotBuilt
      /\ cache' = Got(Live(DOMAIN cache))
      /\ position' = [position EXCEPT ![a] = Server(Position)]
      /\ last' = [last EXCEPT ![a] = Now]
      /\ strays' = IF Built = {} THEN strays \ Live(DOMAIN cache) ELSE strays
      /\ UNCHANGED <<log, transactions, client, failed>>
  BY DEF Construct
<1>2. TypeOK /\ Working /\ StaleOnlyAhead /\ TransactionsKept
  BY DEF Inv
<1>3. /\ Now \in Nat /\ Now' = Now
      /\ \A i : Server(i)' = Server(i) /\ Server(i) \in 0 .. Now
      /\ \A i, n : Version(i, n)' = Version(i, n) /\ Alive(i, n)' = Alive(i, n)
  BY <1>1, LogSame
<1>4. /\ last \in [Wrappers -> NotBuilt .. Now] /\ position \in [Wrappers -> 0 .. Now]
      /\ cache \in [Orders \cup Trades -> 0 .. Now]
  BY <1>2 DEF TypeOK
<1>5. /\ Built' = Built \cup {a} /\ a \notin Built
      /\ \A b \in Built : last'[b] = last[b]
      /\ last'[a] = Now
  BY <1>1, <1>3, <1>4 DEF Built, NotBuilt
<1>6. /\ cache' \in [Orders \cup Trades -> 0 .. Now]
      /\ \A i \in Orders \cup Trades :
           cache'[i] = IF Alive(i, Server(i)) THEN Server(i) ELSE cache[i]
  BY <1>1, <1>2, FetchedAll
<1>7. TypeOK'
  <2>1. /\ last' \in [Wrappers -> NotBuilt .. Now] /\ position' \in [Wrappers -> 0 .. Now]
    BY <1>1, <1>3, <1>4 DEF NotBuilt
  <2>2. strays' \subseteq Orders \cup Trades
    BY <1>1, <1>2 DEF TypeOK
  <2> QED  BY <1>1, <1>2, <1>3, <1>6, <2>1, <2>2 DEF TypeOK, Client
<1>8. Working'
  BY <1>1, <1>2, <1>5 DEF Working, Idle
<1>9. StaleOnlyAhead'
  <2>1. DOMAIN cache = Orders \cup Trades /\ DOMAIN cache' = Orders \cup Trades
    BY <1>4, <1>6
  <2>2. ASSUME NEW i \in Orders \cup Trades
        PROVE  /\ Alive(i, Server(i))' = Alive(i, Server(i))
               /\ Alive(i, cache[i])' = Alive(i, cache'[i])
    BY <1>1, <1>3 DEF Alive
  <2>3. ASSUME NEW i \in Orders \cup Trades, Alive(i, Server(i))'
        PROVE  cache'[i] = Server(i)'
    BY <1>3, <1>6, <2>2, <2>3
  <2>4. ASSUME NEW i \in Orders \cup Trades, ~Alive(i, Server(i))', Alive(i, cache[i])'
        PROVE  i \in strays' \/ \E b \in Built' : Server(i)' > last'[b]
    <3>1. cache'[i] = cache[i]
      BY <1>6, <2>2, <2>4
    <3>2. i \in strays \/ \E b \in Built : Server(i) > last[b]
      BY <1>2, <2>1, <2>2, <2>4, <3>1 DEF StaleOnlyAhead
    <3>3. i \in strays => i \in strays'
      BY <1>1, <2>2, <2>4 DEF Live
    <3> QED  BY <1>3, <1>5, <3>2, <3>3
  <2>5. ASSUME NEW b \in Built', position'[b] # Server(Position)'
        PROVE  Server(Position)' > last'[b]
    <3>1. b \in Built /\ position'[b] = position[b]
      BY <1>1, <1>3, <1>4, <1>5, <2>5
    <3> QED  BY <1>2, <1>3, <1>5, <2>5, <3>1 DEF StaleOnlyAhead
  <2> QED  BY <2>1, <2>3, <2>4, <2>5 DEF StaleOnlyAhead
<1>10. TransactionsKept'
  <2> SUFFICES ASSUME NEW b \in Built' \ failed'
               PROVE  transactions'[b] = [k \in DOMAIN transactions'[b] |->
                                            last'[b] - Len(transactions'[b]) + k]
    BY <1>1 DEF TransactionsKept, Idle
  <2>1. CASE b = a
    <3>1. transactions'[b] = <<>>
      BY <1>1, <1>2, <1>5, <2>1 DEF Working
    <3> QED  BY <3>1
  <2>2. CASE b # a
    <3>1. transactions'[b] = transactions[b] /\ last'[b] = last[b] /\ b \in Built \ failed
      BY <1>1, <1>5, <2>2
    <3>2. transactions[b] = [k \in DOMAIN transactions[b] |-> last[b] - Len(transactions[b]) + k]
      BY <1>1, <1>2, <3>1 DEF TransactionsKept, Idle
    <3> QED  BY <3>1, <3>2
  <2> QED  BY <2>1, <2>2
<1>11. DealAhead' /\ PullApplied' /\ AsksLiving' /\ DealSeen'
  BY <1>1 DEF DealAhead, PullApplied, AsksLiving, DealSeen, Idle
<1> QED  BY <1>7, <1>8, <1>9, <1>10, <1>11 DEF Inv

\* One that fails after it has filled the caches.
LEMMA ConstructFailsKeeps ==
  ASSUME Inv, NEW a \in Wrappers, ConstructFails(a)
  PROVE  Inv'
<1>1. /\ client = Idle
      /\ cache' = Got(Live(DOMAIN cache))
      /\ strays' = IF Built = {} THEN strays \cup Live(DOMAIN cache) ELSE strays
      /\ UNCHANGED <<log, position, last, transactions, client, failed>>
  BY DEF ConstructFails
<1>2. TypeOK /\ Working /\ StaleOnlyAhead /\ TransactionsKept
  BY DEF Inv
<1>3. /\ Now \in Nat /\ Now' = Now
      /\ \A i : Server(i)' = Server(i) /\ Server(i) \in 0 .. Now
      /\ \A i, n : Version(i, n)' = Version(i, n) /\ Alive(i, n)' = Alive(i, n)
  BY <1>1, LogSame
<1>4. /\ cache' \in [Orders \cup Trades -> 0 .. Now]
      /\ \A i \in Orders \cup Trades :
           cache'[i] = IF Alive(i, Server(i)) THEN Server(i) ELSE cache[i]
  BY <1>1, <1>2, FetchedAll
<1>5. DOMAIN cache = Orders \cup Trades /\ DOMAIN cache' = Orders \cup Trades /\ Built' = Built
  BY <1>1, <1>2, <1>4 DEF TypeOK, Built
<1>6. strays' \subseteq Orders \cup Trades /\ strays \subseteq strays'
  BY <1>1, <1>2, <1>5 DEF TypeOK, Live
<1>7. TypeOK'
  BY <1>1, <1>2, <1>3, <1>4, <1>6 DEF TypeOK, Client
<1>8. Working'
  <2>1. ASSUME Built = {}, NEW i \in Orders \cup Trades
        PROVE  cache'[i] = 0 \/ i \in strays'
    <3>1. CASE Alive(i, Server(i))
      BY <1>1, <1>5, <2>1, <3>1 DEF Live
    <3>2. CASE ~Alive(i, Server(i))
      BY <1>2, <1>4, <1>5, <1>6, <2>1, <3>2 DEF Working
    <3> QED  BY <3>1, <3>2
  <2> QED  BY <1>1, <1>2, <1>5, <2>1 DEF Working
<1>9. StaleOnlyAhead'
  <2>1. ASSUME NEW i \in Orders \cup Trades
        PROVE  /\ Alive(i, Server(i))' = Alive(i, Server(i))
               /\ Alive(i, cache[i])' = Alive(i, cache'[i])
    BY <1>1, <1>3 DEF Alive
  <2>2. ASSUME NEW i \in Orders \cup Trades, Alive(i, Server(i))'
        PROVE  cache'[i] = Server(i)'
    BY <1>3, <1>4, <2>1, <2>2
  <2>3. ASSUME NEW i \in Orders \cup Trades, ~Alive(i, Server(i))', Alive(i, cache[i])'
        PROVE  i \in strays' \/ \E b \in Built' : Server(i)' > last'[b]
    <3>1. cache'[i] = cache[i]
      BY <1>4, <2>1, <2>3
    <3>2. i \in strays \/ \E b \in Built : Server(i) > last[b]
      BY <1>2, <1>5, <2>1, <2>3, <3>1 DEF StaleOnlyAhead
    <3> QED  BY <1>1, <1>3, <1>5, <1>6, <3>2
  <2>4. ASSUME NEW b \in Built', position'[b] # Server(Position)'
        PROVE  Server(Position)' > last'[b]
    BY <1>1, <1>2, <1>3, <1>5, <2>4 DEF StaleOnlyAhead
  <2> QED  BY <1>5, <2>2, <2>3, <2>4 DEF StaleOnlyAhead
<1>10. TransactionsKept'
  BY <1>1, <1>2, <1>5 DEF TransactionsKept
<1>11. DealAhead' /\ PullApplied' /\ AsksLiving' /\ DealSeen'
  BY <1>1 DEF DealAhead, PullApplied, AsksLiving, DealSeen, Idle
<1> QED  BY <1>7, <1>8, <1>9, <1>10, <1>11 DEF Inv

\* The end of a pull takes the id that came with the changes.
LEMMA EndPullKeeps ==
  ASSUME Inv, EndPull
  PROVE  Inv'
<1> DEFINE w == client.who
<1>1. /\ client.at = "states"
      /\ last' = [last EXCEPT ![w] = client.to]
      /\ client' = Idle
      /\ UNCHANGED <<log, cache, position, transactions, failed, strays>>
  BY DEF EndPull, NewLast
<1>2. TypeOK /\ Working /\ StaleOnlyAhead /\ PullApplied /\ TransactionsKept
  BY DEF Inv
<1>3. /\ Now \in Nat /\ Now' = Now
      /\ \A i : Server(i)' = Server(i) /\ Server(i) \in 0 .. Now
      /\ \A i, n : Version(i, n)' = Version(i, n) /\ Alive(i, n)' = Alive(i, n)
  BY <1>1, LogSame
<1>4. /\ last \in [Wrappers -> NotBuilt .. Now] /\ w \in Built /\ client.to \in 0 .. Now
  BY <1>1, <1>2, ClientTypes DEF TypeOK, Working
<1>5. /\ Built' = Built
      /\ \A b \in Built : last'[b] = IF b = w THEN client.to ELSE last[b]
  BY <1>1, <1>3, <1>4 DEF Built, NotBuilt
<1>6. TypeOK'
  <2>1. last' \in [Wrappers -> NotBuilt .. Now]
    <3>1. client.to \in NotBuilt .. Now
      BY <1>3, <1>4 DEF NotBuilt
    <3> QED  BY <1>1, <1>4, <3>1
  <2> QED  BY <1>1, <1>2, <1>3, <2>1 DEF TypeOK, Client, Idle
<1>7. Working'
  BY <1>1, <1>2, <1>5 DEF Working, Idle
<1>8. StaleOnlyAhead'
  <2>1. ASSUME NEW i
        PROVE  /\ Alive(i, Server(i))' = Alive(i, Server(i))
               /\ Alive(i, cache[i])' = Alive(i, cache[i])
    BY <1>1, <1>3 DEF Alive
  <2>2. ASSUME NEW i \in DOMAIN cache, NEW b \in Built,
               Alive(i, Server(i))', cache'[i] # Server(i)'
        PROVE  Server(i)' > last'[b]
    BY <1>1, <1>2, <1>3, <1>5, <2>1, <2>2 DEF StaleOnlyAhead, PullApplied
  <2>3. ASSUME NEW i \in DOMAIN cache, ~Alive(i, Server(i))', Alive(i, cache[i])'
        PROVE  i \in strays \/ \E b \in Built : Server(i)' > last'[b]
    <3>1. i \in strays \/ Server(i) > client.to \/ \E b \in Built \ {w} : Server(i) > last[b]
      BY <1>1, <1>2, <2>1, <2>3 DEF PullApplied
    <3> QED  BY <1>3, <1>4, <1>5, <3>1
  <2>4. ASSUME NEW b \in Built, position'[b] # Server(Position)'
        PROVE  Server(Position)' > last'[b]
    BY <1>1, <1>2, <1>3, <1>5, <2>4 DEF StaleOnlyAhead, PullApplied
  <2> QED  BY <1>1, <1>5, <2>2, <2>3, <2>4 DEF StaleOnlyAhead
<1>9. TransactionsKept'
  <2> SUFFICES ASSUME NEW b \in Built \ failed
               PROVE  transactions[b] = [k \in DOMAIN transactions[b] |->
                                           last'[b] - Len(transactions[b]) + k]
    BY <1>1, <1>5 DEF TransactionsKept, Idle
  <2> QED  BY <1>1, <1>2, <1>5 DEF TransactionsKept
<1>10. DealAhead' /\ PullApplied' /\ AsksLiving' /\ DealSeen'
  BY <1>1 DEF DealAhead, PullApplied, AsksLiving, DealSeen, Idle
<1> QED  BY <1>6, <1>7, <1>8, <1>9, <1>10 DEF Inv

(* What is kept of the transactions: the last ones, at most Depth.         *)
LEMMA TrimProperties ==
  ASSUME NEW S, NEW s \in Seq(S)
  PROVE  /\ Trim(s) \in Seq(S)
         /\ Len(Trim(s)) <= Depth /\ Len(Trim(s)) <= Len(s)
         /\ \A k \in 1 .. Len(Trim(s)) : Trim(s)[k] = s[Len(s) - Len(Trim(s)) + k]
<1> DEFINE n == Len(s)
           m == Max({1, n - Depth + 1})
<1>1. n \in Nat /\ Depth \in Nat
  BY AccountAssumption, LenProperties
<1>2. m = IF n > Depth THEN n - Depth + 1 ELSE 1
  <2>1. CASE n > Depth
    <3>1. \A x \in {1, n - Depth + 1} : (\A y \in {1, n - Depth + 1} : x >= y) <=> x = n - Depth + 1
      BY <1>1, <2>1
    <3> QED  BY <2>1, <3>1 DEF Max
  <2>2. CASE ~(n > Depth)
    <3>1. \A x \in {1, n - Depth + 1} : (\A y \in {1, n - Depth + 1} : x >= y) <=> x = 1
      BY <1>1, <2>2
    <3> QED  BY <2>2, <3>1 DEF Max
  <2> QED  BY <2>1, <2>2
<1>3. Trim(s) = SubSeq(s, m, n) /\ m \in 1 .. n + 1
  BY <1>1, <1>2 DEF Trim
<1> HIDE DEF m
<1>4. \A i \in m .. n : s[i] \in S
  BY <1>1, <1>3, ElementOfSeq
<1>5. /\ SubSeq(s, m, n) \in Seq(S)
      /\ Len(SubSeq(s, m, n)) = IF m <= n THEN n - m + 1 ELSE 0
      /\ \A i \in 1 .. n - m + 1 : SubSeq(s, m, n)[i] = s[m + i - 1]
  BY <1>1, <1>3, <1>4, SubSeqProperties
<1>6. Len(Trim(s)) = n - m + 1
  BY <1>1, <1>3, <1>5
<1>7. ASSUME NEW k \in 1 .. Len(Trim(s))
      PROVE  Trim(s)[k] = s[n - Len(Trim(s)) + k]
  <2>1. Trim(s)[k] = s[m + k - 1]
    BY <1>3, <1>5, <1>6
  <2>2. n - Len(Trim(s)) + k = m + k - 1
    BY <1>1, <1>3, <1>6
  <2> QED  BY <2>1, <2>2
<1>8. n - m + 1 <= Depth /\ n - m + 1 <= n
  BY <1>1, <1>2
<1>9. Trim(s) \in Seq(S)
  BY <1>3, <1>5
<1> QED  BY <1>6, <1>7, <1>8, <1>9

\* The states that are asked for, in whichever order.
LEMMA TodoProperties ==
  ASSUME NEW S, IsFiniteSet(S)
  PROVE  SetToSeq(S) \in Seq(S)
<1>1. Cardinality(S) \in Nat /\ ExistsBijection(1 .. Cardinality(S), S)
  BY FS_CardinalityType
<1>2. \E f \in [1 .. Cardinality(S) -> S] : IsInjective(f)
  BY <1>1 DEF ExistsBijection, Bijection, Injection, IsInjective
<1>3. SetToSeq(S) \in [1 .. Cardinality(S) -> S]
  BY <1>2 DEF SetToSeq
<1> QED  BY <1>1, <1>3

LEMMA AskedLive ==
  LET todo == SetToSeq(Live(Trades)) \o SetToSeq(Live(Orders))
  IN  /\ todo \in Seq(Orders \cup Trades)
      /\ \A k \in DOMAIN todo : Alive(todo[k], Server(todo[k]))
<1> DEFINE S == {i \in Orders \cup Trades : Alive(i, Server(i))}
           todo == SetToSeq(Live(Trades)) \o SetToSeq(Live(Orders))
<1>1. IsFiniteSet(Live(Trades)) /\ IsFiniteSet(Live(Orders))
  BY AccountAssumption, FS_Subset DEF Live
<1>2. SetToSeq(Live(Trades)) \in Seq(Live(Trades)) /\ SetToSeq(Live(Orders)) \in Seq(Live(Orders))
  BY <1>1, TodoProperties
<1>3. Live(Trades) \subseteq S /\ Live(Orders) \subseteq S
  BY DEF Live
<1>4. SetToSeq(Live(Trades)) \in Seq(S) /\ SetToSeq(Live(Orders)) \in Seq(S)
  BY <1>2, <1>3, SeqMonotonic
<1>5. todo \in Seq(S)
  BY <1>4, ConcatProperties
<1>6. S \subseteq Orders \cup Trades
  OBVIOUS
<1>7. todo \in Seq(Orders \cup Trades)
  BY <1>5, <1>6, SeqMonotonic
<1>8. \A k \in DOMAIN todo : todo[k] \in S
  <2> HIDE DEF todo, S
  <2> QED  BY <1>5, ElementOfSeq, LenProperties
<1> QED  BY <1>7, <1>8

\* The changes since the last id, and what is asked for after them.
LEMMA RequestKeeps ==
  ASSUME Inv, NEW a \in Built, NEW deal \in SUBSET Item,
         client.at # "states", \A i \in deal : Server(i) > last[a],
         RequestChanges(a, deal)
  PROVE  Inv'
<1> DEFINE todo == SetToSeq(Live(Trades)) \o SetToSeq(Live(Orders))
<1>1. /\ cache' = [i \in DOMAIN cache |-> Applied(i, last[a])]
      /\ position' = [position EXCEPT ![a] =
           IF Server(Position) > last[a] THEN Server(Position) ELSE position[a]]
      /\ transactions' = [transactions EXCEPT ![a] =
           Trim(transactions[a] \o [k \in 1 .. Now - last[a] |-> last[a] + k])]
      /\ client' = [at |-> "states", who |-> a, to |-> Now, deal |-> deal, todo |-> todo]
      /\ UNCHANGED <<log, last, failed, strays>>
  BY DEF RequestChanges
<1>2. TypeOK /\ Working /\ StaleOnlyAhead /\ TransactionsKept
  BY DEF Inv
<1>3. /\ Now \in Nat /\ Now' = Now
      /\ \A i : Server(i)' = Server(i) /\ Server(i) \in 0 .. Now
      /\ \A i, n : Version(i, n)' = Version(i, n) /\ Alive(i, n)' = Alive(i, n)
  BY <1>1, LogSame
<1>4. a \in Wrappers /\ last[a] \in 0 .. Now /\ Built' = Built
  BY <1>1, <1>2, <1>3 DEF Built, TypeOK, NotBuilt
<1>5. todo \in Seq(Orders \cup Trades) /\ \A k \in DOMAIN todo : Alive(todo[k], Server(todo[k]))
  BY AskedLive
<1> HIDE DEF todo
<1>6. /\ client'.at = "states" /\ client'.who = a /\ client'.to = Now /\ client'.deal = deal
      /\ client'.todo = todo
  BY <1>1
\* The caches agree with the server at this moment, but for what ended after the id
\* of another wrapper and before this one's.
<1>7. /\ cache \in [Orders \cup Trades -> 0 .. Now]
      /\ DOMAIN cache' = Orders \cup Trades
      /\ \A i \in Orders \cup Trades : cache'[i] = Applied(i, last[a])
  BY <1>1, <1>2 DEF TypeOK
<1>8. ASSUME NEW i \in Orders \cup Trades
      PROVE  /\ cache'[i] \in 0 .. Now
             /\ Alive(i, Server(i)) => cache'[i] = Server(i)
             /\ Server(i) > last[a] /\ ~Alive(i, Server(i)) => cache'[i] = 0
             /\ ~Alive(i, Server(i)) /\ Alive(i, cache'[i]) =>
                  i \in strays \/ \E b \in Built \ {a} : Server(i) > last[b]
  <2>1. CASE Server(i) <= last[a]
    <3>1. cache'[i] = cache[i]
      BY <1>7, <2>1 DEF Applied
    <3>2. Alive(i, Server(i)) => cache[i] = Server(i)
      BY <1>2, <1>3, <1>4, <1>7, <2>1 DEF StaleOnlyAhead
    <3>3. ~Alive(i, Server(i)) /\ Alive(i, cache[i]) =>
            i \in strays \/ \E b \in Built : Server(i) > last[b]
      BY <1>2, <1>7 DEF StaleOnlyAhead
    <3> QED  BY <1>3, <1>4, <1>7, <2>1, <3>1, <3>2, <3>3
  <2>2. CASE ~(Server(i) <= last[a])
    <3>1. cache'[i] = IF Alive(i, Server(i)) THEN Server(i) ELSE 0
      BY <1>7, <2>2 DEF Applied
    <3>2. ~Alive(i, 0)
      BY DEF Alive
    <3> QED  BY <1>3, <3>1, <3>2
  <2> QED  BY <2>1, <2>2
<1>9. ASSUME NEW i
      PROVE  /\ Alive(i, Server(i))' = Alive(i, Server(i))
             /\ Alive(i, cache[i])' = Alive(i, cache'[i])
  BY <1>1, <1>3 DEF Alive
<1>10. position'[a] = Server(Position) /\ position' \in [Wrappers -> 0 .. Now]
       /\ \A b \in Wrappers \ {a} : position'[b] = position[b]
  <2>1. position \in [Wrappers -> 0 .. Now]
    BY <1>2 DEF TypeOK
  <2>2. ~(Server(Position) > last[a]) => position[a] = Server(Position)
    BY <1>2, <1>3 DEF StaleOnlyAhead
  <2> QED  BY <1>1, <1>3, <1>4, <2>1, <2>2
\* The transactions.
<1>11. /\ transactions'[a] \in Seq(1 .. Now) /\ Len(transactions'[a]) <= Depth
       /\ a \notin failed => transactions'[a] = [k \in DOMAIN transactions'[a] |->
                                                  Now - Len(transactions'[a]) + k]
  <2> DEFINE n == Now - last[a]
             old == transactions[a]
             new == [k \in 1 .. n |-> last[a] + k]
             s == old \o new
  <2>1. old \in Seq(1 .. Now) /\ new \in Seq(1 .. Now) /\ Len(new) = n /\ n \in Nat
    <3>1. old \in Seq(1 .. Now)
      BY <1>2, <1>4 DEF TypeOK
    <3>2. n \in Nat /\ \A k \in 1 .. n : last[a] + k \in 1 .. Now
      BY <1>3, <1>4
    <3> HIDE DEF n, old
    <3>3. new \in [1 .. n -> 1 .. Now] /\ DOMAIN new = 1 .. n
      BY <3>2
    <3> QED  BY <3>1, <3>2, <3>3
  <2>2. transactions'[a] = Trim(s)
    BY <1>1, <1>2, <1>4 DEF TypeOK
  <2>3. a \notin failed => \A k \in 1 .. Len(old) : old[k] = last[a] - Len(old) + k
    <3>1. a \notin failed => old = [k \in DOMAIN old |-> last[a] - Len(old) + k]
      BY <1>2 DEF TransactionsKept
    <3>2. DOMAIN old = 1 .. Len(old)
      BY <2>1, LenProperties
    <3> HIDE DEF old
    <3> QED  BY <3>1, <3>2
  <2>4. \A k \in 1 .. n : new[k] = last[a] + k
    OBVIOUS
  <2>5. Len(old) \in Nat
    BY <2>1, LenProperties
  <2> HIDE DEF old, new
  <2>6. /\ s \in Seq(1 .. Now)
        /\ Len(s) = Len(old) + Len(new)
        /\ \A k \in 1 .. Len(old) + Len(new) : s[k] = IF k <= Len(old) THEN old[k] ELSE new[k - Len(old)]
    BY <2>1, ConcatProperties
  <2> HIDE DEF s
  <2>7. ASSUME a \notin failed, NEW k \in 1 .. Len(s)
        PROVE  s[k] = Now - Len(s) + k
    <3>1. CASE k <= Len(old)
      <4>1. s[k] = last[a] - Len(old) + k
        BY <2>1, <2>3, <2>5, <2>6, <2>7, <3>1
      <4> QED  BY <1>3, <1>4, <2>1, <2>5, <2>6, <4>1
    <3>2. CASE ~(k <= Len(old))
      <4>1. k - Len(old) \in 1 .. n
        BY <2>1, <2>5, <2>6, <3>2
      <4>2. s[k] = new[k - Len(old)]
        BY <2>1, <2>5, <2>6, <3>2
      <4>3. s[k] = last[a] - Len(old) + k
        <5>1. s[k] = last[a] + (k - Len(old))
          BY <2>4, <4>1, <4>2
        <5> QED  BY <1>4, <2>5, <2>6, <5>1
      <4> QED  BY <1>3, <1>4, <2>1, <2>5, <2>6, <4>3
    <3> QED  BY <3>1, <3>2
  <2>8. /\ Trim(s) \in Seq(1 .. Now)
        /\ Len(Trim(s)) <= Depth /\ Len(Trim(s)) <= Len(s)
        /\ \A k \in 1 .. Len(Trim(s)) : Trim(s)[k] = s[Len(s) - Len(Trim(s)) + k]
    BY <2>6, TrimProperties
  <2>9. Len(Trim(s)) \in Nat /\ DOMAIN Trim(s) = 1 .. Len(Trim(s)) /\ Len(s) \in Nat
        /\ Trim(s) = [k \in 1 .. Len(Trim(s)) |-> Trim(s)[k]]
    BY <2>6, <2>8, LenProperties
  <2>10. ASSUME a \notin failed, NEW k \in 1 .. Len(Trim(s))
         PROVE  Trim(s)[k] = Now - Len(Trim(s)) + k
    <3>1. Len(s) - Len(Trim(s)) + k \in 1 .. Len(s)
      BY <2>8, <2>9
    <3>2. Trim(s)[k] = Now - Len(s) + (Len(s) - Len(Trim(s)) + k)
      BY <2>7, <2>8, <2>10, <3>1
    <3> QED  BY <1>3, <2>9, <3>2
  <2> QED  BY <2>2, <2>8, <2>9, <2>10
<1>12. \A b \in Wrappers \ {a} : transactions'[b] = transactions[b]
  BY <1>1, <1>2 DEF TypeOK
\* The invariant, part by part.
<1>13. TypeOK'
  <2>1. transactions' \in [Wrappers -> Seq(1 .. Now)]
    BY <1>1, <1>2, <1>4, <1>11, <1>12 DEF TypeOK
  <2>2. \A b \in Wrappers : Len(transactions'[b]) <= Depth
    BY <1>2, <1>11, <1>12 DEF TypeOK
  <2>3. cache' \in [Orders \cup Trades -> 0 .. Now]
    BY <1>1, <1>7, <1>8
  <2>4. client' \in Client'
    <3>1. Now \in 0 .. Now
      BY <1>3
    <3> QED  BY <1>1, <1>3, <1>4, <1>5, <3>1 DEF Client
  <2> QED  BY <1>1, <1>2, <1>3, <1>10, <2>1, <2>2, <2>3, <2>4 DEF TypeOK
<1>14. Working'
  BY <1>2, <1>4, <1>6, <1>12 DEF Working
<1>15. DealAhead'
  BY <1>6 DEF DealAhead
<1>16. PullApplied'
  <2>1. ASSUME NEW i \in Orders \cup Trades, Alive(i, Server(i))'
        PROVE  cache'[i] = Server(i)'
    BY <1>3, <1>8, <1>9, <2>1
  <2>2. ASSUME NEW i \in Orders \cup Trades, ~Alive(i, Server(i))', Alive(i, cache[i])'
        PROVE  i \in strays' \/ \E b \in Built' \ {client'.who} : Server(i)' > last'[b]
    BY <1>1, <1>3, <1>4, <1>6, <1>8, <1>9, <2>2
  <2>3. position'[client'.who] = Server(Position)'
    BY <1>3, <1>6, <1>10
  <2> QED  BY <1>7, <2>1, <2>2, <2>3 DEF PullApplied
<1>17. AsksLiving'
  <2> SUFFICES ASSUME NEW i \in Orders \cup Trades, NEW n \in 0 .. Now', client'.to = n,
                      NEW k \in DOMAIN client'.todo, client'.todo[k] = i
               PROVE  Alive(i, Version(i, n))'
    BY DEF AsksLiving
  <2>1. Alive(i, Server(i)) /\ n = Now
    BY <1>5, <1>6
  <2> QED  BY <1>1, <1>3, <2>1 DEF Server, Alive
<1>18. DealSeen'
  <2> SUFFICES ASSUME NEW n \in 0 .. Now', client'.to = n
               PROVE  /\ \A i \in Orders \cup Trades :
                           i \in client'.deal =>
                             IF Alive(i, Version(i, n))' THEN cache'[i] >= Version(i, n)'
                             ELSE cache'[i] = 0
                      /\ Position \in client'.deal =>
                           position'[client'.who] >= Version(Position, n)'
    BY DEF DealSeen
  <2>1. n = Now
    BY <1>6
  <2>2. \A i : Version(i, n)' = Server(i) /\ Alive(i, Version(i, n))' = Alive(i, Server(i))
    BY <1>1, <1>3, <2>1 DEF Server, Alive
  <2>3. ASSUME NEW i \in Orders \cup Trades, i \in deal
        PROVE  IF Alive(i, Version(i, n))' THEN cache'[i] >= Version(i, n)' ELSE cache'[i] = 0
    BY <1>3, <1>8, <2>2, <2>3
  <2>4. position'[client'.who] >= Version(Position, n)'
    BY <1>3, <1>6, <1>10, <2>2
  <2> QED  BY <1>6, <2>3, <2>4
<1>19. StaleOnlyAhead'
  <2>1. ASSUME NEW i \in Orders \cup Trades, ~Alive(i, Server(i))', Alive(i, cache[i])'
        PROVE  i \in strays' \/ \E b \in Built : Server(i)' > last'[b]
    BY <1>1, <1>3, <1>8, <1>9, <2>1
  <2>2. ASSUME NEW b \in Built, position'[b] # Server(Position)'
        PROVE  Server(Position)' > last'[b]
    BY <1>1, <1>2, <1>3, <1>10, <2>2 DEF StaleOnlyAhead, Built
  <2> QED  BY <1>3, <1>4, <1>7, <1>8, <1>9, <2>1, <2>2 DEF StaleOnlyAhead
<1>20. TransactionsKept'
  <2> SUFFICES ASSUME NEW b \in Built' \ failed'
               PROVE  LET seen == IF client'.at = "states" /\ client'.who = b THEN client'.to
                                  ELSE last'[b]
                          kept == transactions'[b]
                      IN  kept = [k \in DOMAIN kept |-> seen - Len(kept) + k]
    BY DEF TransactionsKept
  <2> b \in Built \ failed
    BY <1>1, <1>4
  <2>1. CASE b = a
    BY <1>6, <1>11, <2>1
  <2>2. CASE b # a
    <3>1. transactions'[b] = transactions[b]
      BY <1>12, <2>2 DEF Built
    <3>2. transactions[b] = [k \in DOMAIN transactions[b] |-> last[b] - Len(transactions[b]) + k]
      BY <1>2 DEF TransactionsKept
    <3> QED  BY <1>1, <1>6, <2>2, <3>1, <3>2
  <2> QED  BY <2>1, <2>2
<1> QED  BY <1>13, <1>14, <1>15, <1>16, <1>17, <1>18, <1>19, <1>20 DEF Inv

LEMMA PullKeeps == Inv /\ Pull => Inv'
<1> SUFFICES ASSUME Inv, Pull PROVE Inv'
  OBVIOUS
<1>1. CASE Free /\ \E a \in Built : RequestChanges(a, {})
  <2>1. client.at # "states"
    BY <1>1 DEF Free, Idle
  <2> QED  BY <1>1, <2>1, RequestKeeps
<1>2. CASE client.at = "dealt" /\ RequestChanges(client.who, client.deal)
  <2>1. client.who \in Built /\ client.deal \in SUBSET Item
    BY <1>2, ClientTypes DEF Inv, Working
  <2>2. \A i \in client.deal : Server(i) > last[client.who]
    BY <1>2, <2>1 DEF Inv, DealAhead
  <2> QED  BY <1>2, <2>1, <2>2, RequestKeeps
<1> QED  BY <1>1, <1>2 DEF Pull

LEMMA InvNext == Inv /\ [Next]_vars => Inv'
<1> SUFFICES ASSUME Inv, [Next]_vars PROVE Inv'
  OBVIOUS
<1>1. CASE MarketMoves
  BY <1>1, MarketMovesServes, InvServed
<1>2. ASSUME NEW a \in Wrappers, Construct(a) PROVE Inv'
  BY <1>2, ConstructKeeps
<1>3. ASSUME NEW a \in Wrappers, ConstructFails(a) PROVE Inv'
  BY <1>3, ConstructFailsKeeps
<1>4. ASSUME NEW a \in Wrappers, PlaceOrder(a) PROVE Inv'
  BY <1>4, PlaceOrderServes, InvServed
<1>5. ASSUME NEW a \in Wrappers, CloseTrade(a) PROVE Inv'
  BY <1>5, CloseTradeServes, InvServed
<1>6. CASE Lookup
  BY <1>6, LookupServes, InvServed
<1>7. CASE PullPosition
  BY <1>7, PullPositionServes, InvServed
<1>8. CASE PlaceExit
  BY <1>8, PlaceExitServes, InvServed
<1>9. CASE CancelOrder
  BY <1>9, CancelOrderServes, InvServed
<1>10. CASE ClosePosition
  BY <1>10, ClosePositionServes, InvServed
<1>11. CASE Pull
  BY <1>11, PullKeeps
<1>12. CASE FetchState
  BY <1>12, FetchStateServes, InvServed
<1>13. CASE EndPull
  BY <1>13, EndPullKeeps
<1>14. CASE PullFails
  BY <1>14, PullFailsServes, InvServed
<1>15. CASE UNCHANGED vars
  <2>1. Serves
    BY <1>15, LogAlone, CacheAlone, PositionAlone, ClientAlone DEF vars, Serves
  <2> QED  BY <2>1, InvServed
<1> QED
  BY <1>1, <1>2, <1>3, <1>4, <1>5, <1>6, <1>7, <1>8,
     <1>9, <1>10, <1>11, <1>12, <1>13, <1>14, <1>15
  DEF Next

LEMMA InvAlways == Spec => []Inv
BY InvInit, InvNext, PTL DEF Spec

-----------------------------------------------------------------------------
(* The caches of broker/oanda hold transactions of the server, no more     *)
(* than transaction_cache_depth, for any account and any history of it.    *)
THEOREM TypeCorrect == Spec => []TypeOK
<1>1. Inv => TypeOK
  BY DEF Inv
<1> QED  BY <1>1, InvAlways, PTL

(* account.py never misses a change for good: whatever the mixture of      *)
(* wrappers, pulls, failed pulls, lookups and own changes, the caches lag  *)
(* behind the server only by what came after the last transaction id and   *)
(* by what failed constructors left before there was a wrapper.            *)
THEOREM CachesLag == Spec => []StaleOnlyAhead
<1>1. Inv => StaleOnlyAhead
  BY DEF Inv
<1> QED  BY <1>1, InvAlways, PTL

(* The cached transactions of a wrapper (apply_changes) are the last ones  *)
(* up to its id, without a gap or a repetition, unless a pull of it failed *)
(* half-way.                                                               *)
THEOREM TransactionsCorrect == Spec => []TransactionsKept
<1>1. Inv => TransactionsKept
  BY DEF Inv
<1> QED  BY <1>1, InvAlways, PTL

(* A call that pulls because of its own deal (_process_order_response,     *)
(* close_trade) has in the caches, before it returns, every order and      *)
(* trade its transactions changed and the position: also the trade that a  *)
(* market order opened.                                                    *)
THEOREM DealsSeen == Spec => []OwnDealsSeen
<1>1. Inv => OwnDealsSeen
  <2> SUFFICES ASSUME Inv, client.at = "states"
               PROVE  /\ \A i \in client.deal \cap DOMAIN cache :
                           IF Alive(i, Version(i, client.to))
                           THEN cache[i] >= Version(i, client.to) ELSE cache[i] = 0
                      /\ Position \in client.deal =>
                           position[client.who] >= Version(Position, client.to)
    BY DEF OwnDealsSeen
  <2>1. client.to \in 0 .. Now /\ DOMAIN cache = Orders \cup Trades
    BY ClientTypes DEF Inv, TypeOK
  <2> QED  BY <2>1 DEF Inv, DealSeen
<1> QED  BY <1>1, InvAlways, PTL
=============================================================================
