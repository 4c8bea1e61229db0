---------------------------- MODULE TradeLedger -----------------------------
(***************************************************************************)
(* What the trade manager promises, without its queue, its snapshot, its   *)
(* heartbeats or its failures: which trades it may hold, when it may let   *)
(* one go, and what the database may say of a trade.                       *)
(*                                                                         *)
(*   - it holds only trades that exist at the broker, and after a restart  *)
(*     exactly those the broker lists;                                     *)
(*   - while the process lives it lets a trade go only if the broker no    *)
(*     longer lists it or has reported it closed;                          *)
(*   - the row of a trade is written in one of two forms, open or closed,  *)
(*     closed only for a trade it held whose close was reported, and never *)
(*     changes form again.                                                 *)
(***************************************************************************)
EXTENDS Integers

CONSTANT Trade

VARIABLES
  alive,     \* the process runs
  known,     \* trades the broker has accepted
  listed,    \* trades the broker lists as open positions
  reported,  \* trades whose close the broker reported
  held,      \* trades the manager manages
  record     \* record[t]: none, open or closed

vars == <<alive, known, listed, reported, held, record>>

Init ==
  /\ alive = TRUE
  /\ known = {}
  /\ listed = {}
  /\ reported = {}
  /\ held = {}
  /\ record = [t \in Trade |-> "none"]

\* The broker moves: a trade is accepted, listed, delisted, reported.
BrokerMoves ==
  /\ known \subseteq known' /\ known' \subseteq Trade
  /\ listed' \subseteq known'
  /\ reported \subseteq reported' /\ reported' \subseteq known'
  /\ UNCHANGED <<alive, held, record>>

Writes(t) ==
  \/ record'[t] = record[t]
  \/ record[t] = "none" /\ record'[t] = "open" /\ t \in held \cup listed
  \/ record[t] = "none" /\ record'[t] = "closed" /\ t \in (held \cap reported) \ held'

WritesRows ==
  /\ record' \in [Trade -> {"none", "open", "closed"}]
  /\ \A t \in Trade : Writes(t)

\* The manager takes trades up, lets trades go and writes rows.
Manages ==
  /\ alive /\ alive' = TRUE
  /\ held' \subseteq held \cup known
  /\ \A t \in held \ held' : t \notin listed \/ t \in reported
  /\ WritesRows
  /\ UNCHANGED <<known, listed, reported>>

\* The process dies: everything held is forgotten, rows may be half written.
Forgets ==
  /\ alive /\ alive' = FALSE
  /\ held' = {}
  /\ WritesRows
  /\ UNCHANGED <<known, listed, reported>>

\* It starts again with what the broker lists, all of it.
Recovers ==
  /\ ~alive /\ alive' = TRUE
  /\ held' = listed
  /\ UNCHANGED <<known, listed, reported, record>>

Next == BrokerMoves \/ Manages \/ Forgets \/ Recovers

Spec == Init /\ [][Next]_vars
=============================================================================
