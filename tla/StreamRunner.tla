---------------------------- MODULE StreamRunner ----------------------------
(***************************************************************************)
(* The process of the live system: FXCMStreamRunner (broker/fxcm/          *)
(* streaming.py), its main loop, its connection to the broker and what     *)
(* happens to both when the market opens and closes, when the network or   *)
(* a handler fails, when somebody puts a connect event into the queue      *)
(* (event/debug.py), and when the process dies and supervisord starts it   *)
(* again.                                                                  *)
(*                                                                         *)
(* The runner and the handlers each keep a reference to the connection:    *)
(* self.fxcm, and account.fxcmpy of the one account all handlers share.    *)
(* new_connect drops self.fxcm before it has another one, and gives the    *)
(* handlers the new one last of all, so whatever raises on the way leaves  *)
(* the process in two minds. Most callers let the exception through, which *)
(* ends the process; market_open does not.                                 *)
(***************************************************************************)
EXTENDS Integers, Sequences

CONSTANTS
  BeatEvery,    \* loop iterations between two heartbeats (HEARTBEAT / LOOP_SLEEP)
  RenewEvery,   \* handler errors between two renewals of the connection
  Burst,        \* bound: events put from outside between two moments the runner
                \* finds its queue empty
  MaxDeaths     \* bound: process deaths in a behaviour

ASSUME BoundAssumption ==
  /\ BeatEvery \in Nat \ {0}
  /\ RenewEvery \in Nat \ {0}
  /\ Burst \in Nat
  /\ MaxDeaths \in Nat

VARIABLES
  world,        \* what is_market_open() answers
  \* The connection.
  conn,         \* self.fxcm: none, closed (by us), lost (by the network), silent
                \* (connected, but no ticks come), live
  shared,       \* account.fxcmpy is self.fxcm
  stale,        \* last_tick_time is more than 60 seconds ago
  \* The runner.
  queue,        \* the types of the events in RedisQueue('FXCM')
  pc,           \* the main loop: down, drain, handle, status, closing, beat, check
  market,       \* self.is_market_open
  loops,        \* loop_counter modulo BeatEvery
  initialized,  \* the StartUpEvent has been put
  errors,       \* error_counter modulo RenewEvery
  \* Bookkeeping of the model.
  burst,        \* events put from outside since the queue was last found empty
  deaths        \* process deaths so far

vars == <<world, conn, shared, stale, queue, pc, market, loops, initialized,
          errors, burst, deaths>>
link == <<conn, shared>>
counters == <<loops, initialized, errors>>

Connected == {"lost", "silent", "live"}
Order == {"CONNECT", "RECONNECT", "DISCONNECT", "MARKET_CLOSE", "MARKET_OPEN",
          "NEW_CONNECT", "STATUS"}
Handled == {"TICK_PRICE", "HEARTBEAT", "STARTUP", "MARKET"}
Event == Order \cup Handled

(* Every variable stays in its range; the loop never gets past the market  *)
(* check with the market closed, and is in its closing branch only while   *)
(* the market still counts as open.                                        *)
TypeOK ==
  /\ world \in BOOLEAN
  /\ conn \in Connected \cup {"none", "closed"}
  /\ shared \in BOOLEAN
  /\ stale \in BOOLEAN
  /\ queue \in Seq(Event)
  /\ pc \in {"down", "drain", "handle", "status", "closing", "beat", "check"}
  /\ pc \in {"handle", "closing", "beat", "check"} => market
  /\ market \in BOOLEAN
  /\ initialized \in BOOLEAN
  /\ loops \in 0 .. BeatEvery - 1
  /\ errors \in 0 .. RenewEvery - 1
  /\ burst \in 0 .. Burst
  /\ deaths \in 0 .. MaxDeaths

-----------------------------------------------------------------------------
(* What a call on the connection leaves behind: in how far the runner's    *)
(* connection works, and whether the handlers use the same one.            *)

\* A mutant of NewConnect that swallows what is raised on the way.
NewConnectSwallowed ==
  \/ conn' \in Connected /\ shared' = TRUE
  \/ conn' \in Connected \cup {"none"} /\ shared' = FALSE

\* new_connect: the new object is subscribed and handed to the handlers.
NewConnect == conn' \in Connected /\ shared' = TRUE

\* new_connect that raises: there is no new object, or one the handlers do not
\* have because subscribing to it failed.
NewConnectRaises == conn' \in Connected \cup {"none"} /\ shared' = FALSE

\* reconnect and connect work on the object there is.
Reconnect == conn' \in Connected /\ UNCHANGED shared

\* reconnect that raises: in close, in connect, or in subscribe_pair.
ReconnectRaises == conn' \in Connected \cup {"closed", conn} /\ UNCHANGED shared

Close == conn' = "closed" /\ UNCHANGED shared

\* market_open answers whether it got through; nothing leaves it.
MarketOpens == IF conn = "none" THEN NewConnect ELSE Reconnect
MarketOpenFails == IF conn = "none" THEN NewConnectRaises ELSE ReconnectRaises

\* An exception leaves run(), or the process is killed. Its memory is gone, the
\* queue is not.
Dies ==
  /\ deaths < MaxDeaths
  /\ deaths' = deaths + 1
  /\ pc' = "down"
  /\ conn' = "none"
  /\ shared' = FALSE
  /\ stale' = FALSE
  /\ market' = FALSE
  /\ loops' = 0
  /\ initialized' = FALSE
  /\ errors' = 0
  /\ UNCHANGED <<world, burst>>

-----------------------------------------------------------------------------
(* The world around the process.                                           *)

MarketTurns ==
  /\ world' = ~world
  /\ UNCHANGED <<link, stale, queue, pc, market, counters, burst, deaths>>

\* A connection that was not closed on purpose is lost, found again or goes silent.
Network ==
  /\ pc # "down"
  /\ conn \in Connected
  /\ conn' \in Connected \ {conn}
  /\ UNCHANGED <<world, shared, stale, queue, pc, market, counters, burst, deaths>>

\* A minute passes without a tick.
Age ==
  /\ pc # "down"
  /\ ~stale
  /\ stale' = TRUE
  /\ UNCHANGED <<world, link, queue, pc, market, counters, burst, deaths>>

PutFromOutside(e) ==
  /\ burst < Burst
  /\ burst' = burst + 1
  /\ queue' = Append(queue, e)

\* tick_data.
Tick ==
  /\ pc # "down"
  /\ conn = "live"
  /\ PutFromOutside("TICK_PRICE")
  /\ stale' = FALSE
  /\ UNCHANGED <<world, link, pc, market, counters, deaths>>

\* connect_debug, from a shell.
Debug(e) ==
  /\ PutFromOutside(e)
  /\ UNCHANGED <<world, link, stale, pc, market, counters, deaths>>

-----------------------------------------------------------------------------
(* run(): drain the queue, sleep, look at the market, beat, look at the    *)
(* connection. While the market is closed only the first three are done,   *)
(* and the queue is left alone.                                            *)

Remains == UNCHANGED <<world, stale, initialized, errors, deaths>>

\* get() and handle_event.
Take ==
  /\ pc = "drain" /\ market
  /\ queue # <<>> /\ Head(queue) \in Handled
  /\ queue' = Tail(queue)
  /\ pc' = "handle"
  /\ UNCHANGED <<link, market, loops, burst>>
  /\ Remains

\* process_event caught what a handler raised: handle_error renews the connection
\* if the broker refuses the account, and at every RenewEvery-th error.
HandlerFails ==
  /\ pc \in {"handle", "closing"}
  /\ \/ /\ errors' = (errors + 1) % RenewEvery
        /\ NewConnect \/ (errors' # 0 /\ UNCHANGED link)
        /\ UNCHANGED <<world, stale, queue, pc, market, loops, initialized, burst,
                       deaths>>
     \/ Dies /\ UNCHANGED queue

HandlersDone ==
  /\ pc = "handle"
  /\ pc' = "drain"
  /\ UNCHANGED <<link, queue, market, loops, burst>>
  /\ Remains

\* What process_connect_event does to the connection when nothing raises.
Obeys(e) ==
  CASE e \in {"CONNECT", "RECONNECT"} -> Reconnect
    [] e \in {"DISCONNECT", "MARKET_CLOSE"} -> Close
    [] e = "MARKET_OPEN" -> MarketOpens \/ MarketOpenFails
    [] e = "NEW_CONNECT" -> NewConnect
    [] e = "STATUS" -> UNCHANGED link

Obey ==
  /\ pc = "drain" /\ market
  /\ queue # <<>> /\ Head(queue) \in Order
  /\ queue' = Tail(queue)
  /\ \/ /\ Obeys(Head(queue))
        /\ UNCHANGED <<pc, market, loops, burst>>
        /\ Remains
     \/ Head(queue) # "MARKET_OPEN" /\ Dies

\* The queue is empty, or not looked at: sleep.
Sleep ==
  /\ pc = "drain"
  /\ market => queue = <<>>
  /\ pc' = "status"
  /\ loops' = (loops + 1) % BeatEvery
  /\ burst' = IF queue = <<>> THEN 0 ELSE burst
  /\ UNCHANGED <<link, queue, market>>
  /\ Remains

\* A mutant of Unchanged that beats and checks while the market is closed.
UnchangedBeats ==
  /\ pc = "status"
  /\ market = world
  /\ pc' = "beat"
  /\ UNCHANGED <<link, queue, market, loops, burst>>
  /\ Remains

\* check_market_status: nothing has changed.
Unchanged ==
  /\ pc = "status"
  /\ market = world
  /\ pc' = IF market THEN "beat" ELSE "drain"
  /\ UNCHANGED <<link, queue, market, loops, burst>>
  /\ Remains

\* Mutants of Opens: one that ignores what market_open answers, and one that does
\* not note that the market is open.
OpensAnyway ==
  /\ pc = "status"
  /\ ~market /\ world
  /\ MarketOpens \/ MarketOpenFails
  /\ market' = TRUE
  /\ queue' = Append(queue, "MARKET")
  /\ pc' = "beat"
  /\ UNCHANGED <<loops, burst>>
  /\ Remains
OpensUnnoted ==
  /\ pc = "status"
  /\ ~market /\ world
  /\ MarketOpens
  /\ pc' = "drain"
  /\ UNCHANGED <<queue, market, loops, burst>>
  /\ Remains

\* The market has opened, and market_open got through. The message that tells so
\* may raise after the event has been put.
Opens ==
  /\ pc = "status"
  /\ ~market /\ world
  /\ \/ /\ MarketOpens
        /\ market' = TRUE
        /\ pc' = "beat"
        /\ UNCHANGED <<loops, burst>>
        /\ Remains
     \/ Dies
  /\ queue' = Append(queue, "MARKET")

\* It did not: is_market_open stays False, so the next iteration tries again.
OpenFails ==
  /\ pc = "status"
  /\ ~market /\ world
  /\ MarketOpenFails
  /\ pc' = "drain"
  /\ UNCHANGED <<queue, market, loops, burst>>
  /\ Remains

\* The market has closed: the MarketEvent is handled on the spot, ...
Closes ==
  /\ pc = "status"
  /\ market /\ ~world
  /\ pc' = "closing"
  /\ UNCHANGED <<link, queue, market, loops, burst>>
  /\ Remains

\* A mutant of Closed that does not note that the market is closed.
ClosedUnnoted ==
  /\ pc = "closing"
  /\ Close
  /\ pc' = "drain"
  /\ UNCHANGED <<queue, market, loops, burst>>
  /\ Remains

\* ... then the connection is closed, a message sent, and only then does the market
\* count as closed. Both may raise.
Closed ==
  /\ pc = "closing"
  /\ \/ /\ Close
        /\ market' = FALSE
        /\ pc' = "drain"
        /\ UNCHANGED <<loops, burst>>
        /\ Remains
     \/ Dies
  /\ UNCHANGED queue

\* generate_heartbeat.
Beat ==
  /\ pc = "beat"
  /\ pc' = "check"
  /\ IF loops = 0
     THEN /\ queue' = queue \o IF initialized THEN <<"HEARTBEAT">>
                               ELSE <<"HEARTBEAT", "STARTUP">>
          /\ initialized' = TRUE
     ELSE UNCHANGED <<queue, initialized>>
  /\ UNCHANGED <<world, link, stale, market, loops, errors, burst, deaths>>

\* check_connection, while ticks come.
Fine ==
  /\ pc = "check"
  /\ ~stale
  /\ pc' = "drain"
  /\ UNCHANGED <<link, queue, market, loops, burst>>
  /\ Remains

\* A mutant of Mend that trusts a connection that calls itself connected.
MendLost ==
  CASE conn = "closed" -> Reconnect
    [] conn = "lost" -> NewConnect
    [] OTHER -> UNCHANGED link

\* No tick for a minute: what was closed is connected again, anything else is
\* replaced, even a connection that works.
Mend == IF conn = "closed" THEN Reconnect ELSE NewConnect

CheckConnection ==
  /\ pc = "check"
  /\ stale
  /\ \/ /\ Mend
        /\ pc' = "drain"
        /\ UNCHANGED <<market, loops, burst>>
        /\ Remains
     \/ Dies
  /\ UNCHANGED queue

\* The process is killed; inside a handler or between two events.
Crash ==
  /\ pc # "down"
  /\ Dies
  /\ UNCHANGED queue

\* supervisord starts the process again, and main.py gets as far as run(): the
\* account has connected, and the runner shares its connection. That subscribing to
\* it failed is logged and forgotten.
Restart ==
  /\ pc = "down"
  /\ pc' = "drain"
  /\ conn' \in Connected
  /\ shared' = TRUE
  /\ market' = world
  /\ UNCHANGED <<queue, loops, burst>>
  /\ Remains

-----------------------------------------------------------------------------
Init ==
  /\ world \in BOOLEAN
  /\ conn \in Connected
  /\ shared = TRUE
  /\ stale = FALSE
  /\ queue = <<>>
  /\ pc = "drain"
  /\ market = world
  /\ loops = 0
  /\ initialized = FALSE
  /\ errors = 0
  /\ burst = 0
  /\ deaths = 0

Outside ==
  \/ MarketTurns
  \/ Network
  \/ Age
  \/ Tick
  \/ \E e \in Order : Debug(e)

MainLoop ==
  \/ Take
  \/ HandlersDone
  \/ Obey
  \/ Sleep
  \/ Unchanged
  \/ Opens
  \/ OpenFails
  \/ Closes
  \/ Closed
  \/ Beat
  \/ Fine
  \/ CheckConnection

Next == Outside \/ MainLoop \/ HandlerFails \/ Crash \/ Restart

Spec == Init /\ [][Next]_vars

\* The main loop and supervisord go on, and time passes. Opening the market and
\* mending the connection do not fail every time they are tried. Nothing is assumed
\* of the network, and the handlers may fail as they like.
FairSpec ==
  /\ Spec
  /\ WF_vars(MainLoop)
  /\ WF_vars(Age)
  /\ WF_vars(Restart)
  /\ SF_vars(Opens /\ market')
  /\ SF_vars(CheckConnection /\ conn' = "live")

-----------------------------------------------------------------------------
(* A living process has a connection, and the handlers place their orders  *)
(* and read their trades on the same one the ticks come from: after        *)
(* whatever failed in whatever order, the connection the runner replaced   *)
(* is not in use any more.                                                 *)
OneConnection == pc # "down" => conn # "none" /\ shared

(* The runner calls the market open only with a connection that has been   *)
(* connected and subscribed again, and closed only with one it has closed; *)
(* a failed attempt leaves the market as it was.                           *)
MarketMovesWithConnection ==
  [][pc # "down" /\ pc' # "down" /\ market' # market
     => IF market' THEN conn' \in Connected ELSE conn' = "closed"]_vars

(* If the market stays open, ticks come in again and again, whatever the   *)
(* network, the shell or the handlers did to the connection.               *)
StreamsAgain == <>[]world => []<>(market /\ conn = "live")

(* If the market stays closed, the runner closes it too, for good.         *)
FollowsClosing == <>[]~world => <>[](~market)

(* If the market stays open, heartbeats keep coming. The trade manager's   *)
(* promises to adopt and to forget trades rest on this.                    *)
KeepsBeating == <>[]world => []<>(pc = "beat" /\ loops = 0)
=============================================================================
