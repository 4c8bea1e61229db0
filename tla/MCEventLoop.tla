---------------------------- MODULE MCEventLoop ----------------------------
(* A small instance of EventLoop for TLC: two pairs, the second with fewer  *)
(* rows of data than the first.                                             *)
EXTENDS EventLoop

MCPairs == <<"EURUSD", "GBPUSD">>
MCBids == [EURUSD |-> {1, 2}, GBPUSD |-> {1}]
MCRows == [EURUSD |-> 4, GBPUSD |-> 3]
=============================================================================
