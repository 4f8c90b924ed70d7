----------------------------- MODULE MCRelayServer -----------------------------
(* Small instances of RelayServer for TLC: one client more than sockets.   *)
EXTENDS RelayServer

CONSTANTS c1, c2, c3, noconn

ThreeConns == {c1, c2, c3}
===============================================================================
