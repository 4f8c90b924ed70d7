---------------------------- MODULE MCRelaySession ----------------------------
(* Small instances of RelaySession for TLC.                                *)
EXTENDS RelaySession
===============================================================================
