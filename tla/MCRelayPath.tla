----------------------------- MODULE MCRelayPath -----------------------------
(* Small instances of RelayPath for TLC.                                   *)
EXTENDS RelayPath
===============================================================================
