------------------------------ MODULE MCHandshake ------------------------------
(* Small instances of Handshake for TLC: the allowed drift is the one of   *)
(* the code, the drifts are on both sides of it.                           *)
EXTENDS Handshake

CONSTANTS k1, k2, none, empty, c1

OneConn == {c1}
TwoIds == {1, 2}
TwoKeys == {k1, k2}
DriftsAtTheLimit == {30, 31}
===============================================================================
