----------------------------- MODULE MCKeyManager -----------------------------
(* Small instances of KeyManager for TLC: tasks, ids and keys are model    *)
(* values.                                                                 *)
EXTENDS KeyManager

CONSTANTS k1, none, empty, alice, bob, hs

TwoAdmins == {alice, bob}
OneReader == {hs}
TwoIds == {1, 2}
OneKey == {k1}
===============================================================================
