------------------------------- MODULE Keyring -------------------------------
(***************************************************************************)
(* What a caller of the key manager relies on: a set of keys one of which, *)
(* the primary one, may always be used.  Each operation is a single step.  *)
(***************************************************************************)
CONSTANTS KeyIds, Keys, EmptyKey

VARIABLES
  primary,   \* the id of the key that new connections announce
  keyring    \* keyring[id]: the key of that id, or EmptyKey

vars == <<primary, keyring>>

Init ==
  /\ primary \in KeyIds
  /\ \E key \in Keys :
       keyring = [id \in KeyIds |-> IF id = primary THEN key ELSE EmptyKey]

Install(id, key) ==
  /\ keyring' = [keyring EXCEPT ![id] = key]
  /\ UNCHANGED primary

(* Only a key that is there can become the primary one ...                 *)
Promote(id) ==
  /\ keyring[id] # EmptyKey
  /\ primary' = id
  /\ UNCHANGED keyring

(* ... and the primary one cannot be taken away.                           *)
Retire(id) ==
  /\ id # primary
  /\ keyring' = [keyring EXCEPT ![id] = EmptyKey]
  /\ UNCHANGED primary

Next ==
  \E id \in KeyIds : (\E key \in Keys : Install(id, key)) \/ Promote(id) \/ Retire(id)

Spec == Init /\ [][Next]_vars
===============================================================================
