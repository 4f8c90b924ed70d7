------------------------------ MODULE KeyManager ------------------------------
(***************************************************************************)
(* DynamicKeyManager (src/src/pipeline/key_manager.rs).  The id of the     *)
(* primary key and the keyring are behind two RwLocks, and no operation    *)
(* holds both: rotate_primary_key, revoke_key and get_primary_key lock one *)
(* after the other, so each of them is two steps between which the other   *)
(* tasks run.  What a task has read in the first step is in arg.           *)
(***************************************************************************)
CONSTANTS
  KeyIds,
  Keys,       \* keys of at least 16 bytes
  EmptyKey,   \* Vec::default(): what a lookup gives for an id that is absent
  NoId,
  Admins,     \* the tasks that register, rotate and revoke
  Readers     \* the tasks that look keys up (the handshakes)

ASSUME KeysAssumption == EmptyKey \notin Keys /\ NoId \notin KeyIds
ASSUME TasksAssumption == Admins \cap Readers = {}

VARIABLES
  primary,   \* primary_key_id
  keyring,   \* keyring[id]: the key under id, EmptyKey when there is none
  pc,        \* pc[t]: the step task t performs next
  arg,       \* arg[t]: the id that step is about
  reply,     \* reply[t]: what the last operation of t returned
  race       \* history: ids that were being rotated to and revoked at once

vars == <<primary, keyring, pc, arg, reply, race>>

Tasks == Admins \cup Readers
Has(id) == keyring[id] # EmptyKey

(* Task t has passed the first lock with id and waits for the second.      *)
Suspend(t, step, id) ==
  /\ pc' = [pc EXCEPT ![t] = step]
  /\ arg' = [arg EXCEPT ![t] = id]

(* Task t returns r to its caller.                                         *)
Return(t, r) ==
  /\ pc' = [pc EXCEPT ![t] = "idle"]
  /\ arg' = [arg EXCEPT ![t] = NoId]
  /\ reply' = [reply EXCEPT ![t] = r]

(* An operation on id is between its steps; race collects the ids of which *)
(* a rotation to id and a revocation of id are, at the same time.          *)
Pending(step, id) == \E t \in Admins : pc[t] = step /\ arg[t] = id
NotesRace(step, id) == race' = IF Pending(step, id) THEN race \cup {id} ELSE race

Init ==
  /\ primary \in KeyIds
  /\ \E key \in Keys :
       keyring = [id \in KeyIds |-> IF id = primary THEN key ELSE EmptyKey]
  /\ pc = [t \in Tasks |-> "idle"]
  /\ arg = [t \in Tasks |-> NoId]
  /\ reply = [t \in Tasks |-> <<"none">>]
  /\ race = {}
-------------------------------------------------------------------------------
(* Slip: a key of any length is accepted, down to the empty one.           *)
AnyLength == Keys \cup {EmptyKey}

\* register_key: one lock; an existing key is overwritten.
LongEnough == Keys

Register(t, id, key) ==
  /\ pc[t] = "idle" /\ Return(t, <<"ok">>)
  /\ keyring' = [keyring EXCEPT ![id] = key]
  /\ UNCHANGED <<primary, race>>

\* register_key refuses a key of fewer than 16 bytes before it locks.
RegisterRefuses(t) ==
  /\ pc[t] = "idle" /\ Return(t, <<"InvalidKeyLength">>)
  /\ UNCHANGED <<primary, keyring, race>>

(* Slip: any id passes the check of a rotation or of a revocation.         *)
AnyId(id) == TRUE

\* rotate_primary_key: the keyring is read, and unlocked again ...
Rotatable(id) == Has(id)

RotateChecks(t, id) ==
  /\ pc[t] = "idle" /\ Rotatable(id)
  /\ Suspend(t, "set_primary", id) /\ NotesRace("remove", id)
  /\ UNCHANGED <<primary, keyring, reply>>

RotateRefuses(t, id) ==
  /\ pc[t] = "idle" /\ ~Rotatable(id) /\ Return(t, <<"KeyNotFound", id>>)
  /\ UNCHANGED <<primary, keyring, race>>

\* ... before the primary id is locked and written.
RotateSets(t) ==
  /\ pc[t] = "set_primary" /\ Return(t, <<"ok">>)
  /\ primary' = arg[t]
  /\ UNCHANGED <<keyring, race>>

\* revoke_key: the primary id is read, and unlocked again ...
Revocable(id) == id # primary

RevokeChecks(t, id) ==
  /\ pc[t] = "idle" /\ Revocable(id)
  /\ Suspend(t, "remove", id) /\ NotesRace("set_primary", id)
  /\ UNCHANGED <<primary, keyring, reply>>

RevokeRefuses(t, id) ==
  /\ pc[t] = "idle" /\ ~Revocable(id) /\ Return(t, <<"EmptyKeyring">>)
  /\ UNCHANGED <<primary, keyring, race>>

\* ... before the keyring is locked and the entry removed, if there is one.
RevokeRemoves(t) ==
  /\ pc[t] = "remove" /\ Return(t, <<"ok">>)
  /\ keyring' = [keyring EXCEPT ![arg[t]] = EmptyKey]
  /\ UNCHANGED <<primary, race>>

\* get_primary_key: the primary id is read, and unlocked again ...
ReadsPrimaryId(t) ==
  /\ pc[t] = "idle" /\ Suspend(t, "read_key", primary)
  /\ UNCHANGED <<primary, keyring, reply, race>>

\* ... before its key is looked up; a missing key is returned as an empty one.
ReadsPrimaryKey(t) ==
  /\ pc[t] = "read_key" /\ Return(t, <<"primary", arg[t], keyring[arg[t]]>>)
  /\ UNCHANGED <<primary, keyring, race>>

\* get_key_by_id: one lock.
GetKeyById(t, id) ==
  /\ pc[t] = "idle" /\ Return(t, <<"key", id, keyring[id]>>)
  /\ UNCHANGED <<primary, keyring, race>>

Administers(t) ==
  \/ RegisterRefuses(t) \/ RotateSets(t) \/ RevokeRemoves(t)
  \/ \E id \in KeyIds :
       \/ \E key \in LongEnough : Register(t, id, key)
       \/ RotateChecks(t, id) \/ RotateRefuses(t, id)
       \/ RevokeChecks(t, id) \/ RevokeRefuses(t, id)

Reads(t) ==
  \/ ReadsPrimaryId(t) \/ ReadsPrimaryKey(t)
  \/ \E id \in KeyIds : GetKeyById(t, id)

Next == (\E t \in Admins : Administers(t)) \/ (\E t \in Readers : Reads(t))

Spec == Init /\ [][Next]_vars
-------------------------------------------------------------------------------
TypeOK ==
  /\ primary \in KeyIds
  /\ keyring \in [KeyIds -> Keys \cup {EmptyKey}]
  /\ pc \in [Tasks -> {"idle", "set_primary", "remove", "read_key"}]
  /\ arg \in [Tasks -> KeyIds \cup {NoId}]
  /\ \A t \in Tasks : arg[t] = NoId <=> pc[t] = "idle"
  /\ \A t \in Readers : pc[t] \in {"idle", "read_key"}
  /\ \A t \in Admins : pc[t] # "read_key"
  /\ DOMAIN reply = Tasks
  /\ race \subseteq KeyIds

(* What an administrator has checked in its first step is still true when  *)
(* it performs the second one, unless the two kinds of operation raced.    *)
ChecksHold ==
  \A t \in Admins :
    /\ pc[t] = "set_primary" => Has(arg[t]) \/ arg[t] \in race
    /\ pc[t] = "remove" => arg[t] # primary \/ arg[t] \in race

(* Both kinds pending on one id are a race.                                *)
RacesNoted ==
  \A id \in KeyIds : Pending("set_primary", id) /\ Pending("remove", id) => id \in race

(* The primary key is in the keyring, except after a rotation to it and a  *)
(* revocation of it have overlapped: that is the only way to lose it, with *)
(* any number of administrators (key_manager.rs, rotate_primary_key and    *)
(* revoke_key).                                                            *)
PrimaryLostOnlyInRace == Has(primary) \/ primary \in race

IInv == TypeOK /\ ChecksHold /\ RacesNoted /\ PrimaryLostOnlyInRace
-------------------------------------------------------------------------------
(* Properties.                                                             *)

(* key_manager.rs:81 says that revoke_key cannot remove the primary key.   *)
PrimaryInKeyring == Has(primary)

(* get_primary_key may hand out the empty key, but only for an id that has *)
(* stopped being the primary one since it was read, so that asking again   *)
(* gets a key; the exception is, again, a race of two administrators.      *)
EmptyKeyOnlyForOldPrimary ==
  [][\A t \in Readers :
       pc[t] = "read_key" /\ pc'[t] = "idle" /\ reply'[t][3] = EmptyKey
         => arg[t] # primary \/ arg[t] \in race]_vars

(* As long as no rotation to a key overlaps a revocation of it, every      *)
(* operation takes effect in one step of the atomic keyring, although it   *)
(* takes two locks one after the other; a single administrator never lets  *)
(* them overlap.                                                           *)
Ring == INSTANCE Keyring
KeyringUnlessRaced == Ring!Init /\ [][race' = {} => Ring!Next]_(Ring!vars)
ImplementsKeyring == Ring!Spec
===============================================================================
