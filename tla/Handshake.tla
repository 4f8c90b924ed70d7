------------------------------ MODULE Handshake ------------------------------
(***************************************************************************)
(* NdCodeAuth (src/src/pipeline/auth.rs) as main.rs uses it: a client      *)
(* connects, announces the id of its primary key in a header signed with   *)
(* that key, and goes on; the server reads the header, checks its age,     *)
(* looks the id up and checks the signature.  It sends no answer.          *)
(* Meanwhile the administrators of both ends install, promote and retire   *)
(* keys.  Each end has one administrator, so its key manager is a Keyring  *)
(* (KeyManagerProofs!OneAdminRefinement); get_primary_key, which locks     *)
(* twice, is two steps here too.                                           *)
(*                                                                         *)
(* A signature is the key it was made with; nonce and bytes are left out.  *)
(* A timestamp is its distance from the server's clock when it is checked. *)
(***************************************************************************)
EXTENDS Naturals

CONSTANTS
  KeyIds, Keys, EmptyKey, NoId,
  DefaultId, DefaultKey,       \* what main.rs gives both key managers
  Conns,                       \* connections; a client makes one and ends with it
  Drifts,                      \* distances of timestamp and server clock, in seconds
  MAX_ALLOWED_TIME_DRIFT_SECS  \* 30

ASSUME KeysAssumption ==
  /\ EmptyKey \notin Keys /\ NoId \notin KeyIds
  /\ DefaultId \in KeyIds /\ DefaultKey \in Keys
ASSUME DriftAssumption == Drifts \subseteq Nat /\ MAX_ALLOWED_TIME_DRIFT_SECS \in Nat

VARIABLES
  cprimary, cring,  \* the client's key manager
  sprimary, sring,  \* the server's
  client,           \* client[c]: where client_handshake of c is
  server,           \* server[c]: where server_handshake of c is
  key_id,           \* key_id[c]: the key id announced on c
  signature,        \* signature[c]: the key the header of c is signed with
  agreed,           \* history: both ends have had the same key for key_id[c] so far
  excuse            \* history: what, other than a key, made the server refuse c

keys == <<cprimary, cring, sprimary, sring>>
conn == <<client, server, key_id, signature>>
vars == <<cprimary, cring, sprimary, sring, client, server, key_id, signature, agreed, excuse>>

Client == INSTANCE Keyring WITH primary <- cprimary, keyring <- cring
Server == INSTANCE Keyring WITH primary <- sprimary, keyring <- sring

DefaultRing == [k \in KeyIds |-> IF k = DefaultId THEN DefaultKey ELSE EmptyKey]
Shares(k, ring1, ring2) == ring1[k] = ring2[k] /\ ring2[k] # EmptyKey
Shared(k) == Shares(k, cring, sring)

Init ==
  /\ cprimary = DefaultId /\ cring = DefaultRing
  /\ sprimary = DefaultId /\ sring = DefaultRing
  /\ client = [c \in Conns |-> "connected"]
  /\ server = [c \in Conns |-> "reading"]
  /\ key_id = [c \in Conns |-> NoId]
  /\ signature = [c \in Conns |-> EmptyKey]
  /\ agreed = [c \in Conns |-> TRUE]
  /\ excuse = [c \in Conns |-> "none"]
-------------------------------------------------------------------------------
(* The administrators.                                                     *)
Administer ==
  /\ \/ Client!Next /\ UNCHANGED <<sprimary, sring>>
     \/ Server!Next /\ UNCHANGED <<cprimary, cring>>
  /\ agreed' = [c \in Conns |-> agreed[c] /\ (key_id[c] # NoId => Shares(key_id[c], cring', sring'))]
  /\ UNCHANGED <<client, server, key_id, signature, excuse>>
-------------------------------------------------------------------------------
(* client_handshake.                                                       *)

ClientGoes(c, from, to) == client[c] = from /\ client' = [client EXCEPT ![c] = to]

\* get_primary_key has read the primary id and unlocked it.
ClientReadsId(c) ==
  /\ ClientGoes(c, "connected", "signing")
  /\ key_id' = [key_id EXCEPT ![c] = cprimary]
  /\ agreed' = [agreed EXCEPT ![c] = Shared(cprimary)]
  /\ UNCHANGED <<keys, server, signature, excuse>>

(* Slip: the key is the one of the primary id of now, not of the id read.  *)
KeyOfNow(c) == cring[cprimary]

\* It returns the key, or an empty one; the header is signed with it.
KeyRead(c) == cring[key_id[c]]

ClientSigns(c) ==
  /\ ClientGoes(c, "signing", "writing")
  /\ signature' = [signature EXCEPT ![c] = KeyRead(c)]
  /\ UNCHANGED <<keys, server, key_id, agreed, excuse>>

\* write_all and flush succeeded: main.rs reports the handshake as passed and
\* starts both pipelines.
ClientWrites(c) ==
  /\ ClientGoes(c, "writing", "running")
  /\ UNCHANGED <<keys, server, key_id, signature, agreed, excuse>>

\* One of them failed: the client process ends.
ClientWriteFails(c) ==
  /\ ClientGoes(c, "writing", "failed")
  /\ UNCHANGED <<keys, server, key_id, signature, agreed, excuse>>
-------------------------------------------------------------------------------
(* server_handshake.                                                       *)
ServerGoes(c, from, to) == server[c] = from /\ server' = [server EXCEPT ![c] = to]

\* All 56 bytes are there and the timestamp is near enough.
ServerReads(c, drift) ==
  /\ client[c] = "running" /\ drift <= MAX_ALLOWED_TIME_DRIFT_SECS
  /\ ServerGoes(c, "reading", "lookup")
  /\ UNCHANGED <<keys, client, key_id, signature, agreed, excuse>>

ServerRefusesDrift(c, drift) ==
  /\ client[c] = "running" /\ drift > MAX_ALLOWED_TIME_DRIFT_SECS
  /\ ServerGoes(c, "reading", "refused")
  /\ excuse' = [excuse EXCEPT ![c] = "drift"]
  /\ UNCHANGED <<keys, client, key_id, signature, agreed>>

\* read_exact failed: the connection ended before the header did.
ServerReadFails(c) ==
  /\ ServerGoes(c, "reading", "refused")
  /\ excuse' = [excuse EXCEPT ![c] = "connection"]
  /\ UNCHANGED <<keys, client, key_id, signature, agreed>>

(* Slip: an id that is absent is looked up as in get_primary_key.          *)
KnownByDefault(c) == TRUE

Known(c) == sring[key_id[c]] # EmptyKey
Matches(c) == sring[key_id[c]] = signature[c]

\* get_key_by_id found none, or the signature is made with another one.
NoKeyOrWrongKey(c) == ~Known(c) \/ ~Matches(c)

ServerAccepts(c) ==
  /\ ServerGoes(c, "lookup", "accepted") /\ Known(c) /\ Matches(c)
  /\ UNCHANGED <<keys, client, key_id, signature, agreed, excuse>>

ServerRefusesKey(c) ==
  /\ ServerGoes(c, "lookup", "refused") /\ NoKeyOrWrongKey(c)
  /\ UNCHANGED <<keys, client, key_id, signature, agreed, excuse>>

ClientStep(c) ==
  ClientReadsId(c) \/ ClientSigns(c) \/ ClientWrites(c) \/ ClientWriteFails(c)
ServerStep(c) ==
  \/ ServerReadFails(c) \/ ServerAccepts(c) \/ ServerRefusesKey(c)
  \/ \E drift \in Drifts : ServerReads(c, drift) \/ ServerRefusesDrift(c, drift)

Next == Administer \/ \E c \in Conns : ClientStep(c) \/ ServerStep(c)

Spec == Init /\ [][Next]_vars
-------------------------------------------------------------------------------
TypeOK ==
  /\ cprimary \in KeyIds /\ cring \in [KeyIds -> Keys \cup {EmptyKey}]
  /\ sprimary \in KeyIds /\ sring \in [KeyIds -> Keys \cup {EmptyKey}]
  /\ client \in [Conns -> {"connected", "signing", "writing", "running", "failed"}]
  /\ server \in [Conns -> {"reading", "lookup", "accepted", "refused"}]
  /\ key_id \in [Conns -> KeyIds \cup {NoId}]
  /\ \A c \in Conns : key_id[c] = NoId <=> client[c] = "connected"
  /\ signature \in [Conns -> Keys \cup {EmptyKey}]
  /\ agreed \in [Conns -> BOOLEAN]
  /\ excuse \in [Conns -> {"none", "drift", "connection"}]

(* The server is past the header only of a client that has written it.     *)
HeaderFirst == \A c \in Conns : server[c] \in {"lookup", "accepted"} => client[c] = "running"

(* As long as the ends have not disagreed about the key announced, it is   *)
(* there, and the header is signed with it.                                *)
SignedWithShared ==
  \A c \in Conns :
    IF key_id[c] = NoId THEN agreed[c]
    ELSE agreed[c] => /\ Shared(key_id[c])
                      /\ client[c] # "signing" => signature[c] = sring[key_id[c]]

(* The server refuses a client only if its header came late or not at all, *)
(* or if one end had changed or removed the key announced, or had not got  *)
(* it.  Rotating to another key refuses nobody, at either end and between  *)
(* any two steps of the handshake (README.md:53, rotation does not         *)
(* interrupt the service).                                                 *)
RefusedForCause ==
  \A c \in Conns : server[c] = "refused" => ~agreed[c] \/ excuse[c] # "none"

(* A session is never opened on the empty key that get_primary_key makes   *)
(* of an id that was retired meanwhile (key_manager.rs:48): the server     *)
(* does not find such an id.                                               *)
NoSessionOnEmptyKey ==
  \A c \in Conns : server[c] = "accepted" => signature[c] # EmptyKey

IInv == TypeOK /\ HeaderFirst /\ SignedWithShared /\ RefusedForCause /\ NoSessionOnEmptyKey
===============================================================================
