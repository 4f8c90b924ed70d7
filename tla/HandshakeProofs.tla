---------------------------- MODULE HandshakeProofs ----------------------------
(***************************************************************************)
(* Theorems about Handshake for any number of connections, ids and keys,   *)
(* any drifts, and any sequence of operations by the two administrators.   *)
(***************************************************************************)
EXTENDS Handshake, TLAPS

LEMMA InvariantInit == Init => IInv
BY KeysAssumption DEF Init, DefaultRing, IInv, TypeOK, HeaderFirst, SignedWithShared,
                      RefusedForCause, NoSessionOnEmptyKey, Shared, Shares

(* One step of either administrator.                                       *)
LEMMA AdministerTyped ==
  ASSUME TypeOK, Administer
  PROVE  TypeOK'
<1>1. CASE Client!Next /\ UNCHANGED <<sprimary, sring>>
  <2>1. cprimary' \in KeyIds /\ cring' \in [KeyIds -> Keys \cup {EmptyKey}]
    BY <1>1 DEF TypeOK, Client!Next, Client!Install, Client!Promote, Client!Retire
  <2> QED
    BY <1>1, <2>1 DEF TypeOK, Administer
<1>2. CASE Server!Next /\ UNCHANGED <<cprimary, cring>>
  <2>1. sprimary' \in KeyIds /\ sring' \in [KeyIds -> Keys \cup {EmptyKey}]
    BY <1>2 DEF TypeOK, Server!Next, Server!Install, Server!Promote, Server!Retire
  <2> QED
    BY <1>2, <2>1 DEF TypeOK, Administer
<1> QED
  BY <1>1, <1>2 DEF Administer

(* A key both ends have, before and after the step of an administrator, is *)
(* the same key: a step changes one ring only.                             *)
LEMMA SharedKeyStays ==
  ASSUME Administer, NEW k, Shared(k), Shares(k, cring', sring')
  PROVE  sring'[k] = sring[k]
BY DEF Administer, Shared, Shares

LEMMA AdministerKeeps ==
  ASSUME IInv, Administer
  PROVE  IInv'
<1>1. TypeOK'
  BY AdministerTyped DEF IInv
<1>2. /\ UNCHANGED <<client, server, key_id, signature, excuse>>
      /\ agreed' = [c \in Conns |-> agreed[c] /\ (key_id[c] # NoId => Shares(key_id[c], cring', sring'))]
  BY DEF Administer
<1>3. \A c \in Conns : agreed'[c] =>
        agreed[c] /\ (key_id[c] # NoId => Shares(key_id[c], cring', sring'))
  BY <1>2
<1>4. SignedWithShared'
  <2>0. \A c \in Conns : key_id'[c] = NoId => agreed'[c]
    BY <1>2 DEF IInv, SignedWithShared
  <2> SUFFICES ASSUME NEW c \in Conns, agreed'[c], key_id'[c] # NoId
               PROVE  /\ Shared(key_id[c])'
                      /\ client'[c] # "signing" => signature'[c] = sring'[key_id'[c]]
    BY <2>0 DEF SignedWithShared
  <2>1. agreed[c] /\ key_id[c] # NoId /\ Shares(key_id[c], cring', sring')
    BY <1>2, <1>3
  <2>2. Shared(key_id[c]) /\ (client[c] # "signing" => signature[c] = sring[key_id[c]])
    BY <2>1 DEF IInv, SignedWithShared
  <2>3. sring'[key_id[c]] = sring[key_id[c]]
    BY <2>1, <2>2, SharedKeyStays
  <2> QED
    BY <1>2, <2>1, <2>2, <2>3 DEF Shared
<1>5. HeaderFirst' /\ NoSessionOnEmptyKey'
  BY <1>2 DEF IInv, HeaderFirst, NoSessionOnEmptyKey
<1>6. RefusedForCause'
  BY <1>2, <1>3 DEF IInv, RefusedForCause
<1> QED
  BY <1>1, <1>4, <1>5, <1>6 DEF IInv
-------------------------------------------------------------------------------
LEMMA ClientKeeps ==
  ASSUME IInv, NEW c \in Conns, ClientStep(c)
  PROVE  IInv'
<1> USE DEF IInv, TypeOK, ClientGoes
<1>1. CASE ClientReadsId(c)
  <2>1. /\ client[c] = "connected" /\ key_id[c] = NoId /\ agreed[c]
        /\ client' = [client EXCEPT ![c] = "signing"]
        /\ key_id' = [key_id EXCEPT ![c] = cprimary]
        /\ agreed' = [agreed EXCEPT ![c] = Shared(cprimary)]
        /\ UNCHANGED keys /\ server' = server /\ signature' = signature /\ excuse' = excuse
    BY <1>1 DEF ClientReadsId, SignedWithShared
  <2>2. cprimary # NoId /\ Shared(cprimary) \in BOOLEAN
    BY KeysAssumption DEF Shared, Shares
  <2>3. TypeOK'
    <3>1. \A d \in Conns : key_id'[d] = NoId <=> client'[d] = "connected"
      BY <2>1, <2>2
    <3>2. /\ client' \in [Conns -> {"connected", "signing", "writing", "running", "failed"}]
          /\ key_id' \in [Conns -> KeyIds \cup {NoId}] /\ agreed' \in [Conns -> BOOLEAN]
      BY <2>1, <2>2
    <3> QED
      BY <2>1, <3>1, <3>2 DEF keys
  <2>4. RefusedForCause'
    BY <2>1 DEF RefusedForCause
  <2>5. HeaderFirst' /\ NoSessionOnEmptyKey'
    BY <2>1 DEF HeaderFirst, NoSessionOnEmptyKey
  <2>6. ASSUME NEW d \in Conns
        PROVE  IF key_id'[d] = NoId THEN agreed'[d]
               ELSE agreed'[d] => /\ Shared(key_id'[d])
                                  /\ client'[d] # "signing" => signature'[d] = sring[key_id'[d]]
    <3>1. CASE d = c
      BY <2>1, <2>2, <3>1
    <3>2. CASE d # c
      BY <2>1, <3>2 DEF SignedWithShared
    <3> QED
      BY <3>1, <3>2
  <2>7. SignedWithShared'
    BY <2>1, <2>6 DEF keys, SignedWithShared, Shared, Shares
  <2> QED
    BY <2>3, <2>4, <2>5, <2>7
<1>2. CASE ClientSigns(c)
  <2>1. TypeOK'
    BY <1>2 DEF ClientSigns, KeyRead, keys
  <2>2. HeaderFirst' /\ RefusedForCause' /\ NoSessionOnEmptyKey'
    BY <1>2 DEF ClientSigns, KeyRead, HeaderFirst, RefusedForCause, NoSessionOnEmptyKey
  <2>3. SignedWithShared'
    BY <1>2 DEF ClientSigns, KeyRead, keys, SignedWithShared, Shared, Shares
  <2> QED
    BY <2>1, <2>2, <2>3
<1>3. CASE ClientWrites(c) \/ ClientWriteFails(c)
  <2>1. TypeOK'
    BY <1>3 DEF ClientWrites, ClientWriteFails, keys
  <2>2. HeaderFirst' /\ RefusedForCause' /\ NoSessionOnEmptyKey'
    BY <1>3 DEF ClientWrites, ClientWriteFails, HeaderFirst, RefusedForCause, NoSessionOnEmptyKey
  <2>3. SignedWithShared'
    BY <1>3 DEF ClientWrites, ClientWriteFails, keys, SignedWithShared, Shared, Shares
  <2> QED
    BY <2>1, <2>2, <2>3
<1> QED
  BY <1>1, <1>2, <1>3 DEF ClientStep

LEMMA ServerKeeps ==
  ASSUME IInv, NEW c \in Conns, ServerStep(c)
  PROVE  IInv'
<1> USE DEF IInv, TypeOK, ServerGoes
<1>1. CASE \E drift \in Drifts : ServerReads(c, drift)
  <2>1. TypeOK' /\ HeaderFirst' /\ RefusedForCause' /\ NoSessionOnEmptyKey'
    BY <1>1 DEF ServerReads, keys, HeaderFirst, RefusedForCause, NoSessionOnEmptyKey
  <2>2. SignedWithShared'
    BY <1>1 DEF ServerReads, keys, SignedWithShared, Shared, Shares
  <2> QED
    BY <2>1, <2>2
<1>2. CASE ServerReadFails(c) \/ \E drift \in Drifts : ServerRefusesDrift(c, drift)
  <2>1. TypeOK' /\ HeaderFirst' /\ RefusedForCause' /\ NoSessionOnEmptyKey'
    BY <1>2 DEF ServerReadFails, ServerRefusesDrift, keys, HeaderFirst, RefusedForCause,
                NoSessionOnEmptyKey
  <2>2. SignedWithShared'
    BY <1>2 DEF ServerReadFails, ServerRefusesDrift, keys, SignedWithShared, Shared, Shares
  <2> QED
    BY <2>1, <2>2
<1>3. CASE ServerAccepts(c)
  <2>1. TypeOK' /\ HeaderFirst' /\ RefusedForCause' /\ NoSessionOnEmptyKey'
    BY <1>3 DEF ServerAccepts, Known, Matches, keys, HeaderFirst, RefusedForCause, NoSessionOnEmptyKey
  <2>2. SignedWithShared'
    BY <1>3 DEF ServerAccepts, Known, Matches, keys, SignedWithShared, Shared, Shares
  <2> QED
    BY <2>1, <2>2
<1>4. CASE ServerRefusesKey(c)
  <2>1. client[c] = "running" /\ key_id[c] # NoId
    BY <1>4 DEF ServerRefusesKey, NoKeyOrWrongKey, Known, Matches, HeaderFirst
  <2>2. ~agreed[c]
    BY <1>4, <2>1 DEF ServerRefusesKey, NoKeyOrWrongKey, Known, Matches, SignedWithShared, Shared, Shares
  <2>3. TypeOK' /\ HeaderFirst' /\ NoSessionOnEmptyKey'
    BY <1>4 DEF ServerRefusesKey, NoKeyOrWrongKey, Known, Matches, keys, HeaderFirst, NoSessionOnEmptyKey
  <2>4. RefusedForCause'
    BY <1>4, <2>2 DEF ServerRefusesKey, NoKeyOrWrongKey, Known, Matches, RefusedForCause
  <2>5. SignedWithShared'
    BY <1>4 DEF ServerRefusesKey, NoKeyOrWrongKey, Known, Matches, keys, SignedWithShared, Shared, Shares
  <2> QED
    BY <2>3, <2>4, <2>5
<1> QED
  BY <1>1, <1>2, <1>3, <1>4 DEF ServerStep

LEMMA InvariantNext == IInv /\ [Next]_vars => IInv'
<1> SUFFICES ASSUME IInv, [Next]_vars PROVE IInv'
  OBVIOUS
<1>1. CASE UNCHANGED vars
  BY <1>1 DEF vars, IInv, TypeOK, HeaderFirst, SignedWithShared, RefusedForCause,
              NoSessionOnEmptyKey, Shared, Shares
<1> QED
  BY <1>1, AdministerKeeps, ClientKeeps, ServerKeeps DEF Next

(* The invariant holds, so that both its parts below do.                   *)
THEOREM Invariant == Spec => []IInv
<1> QED
  BY InvariantInit, InvariantNext, PTL DEF Spec

(* Promoting keys, at either end and at any moment, never makes the server *)
(* refuse a client.                                                        *)
THEOREM RefusalHasCause == Spec => []RefusedForCause
<1>1. IInv => RefusedForCause
  BY DEF IInv
<1> QED
  BY <1>1, Invariant, PTL

(* The empty key that a client may sign with opens no session.             *)
THEOREM NoEmptyKeySession == Spec => []NoSessionOnEmptyKey
<1>1. IInv => NoSessionOnEmptyKey
  BY DEF IInv
<1> QED
  BY <1>1, Invariant, PTL
===============================================================================
