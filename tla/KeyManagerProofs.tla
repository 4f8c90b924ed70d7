--------------------------- MODULE KeyManagerProofs ---------------------------
(***************************************************************************)
(* Theorems about KeyManager for any sets of ids, keys, administrators and *)
(* readers.                                                                *)
(*                                                                         *)
(* The argument: what an administrator's first step has checked can be     *)
(* undone before its second step only by the second step of the opposite   *)
(* operation on the same id, and then both were pending, which is a race.  *)
(***************************************************************************)
EXTENDS KeyManager, TLAPS

LEMMA TypeInit == Init => TypeOK
BY KeysAssumption, TasksAssumption DEF Init, TypeOK, Tasks

(* A task that suspends or returns leaves the other tasks where they are.  *)
LEMMA Suspends ==
  ASSUME TypeOK, NEW t \in Tasks, NEW step \in {"set_primary", "remove", "read_key"},
         NEW id \in KeyIds, Suspend(t, step, id)
  PROVE  /\ pc' \in [Tasks -> {"idle", "set_primary", "remove", "read_key"}]
         /\ arg' \in [Tasks -> KeyIds \cup {NoId}]
         /\ \A u \in Tasks : arg'[u] = NoId <=> pc'[u] = "idle"
         /\ pc'[t] = step /\ arg'[t] = id
         /\ \A u \in Tasks : u # t => pc'[u] = pc[u] /\ arg'[u] = arg[u]
BY KeysAssumption DEF TypeOK, Suspend

LEMMA Returns ==
  ASSUME TypeOK, NEW t \in Tasks, NEW r, Return(t, r)
  PROVE  /\ pc' \in [Tasks -> {"idle", "set_primary", "remove", "read_key"}]
         /\ arg' \in [Tasks -> KeyIds \cup {NoId}]
         /\ \A u \in Tasks : arg'[u] = NoId <=> pc'[u] = "idle"
         /\ pc'[t] = "idle"
         /\ DOMAIN reply' = Tasks /\ reply'[t] = r
         /\ \A u \in Tasks : u # t => pc'[u] = pc[u] /\ arg'[u] = arg[u]
BY DEF TypeOK, Return

(* The five ways in which an administrator, and the two in which a reader, *)
(* changes the state.                                                      *)
LEMMA AdminStep ==
  ASSUME TypeOK, NEW t \in Admins, Administers(t)
  PROVE  \/ \E r : /\ pc[t] = "idle" /\ Return(t, r)
                   /\ UNCHANGED <<primary, race>>
                   /\ \/ UNCHANGED keyring
                      \/ \E id \in KeyIds, key \in Keys :
                           keyring' = [keyring EXCEPT ![id] = key]
         \/ \E id \in KeyIds : RotateChecks(t, id)
         \/ RotateSets(t)
         \/ \E id \in KeyIds : RevokeChecks(t, id)
         \/ RevokeRemoves(t)
BY DEF Administers, Register, LongEnough, RegisterRefuses, RotateRefuses, RevokeRefuses

LEMMA ReaderStep ==
  ASSUME TypeOK, NEW t \in Readers, Reads(t)
  PROVE  /\ UNCHANGED <<primary, keyring, race>>
         /\ \/ \E r : Return(t, r)
            \/ Suspend(t, "read_key", primary) /\ reply' = reply
BY DEF Reads, ReadsPrimaryId, ReadsPrimaryKey, GetKeyById

LEMMA TypeNext == TypeOK /\ [Next]_vars => TypeOK'
<1> SUFFICES ASSUME TypeOK, [Next]_vars PROVE TypeOK'
  OBVIOUS
<1>0. Admins \subseteq Tasks /\ Readers \subseteq Tasks
  BY DEF Tasks
<1>1. ASSUME NEW t \in Admins, Administers(t) PROVE TypeOK'
  <2>1. t \in Tasks /\ t \notin Readers
    BY <1>0, TasksAssumption
  <2>2. ASSUME NEW r, Return(t, r), UNCHANGED <<primary, race>>,
               \/ UNCHANGED keyring
               \/ \E id \in KeyIds, key \in Keys : keyring' = [keyring EXCEPT ![id] = key]
        PROVE  TypeOK'
    BY <1>0, <2>1, <2>2, Returns DEF TypeOK
  <2>3. ASSUME NEW id \in KeyIds, RotateChecks(t, id) PROVE TypeOK'
    <3>1. Suspend(t, "set_primary", id) /\ UNCHANGED <<primary, keyring, reply>> /\ race' \subseteq KeyIds
      BY <2>3 DEF RotateChecks, NotesRace, TypeOK
    <3> QED
      BY <1>0, <2>1, <3>1, Suspends DEF TypeOK
  <2>4. CASE RotateSets(t)
    <3>1. primary' \in KeyIds
      BY <2>1, <2>4 DEF RotateSets, TypeOK
    <3> QED
      BY <1>0, <2>1, <2>4, <3>1, Returns DEF RotateSets, TypeOK
  <2>5. ASSUME NEW id \in KeyIds, RevokeChecks(t, id) PROVE TypeOK'
    <3>1. Suspend(t, "remove", id) /\ UNCHANGED <<primary, keyring, reply>> /\ race' \subseteq KeyIds
      BY <2>5 DEF RevokeChecks, NotesRace, TypeOK
    <3> QED
      BY <1>0, <2>1, <3>1, Suspends DEF TypeOK
  <2>6. CASE RevokeRemoves(t)
    BY <1>0, <2>1, <2>6, Returns DEF RevokeRemoves, TypeOK
  <2> QED
    BY <1>1, <2>2, <2>3, <2>4, <2>5, <2>6, AdminStep
<1>2. ASSUME NEW t \in Readers, Reads(t) PROVE TypeOK'
  <2>1. t \in Tasks /\ t \notin Admins /\ primary \in KeyIds
    BY <1>0, TasksAssumption DEF TypeOK
  <2>2. UNCHANGED <<primary, keyring, race>>
    BY <1>2, ReaderStep
  <2>3. ASSUME NEW r, Return(t, r) PROVE TypeOK'
    BY <1>0, <2>1, <2>2, <2>3, Returns DEF TypeOK
  <2>4. CASE Suspend(t, "read_key", primary) /\ reply' = reply
    BY <1>0, <2>1, <2>2, <2>4, Suspends DEF TypeOK
  <2> QED
    BY <1>2, <2>3, <2>4, ReaderStep
<1>3. CASE UNCHANGED vars
  BY <1>3 DEF vars, TypeOK
<1> QED
  BY <1>1, <1>2, <1>3 DEF Next

(* Every variable keeps its type; a task waits for its second lock exactly *)
(* while it remembers the id it has read under the first one.              *)
THEOREM TypeCorrect == Spec => []TypeOK
<1> QED
  BY TypeInit, TypeNext, PTL DEF Spec

-------------------------------------------------------------------------------
(* The race invariant.                                                     *)

LEMMA InductiveInit == Init => IInv
<1> SUFFICES ASSUME Init PROVE IInv
  OBVIOUS
<1>1. TypeOK
  BY TypeInit
<1>2. \A t \in Admins : pc[t] = "idle"
  BY DEF Init, Tasks
<1>3. Has(primary)
  BY KeysAssumption DEF Init, Has
<1> QED
  BY <1>1, <1>2, <1>3 DEF IInv, ChecksHold, RacesNoted, Pending, PrimaryLostOnlyInRace

LEMMA InductiveNext == IInv /\ [Next]_vars => IInv'
<1> SUFFICES ASSUME IInv, [Next]_vars PROVE IInv'
  OBVIOUS
<1>0. TypeOK /\ TypeOK' /\ Admins \subseteq Tasks /\ Readers \subseteq Tasks
  BY TypeNext DEF IInv, Tasks
<1> DEFINE Safe == ChecksHold /\ RacesNoted /\ PrimaryLostOnlyInRace
<1>1. ASSUME NEW t \in Admins, Administers(t) PROVE Safe'
  <2>1. t \in Tasks
    BY <1>0
  <2>2. ASSUME NEW r, pc[t] = "idle", Return(t, r), UNCHANGED <<primary, race>>,
               \/ UNCHANGED keyring
               \/ \E id \in KeyIds, key \in Keys : keyring' = [keyring EXCEPT ![id] = key]
        PROVE  Safe'
    <3>1. \A id \in KeyIds : Has(id) => Has(id)'
      BY <1>0, <2>2, KeysAssumption DEF Has, TypeOK
    <3>2. \A u \in Admins : pc'[u] # "idle" => pc'[u] = pc[u] /\ arg'[u] = arg[u]
      BY <1>0, <2>1, <2>2, Returns
    <3>3. \A u \in Admins : pc[u] = "set_primary" => arg[u] \in KeyIds
      BY <1>0 DEF TypeOK
    <3>4. primary \in KeyIds /\ primary' = primary /\ race' = race
      BY <1>0, <2>2 DEF TypeOK
    <3>5. ChecksHold'
      BY <3>1, <3>2, <3>3, <3>4 DEF IInv, ChecksHold
    <3>6. RacesNoted'
      BY <3>2, <3>4 DEF IInv, RacesNoted, Pending
    <3>7. PrimaryLostOnlyInRace'
      BY <3>1, <3>4 DEF IInv, PrimaryLostOnlyInRace
    <3> QED
      BY <3>5, <3>6, <3>7
  <2>3. ASSUME NEW id \in KeyIds, RotateChecks(t, id) PROVE Safe'
    <3>1. /\ Suspend(t, "set_primary", id) /\ Has(id) /\ primary' = primary /\ keyring' = keyring
          /\ race \subseteq race' /\ (Pending("remove", id) => id \in race')
      BY <2>3 DEF RotateChecks, Rotatable, NotesRace
    <3>2. /\ pc'[t] = "set_primary" /\ arg'[t] = id
          /\ \A u \in Admins : u # t => pc'[u] = pc[u] /\ arg'[u] = arg[u]
      BY <1>0, <2>1, <3>1, Suspends
    <3>3. ChecksHold'
      BY <3>1, <3>2 DEF IInv, ChecksHold, Has
    <3>4. RacesNoted'
      BY <3>1, <3>2 DEF IInv, RacesNoted, Pending
    <3>5. PrimaryLostOnlyInRace'
      BY <3>1 DEF IInv, PrimaryLostOnlyInRace, Has
    <3> QED
      BY <3>3, <3>4, <3>5
  <2>4. CASE RotateSets(t)
    <3>1. /\ pc[t] = "set_primary" /\ primary' = arg[t] /\ keyring' = keyring /\ race' = race
          /\ arg[t] \in KeyIds
      BY <1>0, <2>1, <2>4 DEF RotateSets, TypeOK
    <3>2. \A u \in Admins : pc'[u] # "idle" => pc'[u] = pc[u] /\ arg'[u] = arg[u]
      BY <1>0, <2>1, <2>4, Returns DEF RotateSets
    <3>3. ChecksHold'
      <4>1. ASSUME NEW u \in Admins, pc[u] = "remove", arg[u] = arg[t]
            PROVE  arg[u] \in race
        BY <3>1, <4>1 DEF IInv, RacesNoted, Pending
      <4> QED
        BY <3>1, <3>2, <4>1 DEF IInv, ChecksHold, Has
    <3>4. RacesNoted'
      BY <3>1, <3>2 DEF IInv, RacesNoted, Pending
    <3>5. PrimaryLostOnlyInRace'
      BY <3>1 DEF IInv, ChecksHold, PrimaryLostOnlyInRace, Has
    <3> QED
      BY <3>3, <3>4, <3>5
  <2>5. ASSUME NEW id \in KeyIds, RevokeChecks(t, id) PROVE Safe'
    <3>1. /\ Suspend(t, "remove", id) /\ id # primary /\ primary' = primary /\ keyring' = keyring
          /\ race \subseteq race' /\ (Pending("set_primary", id) => id \in race')
      BY <2>5 DEF RevokeChecks, Revocable, NotesRace
    <3>2. /\ pc'[t] = "remove" /\ arg'[t] = id
          /\ \A u \in Admins : u # t => pc'[u] = pc[u] /\ arg'[u] = arg[u]
      BY <1>0, <2>1, <3>1, Suspends
    <3>3. ChecksHold'
      BY <3>1, <3>2 DEF IInv, ChecksHold, Has
    <3>4. RacesNoted'
      BY <3>1, <3>2 DEF IInv, RacesNoted, Pending
    <3>5. PrimaryLostOnlyInRace'
      BY <3>1 DEF IInv, PrimaryLostOnlyInRace, Has
    <3> QED
      BY <3>3, <3>4, <3>5
  <2>6. CASE RevokeRemoves(t)
    <3>1. /\ pc[t] = "remove" /\ keyring' = [keyring EXCEPT ![arg[t]] = EmptyKey]
          /\ primary' = primary /\ race' = race /\ arg[t] \in KeyIds /\ primary \in KeyIds
      BY <1>0, <2>1, <2>6 DEF RevokeRemoves, TypeOK
    <3>2. \A u \in Admins : pc'[u] # "idle" => pc'[u] = pc[u] /\ arg'[u] = arg[u]
      BY <1>0, <2>1, <2>6, Returns DEF RevokeRemoves
    <3>3. \A id \in KeyIds : id # arg[t] => (Has(id) => Has(id)')
      BY <1>0, <3>1 DEF Has, TypeOK
    <3>4. \A u \in Admins : pc[u] = "set_primary" => arg[u] \in KeyIds
      BY <1>0 DEF TypeOK
    <3>5. ChecksHold'
      <4>1. ASSUME NEW u \in Admins, pc[u] = "set_primary", arg[u] = arg[t]
            PROVE  arg[u] \in race
        BY <3>1, <4>1 DEF IInv, RacesNoted, Pending
      <4> QED
        BY <3>1, <3>2, <3>3, <3>4, <4>1 DEF IInv, ChecksHold
    <3>6. RacesNoted'
      BY <3>1, <3>2 DEF IInv, RacesNoted, Pending
    <3>7. PrimaryLostOnlyInRace'
      BY <3>1, <3>3 DEF IInv, ChecksHold, PrimaryLostOnlyInRace
    <3> QED
      BY <3>5, <3>6, <3>7
  <2> QED
    BY <1>0, <1>1, <2>2, <2>3, <2>4, <2>5, <2>6, AdminStep
<1>2. ASSUME NEW t \in Readers, Reads(t) PROVE Safe'
  <2>1. t \in Tasks /\ t \notin Admins /\ primary \in KeyIds
    BY <1>0, TasksAssumption DEF TypeOK
  <2>2. primary' = primary /\ keyring' = keyring /\ race' = race
    BY <1>0, <1>2, ReaderStep
  <2>3. \A u \in Admins : pc'[u] = pc[u] /\ arg'[u] = arg[u]
    BY <1>0, <1>2, <2>1, ReaderStep, Suspends, Returns
  <2> QED
    BY <2>2, <2>3 DEF IInv, ChecksHold, RacesNoted, Pending, PrimaryLostOnlyInRace, Has
<1>3. CASE UNCHANGED vars
  <2>1. /\ primary' = primary /\ keyring' = keyring /\ race' = race
        /\ pc' = pc /\ arg' = arg
    BY <1>3 DEF vars
  <2>2. ChecksHold'
    BY <2>1 DEF IInv, ChecksHold, Has
  <2>3. RacesNoted'
    BY <2>1 DEF IInv, RacesNoted, Pending
  <2>4. PrimaryLostOnlyInRace'
    BY <2>1 DEF IInv, PrimaryLostOnlyInRace, Has
  <2> QED
    BY <1>0, <2>2, <2>3, <2>4 DEF IInv
<1> QED
  BY <1>0, <1>1, <1>2, <1>3 DEF Next, IInv

THEOREM Invariant == Spec => []IInv
<1> QED
  BY InductiveInit, InductiveNext, PTL DEF Spec

(* However many administrators work on the keyring, the primary key is     *)
(* missing only if a rotation to it overlapped a revocation of it.         *)
THEOREM LostOnlyInRace == Spec => []PrimaryLostOnlyInRace
<1>1. IInv => PrimaryLostOnlyInRace
  BY DEF IInv
<1> QED
  BY <1>1, Invariant, PTL

(* get_primary_key hands out the empty key only for an id that is not the  *)
(* primary one any more, or that has been lost in a race.                  *)
THEOREM EmptyOnlyForOld == Spec => EmptyKeyOnlyForOldPrimary
<1>1. IInv /\ [Next]_vars =>
        [\A t \in Readers :
           pc[t] = "read_key" /\ pc'[t] = "idle" /\ reply'[t][3] = EmptyKey
             => arg[t] # primary \/ arg[t] \in race]_vars
  <2> SUFFICES ASSUME IInv, Next,
                      NEW t \in Readers,
                      pc[t] = "read_key", pc'[t] = "idle", reply'[t][3] = EmptyKey,
                      arg[t] = primary
               PROVE  arg[t] \in race
    OBVIOUS
  <2>0. TypeOK /\ TypeOK' /\ t \in Tasks /\ t \notin Admins
    BY TypeNext, TasksAssumption DEF IInv, Tasks
  <2>1. PICK u \in Tasks : \/ u \in Admins /\ Administers(u)
                           \/ u \in Readers /\ Reads(u)
    BY DEF Next, Tasks
  <2>2. u = t
    <3>1. ASSUME u # t PROVE pc'[t] = pc[t]
      <4>1. CASE u \in Readers /\ Reads(u)
        BY <2>0, <2>1, <3>1, <4>1, ReaderStep, Suspends, Returns DEF TypeOK
      <4>2. CASE u \in Admins /\ Administers(u)
        BY <2>0, <3>1, <4>2
        DEF Administers, Register, RegisterRefuses, RotateChecks, RotateRefuses, RotateSets,
            RevokeChecks, RevokeRefuses, RevokeRemoves, Suspend, Return, TypeOK
      <4> QED
        BY <2>1, <4>1, <4>2
    <3> QED
      BY <3>1
  <2>3. ReadsPrimaryKey(t)
    BY <2>0, <2>1, <2>2 DEF Reads, ReadsPrimaryId, GetKeyById
  <2>4. reply'[t][3] = keyring[arg[t]]
    <3>1. Return(t, <<"primary", arg[t], keyring[arg[t]]>>)
      BY <2>3 DEF ReadsPrimaryKey
    <3>2. reply'[t] = <<"primary", arg[t], keyring[arg[t]]>>
      BY <2>0, <3>1, Returns
    <3> QED
      BY <3>2
  <2> QED
    BY <2>4 DEF IInv, PrimaryLostOnlyInRace, Has
<1> QED
  BY <1>1, Invariant, PTL DEF Spec, EmptyKeyOnlyForOldPrimary
-------------------------------------------------------------------------------
LEMMA AtomicUnlessRaced == IInv /\ [Next]_vars => [race' = {} => Ring!Next]_(Ring!vars)
<1> SUFFICES ASSUME IInv, [Next]_vars, race' = {},
                    ~(primary' = primary /\ keyring' = keyring)
             PROVE  Ring!Next
  BY DEF Ring!vars
<1>0. TypeOK /\ Admins \subseteq Tasks
  BY DEF IInv, Tasks
<1>1. PICK t \in Admins : Administers(t)
  BY <1>0, ReaderStep DEF Next, vars
<1>2. ASSUME NEW id \in KeyIds, NEW key \in Keys, primary' = primary,
             keyring' = [keyring EXCEPT ![id] = key]
      PROVE  Ring!Next
  BY <1>2 DEF Ring!Next, Ring!Install
<1>3. CASE RotateSets(t)
  <2>1. arg[t] \in KeyIds /\ keyring[arg[t]] # EmptyKey
    BY <1>0, <1>1, <1>3 DEF RotateSets, IInv, TypeOK, ChecksHold, Has
  <2>2. Ring!Promote(arg[t])
    BY <1>3, <2>1 DEF RotateSets, Ring!Promote
  <2> QED
    BY <2>1, <2>2 DEF Ring!Next
<1>4. CASE RevokeRemoves(t)
  <2>1. arg[t] \in KeyIds /\ arg[t] # primary
    BY <1>0, <1>1, <1>4 DEF RevokeRemoves, IInv, TypeOK, ChecksHold
  <2>2. Ring!Retire(arg[t])
    BY <1>4, <2>1 DEF RevokeRemoves, Ring!Retire
  <2> QED
    BY <2>1, <2>2 DEF Ring!Next
<1> QED
  BY <1>0, <1>1, <1>2, <1>3, <1>4, AdminStep DEF RotateChecks, Rotatable, RevokeChecks, Revocable

(* With any number of administrators, every operation takes effect in one  *)
(* step of the atomic keyring until a rotation to a key overlaps a         *)
(* revocation of it: the second lock still finds what the first one found. *)
THEOREM AtomicUntilRace == Spec => KeyringUnlessRaced
<1>1. Init => Ring!Init
  BY DEF Init, Ring!Init
<1>2. IInv /\ [Next]_vars => [race' = {} => Ring!Next]_(Ring!vars)
  BY AtomicUnlessRaced
<1> QED
  BY <1>1, <1>2, Invariant, PTL DEF Spec, KeyringUnlessRaced
-------------------------------------------------------------------------------
(* One administrator: no race, so the two-step operations are as good as   *)
(* atomic.                                                                 *)

AtMostOneAdmin == \A s, t \in Admins : s = t

Alone == IInv /\ race = {}

LEMMA AloneInit == Init => Alone
BY InductiveInit DEF Init, Alone

LEMMA AloneNext ==
  ASSUME AtMostOneAdmin
  PROVE  Alone /\ [Next]_vars => Alone'
<1> SUFFICES ASSUME Alone, [Next]_vars PROVE race' = {}
  BY InductiveNext DEF Alone
<1>1. ASSUME NEW t \in Admins, pc[t] = "idle", NEW step \in {"set_primary", "remove"}, NEW id
      PROVE  ~Pending(step, id)
  BY <1>1 DEF AtMostOneAdmin, Pending
<1>2. ASSUME NEW t \in Admins, Administers(t) PROVE race' = {}
  <2>1. ASSUME NEW id \in KeyIds, RotateChecks(t, id) PROVE race' = {}
    BY <1>1, <2>1 DEF RotateChecks, NotesRace, Alone
  <2>2. ASSUME NEW id \in KeyIds, RevokeChecks(t, id) PROVE race' = {}
    BY <1>1, <2>2 DEF RevokeChecks, NotesRace, Alone
  <2>3. CASE race' = race
    BY <2>3 DEF Alone
  <2> QED
    BY <1>2, <2>1, <2>2, <2>3, AdminStep DEF RotateSets, RevokeRemoves, Alone, IInv
<1>3. ASSUME NEW t \in Readers, Reads(t) PROVE race' = {}
  BY <1>3, ReaderStep DEF Alone, IInv
<1>4. CASE UNCHANGED vars
  BY <1>4 DEF vars, Alone
<1> QED
  BY <1>2, <1>3, <1>4 DEF Next

(* With one administrator the primary key is always in the keyring, at     *)
(* every point inside a rotation or a revocation (key_manager.rs:81).      *)
THEOREM OneAdminKeepsPrimary ==
  ASSUME AtMostOneAdmin
  PROVE  Spec => []PrimaryInKeyring
<1>1. Alone => PrimaryInKeyring
  BY DEF Alone, IInv, PrimaryLostOnlyInRace, PrimaryInKeyring
<1>2. Alone /\ [Next]_vars => Alone'
  BY AloneNext
<1> QED
  BY <1>1, <1>2, AloneInit, PTL DEF Spec

(* With one administrator every operation takes effect in one step: the    *)
(* second step of a rotation or a revocation may still rely on what the    *)
(* first one has checked.                                                  *)
THEOREM OneAdminRefinement ==
  ASSUME AtMostOneAdmin
  PROVE  Spec => ImplementsKeyring
<1>1. Init => Ring!Init
  BY DEF Init, Ring!Init
<1>2. Alone /\ [Next]_vars => Alone'
  BY AloneNext
<1>3. Alone /\ Alone' /\ [Next]_vars => [Ring!Next]_(Ring!vars)
  BY AtomicUnlessRaced DEF Alone
<1> QED
  BY <1>1, <1>2, <1>3, AloneInit, PTL DEF Spec, ImplementsKeyring, Ring!Spec
===============================================================================
