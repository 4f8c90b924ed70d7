----------------------------- MODULE EndpointProofs -----------------------------
(***************************************************************************)
(* Theorems about the three specifications of main.rs: how the server      *)
(* serves its connections (RelayServer), how one session ends              *)
(* (RelaySession) and how the program is started (Startup).  They share no *)
(* variable and no name, so the three are extended together, and the       *)
(* theorems rest on the assumptions about the constants made there.        *)
(***************************************************************************)
EXTENDS RelayServer, RelaySession, Startup, FiniteSetTheorems, SequenceTheorems, TLAPS
-------------------------------------------------------------------------------
(* Startup.                                                                *)
LEMMA StartupBegins == StartupInit => StartupInv
<1> SUFFICES ASSUME StartupInit PROVE StartupInv
  OBVIOUS
<1>1. StartupTypeOK
  <2>1. starts \in 0..MaxStarts
    BY BoundAssumption DEF StartupInit
  <2> QED
    BY <2>1, Zenon DEF StartupInit, StartupTypeOK
<1>2. WizardUntilFile /\ LoaderUntilFile
  BY DEF StartupInit, WizardUntilFile, LoaderUntilFile, Past
<1>3. Unattended /\ AskedFirst /\ ChangedWithConsent
  BY DEF StartupInit, Unattended, AskedFirst, ChangedWithConsent
<1> QED
  BY <1>1, <1>2, <1>3 DEF StartupInv

LEMMA StartupGoesOn == StartupInv /\ [StartupNext]_starting => StartupInv'
<1> SUFFICES ASSUME StartupInv, [StartupNext]_starting PROVE StartupInv'
  OBVIOUS
<1> USE BoundAssumption DEF StartupInv, StartupTypeOK, WizardUntilFile, LoaderUntilFile,
          Unattended, AskedFirst, ChangedWithConsent, Past,
          host, start, Goes, Exits, Answered
<1>0. ASSUME NEW who \in {"user", "service"}, NEW s \in BOOLEAN,
             NEW input \in {"terminal", "empty"}, StartBy(who, s, input),
             who = "service" => input = "empty"
      PROVE  StartupInv'
  <2>1. starts' \in 0..MaxStarts
    BY <1>0 DEF StartBy
  <2>2. /\ pc' = "disclaimer" /\ setup' = s /\ stdin' = input /\ by' = who
        /\ consented' = FALSE /\ UNCHANGED <<system, host, accepted, exit>> /\ pc = "off"
    BY <1>0 DEF StartBy, First
  <2>3. StartupTypeOK'
    BY <1>0, <2>1, <2>2, Zenon
  <2>4. WizardUntilFile' /\ LoaderUntilFile' /\ ChangedWithConsent'
    BY <2>2
  <2>5. Unattended' /\ AskedFirst'
    BY <1>0, <2>2
  <2> QED
    BY <2>3, <2>4, <2>5, Zenon
<1>1. ASSUME NEW s \in BOOLEAN, NEW input \in {"terminal", "empty"}, Start(s, input)
      PROVE  StartupInv'
  BY <1>0, <1>1 DEF Start
<1>2. CASE ServiceStarts
  BY <1>0, <1>2 DEF ServiceStarts
<1>3. CASE TerminalCloses
  BY <1>3 DEF TerminalCloses
<1>4. CASE Killed
  BY <1>4 DEF Killed
<1>5. CASE Consents
  BY <1>5 DEF Consents
<1>6. CASE Declines \/ PromptFails
  BY <1>6 DEF Declines, PromptFails
<1>7. CASE Loader
  BY <1>7 DEF Loader, DllFound, DllCreated, DllFilled, DllFails
<1>8. CASE Wizard
  BY <1>8 DEF Wizard, WizardStarts, WizardSkipped, Chooses,
              Tunes, Tuned, TuningDeclined, SetsCapabilities,
              CapabilitiesDeclined, CapabilitiesFail,
                ConfigCreated, ConfigFilled, SaveFails
<1>9. CASE Launch
  BY <1>9 DEF Launch, ParseFails, Parses, TunCreated, TunFails
<1>10. ASSUME NEW how \in {"ok", "error"}, RelayReturns(how)
       PROVE  StartupInv'
  BY <1>10 DEF RelayReturns
<1>11. CASE UNCHANGED starting
  BY <1>11 DEF starting
<1> QED
  BY <1>1, <1>2, <1>3, <1>4, <1>5, <1>6, <1>7, <1>8, <1>9, <1>10, <1>11 DEF StartupNext

(* Whatever is killed in the middle of a write or anywhere else, and       *)
(* started again: the wizard and the loader are left out only for a file   *)
(* that exists, and nothing on the host changes before somebody consented. *)
THEOREM StartupInvariant == StartupSpec => []StartupInv
BY StartupBegins, StartupGoesOn, PTL DEF StartupSpec

(* Nothing is changed on the host, and no relay begins, in a start whose   *)
(* disclaimer was not accepted.                                            *)
THEOREM ConsentFirst == StartupSpec => NothingBeforeConsent
<1>1. StartupInv /\ [StartupNext]_starting =>
        [<<config, tuned, capable, dll>>' # <<config, tuned, capable, dll>> \/ pc' = "relay"
           => consented]_starting
  <2> SUFFICES ASSUME StartupInv, StartupNext, ~consented
               PROVE  /\ UNCHANGED config /\ UNCHANGED tuned
                      /\ UNCHANGED capable /\ UNCHANGED dll
                      /\ pc' # "relay"
    BY Zenon
  <2>1. pc \in {"off", "disclaimer"}
    BY DEF StartupInv, AskedFirst
  <2> USE DEF host, start, Goes, Exits
  <2>2. ASSUME NEW who, NEW s, NEW input, StartBy(who, s, input)
        PROVE  UNCHANGED host /\ pc' = "disclaimer"
    BY <2>2 DEF StartBy, First
  <2>3. ASSUME NEW s \in BOOLEAN, NEW input \in {"terminal", "empty"}, Start(s, input)
        PROVE  UNCHANGED host /\ pc' = "disclaimer"
    BY <2>2, <2>3 DEF Start
  <2>4. CASE ServiceStarts
    BY <2>2, <2>4 DEF ServiceStarts
  <2>5. CASE TerminalCloses \/ Killed
    BY <2>1, <2>5 DEF TerminalCloses, Killed
  <2>6. CASE Consents \/ Declines \/ PromptFails
    BY <2>1, <2>6 DEF Consents, Declines, PromptFails
  <2>7. ~Loader
    BY <2>1 DEF Loader, DllFound, DllCreated, DllFilled, DllFails
  <2>8. ~Wizard
    BY <2>1 DEF Wizard, WizardStarts, WizardSkipped, Chooses,
                Tunes, TuningDeclined, SetsCapabilities,
                CapabilitiesDeclined, CapabilitiesFail,
                ConfigCreated, ConfigFilled, SaveFails
  <2>9. ~Launch
    BY <2>1 DEF Launch, ParseFails, Parses, TunCreated, TunFails
  <2>10. \A how \in {"ok", "error"} : ~RelayReturns(how)
    BY <2>1 DEF RelayReturns
  <2> QED
    BY <2>3, <2>4, <2>5, <2>6, <2>7, <2>8, <2>9, <2>10 DEF StartupNext
<1> QED
  BY <1>1, StartupInvariant, PTL DEF StartupSpec, NothingBeforeConsent

-------------------------------------------------------------------------------
(* RelaySession.                                                           *)
LEMMA SessionBegins == SessionInit => SessionInv
<1> SUFFICES ASSUME SessionInit PROVE SessionInv
  OBVIOUS
<1>1. raw \in 0..PIPELINE_BUFFER_SIZE /\ proc \in 0..PIPELINE_BUFFER_SIZE
  BY BufferAssumption DEF SessionInit
<1>2. SessionTypeOK
  BY <1>1, Zenon DEF SessionInit, SessionTypeOK
<1>3. Closing /\ ReturnsAfterServer
  BY Zenon DEF SessionInit, Closing, ReturnsAfterServer
<1> QED
  BY <1>2, <1>3 DEF SessionInv

(* The counts stay within the capacity of the channels.                    *)
LEMMA SessionTyped ==
  ASSUME SessionTypeOK, [SessionNext]_session
  PROVE  SessionTypeOK'
<1> DEFINE Counts == raw \in 0..PIPELINE_BUFFER_SIZE /\ proc \in 0..PIPELINE_BUFFER_SIZE
           Flags == fin \in BOOLEAN /\ rst \in BOOLEAN /\ broken \in BOOLEAN
           Places == /\ {ingress, process, egress, down} \subseteq {"open", "done"}
                     /\ client \in {"running", "returned", "killed"}
                     /\ serverTask \in {"handshake", "streaming", "ended"}
<1>0. Counts /\ Flags /\ Places
  BY DEF SessionTypeOK
<1> USE DEF others, upstream, ServerGoes
<1>1. Counts'
  BY <1>0, BufferAssumption DEF SessionNext, session,
     IngressSends, IngressSendFails, TunEnds, ProcessSends,
     ProcessRefuses, ProcessSendFails, ProcessEnds, ProcessPanics,
     EgressWrites, EgressEnds, DownEnds, DownstreamEnds, DownstreamFails,
     Returns, ClientKilled, ResetArrives, NetworkBreaks, ServerAccepts,
     ServerCloses, ServerStreamEnds
<1>2. Flags' /\ Places'
  BY <1>0, Zenon DEF SessionNext, session,
     IngressSends, IngressSendFails, TunEnds, ProcessSends,
     ProcessRefuses, ProcessSendFails, ProcessEnds, ProcessPanics,
     EgressWrites, EgressEnds, DownEnds, DownstreamEnds, DownstreamFails,
     Returns, ClientKilled, ResetArrives, NetworkBreaks, ServerAccepts,
     ServerCloses, ServerStreamEnds, WriteHalfDropped
<1> QED
  BY <1>1, <1>2 DEF SessionTypeOK

LEMMA SessionGoesOn == SessionInv /\ [SessionNext]_session => SessionInv'
<1> SUFFICES ASSUME SessionInv, [SessionNext]_session PROVE SessionInv'
  OBVIOUS
<1> DEFINE Ends == Closing /\ ReturnsAfterServer
<1> SUFFICES Ends'
  BY SessionTyped DEF SessionInv
<1>0. Ends /\ client \in {"running", "returned", "killed"}
  BY DEF SessionInv, SessionTypeOK
<1> USE DEF Closing, ReturnsAfterServer, UpstreamDone, others,
            upstream, ServerGoes
<1>1. CASE IngressSends \/ IngressSendFails \/ TunEnds
  <2>1. UNCHANGED <<process, egress, fin, rst, broken, down, client, serverTask>>
    BY <1>1 DEF IngressSends, IngressSendFails, TunEnds
  <2>2. ingress' = ingress \/ ingress' = "done"
    BY <1>1 DEF IngressSends, IngressSendFails, TunEnds
  <2> QED
    BY <1>0, <2>1, <2>2
<1>2. CASE ProcessSends \/ ProcessRefuses \/ ProcessSendFails \/ ProcessEnds \/ ProcessPanics
  <2>1. UNCHANGED <<ingress, egress, fin, rst, broken, down, client, serverTask>>
    BY <1>2 DEF ProcessSends, ProcessRefuses, ProcessSendFails, ProcessEnds, ProcessPanics
  <2>2. process' = process \/ process' = "done"
    BY <1>2 DEF ProcessSends, ProcessRefuses, ProcessSendFails, ProcessEnds, ProcessPanics
  <2> QED
    BY <1>0, <2>1, <2>2
<1>3. CASE EgressWrites
  BY <1>0, <1>3 DEF EgressWrites
<1>4. CASE EgressEnds
  BY <1>0, <1>4 DEF EgressEnds, WriteHalfDropped
<1>5. CASE DownstreamEnds \/ DownstreamFails
  BY <1>0, <1>5 DEF DownstreamEnds, DownstreamFails, DownEnds
<1>6. CASE Returns
  BY <1>0, <1>6 DEF Returns, BothDone
<1>7. CASE ClientKilled
  BY <1>0, <1>7 DEF ClientKilled
<1>8. CASE ServerAccepts \/ ServerCloses \/ ServerStreamEnds
  BY <1>0, <1>8 DEF ServerAccepts, ServerCloses, ServerStreamEnds
<1>9. CASE ResetArrives \/ NetworkBreaks
  BY <1>0, <1>9 DEF ResetArrives, NetworkBreaks
<1>10. CASE UNCHANGED session
  BY <1>0, <1>10 DEF session
<1> QED
  BY <1>1, <1>2, <1>3, <1>4, <1>5, <1>6, <1>7, <1>8, <1>9, <1>10 DEF SessionNext

(* What the ends of a session tell each other is true: unless the network  *)
(* failed it, a client that returns leaves no session behind that the      *)
(* server still reads, whatever is refused, panics, is reset or is killed, *)
(* with channels of any capacity.                                          *)
THEOREM SessionInvariant == SessionSpec => []SessionInv
BY SessionBegins, SessionGoesOn, PTL DEF SessionSpec

-------------------------------------------------------------------------------
(* RelayServer.  The set of clients may be infinite; the open sockets are  *)
(* finitely many.                                                          *)
ServerInv == IInv /\ IsFiniteSet(Sockets)

LEMMA ServerInit == Init => ServerInv
<1> SUFFICES ASSUME Init PROVE ServerInv
  OBVIOUS
<1>1. TypeOK
  BY DEF Init, TypeOK
<1>2. Queued
  BY DEF Init, Queued
<1>3. NothingUnverified
  BY DEF Init, NothingUnverified
<1>4. Sockets = {}
  BY DEF Init, Sockets
<1>5. IsFiniteSet(Sockets) /\ Cardinality(Sockets) = 0
  BY <1>4, FS_EmptySet
<1>6. Bounded
  <2>1. server # "ended"
    BY DEF Init
  <2>2. Cardinality(Sockets) <= SocketLimit
    BY <1>5, LimitAssumption
  <2> QED
    BY <2>1, <2>2, Zenon DEF Bounded
<1> QED
  BY <1>1, <1>2, <1>3, <1>5, <1>6 DEF ServerInv, IInv

(* A queue that holds each member of a set once, and its head and tail.    *)
Queue(q, S) ==
  /\ {q[i] : i \in 1..Len(q)} = S
  /\ \A i, j \in 1..Len(q) : q[i] = q[j] => i = j

LEMMA QueueAppend ==
  ASSUME NEW q \in Seq(Conns), NEW S, Queue(q, S), NEW c \in Conns, c \notin S
  PROVE  Append(q, c) \in Seq(Conns) /\ Queue(Append(q, c), S \cup {c})
<1> DEFINE longer == Append(q, c)
<1>1. /\ longer \in Seq(Conns) /\ Len(longer) = Len(q) + 1 /\ Len(q) \in Nat
      /\ \A i \in 1..Len(q) : longer[i] = q[i]
      /\ longer[Len(q) + 1] = c
  BY AppendProperties
<1> HIDE DEF longer
<1>2. \A i \in 1..Len(q) : q[i] \in S
  BY DEF Queue
<1>3. ASSUME NEW i \in 1..Len(longer), NEW j \in 1..Len(longer), longer[i] = longer[j]
      PROVE  i = j
  <2>1. CASE i \in 1..Len(q) /\ j \in 1..Len(q)
    BY <1>1, <1>3, <2>1 DEF Queue
  <2>2. CASE i = Len(q) + 1 /\ j \in 1..Len(q)
    BY <1>1, <1>2, <1>3, <2>2
  <2>3. CASE j = Len(q) + 1 /\ i \in 1..Len(q)
    BY <1>1, <1>2, <1>3, <2>3
  <2> QED
    BY <1>1, <2>1, <2>2, <2>3
<1>4. {longer[i] : i \in 1..Len(longer)} = S \cup {c}
  <2>1. ASSUME NEW i \in 1..Len(longer) PROVE longer[i] \in S \cup {c}
    <3>1. i \in 1..Len(q) \/ i = Len(q) + 1
      BY <1>1
    <3> QED
      BY <1>1, <1>2, <3>1
  <2>2. ASSUME NEW x \in S PROVE \E i \in 1..Len(longer) : longer[i] = x
    <3>1. PICK i \in 1..Len(q) : q[i] = x
      BY DEF Queue
    <3> QED
      BY <1>1, <3>1
  <2>3. Len(q) + 1 \in 1..Len(longer)
    BY <1>1
  <2> QED
    BY <1>1, <2>1, <2>2, <2>3
<1>5. Queue(longer, S \cup {c})
  BY <1>3, <1>4 DEF Queue
<1> QED
  BY <1>1, <1>5 DEF longer

LEMMA QueueTail ==
  ASSUME NEW q \in Seq(Conns), NEW S, Queue(q, S), q # <<>>
  PROVE  /\ Head(q) \in Conns /\ Head(q) \in S
         /\ Tail(q) \in Seq(Conns) /\ Queue(Tail(q), S \ {Head(q)})
<1> DEFINE rest == Tail(q)
           next == Head(q)
<1>1. /\ next = q[1] /\ next \in Conns
      /\ rest \in Seq(Conns) /\ Len(rest) = Len(q) - 1 /\ Len(q) \in Nat
      /\ \A i \in 1..Len(rest) : rest[i] = q[i + 1]
  BY HeadTailProperties
<1>2. 1 \in 1..Len(q)
  BY EmptySeq
<1> HIDE DEF rest, next
<1>3. ASSUME NEW i \in 1..Len(rest), NEW j \in 1..Len(rest), rest[i] = rest[j]
      PROVE  i = j
  <2>1. q[i + 1] = q[j + 1] /\ i + 1 \in 1..Len(q) /\ j + 1 \in 1..Len(q)
    BY <1>1, <1>3
  <2> QED
    BY <2>1 DEF Queue
<1>4. {rest[i] : i \in 1..Len(rest)} = S \ {next}
  <2>1. ASSUME NEW i \in 1..Len(rest) PROVE rest[i] \in S \ {next}
    <3>1. rest[i] = q[i + 1] /\ i + 1 \in 1..Len(q) /\ i + 1 # 1
      BY <1>1
    <3> QED
      BY <1>1, <1>2, <3>1 DEF Queue
  <2>2. ASSUME NEW x \in S \ {next} PROVE \E i \in 1..Len(rest) : rest[i] = x
    <3>1. PICK i \in 1..Len(q) : q[i] = x
      BY DEF Queue
    <3>2. i # 1
      BY <1>1, <3>1
    <3>3. i - 1 \in 1..Len(rest) /\ rest[i - 1] = q[(i - 1) + 1] /\ (i - 1) + 1 = i
      BY <1>1, <3>2
    <3> QED
      BY <3>1, <3>3
  <2> QED
    BY <2>1, <2>2
<1>5. Queue(rest, S \ {next})
  BY <1>3, <1>4 DEF Queue
<1>6. next \in S
  BY <1>1, <1>2 DEF Queue
<1> QED
  BY <1>1, <1>5, <1>6 DEF rest, next

Waiting == {c \in Conns : task[c] = "queued"}
Open == {"handshake", "register", "streaming"}

(* What a step of one task does to the sets that are counted.              *)
LEMMA TaskMoves ==
  ASSUME TypeOK, NEW c \in Conns, NEW from, NEW to, Moves(c, from, to),
         to \in {"none", "queued", "handshake", "register", "streaming", "ended"}
  PROVE  /\ task' \in [Conns -> {"none", "queued", "handshake", "register", "streaming", "ended"}]
         /\ task[c] = from /\ task'[c] = to
         /\ \A d \in Conns \ {c} : task'[d] = task[d]
         /\ Waiting' = IF to = "queued" THEN Waiting \cup {c} ELSE Waiting \ {c}
         /\ Sockets' = IF to \in Open THEN Sockets \cup {c}
                                             ELSE Sockets \ {c}
<1>1. /\ task' \in [Conns -> {"none", "queued", "handshake", "register", "streaming", "ended"}]
      /\ task[c] = from /\ task'[c] = to
      /\ \A d \in Conns \ {c} : task'[d] = task[d]
  BY DEF TypeOK, Moves
<1>2. Waiting' = IF to = "queued" THEN Waiting \cup {c} ELSE Waiting \ {c}
  BY <1>1 DEF Waiting
<1>3. Sockets' = IF to \in Open THEN Sockets \cup {c}
                                       ELSE Sockets \ {c}
  BY <1>1 DEF Sockets, Open
<1> QED
  BY <1>1, <1>2, <1>3

LEMMA QueuedIsQueue == Queued <=> Queue(backlog, Waiting)
BY DEF Queued, Queue, Waiting

(* A step that leaves the queue and the sockets as they are, or closes a   *)
(* socket, keeps the counts.                                               *)
LEMMA CountsKept ==
  ASSUME ServerInv, UNCHANGED <<server, backlog>>,
         Waiting' = Waiting, Sockets' \subseteq Sockets
  PROVE  Queued' /\ Bounded' /\ IsFiniteSet(Sockets)'
<1>1. Queued'
  BY QueuedIsQueue DEF ServerInv, IInv, Queued, Waiting
<1>2. /\ IsFiniteSet(Sockets')
      /\ Cardinality(Sockets') <= Cardinality(Sockets)
      /\ Cardinality(Sockets') \in Nat /\ Cardinality(Sockets) \in Nat
  BY FS_Subset, FS_CardinalityType DEF ServerInv
<1>3. Bounded'
  <2>1. Cardinality(Sockets') <= SocketLimit
    <3>1. Cardinality(Sockets) <= SocketLimit
      BY Zenon DEF ServerInv, IInv, Bounded
    <3> QED
      BY <1>2, <3>1, LimitAssumption
  <2>2. server' = "ended" => backlog' = <<>> /\ Sockets' = {}
    BY DEF ServerInv, IInv, Bounded
  <2> QED
    BY <2>1, <2>2, Zenon DEF Bounded
<1> QED
  BY <1>1, <1>2, <1>3

(* A step that verifies, registers and streams nobody keeps what is        *)
(* verified.                                                               *)
LEMMA VerifiedKept ==
  ASSUME NothingUnverified, UNCHANGED <<verified, peer>>,
         \A c \in Conns : task'[c] \in {"register", "streaming"} => task[c] = task'[c],
         \A c \in verified : header'[c] = header[c]
  PROVE  NothingUnverified'
BY DEF NothingUnverified

LEMMA ServerNext == ServerInv /\ [Next]_vars => ServerInv'
<1> SUFFICES ASSUME ServerInv, [Next]_vars PROVE ServerInv'
  OBVIOUS
<1>0. /\ TypeOK /\ Queued /\ NothingUnverified /\ Bounded /\ IsFiniteSet(Sockets)
      /\ server \in {"accepting", "ended"} /\ backlog \in Seq(Conns)
      /\ task \in [Conns -> {"none", "queued", "handshake", "register", "streaming", "ended"}]
      /\ header \in [Conns -> {"unsent", "valid", "invalid"}]
      /\ gone \subseteq Conns /\ verified \subseteq Conns /\ peer \in Conns \cup {NoConn}
      /\ Queue(backlog, Waiting)
  BY QueuedIsQueue DEF ServerInv, IInv, TypeOK
<1> DEFINE Counts == Queued /\ Bounded /\ IsFiniteSet(Sockets)
<1>q. ASSUME TypeOK', NothingUnverified', Counts' PROVE ServerInv'
  BY <1>q DEF ServerInv, IInv
<1> HIDE DEF Counts
<1>1. ASSUME NEW c \in Conns, Connect(c) PROVE ServerInv'
  <2>1. /\ task' \in [Conns -> {"none", "queued", "handshake", "register", "streaming", "ended"}]
        /\ task[c] = "none" /\ task'[c] = "queued"
        /\ \A d \in Conns \ {c} : task'[d] = task[d]
        /\ Waiting' = Waiting \cup {c} /\ Sockets' = Sockets \ {c}
    BY <1>0, <1>1, TaskMoves DEF Connect, Open
  <2>2. c \notin Waiting /\ Sockets' = Sockets
    BY <2>1 DEF Waiting, Sockets
  <2>3. backlog' \in Seq(Conns) /\ Queue(backlog', Waiting')
    BY <1>0, <1>1, <2>1, <2>2, QueueAppend DEF Connect
  <2>4. TypeOK'
    BY <1>0, <1>1, <2>1, <2>3 DEF Connect, TypeOK, clients
  <2>5. NothingUnverified'
    BY <1>0, <1>1, <2>1, VerifiedKept DEF Connect, clients
  <2>6. Counts'
    <3>1. server' # "ended"
      BY <1>1 DEF Connect
    <3>2. Queued'
      BY <2>3 DEF Queued, Queue, Waiting
    <3> QED
      BY <1>0, <2>2, <3>1, <3>2 DEF Bounded, Counts
  <2> QED
    BY <1>q, <2>4, <2>5, <2>6
<1>2. ASSUME NEW c \in Conns, NEW h \in {"valid", "invalid"}, SendHeader(c, h) PROVE ServerInv'
  <2>1. TypeOK'
    BY <1>0, <1>2 DEF SendHeader, TypeOK
  <2>2. c \notin verified
    BY <1>0, <1>2 DEF SendHeader, NothingUnverified
  <2>3. NothingUnverified'
    BY <1>0, <1>2, <2>2, VerifiedKept DEF SendHeader
  <2>4. Counts'
    BY <1>2, CountsKept DEF SendHeader, Waiting, Sockets, Counts
  <2> QED
    BY <1>q, <2>1, <2>3, <2>4
<1>3. ASSUME NEW c \in Conns, Close(c) PROVE ServerInv'
  <2>1. TypeOK'
    BY <1>0, <1>3 DEF Close, TypeOK
  <2>2. NothingUnverified'
    BY <1>0, <1>3, VerifiedKept DEF Close
  <2>3. Counts'
    BY <1>3, CountsKept DEF Close, Waiting, Sockets, Counts
  <2> QED
    BY <1>q, <2>1, <2>2, <2>3
<1>4. CASE Accept
  <2> DEFINE c == Head(backlog)
  <2>1. /\ c \in Conns /\ c \in Waiting
        /\ backlog' \in Seq(Conns) /\ Queue(backlog', Waiting \ {c})
    BY <1>0, <1>4, QueueTail DEF Accept
  <2>2. Moves(c, "queued", "handshake") /\ UNCHANGED <<server, clients, verified, peer>>
        /\ SocketFree /\ server # "ended"
    BY <1>4 DEF Accept
  <2> HIDE DEF c
  <2>3. /\ task' \in [Conns -> {"none", "queued", "handshake", "register", "streaming", "ended"}]
        /\ task[c] = "queued" /\ task'[c] = "handshake"
        /\ \A d \in Conns \ {c} : task'[d] = task[d]
        /\ Waiting' = Waiting \ {c} /\ Sockets' = Sockets \cup {c}
    BY <1>0, <2>1, <2>2, TaskMoves DEF Open
  <2>4. TypeOK'
    BY <1>0, <2>1, <2>2, <2>3 DEF TypeOK, clients
  <2>5. NothingUnverified'
    BY <1>0, <2>2, <2>3, VerifiedKept DEF clients
  <2>6. IsFiniteSet(Sockets') /\ Cardinality(Sockets') <= SocketLimit
    <3>1. /\ IsFiniteSet(Sockets \cup {c})
          /\ Cardinality(Sockets \cup {c}) = IF c \in Sockets THEN Cardinality(Sockets)
                                                              ELSE Cardinality(Sockets) + 1
      BY <1>0, FS_AddElement
    <3>2. Cardinality(Sockets) \in Nat /\ Cardinality(Sockets) < SocketLimit
      BY <1>0, <2>2, FS_CardinalityType DEF SocketFree
    <3> QED
      BY <2>3, <3>1, <3>2, LimitAssumption
  <2>7. Counts'
    <3>1. Queued'
      BY <2>1, <2>3 DEF Queued, Queue, Waiting
    <3> QED
      BY <2>2, <2>6, <3>1 DEF Bounded, Counts
  <2> QED
    BY <1>q, <2>4, <2>5, <2>7
<1>5. CASE ServerStops
  <2>1. task' \in [Conns -> {"none", "queued", "handshake", "register", "streaming", "ended"}]
        /\ \A c \in Conns : task'[c] \in {"none", "ended"}
    BY <1>0, <1>5 DEF ServerStops
  <2>2. Waiting' = {} /\ Sockets' = {}
    BY <2>1 DEF Waiting, Sockets
  <2>3. TypeOK'
    BY <1>0, <1>5, <2>1 DEF ServerStops, TypeOK, clients
  <2>4. NothingUnverified'
    BY <1>0, <1>5, <2>1, VerifiedKept DEF ServerStops, clients
  <2>5. IsFiniteSet(Sockets') /\ Cardinality(Sockets') <= SocketLimit
    BY <2>2, FS_EmptySet, LimitAssumption
  <2>6. Counts'
    <3>1. backlog' = <<>>
      BY <1>5 DEF ServerStops
    <3>2. Queued'
      BY <2>2, <3>1 DEF Queued, Waiting
    <3> QED
      BY <2>2, <2>5, <3>1, <3>2 DEF Bounded, Counts
  <2> QED
    BY <1>q, <2>3, <2>4, <2>6
<1>6. ASSUME NEW c \in Conns, Verifies(c) PROVE ServerInv'
  <2>1. /\ task' \in [Conns -> {"none", "queued", "handshake", "register", "streaming", "ended"}]
        /\ task[c] = "handshake" /\ task'[c] = "register"
        /\ \A d \in Conns \ {c} : task'[d] = task[d]
        /\ Waiting' = Waiting \ {c} /\ Sockets' = Sockets \cup {c}
    BY <1>0, <1>6, TaskMoves DEF Verifies, Open
  <2>2. Waiting' = Waiting /\ Sockets' = Sockets
    BY <2>1 DEF Waiting, Sockets
  <2>3. TypeOK'
    BY <1>0, <1>6, <2>1 DEF Verifies, TypeOK, clients
  <2>4. NothingUnverified'
    BY <1>0, <1>6, <2>1 DEF Verifies, Valid, NothingUnverified, clients
  <2>5. Counts'
    BY <1>6, <2>2, CountsKept DEF Verifies, Counts
  <2> QED
    BY <1>q, <2>3, <2>4, <2>5
<1>7. ASSUME NEW c \in Conns, Registers(c) PROVE ServerInv'
  <2>1. /\ task' \in [Conns -> {"none", "queued", "handshake", "register", "streaming", "ended"}]
        /\ task[c] = "register" /\ task'[c] = "streaming"
        /\ \A d \in Conns \ {c} : task'[d] = task[d]
        /\ Waiting' = Waiting \ {c} /\ Sockets' = Sockets \cup {c}
    BY <1>0, <1>7, TaskMoves DEF Registers, Open
  <2>2. Waiting' = Waiting /\ Sockets' = Sockets
    BY <2>1 DEF Waiting, Sockets
  <2>3. c \in verified /\ c # NoConn
    BY <1>0, <2>1, ConnsAssumption DEF NothingUnverified
  <2>4. TypeOK'
    BY <1>0, <1>7, <2>1 DEF Registers, TypeOK, clients
  <2>5. NothingUnverified'
    BY <1>0, <1>7, <2>1, <2>3 DEF Registers, NothingUnverified, clients
  <2>6. Counts'
    BY <1>7, <2>2, CountsKept DEF Registers, Counts
  <2> QED
    BY <1>q, <2>4, <2>5, <2>6
<1>8. ASSUME NEW c \in Conns, NEW from \in {"handshake", "streaming"}, TaskEnds(c, from)
      PROVE  ServerInv'
  <2>1. /\ task' \in [Conns -> {"none", "queued", "handshake", "register", "streaming", "ended"}]
        /\ task[c] = from /\ task'[c] = "ended"
        /\ \A d \in Conns \ {c} : task'[d] = task[d]
        /\ Waiting' = Waiting \ {c} /\ Sockets' = Sockets \ {c}
    BY <1>0, <1>8, TaskMoves DEF TaskEnds, Open
  <2>2. Waiting' = Waiting
    BY <2>1 DEF Waiting
  <2>3. TypeOK'
    BY <1>0, <1>8, <2>1 DEF TaskEnds, TypeOK, clients
  <2>4. NothingUnverified'
    BY <1>0, <1>8, <2>1, VerifiedKept DEF TaskEnds, clients
  <2>5. Counts'
    BY <1>8, <2>1, <2>2, CountsKept DEF TaskEnds, Counts
  <2> QED
    BY <1>q, <2>3, <2>4, <2>5
<1>9. CASE UNCHANGED vars
  <2>1. TypeOK' /\ NothingUnverified'
    BY <1>0, <1>9 DEF vars, clients, TypeOK, NothingUnverified
  <2>2. Counts'
    BY <1>9, CountsKept DEF vars, clients, Waiting, Sockets, Counts
  <2> QED
    BY <1>q, <2>1, <2>2
<1> QED
  BY <1>1, <1>2, <1>3, <1>4, <1>5, <1>6, <1>7, <1>8, <1>9
  DEF Next, AcceptFails, Client, Task, Refuses, HandshakeFails, StreamEnds, StreamBreaks

(* Nothing of a client gets past the handshake without a valid header, the *)
(* queue holds each waiting connection once, and the open sockets stay     *)
(* within the limit and end with the process: for any set of clients,      *)
(* infinite ones included.                                                 *)
THEOREM ServerInvariant == Spec => []IInv
<1>1. ServerInv => IInv
  BY DEF ServerInv
<1> QED
  BY <1>1, ServerInit, ServerNext, PTL DEF Spec

===============================================================================
