------------------------------ MODULE RelayServer ------------------------------
(***************************************************************************)
(* run_server_mode (src/src/main.rs): the server process with its accept   *)
(* loop, and one task for each connection that it has accepted: the task   *)
(* verifies the handshake, registers the client with the mesh engine and   *)
(* runs the downstream pipeline until the stream ends.                     *)
(*                                                                         *)
(* What a task does in detail is in Handshake, GradientMesh and            *)
(* DownstreamPipeline; here it counts how tasks, the loop and the clients  *)
(* hold each other up.  A client is what it does to its socket.            *)
(***************************************************************************)
EXTENDS Naturals, Sequences, FiniteSets

CONSTANTS
  Conns,          \* the connections that clients open, one each
  NoConn,
  SocketLimit     \* sockets the process may have open besides the listener

ASSUME ConnsAssumption == NoConn \notin Conns
ASSUME LimitAssumption == SocketLimit \in Nat \ {0}

VARIABLES
  server,    \* "accepting", or "ended": run_server_mode has returned Err
  backlog,   \* connections the kernel has completed and accept not yet taken
  task,      \* task[c]: what the task of c is doing
  header,    \* header[c]: the handshake header the client has sent, if any
  gone,      \* clients that have closed their end
  verified,  \* history: connections whose handshake was accepted
  peer       \* the connection whose address the mesh engine has for its peer

clients == <<header, gone>>
vars == <<server, backlog, task, clients, verified, peer>>

Sockets == {c \in Conns : task[c] \in {"handshake", "register", "streaming"}}

Init ==
  /\ server = "accepting" /\ backlog = <<>>
  /\ task = [c \in Conns |-> "none"] /\ header = [c \in Conns |-> "unsent"]
  /\ gone = {} /\ verified = {} /\ peer = NoConn

(* The task of c goes on from one state to the next.                       *)
Moves(c, from, to) == task[c] = from /\ task' = [task EXCEPT ![c] = to]
-------------------------------------------------------------------------------
(* The clients.  Each may stop at any point for as long as it likes.       *)
Connect(c) ==
  /\ server = "accepting" /\ Moves(c, "none", "queued")
  /\ backlog' = Append(backlog, c)
  /\ UNCHANGED <<server, clients, verified, peer>>

SendHeader(c, h) ==
  /\ task[c] \in {"queued", "handshake"} /\ header[c] = "unsent" /\ c \notin gone
  /\ header' = [header EXCEPT ![c] = h]
  /\ UNCHANGED <<server, backlog, task, gone, verified, peer>>

Close(c) ==
  /\ task[c] \notin {"none", "ended"} /\ c \notin gone
  /\ gone' = gone \cup {c}
  /\ UNCHANGED <<server, backlog, task, header, verified, peer>>
-------------------------------------------------------------------------------
(* The accept loop.                                                        *)
SocketFree == Cardinality(Sockets) < SocketLimit

(* Slip: the loop awaits the handshake instead of spawning it.             *)
NoHandshake == \A c \in Conns : task[c] # "handshake"

\* tokio::spawn returns at once: nothing else holds the loop up.
Spawned == TRUE

Accept ==
  /\ server = "accepting" /\ backlog # <<>> /\ SocketFree /\ Spawned
  /\ backlog' = Tail(backlog)
  /\ Moves(Head(backlog), "queued", "handshake")
  /\ UNCHANGED <<server, clients, verified, peer>>

\* main ends, or the process aborts: every task goes with its socket.
ServerStops ==
  /\ server' = "ended" /\ backlog' = <<>>
  /\ task' = [c \in Conns |-> IF task[c] = "none" THEN "none" ELSE "ended"]
  /\ UNCHANGED <<clients, verified, peer>>

\* main.rs:288 returns any error of accept, at any time.
AcceptFails == server = "accepting" /\ ServerStops

\* One that is bound to come: a connection is queued, and no socket is free.
OutOfSockets == backlog # <<>> /\ ~SocketFree /\ AcceptFails
-------------------------------------------------------------------------------
(* The task of a connection.                                               *)

(* Slip: the signature is not compared.                                    *)
Any(c) == header[c] # "unsent"

\* server_handshake returned Ok.
Valid(c) == header[c] = "valid"

Verifies(c) ==
  /\ Valid(c) /\ Moves(c, "handshake", "register")
  /\ verified' = verified \cup {c}
  /\ UNCHANGED <<server, backlog, clients, peer>>

(* Slip: only a wrong header is refused; the end of the stream is not.     *)
WrongHeader(c) == header[c] = "invalid"

\* server_handshake returned Err.
Invalid(c) == header[c] = "invalid" \/ (header[c] = "unsent" /\ c \in gone)

TaskEnds(c, from) ==
  /\ Moves(c, from, "ended")
  /\ UNCHANGED <<server, backlog, clients, verified, peer>>

Refuses(c) == Invalid(c) /\ TaskEnds(c, "handshake")

\* Whatever the header: the read failed, or the header waited for so long
\* that the clocks no longer agree.
HandshakeFails(c) == TaskEnds(c, "handshake")

\* register_peer keeps the address it already has.
Registers(c) ==
  /\ Moves(c, "register", "streaming")
  /\ peer' = IF peer = NoConn THEN c ELSE peer
  /\ UNCHANGED <<server, backlog, clients, verified>>

\* The stream has ended and the pipeline with it; the result is ignored.
StreamEnds(c) == c \in gone /\ TaskEnds(c, "streaming")

\* The engine panicked.  In an unwinding build the pipeline returns an error
\* that the task ignores; the release profile aborts the process.
StreamBreaks(c) == task[c] = "streaming" /\ (TaskEnds(c, "streaming") \/ ServerStops)

Task(c) == Verifies(c) \/ Refuses(c) \/ Registers(c) \/ StreamEnds(c)
Client(c) == Connect(c) \/ Close(c) \/ \E h \in {"valid", "invalid"} : SendHeader(c, h)

Next ==
  \/ Accept \/ AcceptFails
  \/ \E c \in Conns : Client(c) \/ Task(c) \/ HandshakeFails(c) \/ StreamBreaks(c)

Spec == Init /\ [][Next]_vars

(* The runtime polls the loop and every task that can run; accept returns  *)
(* while a connection is queued, with an error if no socket is free.       *)
(* Nothing makes a client send or close, and nothing else has to fail.     *)
FairSpec == Spec /\ WF_vars(Accept \/ OutOfSockets) /\ \A c \in Conns : WF_vars(Task(c))
-------------------------------------------------------------------------------
TypeOK ==
  /\ server \in {"accepting", "ended"}
  /\ backlog \in Seq(Conns)
  /\ task \in [Conns -> {"none", "queued", "handshake", "register", "streaming", "ended"}]
  /\ header \in [Conns -> {"unsent", "valid", "invalid"}]
  /\ gone \subseteq Conns /\ verified \subseteq Conns
  /\ peer \in Conns \cup {NoConn}

(* Each queued connection is in the queue once.                            *)
Queued ==
  /\ {backlog[i] : i \in 1..Len(backlog)} = {c \in Conns : task[c] = "queued"}
  /\ \A i, j \in 1..Len(backlog) : backlog[i] = backlog[j] => i = j

(* Nothing of a client gets past the handshake without a valid header: its *)
(* frames are not read and its address is not given to the mesh engine     *)
(* (main.rs:297-314, the early return of the task).                        *)
NothingUnverified ==
  /\ \A c \in Conns : task[c] \in {"register", "streaming"} => c \in verified
  /\ \A c \in verified : header[c] = "valid"
  /\ peer # NoConn => peer \in verified
  /\ (\E c \in Conns : task[c] = "streaming") => peer # NoConn

(* The tasks are bounded by the sockets, and end with the process.         *)
Bounded ==
  /\ Cardinality(Sockets) <= SocketLimit
  /\ server = "ended" => backlog = <<>> /\ Sockets = {}

IInv == TypeOK /\ Queued /\ NothingUnverified /\ Bounded
-------------------------------------------------------------------------------
(* Properties.                                                             *)

(* A client that sends a valid header gets its session, or is turned away  *)
(* by an error of its own connection or by the end of the process; it is   *)
(* never left waiting, whatever the other clients do, also if they never   *)
(* send theirs: the loop does not wait for a handshake (main.rs:295).      *)
ValidClientDecided ==
  \A c \in Conns : header[c] = "valid" ~> (c \in verified \/ task[c] = "ended")

(* When a client closes its end, at any stage, the task that holds its     *)
(* socket ends in the end: no path through the task keeps one (it is the   *)
(* sockets that are kept that make accept fail).                           *)
ClosedIsReleased == \A c \in Conns : c \in gone ~> (task[c] = "ended")
===============================================================================
