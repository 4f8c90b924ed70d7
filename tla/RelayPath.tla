------------------------------- MODULE RelayPath -------------------------------
(***************************************************************************)
(* One connection from the client's TUN device to the server's writer, as  *)
(* main.rs puts it together: the client's upstream pipeline, the TCP       *)
(* stream, the server's downstream pipeline.  Either pipeline is the       *)
(* PrefixFifo that it implements (PipelineProofs!UpstreamRefinement and    *)
(* DownstreamRefinement).  Packets are numbered as the client takes them,  *)
(* frames as it makes them: frame n carries packet stamped[n].             *)
(*                                                                         *)
(* A frame gets its timestamp from obfuscate, before it is queued.  It     *)
(* then waits in the hand of the process task, in proc_tx, in the hand of  *)
(* the egress task and in the socket buffers, which are one queue here,    *)
(* and grows older until the server reads it and compares the clocks.      *)
(*                                                                         *)
(* The client runs its pipelines without an answer from the server; the    *)
(* server reads frames only in a session that it has accepted, and writes  *)
(* the packets to tokio::io::sink().                                       *)
(***************************************************************************)
EXTENDS PacketSequences

CONSTANTS
  Capacity,      \* frames that can wait: PIPELINE_BUFFER_SIZE + 2 + the sockets
  TimelyAge,     \* a frame is in time up to this age (30 s in the code)
  LateAge,       \* and late from this one on (35 s); between, it depends on
                 \* where in its window of 5 s it was stamped
  ReadInterval,  \* the pace: within how many ticks a frame is read
  MaxPackets     \* bound of the model: packets taken from TUN

ASSUME BoundAssumption == MaxPackets \in Nat
ASSUME QueueAssumption == Capacity \in Nat \ {0} /\ ReadInterval \in Nat
ASSUME AgeAssumption == TimelyAge \in Nat /\ LateAge \in Nat /\ TimelyAge < LateAge

VARIABLES
  session,     \* the server's task: "handshake", "streaming" or "ended"
  taken,       \* packets the client has read from TUN
  unsent,      \* packets the client's engine refused
  stamped,     \* packets of the frames the client has made
  waiting,     \* ages of the frames the server has not read, the oldest first
  since,       \* ticks since the last read, or since the queue was empty
  steady,      \* history: frames were read at the pace so far
  arrived,     \* frames the server has read
  late,        \* those of them whose timestamp it did not accept
  undecoded,   \* frames the server's engine refused
  sunk         \* frames whose packet the server has written to the sink

queue == <<waiting, since, steady>>
client == <<taken, unsent, stamped>>
server == <<arrived, undecoded, sunk>>
vars == <<session, client, queue, late, server>>

Up == INSTANCE PrefixFifo WITH accepted <- taken, dropped <- unsent, delivered <- stamped
Down == INSTANCE PrefixFifo WITH accepted <- arrived, dropped <- undecoded, delivered <- sunk

Least(a, b) == IF a < b THEN a ELSE b

Init ==
  /\ session = "handshake"
  /\ taken = 0 /\ unsent = {} /\ stamped = <<>>
  /\ waiting = <<>> /\ since = 0 /\ steady = TRUE
  /\ arrived = 0 /\ late = {} /\ undecoded = {} /\ sunk = <<>>
-------------------------------------------------------------------------------
(* The client.                                                             *)
ClientTakes ==
  /\ taken < MaxPackets /\ Up!Accept
  /\ UNCHANGED <<session, queue, late, server>>

ClientRefuses(p) == Up!Drop(p) /\ UNCHANGED <<session, queue, late, server>>

(* Slip: the next packet is stamped before there is room for this one.     *)
RoomForOneMore == Len(waiting) <= Capacity

\* The process task stamps a packet when it has sent the one before.
Room == Len(waiting) < Capacity

ClientStamps(p) ==
  /\ Room /\ Up!Deliver(p)
  /\ waiting' = Append(waiting, 0)
  /\ UNCHANGED <<session, since, steady, late, server>>

(* Time passes.  Ages are not told apart beyond LateAge.                   *)
Tick ==
  /\ waiting # <<>>
  /\ waiting' = [i \in DOMAIN waiting |-> Least(waiting[i] + 1, LateAge)]
  /\ since' = Least(since + 1, ReadInterval + 1)
  /\ steady' = (steady /\ since < ReadInterval)
  /\ UNCHANGED <<session, client, late, server>>
-------------------------------------------------------------------------------
(* The server's task for the connection.                                   *)
SessionAccepted ==
  /\ session = "handshake" /\ session' = "streaming"
  /\ UNCHANGED <<client, queue, late, server>>

\* Refused, or the connection is over, or the process is.
SessionEnds ==
  /\ session # "ended" /\ session' = "ended"
  /\ UNCHANGED <<client, queue, late, server>>

(* Slip: frames are read before the handshake is verified.                 *)
ReadingAlways == session # "ended"

Reading == session = "streaming"

\* deobfuscate compares the clock with the timestamp.
ServerReads ==
  /\ Reading /\ waiting # <<>> /\ Down!Accept
  /\ waiting' = Tail(waiting) /\ since' = 0
  /\ \/ waiting[1] < LateAge /\ late' = late
     \/ waiting[1] > TimelyAge /\ late' = late \cup {arrived + 1}
  /\ UNCHANGED <<session, client, steady>>

ServerRefuses(n) ==
  /\ session = "streaming" /\ Down!Drop(n)
  /\ UNCHANGED <<session, client, queue, late>>

(* Slip: frames are decoded in parallel and written as they get ready.     *)
ServerWritesUnordered(n) ==
  /\ session = "streaming" /\ n \notin Range(sunk) \cup undecoded \cup late
  /\ sunk' = Append(sunk, n)
  /\ UNCHANGED <<session, client, queue, late, arrived, undecoded>>

\* To the sink, not to the TUN device.  A late frame keeps its wrapping,
\* and the engine refuses it.
ServerWrites(n) ==
  /\ session = "streaming" /\ n \notin late /\ Down!Deliver(n)
  /\ UNCHANGED <<session, client, queue, late>>

Next ==
  \/ ClientTakes \/ Tick \/ SessionAccepted \/ SessionEnds \/ ServerReads
  \/ \E p \in 1..taken : ClientRefuses(p) \/ ClientStamps(p)
  \/ \E n \in 1..arrived : ServerRefuses(n) \/ ServerWrites(n)

Spec == Init /\ [][Next]_vars
-------------------------------------------------------------------------------
PacketsOf(frames) == {stamped[n] : n \in frames}
Relayed == [i \in 1..Len(sunk) |-> stamped[sunk[i]]]

TypeOK ==
  /\ session \in {"handshake", "streaming", "ended"}
  /\ taken \in Nat /\ unsent \subseteq 1..taken /\ stamped \in Seq(1..taken)
  /\ waiting \in Seq(0..LateAge) /\ Len(waiting) <= Capacity
  /\ since \in 0..(ReadInterval + 1) /\ steady \in BOOLEAN
  /\ arrived \in Nat /\ Len(stamped) = arrived + Len(waiting)
  /\ late \subseteq 1..arrived /\ undecoded \subseteq 1..arrived /\ sunk \in Seq(1..arrived)

(* What is settled on either leg is settled for good and without gaps.     *)
LegsOrdered ==
  /\ Increasing(stamped) /\ Range(stamped) \cap unsent = {}
  /\ \A p \in Range(stamped) : 1..p \subseteq Range(stamped) \cup unsent
  /\ Increasing(sunk) /\ Range(sunk) \cap (undecoded \cup late) = {}
  /\ \A n \in Range(sunk) : 1..n \subseteq Range(sunk) \cup undecoded

NothingBeforeAcceptance == session = "handshake" => arrived = 0

(* At the pace, a frame that is i-th in the queue has seen Capacity - i    *)
(* reads at most.                                                          *)
AgesBounded ==
  steady => /\ since <= ReadInterval
            /\ \A i \in DOMAIN waiting : waiting[i] <= (Capacity - i) * ReadInterval + since

IInv == TypeOK /\ LegsOrdered /\ NothingBeforeAcceptance /\ AgesBounded
-------------------------------------------------------------------------------
(* Properties.                                                             *)

(* The two pipelines and the stream between them are again one direction   *)
(* of the relay: the server's packets are the client's from the first, in  *)
(* order, once each, and only those are missing that one of the engines    *)
(* refused, whenever the session begins or breaks.                         *)
EndToEnd == INSTANCE PrefixFifo
              WITH accepted <- taken,
                   dropped <- unsent \cup PacketsOf(undecoded),
                   delivered <- Relayed
ImplementsPrefixFifo == EndToEnd!Spec

(* A queue that is read at a pace at which a full one is emptied within    *)
(* the tolerance of the timestamps loses nothing to them.  With 1024       *)
(* frames and 30 s that is 34 frames a second; a slower link makes every  *)
(* frame late while the load lasts (mod.rs:61-62, obfuscation.rs:103).     *)
NothingLateAtPace == steady /\ Capacity * ReadInterval <= TimelyAge => late = {}
===============================================================================
