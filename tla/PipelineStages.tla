---------------------------- MODULE PipelineStages ----------------------------
(***************************************************************************)
(* What both pipelines of src/src/pipeline/mod.rs share: three tokio       *)
(* tasks, here "ingress", "process" and "egress", joined by two bounded    *)
(* mpsc channels and awaited together by the caller.  UpstreamPipeline and *)
(* DownstreamPipeline say what each task does with a packet; the tasks'    *)
(* loops, their ends and their failures are written the same way twice in  *)
(* the code and stand here once.                                           *)
(*                                                                         *)
(* Packets are numbered in the order in which the ingress task gets them;  *)
(* channels and the tasks' hands hold their numbers.  Every await is a     *)
(* point where the other tasks may run, so each loop is cut there and      *)
(* nowhere else.  A channel end is alive exactly while the task that owns  *)
(* it has not ended, because each async block owns its end and drops it    *)
(* when it finishes.                                                       *)
(***************************************************************************)
EXTENDS PacketSequences, FiniteSets

CONSTANTS
  PIPELINE_BUFFER_SIZE,  \* capacity of either channel (1024 in the code)
  MaxPackets             \* bound of the model: packets the ingress task gets

\* mpsc::channel panics on capacity 0.
ASSUME BufferAssumption == PIPELINE_BUFFER_SIZE \in Nat \ {0}
ASSUME BoundAssumption == MaxPackets \in Nat

VARIABLES
  pc,        \* pc[s]: where stage s is suspended, or "done"
  hand,      \* hand[s]: the packet stage s has received and not yet handed on
  first,     \* the channel from ingress to process (raw up, compressed down)
  second,    \* the channel from process to egress (proc up, raw down)
  out,       \* packets the egress task has written completely
  taken,     \* how many packets the ingress task has got
  dropped,   \* packets that were kept from the egress by decision
  fault,     \* history: the faults that ended a stage
  result     \* what the caller has got: "running", "ok" or "panic"

stages == <<pc, hand, first, second, out, taken, dropped, fault, result>>

Stages == {"ingress", "process", "egress"}
Packets == 1..MaxPackets
Points == {"read", "apply", "recv", "send", "write", "payload", "flush", "done"}
Busy == {"apply", "send", "write", "payload"}   \* where a stage holds a packet
Empty == <<>>

(* Stage s is suspended at point p with hold in its hand.                  *)
Goto(s, p, hold) == pc' = [pc EXCEPT ![s] = p] /\ hand' = [hand EXCEPT ![s] = hold]

(* The async block of stage s is over and drops what it still holds.       *)
Ends(s) == Goto(s, "done", Empty)

HasRoom(channel) == Len(channel) < PIPELINE_BUFFER_SIZE

StagesInit ==
  /\ pc = [s \in Stages |-> IF s = "ingress" THEN "read" ELSE "recv"]
  /\ hand = [s \in Stages |-> Empty]
  /\ first = <<>> /\ second = <<>> /\ out = <<>>
  /\ taken = 0 /\ dropped = {}
  /\ fault = {} /\ result = "running"
-------------------------------------------------------------------------------
(* Stage 1.  The read returned a packet, which goes on or is applied here, *)
(* or the end of the input, or an error.                                   *)
IngressTakes(next) ==
  /\ pc["ingress"] = "read" /\ taken < MaxPackets
  /\ taken' = taken + 1
  /\ Goto("ingress", next, <<taken + 1>>)
  /\ UNCHANGED <<first, second, out, dropped, fault, result>>

IngressEnds ==
  /\ pc["ingress"] = "read"
  /\ Ends("ingress")
  /\ UNCHANGED <<first, second, out, taken, dropped, fault, result>>

(* Slip: the continue is missing, what was applied goes on as a packet.    *)
IngressAppliesAndSends ==
  /\ pc["ingress"] = "apply"
  /\ dropped' = dropped \cup Range(hand["ingress"])
  /\ Goto("ingress", "send", hand["ingress"])
  /\ UNCHANGED <<first, second, out, taken, fault, result>>

\* Downstream: apply_gradient_feedback got its lock and returned; continue.
IngressApplies ==
  /\ pc["ingress"] = "apply"
  /\ dropped' = dropped \cup Range(hand["ingress"])
  /\ Goto("ingress", "read", Empty)
  /\ UNCHANGED <<first, second, out, taken, fault, result>>

IngressSends ==
  /\ pc["ingress"] = "send" /\ pc["process"] # "done" /\ HasRoom(first)
  /\ first' = first \o hand["ingress"]
  /\ Goto("ingress", "read", Empty)
  /\ UNCHANGED <<second, out, taken, dropped, fault, result>>

(* Slip: the error of the send is ignored and the task keeps reading.      *)
IngressSendIgnoresError ==
  /\ pc["ingress"] = "send" /\ pc["process"] = "done"
  /\ Goto("ingress", "read", Empty)
  /\ UNCHANGED <<first, second, out, taken, dropped, fault, result>>

\* The receiver is gone: the packet is lost, and the loop breaks.
IngressSendFails ==
  /\ pc["ingress"] = "send" /\ pc["process"] = "done"
  /\ Ends("ingress")
  /\ UNCHANGED <<first, second, out, taken, dropped, fault, result>>
-------------------------------------------------------------------------------
(* Stage 2.  The engine returned Ok, and the result will be sent on, or    *)
(* Err, and the loop goes on without the packet.                           *)
ProcessAccepts ==
  /\ pc["process"] = "recv" /\ first # <<>>
  /\ first' = Tail(first)
  /\ Goto("process", "send", <<Head(first)>>)
  /\ UNCHANGED <<second, out, taken, dropped, fault, result>>

ProcessRefuses ==
  /\ pc["process"] = "recv" /\ first # <<>>
  /\ first' = Tail(first)
  /\ dropped' = dropped \cup {Head(first)}
  /\ UNCHANGED <<pc, hand, second, out, taken, fault, result>>

\* The engine, code outside the repository, panicked (unwinding build):
\* the task ends and drops both channel ends.
ProcessPanics ==
  /\ pc["process"] = "recv" /\ first # <<>>
  /\ first' = <<>>
  /\ fault' = fault \cup {"panic"}
  /\ Ends("process")
  /\ UNCHANGED <<second, out, taken, dropped, result>>

(* Slip: the loop stops when the sender is gone, without emptying first.   *)
ClosedEarly(channel, sender) == pc[sender] = "done"

(* Slip: a clone of the sender is kept, so that the channel never closes.  *)
ClosedNever(channel, sender) == FALSE

\* recv returns None only when the channel is empty and its sender is gone.
Closed(channel, sender) == channel = <<>> /\ pc[sender] = "done"

ProcessEnds ==
  /\ pc["process"] = "recv" /\ Closed(first, "ingress")
  /\ Ends("process")
  /\ UNCHANGED <<first, second, out, taken, dropped, fault, result>>

ProcessSends ==
  /\ pc["process"] = "send" /\ pc["egress"] # "done" /\ HasRoom(second)
  /\ second' = second \o hand["process"]
  /\ Goto("process", "recv", Empty)
  /\ UNCHANGED <<first, out, taken, dropped, fault, result>>

\* The task ends, and what waits in the first channel goes with it.
ProcessSendFails ==
  /\ pc["process"] = "send" /\ pc["egress"] = "done"
  /\ first' = <<>>
  /\ Ends("process")
  /\ UNCHANGED <<second, out, taken, dropped, fault, result>>
-------------------------------------------------------------------------------
(* Stage 3.                                                                *)
EgressTakes ==
  /\ pc["egress"] = "recv" /\ second # <<>>
  /\ second' = Tail(second)
  /\ Goto("egress", "write", <<Head(second)>>)
  /\ UNCHANGED <<first, out, taken, dropped, fault, result>>

EgressEnds ==
  /\ pc["egress"] = "recv" /\ Closed(second, "process")
  /\ Ends("egress")
  /\ UNCHANGED <<first, second, out, taken, dropped, fault, result>>

\* An await of the write returned Ok, and there is more to be awaited.
EgressGoesOn(at, next) ==
  /\ pc["egress"] = at
  /\ Goto("egress", next, hand["egress"])
  /\ UNCHANGED <<first, second, out, taken, dropped, fault, result>>

\* With this one the packet is written completely.
EgressWrites(at, next) ==
  /\ pc["egress"] = at
  /\ out' = out \o hand["egress"]
  /\ Goto("egress", next, Empty)
  /\ UNCHANGED <<first, second, taken, dropped, fault, result>>

(* Slip: after a write error the loop goes on with the next packet.        *)
EgressWriteFailsContinues ==
  /\ pc["egress"] \in {"write", "payload", "flush"}
  /\ fault' = fault \cup {"write"}
  /\ Goto("egress", "recv", Empty)
  /\ UNCHANGED <<first, second, out, taken, dropped, result>>

\* One of the awaits returned Err: the loop breaks.
EgressWriteFails ==
  /\ pc["egress"] \in {"write", "payload", "flush"}
  /\ second' = <<>>
  /\ fault' = fault \cup {"write"}
  /\ Ends("egress")
  /\ UNCHANGED <<first, out, taken, dropped, result>>
-------------------------------------------------------------------------------
(* tokio::join! waits for all three handles and reports a panic afterwards. *)
Returns ==
  /\ result = "running"
  /\ \A s \in Stages : pc[s] = "done"
  /\ result' = IF "panic" \in fault THEN "panic" ELSE "ok"
  /\ UNCHANGED <<pc, hand, first, second, out, taken, dropped, fault>>

Terminated == result # "running" /\ UNCHANGED stages

IngressHandsOn == IngressApplies \/ IngressSends \/ IngressSendFails
ProcessStep ==
  \/ ProcessAccepts \/ ProcessRefuses \/ ProcessPanics
  \/ ProcessEnds \/ ProcessSends \/ ProcessSendFails
EgressWriting ==
  \/ EgressGoesOn("write", "payload") \/ EgressGoesOn("flush", "recv")
  \/ EgressWrites("payload", "flush") \/ EgressWrites("write", "recv")
  \/ EgressWriteFails

(* Either pipeline does steps of these only.                               *)
StagesNext ==
  \/ \E next \in {"send", "apply"} : IngressTakes(next)
  \/ IngressEnds \/ IngressHandsOn \/ ProcessStep
  \/ EgressTakes \/ EgressEnds \/ EgressWriting \/ Returns \/ Terminated

StagesSpec == StagesInit /\ [][StagesNext]_stages
-------------------------------------------------------------------------------
(* The pipeline read from its end to its beginning: every packet that is   *)
(* still alive, the oldest first.                                          *)
Leaving == out \o hand["egress"] \o second
Encoded == Leaving \o hand["process"]
Line == Encoded \o first \o hand["ingress"]

(* s holds every packet up to its newest one, the dropped ones excepted.   *)
Contiguous(s) == \A p \in Range(s) : 1..p \subseteq Range(s) \cup dropped

TypeOK ==
  /\ pc \in [Stages -> Points]
  /\ pc["ingress"] \in {"read", "apply", "send", "done"}
  /\ pc["process"] \in {"recv", "send", "done"}
  /\ pc["egress"] \in {"recv", "write", "payload", "flush", "done"}
  /\ hand \in [Stages -> Seq(Packets)]
  /\ \A s \in Stages : Len(hand[s]) = (IF pc[s] \in Busy THEN 1 ELSE 0)
  /\ first \in Seq(Packets) /\ Len(first) <= PIPELINE_BUFFER_SIZE
  /\ second \in Seq(Packets) /\ Len(second) <= PIPELINE_BUFFER_SIZE
  /\ out \in Seq(Packets)
  /\ taken \in 0..MaxPackets /\ dropped \subseteq Packets
  /\ fault \subseteq {"write", "panic"} /\ result \in {"running", "ok", "panic"}

-------------------------------------------------------------------------------
(* The invariant that carries the proofs, in named parts.                  *)

(* The line never reorders, repeats or invents a packet, and a dropped     *)
(* packet is out of it for good.                                           *)
Ordered ==
  /\ Increasing(Line)
  /\ Range(Line) \cup dropped \subseteq 1..taken
  /\ Range(Line) \cap dropped = {}

(* What is past the engine has no hole as long as the egress task can      *)
(* still write it; what is written has none for ever.                      *)
GapFree ==
  /\ Contiguous(out)
  /\ pc["egress"] # "done" => Contiguous(Encoded)

(* Tasks end from the first to the last unless a fault ended one, a task   *)
(* that is over leaves nothing behind in its channel, and the caller gets  *)
(* its result after the last of them.                                      *)
Closing ==
  /\ "write" \in fault => pc["egress"] = "done"
  /\ "panic" \in fault => pc["process"] = "done"
  /\ pc["process"] = "done" => first = <<>>
  /\ pc["egress"] = "done" => second = <<>>
  /\ fault = {} => /\ pc["process"] = "done" => pc["ingress"] = "done"
                   /\ pc["egress"] = "done" => pc["process"] = "done"
  /\ result # "running" => \A s \in Stages : pc[s] = "done"

(* Without a fault every packet taken is written, on its way, or was       *)
(* dropped by decision: closing the pipeline, which happens task by task,  *)
(* loses nothing.                                                          *)
NoSilentLoss == fault = {} => 1..taken \subseteq Range(Line) \cup dropped

(* What was taken and is neither written nor dropped is accounted for: a   *)
(* task that runs has it in its hand or in the channel that it reads, and  *)
(* one that is over lost no more than that could hold.                     *)
Unsettled == 1..taken \ (Range(out) \cup dropped)
Held(s, channel, capacity) ==
  IF pc[s] = "done" THEN capacity + 1 ELSE Len(channel) + Len(hand[s])
AllHeld ==
  Held("ingress", <<>>, 0) + Held("process", first, PIPELINE_BUFFER_SIZE)
    + Held("egress", second, PIPELINE_BUFFER_SIZE)
Accounted == Cardinality(Unsettled) <= AllHeld

IInv == TypeOK /\ Ordered /\ GapFree /\ Closing /\ NoSilentLoss /\ Accounted
-------------------------------------------------------------------------------
(* Properties of either pipeline.                                          *)

(* When the caller gets Ok and nothing failed, all of it was written (or   *)
(* dropped by decision): the shutdown, which goes task by task, cuts       *)
(* nothing off (mod.rs, the three loops and the join).                     *)
CleanReturn == result = "ok" /\ fault = {} => Range(out) = 1..taken \ dropped

(* Everything that was taken and is neither written nor dropped, on its    *)
(* way or lost, is at most what the two channels and the three tasks hold: *)
(* a consumer that stalls stops the intake within that many packets, and a *)
(* broken connection or a panic costs no more (mod.rs, the sends).         *)
BoundedLoss == Cardinality(Unsettled) <= 2 * PIPELINE_BUFFER_SIZE + 3

(* The pipeline is one direction of the relay: taking a packet accepts it, *)
(* a complete write delivers it.                                           *)
Fifo == INSTANCE PrefixFifo
          WITH accepted <- taken, dropped <- dropped, delivered <- out
ImplementsPrefixFifo == Fifo!Spec

(* Once the input has ended, the pipeline drains and the caller gets its   *)
(* result, whatever has failed before (mod.rs, the join of the tasks).     *)
ReturnsAfterInputEnds == pc["ingress"] = "done" ~> result # "running"

(* Every packet taken is written or dropped in the end, unless a fault     *)
(* occurs: no stage waits for a stage that waits for it.                   *)
EveryPacketSettles ==
  \A p \in Packets :
    taken >= p ~> (p \in Range(out) \cup dropped \/ fault # {})

(* mod.rs:78 says that the caller waits for any one stage of the pipeline  *)
(* to close: once one has, it returns (a panic, which ends the process in  *)
(* the release profile, left aside).                                       *)
ReturnsWhenAnyStageEnds ==
  (\E s \in Stages : pc[s] = "done") ~> (result # "running" \/ "panic" \in fault)
===============================================================================
