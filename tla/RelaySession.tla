------------------------------ MODULE RelaySession ------------------------------
(***************************************************************************)
(* How one session of the relay ends.  The client (run_client_mode in      *)
(* src/src/main.rs) runs its upstream and its downstream pipeline on the   *)
(* two halves of one socket and returns when both have; the server's task  *)
(* for it reads the other end.  Neither end tells the other anything but   *)
(* by closing: the server sends nothing, so the downstream pipeline of the *)
(* client only ever waits for the end of the stream.  The network between  *)
(* them may break at any time (a timeout, a reset by a box in between):    *)
(* from then on each end may get an error, or wait for ever.               *)
(*                                                                         *)
(* The stages of the upstream pipeline are those of UpstreamPipeline, with *)
(* packets counted instead of named: raw and proc are the packets in a     *)
(* channel, or in the hands of the task in front of it.  The downstream    *)
(* pipeline is one step, as it has nothing to drain.                       *)
(***************************************************************************)
EXTENDS Naturals

CONSTANT PIPELINE_BUFFER_SIZE

ASSUME BufferAssumption == PIPELINE_BUFFER_SIZE \in Nat \ {0}

VARIABLES
  ingress, process, egress,  \* the stages of the client's upstream: "open" or "done"
  raw, proc,                 \* packets between them
  fin,                       \* the client's end of the socket is closed for writing
  rst,                       \* the client's kernel knows that nobody reads any more
  broken,                    \* the network has failed the connection
  down,                      \* the client's downstream pipeline: "open" or "done"
  client,                    \* run_client_mode: "running", "returned" or "killed"
  serverTask                 \* the server's task: "handshake", "streaming", "ended"

upstream == <<ingress, process, egress, raw, proc>>
others == <<down, client, serverTask>>
session == <<upstream, fin, rst, broken, others>>

SessionInit ==
  /\ ingress = "open" /\ process = "open" /\ egress = "open" /\ raw = 0 /\ proc = 0
  /\ fin = FALSE /\ rst = FALSE /\ broken = FALSE
  /\ down = "open" /\ client = "running" /\ serverTask = "handshake"
-------------------------------------------------------------------------------
(* Stage 1.  TUN delivers a packet, an error or its end.                   *)
IngressSends ==
  /\ ingress = "open" /\ process = "open" /\ raw < PIPELINE_BUFFER_SIZE
  /\ raw' = raw + 1
  /\ UNCHANGED <<ingress, process, egress, proc, fin, rst, broken, others>>

(* Slip: the error of the send is ignored.                                 *)
SendIgnored == FALSE

\* It needs a packet to find out that the stage behind it is gone.
SendFails == process = "done"

IngressSendFails ==
  /\ ingress = "open" /\ SendFails /\ ingress' = "done"
  /\ UNCHANGED <<process, egress, raw, proc, fin, rst, broken, others>>

TunEnds ==
  /\ ingress = "open" /\ ingress' = "done"
  /\ UNCHANGED <<process, egress, raw, proc, fin, rst, broken, others>>
-------------------------------------------------------------------------------
(* Stage 2.                                                                *)
ProcessSends ==
  /\ process = "open" /\ raw > 0 /\ egress = "open" /\ proc < PIPELINE_BUFFER_SIZE
  /\ raw' = raw - 1 /\ proc' = proc + 1
  /\ UNCHANGED <<ingress, process, egress, fin, rst, broken, others>>

\* The engine returned Err: the packet is not sent on, the loop continues.
ProcessRefuses ==
  /\ process = "open" /\ raw > 0 /\ raw' = raw - 1
  /\ UNCHANGED <<ingress, process, egress, proc, fin, rst, broken, others>>

\* It needs an accepted packet to find out that the stage behind it is gone.
ProcessSendFails ==
  /\ process = "open" /\ raw > 0 /\ egress = "done"
  /\ process' = "done" /\ raw' = 0
  /\ UNCHANGED <<ingress, egress, proc, fin, rst, broken, others>>

ProcessEnds ==
  /\ process = "open" /\ raw = 0 /\ ingress = "done" /\ process' = "done"
  /\ UNCHANGED <<ingress, egress, raw, proc, fin, rst, broken, others>>

\* The engine panicked (unwinding build; the release profile aborts, which
\* is ClientKilled): the task ends and drops both channel ends.
ProcessPanics ==
  /\ process = "open" /\ raw > 0
  /\ process' = "done" /\ raw' = 0
  /\ UNCHANGED <<ingress, egress, proc, fin, rst, broken, others>>
-------------------------------------------------------------------------------
(* Stage 3, the owner of the socket's write half.  A closed end answers    *)
(* what is written to it with a reset, if it hears of it.                  *)
EgressWrites ==
  /\ egress = "open" /\ proc > 0 /\ ~rst
  /\ proc' = proc - 1 /\ rst' = (serverTask = "ended" /\ ~broken)
  /\ UNCHANGED <<ingress, process, egress, raw, fin, broken, others>>

(* Slip: the write half is shared (tokio::io::split, or an Arc), so that   *)
(* the end of the stage does not close it.                                 *)
WriteHalfShared == fin

\* Dropping an OwnedWriteHalf shuts the stream down for writing.
WriteHalfDropped == TRUE

\* A failed write, or the end of the channel.
EgressEnds ==
  /\ egress = "open"
  /\ (proc = 0 /\ process = "done") \/ (proc > 0 /\ (rst \/ broken))
  /\ egress' = "done" /\ proc' = 0 /\ fin' = WriteHalfDropped
  /\ UNCHANGED <<ingress, process, raw, rst, broken, others>>
-------------------------------------------------------------------------------
(* The client's other half, and its end.                                   *)
DownEnds ==
  /\ down = "open" /\ down' = "done"
  /\ UNCHANGED <<upstream, fin, rst, broken, client, serverTask>>

\* The server's end of the stream, or its reset.
DownstreamEnds == ((serverTask = "ended" /\ ~broken) \/ rst) /\ DownEnds

\* Any other error of the read ends the pipeline too.
DownstreamFails == broken /\ DownEnds

UpstreamDone == ingress = "done" /\ process = "done" /\ egress = "done"

(* Slip: select! instead of join!.                                         *)
EitherDone == UpstreamDone \/ down = "done"

BothDone == UpstreamDone /\ down = "done"

Returns ==
  /\ client = "running" /\ BothDone /\ client' = "returned"
  /\ UNCHANGED <<upstream, fin, rst, broken, down, serverTask>>

\* The kernel closes the socket of a process that dies.
ClientKilled ==
  /\ client = "running" /\ client' = "killed"
  /\ ingress' = "done" /\ process' = "done" /\ egress' = "done" /\ down' = "done"
  /\ raw' = 0 /\ proc' = 0 /\ fin' = TRUE
  /\ UNCHANGED <<rst, broken, serverTask>>

\* A socket that is closed with something unread answers that as well.
ResetArrives ==
  /\ serverTask = "ended" /\ ~broken /\ rst' = TRUE
  /\ UNCHANGED <<upstream, fin, broken, others>>

NetworkBreaks ==
  /\ broken' = TRUE
  /\ UNCHANGED <<upstream, fin, rst, others>>
-------------------------------------------------------------------------------
(* The server.                                                             *)
ServerGoes(from, to) ==
  /\ serverTask \in from /\ serverTask' = to
  /\ UNCHANGED <<upstream, fin, rst, broken, down, client>>

ServerAccepts == ServerGoes({"handshake"}, "streaming")

\* The handshake is refused, a read fails or the process dies.
ServerCloses == ServerGoes({"handshake", "streaming"}, "ended")

\* End of the stream: the pipeline returns and the task drops both halves.
ServerStreamEnds == fin /\ ~broken /\ ServerGoes({"streaming"}, "ended")

SessionNext ==
  \/ IngressSends \/ IngressSendFails \/ TunEnds
  \/ ProcessSends \/ ProcessRefuses \/ ProcessSendFails \/ ProcessEnds \/ ProcessPanics
  \/ EgressWrites \/ EgressEnds \/ DownstreamEnds \/ DownstreamFails
  \/ Returns \/ ClientKilled \/ ResetArrives \/ NetworkBreaks
  \/ ServerAccepts \/ ServerCloses \/ ServerStreamEnds

SessionSpec == SessionInit /\ [][SessionNext]_session

(* The runtimes poll every task that can run, and a network that is not    *)
(* broken delivers: the header, which the client has written before its    *)
(* pipelines start, packets, and the end of the stream.  Nothing is        *)
(* assumed of a broken one.                                                *)
FairSessionSpec ==
  /\ SessionSpec
  /\ WF_session(ProcessSends \/ ProcessRefuses \/ ProcessSendFails \/ ProcessEnds)
  /\ WF_session(EgressWrites \/ EgressEnds)
  /\ WF_session(DownstreamEnds) /\ WF_session(Returns)
  /\ WF_session((~broken /\ ServerAccepts) \/ ServerStreamEnds)
-------------------------------------------------------------------------------
SessionTypeOK ==
  /\ {ingress, process, egress, down} \subseteq {"open", "done"}
  /\ raw \in 0..PIPELINE_BUFFER_SIZE /\ proc \in 0..PIPELINE_BUFFER_SIZE
  /\ fin \in BOOLEAN /\ rst \in BOOLEAN /\ broken \in BOOLEAN
  /\ client \in {"running", "returned", "killed"}
  /\ serverTask \in {"handshake", "streaming", "ended"}

(* The write half is open as long as the egress task; a reset comes from a *)
(* server that has closed, and the end of the downstream pipeline from     *)
(* there or from the network.                                              *)
Closing ==
  /\ fin <=> egress = "done"
  /\ rst => serverTask = "ended"
  /\ down = "done" => serverTask = "ended" \/ client = "killed" \/ broken
  /\ client # "running" => UpstreamDone /\ down = "done"

(* Unless the network failed them, the client returns only from a session  *)
(* that the server has ended too: closing begins at the TUN device, goes   *)
(* through the socket to the server and comes back, so nothing the client  *)
(* has written is cut off by its return (main.rs:268-271, and the drop of  *)
(* both halves at the server).                                             *)
ReturnsAfterServer == client = "returned" => serverTask = "ended" \/ broken

SessionInv == SessionTypeOK /\ Closing /\ ReturnsAfterServer
-------------------------------------------------------------------------------
(* Properties.                                                             *)

(* When the TUN device ends, so does the client, and the server's task     *)
(* with it, unless the network fails them: neither end waits for the other *)
(* for ever (main.rs:268, mod.rs:78-83 and 158-161).                       *)
BothEndAfterTun ==
  ingress = "done" ~> (client # "running" /\ serverTask = "ended") \/ broken

(* A client whose session the server has refused or ended returns, and can *)
(* be restarted, if its TUN device keeps delivering packets of which the   *)
(* engine accepts some time and again: the egress task needs an accepted   *)
(* packet to be reset and one more to notice, the task before it one more, *)
(* the ingress task any (mod.rs:44, 59-66, 72).                            *)
BusyTun ==
  /\ WF_session(IngressSends \/ IngressSendFails)
  /\ SF_session(ProcessSends \/ ProcessSendFails)
ReturnsAfterServerEnds ==
  BusyTun => (serverTask = "ended" ~> client # "running" \/ broken)
===============================================================================
