-------------------------- MODULE DownstreamPipeline --------------------------
(***************************************************************************)
(* NDcodePipeline::spawn_downstream_pipeline (src/src/pipeline/mod.rs):    *)
(* the path TCP -> remove obfuscation -> decode -> TUN, on the client, and *)
(* on the server, where the writer is a sink.                              *)
(*                                                                         *)
(* The packets of PipelineStages are the frames, numbered in the order in  *)
(* which they arrive.  frames[n] is what matters of frame n:               *)
(*   form  "feedback": 8 bytes, a GradientFeedbackPacket;                  *)
(*         "wrapped":  what Obfuscator::obfuscate makes of a payload;      *)
(*         "plain":    a payload that was never obfuscated;                *)
(*   age   of a wrapped frame: the distance, in windows of 5 s, between    *)
(*         its timestamp and the clock of the reader when it is read.      *)
(* Frames are chosen when they are read: what is in the TCP stream has no  *)
(* other effect.                                                           *)
(***************************************************************************)
EXTENDS PipelineStages

CONSTANTS
  MaxWindowDiff,         \* deobfuscate tolerates 6 windows
  Ages                   \* the ages of wrapped frames

ASSUME AgesAssumption == MaxWindowDiff \in Nat /\ Ages \subseteq Nat

VARIABLES
  frames,      \* history: the frames read from the TCP stream
  bare,        \* frames whose payload entered the pipeline unwrapped
  applied      \* feedback frames handed to the mesh engine, in that order

vars == <<stages, frames, bare, applied>>

Frame == [form : {"feedback", "plain"}, age : {0}] \cup [form : {"wrapped"}, age : Ages]
NextFrame == taken + 1

(* Slip: one window too many is tolerated.                                 *)
FreshOffByOne(age) == age <= MaxWindowDiff + 1

(* verify_quantized_timestamp, as deobfuscate calls it.                    *)
Fresh(age) == age <= MaxWindowDiff

DownstreamInit == StagesInit /\ frames = <<>> /\ bare = {} /\ applied = <<>>
-------------------------------------------------------------------------------
(* Stage 1: recv_framed_payload has returned a complete frame f.           *)

\* 8 bytes: the task will wait for the lock of the mesh engine.
TakesFeedback(f) ==
  /\ f.form = "feedback"
  /\ IngressTakes("apply")
  /\ UNCHANGED bare

\* deobfuscate returned Ok: the payload without its wrapping goes on.
Unwraps(f) ==
  /\ f.form = "wrapped" /\ Fresh(f.age)
  /\ IngressTakes("send")
  /\ bare' = bare \cup {NextFrame}

\* deobfuscate returned Err: the frame goes on as it is.  Bytes 2 to 5 of a
\* plain payload are never a current timestamp, so this is the way of all of
\* them; a wrapped one that is too old keeps its wrapping.
FallsBack(f) ==
  /\ f.form = "plain" \/ (f.form = "wrapped" /\ ~Fresh(f.age))
  /\ IngressTakes("send")
  /\ bare' = IF f.form = "plain" THEN bare \cup {NextFrame} ELSE bare

TakesFrame ==
  \E f \in Frame :
    /\ TakesFeedback(f) \/ Unwraps(f) \/ FallsBack(f)
    /\ frames' = Append(frames, f)
    /\ UNCHANGED applied

StreamEnds == IngressEnds /\ UNCHANGED <<frames, bare, applied>>

AppliesFeedback ==
  /\ IngressApplies
  /\ applied' = applied \o hand["ingress"]
  /\ UNCHANGED <<frames, bare>>

SendsPayload == (IngressSends \/ IngressSendFails) /\ UNCHANGED <<frames, bare, applied>>
-------------------------------------------------------------------------------
(* Stage 2.  process_incoming_payload never returns Ok for a payload that  *)
(* is still wrapped: its first byte is half a length, and what follows is  *)
(* neither the master header nor an xz stream.                             *)
Decodes == first # <<>> /\ Head(first) \in bare /\ ProcessAccepts

Process ==
  /\ \/ Decodes \/ ProcessRefuses \/ ProcessPanics
     \/ ProcessEnds \/ ProcessSends \/ ProcessSendFails
  /\ UNCHANGED <<frames, bare, applied>>
-------------------------------------------------------------------------------
(* Stage 3.                                                                *)
Receives == (EgressTakes \/ EgressEnds) /\ UNCHANGED <<frames, bare, applied>>
WritesTun ==
  (EgressWrites("write", "recv") \/ EgressWriteFails) /\ UNCHANGED <<frames, bare, applied>>

Joins == Returns /\ UNCHANGED <<frames, bare, applied>>
Stays == Terminated /\ UNCHANGED vars

DownstreamNext ==
  \/ TakesFrame \/ StreamEnds \/ AppliesFeedback \/ SendsPayload
  \/ Process \/ Receives \/ WritesTun \/ Joins \/ Stays

DownstreamSpec == DownstreamInit /\ [][DownstreamNext]_vars

(* The tokio runtime polls every task that can run; the lock of the mesh   *)
(* engine is only ever held for a few instructions.  A write to the TUN    *)
(* device completes or fails.  Nothing makes the peer send or close.       *)
FairDownstreamSpec ==
  /\ DownstreamSpec
  /\ WF_vars(AppliesFeedback \/ SendsPayload) /\ WF_vars(Process)
  /\ WF_vars(Receives) /\ WF_vars(WritesTun) /\ WF_vars(Joins)
-------------------------------------------------------------------------------
FramesTyped ==
  /\ frames \in Seq(Frame) /\ Len(frames) = taken
  /\ bare \subseteq 1..taken
  /\ applied \in Seq(Packets)
  /\ pc["ingress"] \in Busy => hand["ingress"] = <<taken>>

(* What is past the decoder was bare, and bare is no feedback and not old. *)
Decodable ==
  /\ Range(Encoded) \subseteq bare
  /\ \A n \in bare : \/ frames[n].form = "plain"
                     \/ frames[n].form = "wrapped" /\ frames[n].age <= MaxWindowDiff

(* Every feedback frame is applied exactly once, in the order of arrival,  *)
(* and none becomes a packet, whatever has happened to the other stages    *)
(* (mod.rs:109-114).                                                       *)
FeedbackOnceInOrder ==
  /\ Increasing(applied)
  /\ Range(applied) \subseteq dropped /\ Range(applied) \cap Range(Line) = {}
  /\ \A n \in 1..taken :
       frames[n].form = "feedback" <=>
         \/ n \in Range(applied)
         \/ pc["ingress"] = "apply" /\ n = taken

FramesInv == IInv /\ FramesTyped /\ Decodable /\ FeedbackOnceInOrder
-------------------------------------------------------------------------------
(* Properties, besides those of PipelineStages.                            *)

(* A frame whose timestamp was too far from the clock when it was read     *)
(* does not reach the TUN device by the way of the fallback for payloads   *)
(* that were never obfuscated (mod.rs:123-128).                            *)
NothingLateDelivered ==
  \A n \in Range(out) : frames[n].form = "wrapped" => frames[n].age <= MaxWindowDiff
===============================================================================
