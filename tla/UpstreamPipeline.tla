--------------------------- MODULE UpstreamPipeline ---------------------------
(***************************************************************************)
(* NDcodePipeline::spawn_upstream_pipeline (src/src/pipeline/mod.rs): the  *)
(* client's path TUN -> encode and obfuscate -> TCP.  The ingress task     *)
(* takes packets from the TUN device; send_framed_payload, which the       *)
(* egress task calls, writes a length prefix, then the payload, then       *)
(* flushes: three awaits, each of which may fail.  A write that is cut     *)
(* short leaves its reader as stuck as one that wrote nothing of the rest. *)
(***************************************************************************)
EXTENDS PipelineStages

TunDelivers == IngressTakes("send") \/ IngressEnds
IngressStep == IngressSends \/ IngressSendFails
SendsFramed ==
  \/ EgressGoesOn("write", "payload")     \* write_u32, the length
  \/ EgressWrites("payload", "flush")     \* write_all
  \/ EgressGoesOn("flush", "recv")        \* flush
  \/ EgressWriteFails

UpstreamNext ==
  \/ TunDelivers \/ IngressStep \/ ProcessStep
  \/ EgressTakes \/ EgressEnds \/ SendsFramed \/ Returns \/ Terminated

UpstreamSpec == StagesInit /\ [][UpstreamNext]_stages

(* The tokio runtime keeps polling every task that can run.  A write to    *)
(* the TCP stream completes or fails in the end, which no code bounds.     *)
(* Nothing makes the TUN device deliver.                                   *)
FairUpstreamSpec ==
  /\ UpstreamSpec
  /\ WF_stages(IngressStep) /\ WF_stages(ProcessStep)
  /\ WF_stages(EgressTakes \/ EgressEnds) /\ WF_stages(Returns)
  /\ WF_stages(SendsFramed)
===============================================================================
