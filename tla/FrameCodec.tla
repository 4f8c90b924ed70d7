------------------------------ MODULE FrameCodec ------------------------------
(***************************************************************************)
(* What happens to one packet between the two ends of the relay: NDcode    *)
(* engine (src/src/ndcode_tun_engine.rs), Obfuscator (src/src/pipeline/    *)
(* obfuscation.rs), length prefix (src/src/net_transport.rs), and back     *)
(* again in the order in which the downstream ingress task tries them      *)
(* (src/src/pipeline/mod.rs:106-128).                                      *)
(*                                                                         *)
(* Bytes are left out.  A payload is its class, its length and whether all *)
(* of it is there; a frame is the header the reader will take from its     *)
(* first six bytes, its length and the payload.  Two clocks in seconds,    *)
(* the sender's and the reader's, differ by a constant skew, and a frame   *)
(* may stay in the pipeline and in TCP for any time.                       *)
(***************************************************************************)
EXTENDS Integers, Sequences

CONSTANTS
  BlockSize,           \* what Obfuscator::new is given (the relay: default, 64)
  LengthLimit,         \* 2^16: the length field has 16 bits
  StampLimit,          \* 2^32: the timestamp field has 32 bits
  MaxWindowDiff,       \* 6
  PacketSizes,         \* sizes of the packets read from TUN, at most 4096
  BodySizes,           \* sizes of what xz or the NDcode cascade makes of them
  Start, Skews,        \* the sender's clock at the start; reader minus sender
  MaxTime, MaxInFlight \* bounds of the model: seconds, frames under way

ASSUME LimitsAssumption ==
  /\ BlockSize \in Nat /\ LengthLimit \in Nat \ {0} /\ StampLimit \in Nat \ {0}
  /\ MaxWindowDiff \in Nat
ASSUME SizesAssumption == PacketSizes \subseteq Nat /\ BodySizes \subseteq Nat
ASSUME ClockAssumption ==
  /\ Start \in Nat /\ MaxTime \in Nat /\ MaxInFlight \in Nat
  /\ \A s \in Skews : s \in Int /\ Start + s >= 0

VARIABLES
  clock,   \* seconds on the sender's clock
  skew,    \* the reader's clock minus the sender's
  link,    \* frames under way, in order
  last     \* the frame read in the last step, the distance of the reader's
           \* clock from the one it was sent with, and what became of it

vars == <<clock, skew, link, last>>

TIMESTAMP_QUANT_WINDOW_SECS == 5
NDCODE_PACKET_THRESHOLD == 1024
FEEDBACK_SIZE == 8       \* GradientFeedbackPacket
HEADER_SIZE == 6
MAGIC_SIZE == 4          \* MASTER_MAGIC_HEADER, "ND3:"

(* The header of an xz container and "ND3:", read as timestamps; they are   *)
(* windows of the years 2117 and 2151.  No clock of the model gets near    *)
(* them, nor to the end of the 32 bits.                                    *)
XZ_STAMP == 930764890
ND3_STAMP == 1144207872

ASSUME EraAssumption ==
  /\ (Start + MaxTime) \div TIMESTAMP_QUANT_WINDOW_SECS < StampLimit
  /\ \A s \in Skews :
       (Start + MaxTime + s) \div TIMESTAMP_QUANT_WINDOW_SECS + MaxWindowDiff < XZ_STAMP

Distance(x, y) == IF x >= y THEN x - y ELSE y - x
-------------------------------------------------------------------------------
(* The engine.                                                             *)

Class(packet_len) == IF packet_len >= NDCODE_PACKET_THRESHOLD THEN "NDcode3Stream" ELSE "XzStream"

process_outgoing_packet(packet_len, body) ==
  LET class == Class(packet_len)
  IN [class |-> class,
      len |-> IF class = "NDcode3Stream" THEN 1 + MAGIC_SIZE + body ELSE 1 + body,
      whole |-> TRUE]

(* Both containers carry checks: a body that is cut does not decode.       *)
process_incoming_payload(payload) ==
  IF payload.class \in {"NDcode3Stream", "XzStream"} /\ payload.whole
  THEN "restored" ELSE "refused"
-------------------------------------------------------------------------------
(* The obfuscator.                                                         *)

Block == IF BlockSize = 0 THEN 64 ELSE BlockSize

(* Slip: the frame is not padded.                                          *)
Unpadded(content) == content

(* Up to the next multiple of the block size.                              *)
Padded(content) ==
  LET rem == content % Block
  IN IF rem = 0 THEN content ELSE content + (Block - rem)

get_quantized_timestamp(now) == now \div TIMESTAMP_QUANT_WINDOW_SECS

obfuscate(payload, now) ==
  [payload |-> payload,
   wrapped |-> TRUE,
   raw_len |-> payload.len % LengthLimit,
   q_ts |-> get_quantized_timestamp(now) % StampLimit,
   total |-> Padded(HEADER_SIZE + payload.len)]

(* The first six bytes of a payload that goes out without obfuscation, read *)
(* as a header: 01 "xz container magic", 03 "ND3:".                        *)
Plain(payload) ==
  [payload |-> payload,
   wrapped |-> FALSE,
   raw_len |-> IF payload.class = "XzStream" THEN 509 ELSE 846,
   q_ts |-> IF payload.class = "XzStream" THEN XZ_STAMP ELSE ND3_STAMP,
   total |-> payload.len]

(* Slip: as the comment of verify_quantized_timestamp has it, +-1 window.  *)
VerifiesOneWindow(q_ts, now) == Distance(get_quantized_timestamp(now), q_ts) <= 1

(* Slip: one window too many.                                              *)
VerifiesOneMore(q_ts, now) ==
  Distance(get_quantized_timestamp(now), q_ts) <= MaxWindowDiff + 1

verify_quantized_timestamp(q_ts, now) ==
  Distance(get_quantized_timestamp(now), q_ts) <= MaxWindowDiff

DeobfuscatesOk(frame, now) ==
  /\ frame.total >= HEADER_SIZE
  /\ verify_quantized_timestamp(frame.q_ts, now)
  /\ frame.total >= HEADER_SIZE + frame.raw_len

(* raw_len bytes after the header.  Six bytes further on in a payload that *)
(* was never obfuscated nothing is the beginning of a payload.             *)
Deobfuscated(frame) ==
  [frame.payload EXCEPT !.whole = frame.wrapped /\ frame.raw_len = frame.payload.len]

(* Slip: a frame that does not pass deobfuscate is dropped.                *)
Dropped(frame) == [frame.payload EXCEPT !.class = "none"]

(* The frame itself, as a payload: if it is still wrapped, its first byte  *)
(* is half a length and what follows is neither magic.                     *)
AsItIs(frame) == IF frame.wrapped THEN [frame.payload EXCEPT !.class = "none"] ELSE frame.payload

(* What the downstream ingress task and the engine make of a frame.        *)
Received(frame, now) ==
  IF frame.total = FEEDBACK_SIZE THEN "feedback"
  ELSE process_incoming_payload(
         IF DeobfuscatesOk(frame, now) THEN Deobfuscated(frame) ELSE AsItIs(frame))
-------------------------------------------------------------------------------
NoFrame == [outcome |-> "none"]

Init ==
  /\ clock = Start
  /\ skew \in Skews
  /\ link = <<>>
  /\ last = NoFrame

Tick ==
  /\ clock < Start + MaxTime
  /\ clock' = clock + 1
  /\ last' = NoFrame
  /\ UNCHANGED <<skew, link>>

Enqueues(frame) ==
  /\ Len(link) < MaxInFlight
  /\ link' = Append(link, [frame |-> frame, at |-> clock])
  /\ last' = NoFrame
  /\ UNCHANGED <<clock, skew>>

\* The process task of the upstream pipeline.
Sends(packet_len, body) ==
  Enqueues(obfuscate(process_outgoing_packet(packet_len, body), clock))

\* A sender without an obfuscator, which mod.rs:123-128 makes room for.
SendsPlain(packet_len, body) == Enqueues(Plain(process_outgoing_packet(packet_len, body)))

Receives ==
  /\ link # <<>>
  /\ last' = [frame |-> Head(link).frame,
              outcome |-> Received(Head(link).frame, clock + skew),
              distance |-> Distance(clock + skew, Head(link).at)]
  /\ link' = Tail(link)
  /\ UNCHANGED <<clock, skew>>

Next ==
  \/ Tick
  \/ \E packet_len \in PacketSizes, body \in BodySizes :
       Sends(packet_len, body) \/ SendsPlain(packet_len, body)
  \/ Receives

Spec == Init /\ [][Next]_vars
-------------------------------------------------------------------------------
Payload == [class : {"NDcode3Stream", "XzStream"}, len : Nat, whole : {TRUE}]
Frame == [payload : Payload, wrapped : BOOLEAN, raw_len : Nat, q_ts : Nat, total : Nat]

(* Obfuscated frames are whole blocks: their lengths tell nothing else.    *)
TypeOK ==
  /\ clock \in Start..(Start + MaxTime)
  /\ skew \in Skews
  /\ link \in Seq([frame : Frame, at : Nat])
  /\ \A i \in 1..Len(link) : link[i].frame.wrapped => link[i].frame.total % Block = 0
  /\ \/ last = NoFrame
     \/ last \in [frame : Frame, outcome : {"restored", "refused", "feedback"}, distance : Nat]

(* What is under way is what obfuscate made of a payload when it was sent, *)
(* or the payload alone.                                                   *)
Sent(entry) ==
  /\ entry.at \in Start..(Start + MaxTime)
  /\ entry.frame.payload \in Payload
  /\ \/ entry.frame = obfuscate(entry.frame.payload, entry.at)
     \/ entry.frame = Plain(entry.frame.payload)

IInv == TypeOK /\ \A i \in 1..Len(link) : Sent(link[i])

Read == last # NoFrame
-------------------------------------------------------------------------------
(* Properties.                                                             *)

(* A packet is never taken for gradient feedback, whatever size the codec  *)
(* gives it: the padding keeps every obfuscated frame away from the eight  *)
(* bytes by which mod.rs:109 tells the two apart.                          *)
DataIsNotFeedback == Read /\ last.frame.wrapped => last.outcome # "feedback"

(* A packet that is read at most 30 s away from the clock reading it was   *)
(* sent with is restored: both quantisations together cost no window, the  *)
(* padding and the 16-bit length field take nothing from the payload.      *)
TimelyRestored ==
  ( /\ Read /\ last.frame.wrapped
    /\ last.distance <= MaxWindowDiff * TIMESTAMP_QUANT_WINDOW_SECS
    /\ last.frame.payload.len < LengthLimit )
    => last.outcome = "restored"

(* One that is read a full window later than that is not restored, neither *)
(* by deobfuscate nor by the fallback that hands the frame on as it is.    *)
LateRefused ==
  ( /\ Read /\ last.frame.wrapped
    /\ last.distance >= (MaxWindowDiff + 1) * TIMESTAMP_QUANT_WINDOW_SECS )
    => last.outcome # "restored"

(* The fallback does its work: a payload that was never obfuscated is      *)
(* restored at any time, because its first bytes are no timestamp of now.  *)
PlainRestored ==
  Read /\ ~last.frame.wrapped /\ last.frame.total # FEEDBACK_SIZE => last.outcome = "restored"
===============================================================================
