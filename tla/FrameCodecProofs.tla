--------------------------- MODULE FrameCodecProofs ---------------------------
(***************************************************************************)
(* Theorems about FrameCodec for every block size, every size of packet    *)
(* and payload, any two clocks and any delay.                              *)
(***************************************************************************)
EXTENDS FrameCodec, TLAPS

(* Arithmetic of remainders with a divisor that is not known.              *)
LEMMA Division ==
  ASSUME NEW b \in Nat \ {0}, NEW c \in Nat
  PROVE  /\ c = b * (c \div b) + (c % b)
         /\ c % b \in 0..(b - 1)
         /\ c \div b \in Nat
<1>1. c = b * (c \div b) + (c % b)
  BY Z3
<1>2. c % b \in 0..(b - 1)
  OBVIOUS
<1>3. c \div b \in Nat
  OBVIOUS
<1> QED
  BY <1>1, <1>2, <1>3

LEMMA SmallRemainder ==
  ASSUME NEW b \in Nat \ {0}, NEW c \in Nat, c < b
  PROVE  c % b = c
OBVIOUS

LEMMA MultipleRemainder ==
  ASSUME NEW b \in Nat \ {0}, NEW q \in Nat
  PROVE  (b * q) % b = 0
OBVIOUS

LEMMA BlockIsPositive == Block \in Nat \ {0}
BY LimitsAssumption DEF Block

(* Padding adds less than a block, reaches a multiple of the block size,   *)
(* and never gives less than one block.                                    *)
LEMMA PaddedAligned ==
  ASSUME NEW c \in Nat \ {0}
  PROVE  /\ Padded(c) \in Nat
         /\ Padded(c) >= c
         /\ Padded(c) >= Block
         /\ Padded(c) % Block = 0
<1> DEFINE rem == c % Block
           quo == c \div Block
<1>1. Block \in Nat \ {0}
  BY BlockIsPositive
<1>2. c = Block * quo + rem /\ rem \in 0..(Block - 1) /\ quo \in Nat
  BY <1>1, Division
<1>3. Padded(c) = IF rem = 0 THEN c ELSE c + (Block - rem)
  BY DEF Padded
<1> HIDE DEF rem, quo
<1>4. CASE rem = 0
  <2>1. Padded(c) = Block * quo
    BY <1>1, <1>2, <1>3, <1>4
  <2>2. quo >= 1
    BY <1>1, <1>2, <1>4
  <2>3. Block * quo >= Block
    BY <1>1, <1>2, <2>2
  <2>4. (Block * quo) % Block = 0
    BY <1>1, <1>2, MultipleRemainder
  <2>5. Padded(c) = c
    BY <1>3, <1>4
  <2> QED
    BY <2>1, <2>3, <2>4, <2>5
<1>5. CASE rem # 0
  <2>1. Padded(c) = c + (Block - rem)
    BY <1>3, <1>5
  <2>2. c + (Block - rem) = Block * quo + Block
    BY <1>1, <1>2
  <2>3. Block * quo + Block = Block * (quo + 1)
    BY <1>1, <1>2
  <2>4. (Block * (quo + 1)) % Block = 0
    BY <1>1, <1>2, MultipleRemainder
  <2>5. Block * quo \in Nat
    BY <1>1, <1>2
  <2>6. Padded(c) = Block * quo + Block
    BY <2>1, <2>2
  <2>7. Padded(c) % Block = 0
    BY <2>3, <2>4, <2>6
  <2>8. Padded(c) \in Nat /\ Padded(c) >= Block
    BY <1>1, <2>5, <2>6
  <2>9. Padded(c) >= c
    BY <1>1, <1>2, <2>1
  <2> QED
    BY <2>7, <2>8, <2>9
<1> QED
  BY <1>4, <1>5
-------------------------------------------------------------------------------
(* Distances of clocks and distances of windows.                           *)
LEMMA WindowsOfClocks ==
  ASSUME NEW x \in Nat, NEW y \in Nat, NEW w \in Nat
  PROVE  /\ x \div 5 \in Nat /\ y \div 5 \in Nat
         /\ Distance(x, y) \in Nat
         /\ Distance(x, y) <= w * 5 => Distance(x \div 5, y \div 5) <= w
         /\ Distance(x, y) >= (w + 1) * 5 => ~(Distance(x \div 5, y \div 5) <= w)
BY DEF Distance

(* A clock reading of the sender or the reader.                            *)
LEMMA ClockReadings ==
  ASSUME NEW at \in Start..(Start + MaxTime), NEW s \in Skews
  PROVE  /\ at \in Nat /\ at + s \in Nat
         /\ get_quantized_timestamp(at) % StampLimit = at \div 5
         /\ (at + s) \div 5 + MaxWindowDiff < XZ_STAMP
<1>1. at \in Nat /\ at + s \in Nat /\ s \in Int
  BY ClockAssumption
<1>2. at \div 5 <= (Start + MaxTime) \div 5 /\ at \div 5 \in Nat
  BY <1>1, ClockAssumption
<1>3. at \div 5 < StampLimit
  BY <1>2, EraAssumption, LimitsAssumption, ClockAssumption DEF TIMESTAMP_QUANT_WINDOW_SECS
<1>4. (at \div 5) % StampLimit = at \div 5
  BY <1>2, <1>3, LimitsAssumption, SmallRemainder
<1>5. get_quantized_timestamp(at) % StampLimit = at \div 5
  BY <1>4 DEF get_quantized_timestamp, TIMESTAMP_QUANT_WINDOW_SECS
<1>6. (at + s) \div 5 <= (Start + MaxTime + s) \div 5
  BY <1>1, ClockAssumption
<1>7. (at + s) \div 5 + MaxWindowDiff < XZ_STAMP
  <2>1. (Start + MaxTime + s) \div 5 + MaxWindowDiff < XZ_STAMP
    BY EraAssumption DEF TIMESTAMP_QUANT_WINDOW_SECS
  <2>2. XZ_STAMP \in Nat
    BY SMT DEF XZ_STAMP
  <2> QED
    BY <1>1, <1>6, <2>1, <2>2, LimitsAssumption, ClockAssumption
<1> QED
  BY <1>1, <1>5, <1>7

(* The fields of a frame.                                                  *)
LEMMA WrappedFrame ==
  ASSUME NEW payload \in Payload, NEW at \in Start..(Start + MaxTime), Skews # {}
  PROVE  LET frame == obfuscate(payload, at)
         IN /\ frame \in Frame
            /\ frame.payload = payload /\ frame.wrapped = TRUE
            /\ frame.raw_len = payload.len % LengthLimit
            /\ frame.q_ts = at \div 5
            /\ frame.total = Padded(HEADER_SIZE + payload.len)
            /\ frame.total \in Nat /\ frame.total >= Block
            /\ frame.total >= HEADER_SIZE + payload.len
            /\ frame.total % Block = 0
<1>1. payload.len \in Nat /\ HEADER_SIZE + payload.len \in Nat \ {0}
  BY DEF Payload, HEADER_SIZE
<1>2. PICK total \in Nat : /\ total = Padded(HEADER_SIZE + payload.len)
                           /\ total >= HEADER_SIZE + payload.len
                           /\ total >= Block /\ total % Block = 0
  BY <1>1, PaddedAligned
<1>3. payload.len % LengthLimit \in Nat
  BY <1>1, LimitsAssumption
<1>4. get_quantized_timestamp(at) % StampLimit = at \div 5
  BY ClockReadings
<1>5. at \div 5 \in Nat
  BY ClockAssumption
<1>6. obfuscate(payload, at) =
        [payload |-> payload, wrapped |-> TRUE, raw_len |-> payload.len % LengthLimit,
         q_ts |-> at \div 5, total |-> total]
  BY <1>2, <1>4 DEF obfuscate
<1> QED
  BY <1>2, <1>3, <1>5, <1>6 DEF Frame

LEMMA PlainFrame ==
  ASSUME NEW payload \in Payload
  PROVE  /\ Plain(payload) \in Frame
         /\ Plain(payload).payload = payload /\ Plain(payload).wrapped = FALSE
         /\ Plain(payload).total = payload.len
         /\ Plain(payload).q_ts \in {XZ_STAMP, ND3_STAMP}
<1>1. payload.len \in Nat
  BY DEF Payload
<1>2. XZ_STAMP \in Nat /\ ND3_STAMP \in Nat
  BY SMT DEF XZ_STAMP, ND3_STAMP
<1> QED
  BY <1>1, <1>2 DEF Plain, Frame

LEMMA OutgoingTyped ==
  ASSUME NEW packet_len \in PacketSizes, NEW body \in BodySizes
  PROVE  process_outgoing_packet(packet_len, body) \in Payload
<1>1. body \in Nat
  BY SizesAssumption
<1> QED
  BY <1>1 DEF process_outgoing_packet, Class, Payload, MAGIC_SIZE

LEMMA OutcomeTyped ==
  ASSUME NEW frame, NEW now
  PROVE  Received(frame, now) \in {"restored", "refused", "feedback"}
BY DEF Received, process_incoming_payload
-------------------------------------------------------------------------------
LEMMA HeadTyped ==
  ASSUME NEW S, NEW s \in Seq(S), s # <<>>
  PROVE  Head(s) \in S /\ Head(s) = s[1] /\ 1 \in 1..Len(s)
OBVIOUS

LEMMA EntryAppended ==
  ASSUME IInv, NEW frame \in Frame, Enqueues(frame),
         frame.payload \in Payload,
         frame.wrapped => frame.total % Block = 0,
         frame = obfuscate(frame.payload, clock) \/ frame = Plain(frame.payload)
  PROVE  IInv'
<1> DEFINE entry == [frame |-> frame, at |-> clock]
<1>1. link' = Append(link, entry) /\ UNCHANGED <<clock, skew>> /\ last' = NoFrame
  BY DEF Enqueues
<1>2. /\ clock \in Start..(Start + MaxTime) /\ clock \in Nat
      /\ link \in Seq([frame : Frame, at : Nat])
  BY ClockAssumption DEF IInv, TypeOK
<1>3. entry \in [frame : Frame, at : Nat] /\ entry.frame = frame /\ entry.at = clock
  BY <1>2
<1>4. Sent(entry)
  BY <1>2, <1>3 DEF Sent
<1> HIDE DEF entry
<1>5. link' \in Seq([frame : Frame, at : Nat])
  BY <1>1, <1>2, <1>3
<1>6. \A i \in 1..Len(link') : link'[i] = entry \/ (i \in 1..Len(link) /\ link'[i] = link[i])
  BY <1>1, <1>2
<1>7. \A i \in 1..Len(link') : Sent(link'[i])
  BY <1>4, <1>6 DEF IInv
<1>8. \A i \in 1..Len(link') : link'[i].frame.wrapped => link'[i].frame.total % Block = 0
  BY <1>3, <1>6 DEF IInv, TypeOK
<1>9. TypeOK'
  BY <1>1, <1>5, <1>8 DEF IInv, TypeOK
<1> QED
  BY <1>7, <1>9 DEF IInv, Sent

LEMMA InvariantInit == Init => IInv
BY ClockAssumption DEF Init, IInv, TypeOK

LEMMA InvariantNext == IInv /\ [Next]_vars => IInv'
<1> SUFFICES ASSUME IInv, [Next]_vars PROVE IInv'
  OBVIOUS
<1>0. /\ clock \in Start..(Start + MaxTime) /\ skew \in Skews
      /\ link \in Seq([frame : Frame, at : Nat])
      /\ \A i \in 1..Len(link) : Sent(link[i])
  BY DEF IInv, TypeOK
<1>1. CASE Tick
  <2>1. clock' \in Start..(Start + MaxTime)
    BY <1>0, <1>1, ClockAssumption DEF Tick
  <2> QED
    BY <1>1, <2>1 DEF Tick, IInv, TypeOK, Sent
<1>2. ASSUME NEW packet_len \in PacketSizes, NEW body \in BodySizes, Sends(packet_len, body)
      PROVE  IInv'
  <2> DEFINE payload == process_outgoing_packet(packet_len, body)
             frame == obfuscate(payload, clock)
  <2>1. payload \in Payload
    BY OutgoingTyped
  <2>2. Enqueues(frame)
    BY <1>2 DEF Sends
  <2> HIDE DEF payload
  <2>3. /\ frame \in Frame /\ frame.payload = payload /\ frame.wrapped = TRUE
        /\ frame.total % Block = 0
    BY <1>0, <2>1, WrappedFrame
  <2>4. frame = obfuscate(frame.payload, clock)
    BY <2>3
  <2> HIDE DEF frame
  <2> QED
    BY <2>1, <2>2, <2>3, <2>4, EntryAppended
<1>3. ASSUME NEW packet_len \in PacketSizes, NEW body \in BodySizes, SendsPlain(packet_len, body)
      PROVE  IInv'
  <2> DEFINE payload == process_outgoing_packet(packet_len, body)
             frame == Plain(payload)
  <2>1. payload \in Payload
    BY OutgoingTyped
  <2>2. Enqueues(frame)
    BY <1>3 DEF SendsPlain
  <2> HIDE DEF payload
  <2>3. frame \in Frame /\ frame.payload = payload /\ frame.wrapped = FALSE
    BY <2>1, PlainFrame
  <2>4. frame = Plain(frame.payload)
    BY <2>3
  <2> HIDE DEF frame
  <2> QED
    BY <2>1, <2>2, <2>3, <2>4, EntryAppended
<1>4. CASE Receives
  <2>1. link # <<>> /\ link' = Tail(link) /\ UNCHANGED <<clock, skew>>
    BY <1>4 DEF Receives
  <2>2. link' \in Seq([frame : Frame, at : Nat])
    BY <1>0, <2>1
  <2>3. \A i \in 1..Len(link') : i + 1 \in 1..Len(link) /\ link'[i] = link[i + 1]
    BY <1>0, <2>1
  <2>4. \A i \in 1..Len(link') : link'[i].frame.wrapped => link'[i].frame.total % Block = 0
    BY <2>3 DEF IInv, TypeOK
  <2>5. Head(link) \in [frame : Frame, at : Nat]
    BY <1>0, <2>1, HeadTyped
  <2>6. clock + skew \in Nat /\ Head(link).at \in Nat
    BY <1>0, <2>5, ClockReadings
  <2>7. last' \in [frame : Frame, outcome : {"restored", "refused", "feedback"}, distance : Nat]
    BY <1>4, <2>5, <2>6, OutcomeTyped, WindowsOfClocks DEF Receives
  <2>8. TypeOK'
    BY <1>0, <2>1, <2>2, <2>4, <2>7 DEF TypeOK
  <2>9. \A i \in 1..Len(link') : Sent(link'[i])
    BY <1>0, <2>3
  <2> QED
    BY <2>8, <2>9 DEF IInv, Sent
<1>5. CASE UNCHANGED vars
  BY <1>5 DEF vars, IInv, TypeOK, Sent
<1> QED
  BY <1>1, <1>2, <1>3, <1>4, <1>5 DEF Next

(* Every frame under way is a whole number of blocks and carries the       *)
(* length and the window of the payload it was made from.                  *)
THEOREM Invariant == Spec => []IInv
<1> QED
  BY InvariantInit, InvariantNext, PTL DEF Spec
-------------------------------------------------------------------------------
(* What becomes of one frame.                                              *)
LEMMA WrappedReceived ==
  ASSUME Block > FEEDBACK_SIZE,
         NEW payload \in Payload, NEW at \in Start..(Start + MaxTime), NEW now \in Nat,
         Skews # {}
  PROVE  LET outcome == Received(obfuscate(payload, at), now)
         IN /\ outcome # "feedback"
            /\ Distance(now, at) <= MaxWindowDiff * 5 /\ payload.len < LengthLimit
                 => outcome = "restored"
            /\ Distance(now, at) >= (MaxWindowDiff + 1) * 5 => outcome # "restored"
<1> DEFINE frame == obfuscate(payload, at)
<1>1. /\ frame.payload = payload /\ frame.wrapped = TRUE
      /\ frame.raw_len = payload.len % LengthLimit
      /\ frame.q_ts = at \div 5
      /\ frame.total \in Nat /\ frame.total >= Block
      /\ frame.total >= HEADER_SIZE + payload.len
  BY WrappedFrame
<1>2. payload.len \in Nat /\ payload.whole = TRUE
      /\ payload.class \in {"NDcode3Stream", "XzStream"}
  BY DEF Payload
<1>3. at \in Nat /\ Block \in Nat
  BY ClockAssumption, BlockIsPositive
<1> HIDE DEF frame
<1>4. frame.total # FEEDBACK_SIZE
  BY <1>1, <1>3 DEF FEEDBACK_SIZE
<1>5. Received(frame, now) =
        process_incoming_payload(
          IF DeobfuscatesOk(frame, now) THEN Deobfuscated(frame) ELSE AsItIs(frame))
  BY <1>4 DEF Received
<1>6. Received(frame, now) # "feedback"
  BY <1>5 DEF process_incoming_payload
<1>7. ASSUME Distance(now, at) <= MaxWindowDiff * 5, payload.len < LengthLimit
      PROVE  Received(frame, now) = "restored"
  <2>1. frame.raw_len = payload.len
    BY <1>1, <1>2, <1>7, LimitsAssumption, SmallRemainder
  <2>2. Distance(now \div 5, at \div 5) <= MaxWindowDiff
    BY <1>3, <1>7, LimitsAssumption, WindowsOfClocks
  <2>3. verify_quantized_timestamp(frame.q_ts, now)
    BY <1>1, <2>2 DEF verify_quantized_timestamp, get_quantized_timestamp,
                      TIMESTAMP_QUANT_WINDOW_SECS
  <2>4. frame.total >= HEADER_SIZE + frame.raw_len /\ frame.total >= HEADER_SIZE
    BY <1>1, <1>2, <2>1 DEF HEADER_SIZE
  <2>5. DeobfuscatesOk(frame, now)
    BY <2>3, <2>4 DEF DeobfuscatesOk
  <2>6. Deobfuscated(frame) = [payload EXCEPT !.whole = TRUE]
    BY <1>1, <2>1 DEF Deobfuscated
  <2>7. Deobfuscated(frame).class = payload.class /\ Deobfuscated(frame).whole = TRUE
    BY <2>6 DEF Payload
  <2> QED
    BY <1>2, <1>5, <2>5, <2>7 DEF process_incoming_payload
<1>8. ASSUME Distance(now, at) >= (MaxWindowDiff + 1) * 5
      PROVE  Received(frame, now) # "restored"
  <2>1. ~(Distance(now \div 5, at \div 5) <= MaxWindowDiff)
    BY <1>3, <1>8, LimitsAssumption, WindowsOfClocks
  <2>2. ~DeobfuscatesOk(frame, now)
    BY <1>1, <2>1 DEF DeobfuscatesOk, verify_quantized_timestamp, get_quantized_timestamp,
                      TIMESTAMP_QUANT_WINDOW_SECS
  <2>3. AsItIs(frame).class = "none"
    BY <1>1 DEF AsItIs, Payload
  <2> QED
    BY <1>5, <2>2, <2>3 DEF process_incoming_payload
<1> QED
  BY <1>6, <1>7, <1>8 DEF frame

LEMMA PlainReceived ==
  ASSUME NEW payload \in Payload, NEW now \in Nat,
         now \div 5 + MaxWindowDiff < XZ_STAMP,
         Plain(payload).total # FEEDBACK_SIZE
  PROVE  Received(Plain(payload), now) = "restored"
<1>1. /\ Plain(payload).payload = payload /\ Plain(payload).wrapped = FALSE
      /\ Plain(payload).q_ts \in {XZ_STAMP, ND3_STAMP}
  BY PlainFrame
<1>2. PICK window \in Nat : window = now \div 5
  OBVIOUS
<1>3. \A q \in {XZ_STAMP, ND3_STAMP} : ~(Distance(window, q) <= MaxWindowDiff)
  BY <1>2, LimitsAssumption, SMT DEF Distance, XZ_STAMP, ND3_STAMP
<1>4. ~verify_quantized_timestamp(Plain(payload).q_ts, now)
  BY <1>1, <1>2, <1>3 DEF verify_quantized_timestamp, get_quantized_timestamp,
                          TIMESTAMP_QUANT_WINDOW_SECS
<1>5. Received(Plain(payload), now) = process_incoming_payload(payload)
  BY <1>1, <1>4 DEF Received, DeobfuscatesOk, AsItIs
<1> QED
  BY <1>5 DEF process_incoming_payload, Payload
-------------------------------------------------------------------------------
(* The four properties speak of the frame read in the last step only, so   *)
(* the invariant gives them at a step that reads, and no other step has    *)
(* anything to say of them.                                                *)
LastIsRight == DataIsNotFeedback /\ TimelyRestored /\ LateRefused /\ PlainRestored

LEMMA ReceivesRight ==
  ASSUME Block > FEEDBACK_SIZE, IInv, Receives
  PROVE  LastIsRight'
<1> DEFINE frame == Head(link).frame
           at == Head(link).at
           now == clock + skew
<1>1. /\ last'.frame = frame /\ last'.outcome = Received(frame, now)
      /\ last'.distance = Distance(now, at)
  BY DEF Receives
<1>2. /\ clock \in Start..(Start + MaxTime) /\ skew \in Skews
      /\ link \in Seq([frame : Frame, at : Nat]) /\ link # <<>>
  BY DEF IInv, TypeOK, Receives
<1>3. Sent(Head(link))
  BY <1>2, HeadTyped DEF IInv
<1>4. now \in Nat /\ now \div 5 + MaxWindowDiff < XZ_STAMP
  BY <1>2, ClockReadings
<1>5. /\ at \in Start..(Start + MaxTime) /\ frame.payload \in Payload
      /\ frame = obfuscate(frame.payload, at) \/ frame = Plain(frame.payload)
  BY <1>3 DEF Sent
<1> HIDE DEF frame, at, now
<1> DEFINE payload == frame.payload
<1>6. payload \in Payload
  BY <1>5
<1>7. CASE frame = obfuscate(payload, at)
  <2>1. /\ Received(frame, now) # "feedback"
        /\ Distance(now, at) <= MaxWindowDiff * 5 /\ payload.len < LengthLimit
             => Received(frame, now) = "restored"
        /\ Distance(now, at) >= (MaxWindowDiff + 1) * 5 => Received(frame, now) # "restored"
    BY <1>2, <1>4, <1>5, <1>6, <1>7, WrappedReceived
  <2>2. frame.wrapped = TRUE
    BY <1>2, <1>5, <1>6, <1>7, WrappedFrame
  <2> QED
    BY <1>1, <2>1, <2>2 DEF LastIsRight, DataIsNotFeedback, TimelyRestored, LateRefused,
                            PlainRestored, TIMESTAMP_QUANT_WINDOW_SECS
<1>8. CASE frame = Plain(payload)
  <2>1. frame.wrapped = FALSE
    BY <1>6, <1>8, PlainFrame
  <2>2. frame.total # FEEDBACK_SIZE => Received(frame, now) = "restored"
    BY <1>4, <1>6, <1>8, PlainReceived
  <2> QED
    BY <1>1, <2>1, <2>2 DEF LastIsRight, DataIsNotFeedback, TimelyRestored, LateRefused,
                            PlainRestored
<1> QED
  BY <1>5, <1>7, <1>8

LEMMA RightNext ==
  ASSUME Block > FEEDBACK_SIZE
  PROVE  IInv /\ LastIsRight /\ [Next]_vars => LastIsRight'
<1> SUFFICES ASSUME IInv, LastIsRight, [Next]_vars PROVE LastIsRight'
  OBVIOUS
<1>1. ASSUME last' = NoFrame PROVE LastIsRight'
  BY <1>1 DEF LastIsRight, DataIsNotFeedback, TimelyRestored, LateRefused, PlainRestored, Read
<1>2. ASSUME last' = last PROVE LastIsRight'
  BY <1>2 DEF LastIsRight, DataIsNotFeedback, TimelyRestored, LateRefused, PlainRestored, Read
<1> QED
  BY <1>1, <1>2, ReceivesRight DEF Next, Tick, Sends, SendsPlain, Enqueues, vars

LEMMA AllRight ==
  ASSUME Block > FEEDBACK_SIZE
  PROVE  Spec => []LastIsRight
<1>1. Init => LastIsRight
  BY DEF Init, LastIsRight, DataIsNotFeedback, TimelyRestored, LateRefused, PlainRestored, Read
<1>2. IInv /\ LastIsRight /\ [Next]_vars => LastIsRight'
  BY RightNext
<1> QED
  BY <1>1, <1>2, Invariant, PTL DEF Spec

(* With blocks larger than a feedback packet no packet is taken for one.   *)
THEOREM NotFeedback ==
  ASSUME Block > FEEDBACK_SIZE
  PROVE  Spec => []DataIsNotFeedback
<1>1. LastIsRight => DataIsNotFeedback
  BY DEF LastIsRight
<1> QED
  BY <1>1, AllRight, PTL

(* A packet read within MaxWindowDiff * 5 seconds is restored, wherever    *)
(* the two clocks stand in their windows.                                  *)
THEOREM Timely ==
  ASSUME Block > FEEDBACK_SIZE
  PROVE  Spec => []TimelyRestored
<1>1. LastIsRight => TimelyRestored
  BY DEF LastIsRight
<1> QED
  BY <1>1, AllRight, PTL

(* One read a window later is not restored, fallback included.             *)
THEOREM Late ==
  ASSUME Block > FEEDBACK_SIZE
  PROVE  Spec => []LateRefused
<1>1. LastIsRight => LateRefused
  BY DEF LastIsRight
<1> QED
  BY <1>1, AllRight, PTL

(* What was never obfuscated is restored whenever it is read.              *)
THEOREM PlainWorks ==
  ASSUME Block > FEEDBACK_SIZE
  PROVE  Spec => []PlainRestored
<1>1. LastIsRight => PlainRestored
  BY DEF LastIsRight
<1> QED
  BY <1>1, AllRight, PTL
===============================================================================
