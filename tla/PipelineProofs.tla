---------------------------- MODULE PipelineProofs ----------------------------
(***************************************************************************)
(* Theorems about both pipelines for every capacity of their channels and  *)
(* every number of packets.                                                *)
(*                                                                         *)
(* The argument: Line, the pipeline read from its end to its beginning, is *)
(* an increasing sequence.  An action either leaves Line as it is, extends *)
(* it by a newer packet, or cuts a segment out of it.  A segment is cut    *)
(* out only after a fault, or is one packet that is dropped by decision,   *)
(* so as long as the egress task can write, what is ahead of it has no     *)
(* hole.  What is not settled is counted beside it: a packet moves from    *)
(* one account to the next with the step that moves it, and a task that    *)
(* ends has as much on its account as it could ever have held.  All of it  *)
(* is shown once, for the steps of PipelineStages, of which either         *)
(* pipeline takes some; what is said of the frames of the downstream       *)
(* pipeline comes on top.                                                  *)
(***************************************************************************)
EXTENDS UpstreamPipeline, DownstreamPipeline, PacketSequenceLemmas, FiniteSetTheorems

USE DEF Empty

(* The steps that PipelineStages has in two forms.                         *)
Takes == \E next \in {"send", "apply"} : IngressTakes(next)
GoesOn == EgressGoesOn("write", "payload") \/ EgressGoesOn("flush", "recv")
Writes == EgressWrites("payload", "flush") \/ EgressWrites("write", "recv")

LEMMA PacketsNat == Packets \in SUBSET Nat
BY BoundAssumption DEF Packets

(* A task that is not about to hand a packet on holds nothing.             *)
LEMMA Hands ==
  ASSUME TypeOK, NEW s \in Stages
  PROVE  /\ hand[s] \in Seq(Packets)
         /\ pc[s] \notin Busy => hand[s] = <<>>
         /\ pc[s] \in Busy => /\ hand[s] = <<hand[s][1]>>
                              /\ hand[s][1] \in Packets
<1>1. hand[s] \in Seq(Packets)
  BY DEF TypeOK
<1>2. Len(hand[s]) = IF pc[s] \in Busy THEN 1 ELSE 0
  BY DEF TypeOK, Busy
<1>3. ASSUME pc[s] \notin Busy PROVE hand[s] = <<>>
  BY <1>1, <1>2, <1>3, EmptySeq
<1>4. ASSUME pc[s] \in Busy
      PROVE  hand[s] = <<hand[s][1]>> /\ hand[s][1] \in Packets
  <2>1. Len(hand[s]) = 1
    BY <1>2, <1>4
  <2>2. hand[s][1] \in Packets
    BY <1>1, <2>1, ElementOfSeq
  <2>3. <<hand[s][1]>> \in Seq(Packets) /\ Len(<<hand[s][1]>>) = 1
    BY <2>2
  <2>4. hand[s] = <<hand[s][1]>>
    BY <1>1, <2>1, <2>3, SeqEqual
  <2> QED
    BY <2>2, <2>4
<1> QED
  BY <1>1, <1>3, <1>4

(* The parts of the line are sequences of packets.                         *)
LEMMA Pieces ==
  ASSUME TypeOK
  PROVE  /\ out \in Seq(Packets) /\ second \in Seq(Packets) /\ first \in Seq(Packets)
         /\ hand["ingress"] \in Seq(Packets)
         /\ hand["process"] \in Seq(Packets)
         /\ hand["egress"] \in Seq(Packets)
         /\ Leaving \in Seq(Packets)
         /\ Encoded \in Seq(Packets)
         /\ Line \in Seq(Packets)
<1>1. /\ out \in Seq(Packets) /\ second \in Seq(Packets) /\ first \in Seq(Packets)
      /\ hand["ingress"] \in Seq(Packets)
      /\ hand["process"] \in Seq(Packets)
      /\ hand["egress"] \in Seq(Packets)
  BY DEF TypeOK, Stages
<1>2. Leaving \in Seq(Packets)
  BY <1>1, ConcatProperties DEF Leaving
<1>3. Encoded \in Seq(Packets)
  BY <1>1, <1>2, ConcatProperties DEF Encoded
<1>4. Line \in Seq(Packets)
  BY <1>1, <1>3, ConcatProperties DEF Line
<1> QED
  BY <1>1, <1>2, <1>3, <1>4

-------------------------------------------------------------------------------
(* Type correctness.                                                       *)

(* A step of one task moves that task alone, and its hand with it.         *)
LEMMA Moves ==
  ASSUME TypeOK,
         NEW s \in Stages,
         NEW p \in Points,
         NEW hold \in Seq(Packets),
         Len(hold) = (IF p \in Busy THEN 1 ELSE 0),
         Goto(s, p, hold)
  PROVE  /\ pc' \in [Stages -> Points]
         /\ hand' \in [Stages -> Seq(Packets)]
         /\ \A t \in Stages : Len(hand'[t]) = (IF pc'[t] \in Busy THEN 1 ELSE 0)
         /\ pc'[s] = p /\ hand'[s] = hold
         /\ \A t \in Stages \ {s} : pc'[t] = pc[t] /\ hand'[t] = hand[t]
<1>1. /\ pc' = [pc EXCEPT ![s] = p]
      /\ hand' = [hand EXCEPT ![s] = hold]
  BY DEF Goto
<1>2. /\ pc \in [Stages -> Points]
      /\ hand \in [Stages -> Seq(Packets)]
      /\ \A t \in Stages : Len(hand[t]) = (IF pc[t] \in Busy THEN 1 ELSE 0)
  BY DEF TypeOK, Busy
<1> QED
  BY <1>1, <1>2

(* A task that ends, or waits for the next packet, has an empty hand.      *)
LEMMA MovesEmpty ==
  ASSUME TypeOK,
         NEW s \in Stages,
         NEW p \in Points \ Busy,
         Goto(s, p, Empty)
  PROVE  /\ pc' \in [Stages -> Points]
         /\ hand' \in [Stages -> Seq(Packets)]
         /\ \A t \in Stages : Len(hand'[t]) = (IF pc'[t] \in Busy THEN 1 ELSE 0)
         /\ pc'[s] = p /\ hand'[s] = <<>>
         /\ \A t \in Stages \ {s} : pc'[t] = pc[t] /\ hand'[t] = hand[t]
<1>1. <<>> \in Seq(Packets) /\ Len(<<>>) = 0
  BY EmptySeq
<1>2. p \in Points /\ p \notin Busy
  BY DEF Busy
<1>3. Len(<<>>) = (IF p \in Busy THEN 1 ELSE 0)
  BY <1>1, <1>2
<1>4. Goto(s, p, <<>>)
  OBVIOUS
<1> HIDE DEF Empty
<1> QED
  BY <1>1, <1>2, <1>3, <1>4, Moves

LEMMA TypeInit == StagesInit => TypeOK
<1> SUFFICES ASSUME StagesInit PROVE TypeOK
  OBVIOUS
<1>1. <<>> \in Seq(Packets) /\ Len(<<>>) = 0
  BY EmptySeq
<1>2. /\ pc \in [Stages -> Points]
      /\ pc["ingress"] = "read" /\ pc["process"] = "recv" /\ pc["egress"] = "recv"
  BY DEF StagesInit, Stages, Points
<1>3. hand \in [Stages -> Seq(Packets)] /\ \A s \in Stages : hand[s] = <<>>
  BY <1>1 DEF StagesInit
<1>4. \A s \in Stages : Len(hand[s]) = (IF pc[s] \in Busy THEN 1 ELSE 0)
  BY <1>1, <1>2, <1>3 DEF StagesInit, Busy
<1>5. first = <<>> /\ second = <<>> /\ out = <<>> /\ taken \in 0..MaxPackets
  BY BoundAssumption DEF StagesInit
<1>6. 0 <= PIPELINE_BUFFER_SIZE
  BY BufferAssumption
<1>7. /\ dropped \subseteq Packets
      /\ fault \subseteq {"write", "panic"} /\ result \in {"running", "ok", "panic"}
  BY DEF StagesInit
<1> QED
  BY <1>1, <1>2, <1>3, <1>4, <1>5, <1>6, <1>7 DEF TypeOK

LEMMA TypeNext == TypeOK /\ [StagesNext]_stages => TypeOK'
<1> SUFFICES ASSUME TypeOK, [StagesNext]_stages
             PROVE  TypeOK'
  OBVIOUS
<1>1. CASE Takes
  <2>1. PICK next \in {"send", "apply"} : IngressTakes(next)
    BY <1>1 DEF Takes
  <2>2. taken + 1 \in Packets /\ taken + 1 \in 0..MaxPackets
    BY <2>1, BoundAssumption DEF IngressTakes, TypeOK, Packets
  <2>3. <<taken + 1>> \in Seq(Packets) /\ Len(<<taken + 1>>) = 1
    BY <2>2
  <2>4. Goto("ingress", next, <<taken + 1>>) /\ next \in Points /\ next \in Busy
    BY <2>1 DEF IngressTakes, Points, Busy
  <2> QED
    BY <2>1, <2>2, <2>3, <2>4, Moves DEF IngressTakes, TypeOK, Stages
<1>2. CASE IngressEnds
  <2>1. Goto("ingress", "done", Empty)
    BY <1>2 DEF IngressEnds, Ends, Goto
  <2> QED
    BY <1>2, <2>1, MovesEmpty, EmptySeq, BufferAssumption DEF IngressEnds, TypeOK, Stages, Busy, Points
<1>3. CASE IngressSends
  <2>1. /\ first \o hand["ingress"] \in Seq(Packets)
        /\ Len(first \o hand["ingress"]) = Len(first) + 1
    <3>1. Len(hand["ingress"]) = 1
      BY <1>3 DEF IngressSends, TypeOK, Stages, Busy
    <3>2. first \in Seq(Packets) /\ hand["ingress"] \in Seq(Packets)
      BY Pieces
    <3>3. /\ first \o hand["ingress"] \in Seq(Packets)
          /\ Len(first \o hand["ingress"]) = Len(first) + Len(hand["ingress"])
      BY <3>2, ConcatProperties
    <3> QED
      BY <3>1, <3>3
  <2>2. Len(first) + 1 <= PIPELINE_BUFFER_SIZE
    BY <1>3, BufferAssumption, Pieces, LenProperties DEF IngressSends, HasRoom
  <2>3. Goto("ingress", "read", Empty)
    BY <1>3 DEF IngressSends
  <2> QED
    BY <1>3, <2>1, <2>2, <2>3, MovesEmpty DEF IngressSends, TypeOK, Stages, Busy, Points
<1>4. CASE IngressSendFails
  <2>1. Goto("ingress", "done", Empty)
    BY <1>4 DEF IngressSendFails, Ends, Goto
  <2> QED
    BY <1>4, <2>1, MovesEmpty, EmptySeq, BufferAssumption DEF IngressSendFails, TypeOK, Stages, Busy, Points
<1>5. CASE ProcessAccepts
  <2>1. /\ Tail(first) \in Seq(Packets) /\ Len(Tail(first)) = Len(first) - 1
        /\ <<Head(first)>> \in Seq(Packets) /\ Len(<<Head(first)>>) = 1
    BY <1>5, Pieces, PacketsNat, HeadThenTail DEF ProcessAccepts
  <2>2. Len(Tail(first)) <= PIPELINE_BUFFER_SIZE
    BY <2>1, BufferAssumption, Pieces, LenProperties DEF TypeOK
  <2>3. Goto("process", "send", <<Head(first)>>)
    BY <1>5 DEF ProcessAccepts
  <2> QED
    BY <1>5, <2>1, <2>2, <2>3, Moves DEF ProcessAccepts, TypeOK, Stages, Busy, Points
<1>6. CASE ProcessRefuses
  <2>1. /\ Tail(first) \in Seq(Packets) /\ Len(Tail(first)) = Len(first) - 1
        /\ Head(first) \in Packets
    BY <1>6, Pieces, PacketsNat, HeadThenTail DEF ProcessRefuses
  <2>2. Len(Tail(first)) <= PIPELINE_BUFFER_SIZE
    BY <2>1, BufferAssumption, Pieces, LenProperties DEF TypeOK
  <2> QED
    BY <1>6, <2>1, <2>2 DEF ProcessRefuses, TypeOK, Stages
<1>7. CASE ProcessPanics
  <2>1. Goto("process", "done", Empty)
    BY <1>7 DEF ProcessPanics, Ends, Goto
  <2> QED
    BY <1>7, <2>1, MovesEmpty, EmptySeq, BufferAssumption DEF ProcessPanics, TypeOK, Stages, Busy, Points
<1>8. CASE ProcessEnds
  <2>1. Goto("process", "done", Empty)
    BY <1>8 DEF ProcessEnds, Closed, Ends, Goto
  <2> QED
    BY <1>8, <2>1, MovesEmpty, EmptySeq, BufferAssumption DEF ProcessEnds, TypeOK, Stages, Busy, Points
<1>9. CASE ProcessSends
  <2>1. /\ second \o hand["process"] \in Seq(Packets)
        /\ Len(second \o hand["process"]) = Len(second) + 1
    <3>1. Len(hand["process"]) = 1
      BY <1>9 DEF ProcessSends, TypeOK, Stages, Busy
    <3>2. second \in Seq(Packets) /\ hand["process"] \in Seq(Packets)
      BY Pieces
    <3>3. /\ second \o hand["process"] \in Seq(Packets)
          /\ Len(second \o hand["process"]) = Len(second) + Len(hand["process"])
      BY <3>2, ConcatProperties
    <3> QED
      BY <3>1, <3>3
  <2>2. Len(second) + 1 <= PIPELINE_BUFFER_SIZE
    BY <1>9, BufferAssumption, Pieces, LenProperties DEF ProcessSends, HasRoom
  <2>3. Goto("process", "recv", Empty)
    BY <1>9 DEF ProcessSends
  <2> QED
    BY <1>9, <2>1, <2>2, <2>3, MovesEmpty DEF ProcessSends, TypeOK, Stages, Busy, Points
<1>10. CASE ProcessSendFails
  <2>1. Goto("process", "done", Empty)
    BY <1>10 DEF ProcessSendFails, Ends, Goto
  <2> QED
    BY <1>10, <2>1, MovesEmpty, EmptySeq, BufferAssumption DEF ProcessSendFails, TypeOK, Stages, Busy, Points
<1>11. CASE EgressTakes
  <2>1. /\ Tail(second) \in Seq(Packets) /\ Len(Tail(second)) = Len(second) - 1
        /\ <<Head(second)>> \in Seq(Packets) /\ Len(<<Head(second)>>) = 1
    BY <1>11, Pieces, PacketsNat, HeadThenTail DEF EgressTakes
  <2>2. Len(Tail(second)) <= PIPELINE_BUFFER_SIZE
    BY <2>1, BufferAssumption, Pieces, LenProperties DEF TypeOK
  <2>3. Goto("egress", "write", <<Head(second)>>)
    BY <1>11 DEF EgressTakes
  <2> QED
    BY <1>11, <2>1, <2>2, <2>3, Moves DEF EgressTakes, TypeOK, Stages, Busy, Points
<1>12. CASE EgressEnds
  <2>1. Goto("egress", "done", Empty)
    BY <1>12 DEF EgressEnds, Closed, Ends, Goto
  <2> QED
    BY <1>12, <2>1, MovesEmpty, EmptySeq, BufferAssumption DEF EgressEnds, TypeOK, Stages, Busy, Points
<1>13. CASE GoesOn
  <2>1. /\ hand["egress"] \in Seq(Packets)
        /\ Len(hand["egress"]) = (IF pc["egress"] \in Busy THEN 1 ELSE 0)
    BY Pieces DEF TypeOK, Stages
  <2>2. PICK next \in {"payload", "recv"} :
          /\ Goto("egress", next, hand["egress"])
          /\ Len(hand["egress"]) = (IF next \in Busy THEN 1 ELSE 0)
    BY <1>13, <2>1 DEF GoesOn, EgressGoesOn, Busy
  <2>3. UNCHANGED <<first, second, out, taken, dropped, fault, result>>
    BY <1>13 DEF GoesOn, EgressGoesOn
  <2>4. "egress" \in Stages /\ next \in Points
    BY DEF Stages, Points
  <2> QED
    BY <2>1, <2>2, <2>3, <2>4, Moves DEF TypeOK, Stages
<1>14. CASE Writes
  <2>1. out \o hand["egress"] \in Seq(Packets)
    BY Pieces, ConcatProperties
  <2>2. PICK next \in {"flush", "recv"} : Goto("egress", next, Empty)
    BY <1>14 DEF Writes, EgressWrites
  <2> QED
    BY <1>14, <2>1, <2>2, MovesEmpty DEF Writes, EgressWrites, TypeOK, Stages, Busy, Points
<1>15. CASE IngressApplies
  <2>1. Goto("ingress", "read", Empty)
    BY <1>15 DEF IngressApplies
  <2>2. Range(hand["ingress"]) \subseteq Packets
    BY Pieces, PacketsNat, RangeOfSeq
  <2> QED
    BY <1>15, <2>1, <2>2, MovesEmpty DEF IngressApplies, TypeOK, Stages, Busy, Points
<1>16. CASE EgressWriteFails
  <2>1. Goto("egress", "done", Empty)
    BY <1>16 DEF EgressWriteFails, Ends, Goto
  <2> QED
    BY <1>16, <2>1, MovesEmpty, EmptySeq, BufferAssumption DEF EgressWriteFails, TypeOK, Stages, Busy, Points
<1>17. CASE Returns
  BY <1>17 DEF Returns, TypeOK
<1>18. CASE Terminated \/ UNCHANGED stages
  BY <1>18 DEF Terminated, TypeOK, stages
<1> QED
  BY <1>1, <1>2, <1>3, <1>4, <1>5, <1>6, <1>7, <1>8, <1>9, <1>10, <1>11, <1>12,
     <1>13, <1>14, <1>15, <1>16, <1>17, <1>18
  DEF StagesNext, Takes, IngressHandsOn, ProcessStep, EgressWriting, GoesOn, Writes

-------------------------------------------------------------------------------
(* How the actions change the line.                                        *)

(* Concatenation under a name of its own: the lemmas below are all that    *)
(* the proofs use of it, and the provers need not look into it.            *)
Cat(a, b) == a \o b

LEMMA CatTyped ==
  ASSUME NEW a \in Seq(Packets), NEW b \in Seq(Packets)
  PROVE  Cat(a, b) \in Seq(Packets)
BY ConcatProperties DEF Cat

LEMMA CatLength ==
  ASSUME NEW a \in Seq(Packets), NEW b \in Seq(Packets)
  PROVE  Len(Cat(a, b)) = Len(a) + Len(b)
BY ConcatProperties DEF Cat

LEMMA CatEmpty ==
  ASSUME NEW a \in Seq(Packets)
  PROVE  Cat(a, <<>>) = a
BY ConcatEmptySeq DEF Cat

LEMMA CatAssociative ==
  ASSUME NEW a \in Seq(Packets), NEW b \in Seq(Packets), NEW c \in Seq(Packets)
  PROVE  Cat(Cat(a, b), c) = Cat(a, Cat(b, c))
BY ConcatAssociative DEF Cat

LEMMA CatRange ==
  ASSUME NEW a \in Seq(Packets), NEW b \in Seq(Packets)
  PROVE  Range(Cat(a, b)) = Range(a) \cup Range(b)
BY PacketsNat, RangeConcatenation DEF Cat

LEMMA CatIncreasing ==
  ASSUME NEW a \in Seq(Packets), NEW b \in Seq(Packets)
  PROVE  Increasing(Cat(a, b)) <=> /\ Increasing(a)
                                   /\ Increasing(b)
                                   /\ \A p \in Range(a), q \in Range(b) : p < q
BY PacketsNat, IncreasingConcat DEF Cat

(* A nonempty channel is its head, in a sequence of its own, and its tail. *)
LEMMA Uncons ==
  ASSUME NEW a \in Seq(Packets), a # <<>>
  PROVE  /\ Head(a) \in Packets /\ Head(a) \in Nat
         /\ \E one \in Seq(Packets), rest \in Seq(Packets) :
              /\ one = <<Head(a)>> /\ rest = Tail(a)
              /\ a = Cat(one, rest)
              /\ Range(one) = {Head(a)} /\ Increasing(one)
<1>1. /\ Head(a) \in Packets
      /\ <<Head(a)>> \in Seq(Packets) /\ Tail(a) \in Seq(Packets)
      /\ a = Cat(<<Head(a)>>, Tail(a))
  BY PacketsNat, HeadThenTail DEF Cat
<1>2. Head(a) \in Nat
  BY <1>1, PacketsNat
<1>3. Range(<<Head(a)>>) = {Head(a)} /\ Increasing(<<Head(a)>>)
  BY <1>2, RangeSmall
<1> QED
  BY <1>1, <1>2, <1>3

LEMMA LineShape ==
  /\ Line = Cat(Cat(Encoded, first), hand["ingress"])
  /\ Encoded = Cat(Cat(Cat(out, hand["egress"]), second), hand["process"])
BY DEF Line, Encoded, Leaving, Cat

(* What lies ahead in the line is part of it, and older than what follows. *)
LEMMA LineParts ==
  ASSUME TypeOK
  PROVE  /\ Range(Line) = Range(Encoded) \cup Range(first) \cup Range(hand["ingress"])
         /\ Increasing(Line) =>
              /\ Increasing(Encoded) /\ Increasing(first)
              /\ \A p \in Range(Encoded), q \in Range(first) : p < q
              /\ \A p \in Range(Encoded) \cup Range(first),
                    q \in Range(hand["ingress"]) : p < q
<1>1. /\ Encoded \in Seq(Packets) /\ first \in Seq(Packets)
      /\ hand["ingress"] \in Seq(Packets) /\ Cat(Encoded, first) \in Seq(Packets)
  BY Pieces, CatTyped
<1> QED
  BY <1>1, LineShape, CatRange, CatIncreasing

(* The written packets come before everything else that is encoded.        *)
LEMMA EncodedParts ==
  ASSUME TypeOK
  PROVE  \E rest \in Seq(Packets) : Encoded = Cat(Cat(out, hand["egress"]), rest)
<1>1. /\ out \in Seq(Packets) /\ hand["egress"] \in Seq(Packets)
      /\ second \in Seq(Packets) /\ hand["process"] \in Seq(Packets)
      /\ Cat(out, hand["egress"]) \in Seq(Packets)
      /\ Cat(second, hand["process"]) \in Seq(Packets)
  BY Pieces, CatTyped
<1>2. Encoded = Cat(Cat(out, hand["egress"]), Cat(second, hand["process"]))
  BY <1>1, LineShape, CatAssociative
<1> QED
  BY <1>1, <1>2

LEMMA WireFirst ==
  ASSUME TypeOK, Increasing(Line)
  PROVE  /\ Increasing(out) /\ Increasing(Cat(out, hand["egress"]))
         /\ Range(out) \subseteq Range(Encoded)
         /\ Range(Cat(out, hand["egress"])) \subseteq Range(Line)
<1>1. PICK rest \in Seq(Packets) : Encoded = Cat(Cat(out, hand["egress"]), rest)
  BY EncodedParts
<1>2. /\ out \in Seq(Packets) /\ hand["egress"] \in Seq(Packets)
      /\ Cat(out, hand["egress"]) \in Seq(Packets)
  BY Pieces, CatTyped
<1>3. /\ Increasing(Cat(out, hand["egress"]))
      /\ Range(Cat(out, hand["egress"])) \subseteq Range(Encoded)
  BY <1>1, <1>2, LineParts, CatRange, CatIncreasing
<1>4. Increasing(out) /\ Range(out) \subseteq Range(Cat(out, hand["egress"]))
  BY <1>2, <1>3, CatRange, CatIncreasing
<1> QED
  BY <1>3, <1>4, LineParts

(* The beginning of a hole-free increasing sequence is hole-free.          *)
LEMMA PrefixContiguous ==
  ASSUME NEW s \in Seq(Packets), NEW t \in Seq(Packets),
         Increasing(Cat(s, t)), Contiguous(Cat(s, t))
  PROVE  Contiguous(s)
<1>1. /\ Range(Cat(s, t)) = Range(s) \cup Range(t)
      /\ \A p \in Range(s), q \in Range(t) : p < q
  BY CatRange, CatIncreasing
<1>2. Range(s) \subseteq Nat
  BY PacketsNat, RangeOfSeq
<1> SUFFICES ASSUME NEW p \in Range(s), NEW q \in 1..p, q \notin dropped
             PROVE  q \in Range(s)
  BY DEF Contiguous
<1>3. q \in Range(s) \cup Range(t)
  BY <1>1 DEF Contiguous
<1>4. q \notin Range(t)
  BY <1>1, <1>2
<1> QED
  BY <1>3, <1>4

(* An action that leaves the line and its history alone keeps its order.   *)
LEMMA LineKept ==
  ASSUME Ordered, Line' = Line, UNCHANGED <<taken, dropped>>
  PROVE  Ordered'
BY DEF Ordered

(* So does one that cuts a segment out of it.                              *)
LEMMA LineCut ==
  ASSUME Ordered, Increasing(Line'), Range(Line') \subseteq Range(Line),
         UNCHANGED <<taken, dropped>>
  PROVE  Ordered'
BY DEF Ordered

(* A step that hands packets on, or moves none, keeps the data invariants. *)
LEMMA Kept ==
  ASSUME Ordered, GapFree, NoSilentLoss,
         Line' = Line, Encoded' = Encoded, out' = out,
         UNCHANGED <<taken, dropped, fault>>,
         pc'["egress"] # "done" => pc["egress"] # "done"
  PROVE  Ordered' /\ GapFree' /\ NoSilentLoss'
BY LineKept DEF GapFree, Contiguous, NoSilentLoss

(* A step that loses packets keeps them if a fault has occurred and        *)
(* nothing encoded is lost from under a live egress task.                  *)
LEMMA Cut ==
  ASSUME Ordered, GapFree,
         Increasing(Line'), Range(Line') \subseteq Range(Line),
         out' = out, UNCHANGED <<taken, dropped>>,
         fault' # {},
         pc'["egress"] # "done" => pc["egress"] # "done" /\ Encoded' = Encoded
  PROVE  Ordered' /\ GapFree' /\ NoSilentLoss'
BY LineCut DEF GapFree, Contiguous, NoSilentLoss

-------------------------------------------------------------------------------
(* The inductive invariant.                                                *)

(* How tasks end: shown on its own, since it does not depend on the data.  *)
LEMMA ClosingNext ==
  ASSUME TypeOK, Closing, StagesNext
  PROVE  Closing'
<1>0. /\ "ingress" \in Stages /\ "process" \in Stages /\ "egress" \in Stages
      /\ first \in Seq(Packets) /\ second \in Seq(Packets)
      /\ pc["ingress"] \in {"read", "apply", "send", "done"}
      /\ pc["process"] \in {"recv", "send", "done"}
      /\ pc["egress"] \in {"recv", "write", "payload", "flush", "done"}
      /\ DOMAIN pc = Stages
  BY DEF TypeOK, Stages
<1>1. CASE Takes
  BY <1>0, <1>1 DEF Takes, IngressTakes, Goto, Closing
<1>2. CASE IngressEnds
  BY <1>0, <1>2 DEF IngressEnds, Ends, Goto, Closing
<1>3. CASE IngressSends
  BY <1>0, <1>3 DEF IngressSends, Goto, Closing
<1>4. CASE IngressSendFails
  BY <1>0, <1>4 DEF IngressSendFails, Ends, Goto, Closing
<1>5. CASE ProcessAccepts
  BY <1>0, <1>5 DEF ProcessAccepts, Goto, Closing
<1>6. CASE ProcessRefuses
  BY <1>0, <1>6 DEF ProcessRefuses, Closing
<1>7. CASE ProcessPanics
  BY <1>0, <1>7 DEF ProcessPanics, Ends, Goto, Closing
<1>8. CASE ProcessEnds
  BY <1>0, <1>8 DEF ProcessEnds, Closed, Ends, Goto, Closing
<1>9. CASE ProcessSends
  BY <1>0, <1>9 DEF ProcessSends, Goto, Closing
<1>10. CASE ProcessSendFails
  BY <1>0, <1>10 DEF ProcessSendFails, Ends, Goto, Closing
<1>11. CASE EgressTakes
  BY <1>0, <1>11 DEF EgressTakes, Goto, Closing
<1>12. CASE EgressEnds
  BY <1>0, <1>12 DEF EgressEnds, Closed, Ends, Goto, Closing
<1>13. CASE GoesOn
  BY <1>0, <1>13 DEF GoesOn, EgressGoesOn, Goto, Closing
<1>14. CASE Writes
  BY <1>0, <1>14 DEF Writes, EgressWrites, Goto, Closing
<1>15. CASE IngressApplies
  BY <1>0, <1>15 DEF IngressApplies, Goto, Closing
<1>16. CASE EgressWriteFails
  BY <1>0, <1>16 DEF EgressWriteFails, Ends, Goto, Closing
<1>17. CASE Returns
  BY <1>17 DEF Returns, Closing
<1>18. CASE Terminated
  BY <1>18 DEF Terminated, stages, Closing
<1> QED
  BY <1>1, <1>2, <1>3, <1>4, <1>5, <1>6, <1>7, <1>8, <1>9, <1>10, <1>11, <1>12,
     <1>13, <1>14, <1>15, <1>16, <1>17, <1>18
  DEF StagesNext, Takes, IngressHandsOn, ProcessStep, EgressWriting, GoesOn, Writes

Data == Ordered /\ GapFree /\ NoSilentLoss

(* Actions of the TUN reader: the line grows at its end, or loses a packet *)
(* whose receiver is gone.                                                 *)
LEMMA IngressData ==
  ASSUME TypeOK, Data, Closing,
         Takes \/ IngressEnds \/ IngressHandsOn
  PROVE  Data'
<1>0. /\ "ingress" \in Stages /\ "process" \in Stages /\ "egress" \in Stages
      /\ "process" # "ingress" /\ "egress" # "ingress"
  BY DEF Stages
<1>1. /\ Encoded \in Seq(Packets) /\ first \in Seq(Packets) /\ Line \in Seq(Packets)
      /\ hand["ingress"] \in Seq(Packets) /\ Cat(Encoded, first) \in Seq(Packets)
  BY Pieces, CatTyped
<1>2. CASE Takes
  <2>1. taken \in Nat /\ taken + 1 \in Packets /\ <<taken + 1>> \in Seq(Packets)
    BY <1>2, BoundAssumption DEF Takes, IngressTakes, TypeOK, Packets
  <2>2. hand["ingress"] = <<>>
    BY <1>0, <1>2, Hands DEF Takes, IngressTakes, Busy
  <2>3. /\ pc'["egress"] = pc["egress"]
        /\ hand'["ingress"] = <<taken + 1>>
        /\ hand'["process"] = hand["process"] /\ hand'["egress"] = hand["egress"]
    BY <1>0, <1>2 DEF Takes, IngressTakes, Goto, TypeOK
  <2>4. Encoded' = Encoded /\ out' = out
    BY <1>2, <2>3 DEF Takes, IngressTakes, Encoded, Leaving
  <2>5. Line = Cat(Encoded, first) /\ Line' = Cat(Line, <<taken + 1>>)
    <3>1. Line' = Cat(Cat(Encoded, first), <<taken + 1>>)
      BY <1>2, <2>3, <2>4 DEF Takes, IngressTakes, Line, Cat
    <3> QED
      BY <1>1, <2>2, <3>1, LineShape, CatEmpty
  <2>6. /\ Range(Line') = Range(Line) \cup {taken + 1}
        /\ Increasing(Line') <=> /\ Increasing(Line)
                                 /\ \A p \in Range(Line) : p < taken + 1
    <3>1. Range(<<taken + 1>>) = {taken + 1} /\ Increasing(<<taken + 1>>)
      BY <2>1, RangeSmall
    <3>2. /\ Range(Cat(Line, <<taken + 1>>)) = Range(Line) \cup Range(<<taken + 1>>)
          /\ Increasing(Cat(Line, <<taken + 1>>)) <=>
               /\ Increasing(Line) /\ Increasing(<<taken + 1>>)
               /\ \A p \in Range(Line), q \in Range(<<taken + 1>>) : p < q
      BY <1>1, <2>1, CatRange, CatIncreasing
    <3> QED
      BY <2>5, <3>1, <3>2
  <2>7. Ordered'
    BY <1>2, <2>1, <2>6 DEF Takes, IngressTakes, Ordered, Data
  <2>8. GapFree'
    BY <1>2, <2>3, <2>4 DEF Takes, IngressTakes, GapFree, Contiguous, Data
  <2>9. NoSilentLoss'
    <3>1. taken' = taken + 1 /\ fault' = fault /\ dropped' = dropped
      BY <1>2 DEF Takes, IngressTakes
    <3>2. 1..(taken + 1) = 1..taken \cup {taken + 1}
      BY <2>1
    <3> QED
      BY <2>6, <3>1, <3>2 DEF NoSilentLoss, Data
  <2> QED
    BY <2>7, <2>8, <2>9 DEF Data
<1>3. CASE IngressEnds
  <2>1. hand["ingress"] = <<>>
    BY <1>0, <1>3, Hands DEF IngressEnds, Busy
  <2>2. /\ pc'["egress"] = pc["egress"]
        /\ hand'["ingress"] = <<>>
        /\ hand'["process"] = hand["process"] /\ hand'["egress"] = hand["egress"]
    BY <1>0, <1>3 DEF IngressEnds, Ends, Goto, TypeOK
  <2>3. Line' = Line /\ Encoded' = Encoded
    BY <1>3, <2>1, <2>2 DEF IngressEnds, Line, Encoded, Leaving
  <2> QED
    BY <1>3, <2>2, <2>3, Kept DEF IngressEnds, Data
<1>4. CASE IngressSends
  <2>1. /\ pc'["egress"] = pc["egress"]
        /\ hand'["ingress"] = <<>>
        /\ hand'["process"] = hand["process"] /\ hand'["egress"] = hand["egress"]
    BY <1>0, <1>4 DEF IngressSends, Goto, TypeOK
  <2>2. Encoded' = Encoded
    BY <1>4, <2>1 DEF IngressSends, Encoded, Leaving
  <2>3. Line' = Cat(Cat(Encoded, Cat(first, hand["ingress"])), <<>>)
    BY <1>4, <2>1, <2>2 DEF IngressSends, Line, Cat
  <2>4. Line' = Line
    <3>1. /\ Cat(first, hand["ingress"]) \in Seq(Packets)
          /\ Cat(Encoded, Cat(first, hand["ingress"])) \in Seq(Packets)
      BY <1>1, CatTyped
    <3>2. Line' = Cat(Encoded, Cat(first, hand["ingress"]))
      BY <2>3, <3>1, CatEmpty
    <3> QED
      BY <1>1, <3>2, LineShape, CatAssociative
  <2> QED
    BY <1>4, <2>1, <2>2, <2>4, Kept DEF IngressSends, Data
<1>5. CASE IngressSendFails
  <2>1. /\ pc'["egress"] = pc["egress"]
        /\ hand'["ingress"] = <<>>
        /\ hand'["process"] = hand["process"] /\ hand'["egress"] = hand["egress"]
    BY <1>0, <1>5 DEF IngressSendFails, Ends, Goto, TypeOK
  <2>2. Encoded' = Encoded
    BY <1>5, <2>1 DEF IngressSendFails, Encoded, Leaving
  <2>3. Line' = Cat(Cat(Encoded, first), <<>>)
    BY <1>5, <2>1, <2>2 DEF IngressSendFails, Line, Cat
  <2>4. /\ Increasing(Line')
        /\ Range(Line') \subseteq Range(Line)
    <3>1. Increasing(Line)
      BY DEF Data, Ordered
    <3> QED
      BY <1>1, <2>3, <3>1, LineShape, CatEmpty, CatIncreasing, CatRange
  <2>5. fault' # {}
    BY <1>5 DEF IngressSendFails, Closing
  <2> QED
    BY <1>5, <2>1, <2>2, <2>4, <2>5, Cut DEF IngressSendFails, Data
<1>6. CASE IngressApplies
  <2>1. /\ pc'["egress"] = pc["egress"]
        /\ hand'["ingress"] = <<>>
        /\ hand'["process"] = hand["process"] /\ hand'["egress"] = hand["egress"]
    BY <1>0, <1>6 DEF IngressApplies, Goto, TypeOK
  <2>2. Encoded' = Encoded /\ out' = out
    BY <1>6, <2>1 DEF IngressApplies, Encoded, Leaving
  <2>3. Line' = Cat(Encoded, first)
    <3>1. Line' = Cat(Cat(Encoded, first), <<>>)
      BY <1>6, <2>1, <2>2 DEF IngressApplies, Line, Cat
    <3> QED
      BY <1>1, <3>1, CatEmpty
  <2>4. Increasing(Line)
    BY DEF Data, Ordered
  <2>5. /\ Increasing(Line')
        /\ Range(Line) = Range(Line') \cup Range(hand["ingress"])
        /\ Range(Line') \cap Range(hand["ingress"]) = {}
    <3>1. /\ Increasing(Cat(Encoded, first))
          /\ Range(Line) = Range(Cat(Encoded, first)) \cup Range(hand["ingress"])
          /\ \A p \in Range(Cat(Encoded, first)), q \in Range(hand["ingress"]) : p < q
      BY <1>1, <2>4, LineShape, CatRange, CatIncreasing
    <3>2. Range(hand["ingress"]) \subseteq Nat
      BY <1>1, PacketsNat, RangeOfSeq
    <3> QED
      BY <2>3, <3>1, <3>2
  <2>6. /\ dropped' = dropped \cup Range(hand["ingress"])
        /\ taken' = taken /\ fault' = fault
    BY <1>6 DEF IngressApplies
  <2>7. Ordered'
    BY <2>5, <2>6 DEF Data, Ordered
  <2>8. GapFree'
    BY <2>1, <2>2, <2>6 DEF Data, GapFree, Contiguous
  <2>9. NoSilentLoss'
    BY <2>5, <2>6 DEF Data, NoSilentLoss
  <2> QED
    BY <2>7, <2>8, <2>9 DEF Data
<1> QED
  BY <1>2, <1>3, <1>4, <1>5, <1>6 DEF IngressHandsOn

(* Actions of the processing task.  It can only take a packet while no     *)
(* fault has occurred, so everything older is encoded or dropped then.    *)
LEMMA ProcessData ==
  ASSUME TypeOK, Data, Closing, ProcessStep
  PROVE  Data'
<1>0. /\ "ingress" \in Stages /\ "process" \in Stages /\ "egress" \in Stages
      /\ "ingress" # "process" /\ "egress" # "process"
  BY DEF Stages
<1>1. /\ Encoded \in Seq(Packets) /\ first \in Seq(Packets) /\ Line \in Seq(Packets)
      /\ Leaving \in Seq(Packets) /\ second \in Seq(Packets) /\ out \in Seq(Packets)
      /\ hand["ingress"] \in Seq(Packets) /\ hand["process"] \in Seq(Packets)
      /\ hand["egress"] \in Seq(Packets)
      /\ Cat(Encoded, first) \in Seq(Packets)
  BY Pieces, CatTyped
<1>2. Increasing(Line)
  BY DEF Data, Ordered
<1>3. ASSUME pc["process"] = "recv"
      PROVE  hand["process"] = <<>> /\ Encoded = Leaving
  <2>1. hand["process"] = <<>>
    BY <1>0, <1>3, Hands DEF Busy
  <2> QED
    BY <1>1, <2>1, CatEmpty DEF Encoded, Cat
<1>4. ASSUME pc["process"] = "recv", first # <<>>, fault = {}
      PROVE  1..Head(first) \subseteq Range(Encoded) \cup {Head(first)} \cup dropped
  <2>0. Head(first) \in Nat /\ taken \in Nat
    BY <1>1, <1>4, Uncons, BoundAssumption DEF TypeOK
  <2>1. PICK one \in Seq(Packets), rest \in Seq(Packets) :
          /\ rest = Tail(first) /\ first = Cat(one, rest) /\ Range(one) = {Head(first)}
    BY <1>1, <1>4, Uncons
  <2>2. /\ Range(first) = {Head(first)} \cup Range(rest)
        /\ \A q \in Range(rest) : Head(first) < q
    <3>1. Increasing(first)
      BY <1>2, LineParts
    <3> QED
      BY <2>1, <3>1, CatRange, CatIncreasing
  <2>3. \A q \in Range(hand["ingress"]) : Head(first) < q
    BY <1>2, <2>2, LineParts
  <2>4. \A q \in Range(rest) \cup Range(hand["ingress"]) : q \in Nat
    BY <1>1, RangeOfSeq, PacketsNat
  <2>5. 1..taken \subseteq Range(Line) \cup dropped /\ Head(first) \in 1..taken
    BY <1>4, <2>2, LineParts DEF Data, NoSilentLoss, Ordered
  <2> SUFFICES ASSUME NEW q \in 1..Head(first), q \notin dropped, q # Head(first)
               PROVE  q \in Range(Encoded)
    OBVIOUS
  <2>6. q \in Range(Line)
    <3>1. q \in 1..taken
      BY <2>0, <2>5
    <3> QED
      BY <2>5, <3>1
  <2>7. q \notin Range(rest) \cup Range(hand["ingress"])
    BY <2>0, <2>2, <2>3, <2>4
  <2> QED
    BY <2>2, <2>6, <2>7, LineParts
<1>5. ASSUME pc["process"] # "done", pc["egress"] # "done"
      PROVE  fault = {}
  BY <1>5 DEF Closing, TypeOK
<1>6. CASE ProcessAccepts
  <2>0. first # <<>> /\ Head(first) \in Nat
    BY <1>1, <1>6, Uncons DEF ProcessAccepts
  <2>1. PICK one \in Seq(Packets), rest \in Seq(Packets) :
          /\ one = <<Head(first)>> /\ rest = Tail(first)
          /\ first = Cat(one, rest)
          /\ Range(one) = {Head(first)} /\ Increasing(one)
    BY <1>1, <2>0, Uncons
  <2>2. /\ pc'["egress"] = pc["egress"]
        /\ hand'["process"] = one
        /\ hand'["ingress"] = hand["ingress"] /\ hand'["egress"] = hand["egress"]
    BY <1>0, <1>6, <2>1 DEF ProcessAccepts, Goto, TypeOK
  <2>3. Encoded' = Cat(Encoded, one)
    <3>1. Encoded' = Cat(Leaving, one)
      BY <1>6, <2>2 DEF ProcessAccepts, Encoded, Leaving, Cat
    <3> QED
      BY <1>3, <1>6, <3>1 DEF ProcessAccepts
  <2>4. Line' = Line
    <3>1. Line' = Cat(Cat(Cat(Encoded, one), rest), hand["ingress"])
      BY <1>6, <2>1, <2>2, <2>3 DEF ProcessAccepts, Line, Cat
    <3>2. Cat(Cat(Encoded, one), rest) = Cat(Encoded, first)
      <4>1. Cat(Cat(Encoded, one), rest) = Cat(Encoded, Cat(one, rest))
        BY <1>1, CatAssociative
      <4> QED
        BY <2>1, <4>1
    <3> QED
      BY <3>1, <3>2, LineShape
  <2>5. Ordered'
    BY <1>6, <2>4, LineKept DEF ProcessAccepts, Data
  <2>6. GapFree'
    <3>1. Contiguous(out)'
      BY <1>6 DEF ProcessAccepts, Data, GapFree, Contiguous
    <3>2. ASSUME pc'["egress"] # "done"
          PROVE  Contiguous(Encoded)'
      <4>1. fault = {} /\ Contiguous(Encoded)
        BY <1>5, <1>6, <2>2, <3>2 DEF ProcessAccepts, Data, GapFree
      <4>2. Range(Encoded') = Range(Encoded) \cup {Head(first)}
        <5>1. Range(Cat(Encoded, one)) = Range(Encoded) \cup Range(one)
          BY <1>1, CatRange
        <5> QED
          BY <2>1, <2>3, <5>1
      <4>3. 1..Head(first) \subseteq Range(Encoded') \cup dropped
        BY <1>4, <1>6, <4>1, <4>2 DEF ProcessAccepts
      <4> QED
        BY <1>6, <4>1, <4>2, <4>3 DEF ProcessAccepts, Contiguous
    <3> QED
      BY <3>1, <3>2 DEF GapFree
  <2>7. NoSilentLoss'
    BY <1>6, <2>4 DEF ProcessAccepts, Data, NoSilentLoss
  <2> QED
    BY <2>5, <2>6, <2>7 DEF Data
<1>7. CASE ProcessRefuses
  <2>0. first # <<>> /\ Head(first) \in Nat
    BY <1>1, <1>7, Uncons DEF ProcessRefuses
  <2>1. PICK one \in Seq(Packets), rest \in Seq(Packets) :
          /\ one = <<Head(first)>> /\ rest = Tail(first)
          /\ first = Cat(one, rest)
          /\ Range(one) = {Head(first)} /\ Increasing(one)
    BY <1>1, <2>0, Uncons
  <2>2. Encoded' = Encoded /\ out' = out
    BY <1>7 DEF ProcessRefuses, Encoded, Leaving
  <2>3. Line' = Cat(Cat(Encoded, rest), hand["ingress"])
    BY <1>7, <2>1, <2>2 DEF ProcessRefuses, Line, Cat
  <2>4. /\ Range(first) = {Head(first)} \cup Range(rest)
        /\ Increasing(rest)
        /\ \A q \in Range(rest) : Head(first) < q
    <3>1. Increasing(first)
      BY <1>2, LineParts
    <3> QED
      BY <2>1, <3>1, CatRange, CatIncreasing
  <2>5. /\ Cat(Encoded, rest) \in Seq(Packets)
        /\ Range(Cat(Encoded, rest)) = Range(Encoded) \cup Range(rest)
        /\ Increasing(Cat(Encoded, rest))
    BY <1>1, <1>2, <2>1, <2>4, LineParts, CatTyped, CatRange, CatIncreasing
  <2>6. /\ Increasing(Line')
        /\ Range(Line') = Range(Encoded) \cup Range(rest)
                                \cup Range(hand["ingress"])
    <3>1. Increasing(hand["ingress"])
      BY <1>1, <1>2, LineShape, CatIncreasing
    <3> DEFINE front == Cat(Encoded, rest)
    <3>2. \A p \in Range(front), q \in Range(hand["ingress"]) : p < q
      BY <1>2, <2>4, <2>5, LineParts
    <3> HIDE DEF front
    <3>3. Line' = Cat(front, hand["ingress"]) /\ front \in Seq(Packets)
      BY <2>3, <2>5 DEF front
    <3>4. Increasing(Line') /\ Range(Line') = Range(front) \cup Range(hand["ingress"])
      BY <1>1, <2>5, <3>1, <3>2, <3>3, CatRange, CatIncreasing DEF front
    <3> QED
      BY <2>5, <3>4 DEF front
  <2>7. Range(Line) = Range(Line') \cup {Head(first)} /\ Head(first) \notin Range(Line')
    <3>1. /\ \A q \in Range(Encoded) : q < Head(first)
          /\ \A q \in Range(hand["ingress"]) : Head(first) < q
      BY <1>2, <2>4, LineParts
    <3>2. Range(Line) = Range(Encoded) \cup Range(first) \cup Range(hand["ingress"])
      BY LineParts
    <3> QED
      BY <2>0, <2>4, <2>6, <3>1, <3>2
  <2>8. dropped' = dropped \cup {Head(first)} /\ taken' = taken /\ fault' = fault /\ pc' = pc
    BY <1>7 DEF ProcessRefuses
  <2>9. Ordered'
    BY <2>6, <2>7, <2>8 DEF Data, Ordered
  <2>10. GapFree'
    BY <2>2, <2>8 DEF Data, GapFree, Contiguous
  <2>11. NoSilentLoss'
    BY <2>7, <2>8 DEF Data, NoSilentLoss
  <2> QED
    BY <2>9, <2>10, <2>11 DEF Data
<1>8. CASE ProcessPanics
  <2>1. /\ pc'["egress"] = pc["egress"]
        /\ hand'["process"] = <<>>
        /\ hand'["ingress"] = hand["ingress"] /\ hand'["egress"] = hand["egress"]
    BY <1>0, <1>8 DEF ProcessPanics, Ends, Goto, TypeOK
  <2>2. Encoded' = Encoded
    BY <1>3, <1>8, <2>1 DEF ProcessPanics, Encoded, Leaving
  <2>3. Line' = Cat(Cat(Encoded, <<>>), hand["ingress"])
    BY <1>8, <2>1, <2>2 DEF ProcessPanics, Line, Cat
  <2>4. Increasing(Line') /\ Range(Line') \subseteq Range(Line)
    <3>1. Increasing(hand["ingress"])
      BY <1>1, <1>2, LineShape, CatIncreasing
    <3> QED
      BY <1>1, <1>2, <2>3, <3>1, LineParts, CatEmpty, CatRange, CatIncreasing
  <2> QED
    BY <1>8, <2>1, <2>2, <2>4, Cut DEF ProcessPanics, Data
<1>9. CASE ProcessEnds
  <2>1. /\ pc'["egress"] = pc["egress"]
        /\ hand'["process"] = <<>>
        /\ hand'["ingress"] = hand["ingress"] /\ hand'["egress"] = hand["egress"]
    BY <1>0, <1>9 DEF ProcessEnds, Closed, Ends, Goto, TypeOK
  <2>2. Encoded' = Encoded
    BY <1>3, <1>9, <2>1 DEF ProcessEnds, Encoded, Leaving
  <2>3. Line' = Line
    BY <1>9, <2>1, <2>2 DEF ProcessEnds, Line
  <2> QED
    BY <1>9, <2>1, <2>2, <2>3, Kept DEF ProcessEnds, Data
<1>10. CASE ProcessSends
  <2>1. /\ pc'["egress"] = pc["egress"]
        /\ hand'["process"] = <<>>
        /\ hand'["ingress"] = hand["ingress"] /\ hand'["egress"] = hand["egress"]
    BY <1>0, <1>10 DEF ProcessSends, Goto, TypeOK
  <2>2. Encoded' = Encoded
    <3> DEFINE gone == Cat(out, hand["egress"])
               sent == Cat(second, hand["process"])
    <3>1. Encoded' = Cat(Cat(gone, sent), <<>>)
      BY <1>10, <2>1 DEF ProcessSends, Encoded, Leaving, Cat
    <3>2. gone \in Seq(Packets) /\ sent \in Seq(Packets) /\ Cat(gone, sent) \in Seq(Packets)
      BY <1>1, CatTyped
    <3>3. Cat(gone, sent) = Cat(Cat(gone, second), hand["process"])
      <4> HIDE DEF gone
      <4> QED
        BY <1>1, <3>2, CatAssociative
    <3> QED
      BY <3>1, <3>2, <3>3, CatEmpty, LineShape
  <2>3. Line' = Line
    BY <1>10, <2>1, <2>2 DEF ProcessSends, Line
  <2> QED
    BY <1>10, <2>1, <2>2, <2>3, Kept DEF ProcessSends, Data
<1>11. CASE ProcessSendFails
  <2>1. /\ pc'["egress"] = "done"
        /\ hand'["process"] = <<>>
        /\ hand'["ingress"] = hand["ingress"] /\ hand'["egress"] = hand["egress"]
    BY <1>0, <1>11 DEF ProcessSendFails, Ends, Goto, TypeOK
  <2>2. Encoded' = Leaving
    <3>1. Encoded' = Cat(Leaving, <<>>)
      BY <1>11, <2>1 DEF ProcessSendFails, Encoded, Leaving, Cat
    <3> QED
      BY <1>1, <3>1, CatEmpty
  <2>3. Line' = Cat(Cat(Leaving, <<>>), hand["ingress"])
    BY <1>11, <2>1, <2>2 DEF ProcessSendFails, Line, Cat
  <2>4. Increasing(Line') /\ Range(Line') \subseteq Range(Line)
    <3>1. Increasing(hand["ingress"])
      BY <1>1, <1>2, LineShape, CatIncreasing
    <3>2. Encoded = Cat(Leaving, hand["process"])
      BY DEF Encoded, Cat
    <3>3. Increasing(Leaving) /\ Range(Leaving) \subseteq Range(Encoded)
      BY <1>1, <1>2, <3>2, LineParts, CatRange, CatIncreasing
    <3>4. Line' = Cat(Leaving, hand["ingress"])
      BY <1>1, <2>3, CatEmpty
    <3> QED
      BY <1>1, <1>2, <3>1, <3>3, <3>4, LineParts, CatRange, CatIncreasing
  <2>5. fault' # {}
    BY <1>11 DEF ProcessSendFails, Closing
  <2> QED
    BY <1>11, <2>1, <2>4, <2>5, Cut DEF ProcessSendFails, Data
<1> QED
  BY <1>6, <1>7, <1>8, <1>9, <1>10, <1>11 DEF ProcessStep

(* Actions of the TCP writer.  Until it fails it writes the line from its  *)
(* front, and what it writes has no hole.                                  *)
LEMMA EgressData ==
  ASSUME TypeOK, Data, Closing,
         EgressTakes \/ EgressEnds \/ EgressWriting
  PROVE  Data'
<1>0. /\ "ingress" \in Stages /\ "process" \in Stages /\ "egress" \in Stages
      /\ "ingress" # "egress" /\ "process" # "egress"
  BY DEF Stages
<1>1. /\ Encoded \in Seq(Packets) /\ first \in Seq(Packets) /\ Line \in Seq(Packets)
      /\ second \in Seq(Packets) /\ out \in Seq(Packets)
      /\ hand["ingress"] \in Seq(Packets) /\ hand["process"] \in Seq(Packets)
      /\ hand["egress"] \in Seq(Packets)
      /\ Cat(out, hand["egress"]) \in Seq(Packets)
  BY Pieces, CatTyped
<1>2. Increasing(Line) /\ Increasing(Encoded)
  BY LineParts DEF Data, Ordered
<1>3. CASE EgressTakes
  <2>0. second # <<>>
    BY <1>3 DEF EgressTakes
  <2>1. PICK one \in Seq(Packets), rest \in Seq(Packets) :
          one = <<Head(second)>> /\ rest = Tail(second) /\ second = Cat(one, rest)
    BY <1>1, <2>0, Uncons
  <2>2. /\ pc["egress"] # "done"
        /\ hand'["egress"] = one /\ second' = rest
        /\ hand'["ingress"] = hand["ingress"] /\ hand'["process"] = hand["process"]
    BY <1>0, <1>3, <2>1 DEF EgressTakes, Goto, TypeOK
  <2>3. hand["egress"] = <<>>
    BY <1>0, <1>3, Hands DEF EgressTakes, Busy
  <2>4. Encoded' = Encoded
    <3>1. Encoded' = Cat(Cat(Cat(out, one), rest), hand["process"])
      BY <1>3, <2>2 DEF EgressTakes, Encoded, Leaving, Cat
    <3>2. Cat(Cat(out, one), rest) = Cat(out, Cat(one, rest))
      BY <1>1, CatAssociative
    <3>3. Cat(Cat(out, one), rest) = Cat(out, second)
      BY <2>1, <3>2
    <3>4. Cat(out, hand["egress"]) = out
      BY <1>1, <2>3, CatEmpty
    <3> QED
      BY <3>1, <3>3, <3>4, LineShape
  <2>5. Line' = Line
    BY <1>3, <2>2, <2>4 DEF EgressTakes, Line
  <2> QED
    BY <1>3, <2>2, <2>4, <2>5, Kept DEF EgressTakes, Data
<1>4. CASE EgressEnds
  <2>1. /\ pc'["egress"] = "done"
        /\ hand'["egress"] = <<>>
        /\ hand'["ingress"] = hand["ingress"] /\ hand'["process"] = hand["process"]
    BY <1>0, <1>4 DEF EgressEnds, Closed, Ends, Goto, TypeOK
  <2>2. hand["egress"] = <<>>
    BY <1>0, <1>4, Hands DEF EgressEnds, Busy
  <2>3. Encoded' = Encoded /\ Line' = Line
    BY <1>4, <2>1, <2>2 DEF EgressEnds, Line, Encoded, Leaving
  <2> QED
    BY <1>4, <2>1, <2>3, Kept DEF EgressEnds, Data
<1>5. CASE GoesOn
  <2>1. pc["egress"] # "done"
    BY <1>5 DEF GoesOn, EgressGoesOn, Goto
  <2>2. hand'["egress"] = hand["egress"] /\ hand'["ingress"] = hand["ingress"]
                                        /\ hand'["process"] = hand["process"]
    BY <1>0, <1>5 DEF GoesOn, EgressGoesOn, Goto, TypeOK
  <2>3. Encoded' = Encoded /\ Line' = Line
    BY <1>5, <2>2 DEF GoesOn, EgressGoesOn, Line, Encoded, Leaving
  <2> QED
    BY <1>5, <2>1, <2>3, Kept DEF GoesOn, EgressGoesOn, Data
<1>6. CASE Writes
  <2>1. /\ pc["egress"] # "done"
        /\ hand'["egress"] = <<>> /\ out' = Cat(out, hand["egress"])
        /\ hand'["ingress"] = hand["ingress"] /\ hand'["process"] = hand["process"]
    BY <1>0, <1>6 DEF Writes, EgressWrites, Goto, TypeOK, Cat
  <2>2. Encoded' = Encoded
    <3>1. Encoded' = Cat(Cat(Cat(Cat(out, hand["egress"]), <<>>), second), hand["process"])
      BY <1>6, <2>1 DEF Writes, EgressWrites, Encoded, Leaving, Cat
    <3> QED
      BY <1>1, <3>1, CatEmpty, LineShape
  <2>3. Line' = Line
    BY <1>6, <2>1, <2>2 DEF Writes, EgressWrites, Line
  <2>4. Ordered'
    BY <1>6, <2>3, LineKept DEF Writes, EgressWrites, Data
  <2>5. Contiguous(out)' /\ Contiguous(Encoded)'
    <3>1. Contiguous(Encoded)
      BY <2>1 DEF Data, GapFree
    <3>2. PICK rest \in Seq(Packets) : Encoded = Cat(Cat(out, hand["egress"]), rest)
      BY EncodedParts
    <3>3. Contiguous(Cat(out, hand["egress"]))
      BY <1>1, <1>2, <3>1, <3>2, PrefixContiguous
    <3> QED
      BY <1>6, <2>1, <2>2, <3>1, <3>3 DEF Writes, EgressWrites, Contiguous
  <2>6. NoSilentLoss'
    BY <1>6, <2>3 DEF Writes, EgressWrites, Data, NoSilentLoss
  <2> QED
    BY <2>4, <2>5, <2>6 DEF Data, GapFree
<1>7. CASE EgressWriteFails
  <2>1. /\ pc'["egress"] = "done"
        /\ hand'["egress"] = <<>> /\ second' = <<>>
        /\ hand'["ingress"] = hand["ingress"] /\ hand'["process"] = hand["process"]
    BY <1>0, <1>7 DEF EgressWriteFails, Ends, Goto, TypeOK
  <2>2. Encoded' = Cat(out, hand["process"])
    <3>1. Encoded' = Cat(Cat(Cat(out, <<>>), <<>>), hand["process"])
      BY <1>7, <2>1 DEF EgressWriteFails, Encoded, Leaving, Cat
    <3> QED
      BY <1>1, <3>1, CatEmpty
  <2>3. Line' = Cat(Cat(Cat(out, hand["process"]), first), hand["ingress"])
    BY <1>7, <2>1, <2>2 DEF EgressWriteFails, Line, Cat
  <2> DEFINE gone == Cat(out, hand["egress"])
  <2>4. /\ Increasing(Cat(out, hand["process"]))
        /\ Range(Cat(out, hand["process"])) \subseteq Range(Encoded)
    <3>1. Increasing(gone) /\ Range(out) \subseteq Range(gone) /\ Increasing(out)
      <4>1. PICK rest \in Seq(Packets) : Encoded = Cat(gone, rest)
        BY EncodedParts
      <4>2. Increasing(gone)
        BY <1>1, <1>2, <4>1, CatIncreasing
      <4> QED
        BY <1>1, <4>2, CatRange, CatIncreasing
    <3>2. gone \in Seq(Packets) /\ Encoded = Cat(Cat(gone, second), hand["process"])
      BY <1>1, LineShape
    <3> HIDE DEF gone
    <3>3. Cat(gone, second) \in Seq(Packets)
      BY <1>1, <3>2, CatTyped
    <3>4. Range(out) \subseteq Range(Cat(gone, second))
      BY <1>1, <3>1, <3>2, CatRange
    <3> QED
      BY <1>1, <1>2, <3>1, <3>2, <3>3, <3>4, CatRange, CatIncreasing
  <2>5. Increasing(Line') /\ Range(Line') \subseteq Range(Line)
    <3>1. PICK front \in Seq(Packets) :
            /\ front = Cat(out, hand["process"])
            /\ Increasing(front) /\ Range(front) \subseteq Range(Encoded)
      BY <1>1, <2>4, CatTyped
    <3>2. Line' = Cat(Cat(front, first), hand["ingress"])
      BY <2>3, <3>1
    <3>3. Increasing(hand["ingress"])
      BY <1>1, <1>2, LineShape, CatTyped, CatIncreasing
    <3>4. Increasing(first) /\ \A p \in Range(front), q \in Range(first) : p < q
      BY <1>2, <3>1, LineParts
    <3>5. PICK ahead \in Seq(Packets) :
            /\ ahead = Cat(front, first)
            /\ Increasing(ahead)
            /\ Range(ahead) \subseteq Range(Encoded) \cup Range(first)
      <4>1. Cat(front, first) \in Seq(Packets)
        BY <1>1, CatTyped
      <4>2. Increasing(Cat(front, first))
        BY <1>1, <3>1, <3>4, CatIncreasing
      <4>3. Range(Cat(front, first)) = Range(front) \cup Range(first)
        BY <1>1, CatRange
      <4> QED
        BY <3>1, <4>1, <4>2, <4>3
    <3>6. Line' = Cat(ahead, hand["ingress"])
      BY <3>2, <3>5
    <3>7. \A p \in Range(ahead), q \in Range(hand["ingress"]) : p < q
      BY <1>2, <3>5, LineParts
    <3>8. Range(Line') = Range(ahead) \cup Range(hand["ingress"])
      BY <1>1, <3>6, CatRange
    <3>9. Increasing(Line')
      BY <1>1, <3>3, <3>5, <3>6, <3>7, CatIncreasing
    <3> QED
      BY <3>5, <3>8, <3>9, LineParts
  <2>6. out' = out /\ UNCHANGED <<taken, dropped>> /\ fault' # {}
    BY <1>7 DEF EgressWriteFails
  <2> QED
    BY <2>1, <2>5, <2>6, Cut DEF Data
<1> QED
  BY <1>3, <1>4, <1>5, <1>6, <1>7 DEF EgressWriting, GoesOn, Writes

-------------------------------------------------------------------------------
(* The account of what is not settled.                                     *)

LEMMA UnsettledFinite ==
  TypeOK => IsFiniteSet(Unsettled) /\ Cardinality(Unsettled) \in Nat
<1> SUFFICES ASSUME TypeOK PROVE IsFiniteSet(Unsettled) /\ Cardinality(Unsettled) \in Nat
  OBVIOUS
<1>1. 1 \in Int /\ taken \in Int
  BY BoundAssumption DEF TypeOK
<1>2. IsFiniteSet(1..taken)
  BY <1>1, FS_Interval
<1>3. Unsettled \in SUBSET (1..taken)
  BY DEF Unsettled
<1>4. IsFiniteSet(Unsettled)
  BY <1>2, <1>3, FS_Subset
<1> QED
  BY <1>4, FS_CardinalityType

(* How many packets the tasks and the channels hold.                       *)
LEMMA Loads ==
  TypeOK => /\ Len(first) \in Nat /\ Len(first) <= PIPELINE_BUFFER_SIZE
            /\ Len(second) \in Nat /\ Len(second) <= PIPELINE_BUFFER_SIZE
            /\ \A s \in Stages : Len(hand[s]) = (IF pc[s] \in Busy THEN 1 ELSE 0)
            /\ Len(<<>>) = 0
            /\ "ingress" \in Stages /\ "process" \in Stages /\ "egress" \in Stages
<1> SUFFICES ASSUME TypeOK
             PROVE  /\ Len(first) \in Nat /\ Len(first) <= PIPELINE_BUFFER_SIZE
                    /\ Len(second) \in Nat /\ Len(second) <= PIPELINE_BUFFER_SIZE
                    /\ \A s \in Stages : Len(hand[s]) = (IF pc[s] \in Busy THEN 1 ELSE 0)
                    /\ Len(<<>>) = 0
                    /\ "ingress" \in Stages /\ "process" \in Stages /\ "egress" \in Stages
  OBVIOUS
<1>1. Len(first) \in Nat /\ Len(second) \in Nat
  BY LenProperties DEF TypeOK
<1>2. \A s \in Stages : Len(hand[s]) = (IF pc[s] \in Busy THEN 1 ELSE 0)
  BY DEF TypeOK, Busy
<1>3. Len(<<>>) = 0
  BY EmptySeq
<1> QED
  BY <1>1, <1>2, <1>3 DEF TypeOK, Stages

(* What a task holds, by the point where it is suspended.                  *)
AtIngress == IF pc["ingress"] = "read" THEN 0 ELSE 1
AtProcess ==
  IF pc["process"] = "done" THEN PIPELINE_BUFFER_SIZE + 1
  ELSE Len(first) + (IF pc["process"] = "send" THEN 1 ELSE 0)
AtEgress ==
  IF pc["egress"] = "done" THEN PIPELINE_BUFFER_SIZE + 1
  ELSE Len(second) + (IF pc["egress"] \in {"write", "payload"} THEN 1 ELSE 0)

LEMMA HeldByPoint ==
  TypeOK => /\ AllHeld = AtIngress + AtProcess + AtEgress
            /\ AtIngress \in 0..1
            /\ AtProcess \in 0..(PIPELINE_BUFFER_SIZE + 1)
            /\ AtEgress \in 0..(PIPELINE_BUFFER_SIZE + 1)
<1> SUFFICES ASSUME TypeOK
             PROVE  /\ AllHeld = AtIngress + AtProcess + AtEgress
                    /\ AtIngress \in 0..1
                    /\ AtProcess \in 0..(PIPELINE_BUFFER_SIZE + 1)
                    /\ AtEgress \in 0..(PIPELINE_BUFFER_SIZE + 1)
  OBVIOUS
<1>1. /\ pc["ingress"] \in {"read", "apply", "send", "done"}
      /\ pc["process"] \in {"recv", "send", "done"}
      /\ pc["egress"] \in {"recv", "write", "payload", "flush", "done"}
  BY DEF TypeOK
<1>2. /\ Len(hand["ingress"]) = (IF pc["ingress"] \in {"apply", "send"} THEN 1 ELSE 0)
      /\ Len(hand["process"]) = (IF pc["process"] = "send" THEN 1 ELSE 0)
      /\ Len(hand["egress"]) = (IF pc["egress"] \in {"write", "payload"} THEN 1 ELSE 0)
  BY <1>1, Loads DEF Busy
<1>3. /\ Held("ingress", <<>>, 0) = AtIngress
      /\ Held("process", first, PIPELINE_BUFFER_SIZE) = AtProcess
      /\ Held("egress", second, PIPELINE_BUFFER_SIZE) = AtEgress
  BY <1>1, <1>2, Loads DEF Held, AtIngress, AtProcess, AtEgress
<1>4. AllHeld = AtIngress + AtProcess + AtEgress
  BY <1>3 DEF AllHeld
<1> QED
  BY <1>4, Loads, BufferAssumption DEF AtIngress, AtProcess, AtEgress

(* A packet that is written or dropped is taken off the account.           *)
LEMMA Settles ==
  ASSUME TypeOK, NEW p \in Unsettled, taken' = taken,
         Range(out') \cup dropped' = (Range(out) \cup dropped) \cup {p}
  PROVE  Cardinality(Unsettled') = Cardinality(Unsettled) - 1
<1>1. Unsettled' = Unsettled \ {p}
  BY DEF Unsettled
<1> QED
  BY <1>1, UnsettledFinite, FS_RemoveElement

(* A packet that is taken is put on it.                                    *)
LEMMA Opens ==
  ASSUME TypeOK, taken' = taken + 1, UNCHANGED <<out, dropped>>
  PROVE  Cardinality(Unsettled') <= Cardinality(Unsettled) + 1
<1>1. 1..(taken + 1) = 1..taken \cup {taken + 1}
  BY BoundAssumption DEF TypeOK
<1>2. Unsettled' \in SUBSET (Unsettled \cup {taken + 1})
  BY <1>1 DEF Unsettled
<1>3. /\ IsFiniteSet(Unsettled \cup {taken + 1})
      /\ Cardinality(Unsettled \cup {taken + 1}) <= Cardinality(Unsettled) + 1
      /\ Cardinality(Unsettled \cup {taken + 1}) \in Nat
  <2>1. /\ IsFiniteSet(Unsettled \cup {taken + 1})
        /\ Cardinality(Unsettled \cup {taken + 1}) =
             IF taken + 1 \in Unsettled THEN Cardinality(Unsettled) ELSE Cardinality(Unsettled) + 1
    BY UnsettledFinite, FS_AddElement
  <2> QED
    BY <2>1, UnsettledFinite
<1>4. /\ IsFiniteSet(Unsettled')
      /\ Cardinality(Unsettled') <= Cardinality(Unsettled \cup {taken + 1})
  BY <1>2, <1>3, FS_Subset
<1>5. Cardinality(Unsettled') \in Nat
  BY <1>4, FS_CardinalityType
<1> QED
  BY <1>3, <1>4, <1>5, UnsettledFinite

(* The packets on the line that are past no write are unsettled.           *)
LEMMA OnTheLine ==
  ASSUME TypeOK, Ordered
  PROVE  /\ Range(first) \subseteq Unsettled
         /\ Range(hand["ingress"]) \subseteq Unsettled
         /\ Range(hand["egress"]) \subseteq Unsettled
<1>1. /\ Increasing(Line) /\ Range(Line) \subseteq 1..taken
      /\ Range(Line) \cap dropped = {}
  BY DEF Ordered
<1>2. Range(Line) \subseteq Nat
  BY <1>1, BoundAssumption DEF TypeOK
<1>3. /\ Range(out) \subseteq Range(Encoded) /\ Increasing(Cat(out, hand["egress"]))
      /\ Range(Cat(out, hand["egress"])) \subseteq Range(Line)
  BY <1>1, WireFirst
<1>4. /\ Range(Line) = Range(Encoded) \cup Range(first) \cup Range(hand["ingress"])
      /\ \A p \in Range(Encoded), q \in Range(first) : p < q
      /\ \A p \in Range(Encoded) \cup Range(first), q \in Range(hand["ingress"]) : p < q
  BY <1>1, LineParts
<1>5. /\ Range(Cat(out, hand["egress"])) = Range(out) \cup Range(hand["egress"])
      /\ \A p \in Range(out), q \in Range(hand["egress"]) : p < q
  <2>1. out \in Seq(Packets) /\ hand["egress"] \in Seq(Packets)
    BY Pieces
  <2> QED
    BY <1>3, <2>1, CatRange, CatIncreasing
<1>6. \A n \in Nat : ~(n < n)
  OBVIOUS
<1>7. ASSUME NEW q \in Range(Line),
             \A p \in Range(out) : p < q
      PROVE  q \in Unsettled
  BY <1>1, <1>2, <1>6, <1>7 DEF Unsettled
<1> QED
  BY <1>3, <1>4, <1>5, <1>7

(* A task that is about to hand a packet on holds this one only.           *)
LEMMA OneInHand ==
  ASSUME TypeOK, NEW s \in Stages, pc[s] \in Busy
  PROVE  \E x : Range(hand[s]) = {x}
<1>1. hand[s] = <<hand[s][1]>> /\ hand[s][1] \in Packets
  BY Hands
<1>2. hand[s][1] \in Nat
  BY <1>1, PacketsNat
<1>3. Range(<<hand[s][1]>>) = {hand[s][1]}
  BY <1>2, RangeSmall
<1> QED
  BY <1>1, <1>3

LEMMA AccountedNext ==
  ASSUME TypeOK, TypeOK', Ordered, Accounted, [StagesNext]_stages
  PROVE  Accounted'
<1> DEFINE n == Cardinality(Unsettled)
           m == Cardinality(Unsettled')
<1>1. n \in Nat /\ n <= AtIngress + AtProcess + AtEgress
  BY UnsettledFinite, HeldByPoint DEF Accounted
<1>2. m \in Nat
  <2>1. (TypeOK => IsFiniteSet(Unsettled) /\ Cardinality(Unsettled) \in Nat)'
    BY UnsettledFinite, PTL
  <2> QED
    BY <2>1
<1>3. /\ AllHeld' = AtIngress' + AtProcess' + AtEgress'
      /\ AtIngress \in Nat /\ AtProcess \in Nat /\ AtEgress \in Nat
      /\ AtIngress' \in Nat /\ AtProcess' \in Nat /\ AtEgress' \in Nat
      /\ AtProcess <= PIPELINE_BUFFER_SIZE + 1 /\ AtEgress <= PIPELINE_BUFFER_SIZE + 1
      /\ PIPELINE_BUFFER_SIZE \in Nat
  <2>1. (TypeOK => /\ AllHeld = AtIngress + AtProcess + AtEgress
                   /\ AtIngress \in 0..1
                   /\ AtProcess \in 0..(PIPELINE_BUFFER_SIZE + 1)
                   /\ AtEgress \in 0..(PIPELINE_BUFFER_SIZE + 1))'
    BY HeldByPoint, PTL
  <2> QED
    BY <2>1, HeldByPoint, BufferAssumption
<1> SUFFICES m <= AtIngress' + AtProcess' + AtEgress'
  BY <1>3 DEF Accounted
<1>4. UNCHANGED <<taken, out, dropped>> => m = n
  BY DEF Unsettled
<1>5. taken' = taken + 1 /\ UNCHANGED <<out, dropped>> => m <= n + 1
  BY Opens
<1>6. ASSUME taken' = taken,
             \E x \in Unsettled :
               Range(out') \cup dropped' = (Range(out) \cup dropped) \cup {x}
      PROVE  m = n - 1
  BY <1>6, Settles
<1> HIDE DEF n, m
<1>7. /\ "ingress" \in Stages /\ "process" \in Stages /\ "egress" \in Stages
      /\ first \in Seq(Packets) /\ second \in Seq(Packets)
      /\ Len(first) \in Nat /\ Len(second) \in Nat
      /\ DOMAIN pc = Stages
  BY Loads DEF TypeOK
<1>8. CASE Takes
  <2>1. /\ AtIngress = 0 /\ AtIngress' = 1 /\ AtProcess' = AtProcess /\ AtEgress' = AtEgress
    BY <1>7, <1>8 DEF Takes, IngressTakes, Goto, AtIngress, AtProcess, AtEgress
  <2>2. m <= n + 1
    BY <1>5, <1>8 DEF Takes, IngressTakes
  <2> QED
    BY <1>1, <1>2, <1>3, <2>1, <2>2
<1>9. CASE IngressEnds \/ IngressSendFails
  <2>1. /\ AtIngress <= 1 /\ AtIngress' = 1 /\ AtProcess' = AtProcess /\ AtEgress' = AtEgress
    BY <1>7, <1>9 DEF IngressEnds, IngressSendFails, Ends, Goto, AtIngress, AtProcess, AtEgress
  <2>2. m = n
    BY <1>4, <1>9 DEF IngressEnds, IngressSendFails
  <2> QED
    BY <1>1, <1>2, <1>3, <2>1, <2>2
<1>10. CASE IngressApplies
  <2>1. /\ AtIngress = 1 /\ AtIngress' = 0 /\ AtProcess' = AtProcess /\ AtEgress' = AtEgress
    BY <1>7, <1>10 DEF IngressApplies, Goto, AtIngress, AtProcess, AtEgress
  <2>2. PICK x \in Unsettled : Range(hand["ingress"]) = {x}
    <3>1. pc["ingress"] \in Busy
      BY <1>10 DEF IngressApplies, Busy
    <3> QED
      BY <1>7, <3>1, OneInHand, OnTheLine
  <2>3. /\ taken' = taken
        /\ Range(out') \cup dropped' = (Range(out) \cup dropped) \cup {x}
    BY <1>10, <2>2 DEF IngressApplies
  <2>4. m = n - 1
    BY <1>6, <2>3
  <2> QED
    BY <1>1, <1>2, <1>3, <2>1, <2>4
<1>11. CASE IngressSends
  <2>1. Len(first') = Len(first) + 1
    <3>1. /\ hand["ingress"] \in Seq(Packets) /\ first' = Cat(first, hand["ingress"])
          /\ Len(hand["ingress"]) = 1
      BY <1>7, <1>11, Pieces, Loads DEF IngressSends, Busy, Cat
    <3> QED
      BY <1>7, <3>1, CatLength
  <2>2. /\ AtIngress = 1 /\ AtIngress' = 0 /\ AtProcess' = AtProcess + 1 /\ AtEgress' = AtEgress
    BY <1>7, <1>11, <2>1 DEF IngressSends, Goto, AtIngress, AtProcess, AtEgress
  <2>3. m = n
    BY <1>4, <1>11 DEF IngressSends
  <2> QED
    BY <1>1, <1>2, <1>3, <2>2, <2>3
<1>12. CASE ProcessAccepts
  <2>1. Len(first') = Len(first) - 1
    BY <1>7, <1>12, HeadTailProperties DEF ProcessAccepts
  <2>2. AtIngress' = AtIngress /\ AtProcess' = AtProcess /\ AtEgress' = AtEgress
    BY <1>7, <1>12, <2>1 DEF ProcessAccepts, Goto, AtIngress, AtProcess, AtEgress
  <2>3. m = n
    BY <1>4, <1>12 DEF ProcessAccepts
  <2> QED
    BY <1>1, <1>2, <1>3, <2>2, <2>3
<1>13. CASE ProcessRefuses
  <2>1. Len(first') = Len(first) - 1
    BY <1>7, <1>13, HeadTailProperties DEF ProcessRefuses
  <2>2. AtIngress' = AtIngress /\ AtProcess' = AtProcess - 1 /\ AtEgress' = AtEgress
    BY <1>7, <1>13, <2>1 DEF ProcessRefuses, AtIngress, AtProcess, AtEgress
  <2>3. Head(first) \in Unsettled
    <3>1. first # <<>>
      BY <1>13 DEF ProcessRefuses
    <3>2. first[1] \in Range(first)
      BY <1>7, <3>1, EmptySeq DEF Range
    <3>3. Head(first) = first[1]
      BY <1>7, <3>1
    <3> QED
      BY <3>2, <3>3, OnTheLine
  <2>4. /\ taken' = taken
        /\ Range(out') \cup dropped' = (Range(out) \cup dropped) \cup {Head(first)}
    BY <1>13 DEF ProcessRefuses
  <2>5. m = n - 1
    BY <1>6, <2>3, <2>4
  <2> QED
    BY <1>1, <1>2, <1>3, <2>2, <2>5
<1>14. CASE ProcessPanics \/ ProcessEnds \/ ProcessSendFails
  <2>1. /\ AtIngress' = AtIngress /\ AtProcess' = PIPELINE_BUFFER_SIZE + 1
        /\ AtEgress' = AtEgress
    BY <1>7, <1>14
    DEF ProcessPanics, ProcessEnds, ProcessSendFails, Ends, Goto, AtIngress, AtProcess, AtEgress
  <2>2. m = n
    BY <1>4, <1>14 DEF ProcessPanics, ProcessEnds, ProcessSendFails
  <2> QED
    BY <1>1, <1>2, <1>3, <2>1, <2>2
<1>15. CASE ProcessSends
  <2>1. Len(second') = Len(second) + 1
    <3>1. /\ hand["process"] \in Seq(Packets) /\ second' = Cat(second, hand["process"])
          /\ Len(hand["process"]) = 1
      BY <1>7, <1>15, Pieces, Loads DEF ProcessSends, Busy, Cat
    <3> QED
      BY <1>7, <3>1, CatLength
  <2>2. AtIngress' = AtIngress /\ AtProcess' = AtProcess - 1 /\ AtEgress' = AtEgress + 1
    BY <1>7, <1>15, <2>1 DEF ProcessSends, Goto, AtIngress, AtProcess, AtEgress
  <2>3. m = n
    BY <1>4, <1>15 DEF ProcessSends
  <2> QED
    BY <1>1, <1>2, <1>3, <2>2, <2>3
<1>16. CASE EgressTakes
  <2>1. Len(second') = Len(second) - 1
    BY <1>7, <1>16, HeadTailProperties DEF EgressTakes
  <2>2. AtIngress' = AtIngress /\ AtProcess' = AtProcess /\ AtEgress' = AtEgress
    BY <1>7, <1>16, <2>1 DEF EgressTakes, Goto, AtIngress, AtProcess, AtEgress
  <2>3. m = n
    BY <1>4, <1>16 DEF EgressTakes
  <2> QED
    BY <1>1, <1>2, <1>3, <2>2, <2>3
<1>17. CASE EgressEnds \/ EgressWriteFails
  <2>1. /\ AtIngress' = AtIngress /\ AtProcess' = AtProcess
        /\ AtEgress' = PIPELINE_BUFFER_SIZE + 1
    BY <1>7, <1>17 DEF EgressEnds, EgressWriteFails, Ends, Goto, AtIngress, AtProcess, AtEgress
  <2>2. m = n
    BY <1>4, <1>17 DEF EgressEnds, EgressWriteFails
  <2> QED
    BY <1>1, <1>2, <1>3, <2>1, <2>2
<1>18. CASE GoesOn
  <2>1. AtIngress' = AtIngress /\ AtProcess' = AtProcess /\ AtEgress' = AtEgress
    BY <1>7, <1>18 DEF GoesOn, EgressGoesOn, Goto, AtIngress, AtProcess, AtEgress
  <2>2. m = n
    BY <1>4, <1>18 DEF GoesOn, EgressGoesOn
  <2> QED
    BY <1>1, <1>2, <1>3, <2>1, <2>2
<1>19. CASE Writes
  <2>1. AtIngress' = AtIngress /\ AtProcess' = AtProcess /\ AtEgress' = AtEgress - 1
    BY <1>7, <1>19 DEF Writes, EgressWrites, Goto, AtIngress, AtProcess, AtEgress
  <2>2. PICK x \in Unsettled : Range(hand["egress"]) = {x}
    <3>1. pc["egress"] \in Busy
      BY <1>19 DEF Writes, EgressWrites, Busy
    <3> QED
      BY <1>7, <3>1, OneInHand, OnTheLine
  <2>3. Range(out') = Range(out) \cup {x}
    <3>1. out' = Cat(out, hand["egress"])
      BY <1>19 DEF Writes, EgressWrites, Cat
    <3> QED
      BY <2>2, <3>1, Pieces, CatRange
  <2>4. m = n - 1
    <3>1. /\ taken' = taken
          /\ Range(out') \cup dropped' = (Range(out) \cup dropped) \cup {x}
      BY <1>19, <2>3 DEF Writes, EgressWrites
    <3> QED
      BY <1>6, <3>1
  <2> QED
    BY <1>1, <1>2, <1>3, <2>1, <2>4
<1>20. CASE Returns \/ UNCHANGED stages
  <2>1. UNCHANGED <<pc, first, second>> /\ UNCHANGED <<taken, out, dropped>>
    BY <1>20 DEF Returns, stages
  <2>2. AtIngress' = AtIngress /\ AtProcess' = AtProcess /\ AtEgress' = AtEgress
    BY <2>1 DEF AtIngress, AtProcess, AtEgress
  <2>3. m = n
    BY <1>4, <2>1
  <2> QED
    BY <1>1, <1>2, <1>3, <2>2, <2>3
<1> QED
  BY <1>8, <1>9, <1>10, <1>11, <1>12, <1>13, <1>14, <1>15, <1>16, <1>17, <1>18, <1>19, <1>20
  DEF StagesNext, Takes, IngressHandsOn, ProcessStep, EgressWriting, GoesOn, Writes, Terminated

LEMMA InductiveInit == StagesInit => IInv
<1> SUFFICES ASSUME StagesInit PROVE IInv
  OBVIOUS
<1>1. TypeOK
  BY TypeInit
<1>2. /\ first = <<>> /\ second = <<>> /\ out = <<>> /\ taken = 0
      /\ dropped = {} /\ fault = {} /\ result = "running"
      /\ hand["ingress"] = <<>> /\ hand["process"] = <<>> /\ hand["egress"] = <<>>
      /\ pc["ingress"] = "read" /\ pc["process"] = "recv" /\ pc["egress"] = "recv"
  BY DEF StagesInit, Stages
<1>3. Encoded = <<>> /\ Line = <<>>
  <2>1. Cat(<<>>, <<>>) = <<>>
    BY EmptySeq, CatEmpty
  <2>2. Encoded = Cat(Cat(Cat(<<>>, <<>>), <<>>), <<>>)
    BY <1>2, LineShape
  <2>3. Encoded = <<>>
    BY <2>1, <2>2
  <2>4. Line = Cat(Cat(<<>>, <<>>), <<>>)
    BY <1>2, <2>3, LineShape
  <2> QED
    BY <2>1, <2>3, <2>4
<1>4. Ordered /\ GapFree /\ NoSilentLoss
  BY <1>2, <1>3, RangeSmall DEF Ordered, GapFree, Contiguous, NoSilentLoss
<1>5. Closing
  BY <1>2 DEF Closing
<1>6. Accounted
  <2>1. Unsettled = {} /\ Cardinality({}) = 0
    BY <1>2, FS_EmptySet DEF Unsettled
  <2>2. AllHeld \in Nat
    BY <1>1, HeldByPoint, BufferAssumption
  <2> QED
    BY <2>1, <2>2 DEF Accounted
<1> QED
  BY <1>1, <1>4, <1>5, <1>6 DEF IInv

LEMMA InductiveNext == IInv /\ [StagesNext]_stages => IInv'
<1> SUFFICES ASSUME IInv, [StagesNext]_stages
             PROVE  IInv'
  OBVIOUS
<1>1. TypeOK /\ Data /\ Closing
  BY DEF IInv, Data
<1>2. TypeOK'
  BY <1>1, TypeNext
<1>a. Accounted'
  BY <1>1, <1>2, AccountedNext DEF IInv, Data
<1>3. CASE StagesNext
  <2>1. Closing'
    BY <1>1, <1>3, ClosingNext
  <2>2. CASE Takes \/ IngressEnds \/ IngressHandsOn
    BY <1>1, <1>2, <1>a, <2>1, <2>2, IngressData DEF IInv, Data
  <2>3. CASE ProcessStep
    BY <1>1, <1>2, <1>a, <2>1, <2>3, ProcessData DEF IInv, Data
  <2>4. CASE EgressTakes \/ EgressEnds \/ EgressWriting
    BY <1>1, <1>2, <1>a, <2>1, <2>4, EgressData DEF IInv, Data
  <2>5. CASE Returns \/ Terminated
    <3>1. /\ pc' = pc /\ hand' = hand /\ first' = first /\ second' = second /\ out' = out
          /\ taken' = taken /\ dropped' = dropped /\ fault' = fault
      <4>1. CASE Returns
        BY <4>1 DEF Returns
      <4>2. CASE Terminated
        BY <4>2 DEF Terminated, stages
      <4> QED
        BY <2>5, <4>1, <4>2
    <3>2. Encoded' = Encoded /\ Line' = Line
      BY <3>1 DEF Line, Encoded, Leaving
    <3> QED
      BY <1>1, <1>2, <1>a, <2>1, <3>1, <3>2, Kept DEF IInv, Data
  <2> QED
    BY <1>3, <2>2, <2>3, <2>4, <2>5 DEF StagesNext, Takes
<1>4. CASE UNCHANGED stages
  <2>1. /\ pc' = pc /\ first' = first /\ second' = second /\ out' = out
        /\ taken' = taken /\ dropped' = dropped /\ fault' = fault /\ result' = result
    BY <1>4 DEF stages
  <2>2. Encoded' = Encoded /\ Line' = Line
    BY <1>4 DEF stages, Line, Encoded, Leaving
  <2>3. Closing'
    BY <1>1, <2>1 DEF Closing
  <2> QED
    BY <1>1, <1>2, <1>a, <2>1, <2>2, <2>3, Kept DEF IInv, Data
<1> QED
  BY <1>3, <1>4

-------------------------------------------------------------------------------
(* What the invariant gives, and what a step is to the specification of    *)
(* one direction of the relay.                                             *)

LEMMA CleanWhenDone == IInv => CleanReturn
<1> SUFFICES ASSUME IInv, result = "ok", fault = {}
             PROVE  Range(out) = 1..taken \ dropped
  BY DEF CleanReturn
<1>0. TypeOK /\ out \in Seq(Packets)
  BY Pieces DEF IInv
<1>1. /\ pc["ingress"] = "done" /\ pc["process"] = "done" /\ pc["egress"] = "done"
      /\ first = <<>> /\ second = <<>>
  BY DEF IInv, Closing, Stages
<1>2. hand["ingress"] = <<>> /\ hand["process"] = <<>> /\ hand["egress"] = <<>>
  <2>1. "ingress" \in Stages /\ "process" \in Stages /\ "egress" \in Stages
    BY DEF Stages
  <2> QED
    BY <1>0, <1>1, <2>1, Hands DEF Busy
<1>3. Line = out
  BY <1>0, <1>1, <1>2, LineShape, CatEmpty
<1> QED
  BY <1>3 DEF IInv, NoSilentLoss, Ordered

LEMMA BoundedWhenAccounted == IInv => BoundedLoss
<1> SUFFICES ASSUME IInv PROVE BoundedLoss
  OBVIOUS
<1>1. /\ Cardinality(Unsettled) \in Nat
      /\ Cardinality(Unsettled) <= AtIngress + AtProcess + AtEgress
  BY UnsettledFinite, HeldByPoint DEF IInv, Accounted
<1>2. /\ AtIngress \in 0..1
      /\ AtProcess \in 0..(PIPELINE_BUFFER_SIZE + 1)
      /\ AtEgress \in 0..(PIPELINE_BUFFER_SIZE + 1)
  BY HeldByPoint DEF IInv
<1> QED
  BY <1>1, <1>2, BufferAssumption DEF BoundedLoss

(* A task waits for another one: for room in the channel to it, or for a   *)
(* packet from it.  At any other point it runs, or waits for the world.    *)
IngressWaits == pc["ingress"] = "send" /\ pc["process"] # "done" /\ ~HasRoom(first)
ProcessWaits ==
  \/ pc["process"] = "recv" /\ first = <<>> /\ pc["ingress"] # "done"
  \/ pc["process"] = "send" /\ pc["egress"] # "done" /\ ~HasRoom(second)
EgressWaits == pc["egress"] = "recv" /\ second = <<>> /\ pc["process"] # "done"

(* As long as not all tasks are over, one that is not does not wait for    *)
(* another.                                                                *)
NoCircularWait ==
  (\E s \in Stages : pc[s] # "done") =>
    \/ pc["ingress"] # "done" /\ ~IngressWaits
    \/ pc["process"] # "done" /\ ~ProcessWaits
    \/ pc["egress"] # "done" /\ ~EgressWaits

LEMMA NeverCircular == IInv => NoCircularWait
<1> SUFFICES ASSUME IInv, \E s \in Stages : pc[s] # "done",
                    pc["ingress"] # "done" => IngressWaits,
                    pc["process"] # "done" => ProcessWaits,
                    pc["egress"] # "done" => EgressWaits
             PROVE  FALSE
  BY DEF NoCircularWait
<1>1. ASSUME NEW channel, channel = <<>> PROVE HasRoom(channel)
  <2>1. Len(channel) = 0
    BY <1>1
  <2> QED
    BY <2>1, BufferAssumption DEF HasRoom
<1>2. pc["ingress"] # "done" => pc["process"] # "done" /\ first # <<>>
  BY <1>1 DEF IngressWaits
<1>3. pc["process"] # "done" => pc["egress"] # "done" /\ second # <<>>
  BY <1>1, <1>2 DEF ProcessWaits
<1>4. pc["egress"] # "done" => pc["process"] # "done" /\ second = <<>>
  BY DEF EgressWaits
<1> QED
  BY <1>2, <1>3, <1>4 DEF Stages

LEMMA StepRefines == IInv /\ IInv' /\ [StagesNext]_stages => [Fifo!Next]_Fifo!vars
<1> SUFFICES ASSUME IInv, IInv', [StagesNext]_stages
             PROVE  [Fifo!Next]_Fifo!vars
  OBVIOUS
<1>0. /\ TypeOK /\ Ordered /\ GapFree /\ Ordered' /\ GapFree'
      /\ taken \in Nat
  BY BoundAssumption DEF IInv, TypeOK
<1>1. CASE Takes
  <2>1. Fifo!Accept
    BY <1>1 DEF Takes, IngressTakes, Fifo!Accept
  <2> QED
    BY <2>1 DEF Fifo!Next
<1>2. CASE ProcessRefuses
  <2>1. Head(first) \in Range(Line) \ Range(out) /\ Head(first) \in 1..taken \ dropped
    <3>1. first # <<>> /\ first \in Seq(Packets)
      BY <1>0, <1>2, Pieces DEF ProcessRefuses
    <3>2. Head(first) \in Range(first) /\ Head(first) \in Nat
      <4>1. PICK one \in Seq(Packets), rest \in Seq(Packets) :
              first = Cat(one, rest) /\ Range(one) = {Head(first)}
        BY <3>1, Uncons
      <4>2. Range(first) = Range(one) \cup Range(rest)
        BY <4>1, CatRange
      <4> QED
        BY <3>1, <4>1, <4>2, Uncons
    <3>3. \A p \in Range(out) : p < Head(first)
      BY <1>0, <3>2, WireFirst, LineParts DEF Ordered
    <3>4. Head(first) \in Range(Line)
      BY <1>0, <3>2, LineParts
    <3> QED
      BY <1>0, <3>2, <3>3, <3>4 DEF Ordered
  <2>2. Fifo!Drop(Head(first))
    BY <1>2, <2>1 DEF ProcessRefuses, Fifo!Drop, Fifo!Range, Range
  <2> QED
    BY <2>1, <2>2 DEF Fifo!Next
<1>3. CASE Writes
  <2>1. PICK p \in Packets : hand["egress"] = <<p>> /\ p \in Nat
    <3>1. "egress" \in Stages /\ pc["egress"] \in Busy
      BY <1>3 DEF Writes, EgressWrites, Stages, Busy
    <3> QED
      BY <1>0, <3>1, Hands, PacketsNat
  <2>2. out' = Append(out, p) /\ taken' = taken /\ dropped' = dropped
    <3>1. out' = out \o <<p>> /\ taken' = taken /\ dropped' = dropped
      BY <1>3, <2>1 DEF Writes, EgressWrites
    <3> QED
      BY <1>0, <3>1, Pieces, AppendIsConcat
  <2>3. /\ Range(out') = Range(out) \cup {p}
        /\ \A q \in Range(out) : q < p
    <3>1. <<p>> \in Seq(Packets) /\ Range(<<p>>) = {p} /\ out \in Seq(Packets)
      BY <1>0, <2>1, Pieces, RangeSmall
    <3>2. out' = Cat(out, <<p>>) /\ out' = Cat(out, hand["egress"])
      BY <1>3, <2>1 DEF Writes, EgressWrites, Cat
    <3>3. Increasing(out')
      BY <1>0, <3>2, WireFirst DEF Ordered
    <3>4. /\ Range(Cat(out, <<p>>)) = Range(out) \cup Range(<<p>>)
          /\ Increasing(Cat(out, <<p>>)) =>
               \A q \in Range(out), r \in Range(<<p>>) : q < r
      BY <3>1, CatRange, CatIncreasing
    <3> QED
      BY <3>1, <3>2, <3>3, <3>4
  <2>4. p \in 1..taken \ dropped
    <3>1. p \in Range(out') /\ out' \in {Cat(out, hand["egress"])}
      BY <1>3, <2>3 DEF Writes, EgressWrites, Cat
    <3>2. p \in Range(Line)
      BY <1>0, <3>1, WireFirst DEF Ordered
    <3> QED
      BY <1>0, <3>2 DEF Ordered
  <2>5. 1..p \subseteq Range(out') \cup dropped
    BY <1>0, <2>2, <2>3 DEF GapFree, Contiguous
  <2>6. Fifo!Deliver(p)
    <3>1. \A s : Fifo!Range(s) = Range(s)
      BY DEF Fifo!Range, Range
    <3>2. p \notin Range(out) \cup dropped
      BY <2>1, <2>3, <2>4
    <3>3. \A q \in 1..(p - 1) : q \in Range(out) \cup dropped
      BY <2>1, <2>3, <2>5
    <3> QED
      BY <2>2, <3>1, <3>2, <3>3 DEF Fifo!Deliver
  <2> QED
    BY <2>4, <2>6 DEF Fifo!Next
<1>4. CASE IngressApplies
  <2>1. PICK p \in Packets : hand["ingress"] = <<p>> /\ p \in Nat
    <3>1. "ingress" \in Stages /\ pc["ingress"] \in Busy
      BY <1>4 DEF IngressApplies, Stages, Busy
    <3> QED
      BY <1>0, <3>1, Hands, PacketsNat
  <2>2. Range(hand["ingress"]) = {p}
    BY <2>1, RangeSmall
  <2>3. p \in 1..taken \ dropped /\ \A q \in Range(out) : q < p
    BY <1>0, <2>2, WireFirst, LineParts DEF Ordered
  <2>4. p \notin Range(out)
    BY <2>1, <2>3
  <2>5. Fifo!Drop(p)
    BY <1>4, <2>2, <2>3, <2>4 DEF IngressApplies, Fifo!Drop, Fifo!Range, Range
  <2> QED
    BY <2>3, <2>5 DEF Fifo!Next
<1>5. CASE \/ IngressEnds \/ IngressSends \/ IngressSendFails \/ ProcessAccepts \/ ProcessPanics
           \/ ProcessEnds \/ ProcessSends \/ ProcessSendFails
           \/ EgressTakes \/ EgressEnds \/ GoesOn
           \/ EgressWriteFails \/ Returns \/ Terminated \/ UNCHANGED stages
  <2>1. taken' = taken /\ dropped' = dropped /\ out' = out
    BY <1>5
    DEF IngressEnds, IngressSends, IngressSendFails, ProcessAccepts,
        ProcessPanics, ProcessEnds, ProcessSends, ProcessSendFails, EgressTakes, EgressEnds,
        GoesOn, EgressGoesOn, Goto, EgressWriteFails, Returns, Terminated, stages
  <2> QED
    BY <2>1 DEF Fifo!vars
<1> QED
  BY <1>1, <1>2, <1>3, <1>4, <1>5
  DEF StagesNext, Takes, IngressHandsOn, ProcessStep, EgressWriting, GoesOn, Writes

LEMMA InitRefines == StagesInit => Fifo!Init
BY DEF StagesInit, Fifo!Init

LEMMA StagesInvariant == StagesSpec => []IInv
BY InductiveInit, InductiveNext, PTL DEF StagesSpec

LEMMA StagesRefine == StagesSpec => ImplementsPrefixFifo
<1>1. IInv /\ IInv' /\ [StagesNext]_stages => [Fifo!Next]_Fifo!vars
  BY StepRefines
<1> QED
  BY <1>1, InitRefines, StagesInvariant, PTL DEF StagesSpec, ImplementsPrefixFifo, Fifo!Spec
-------------------------------------------------------------------------------
(* The upstream pipeline.                                                  *)

LEMMA UpstreamIsStages == UpstreamSpec => StagesSpec
<1>1. UpstreamNext => StagesNext
  BY DEF UpstreamNext, StagesNext, TunDelivers, IngressStep, IngressHandsOn,
         SendsFramed, EgressWriting
<1> QED
  BY <1>1, PTL DEF UpstreamSpec, StagesSpec

(* The line from the TCP stream back to the TUN device is ordered, hole-   *)
(* free as long as it can be written, closed task by task, and complete    *)
(* until something fails.                                                  *)
THEOREM UpstreamInvariant == UpstreamSpec => []IInv
BY UpstreamIsStages, StagesInvariant, PTL

(* A return without a fault has sent every packet that was not refused:    *)
(* the shutdown that travels from the TUN reader to the TCP writer loses   *)
(* nothing, however full the channels are when it starts.                  *)
THEOREM UpstreamCleanReturn == UpstreamSpec => []CleanReturn
BY CleanWhenDone, UpstreamInvariant, PTL

(* What was read from the TUN device and is neither sent nor refused is at *)
(* most what both channels and the three tasks hold, in flight and after   *)
(* any failure: a peer that does not read stops the intake there.          *)
THEOREM UpstreamBoundedLoss == UpstreamSpec => []BoundedLoss
BY BoundedWhenAccounted, UpstreamInvariant, PTL

(* No stage waits for a stage that waits for it: until all three are over, *)
(* one can run or waits for the TUN device or the TCP peer, whatever the   *)
(* capacity of the channels and whatever has failed.                       *)
THEOREM UpstreamNeverStuck == UpstreamSpec => []NoCircularWait
BY NeverCircular, UpstreamInvariant, PTL

(* The TCP peer gets the packets of the TUN device in order, each at most  *)
(* once, and without a hole except for those the engine refused, whatever  *)
(* fails in the pipeline and whenever: reading the TUN device accepts a    *)
(* packet, an engine error drops it, a complete frame delivers it, and     *)
(* every other step, fault or shutdown is invisible.                       *)
THEOREM UpstreamRefinement == UpstreamSpec => ImplementsPrefixFifo
BY UpstreamIsStages, StagesRefine, PTL
-------------------------------------------------------------------------------
(* The downstream pipeline.                                                *)

LEMMA DownstreamStep == [DownstreamNext]_vars => [StagesNext]_stages
BY DEF DownstreamNext, vars, TakesFrame, TakesFeedback, Unwraps, FallsBack, StreamEnds,
       AppliesFeedback, SendsPayload, Process, Decodes, Receives, WritesTun, Joins, Stays,
       StagesNext, IngressHandsOn, ProcessStep, EgressWriting

LEMMA DownstreamIsStages == DownstreamSpec => StagesSpec
<1>1. DownstreamInit => StagesInit
  BY DEF DownstreamInit
<1>2. [DownstreamNext]_vars => [StagesNext]_stages
  BY DownstreamStep
<1> QED
  BY <1>1, <1>2, PTL DEF DownstreamSpec, StagesSpec

(* All steps but those of the downstream pipeline that look at a frame.    *)
Others ==
  \/ IngressEnds \/ IngressSends \/ IngressSendFails
  \/ ProcessRefuses \/ ProcessPanics \/ ProcessEnds \/ ProcessSends \/ ProcessSendFails
  \/ EgressTakes \/ EgressEnds \/ EgressWriting
  \/ Returns \/ UNCHANGED stages

(* They leave the ingress task where it is, or take it from where it had   *)
(* nothing to apply to where it holds nothing.                             *)
LEMMA OthersLeaveIngress ==
  ASSUME TypeOK, Others \/ ProcessAccepts
  PROVE  /\ taken' = taken /\ dropped \subseteq dropped'
         /\ \/ pc'["ingress"] = pc["ingress"] /\ hand'["ingress"] = hand["ingress"]
            \/ pc["ingress"] # "apply" /\ pc'["ingress"] \notin Busy
<1>0. /\ "ingress" \in Stages /\ "process" \in Stages /\ "egress" \in Stages
      /\ "process" # "ingress" /\ "egress" # "ingress"
      /\ DOMAIN pc = Stages /\ DOMAIN hand = Stages
  BY DEF TypeOK, Stages
<1>1. CASE IngressEnds \/ IngressSends \/ IngressSendFails
  BY <1>0, <1>1 DEF IngressEnds, IngressSends, IngressSendFails, Ends, Goto, Busy
<1>2. CASE \/ ProcessAccepts \/ ProcessRefuses \/ ProcessPanics
           \/ ProcessEnds \/ ProcessSends \/ ProcessSendFails
  BY <1>0, <1>2
  DEF ProcessAccepts, ProcessRefuses, ProcessPanics, ProcessEnds, ProcessSends,
      ProcessSendFails, Ends, Goto
<1>3. CASE EgressTakes \/ EgressEnds \/ EgressWriteFails
  BY <1>0, <1>3 DEF EgressTakes, EgressEnds, EgressWriteFails, Ends, Goto
<1>4. CASE GoesOn \/ Writes
  BY <1>0, <1>4 DEF GoesOn, Writes, EgressGoesOn, EgressWrites, Goto
<1>5. CASE Returns \/ UNCHANGED stages
  BY <1>5 DEF Returns, stages
<1> QED
  BY <1>1, <1>2, <1>3, <1>4, <1>5 DEF Others, EgressWriting, GoesOn, Writes

LEMMA FourRanges ==
  ASSUME NEW a \in Seq(Packets), NEW b \in Seq(Packets),
         NEW c \in Seq(Packets), NEW d \in Seq(Packets)
  PROVE  Range(Cat(Cat(Cat(a, b), c), d))
           = ((Range(a) \cup Range(b)) \cup Range(c)) \cup Range(d)
<1>1. Cat(a, b) \in Seq(Packets)
  BY CatTyped
<1>2. Cat(Cat(a, b), c) \in Seq(Packets)
  BY <1>1, CatTyped
<1> QED
  BY <1>1, <1>2, CatRange

(* Nothing gets past the processing task but what it accepts.              *)
LEMMA EncodedGrows ==
  ASSUME TypeOK, TypeOK', NEW S, Range(Encoded) \subseteq S,
         \/ Takes \/ IngressApplies \/ Others
         \/ ProcessAccepts /\ Head(first) \in S
  PROVE  Range(Encoded') \subseteq S
<1>0. /\ "ingress" \in Stages /\ "process" \in Stages /\ "egress" \in Stages
      /\ "process" # "ingress" /\ "egress" # "ingress" /\ "egress" # "process"
      /\ DOMAIN pc = Stages /\ DOMAIN hand = Stages
  BY DEF TypeOK, Stages
<1>1. /\ out \in Seq(Packets) /\ hand["egress"] \in Seq(Packets)
      /\ second \in Seq(Packets) /\ hand["process"] \in Seq(Packets)
  BY Pieces
<1>2. /\ out' \in Seq(Packets) /\ hand'["egress"] \in Seq(Packets)
      /\ second' \in Seq(Packets) /\ hand'["process"] \in Seq(Packets)
  BY <1>0 DEF TypeOK
<1>3. Range(Encoded) = ((Range(out) \cup Range(hand["egress"]))
                             \cup Range(second)) \cup Range(hand["process"])
  BY <1>1, LineShape, FourRanges
<1>4. Range(Encoded') = ((Range(out') \cup Range(hand'["egress"]))
                              \cup Range(second')) \cup Range(hand'["process"])
  <2>1. Encoded' = Cat(Cat(Cat(out', hand'["egress"]), second'), hand'["process"])
    BY DEF Encoded, Leaving, Cat
  <2> QED
    BY <1>2, <2>1, FourRanges
<1>5. Range(<<>>) = {}
  BY RangeSmall
<1>6. CASE Takes \/ IngressApplies \/ IngressEnds \/ IngressSends \/ IngressSendFails
  <2>1. /\ out' = out /\ second' = second
        /\ hand'["egress"] = hand["egress"] /\ hand'["process"] = hand["process"]
    BY <1>0, <1>6
    DEF Takes, IngressTakes, IngressApplies, IngressEnds, IngressSends, IngressSendFails,
        Ends, Goto
  <2> QED
    BY <1>3, <1>4, <2>1
<1>7. CASE Returns \/ ProcessRefuses \/ UNCHANGED stages
  <2>1. out' = out /\ second' = second /\ hand' = hand
    BY <1>7 DEF Returns, ProcessRefuses, stages
  <2> QED
    BY <1>3, <1>4, <2>1
<1>8. CASE ProcessAccepts /\ Head(first) \in S
  <2>1. PICK p \in Packets : p = Head(first) /\ p \in Nat
    <3>1. first # <<>> /\ first \in Seq(Packets)
      BY <1>8, Pieces DEF ProcessAccepts
    <3> QED
      BY <3>1, Uncons
  <2>2. /\ out' = out /\ second' = second
        /\ hand'["egress"] = hand["egress"] /\ hand'["process"] = <<p>>
    BY <1>0, <1>8, <2>1 DEF ProcessAccepts, Goto
  <2>3. Range(<<p>>) = {p} /\ p \in S
    BY <1>8, <2>1, RangeSmall
  <2> QED
    BY <1>3, <1>4, <2>2, <2>3
<1>9. CASE ProcessPanics \/ ProcessEnds \/ ProcessSendFails
  <2>1. /\ out' = out /\ second' = second
        /\ hand'["egress"] = hand["egress"] /\ hand'["process"] = <<>>
    BY <1>0, <1>9 DEF ProcessPanics, ProcessEnds, ProcessSendFails, Ends, Goto
  <2> QED
    BY <1>3, <1>4, <1>5, <2>1
<1>10. CASE ProcessSends
  <2>1. /\ out' = out /\ second' = Cat(second, hand["process"])
        /\ hand'["egress"] = hand["egress"] /\ hand'["process"] = <<>>
    BY <1>0, <1>10 DEF ProcessSends, Goto, Cat
  <2>2. Range(second') = Range(second) \cup Range(hand["process"])
    BY <1>1, <2>1, CatRange
  <2> QED
    BY <1>3, <1>4, <1>5, <2>1, <2>2
<1>11. CASE EgressTakes
  <2>1. PICK one \in Seq(Packets), rest \in Seq(Packets) :
          one = <<Head(second)>> /\ rest = Tail(second) /\ second = Cat(one, rest)
    BY <1>1, <1>11, Uncons DEF EgressTakes
  <2>2. /\ out' = out /\ second' = rest
        /\ hand'["egress"] = one /\ hand'["process"] = hand["process"]
    BY <1>0, <1>11, <2>1 DEF EgressTakes, Goto
  <2>3. Range(second) = Range(one) \cup Range(rest)
    BY <2>1, CatRange
  <2> QED
    BY <1>3, <1>4, <2>2, <2>3
<1>12. CASE EgressEnds
  <2>1. /\ out' = out /\ second' = second
        /\ hand'["egress"] = <<>> /\ hand'["process"] = hand["process"]
    BY <1>0, <1>12 DEF EgressEnds, Ends, Goto
  <2> QED
    BY <1>3, <1>4, <1>5, <2>1
<1>13. CASE GoesOn
  <2>1. /\ out' = out /\ second' = second
        /\ hand'["egress"] = hand["egress"] /\ hand'["process"] = hand["process"]
    BY <1>0, <1>13 DEF GoesOn, EgressGoesOn, Goto
  <2> QED
    BY <1>3, <1>4, <2>1
<1>14. CASE Writes
  <2>1. /\ out' = Cat(out, hand["egress"]) /\ second' = second
        /\ hand'["egress"] = <<>> /\ hand'["process"] = hand["process"]
    BY <1>0, <1>14 DEF Writes, EgressWrites, Goto, Cat
  <2>2. Range(out') = Range(out) \cup Range(hand["egress"])
    BY <1>1, <2>1, CatRange
  <2> QED
    BY <1>3, <1>4, <1>5, <2>1, <2>2
<1>15. CASE EgressWriteFails
  <2>1. /\ out' = out /\ second' = <<>>
        /\ hand'["egress"] = <<>> /\ hand'["process"] = hand["process"]
    BY <1>0, <1>15 DEF EgressWriteFails, Ends, Goto
  <2> QED
    BY <1>3, <1>4, <1>5, <2>1
<1> QED
  BY <1>6, <1>7, <1>8, <1>9, <1>10, <1>11, <1>12, <1>13, <1>14, <1>15
  DEF Others, EgressWriting, GoesOn, Writes

LEMMA FramesInit == DownstreamInit => FramesInv
<1> SUFFICES ASSUME DownstreamInit PROVE FramesInv
  OBVIOUS
<1>1. IInv
  BY InductiveInit DEF DownstreamInit
<1>2. /\ frames = <<>> /\ bare = {} /\ applied = <<>> /\ taken = 0 /\ dropped = {}
      /\ out = <<>> /\ second = <<>>
      /\ hand["egress"] = <<>> /\ hand["process"] = <<>> /\ pc["ingress"] = "read"
  BY DEF DownstreamInit, StagesInit, Stages
<1>3. Range(<<>>) = {} /\ Increasing(<<>>)
  BY RangeSmall
<1>4. Range(Encoded) = {}
  <2>1. Encoded = Cat(Cat(Cat(<<>>, <<>>), <<>>), <<>>)
    BY <1>2, LineShape
  <2>2. Cat(<<>>, <<>>) = <<>>
    BY EmptySeq, CatEmpty
  <2> QED
    BY <1>3, <2>1, <2>2
<1>5. FramesTyped /\ Decodable
  BY <1>2, <1>4, EmptySeq DEF FramesTyped, Decodable, Busy
<1>6. FeedbackOnceInOrder
  BY <1>2, <1>3 DEF FeedbackOnceInOrder
<1> QED
  BY <1>1, <1>5, <1>6 DEF FramesInv

LEMMA FramesNext == FramesInv /\ [DownstreamNext]_vars => FramesInv'
<1> SUFFICES ASSUME FramesInv, [DownstreamNext]_vars
             PROVE  FramesInv'
  OBVIOUS
<1>1. /\ IInv /\ FramesTyped /\ Decodable /\ FeedbackOnceInOrder
      /\ TypeOK /\ Ordered /\ taken \in Nat
  BY BoundAssumption DEF FramesInv, IInv, TypeOK
<1>2. IInv' /\ TypeOK' /\ Ordered'
  <2>1. IInv'
    BY <1>1, DownstreamStep, InductiveNext
  <2> QED
    BY <2>1 DEF IInv
<1>3. Range(applied)' \subseteq dropped' =>
        Range(applied)' \cap Range(Line)' = {}
  BY <1>2 DEF Ordered
<1>4. CASE TakesFrame
  <2>1. PICK f \in Frame :
          /\ TakesFeedback(f) \/ Unwraps(f) \/ FallsBack(f)
          /\ frames' = Append(frames, f)
          /\ applied' = applied
    BY <1>4 DEF TakesFrame
  <2>2. PICK next \in {"send", "apply"} :
          IngressTakes(next) /\ (f.form = "feedback" <=> next = "apply")
    BY <2>1 DEF TakesFeedback, Unwraps, FallsBack
  <2>3. /\ taken' = taken + 1 /\ dropped' = dropped
        /\ pc'["ingress"] = next /\ hand'["ingress"] = <<taken + 1>>
    BY <1>1, <2>2 DEF IngressTakes, Goto, TypeOK, Stages
  <2>4. /\ frames' \in Seq(Frame) /\ Len(frames') = taken + 1
        /\ frames'[taken + 1] = f
        /\ \A n \in 1..taken : frames'[n] = frames[n]
    BY <1>1, <2>1, AppendProperties DEF FramesTyped
  <2>5. /\ bare \subseteq bare' /\ bare' \subseteq bare \cup {taken + 1}
        /\ taken + 1 \in bare' \ bare =>
             f.form = "plain" \/ (f.form = "wrapped" /\ f.age <= MaxWindowDiff)
    BY <2>1 DEF TakesFeedback, Unwraps, FallsBack, Fresh, NextFrame
  <2>6. FramesTyped'
    BY <1>1, <2>1, <2>3, <2>4, <2>5 DEF FramesTyped
  <2>7. Decodable'
    <3>1. Range(Encoded') \subseteq bare
      <4>1. Takes
        BY <2>2 DEF Takes
      <4> QED
        BY <1>1, <1>2, <4>1, EncodedGrows DEF Decodable
    <3>2. \A n \in bare : n \in 1..taken /\ n # taken + 1
      <4>1. taken \in Nat /\ bare \subseteq 1..taken
        BY <1>1 DEF FramesTyped, TypeOK
      <4> QED
        BY <4>1
    <3>3. \A n \in bare' : \/ frames'[n].form = "plain"
                           \/ frames'[n].form = "wrapped" /\ frames'[n].age <= MaxWindowDiff
      BY <1>1, <2>4, <2>5, <3>2 DEF Decodable
    <3> QED
      BY <2>5, <3>1, <3>3 DEF Decodable
  <2>8. FeedbackOnceInOrder'
    <3>1. /\ Increasing(applied') /\ Range(applied') \subseteq dropped'
          /\ Range(applied') = Range(applied)
      BY <1>1, <2>1, <2>3 DEF FeedbackOnceInOrder
    <3>2. taken + 1 \notin Range(applied)
      BY <1>1 DEF FeedbackOnceInOrder, Ordered
    <3>3. pc["ingress"] = "read"
      BY <2>2 DEF IngressTakes
    <3>4. ASSUME NEW n \in 1..taken'
          PROVE  frames'[n].form = "feedback" <=>
                   \/ n \in Range(applied')
                   \/ pc'["ingress"] = "apply" /\ n = taken'
      <4>1. CASE n = taken + 1
        BY <1>1, <2>2, <2>3, <2>4, <3>1, <3>2, <4>1
      <4>2. CASE n \in 1..taken
        <5>1. frames'[n] = frames[n] /\ n # taken'
          BY <1>1, <2>3, <2>4, <4>2
        <5> QED
          BY <1>1, <3>1, <3>3, <4>2, <5>1 DEF FeedbackOnceInOrder
      <4> QED
        BY <1>1, <2>3, <3>4, <4>1, <4>2
    <3> QED
      BY <1>3, <3>1, <3>4 DEF FeedbackOnceInOrder
  <2> QED
    BY <1>2, <2>6, <2>7, <2>8 DEF FramesInv
<1>5. CASE AppliesFeedback
  <2>1. /\ IngressApplies /\ frames' = frames /\ bare' = bare
        /\ applied' = applied \o hand["ingress"]
    BY <1>5 DEF AppliesFeedback
  <2>2. /\ pc["ingress"] = "apply" /\ pc'["ingress"] = "read"
        /\ taken' = taken /\ hand["ingress"] = <<taken>>
        /\ dropped' = dropped \cup Range(hand["ingress"])
    BY <1>1, <2>1 DEF IngressApplies, Goto, TypeOK, Stages, FramesTyped, Busy
  <2>3. Range(<<taken>>) = {taken} /\ Increasing(<<taken>>)
    BY <1>1, RangeSmall
  <2>4. /\ applied \in Seq(Packets) /\ <<taken>> \in Seq(Packets)
        /\ applied' = Cat(applied, <<taken>>)
    BY <1>1, <2>1, <2>2, Pieces DEF FramesTyped, Cat
  <2>5. /\ applied' \in Seq(Packets)
        /\ Range(applied') = Range(applied) \cup {taken}
    BY <2>3, <2>4, CatTyped, CatRange
  <2>6. FramesTyped'
    BY <1>1, <2>1, <2>2, <2>5 DEF FramesTyped, Busy
  <2>7. Decodable'
    <3>1. Range(Encoded') \subseteq bare
      BY <1>1, <1>2, <2>1, EncodedGrows DEF Decodable
    <3> QED
      BY <1>1, <2>1, <3>1 DEF Decodable
  <2>8. FeedbackOnceInOrder'
    <3>1. \A p \in Range(applied) : p < taken
      <4>1. taken \in Range(Line)
        BY <1>1, <2>2, <2>3, LineParts
      <4>2. Range(applied) \subseteq 1..taken /\ taken \notin Range(applied)
        BY <1>1, <4>1 DEF FeedbackOnceInOrder, Ordered
      <4> QED
        BY <1>1, <4>2
    <3>2. Increasing(applied')
      BY <1>1, <2>3, <2>4, <3>1, CatIncreasing DEF FeedbackOnceInOrder
    <3>3. Range(applied') \subseteq dropped'
      BY <1>1, <2>2, <2>3, <2>5 DEF FeedbackOnceInOrder
    <3>4. \A n \in 1..taken' : frames'[n].form = "feedback" <=> n \in Range(applied')
      BY <1>1, <2>1, <2>2, <2>5 DEF FeedbackOnceInOrder
    <3> QED
      BY <1>3, <2>2, <3>2, <3>3, <3>4 DEF FeedbackOnceInOrder
  <2> QED
    BY <1>2, <2>6, <2>7, <2>8 DEF FramesInv
<1>6. CASE ~TakesFrame /\ ~AppliesFeedback
  <2>1. /\ frames' = frames /\ bare' = bare /\ applied' = applied
        /\ Others \/ (ProcessAccepts /\ Head(first) \in bare)
    <3>1. CASE \/ StreamEnds \/ SendsPayload \/ Receives \/ WritesTun \/ Joins \/ Stays
               \/ UNCHANGED vars
      BY <3>1
      DEF StreamEnds, SendsPayload, Receives, WritesTun, Joins, Stays, vars, Others,
          EgressWriting, Terminated
    <3>2. CASE Process
      BY <3>2 DEF Process, Decodes, Others
    <3> QED
      BY <1>6, <3>1, <3>2 DEF DownstreamNext
  <2>2. /\ taken' = taken /\ dropped \subseteq dropped'
        /\ \/ pc'["ingress"] = pc["ingress"] /\ hand'["ingress"] = hand["ingress"]
           \/ pc["ingress"] # "apply" /\ pc'["ingress"] \notin Busy
    BY <1>1, <2>1, OthersLeaveIngress
  <2>3. FramesTyped'
    BY <1>1, <2>1, <2>2 DEF FramesTyped
  <2>4. Decodable'
    <3>1. Range(Encoded') \subseteq bare
      BY <1>1, <1>2, <2>1, EncodedGrows DEF Decodable
    <3> QED
      BY <1>1, <2>1, <3>1 DEF Decodable
  <2>5. FeedbackOnceInOrder'
    <3>1. Increasing(applied') /\ Range(applied') \subseteq dropped'
      BY <1>1, <2>1, <2>2 DEF FeedbackOnceInOrder
    <3>2. pc'["ingress"] = "apply" <=> pc["ingress"] = "apply"
      BY <2>2 DEF Busy
    <3> QED
      BY <1>1, <1>3, <2>1, <2>2, <3>1, <3>2 DEF FeedbackOnceInOrder
  <2> QED
    BY <1>2, <2>3, <2>4, <2>5 DEF FramesInv
<1> QED
  BY <1>4, <1>5, <1>6

(* What is in the pipeline is ordered and hole-free as upstream; past the  *)
(* decoder there is nothing that was feedback or came too late.            *)
THEOREM DownstreamInvariant == DownstreamSpec => []FramesInv
BY FramesInit, FramesNext, PTL DEF DownstreamSpec

(* Each feedback frame is applied once, in the order of arrival, and never *)
(* becomes a packet.                                                       *)
THEOREM DownstreamFeedback == DownstreamSpec => []FeedbackOnceInOrder
<1>1. FramesInv => FeedbackOnceInOrder
  BY DEF FramesInv
<1> QED
  BY <1>1, DownstreamInvariant, PTL

(* A frame that came too late does not get to the TUN device.              *)
THEOREM DownstreamNothingLate == DownstreamSpec => []NothingLateDelivered
<1>1. FramesInv => NothingLateDelivered
  <2> SUFFICES ASSUME FramesInv PROVE NothingLateDelivered
    OBVIOUS
  <2>1. Range(out) \subseteq bare
    BY WireFirst DEF FramesInv, IInv, Ordered, Decodable
  <2> QED
    BY <2>1 DEF FramesInv, Decodable, NothingLateDelivered
<1> QED
  BY <1>1, DownstreamInvariant, PTL

(* A return without a fault has delivered every frame that was neither     *)
(* feedback nor refused.                                                   *)
THEOREM DownstreamCleanReturn == DownstreamSpec => []CleanReturn
BY CleanWhenDone, DownstreamIsStages, StagesInvariant, PTL

(* What was read from the TCP stream and is neither written to the device  *)
(* nor dropped is bounded in the same way.                                 *)
THEOREM DownstreamBoundedLoss == DownstreamSpec => []BoundedLoss
BY BoundedWhenAccounted, DownstreamIsStages, StagesInvariant, PTL

(* Nor does a stage of this pipeline wait for one that waits for it.       *)
THEOREM DownstreamNeverStuck == DownstreamSpec => []NoCircularWait
BY NeverCircular, DownstreamIsStages, StagesInvariant, PTL

(* The TUN device gets the payloads in the order of the frames, each at    *)
(* most once and without a hole except for the feedback and what the       *)
(* engine refused.                                                         *)
THEOREM DownstreamRefinement == DownstreamSpec => ImplementsPrefixFifo
BY DownstreamIsStages, StagesRefine, PTL
===============================================================================
