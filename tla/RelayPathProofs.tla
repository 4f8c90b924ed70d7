---------------------------- MODULE RelayPathProofs ----------------------------
(***************************************************************************)
(* Theorems about RelayPath for every capacity of the queue, every pace    *)
(* and every tolerance of the timestamps.                                  *)
(*                                                                         *)
(* The argument: each leg keeps what PrefixFifo promises of it as an       *)
(* invariant (Leg), and the frames of the second leg stand for packets of  *)
(* the first one in the same order, so the composition of both is again a  *)
(* PrefixFifo.  For the timestamps, what waits in the queue at position i  *)
(* has seen at most Capacity - i reads.                                    *)
(***************************************************************************)
EXTENDS RelayPath, PacketSequenceLemmas

(* What PrefixFifo keeps: of 1..n the packets in s are delivered, in       *)
(* order, those in D are dropped, and what is older than a delivered one   *)
(* is either.                                                              *)
Leg(n, s, D) ==
  /\ s \in Seq(1..n) /\ D \subseteq 1..n
  /\ Increasing(s) /\ Range(s) \cap D = {}
  /\ \A p \in Range(s) : 1..p \subseteq Range(s) \cup D

LEMMA LegEmpty == Leg(0, <<>>, {})
BY RangeSmall DEF Leg

LEMMA LegAccepts ==
  ASSUME NEW n \in Nat, NEW s, NEW D, Leg(n, s, D)
  PROVE  Leg(n + 1, s, D)
<1>1. 1..n \subseteq 1..(n + 1)
  OBVIOUS
<1>2. s \in Seq(1..(n + 1))
  BY <1>1 DEF Leg
<1> QED
  BY <1>1, <1>2 DEF Leg

LEMMA LegDrops ==
  ASSUME NEW n \in Nat, NEW s, NEW D, Leg(n, s, D),
         NEW p \in 1..n, p \notin Range(s) \cup D
  PROVE  Leg(n, s, D \cup {p})
BY DEF Leg

LEMMA LegDelivers ==
  ASSUME NEW n \in Nat, NEW s, NEW D, Leg(n, s, D),
         NEW p \in 1..n, p \notin Range(s) \cup D,
         \A q \in 1..(p - 1) : q \in Range(s) \cup D
  PROVE  Leg(n, Append(s, p), D)
<1>1. /\ s \in Seq(1..n) /\ 1..n \in SUBSET Nat
      /\ Range(s) \subseteq 1..n
  BY RangeOfSeq DEF Leg
<1>2. ASSUME NEW q \in Range(s) PROVE q < p
  <2>1. q \in Nat /\ p \in Nat /\ q # p
    BY <1>1
  <2>2. p \notin 1..q
    BY DEF Leg
  <2> QED
    BY <2>1, <2>2
<1>3. /\ Append(s, p) \in Seq(1..n)
      /\ Range(Append(s, p)) = Range(s) \cup {p}
      /\ Increasing(Append(s, p))
  BY <1>1, <1>2, AppendPacket DEF Leg
<1>4. 1..p \subseteq Range(s) \cup {p} \cup D
  OBVIOUS
<1>5. \A q \in Range(Append(s, p)) : 1..q \subseteq Range(Append(s, p)) \cup D
  BY <1>3, <1>4 DEF Leg
<1> QED
  BY <1>3, <1>5 DEF Leg
-------------------------------------------------------------------------------
(* The invariant, arranged by what the actions change.                     *)
Legs ==
  /\ taken \in Nat /\ arrived \in Nat
  /\ Leg(taken, stamped, unsent) /\ Leg(arrived, sunk, undecoded)
  /\ late \subseteq 1..arrived /\ Range(sunk) \cap late = {}
Waits ==
  /\ waiting \in Seq(0..LateAge) /\ Len(waiting) <= Capacity
  /\ since \in 0..(ReadInterval + 1)
  /\ AgesBounded
Joint ==
  /\ session \in {"handshake", "streaming", "ended"} /\ steady \in BOOLEAN
  /\ Len(stamped) = arrived + Len(waiting)
  /\ NothingBeforeAcceptance
PathInv == Legs /\ Waits /\ Joint /\ NothingLateAtPace

LEMMA PathInvIs == PathInv <=> IInv /\ NothingLateAtPace
<1>1. Legs /\ Waits /\ Joint => IInv
  BY DEF Legs, Waits, Joint, Leg, IInv, TypeOK, LegsOrdered
<1>2. IInv => Legs /\ Waits /\ Joint
  BY DEF Legs, Waits, Joint, Leg, IInv, TypeOK, LegsOrdered
<1> QED
  BY <1>1, <1>2 DEF PathInv

LEMMA PathInit == Init => PathInv
<1> SUFFICES ASSUME Init PROVE PathInv
  OBVIOUS
<1>1. Legs
  BY LegEmpty, RangeSmall DEF Init, Legs
<1>2. Waits
  BY QueueAssumption, AgeAssumption DEF Init, Waits, AgesBounded
<1>3. Joint
  BY DEF Init, Joint, NothingBeforeAcceptance
<1>4. NothingLateAtPace
  BY DEF Init, NothingLateAtPace
<1> QED
  BY <1>1, <1>2, <1>3, <1>4 DEF PathInv

(* A frame that is stamped is the youngest of the queue.                   *)
LEMMA WaitsStamped ==
  ASSUME Waits, Room, waiting' = Append(waiting, 0), UNCHANGED <<since, steady>>
  PROVE  Waits' /\ Len(waiting') = Len(waiting) + 1
<1>1. /\ waiting' \in Seq(0..LateAge) /\ Len(waiting') = Len(waiting) + 1
      /\ Len(waiting) \in Nat
      /\ \A i \in 1..Len(waiting) : waiting'[i] = waiting[i]
      /\ waiting'[Len(waiting) + 1] = 0
  BY AgeAssumption, AppendProperties DEF Waits
<1>2. Len(waiting') <= Capacity
  BY <1>1, QueueAssumption DEF Room
<1>3. AgesBounded'
  <2> SUFFICES ASSUME steady, NEW i \in 1..Len(waiting')
               PROVE  since <= ReadInterval /\ waiting'[i] <= (Capacity - i) * ReadInterval + since
    BY <1>1 DEF AgesBounded
  <2>1. since <= ReadInterval /\ since \in Nat
    BY QueueAssumption DEF Waits, AgesBounded
  <2>2. CASE i \in 1..Len(waiting)
    BY <1>1, <2>1, <2>2 DEF Waits, AgesBounded
  <2>3. CASE i = Len(waiting) + 1
    <3>1. Capacity - i \in Nat
      BY <1>1, <1>2, <2>3, QueueAssumption
    <3>2. (Capacity - i) * ReadInterval \in Nat
      BY <3>1, QueueAssumption
    <3> QED
      BY <1>1, <2>1, <2>3, <3>2
  <2> QED
    BY <1>1, <2>2, <2>3
<1> QED
  BY <1>1, <1>2, <1>3 DEF Waits

(* Time makes every frame older and the next read nearer.                  *)
LEMMA WaitsTicked ==
  ASSUME Waits, Tick, steady \in BOOLEAN
  PROVE  Waits' /\ Len(waiting') = Len(waiting)
<1>1. /\ \A i \in 1..Len(waiting) : waiting[i] \in 0..LateAge
      /\ Len(waiting) \in Nat /\ DOMAIN waiting = 1..Len(waiting)
  BY ElementOfSeq, LenProperties DEF Waits
<1>2. \A i \in 1..Len(waiting) :
        /\ waiting'[i] \in 0..LateAge
        /\ waiting'[i] <= waiting[i] + 1
  BY <1>1, AgeAssumption DEF Tick, Least
<1>3. waiting' \in Seq(0..LateAge) /\ Len(waiting') = Len(waiting)
  <2>1. waiting' = [i \in 1..Len(waiting) |-> Least(waiting[i] + 1, LateAge)]
    BY <1>1 DEF Tick
  <2>2. waiting' \in [1..Len(waiting) -> 0..LateAge]
    BY <1>2, <2>1
  <2> QED
    BY <1>1, <2>1, <2>2
<1>4. since' \in 0..(ReadInterval + 1)
  BY QueueAssumption DEF Waits, Tick, Least
<1>5. AgesBounded'
  <2> SUFFICES ASSUME steady'
               PROVE  /\ since' <= ReadInterval
                      /\ \A i \in 1..Len(waiting) :
                           waiting'[i] <= (Capacity - i) * ReadInterval + since'
    <3>1. DOMAIN waiting' = 1..Len(waiting)
      BY <1>3, LenProperties
    <3> QED
      BY <3>1 DEF AgesBounded
  <2>1. steady /\ since < ReadInterval
    BY DEF Tick
  <2>2. since' = since + 1 /\ since \in Nat
    BY <2>1, QueueAssumption DEF Waits, Tick, Least
  <2>3. ASSUME NEW i \in 1..Len(waiting)
        PROVE  waiting'[i] <= (Capacity - i) * ReadInterval + since'
    <3>1. waiting[i] <= (Capacity - i) * ReadInterval + since
      BY <1>1, <2>1 DEF Waits, AgesBounded
    <3>2. (Capacity - i) * ReadInterval \in Int
      BY <1>1, QueueAssumption
    <3> QED
      BY <1>1, <1>2, <2>2, <3>1, <3>2
  <2> QED
    BY <2>1, <2>2, <2>3, QueueAssumption
<1> QED
  BY <1>3, <1>4, <1>5 DEF Waits

(* A read brings every frame one place forward, and starts the next        *)
(* interval.                                                               *)
LEMMA WaitsRead ==
  ASSUME Waits, waiting # <<>>, waiting' = Tail(waiting), since' = 0, UNCHANGED steady
  PROVE  /\ Waits' /\ Len(waiting') = Len(waiting) - 1
         /\ steady /\ Capacity * ReadInterval <= TimelyAge => waiting[1] <= TimelyAge
<1>1. /\ waiting' \in Seq(0..LateAge) /\ Len(waiting') = Len(waiting) - 1
      /\ Len(waiting) \in Nat /\ Len(waiting) # 0
      /\ \A i \in 1..Len(waiting') : waiting'[i] = waiting[i + 1]
  BY HeadTailProperties, EmptySeq DEF Waits
<1>2. \A i \in 1..Len(waiting) : waiting[i] \in 0..LateAge
  BY ElementOfSeq DEF Waits
<1>3. ASSUME steady, NEW i \in 1..Len(waiting)
      PROVE  waiting[i] <= (Capacity - i) * ReadInterval + ReadInterval
  <2>1. waiting[i] <= (Capacity - i) * ReadInterval + since /\ since <= ReadInterval
    BY <1>1, <1>3 DEF Waits, AgesBounded
  <2>2. (Capacity - i) * ReadInterval \in Int
    BY <1>1, QueueAssumption
  <2> QED
    BY <1>2, <2>1, <2>2, QueueAssumption DEF Waits
<1>4. AgesBounded'
  <2> SUFFICES ASSUME steady, NEW i \in 1..Len(waiting')
               PROVE  waiting'[i] <= (Capacity - i) * ReadInterval
    BY <1>1, QueueAssumption DEF AgesBounded
  <2>1. i + 1 \in 1..Len(waiting) /\ waiting'[i] = waiting[i + 1]
    BY <1>1
  <2>2. waiting[i + 1] <= (Capacity - (i + 1)) * ReadInterval + ReadInterval
    BY <1>3, <2>1
  <2>3. (Capacity - (i + 1)) * ReadInterval + ReadInterval = (Capacity - i) * ReadInterval
    BY <1>1, QueueAssumption
  <2> QED
    BY <2>1, <2>2, <2>3
<1>5. ASSUME steady, Capacity * ReadInterval <= TimelyAge
      PROVE  waiting[1] <= TimelyAge
  <2>1. 1 \in 1..Len(waiting)
    BY <1>1
  <2>2. waiting[1] <= (Capacity - 1) * ReadInterval + ReadInterval
    BY <1>3, <1>5, <2>1
  <2>3. (Capacity - 1) * ReadInterval + ReadInterval = Capacity * ReadInterval
    BY QueueAssumption
  <2>4. Capacity * ReadInterval \in Nat
    BY QueueAssumption
  <2> QED
    BY <1>2, <1>5, <2>1, <2>2, <2>3, <2>4, AgeAssumption
<1>6. Len(waiting') <= Capacity /\ since' \in 0..(ReadInterval + 1)
  BY <1>1, QueueAssumption DEF Waits
<1> QED
  BY <1>1, <1>4, <1>5, <1>6 DEF Waits

(* Either leg takes its steps as PrefixFifo does.                          *)
LEMMA UpSteps ==
  ASSUME Leg(taken, stamped, unsent), taken \in Nat
  PROVE  /\ Up!Accept => Leg(taken', stamped', unsent')
         /\ \A p \in 1..taken :
              Up!Drop(p) \/ Up!Deliver(p) => Leg(taken', stamped', unsent')
<1>1. \A s : Up!Range(s) = Range(s)
  BY DEF Up!Range, Range
<1>2. Up!Accept => Leg(taken', stamped', unsent')
  BY LegAccepts DEF Up!Accept
<1>3. ASSUME NEW p \in 1..taken, Up!Drop(p) PROVE Leg(taken', stamped', unsent')
  BY <1>1, <1>3, LegDrops DEF Up!Drop
<1>4. ASSUME NEW p \in 1..taken, Up!Deliver(p) PROVE Leg(taken', stamped', unsent')
  BY <1>1, <1>4, LegDelivers DEF Up!Deliver
<1> QED
  BY <1>2, <1>3, <1>4

LEMMA DownSteps ==
  ASSUME Leg(arrived, sunk, undecoded), arrived \in Nat
  PROVE  /\ Down!Accept => Leg(arrived', sunk', undecoded')
         /\ \A n \in 1..arrived :
              Down!Drop(n) \/ Down!Deliver(n) => Leg(arrived', sunk', undecoded')
<1>1. \A s : Down!Range(s) = Range(s)
  BY DEF Down!Range, Range
<1>2. Down!Accept => Leg(arrived', sunk', undecoded')
  BY LegAccepts DEF Down!Accept
<1>3. ASSUME NEW n \in 1..arrived, Down!Drop(n) PROVE Leg(arrived', sunk', undecoded')
  BY <1>1, <1>3, LegDrops DEF Down!Drop
<1>4. ASSUME NEW n \in 1..arrived, Down!Deliver(n) PROVE Leg(arrived', sunk', undecoded')
  BY <1>1, <1>4, LegDelivers DEF Down!Deliver
<1> QED
  BY <1>2, <1>3, <1>4

(* What is waiting and not touched stays as it was.                        *)
LEMMA WaitsKept ==
  ASSUME Waits, UNCHANGED queue
  PROVE  Waits'
BY DEF Waits, AgesBounded, queue

LEMMA PathNext == PathInv /\ [Next]_vars => PathInv'
<1> SUFFICES ASSUME PathInv, [Next]_vars PROVE PathInv'
  OBVIOUS
<1>0. /\ Legs /\ Waits /\ Joint /\ NothingLateAtPace
      /\ taken \in Nat /\ arrived \in Nat
      /\ Leg(taken, stamped, unsent) /\ Leg(arrived, sunk, undecoded)
      /\ late \subseteq 1..arrived /\ Range(sunk) \cap late = {}
      /\ session \in {"handshake", "streaming", "ended"} /\ steady \in BOOLEAN
      /\ Len(stamped) = arrived + Len(waiting) /\ NothingBeforeAcceptance
      /\ stamped \in Seq(1..taken) /\ sunk \in Seq(1..arrived)
  BY DEF PathInv, Legs, Joint, Leg
<1>1. CASE ClientTakes
  <2>1. taken' = taken + 1 /\ UNCHANGED <<unsent, stamped>> /\ UNCHANGED <<session, late>>
        /\ UNCHANGED <<arrived, undecoded, sunk>> /\ UNCHANGED queue
    BY <1>1 DEF ClientTakes, Up!Accept, server
  <2>2. Legs'
    BY <1>0, <1>1, <2>1, UpSteps DEF ClientTakes, Legs
  <2>3. Joint' /\ NothingLateAtPace'
    BY <1>0, <2>1 DEF Joint, NothingBeforeAcceptance, NothingLateAtPace, queue
  <2> QED
    BY <1>0, <2>1, <2>2, <2>3, WaitsKept DEF PathInv
<1>2. ASSUME NEW p \in 1..taken, ClientRefuses(p) PROVE PathInv'
  <2>1. UNCHANGED <<taken, stamped>> /\ UNCHANGED <<session, late>>
        /\ UNCHANGED <<arrived, undecoded, sunk>> /\ UNCHANGED queue
    BY <1>2 DEF ClientRefuses, Up!Drop, server
  <2>2. Legs'
    BY <1>0, <1>2, <2>1, UpSteps DEF ClientRefuses, Legs
  <2>3. Joint' /\ NothingLateAtPace'
    BY <1>0, <2>1 DEF Joint, NothingBeforeAcceptance, NothingLateAtPace, queue
  <2> QED
    BY <1>0, <2>1, <2>2, <2>3, WaitsKept DEF PathInv
<1>3. ASSUME NEW p \in 1..taken, ClientStamps(p) PROVE PathInv'
  <2>1. /\ UNCHANGED <<taken, unsent>> /\ UNCHANGED <<session, late>>
        /\ UNCHANGED <<since, steady>> /\ UNCHANGED <<arrived, undecoded, sunk>>
        /\ stamped' = Append(stamped, p) /\ waiting' = Append(waiting, 0) /\ Room
    BY <1>3 DEF ClientStamps, Up!Deliver, server
  <2>2. Legs'
    BY <1>0, <1>3, <2>1, UpSteps DEF ClientStamps, Legs
  <2>3. Waits' /\ Len(waiting') = Len(waiting) + 1
    BY <1>0, <2>1, WaitsStamped
  <2>4. Len(stamped') = Len(stamped) + 1 /\ Len(waiting) \in Nat
    <3>1. Len(Append(stamped, p)) = Len(stamped) + 1
      <4>1. stamped \in Seq(1..taken)
        BY <1>0
      <4> QED
        BY <4>1
    <3> QED
      BY <2>1, <3>1, LenProperties, <1>0 DEF Waits
  <2>5. Joint' /\ NothingLateAtPace'
    <3>1. Len(stamped') = arrived' + Len(waiting')
      BY <1>0, <2>1, <2>3, <2>4
    <3> QED
      BY <1>0, <2>1, <3>1 DEF Joint, NothingBeforeAcceptance, NothingLateAtPace
  <2> QED
    BY <2>2, <2>3, <2>5 DEF PathInv
<1>4. CASE Tick
  <2>1. /\ UNCHANGED <<taken, unsent, stamped>> /\ UNCHANGED <<session, late>>
        /\ UNCHANGED <<arrived, undecoded, sunk>>
        /\ steady' = (steady /\ since < ReadInterval)
    BY <1>4 DEF Tick, client, server
  <2>2. Legs'
    BY <1>0, <2>1 DEF Legs
  <2>3. Waits' /\ Len(waiting') = Len(waiting)
    BY <1>0, <1>4, WaitsTicked
  <2>4. Joint' /\ NothingLateAtPace'
    BY <1>0, <2>1, <2>3 DEF Joint, NothingBeforeAcceptance, NothingLateAtPace
  <2> QED
    BY <2>2, <2>3, <2>4 DEF PathInv
<1>5. CASE SessionAccepted \/ SessionEnds
  <2>1. /\ session' \in {"streaming", "ended"} /\ UNCHANGED <<taken, unsent, stamped>>
        /\ UNCHANGED queue /\ UNCHANGED late /\ UNCHANGED <<arrived, undecoded, sunk>>
    BY <1>5 DEF SessionAccepted, SessionEnds, client, server
  <2>2. Legs'
    BY <1>0, <2>1 DEF Legs
  <2>3. Joint' /\ NothingLateAtPace'
    BY <1>0, <2>1 DEF Joint, NothingBeforeAcceptance, NothingLateAtPace, queue
  <2> QED
    BY <1>0, <2>1, <2>2, <2>3, WaitsKept DEF PathInv
<1>6. CASE ServerReads
  <2>1. /\ UNCHANGED <<taken, unsent, stamped>> /\ UNCHANGED <<session, steady>>
        /\ arrived' = arrived + 1 /\ UNCHANGED <<undecoded, sunk>>
        /\ waiting # <<>> /\ waiting' = Tail(waiting) /\ since' = 0
        /\ session = "streaming"
    BY <1>6 DEF ServerReads, Reading, Down!Accept, client
  <2>2. late' = late \/ (waiting[1] > TimelyAge /\ late' = late \cup {arrived + 1})
    BY <1>6 DEF ServerReads
  <2>3. /\ Waits' /\ Len(waiting') = Len(waiting) - 1
        /\ steady /\ Capacity * ReadInterval <= TimelyAge => waiting[1] <= TimelyAge
    BY <1>0, <2>1, WaitsRead
  <2>4. Legs'
    <3>1. Leg(arrived', sunk', undecoded')
      BY <1>0, <1>6, DownSteps DEF ServerReads
    <3>2. Range(sunk) \subseteq 1..arrived
      <4>1. 1..arrived \in SUBSET Nat /\ sunk \in Seq(1..arrived)
        BY <1>0
      <4> QED
        BY <4>1, RangeOfSeq, Zenon
    <3>3. late' \subseteq 1..arrived' /\ Range(sunk') \cap late' = {}
      <4>1. /\ arrived + 1 \notin 1..arrived /\ arrived + 1 \in 1..(arrived + 1)
            /\ 1..arrived \subseteq 1..(arrived + 1)
        BY <1>0
      <4>2. late' \subseteq late \cup {arrived + 1}
        BY <2>2
      <4> QED
        BY <1>0, <2>1, <3>2, <4>1, <4>2, Zenon
    <3> QED
      BY <1>0, <2>1, <3>1, <3>3 DEF Legs
  <2>5. Joint'
    <3>1. Len(waiting) \in Nat
      BY <1>0, LenProperties DEF Waits
    <3>2. Len(stamped) = arrived + Len(waiting)
      BY <1>0
    <3>3. Len(stamped) = arrived' + Len(waiting')
      BY <1>0, <2>1, <2>3, <3>1, <3>2
    <3>4. Len(stamped') = arrived' + Len(waiting')
      BY <2>1, <3>3, Zenon
    <3> QED
      BY <1>0, <2>1, <3>4 DEF Joint, NothingBeforeAcceptance
  <2>6. NothingLateAtPace'
    <3>1. waiting[1] \in Nat
      <4>1. 1 \in 1..Len(waiting)
        BY <1>0, <2>1, EmptySeq DEF Waits
      <4> QED
        BY <1>0, <4>1, ElementOfSeq, AgeAssumption DEF Waits
    <3>2. steady /\ Capacity * ReadInterval <= TimelyAge => late' = late
      BY <2>2, <2>3, <3>1, AgeAssumption
    <3> QED
      BY <1>0, <2>1, <3>2 DEF NothingLateAtPace
  <2> QED
    BY <2>3, <2>4, <2>5, <2>6 DEF PathInv
<1>7. ASSUME NEW n \in 1..arrived, ServerRefuses(n) PROVE PathInv'
  <2>1. UNCHANGED <<taken, unsent, stamped>> /\ UNCHANGED <<session, late>>
        /\ UNCHANGED queue /\ UNCHANGED <<arrived, sunk>>
    BY <1>7 DEF ServerRefuses, Down!Drop, client
  <2>2. Legs'
    BY <1>0, <1>7, <2>1, DownSteps DEF ServerRefuses, Legs
  <2>3. Joint' /\ NothingLateAtPace'
    BY <1>0, <2>1 DEF Joint, NothingBeforeAcceptance, NothingLateAtPace, queue
  <2> QED
    BY <1>0, <2>1, <2>2, <2>3, WaitsKept DEF PathInv
<1>8. ASSUME NEW n \in 1..arrived, ServerWrites(n) PROVE PathInv'
  <2>1. UNCHANGED <<taken, unsent, stamped>> /\ UNCHANGED <<session, late>>
        /\ UNCHANGED queue /\ UNCHANGED <<arrived, undecoded>>
        /\ sunk' = Append(sunk, n) /\ n \notin late
    BY <1>8 DEF ServerWrites, Down!Deliver, client
  <2>2. Legs'
    <3>1. Range(sunk') = Range(sunk) \cup {n}
      <4>1. 1..arrived \in SUBSET Nat
        BY <1>0
      <4>2. Range(Append(sunk, n)) = Range(sunk) \cup {n}
        BY <1>0, <4>1, AppendPacket
      <4> QED
        BY <2>1, <4>2
    <3>2. Leg(arrived', sunk', undecoded')
      BY <1>0, <1>8, DownSteps DEF ServerWrites
    <3> QED
      BY <1>0, <2>1, <3>1, <3>2 DEF Legs
  <2>3. Joint' /\ NothingLateAtPace'
    BY <1>0, <2>1 DEF Joint, NothingBeforeAcceptance, NothingLateAtPace, queue
  <2> QED
    BY <1>0, <2>1, <2>2, <2>3, WaitsKept DEF PathInv
<1>9. CASE UNCHANGED vars
  <2>1. UNCHANGED <<taken, unsent, stamped>> /\ UNCHANGED <<session, late>>
        /\ UNCHANGED queue /\ UNCHANGED <<arrived, undecoded, sunk>>
    BY <1>9 DEF vars, client, server
  <2>2. Legs' /\ Joint' /\ NothingLateAtPace'
    BY <1>0, <2>1 DEF Legs, Joint, NothingBeforeAcceptance, NothingLateAtPace, queue
  <2> QED
    BY <1>0, <2>1, <2>2, WaitsKept DEF PathInv
<1> QED
  BY <1>1, <1>2, <1>3, <1>4, <1>5, <1>6, <1>7, <1>8, <1>9 DEF Next

LEMMA PathInductive == Spec => []PathInv
BY PathInit, PathNext, PTL DEF Spec

(* Both legs stay ordered and without gaps, nothing is read before the     *)
(* session is accepted, and ages in the queue are bounded by the pace.     *)
THEOREM PathInvariant == Spec => []IInv
<1>1. PathInv => IInv
  BY PathInvIs
<1> QED
  BY <1>1, PathInductive, PTL

(* A queue that is read at a pace at which a full one is emptied within    *)
(* the tolerance of the timestamps loses nothing to them, whatever its     *)
(* capacity, the pace and the tolerance are.                               *)
THEOREM PathNothingLate == Spec => []NothingLateAtPace
<1>1. PathInv => NothingLateAtPace
  BY DEF PathInv
<1> QED
  BY <1>1, PathInductive, PTL
-------------------------------------------------------------------------------
(* Refinement: the two legs together are again a PrefixFifo.               *)

(* A frame that was read carries a packet of its own, which the client     *)
(* took and did not refuse.                                                *)
LEMMA FramesCarry ==
  ASSUME PathInv
  PROVE  /\ \A n \in 1..arrived : /\ stamped[n] \in 1..taken /\ stamped[n] \notin unsent
                                  /\ 1..stamped[n] \subseteq Range(stamped) \cup unsent
         /\ \A m \in 1..Len(stamped), n \in 1..arrived :
              (m < n <=> stamped[m] < stamped[n]) /\ (stamped[m] = stamped[n] => m = n)
<1>1. /\ stamped \in Seq(1..taken) /\ taken \in Nat /\ arrived \in Nat
      /\ Increasing(stamped) /\ Range(stamped) \cap unsent = {}
      /\ \A p \in Range(stamped) : 1..p \subseteq Range(stamped) \cup unsent
      /\ Len(stamped) = arrived + Len(waiting)
  BY DEF PathInv, Legs, Leg, Joint
<1>2. Len(waiting) \in Nat /\ Len(stamped) \in Nat
  BY <1>1, LenProperties DEF PathInv, Waits
<1>3. \A n \in 1..arrived : n \in 1..Len(stamped)
  BY <1>1, <1>2
<1>4. \A n \in 1..Len(stamped) : stamped[n] \in 1..taken /\ stamped[n] \in Range(stamped)
  BY <1>1, ElementOfSeq DEF Range
<1>5. \A n \in 1..arrived : /\ stamped[n] \in 1..taken /\ stamped[n] \notin unsent
                            /\ 1..stamped[n] \subseteq Range(stamped) \cup unsent
  <2> SUFFICES ASSUME NEW n \in 1..arrived
               PROVE  /\ stamped[n] \in 1..taken /\ stamped[n] \notin unsent
                      /\ 1..stamped[n] \subseteq Range(stamped) \cup unsent
    OBVIOUS
  <2> QED
    BY <1>1, <1>3, <1>4, Zenon
<1>6. ASSUME NEW m \in 1..Len(stamped), NEW n \in 1..arrived
      PROVE  (m < n <=> stamped[m] < stamped[n]) /\ (stamped[m] = stamped[n] => m = n)
  <2>1. /\ m \in Nat /\ n \in Nat /\ n \in 1..Len(stamped)
        /\ stamped[m] \in Nat /\ stamped[n] \in Nat
    BY <1>2, <1>3, <1>4
  <2>2. (m < n => stamped[m] < stamped[n]) /\ (n < m => stamped[n] < stamped[m])
    <3>1. 1..taken \in SUBSET Nat
      BY <1>1
    <3>2. \A i, j \in 1..Len(stamped) : i < j => stamped[i] < stamped[j]
      BY <1>1, <3>1, IncreasingPairs, Zenon
    <3> QED
      BY <2>1, <3>2
  <2> QED
    BY <2>1, <2>2
<1> QED
  BY <1>5, <1>6

(* What was relayed are the packets of the frames that were written.       *)
LEMMA RelayedFrames ==
  ASSUME PathInv
  PROVE  /\ Relayed \in Seq(1..taken) /\ Len(Relayed) = Len(sunk)
         /\ \A i \in 1..Len(sunk) : sunk[i] \in 1..arrived /\ Relayed[i] = stamped[sunk[i]]
         /\ Range(Relayed) = PacketsOf(Range(sunk))
<1>1. sunk \in Seq(1..arrived)
  BY DEF PathInv, Legs, Leg
<1>2. Len(sunk) \in Nat /\ \A i \in 1..Len(sunk) : sunk[i] \in 1..arrived
  BY <1>1, ElementOfSeq, LenProperties
<1>3. \A i \in 1..Len(sunk) : stamped[sunk[i]] \in 1..taken
  BY <1>2, FramesCarry
<1>4. Relayed \in Seq(1..taken) /\ Len(Relayed) = Len(sunk)
  BY <1>2, <1>3 DEF Relayed
<1>5. \A i \in 1..Len(sunk) : Relayed[i] = stamped[sunk[i]]
  BY DEF Relayed
<1>6. Range(Relayed) = {stamped[sunk[i]] : i \in 1..Len(sunk)}
  BY <1>4, <1>5 DEF Range
<1> QED
  BY <1>2, <1>4, <1>5, <1>6 DEF Range, PacketsOf

(* A step that changes neither the packets of the frames that were read    *)
(* nor their fates is not seen at the far end.                             *)
LEMMA FarEndKept ==
  ASSUME PathInv, UNCHANGED <<sunk, undecoded>>,
         \A n \in 1..arrived : stamped'[n] = stamped[n]
  PROVE  UNCHANGED <<Relayed, PacketsOf(undecoded)>>
<1>1. \A i \in 1..Len(sunk) : sunk[i] \in 1..arrived
  BY RelayedFrames
<1>2. undecoded \subseteq 1..arrived
  BY DEF PathInv, Legs, Leg
<1>3. Relayed' = Relayed
  BY <1>1 DEF Relayed
<1>4. PacketsOf(undecoded)' = PacketsOf(undecoded)
  BY <1>2 DEF PacketsOf
<1> QED
  BY <1>3, <1>4

(* The packets of a set of frames, and of one frame more.                  *)
LEMMA OneFrameMore ==
  ASSUME NEW F, NEW n
  PROVE  PacketsOf(F \cup {n}) = PacketsOf(F) \cup {stamped[n]}
BY DEF PacketsOf

(* The packet of a frame that is neither written nor refused is settled    *)
(* neither here nor there.                                                 *)
LEMMA NotSettledYet ==
  ASSUME PathInv, NEW n \in 1..arrived, n \notin Range(sunk) \cup undecoded
  PROVE  stamped[n] \notin Range(Relayed) \cup (unsent \cup PacketsOf(undecoded))
<1>1. Range(sunk) \subseteq 1..arrived /\ undecoded \subseteq 1..arrived
  <2>1. sunk \in Seq(1..arrived) /\ undecoded \subseteq 1..arrived /\ arrived \in Nat
    BY DEF PathInv, Legs, Leg
  <2>2. 1..arrived \in SUBSET Nat
    BY <2>1
  <2> QED
    BY <2>1, <2>2, RangeOfSeq
<1>2. \A m \in 1..arrived : stamped[m] = stamped[n] => m = n
  <2>1. Len(stamped) = arrived + Len(waiting) /\ Len(waiting) \in Nat /\ arrived \in Nat
    BY LenProperties DEF PathInv, Legs, Joint, Waits
  <2>2. \A m \in 1..arrived : m \in 1..Len(stamped)
    BY <2>1
  <2> QED
    BY <2>2, FramesCarry
<1>3. stamped[n] \notin PacketsOf(Range(sunk)) /\ stamped[n] \notin PacketsOf(undecoded)
  BY <1>1, <1>2 DEF PacketsOf
<1> QED
  BY <1>3, FramesCarry, RelayedFrames

LEMMA PathStepRefines == PathInv /\ [Next]_vars => [EndToEnd!Next]_EndToEnd!vars
<1> SUFFICES ASSUME PathInv, [Next]_vars PROVE [EndToEnd!Next]_EndToEnd!vars
  OBVIOUS
<1>0. /\ taken \in Nat /\ arrived \in Nat
      /\ Leg(taken, stamped, unsent) /\ Leg(arrived, sunk, undecoded)
      /\ sunk \in Seq(1..arrived) /\ stamped \in Seq(1..taken)
  BY DEF PathInv, Legs, Leg
<1>e. \A s : /\ EndToEnd!Range(s) = Range(s)
             /\ Up!Range(s) = Range(s)
             /\ Down!Range(s) = Range(s)
  BY DEF EndToEnd!Range, Up!Range, Down!Range, Range
<1>1. CASE ClientTakes
  <2>1. taken' = taken + 1 /\ UNCHANGED <<unsent, stamped>> /\ UNCHANGED <<sunk, undecoded>>
    BY <1>1 DEF ClientTakes, Up!Accept, server
  <2>2. UNCHANGED <<Relayed, PacketsOf(undecoded)>>
    BY <2>1, FarEndKept
  <2>3. EndToEnd!Accept
    BY <2>1, <2>2 DEF EndToEnd!Accept
  <2> QED
    BY <2>3 DEF EndToEnd!Next
<1>2. ASSUME NEW p \in 1..taken, ClientRefuses(p) PROVE EndToEnd!Next
  <2>1. /\ UNCHANGED <<taken, stamped>> /\ UNCHANGED <<sunk, undecoded>>
        /\ p \notin Range(stamped) \cup unsent /\ unsent' = unsent \cup {p}
    BY <1>2, <1>e DEF ClientRefuses, Up!Drop, server
  <2>2. UNCHANGED <<Relayed, PacketsOf(undecoded)>>
    BY <2>1, FarEndKept
  <2>3. p \notin Range(Relayed) \cup (unsent \cup PacketsOf(undecoded))
    <3>1. \A n \in 1..arrived : stamped[n] \in Range(stamped)
      <4>1. Len(stamped) = arrived + Len(waiting) /\ Len(waiting) \in Nat
        BY LenProperties DEF PathInv, Joint, Waits
      <4>2. \A n \in 1..arrived : n \in 1..Len(stamped)
        BY <1>0, <4>1
      <4> QED
        BY <4>2 DEF Range
    <3>2. PacketsOf(undecoded) \subseteq Range(stamped)
      BY <1>0, <3>1 DEF Leg, PacketsOf
    <3>3. Range(Relayed) \subseteq Range(stamped)
      <4>1. \A i \in 1..Len(sunk) : stamped[sunk[i]] \in Range(stamped)
        BY <3>1, RelayedFrames
      <4> QED
        BY <4>1, RelayedFrames DEF PacketsOf, Range
    <3> QED
      BY <2>1, <3>2, <3>3
  <2>4. EndToEnd!Drop(p)
    <3>1. (unsent \cup PacketsOf(undecoded))' = (unsent \cup PacketsOf(undecoded)) \cup {p}
      BY <2>1, <2>2
    <3> QED
      BY <1>e, <2>1, <2>2, <2>3, <3>1 DEF EndToEnd!Drop
  <2> QED
    BY <2>4 DEF EndToEnd!Next
<1>3. ASSUME NEW p \in 1..taken, ClientStamps(p) PROVE UNCHANGED EndToEnd!vars
  <2>1. /\ UNCHANGED <<taken, unsent>> /\ UNCHANGED <<sunk, undecoded>>
        /\ stamped' = Append(stamped, p)
    BY <1>3 DEF ClientStamps, Up!Deliver, server
  <2>2. \A n \in 1..arrived : stamped'[n] = stamped[n]
    <3>1. Len(stamped) = arrived + Len(waiting) /\ Len(waiting) \in Nat
      BY LenProperties DEF PathInv, Joint, Waits
    <3>2. \A n \in 1..arrived : n \in 1..Len(stamped)
      BY <1>0, <3>1
    <3>3. \A n \in 1..Len(stamped) : Append(stamped, p)[n] = stamped[n]
      <4>1. stamped \in Seq(1..taken)
        BY <1>0
      <4> QED
        BY <4>1
    <3> QED
      BY <2>1, <3>2, <3>3
  <2> QED
    BY <2>1, <2>2, FarEndKept DEF EndToEnd!vars
<1>4. CASE Tick \/ SessionAccepted \/ SessionEnds \/ ServerReads \/ UNCHANGED vars
  <2>1. UNCHANGED <<taken, unsent, stamped>> /\ UNCHANGED <<sunk, undecoded>>
    BY <1>4 DEF Tick, SessionAccepted, SessionEnds, ServerReads, Down!Accept, vars, client, server
  <2>2. UNCHANGED <<Relayed, PacketsOf(undecoded)>>
    BY <2>1, FarEndKept
  <2> QED
    BY <2>1, <2>2 DEF EndToEnd!vars
<1>5. ASSUME NEW n \in 1..arrived, ServerRefuses(n) PROVE EndToEnd!Next
  <2>1. /\ UNCHANGED <<taken, unsent, stamped>> /\ UNCHANGED sunk
        /\ n \notin Range(sunk) \cup undecoded /\ undecoded' = undecoded \cup {n}
    BY <1>5, <1>e DEF ServerRefuses, Down!Drop, client
  <2>2. stamped[n] \notin Range(Relayed) \cup (unsent \cup PacketsOf(undecoded))
    BY <2>1, NotSettledYet
  <2>3. Relayed' = Relayed
    BY <2>1 DEF Relayed
  <2>4. (unsent \cup PacketsOf(undecoded))' = (unsent \cup PacketsOf(undecoded)) \cup {stamped[n]}
    BY <2>1 DEF PacketsOf
  <2>5. EndToEnd!Drop(stamped[n])
    BY <1>e, <2>1, <2>2, <2>3, <2>4 DEF EndToEnd!Drop
  <2> QED
    BY <2>5, FramesCarry DEF EndToEnd!Next
<1>6. ASSUME NEW n \in 1..arrived, ServerWrites(n) PROVE EndToEnd!Next
  <2>1. /\ UNCHANGED <<taken, unsent, stamped>> /\ UNCHANGED undecoded
        /\ n \notin Range(sunk) \cup undecoded
        /\ \A m \in 1..(n - 1) : m \in Range(sunk) \cup undecoded
        /\ sunk' = Append(sunk, n)
    BY <1>6, <1>e DEF ServerWrites, Down!Deliver, client
  <2>2. stamped[n] \notin Range(Relayed) \cup (unsent \cup PacketsOf(undecoded))
    BY <2>1, NotSettledYet
  <2>3. ASSUME NEW q \in 1..(stamped[n] - 1)
        PROVE  q \in Range(Relayed) \cup (unsent \cup PacketsOf(undecoded))
    <3>1. stamped[n] \in Nat /\ q \in 1..stamped[n] /\ q < stamped[n] /\ n \in Nat
      BY <1>0, FramesCarry
    <3>2. CASE q \in unsent
      BY <3>2
    <3>3. CASE q \in Range(stamped)
      <4>1. PICK m \in 1..Len(stamped) : q = stamped[m]
        BY <3>3 DEF Range
      <4>2. m < n
        BY <3>1, <4>1, FramesCarry
      <4>3. m \in Range(sunk) \cup undecoded
        <5>1. m \in 1..(n - 1)
          BY <1>0, <4>1, <4>2, LenProperties
        <5> QED
          BY <2>1, <5>1
      <4>4. q \in PacketsOf(Range(sunk)) \cup PacketsOf(undecoded)
        BY <4>1, <4>3 DEF PacketsOf
      <4> QED
        BY <4>4, RelayedFrames
    <3> QED
      BY <3>1, <3>2, <3>3, FramesCarry
  <2>4. Relayed' = Append(Relayed, stamped[n])
    <3>1. /\ Relayed \in Seq(1..taken) /\ stamped[n] \in 1..taken
          /\ Len(Relayed) = Len(sunk) /\ Len(sunk) \in Nat
      BY <1>0, FramesCarry, RelayedFrames, LenProperties
    <3> DEFINE more == Append(Relayed, stamped[n])
    <3>2. /\ more \in Seq(1..taken) /\ Len(more) = Len(sunk) + 1
          /\ \A i \in 1..Len(sunk) : more[i] = Relayed[i]
          /\ more[Len(sunk) + 1] = stamped[n]
      <4> DEFINE r == Relayed
                 p == stamped[n]
      <4>1. r \in Seq(1..taken) /\ p \in 1..taken /\ Len(r) = Len(sunk)
        BY <3>1
      <4> HIDE DEF r, p
      <4>2. /\ Append(r, p) \in Seq(1..taken) /\ Len(Append(r, p)) = Len(r) + 1
            /\ \A i \in 1..Len(r) : Append(r, p)[i] = r[i]
            /\ Append(r, p)[Len(r) + 1] = p
        BY <4>1, AppendProperties
      <4> QED
        BY <4>1, <4>2 DEF r, p
    <3>3. /\ Len(sunk') = Len(sunk) + 1
          /\ \A i \in 1..Len(sunk) : sunk'[i] = sunk[i]
          /\ sunk'[Len(sunk) + 1] = n
      BY <1>0, <2>1, AppendProperties
    <3> HIDE DEF more
    <3>4. Relayed' = [i \in 1..(Len(sunk) + 1) |-> stamped[sunk'[i]]]
      BY <2>1, <3>3 DEF Relayed
    <3>5. \A i \in 1..(Len(sunk) + 1) : more[i] = stamped[sunk'[i]]
      <4> SUFFICES ASSUME NEW i \in 1..(Len(sunk) + 1) PROVE more[i] = stamped[sunk'[i]]
        OBVIOUS
      <4>1. i \in 1..Len(sunk) \/ i = Len(sunk) + 1
        BY <3>1
      <4> QED
        BY <3>2, <3>3, <4>1, RelayedFrames
    <3>6. DOMAIN more = 1..(Len(sunk) + 1)
      BY <3>2, LenProperties
    <3>7. more = [i \in DOMAIN more |-> more[i]]
      BY <3>2
    <3> QED
      BY <3>4, <3>5, <3>6, <3>7 DEF more
  <2>5. EndToEnd!Deliver(stamped[n])
    <3>1. UNCHANGED PacketsOf(undecoded)
      BY <2>1 DEF PacketsOf
    <3> QED
      BY <1>e, <2>1, <2>2, <2>3, <2>4, <3>1 DEF EndToEnd!Deliver
  <2> QED
    BY <2>5, FramesCarry DEF EndToEnd!Next
<1> QED
  BY <1>1, <1>2, <1>3, <1>4, <1>5, <1>6 DEF Next

LEMMA PathInitRefines == Init => EndToEnd!Init
<1> SUFFICES ASSUME Init PROVE EndToEnd!Init
  OBVIOUS
<1>1. Relayed = <<>>
  <2>1. Len(sunk) = 0
    BY DEF Init
  <2> QED
    BY <2>1 DEF Relayed
<1>2. unsent \cup PacketsOf(undecoded) = {}
  BY DEF Init, PacketsOf
<1> QED
  BY <1>1, <1>2 DEF Init, EndToEnd!Init

(* The whole path from the client's TUN device to the server's writer is   *)
(* one direction of the relay again: what is written is what was taken,    *)
(* from the first packet, in order, once each, and only what either engine *)
(* refused is missing, whenever the session starts or breaks and however   *)
(* late the frames are.                                                    *)
THEOREM PathRefinement == Spec => ImplementsPrefixFifo
<1>1. PathInv /\ [Next]_vars => [EndToEnd!Next]_EndToEnd!vars
  BY PathStepRefines
<1> QED
  BY <1>1, PathInitRefines, PathInductive, PTL DEF Spec, ImplementsPrefixFifo, EndToEnd!Spec

(* The promise for the whole path.                                         *)
WholeLeg == taken \in Nat /\ Leg(taken, Relayed, unsent \cup PacketsOf(undecoded))

LEMMA WholeLegKept ==
  /\ EndToEnd!Init => WholeLeg
  /\ WholeLeg /\ [EndToEnd!Next]_EndToEnd!vars => WholeLeg'
<1> DEFINE r == Relayed
           D == unsent \cup PacketsOf(undecoded)
<1>1. ASSUME EndToEnd!Init PROVE WholeLeg
  <2>1. taken = 0 /\ r = <<>> /\ D = {}
    BY <1>1 DEF EndToEnd!Init
  <2>2. WholeLeg <=> taken \in Nat /\ Leg(taken, r, D)
    BY DEF WholeLeg
  <2> HIDE DEF r, D
  <2>3. Leg(taken, r, D)
    BY <2>1, LegEmpty, Zenon
  <2> QED
    BY <2>1, <2>2, <2>3
<1>2. ASSUME taken \in Nat, Leg(taken, r, D), [EndToEnd!Next]_EndToEnd!vars
      PROVE  taken' \in Nat /\ Leg(taken', r', D')
  <2>e. \A s : EndToEnd!Range(s) = Range(s)
    BY DEF EndToEnd!Range, Range
  <2>1. CASE EndToEnd!Accept
    <3>1. taken' = taken + 1 /\ r' = r /\ D' = D
      BY <2>1 DEF EndToEnd!Accept
    <3> HIDE DEF r, D
    <3> QED
      BY <1>2, <3>1, LegAccepts
  <2>2. ASSUME NEW p \in 1..taken, EndToEnd!Drop(p)
        PROVE  taken' \in Nat /\ Leg(taken', r', D')
    <3>1. /\ taken' = taken /\ r' = r /\ D' = D \cup {p}
          /\ p \notin Range(r) \cup D
      BY <2>e, <2>2 DEF EndToEnd!Drop
    <3> HIDE DEF r, D
    <3> QED
      BY <1>2, <3>1, LegDrops
  <2>3. ASSUME NEW p \in 1..taken, EndToEnd!Deliver(p)
        PROVE  taken' \in Nat /\ Leg(taken', r', D')
    <3>1. /\ taken' = taken /\ r' = Append(r, p) /\ D' = D
          /\ p \notin Range(r) \cup D
          /\ \A q \in 1..(p - 1) : q \in Range(r) \cup D
      BY <2>e, <2>3 DEF EndToEnd!Deliver
    <3> HIDE DEF r, D
    <3> QED
      BY <1>2, <3>1, LegDelivers
  <2>4. CASE UNCHANGED EndToEnd!vars
    <3>1. taken' = taken /\ r' = r /\ D' = D
      BY <2>4 DEF EndToEnd!vars
    <3> HIDE DEF r, D
    <3> QED
      BY <1>2, <3>1
  <2> QED
    BY <1>2, <2>1, <2>2, <2>3, <2>4 DEF EndToEnd!Next
<1> QED
  BY <1>1, <1>2 DEF WholeLeg

(* In one formula: at any time the packets written increase, so none is    *)
(* repeated or overtaken, and every packet older than a written one is     *)
(* written or was refused by one of the engines.                           *)
THEOREM PathDelivers ==
  Spec => []Leg(taken, Relayed, unsent \cup PacketsOf(undecoded))
<1>1. WholeLeg => Leg(taken, Relayed, unsent \cup PacketsOf(undecoded))
  BY DEF WholeLeg
<1> QED
  BY <1>1, WholeLegKept, PathRefinement, PTL DEF ImplementsPrefixFifo, EndToEnd!Spec
===============================================================================
