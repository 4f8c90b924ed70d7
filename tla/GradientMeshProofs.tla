-------------------------- MODULE GradientMeshProofs --------------------------
(***************************************************************************)
(* Theorems about GradientMesh for any nodes, any loss weights, any        *)
(* learning rate and any measurements.                                     *)
(***************************************************************************)
EXTENDS GradientMesh, TLAPS

LEMMA Quotient ==
  ASSUME NEW x \in Int, NEW y \in Nat \ {0}
  PROVE  x \div y \in Int /\ Truncated(x, y) \in Int
BY DEF Truncated

LEMMA FitsU16 ==
  ASSUME NEW x \in Int
  PROVE  Clamp(x, 0, MaxU16) \in U16
<1>1. ASSUME NEW hi \in Nat PROVE Clamp(x, 0, hi) \in 0..hi
  BY DEF Clamp
<1>2. MaxU16 \in Nat
  BY SMT DEF MaxU16
<1> QED
  BY <1>1, <1>2 DEF U16

LEMMA FieldIsU16 ==
  ASSUME NEW x \in Int
  PROVE  ToField(x) \in U16
<1>1. PICK width \in Nat \ {0} : width = 65536
  BY SMT
<1>2. x % width \in 0..(width - 1)
  BY SMT
<1>3. ToField(x) = x % width
  BY <1>1, SMT DEF ToField
<1>4. U16 = 0..(width - 1)
  BY <1>1, SMT DEF U16, MaxU16
<1> QED
  BY <1>2, <1>3, <1>4, Zenon

LEMMA FieldIsSigned ==
  ASSUME NEW u \in U16
  PROVE  FromField(u) \in Int
<1>1. u \in Int
  BY SMT DEF U16, MaxU16
<1> QED
  BY <1>1, SMT DEF FromField

(* The fields of a packet have their widths, whatever was measured.        *)
LEMMA PacketTyped ==
  ASSUME NEW id \in Nodes, NEW rank \in Ratios, NEW queue \in Ratios
  PROVE  Packet(id, rank, queue) \in PacketType
<1> DEFINE defect == 1000 - Clamp(rank, 0, 1000)
           pressure == Clamp(queue, 0, 1000)
<1>1. defect \in Int /\ pressure \in 0..1000
  <2>1. rank \in Int /\ queue \in Int
    BY RatiosAssumption
  <2>2. Clamp(rank, 0, 1000) \in 0..1000 /\ Clamp(queue, 0, 1000) \in 0..1000
    BY <2>1 DEF Clamp
  <2> QED
    BY <2>2
<1> HIDE DEF defect, pressure
<1>2. ToField(LossGradient(defect, pressure)) \in U16
  <2>1. Alpha * defect \in Int /\ Beta * pressure \in Int
    BY <1>1, RateAssumption
  <2>2. Beta * pressure - 2 * Alpha * defect \in Int
    BY <1>1, <2>1, RateAssumption
  <2>3. PICK gradient \in Int :
          gradient = Truncated(Beta * pressure - 2 * Alpha * defect, 1000)
    BY <2>2, Quotient
  <2>4. PICK clamped \in Int : clamped = Clamp(gradient, -32768, 32767)
    BY <2>3, SMT DEF Clamp
  <2>5. LossGradient(defect, pressure) = clamped
    BY <2>3, <2>4 DEF LossGradient
  <2> QED
    BY <2>5, FieldIsU16, Zenon
<1>3. Loss(defect, pressure) \in U16
  <2>1. Alpha * defect * defect + 1000 * Beta * pressure \in Int
    <3>1. Alpha * defect \in Int /\ 1000 * Beta \in Int /\ pressure \in Int
      BY <1>1, RateAssumption
    <3>2. Alpha * defect * defect \in Int /\ 1000 * Beta * pressure \in Int
      BY <1>1, <3>1
    <3> QED
      BY <3>2
  <2>2. LossInThousandths(defect, pressure) \in Int
    BY <2>1, Quotient, SMT DEF LossInThousandths
  <2> QED
    BY <2>2, FitsU16 DEF Loss
<1> QED
  BY <1>1, <1>2, <1>3 DEF Packet, PacketType, defect, pressure

LEMMA PeerMoved ==
  ASSUME NEW peer \in Peer, NEW gradient \in Int, NEW pressure \in 0..1000,
         NEW loss \in U16
  PROVE  [addr |-> peer.addr, weight |-> Moved(peer.weight, gradient), loss |-> loss,
          redundancy |-> Adjusted(peer.redundancy, gradient, pressure)] \in Peer
<1>1. MinWeight \in Int /\ MaxWeight \in Int /\ MinWeight <= MaxWeight
  BY RateAssumption DEF MinWeight, MaxWeight
<1>2. /\ peer.addr \in Addrs /\ peer.weight \in MinWeight..MaxWeight
      /\ peer.redundancy \in 1000..2000
  BY DEF Peer
<1>3. Moved(peer.weight, gradient) \in MinWeight..MaxWeight
  <2>1. Step * gradient \in Int
    BY RateAssumption
  <2>2. peer.weight - Step * gradient \in Int
    BY <1>1, <1>2, <2>1
  <2> QED
    BY <1>1, <2>2 DEF Moved, Clamp
<1>4. Adjusted(peer.redundancy, gradient, pressure) \in 1000..2000
  <2>1. PICK less \in Int : less = (peer.redundancy * 95) \div 100
    BY <1>2
  <2>2. PICK more \in Int : more = peer.redundancy + 50
    BY <1>2
  <2>3. Clamp(less, 1000, 2000) \in 1000..2000 /\ Clamp(more, 1000, 2000) \in 1000..2000
    BY DEF Clamp
  <2>4. Adjusted(peer.redundancy, gradient, pressure)
          \in {Clamp(less, 1000, 2000), Clamp(more, 1000, 2000), peer.redundancy}
    BY <2>1, <2>2 DEF Adjusted
  <2> QED
    BY <1>2, <2>3, <2>4
<1> QED
  BY <1>2, <1>3, <1>4 DEF Peer

LEMMA FreshPeerTyped ==
  ASSUME NEW a \in Addrs
  PROVE  FreshPeer(a) \in Peer
BY RateAssumption, SMT DEF FreshPeer, Peer, MinWeight, MaxWeight, U16, MaxU16

LEMMA TypeInit == Init => TypeOK
BY BoundAssumption DEF Init, TypeOK

LEMMA TypeNext == TypeOK /\ [Next]_vars => TypeOK'
<1> SUFFICES ASSUME TypeOK, [Next]_vars PROVE TypeOK'
  OBVIOUS
<1>0. /\ peers \in [Nodes -> Peer \cup {NoPeer}]
      /\ link \in [Links -> Seq(PacketType)]
  BY DEF TypeOK
<1>1. CASE select_best_forward_peer
  <2>1. choice' \in Nodes \cup {NoChoice}
    BY <1>1 DEF select_best_forward_peer
  <2> QED
    BY <1>1, <2>1 DEF select_best_forward_peer, TypeOK
<1>2. ASSUME NEW n \in Nodes, NEW a \in Addrs, register_peer(n, a) PROVE TypeOK'
  <2>1. peers' \in [Nodes -> Peer \cup {NoPeer}]
    BY <1>0, <1>2, FreshPeerTyped DEF register_peer
  <2> QED
    BY <1>2, <2>1 DEF register_peer, TypeOK
<1>3. ASSUME NEW n \in Nodes, unregister_peer(n) PROVE TypeOK'
  BY <1>3 DEF unregister_peer, TypeOK
<1>4. ASSUME NEW l \in Links, NEW rank \in Ratios, NEW queue \in Ratios, Reports(l, rank, queue)
      PROVE  TypeOK'
  <2>1. IdOf[l] \in Nodes
    BY IdsAssumption
  <2>2. Append(link[l], Packet(IdOf[l], rank, queue)) \in Seq(PacketType)
    BY <1>0, <2>1, PacketTyped
  <2>3. link' \in [Links -> Seq(PacketType)]
    BY <1>0, <1>4, <2>2 DEF Reports
  <2>4. reports' \in 0..MaxReports
    BY <1>4, BoundAssumption DEF Reports, TypeOK
  <2> QED
    BY <1>4, <2>3, <2>4 DEF Reports, TypeOK
<1>5. ASSUME NEW l \in Links, apply_gradient_feedback(l) PROVE TypeOK'
  <2> DEFINE packet == Head(link[l])
             n == packet.node_id
             gradient == FromField(packet.gradient)
  <2>1. packet \in PacketType /\ Tail(link[l]) \in Seq(PacketType)
    BY <1>0, <1>5 DEF apply_gradient_feedback
  <2>2. /\ n \in Nodes /\ gradient \in Int
        /\ packet.queue_pressure \in 0..1000 /\ packet.reserved \in U16
    <3>1. /\ packet.gradient \in U16 /\ packet.node_id \in Nodes
          /\ packet.queue_pressure \in 0..1000 /\ packet.reserved \in U16
      BY <2>1 DEF PacketType
    <3>2. FromField(packet.gradient) \in Int
      BY <3>1, FieldIsSigned
    <3>3. gradient = FromField(packet.gradient) /\ n = packet.node_id
      OBVIOUS
    <3> HIDE DEF packet, gradient, n
    <3> QED
      BY <3>1, <3>2, <3>3
  <2>3. link' \in [Links -> Seq(PacketType)]
    BY <1>0, <1>5, <2>1 DEF apply_gradient_feedback
  <2>4. peers' = [peers EXCEPT ![n] =
                    IF Registered(n)
                    THEN [addr |-> peers[n].addr,
                          weight |-> Moved(peers[n].weight, gradient),
                          loss |-> packet.reserved,
                          redundancy |-> Adjusted(peers[n].redundancy, gradient,
                                                  packet.queue_pressure)]
                    ELSE peers[n]]
    BY <1>5 DEF apply_gradient_feedback
  <2> HIDE DEF packet, gradient, n
  <2>5. CASE Registered(n)
    <3>1. peers[n] \in Peer
      BY <1>0, <2>2, <2>5 DEF Registered
    <3>2. peers' \in [Nodes -> Peer \cup {NoPeer}]
      BY <1>0, <2>2, <2>4, <2>5, <3>1, PeerMoved
    <3> QED
      BY <1>5, <2>3, <3>2 DEF apply_gradient_feedback, TypeOK
  <2>6. CASE ~Registered(n)
    <3>1. peers' \in [Nodes -> Peer \cup {NoPeer}]
      BY <1>0, <2>4, <2>6
    <3> QED
      BY <1>5, <2>3, <3>1 DEF apply_gradient_feedback, TypeOK
  <2> QED
    BY <2>5, <2>6
<1>6. CASE UNCHANGED vars
  BY <1>6 DEF vars, TypeOK
<1> QED
  BY <1>1, <1>2, <1>3, <1>4, <1>5, <1>6 DEF Next

(* Weights stay within [0.05, 5.0] and redundancies within [1.0, 2.0] for  *)
(* every learning rate and every measurement, and every field of a packet  *)
(* fits its width.                                                         *)
THEOREM TypeCorrect == Spec => []TypeOK
<1> QED
  BY TypeInit, TypeNext, PTL DEF Spec

-------------------------------------------------------------------------------
(* Every packet under way is one that was made from a measurement.         *)
Measured == {Packet(id, rank, queue) : id \in Nodes, rank \in Ratios, queue \in Ratios}
LinkMeasured == link \in [Links -> Seq(Measured)]

LEMMA MeasuredInit == Init => LinkMeasured
BY DEF Init, LinkMeasured

LEMMA MeasuredNext == LinkMeasured /\ [Next]_vars => LinkMeasured'
<1> SUFFICES ASSUME LinkMeasured, [Next]_vars PROVE LinkMeasured'
  OBVIOUS
<1>0. link \in [Links -> Seq(Measured)]
  BY DEF LinkMeasured
<1>1. ASSUME NEW l \in Links, NEW rank \in Ratios, NEW queue \in Ratios, Reports(l, rank, queue)
      PROVE  LinkMeasured'
  <2>1. Packet(IdOf[l], rank, queue) \in Measured
    BY IdsAssumption DEF Measured
  <2>2. Append(link[l], Packet(IdOf[l], rank, queue)) \in Seq(Measured)
    BY <1>0, <2>1
  <2> QED
    BY <1>0, <1>1, <2>2 DEF Reports, LinkMeasured
<1>2. ASSUME NEW l \in Links, apply_gradient_feedback(l) PROVE LinkMeasured'
  <2>1. Tail(link[l]) \in Seq(Measured)
    BY <1>0, <1>2 DEF apply_gradient_feedback
  <2> QED
    BY <1>0, <1>2, <2>1 DEF apply_gradient_feedback, LinkMeasured
<1>3. ASSUME UNCHANGED link PROVE LinkMeasured'
  BY <1>3 DEF LinkMeasured
<1>4. CASE select_best_forward_peer
  BY <1>3, <1>4 DEF select_best_forward_peer
<1>5. ASSUME NEW n \in Nodes, NEW a \in Addrs, register_peer(n, a) PROVE LinkMeasured'
  BY <1>3, <1>5 DEF register_peer
<1>6. ASSUME NEW n \in Nodes, unregister_peer(n) PROVE LinkMeasured'
  BY <1>3, <1>6 DEF unregister_peer
<1>7. CASE UNCHANGED vars
  BY <1>3, <1>7 DEF vars
<1> QED
  BY <1>1, <1>2, <1>4, <1>5, <1>6, <1>7 DEF Next

(* The unsigned field of the packet carries a signed 16-bit number.        *)
LEMMA FieldRestores ==
  ASSUME NEW x \in Int, -32768 <= x, x <= 32767
  PROVE  FromField(ToField(x)) = x
<1>1. x % 65536 = IF x >= 0 THEN x ELSE x + 65536
  BY SMT
<1> QED
  BY <1>1, SMT DEF FromField, ToField

(* What the upstream reads out of a packet has the sign that was measured. *)
LEMMA SignCarried ==
  ASSUME NEW packet \in Measured
  PROVE  /\ FromField(packet.gradient) \in Int
         /\ packet.queue_pressure = Pressure(packet)
         /\ Pressure(packet) \in 0..1000
         /\ DefectDominates(packet) => FromField(packet.gradient) <= 0
         /\ ~DefectDominates(packet) => FromField(packet.gradient) >= 0
<1>1. PICK id \in Nodes, rank \in Ratios, queue \in Ratios : packet = Packet(id, rank, queue)
  BY DEF Measured
<1> DEFINE defect == 1000 - Clamp(rank, 0, 1000)
           pressure == Clamp(queue, 0, 1000)
           raw == Beta * pressure - 2 * Alpha * defect
<1>2. /\ packet.gradient = ToField(LossGradient(defect, pressure))
      /\ packet.queue_pressure = pressure
      /\ packet.queue = queue /\ packet.rank = rank
  BY <1>1 DEF Packet
<1>3. Defect(packet) = defect /\ Pressure(packet) = pressure
  BY <1>2 DEF Defect, Pressure
<1>4. defect \in Int /\ pressure \in 0..1000
  <2>1. rank \in Int /\ queue \in Int
    BY RatiosAssumption
  <2>2. Clamp(rank, 0, 1000) \in 0..1000 /\ Clamp(queue, 0, 1000) \in 0..1000
    BY <2>1 DEF Clamp
  <2> QED
    BY <2>2
<1>5. /\ raw \in Int
      /\ DefectDominates(packet) <=> raw < 0
  <2> HIDE DEF defect, pressure
  <2>1. Alpha * defect \in Int /\ Beta * pressure \in Int
    BY <1>4, RateAssumption
  <2>2. 2 * Alpha * defect \in Int
    BY <1>4, RateAssumption
  <2> QED
    BY <1>3, <2>1, <2>2 DEF DefectDominates
<1> HIDE DEF defect, pressure, raw
<1>6. PICK gradient \in Int :
        gradient = Truncated(raw, 1000) /\ (raw < 0 => gradient <= 0) /\ (raw >= 0 => gradient >= 0)
  <2>1. CASE raw >= 0
    <3>1. raw \div 1000 \in Nat
      BY <1>5, <2>1
    <3> QED
      BY <1>5, <2>1, <3>1 DEF Truncated
  <2>2. CASE raw < 0
    <3>1. (-raw) \div 1000 \in Nat
      BY <1>5, <2>2
    <3> QED
      BY <1>5, <2>2, <3>1 DEF Truncated
  <2> QED
    BY <1>5, <2>1, <2>2
<1>7. PICK clamped \in Int :
        clamped = Clamp(gradient, -32768, 32767) /\ -32768 <= clamped /\ clamped <= 32767
        /\ (gradient <= 0 => clamped <= 0) /\ (gradient >= 0 => clamped >= 0)
  BY SMT DEF Clamp
<1>8. LossGradient(defect, pressure) = clamped
  BY <1>6, <1>7 DEF LossGradient, raw
<1>9. FromField(packet.gradient) = clamped
  BY <1>2, <1>7, <1>8, FieldRestores
<1>10. /\ DefectDominates(packet) => clamped <= 0
       /\ ~DefectDominates(packet) => clamped >= 0
  <2>1. (raw < 0 => gradient <= 0) /\ (raw >= 0 => gradient >= 0)
    BY <1>6
  <2>2. (gradient <= 0 => clamped <= 0) /\ (gradient >= 0 => clamped >= 0)
    BY <1>7
  <2>3. CASE DefectDominates(packet)
    BY <1>5, <2>1, <2>2, <2>3
  <2>4. CASE ~DefectDominates(packet)
    BY <1>5, <2>1, <2>2, <2>4
  <2> QED
    BY <2>3, <2>4
<1> QED
  BY <1>2, <1>3, <1>4, <1>7, <1>9, <1>10

(* Taking a packet off a link is no other change of it.                    *)
LEMMA TailDiffers ==
  ASSUME NEW S, NEW s \in Seq(S), s # <<>>
  PROVE  Head(s) \in S /\ Tail(s) # s /\ \A x \in S : Tail(s) # Append(s, x)
<1> DEFINE rest == Tail(s)
           more(x) == Append(s, x)
<1>1. Head(s) \in S /\ Len(rest) = Len(s) - 1 /\ Len(s) \in Nat
  OBVIOUS
<1>2. \A x \in S : Len(more(x)) = Len(s) + 1
  OBVIOUS
<1> HIDE DEF rest, more
<1>3. rest # s /\ \A x \in S : rest # more(x)
  BY <1>1, <1>2
<1> QED
  BY <1>1, <1>3 DEF rest, more

(* 95 of 100 parts are no more than all of them.                           *)
LEMMA Share ==
  ASSUME NEW whole \in Nat
  PROVE  (whole * 95) \div 100 \in Int /\ (whole * 95) \div 100 <= whole
<1> DEFINE part == (whole * 95) \div 100
<1>1. part \in Int /\ 100 * part <= whole * 95
  BY SMT
<1> HIDE DEF part
<1>2. part <= whole
  BY <1>1, SMT
<1> QED
  BY <1>1, <1>2 DEF part

(* One update of a registered peer moves it the way the sign says.         *)
LEMMA UpdateDirection ==
  ASSUME NEW peer \in Peer, NEW gradient \in Int, NEW pressure \in 0..1000
  PROVE  /\ pressure > 800 => Adjusted(peer.redundancy, gradient, pressure) <= peer.redundancy
         /\ gradient <= 0 => /\ Moved(peer.weight, gradient) >= peer.weight
                             /\ pressure <= 800 =>
                                  Adjusted(peer.redundancy, gradient, pressure) >= peer.redundancy
         /\ gradient >= 0 =>
              /\ Moved(peer.weight, gradient) <= peer.weight
              /\ Adjusted(peer.redundancy, gradient, pressure) <= peer.redundancy
<1>1. MinWeight \in Int /\ MaxWeight \in Int
  BY RateAssumption DEF MinWeight, MaxWeight
<1>2. peer.weight \in MinWeight..MaxWeight /\ peer.redundancy \in 1000..2000
  BY DEF Peer
<1>3. ASSUME pressure > 800
      PROVE  Adjusted(peer.redundancy, gradient, pressure) <= peer.redundancy
  <2>0. peer.redundancy \in Nat
    BY <1>2
  <2>1. PICK less \in Int : less = (peer.redundancy * 95) \div 100 /\ less <= peer.redundancy
    BY <2>0, Share, Zenon
  <2>2. Adjusted(peer.redundancy, gradient, pressure) = Clamp(less, 1000, 2000)
    BY <1>3, <2>1 DEF Adjusted
  <2> QED
    BY <1>2, <2>1, <2>2 DEF Clamp
<1>4. ASSUME gradient <= 0
      PROVE  Moved(peer.weight, gradient) >= peer.weight
  <2>1. Step * gradient \in Int /\ Step * gradient <= 0
    BY <1>4, RateAssumption
  <2>2. PICK moved \in Int : moved = peer.weight - Step * gradient /\ moved >= peer.weight
    BY <1>1, <1>2, <2>1
  <2> QED
    BY <1>1, <1>2, <2>2 DEF Moved, Clamp
<1>5. ASSUME gradient <= 0, pressure <= 800
      PROVE  Adjusted(peer.redundancy, gradient, pressure) >= peer.redundancy
  BY <1>2, <1>5 DEF Adjusted, Clamp
<1>6. ASSUME gradient >= 0
      PROVE  Moved(peer.weight, gradient) <= peer.weight
  <2>1. Step * gradient \in Int /\ Step * gradient >= 0
    BY <1>6, RateAssumption
  <2>2. PICK moved \in Int : moved = peer.weight - Step * gradient /\ moved <= peer.weight
    BY <1>1, <1>2, <2>1
  <2> QED
    BY <1>1, <1>2, <2>2 DEF Moved, Clamp
<1>7. ASSUME gradient >= 0, ~(pressure > 800)
      PROVE  Adjusted(peer.redundancy, gradient, pressure) <= peer.redundancy
  BY <1>2, <1>7 DEF Adjusted
<1> QED
  BY <1>3, <1>4, <1>5, <1>6, <1>7

(* A measurement keeps its sign through the unsigned field of the packet   *)
(* and the clamped update, whichever client of a name sent it: a full      *)
(* queue never raises the redundancy, a dominating rank defect never       *)
(* lowers it or the weight, and any other measurement raises neither.      *)
THEOREM FeedbackSign == Spec => FeedbackKeepsItsSign
<1>1. TypeOK /\ LinkMeasured /\ [Next]_vars =>
        [\A l \in Links :
           LET packet == Head(link[l])
               n == packet.node_id
           IN link[l] # <<>> /\ link'[l] = Tail(link[l]) /\ Registered(n)
                => MovesAsMeasured(packet, peers[n], peers'[n])]_vars
  <2> SUFFICES ASSUME TypeOK, LinkMeasured, Next, NEW l \in Links,
                      link[l] # <<>>, link'[l] = Tail(link[l]),
                      Registered(Head(link[l]).node_id)
               PROVE  MovesAsMeasured(Head(link[l]), peers[Head(link[l]).node_id],
                                      peers'[Head(link[l]).node_id])
    OBVIOUS
  <2> DEFINE packet == Head(link[l])
             n == packet.node_id
             gradient == FromField(packet.gradient)
  <2>0. /\ peers \in [Nodes -> Peer \cup {NoPeer}]
        /\ link \in [Links -> Seq(Measured)] /\ link \in [Links -> Seq(PacketType)]
    BY DEF TypeOK, LinkMeasured
  <2>1. packet \in Measured /\ link'[l] # link[l]
    BY <2>0, TailDiffers
  <2>2. apply_gradient_feedback(l)
    <3>1. ~select_best_forward_peer
      BY <2>1 DEF select_best_forward_peer
    <3>2. \A m \in Nodes : ~unregister_peer(m) /\ \A a \in Addrs : ~register_peer(m, a)
      BY <2>1 DEF unregister_peer, register_peer
    <3>3. ASSUME NEW m \in Links, NEW rank \in Ratios, NEW queue \in Ratios,
                 Reports(m, rank, queue)
          PROVE  FALSE
      <4>1. m = l
        BY <2>0, <2>1, <3>3 DEF Reports
      <4>2. link'[l] = Append(link[l], Packet(IdOf[l], rank, queue))
        BY <2>0, <3>3, <4>1 DEF Reports
      <4>3. Packet(IdOf[l], rank, queue) \in Measured
        BY IdsAssumption DEF Measured
      <4> QED
        BY <2>0, <4>2, <4>3, TailDiffers
    <3>4. ASSUME NEW m \in Links, apply_gradient_feedback(m) PROVE m = l
      BY <2>0, <2>1, <3>4 DEF apply_gradient_feedback
    <3> QED
      BY <3>1, <3>2, <3>3, <3>4 DEF Next
  <2>3. n \in Nodes
    <3>1. packet \in PacketType
      BY <2>0
    <3> QED
      BY <3>1 DEF PacketType
  <2>4. /\ peers'[n].weight = Moved(peers[n].weight, gradient)
        /\ peers'[n].redundancy = Adjusted(peers[n].redundancy, gradient, packet.queue_pressure)
    BY <2>0, <2>2, <2>3 DEF apply_gradient_feedback
  <2>5. Registered(n)
    OBVIOUS
  <2> HIDE DEF packet
  <2>6. /\ gradient \in Int
        /\ packet.queue_pressure = Pressure(packet) /\ Pressure(packet) \in 0..1000
        /\ DefectDominates(packet) => gradient <= 0
        /\ ~DefectDominates(packet) => gradient >= 0
    BY <2>1, SignCarried
  <2> HIDE DEF gradient, n
  <2>7. peers[n] \in Peer
    BY <2>0, <2>3, <2>5 DEF Registered
  <2>8. /\ Pressure(packet) > 800 =>
             Adjusted(peers[n].redundancy, gradient, Pressure(packet)) <= peers[n].redundancy
        /\ gradient <= 0 =>
             /\ Moved(peers[n].weight, gradient) >= peers[n].weight
             /\ Pressure(packet) <= 800 =>
                  Adjusted(peers[n].redundancy, gradient, Pressure(packet))
                    >= peers[n].redundancy
        /\ gradient >= 0 =>
             /\ Moved(peers[n].weight, gradient) <= peers[n].weight
             /\ Adjusted(peers[n].redundancy, gradient, Pressure(packet))
                  <= peers[n].redundancy
    BY <2>6, <2>7, UpdateDirection
  <2>9. MovesAsMeasured(packet, peers[n], peers'[n])
    BY <2>4, <2>6, <2>8 DEF MovesAsMeasured
  <2> QED
    BY <2>9 DEF packet, n
<1>2. Spec => []LinkMeasured
  BY MeasuredInit, MeasuredNext, PTL DEF Spec
<1> QED
  BY <1>1, <1>2, TypeCorrect, PTL DEF Spec, FeedbackKeepsItsSign
===============================================================================
