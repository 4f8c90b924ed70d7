----------------------------- MODULE GradientMesh -----------------------------
(***************************************************************************)
(* GradientMeshEngine (src/src/pipeline/gradient_mesh.rs).  A downstream   *)
(* node reports how well it decodes (rank) and how full its queue is in an *)
(* 8-byte packet; the upstream engine adjusts the weight and the           *)
(* redundancy of the peer that the packet names and forwards to the peer   *)
(* of greatest weight.  A packet names its sender itself, and nothing ties *)
(* that name to the connection it comes on: the clients of one server all  *)
(* call themselves 1001 (main.rs:241, 303).                                *)
(* Every operation holds the lock of the peer table from its first line to *)
(* its last, so each is one step.                                          *)
(*                                                                         *)
(* Reals become integers: ratios, gradients, losses and redundancies are   *)
(* thousandths, as in the packet; a weight is counted in units of          *)
(* 1/(1000 * WeightUnit), so that the learning rate Step/WeightUnit gives  *)
(* exact weights (the code: 0.05 = 1/20).  Rounding of f32 is left out.    *)
(***************************************************************************)
EXTENDS Integers, Sequences

CONSTANTS
  Nodes, Addrs, NoPeer, NoChoice,
  Links,               \* the connections that packets come on
  IdOf,                \* local_node_id of the engine at the other end of each
  Alpha, Beta,         \* weights of the two losses, in thousandths
  Step, WeightUnit,    \* the learning rate is Step / WeightUnit
  Ratios,              \* the rank ratios and queue pressures that are reported
  MaxInFlight,         \* bound of the model: packets under way on one link
  MaxReports           \* bound of the model: packets sent at all

ASSUME NodesAssumption == /\ \A n \in Nodes : n # NoChoice
                          /\ NoPeer \notin [addr : Addrs, weight : Int, loss : Int, redundancy : Int]
ASSUME IdsAssumption == IdOf \in [Links -> Nodes]
ASSUME RateAssumption == Alpha \in Nat /\ Beta \in Nat /\ Step \in Nat /\ WeightUnit \in Nat \ {0}
ASSUME RatiosAssumption == Ratios \subseteq Int
ASSUME BoundAssumption == MaxInFlight \in Nat /\ MaxReports \in Nat

VARIABLES
  peers,      \* the peer table: peers[n], NoPeer for a node that is not in it
  link,       \* link[l]: packets under way on l, in TCP order
  choice,     \* what select_best_forward_peer returned last
  reports     \* history: how many packets were sent

vars == <<peers, link, choice, reports>>

Clamp(x, lo, hi) == IF x < lo THEN lo ELSE IF x > hi THEN hi ELSE x
Truncated(x, y) == IF x >= 0 THEN x \div y ELSE -((-x) \div y)

MaxU16 == 65535
U16 == 0..MaxU16

Registered(n) == peers[n] # NoPeer

MinWeight == 50 * WeightUnit
MaxWeight == 5000 * WeightUnit
FreshPeer(a) ==
  [addr |-> a, weight |-> 1000 * WeightUnit, loss |-> 0, redundancy |-> 1100]

Init ==
  /\ peers = [n \in Nodes |-> NoPeer]
  /\ link = [l \in Links |-> <<>>]
  /\ choice = NoChoice
  /\ reports = 0
-------------------------------------------------------------------------------
(* The packet: to_bytes and from_bytes carry a signed gradient in an       *)
(* unsigned 16-bit field.                                                  *)
ToField(x) == x % 65536

(* Slip: the field is read as an unsigned number.                          *)
FromFieldUnsigned(u) == u

FromField(u) == IF u >= 32768 THEN u - 65536 ELSE u

LossGradient(defect, queue) ==
  Clamp(Truncated(Beta * queue - 2 * Alpha * defect, 1000), -32768, 32767)
LossInThousandths(defect, queue) ==
  (Alpha * defect * defect + 1000 * Beta * queue) \div 1000000
Loss(defect, queue) == Clamp(LossInThousandths(defect, queue), 0, MaxU16)

\* calculate_gradient_feedback, then to_bytes; rank and queue are kept beside
\* the packet for the properties.
Packet(id, rank, queue) ==
  LET defect == 1000 - Clamp(rank, 0, 1000)
      pressure == Clamp(queue, 0, 1000)
  IN [queue |-> queue, rank |-> rank, node_id |-> id,
      gradient |-> ToField(LossGradient(defect, pressure)),
      queue_pressure |-> pressure,
      reserved |-> Loss(defect, pressure)]

(* Dynamic redundancy: throttled when the queue is nearly full, raised     *)
(* when the rank defect dominates.                                         *)
Adjusted(redundancy, gradient, queue_pressure) ==
  IF queue_pressure > 800 THEN Clamp((redundancy * 95) \div 100, 1000, 2000)
  ELSE IF gradient < 0 THEN Clamp(redundancy + 50, 1000, 2000)
  ELSE redundancy

(* Slip: the weight is not kept within its limits.                         *)
MovedUnclamped(weight, gradient) == weight - Step * gradient

Moved(weight, gradient) == Clamp(weight - Step * gradient, MinWeight, MaxWeight)
-------------------------------------------------------------------------------
\* entry().or_insert(): a node that is in the table stays as it is.
register_peer(n, a) ==
  /\ peers' = [peers EXCEPT ![n] = IF Registered(n) THEN @ ELSE FreshPeer(a)]
  /\ UNCHANGED <<link, choice, reports>>

unregister_peer(n) ==
  /\ peers' = [peers EXCEPT ![n] = NoPeer]
  /\ UNCHANGED <<link, choice, reports>>

\* The engine at the other end of l measures, and sends a packet.
Reports(l, rank, queue) ==
  /\ Len(link[l]) < MaxInFlight
  /\ reports < MaxReports
  /\ link' = [link EXCEPT ![l] = Append(@, Packet(IdOf[l], rank, queue))]
  /\ reports' = reports + 1
  /\ UNCHANGED <<peers, choice>>

\* A packet that names a node that is not in the table is ignored.
apply_gradient_feedback(l) ==
  LET packet == Head(link[l])
      n == packet.node_id
      gradient == FromField(packet.gradient)
  IN /\ link[l] # <<>>
     /\ link' = [link EXCEPT ![l] = Tail(@)]
     /\ peers' =
          [peers EXCEPT ![n] =
             IF Registered(n)
             THEN [addr |-> @.addr,
                   weight |-> Moved(@.weight, gradient),
                   loss |-> packet.reserved,
                   redundancy |-> Adjusted(@.redundancy, gradient, packet.queue_pressure)]
             ELSE @]
     /\ UNCHANGED <<choice, reports>>

\* max_by over a HashMap: among equal weights any peer may come last.
Best(n) ==
  Registered(n) /\ \A m \in Nodes : Registered(m) => peers[m].weight <= peers[n].weight

select_best_forward_peer ==
  /\ choice' \in IF \E n \in Nodes : Registered(n) THEN {n \in Nodes : Best(n)} ELSE {NoChoice}
  /\ UNCHANGED <<peers, link, reports>>

Next ==
  \/ select_best_forward_peer
  \/ \E n \in Nodes :
       \/ \E a \in Addrs : register_peer(n, a)
       \/ unregister_peer(n)
  \/ \E l \in Links :
       \/ \E rank, queue \in Ratios : Reports(l, rank, queue)
       \/ apply_gradient_feedback(l)

Spec == Init /\ [][Next]_vars
-------------------------------------------------------------------------------
Peer == [addr : Addrs, weight : MinWeight..MaxWeight, loss : U16, redundancy : 1000..2000]
PacketType == [queue : Ratios, rank : Ratios, node_id : Nodes,
               gradient : U16, queue_pressure : 0..1000, reserved : U16]

(* Weights and redundancies stay within the limits that keep a path from   *)
(* starving and from running away.                                         *)
TypeOK ==
  /\ peers \in [Nodes -> Peer \cup {NoPeer}]
  /\ link \in [Links -> Seq(PacketType)]
  /\ choice \in Nodes \cup {NoChoice}
  /\ reports \in 0..MaxReports
-------------------------------------------------------------------------------
(* Properties.                                                             *)

(* A packet moves the peer it names in the direction its measurement calls *)
(* for, at the other end of the wire and whatever was applied before it,   *)
(* also by another client of the same name: a full queue never raises the  *)
(* redundancy; a rank defect that outweighs the queue lowers neither it    *)
(* (unless the queue is full) nor the weight; and one that does not raises *)
(* neither (gradient_mesh.rs:113-145).                                     *)
Defect(packet) == 1000 - Clamp(packet.rank, 0, 1000)
Pressure(packet) == Clamp(packet.queue, 0, 1000)
DefectDominates(packet) == 2 * Alpha * Defect(packet) > Beta * Pressure(packet)

MovesAsMeasured(packet, before, after) ==
  /\ Pressure(packet) > 800 => after.redundancy <= before.redundancy
  /\ DefectDominates(packet) =>
       /\ after.weight >= before.weight
       /\ Pressure(packet) <= 800 => after.redundancy >= before.redundancy
  /\ ~DefectDominates(packet) =>
       after.weight <= before.weight /\ after.redundancy <= before.redundancy

FeedbackKeepsItsSign ==
  [][\A l \in Links :
       LET packet == Head(link[l])
           n == packet.node_id
       IN link[l] # <<>> /\ link'[l] = Tail(link[l]) /\ Registered(n)
            => MovesAsMeasured(packet, peers[n], peers'[n])]_vars
===============================================================================
