------------------------------ MODULE PrefixFifo ------------------------------
(***************************************************************************)
(* What one direction of the relay promises, whatever its stages, its      *)
(* channels and its failures.  Packets are numbered 1, 2, ... in the order *)
(* in which the relay takes them in.  A packet may be dropped one by one   *)
(* (the codec refuses it), and the end of the stream may be cut off (a     *)
(* stage died), but what has been delivered so far is always the accepted  *)
(* stream from its start, in order, without repetition, and without a hole *)
(* that is not an explicit drop.                                           *)
(***************************************************************************)
EXTENDS Naturals, Sequences, Functions

VARIABLES
  accepted,   \* how many packets the relay has taken in
  dropped,    \* the packets it refused one by one
  delivered   \* the packets it has handed over, in the order it did so

vars == <<accepted, dropped, delivered>>

Init ==
  /\ accepted = 0
  /\ dropped = {}
  /\ delivered = <<>>

Accept ==
  /\ accepted' = accepted + 1
  /\ UNCHANGED <<dropped, delivered>>

(* A packet is dropped before it is delivered or never.                    *)
Drop(p) ==
  /\ p \notin Range(delivered) \cup dropped
  /\ dropped' = dropped \cup {p}
  /\ UNCHANGED <<accepted, delivered>>

(* Every older packet has been delivered or dropped when p is delivered.   *)
Deliver(p) ==
  /\ p \notin Range(delivered) \cup dropped
  /\ \A q \in 1..(p - 1) : q \in Range(delivered) \cup dropped
  /\ delivered' = Append(delivered, p)
  /\ UNCHANGED <<accepted, dropped>>

Next ==
  \/ Accept
  \/ \E p \in 1..accepted : Drop(p) \/ Deliver(p)

Spec == Init /\ [][Next]_vars
===============================================================================
