---------------------------- MODULE PacketSequences ----------------------------
(***************************************************************************)
(* Sequences of packet numbers, the data of every pipeline and channel.    *)
(* Packets are numbered in the order in which they enter the relay, so an  *)
(* increasing sequence is one that is neither reordered nor repeated.      *)
(***************************************************************************)
EXTENDS Sequences, Functions

(* Whatever is ahead of a packet entered the relay before it.              *)
Increasing(line) ==
  \A place \in DOMAIN line : \A ahead \in 1..(place - 1) : line[ahead] < line[place]
===============================================================================
