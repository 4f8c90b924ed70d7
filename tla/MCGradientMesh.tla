---------------------------- MODULE MCGradientMesh ----------------------------
(* Small instances of GradientMesh for TLC.  Two connections lead to       *)
(* engines of the same id, as all clients of a server have, and a third    *)
(* one to another.  The ratios are outside the range 0..1000 to which they *)
(* are clamped, and at the limit of 80 % from which redundancy is          *)
(* throttled.                                                              *)
EXTENDS GradientMesh

CONSTANTS n1, n2, home, away, nobody, nochoice

TwoNodes == {n1, n2}
TwoAddrs == {home, away}
ThreeLinks == 1..3
TwoShareAnId == [l \in ThreeLinks |-> IF l = 3 THEN n2 ELSE n1]
RatiosAcross == {-1, 800, 1001}
===============================================================================
