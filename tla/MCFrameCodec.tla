----------------------------- MODULE MCFrameCodec -----------------------------
(* Small instances of FrameCodec for TLC: a clock of 2026, sizes on both   *)
(* sides of every boundary.                                                *)
EXTENDS FrameCodec

SizesAroundThreshold == {1023, 1024}
BodiesAtTheEdges == {1, 57, 58, 65534, 65535}
SkewsBothWays == {-2, 0, 31}
===============================================================================
