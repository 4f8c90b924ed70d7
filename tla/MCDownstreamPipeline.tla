------------------------- MODULE MCDownstreamPipeline -------------------------
(* Small instances of DownstreamPipeline for TLC: the tolerance is the one *)
(* of the code, the ages are on both sides of it.                          *)
EXTENDS DownstreamPipeline

AgesAtTheLimit == {6, 7}
===============================================================================
