------------------------- MODULE MCUpstreamPipeline -------------------------
(* Small instances of UpstreamPipeline for TLC.                            *)
EXTENDS UpstreamPipeline
===============================================================================
