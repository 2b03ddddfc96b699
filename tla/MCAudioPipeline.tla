--------------------------- MODULE MCAudioPipeline ---------------------------
(* Instances of AudioPipeline for TLC.                                     *)
EXTENDS AudioPipeline

CONSTANTS a1, c1, c2, i1, i2, p1, w1, m1, m2
=============================================================================
