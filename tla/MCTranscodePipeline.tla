------------------------- MODULE MCTranscodePipeline -------------------------
(* Instances of TranscodePipeline for TLC.                                 *)
EXTENDS TranscodePipeline, TLC

CONSTANTS a1, a2, i1, i2, p1, p2, w1, w2, m1, m2, m3

PipelineSymmetry == Permutations(Publisher) \cup Permutations(Worker)
                    \cup Permutations(Message) \cup Permutations(Id)
=============================================================================
