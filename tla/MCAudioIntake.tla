---------------------------- MODULE MCAudioIntake ----------------------------
(* Instances of AudioIntake for TLC.                                       *)
EXTENDS AudioIntake

CONSTANTS a1, a2, c1, c2, i1, i2, i3
=============================================================================
