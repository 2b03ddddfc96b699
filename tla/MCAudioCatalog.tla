---------------------------- MODULE MCAudioCatalog ----------------------------
(* Instances of AudioCatalog for TLC.                                      *)
EXTENDS AudioCatalog

CONSTANTS s1, s2, r1
=============================================================================
