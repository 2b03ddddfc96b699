----------------------------- MODULE MCWebSession -----------------------------
(* Instances of WebSession for TLC.                                        *)
EXTENDS WebSession

CONSTANTS s1, s2, q1, q2
=============================================================================
