----------------------------- MODULE MCUploadFlow -----------------------------
(* Instances of UploadFlow for TLC.                                        *)
EXTENDS UploadFlow

CONSTANTS u1, u2, u3
=============================================================================
