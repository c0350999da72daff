----------------------------- MODULE MCSendPath -----------------------------
(* SendPath for TLC: two-byte frames, so that a socket can cut one.         *)
EXTENDS SendPath
=============================================================================
