--------------------------- MODULE MCNativeClient ---------------------------
(* NativeClient, with its inductive invariant, for TLC.                     *)
EXTENDS NativeClientInv
=============================================================================
