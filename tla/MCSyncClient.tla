---------------------------- MODULE MCSyncClient ----------------------------
(* SyncClient for TLC: timeouts of two and three ticks.                     *)
EXTENDS SyncClient
=============================================================================
