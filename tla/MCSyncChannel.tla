--------------------------- MODULE MCSyncChannel ---------------------------
(* Small instances of SyncChannel. *)
EXTENDS SyncChannel

CONSTANTS s1, s2, r1, r2, r3
=============================================================================
