-------------------------- MODULE MCSyncSemaphore --------------------------
(* Small instances of SyncSemaphore. *)
EXTENDS SyncSemaphore

CONSTANTS t1, t2, t3, t4

\* Any program.
AnyUse == [strays : BOOLEAN, futures : BOOLEAN]
=============================================================================
