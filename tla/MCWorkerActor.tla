---------------------------- MODULE MCWorkerActor ---------------------------
(* Small instances of WorkerActor. *)
EXTENDS WorkerActor

CONSTANTS m1, m2, m3
=============================================================================
