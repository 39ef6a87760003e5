--------------------------- MODULE MCWorkerStream ---------------------------
(* Small instances of WorkerStream. *)
EXTENDS WorkerStream

CONSTANTS c1, c2
=============================================================================
