--------------------------- MODULE MCSharedFuture ---------------------------
(* Small instances of SharedFuture. *)
EXTENDS SharedFuture

CONSTANTS m, a, b
=============================================================================
