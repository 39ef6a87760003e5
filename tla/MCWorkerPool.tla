---------------------------- MODULE MCWorkerPool ----------------------------
(* Instances of WorkerPool for TLC. *)
EXTENDS WorkerPool, TLC

CONSTANTS j1, j2, j3, f, g, h

\* f is called twice, g once.
MCFnOf == [j \in Jobs |-> IF j = j3 THEN g ELSE f]

\* Both f and g use the helper h, so both slices define it.
SharedDefs == (f :> <<h, f>>) @@ (g :> <<h, g>>)
=============================================================================
