---------------------------- MODULE MCGenerator ----------------------------
(* Small instances of Generator. *)
EXTENDS Generator

CONSTANTS c1, c2

\* Both engines, with and without turns, cancellations and a body that calls itself.
AnyUse == [engine : {"vm", "body"}, exclusive : BOOLEAN, cancels : BOOLEAN,
           reenters : BOOLEAN]
=============================================================================
