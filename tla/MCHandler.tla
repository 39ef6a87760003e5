----------------------------- MODULE MCHandler -----------------------------
(* Instances of Handler for TLC.                                           *)
EXTENDS Handler

CONSTANTS r1, r2, r3
=============================================================================
