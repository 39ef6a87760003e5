----------------------------- MODULE MCWorkflow -----------------------------
(* Instances of Workflow for TLC.                                          *)
EXTENDS Workflow

CONSTANTS order, audit, charge, tally, ship

\* order measures a sleep and an activity, inside which audit, which draws from
\* the generator, may run.
MCBodies ==
    order :> {<<"now", "sleep", charge, "now">>, <<"mono", "sleep", tally, "mono">>}
    @@ audit :> {<<"uuid">>}

\* Code that meets the log of another body at every effect.
MCRedeployed ==
    order :> {<<"mono", "now", "random", ship>>} @@ audit :> {}

\* tally may draw a number of its own.
MCOwn == tally :> {"random"} @@ [a \in {charge, ship} |-> {}]

MCDurabilities == order :> {"group", "buffered"} @@ audit :> {"fsync"}
=============================================================================
