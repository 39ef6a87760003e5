----------------------------- MODULE WorkerCalls -----------------------------
(***************************************************************************)
(* What a `worker fn` call promises its caller, wherever the body runs (on *)
(* a pooled isolate, or inline on the caller thread): the future is        *)
(* resolved at most once, the body runs at most once, an Ok outcome comes  *)
(* from a run of the body, and once the last handle on the future has been *)
(* dropped (and the bridge has gone) the body is never started.            *)
(* WorkerPool.tla is shown to implement this specification.                *)
(***************************************************************************)
EXTENDS Naturals

CONSTANT Jobs

VARIABLES status, outcome, runs

vars == <<status, outcome, runs>>

Init == /\ status = [j \in Jobs |-> "idle"]
        /\ outcome = [j \in Jobs |-> "none"]
        /\ runs = [j \in Jobs |-> 0]

\* The call returns a pending future.
Call(j) == /\ status[j] = "idle"
           /\ status' = [status EXCEPT ![j] = "pending"]
           /\ UNCHANGED <<outcome, runs>>

\* The call panics at the call site; there is no future.
Refuse(j) == /\ status[j] = "idle"
             /\ status' = [status EXCEPT ![j] = "refused"]
             /\ UNCHANGED <<outcome, runs>>

\* The body starts, somewhere, for the first and only time.
Start(j) == /\ status[j] = "pending"
            /\ runs[j] = 0
            /\ runs' = [runs EXCEPT ![j] = 1]
            /\ UNCHANGED <<status, outcome>>

Resolve(j) == /\ status[j] = "pending"
              /\ status' = [status EXCEPT ![j] = "resolved"]
              /\ \E o \in {"ok", "panic"} :
                    /\ (o = "ok") => (runs[j] = 1)
                    /\ outcome' = [outcome EXCEPT ![j] = o]
              /\ UNCHANGED runs

Drop(j) == /\ status[j] = "pending"
           /\ status' = [status EXCEPT ![j] = "dropped"]
           /\ UNCHANGED <<outcome, runs>>

Next == \E j \in Jobs : Call(j) \/ Refuse(j) \/ Start(j) \/ Resolve(j) \/ Drop(j)

Spec == Init /\ [][Next]_vars
=============================================================================
