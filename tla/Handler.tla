------------------------------ MODULE Handler ------------------------------
(***************************************************************************)
(* resilience.handler (src/src/stdlib/resilience.rs): the policies around  *)
(* a request handler, outermost first: token-bucket limiter, bulkhead over *)
(* a std/sync semaphore, circuit breaker, deadline, the handler function.  *)
(*                                                                         *)
(* All requests run on one thread, and a request goes through the stack    *)
(* from one await to the next without interruption: it awaits only in the  *)
(* bulkhead's queue and in the function.  The whole stack may run inside a *)
(* deadline of the caller, whose expiry drops it at its await.             *)
(*                                                                         *)
(* Time is relative: each remembered instant is kept as its age in ticks,  *)
(* which no comparison needs beyond AgeCap.                                *)
(***************************************************************************)
EXTENDS Notify

CONSTANTS
    Requests,      \* the callers, each with at most one request at a time
    Budgeted,      \* those that call inside a deadline of their own
    Capacity, RefillPerTick,        \* limiter
    Limit, Queue,                   \* bulkhead
    Window, MinCalls, FailurePct,   \* breaker: the rate is a percentage
    Cooldown, HalfOpenMax,
    DeadlineTicks                   \* deadlineMs

ASSUME PoliciesAreValid ==
    /\ {Capacity, Limit, Window, MinCalls, HalfOpenMax} \subseteq Nat \ {0}
    /\ {RefillPerTick, Queue, Cooldown, DeadlineTicks} \subseteq Nat
    /\ FailurePct \in 1 .. 100
    /\ Budgeted \subseteq Requests /\ IsFiniteSet(Requests)

VARIABLES
    limiter,    \* [tokens, age of __lastMs]
    available,  \* the bulkhead's semaphore: free permits
    permit_available,   \* and the queue of those that wait for one
    waiting,    \* __waiting
    breaker,    \* [state, ring, calls, inFlight, successes, and while it is open
                \* the age of __openedAtMs]
    req,        \* [Requests -> [st, probe, age since the breaker took `now`]]
    healthy,    \* from now on the function returns values, and promptly, and no
                \* caller arrives with its budget spent
    tainted     \* history: a probe of an earlier period came back in this one

vars == <<limiter, available, permit_available, waiting, breaker, req, healthy, tainted>>

AgeCap == LET S == {Cooldown, DeadlineTicks, Capacity}
          IN  CHOOSE m \in S : \A n \in S : n <= m
Older(n) == IF n < AgeCap THEN n + 1 ELSE n
Least(m, n) == IF m < n THEN m ELSE n

\* A probe is "stale" once the half-open period that admitted it is over: the
\* code does not tell it from a probe of the next one.
Idle == [st |-> "idle", probe |-> "no", age |-> 0]
Closed == [state |-> "closed", ring |-> <<>>, calls |-> 0, inFlight |-> 0,
           successes |-> 0, age |-> 0]

Init ==
    /\ limiter = [tokens |-> Capacity, age |-> 0]
    /\ available = Limit /\ permit_available = NewNotify /\ waiting = 0
    /\ breaker = Closed
    /\ req = [r \in Requests |-> Idle]
    /\ healthy = FALSE /\ tainted = FALSE

-----------------------------------------------------------------------------
(* The breaker.                                                            *)

Outdated(p) == IF p = "no" THEN "no" ELSE "stale"

\* The breaker becomes b; probes of a period that ends with this are stale.
BreakerSet(b, rs) ==
    /\ breaker' = b
    /\ req' = IF b.state = "halfOpen" THEN rs
              ELSE [r \in Requests |-> [rs[r] EXCEPT !.probe = Outdated(@)]]

\* breaker_call before the await: whether the call is admitted, as a probe or
\* not, and the breaker after that.
Cooled == breaker.state = "open" /\ breaker.age >= Cooldown
MayProbe == Cooled \/ (breaker.state = "halfOpen" /\ breaker.inFlight < HalfOpenMax)
Admits == breaker.state = "closed" \/ MayProbe

\* Mutant of Admitted: every probe starts the count of successes again.
AdmittedStartsAgain ==
    CASE Cooled -> [breaker EXCEPT !.state = "halfOpen", !.inFlight = 1, !.successes = 0, !.age = 0]
      [] breaker.state = "halfOpen" -> [breaker EXCEPT !.inFlight = @ + 1, !.successes = 0]
      [] OTHER -> breaker

Admitted ==
    CASE Cooled -> [breaker EXCEPT !.state = "halfOpen", !.inFlight = 1, !.successes = 0, !.age = 0]
      [] breaker.state = "halfOpen" -> [breaker EXCEPT !.inFlight = @ + 1]
      [] OTHER -> breaker

\* breaker_record_outcome: the ring holds the last Window outcomes, and calls,
\* which the code lets grow, is compared with MinCalls only.
Pushed(b, failed) ==
    [b EXCEPT !.ring = IF Len(@) < Window THEN Append(@, failed) ELSE Append(Tail(@), failed),
              !.calls = Least(@ + 1, MinCalls)]

Failures(b) == Cardinality({i \in 1 .. Len(b.ring) : b.ring[i]})
Trips(b) == b.calls >= MinCalls /\ Failures(b) * 100 >= FailurePct * Len(b.ring)

\* To open is to remember the instant taken before the await.
Opened(b, age) ==
    [b EXCEPT !.state = "open", !.age = age, !.inFlight = 0, !.successes = 0]

Transitioned(b, failed, probe, age) ==
    CASE b.state = "closed" /\ Trips(b) -> Opened(b, age)
      [] b.state = "halfOpen" /\ probe /\ failed -> Opened(b, age)
      [] b.state = "halfOpen" /\ probe /\ ~failed /\ b.successes + 1 >= HalfOpenMax ->
           Closed
      [] b.state = "halfOpen" /\ probe /\ ~failed /\ b.successes + 1 < HalfOpenMax ->
           [b EXCEPT !.successes = @ + 1]
      [] OTHER -> b

\* A probe that comes back frees its slot, whatever the period.
Returned(r) ==
    IF req[r].probe = "no" THEN breaker
    ELSE [breaker EXCEPT !.inFlight = IF @ > 0 THEN @ - 1 ELSE 0]

\* Mutant of After: a panic keeps the probe's slot.
AfterPanicKeeps(r, how) ==
    CASE how \in {"ok", "err"} ->
           Transitioned(Pushed(Returned(r), how = "err"), how = "err",
                        req[r].probe # "no", req[r].age)
      [] how = "panic" -> Pushed(breaker, TRUE)
      [] how = "propagate" -> Returned(r)

\* breaker_call after the await: a value or a pair is recorded and may change
\* the state, a panic is only recorded, `?` and exit are not.
After(r, how) ==
    CASE how \in {"ok", "err"} ->
           Transitioned(Pushed(Returned(r), how = "err"), how = "err",
                        req[r].probe # "no", req[r].age)
      [] how = "panic" -> Pushed(Returned(r), TRUE)
      [] how = "propagate" -> Returned(r)

-----------------------------------------------------------------------------
(* The bulkhead.                                                           *)

\* sync_release.  Its cap at Limit is never met here (BulkheadExact).
Release == available' = available + 1 /\ permit_available' = NotifyOne(permit_available)

\* The request has just taken a permit, and the semaphore's queue is n: the
\* breaker runs the function, or rejects and the permit goes back at once.
Enter(r, n) ==
    IF Admits
    THEN /\ available' = available - 1 /\ permit_available' = n
         /\ BreakerSet(Admitted,
                [req EXCEPT ![r] = [st |-> "run", age |-> 0,
                                    probe |-> IF MayProbe THEN "current" ELSE "no"]])
         /\ tainted' = (tainted /\ ~Cooled)
    ELSE /\ permit_available' = NotifyOne(n)
         /\ req' = [req EXCEPT ![r] = Idle]
         /\ UNCHANGED <<available, breaker, tainted>>

Refilled == Least(Capacity, limiter.tokens + limiter.age * RefillPerTick)

\* A request arrives: the limiter refuses it (429), the bulkhead sheds it
\* (503), refuses it because the caller's budget is already spent (504) or
\* parks it, or it goes on.
Arrive(r) ==
    /\ req[r].st = "idle"
    /\ limiter' = [tokens |-> IF Refilled >= 1 THEN Refilled - 1 ELSE Refilled, age |-> 0]
    /\ \/ /\ Refilled < 1 \/ (available = 0 /\ waiting >= Queue)
             \/ (r \in Budgeted /\ ~healthy)
          /\ UNCHANGED <<available, permit_available, waiting, breaker, req, tainted>>
       \/ /\ Refilled >= 1 /\ available = 0 /\ waiting < Queue
          /\ waiting' = waiting + 1
          /\ permit_available' = Park(permit_available, r)
          /\ req' = [req EXCEPT ![r].st = "parked"]
          /\ UNCHANGED <<available, breaker, tainted>>
       \/ /\ Refilled >= 1 /\ available > 0
          /\ Enter(r, permit_available)
          /\ UNCHANGED waiting
    /\ UNCHANGED healthy

\* A parked request is woken: it takes a permit, or parks again when a newcomer
\* was faster.
Wake(r) ==
    /\ req[r].st = "parked" /\ r \in Woken(permit_available)
    /\ \/ /\ available > 0
          /\ waiting' = (IF waiting > 0 THEN waiting - 1 ELSE 0)
          /\ Enter(r, Resumed(permit_available, r))
       \/ /\ available = 0
          /\ permit_available' = Park(Resumed(permit_available, r), r)
          /\ UNCHANGED <<available, waiting, breaker, req, tainted>>
    /\ UNCHANGED <<limiter, healthy>>

\* The caller's deadline ends while the request is parked.  The bulkhead races
\* it as well, and the caller's select may poll either first: the bulkhead
\* answers (504), or the parked call is dropped where it waits.
ParkExpires(r) ==
    /\ r \in Budgeted /\ req[r].st = "parked"
    /\ permit_available' = Withdraw(permit_available, r)
    /\ \/ /\ waiting' = (IF waiting > 0 THEN waiting - 1 ELSE 0)
          /\ req' = [req EXCEPT ![r] = Idle]
       \/ /\ req' = [req EXCEPT ![r].st = "droppedParked"]
          /\ UNCHANGED waiting
    /\ UNCHANGED <<limiter, available, breaker, healthy, tainted>>

\* Mutant of Leave: a panic keeps the permit.
LeavePanicKeeps(r, how) ==
    /\ BreakerSet(After(r, how), [req EXCEPT ![r] = Idle])
    /\ tainted' = (breaker'.state = "halfOpen" /\ (tainted \/ req[r].probe = "stale"))
    /\ IF how = "panic" THEN UNCHANGED <<available, permit_available>> ELSE Release
    /\ UNCHANGED <<limiter, waiting>>

\* The function is over: the breaker, then the bulkhead.
Leave(r, how) ==
    /\ BreakerSet(After(r, how), [req EXCEPT ![r] = Idle])
    /\ tainted' = (breaker'.state = "halfOpen" /\ (tainted \/ req[r].probe = "stale"))
    /\ Release
    /\ UNCHANGED <<limiter, waiting>>

FnEnds(r, how) ==
    /\ req[r].st = "run" /\ (healthy => how = "ok")
    /\ Leave(r, how)
    /\ UNCHANGED healthy

\* Mutant of DeadlineFires: the budget is looked at on entry only.
DeadlineOnEntry(r) ==
    /\ req[r].st = "run" /\ req[r].age = 0 /\ DeadlineTicks = 0 /\ ~healthy
    /\ Leave(r, "err")
    /\ UNCHANGED healthy

\* call_deadline: the function is dropped, its answer is the error pair
\* deadline-exceeded (504), a failure to the breaker.
DeadlineFires(r) ==
    /\ req[r].st = "run" /\ req[r].age >= DeadlineTicks /\ ~healthy
    /\ Leave(r, "err")
    /\ UNCHANGED healthy

\* The caller's deadline drops the stack inside the function: neither the
\* breaker nor the bulkhead hears of it.
Drop(r) ==
    /\ r \in Budgeted /\ req[r].st = "run"
    /\ req' = [req EXCEPT ![r].st = "droppedRun"]
    /\ UNCHANGED <<limiter, available, permit_available, waiting, breaker, healthy, tainted>>

\* breaker.reset
Reset ==
    /\ BreakerSet(Closed, req)
    /\ tainted' = FALSE
    /\ UNCHANGED <<limiter, available, permit_available, waiting, healthy>>

Tick ==
    /\ limiter' = [limiter EXCEPT !.age = Older(@)]
    /\ breaker' = IF breaker.state = "open" THEN [breaker EXCEPT !.age = Older(@)] ELSE breaker
    /\ req' = [r \in Requests |-> IF req[r].st = "run" THEN [req[r] EXCEPT !.age = Older(@)]
                                  ELSE req[r]]
    /\ UNCHANGED <<available, permit_available, waiting, healthy, tainted>>

\* The service behind the function recovers for good.
Heal ==
    /\ ~healthy /\ healthy' = TRUE
    /\ UNCHANGED <<limiter, available, permit_available, waiting, breaker, req, tainted>>

Outcomes == {"ok", "err", "panic", "propagate"}

Next ==
    \/ \E r \in Requests :
          \/ Arrive(r) \/ Wake(r) \/ ParkExpires(r) \/ DeadlineFires(r) \/ Drop(r)
          \/ \E how \in Outcomes : FnEnds(r, how)
    \/ Reset \/ Tick \/ Heal

Spec == Init /\ [][Next]_vars

\* Time passes, callers call again, the executor runs whoever is woken, and a
\* healthy function returns.  Nothing is assumed of one that is not.
FairSpec ==
    /\ Spec /\ WF_vars(Tick)
    /\ \A r \in Requests :
          /\ WF_vars(Arrive(r)) /\ WF_vars(Wake(r)) /\ WF_vars(DeadlineFires(r))
          /\ WF_vars(healthy /\ FnEnds(r, "ok"))

-----------------------------------------------------------------------------
(* Properties.                                                             *)

In(S) == {r \in Requests : req[r].st \in S}
Dropped == In({"droppedParked", "droppedRun"})

TypeOK ==
    /\ limiter.tokens \in 0 .. Capacity /\ limiter.age \in 0 .. AgeCap
    /\ available \in 0 .. Limit /\ waiting \in 0 .. Queue
    /\ breaker.state \in {"closed", "open", "halfOpen"}
    /\ Len(breaker.ring) <= Window /\ breaker.calls \in 0 .. MinCalls
    /\ breaker.inFlight \in 0 .. HalfOpenMax /\ breaker.successes \in 0 .. HalfOpenMax - 1
    /\ \A r \in Requests :
          /\ req[r].st \in {"idle", "parked", "run", "droppedParked", "droppedRun"}
          /\ req[r].probe \in {"no", "current", "stale"} /\ req[r].age \in 0 .. AgeCap

\* The bulkhead's permits and its count of waiters stand for requests one to
\* one: nothing is released twice or kept by a request that has ended, panics
\* and expired waits included.  A dropped request never gives back.
BulkheadExact ==
    /\ TypeOK
    /\ available + Cardinality(In({"run", "droppedRun"})) = Limit
    /\ waiting = Cardinality(In({"parked", "droppedParked"}))

\* The count of probes is the number of probes of this half-open period, which
\* bounds them by halfOpenMax, until a probe of an earlier period comes back.
ProbesCounted ==
    breaker.state = "halfOpen" /\ ~tainted =>
        breaker.inFlight = Cardinality({r \in Requests : req[r].probe = "current"})

\* Whoever got a permit is answered, even if the function hangs for ever.
AdmittedAreAnswered == \A r \in Requests : req[r].st = "run" ~> req[r].st # "run"

\* Once the service is healthy the breaker closes, if no call was dropped.
BreakerRecovers == healthy ~> (breaker.state = "closed" \/ Dropped # {})

=============================================================================
