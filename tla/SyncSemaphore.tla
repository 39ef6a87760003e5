---------------------------- MODULE SyncSemaphore ----------------------------
(***************************************************************************)
(* std/sync semaphores (stdlib/sync.rs): a permit counter and a Notify,    *)
(* shared by the tasks of one thread.  A task runs from one await to the   *)
(* next without interruption.                                              *)
(***************************************************************************)
EXTENDS Notify

CONSTANTS
    Tasks,      \* the tasks that use the semaphore
    Permits,    \* Semaphore::max
    Uses        \* the programs to look at

ASSUME SemaphoreAssumption ==
    /\ Permits \in Nat \ {0}
    /\ Uses \subseteq [strays : BOOLEAN, futures : BOOLEAN]
    /\ IsFiniteSet(Tasks)

VARIABLES
    use,                \* whether the program releases permits it does not hold,
                        \* and whether the functions it gives to withPermit may
                        \* return a future instead of running to their end
    available,          \* Semaphore::available
    permit_available,   \* wakes acquirers
    st                  \* what each task is doing: "holding" is between acquire and
                        \* release, "body" inside withPermit's function, "loose"
                        \* awaiting the future which that function returned, "lost"
                        \* cancelled with a permit, "gone" cancelled without one

vars == <<use, available, permit_available, st>>

Init ==
    /\ use \in Uses
    /\ available = Permits
    /\ permit_available = NewNotify
    /\ st = [t \in Tasks |-> "idle"]

Wants == [acquiring |-> "holding", entering |-> "body"]

\* sync.acquire, or the acquire of sync.withPermit: a permit is taken, or the
\* task waits.  It comes here when it calls, and again when it has been woken.
AtAcquire(t, w) ==
    \/ st[t] = "idle"
    \/ st[t] = w /\ t \in Woken(permit_available)

\* Mutant of AcquireTakes: the counter is looked at on the first round only.
AcquireTakesOnce(t, w) ==
    /\ st[t] = "idle"
    /\ available > 0
    /\ available' = available - 1
    /\ st' = [st EXCEPT ![t] = Wants[w]]
    /\ UNCHANGED <<use, permit_available>>

AcquireTakes(t, w) ==
    /\ AtAcquire(t, w)
    /\ available > 0
    /\ available' = available - 1
    /\ st' = [st EXCEPT ![t] = Wants[w]]
    /\ permit_available' = Resumed(permit_available, t)
    /\ UNCHANGED use

AcquireWaits(t, w) ==
    /\ AtAcquire(t, w)
    /\ available = 0
    /\ st' = [st EXCEPT ![t] = w]
    /\ permit_available' = Park(Resumed(permit_available, t), t)
    /\ UNCHANGED <<use, available>>

\* Mutant of Release: nobody is woken.
ReleaseSilent ==
    /\ available' = IF available < Permits THEN available + 1 ELSE available
    /\ UNCHANGED permit_available

\* sync_release: capped at the initial count.
Release ==
    IF available < Permits
    THEN /\ available' = available + 1
         /\ permit_available' = NotifyOne(permit_available)
    ELSE UNCHANGED <<available, permit_available>>

ReleaseHeld(t) ==
    /\ st[t] = "holding"
    /\ st' = [st EXCEPT ![t] = "idle"]
    /\ Release
    /\ UNCHANGED use

\* A release with no matching acquire.
ReleaseStray(t) ==
    /\ use.strays
    /\ st[t] = "idle"
    /\ Release
    /\ UNCHANGED <<use, st>>

\* Mutant of BodyEnds: a panic of the function skips the release.
BodyEndsLeaky(t) ==
    /\ st[t] = "body"
    /\ st' = [st EXCEPT ![t] = "idle"]
    /\ Release \/ UNCHANGED <<available, permit_available>>
    /\ UNCHANGED use

\* withPermit: a function that runs to its end inside call_value (any function
\* but an async one on the tree-walker or a worker fn) returns or panics, and the
\* permit is released.
BodyEnds(t) ==
    /\ st[t] = "body"
    /\ st' = [st EXCEPT ![t] = "idle"]
    /\ Release
    /\ UNCHANGED use

\* The task is cancelled while it waits.
CancelWait(t) ==
    /\ st[t] \in DOMAIN Wants
    /\ st' = [st EXCEPT ![t] = "gone"]
    /\ permit_available' = Withdraw(permit_available, t)
    /\ UNCHANGED <<use, available>>

\* The task is cancelled at an await between acquire and release, or inside
\* withPermit's function: the code after that await, with the release, never runs.
CancelHolder(t) ==
    /\ st[t] \in {"holding", "body"}
    /\ st' = [st EXCEPT ![t] = "lost"]
    /\ UNCHANGED <<use, available, permit_available>>

\* withPermit: call_value returns the future of a function that has only been
\* scheduled (an async function on the tree-walker, a worker fn on either engine).
\* Nothing drives it here: the permit is released, and the caller gets the future.
BodyReturnsFuture(t) ==
    /\ use.futures
    /\ st[t] = "body"
    /\ st' = [st EXCEPT ![t] = "loose"]
    /\ Release
    /\ UNCHANGED use

\* The function behind the future ends, or is cancelled with its last handle.
LooseEnds(t) ==
    /\ st[t] = "loose"
    /\ st' = [st EXCEPT ![t] = "idle"]
    /\ UNCHANGED <<use, available, permit_available>>

Acquire(t) == \E w \in DOMAIN Wants : AcquireTakes(t, w) \/ AcquireWaits(t, w)

Next ==
    \E t \in Tasks :
        \/ Acquire(t)
        \/ ReleaseHeld(t)
        \/ ReleaseStray(t)
        \/ BodyEnds(t)
        \/ CancelWait(t)
        \/ CancelHolder(t)
        \/ BodyReturnsFuture(t)
        \/ LooseEnds(t)

Spec == Init /\ [][Next]_vars

\* The executor runs every task that has been woken.
FairSpec ==
    /\ Spec
    /\ \A t \in Tasks : WF_vars(st[t] \in DOMAIN Wants /\ Acquire(t))

-----------------------------------------------------------------------------
(* Properties.                                                             *)

\* Every variable has its type; the counter never passes its initial value.
TypeOK ==
    /\ use \in Uses
    /\ available \in 0..Permits
    /\ permit_available \in NotifyType(Tasks)
    /\ st \in [Tasks -> {"idle", "acquiring", "entering", "holding", "body", "loose", "lost", "gone"}]

\* The tasks that took a permit and have not put it back, those included that never
\* will, because they were cancelled.
Holders == {t \in Tasks : st[t] \in {"holding", "body", "lost"}}

\* The tasks that run code a permit was taken for.
Inside == {t \in Tasks : st[t] \in {"holding", "body", "loose"}}

\* Permits are neither made nor lost, except with the task that holds one: in a
\* program that releases only what it acquired (the cap of sync_release does not
\* tell a stray release from a due one), the free permits, those of running holders
\* and those of cancelled holders add up to Permits at every moment.  Hence at most
\* Permits tasks are inside at a time, as long as no function given to withPermit
\* returns a future: sync_with_permit releases without driving it (sync.rs:577),
\* though sync.rs:19 says `await fn()` and "release on ALL paths".
PermitsKept ==
    ~use.strays => /\ available + Cardinality(Holders) = Permits
                   /\ ~use.futures => Cardinality(Inside) <= Permits

\* No lost wake-up (sync_acquire): while an acquirer sleeps, every free permit
\* is some woken acquirer's to take, also after cancellations.
NoAcquirerStranded ==
    /\ TypeOK
    /\ Waiting(permit_available) # {} => available <= Cardinality(Woken(permit_available))

\* A free permit does not stay free while someone waits for one.
FreePermitsAreTaken ==
    (available > 0 /\ \E t \in Tasks : st[t] \in DOMAIN Wants)
      ~> (available = 0 \/ \A t \in Tasks : st[t] \notin DOMAIN Wants)
=============================================================================
