---------------------------- MODULE SharedFuture ----------------------------
(***************************************************************************)
(* Async tasks and their futures (task.rs): an `async fn` call spawns a    *)
(* task and returns a handle on its ResultCell; when the last handle is    *)
(* dropped the task is aborted (cancel-on-drop), unless task.spawn has     *)
(* detached it.  task.race and task.timeout (stdlib/task_mod.rs) wait on   *)
(* futures through resolver tasks and a timer.                             *)
(*                                                                         *)
(* All tasks share one thread: a task runs from one await to the next.     *)
(* Handles are passed as arguments, returned in results and dropped.  They *)
(* are not stored where the task they belong to could reach them, so the   *)
(* reference counts of the code amount to reachability.                    *)
(***************************************************************************)
EXTENDS Notify

CONSTANTS
    Tasks,      \* the async fn calls of the program
    Main,       \* the program's main task
    MayHang,    \* the tasks whose body may stay suspended at an await of its own
    Detachable, \* the tasks the program may hand to task.spawn
    Racers      \* bound: the tasks that call task.race

NoFuture == "no future"
Plain == "plain value"

ASSUME FutureAssumption ==
    /\ Main \notin Tasks
    /\ {NoFuture, Plain} \cap Tasks = {}
    /\ MayHang \subseteq Tasks
    /\ Detachable \subseteq Tasks
    /\ Racers \subseteq Tasks \union {Main}
    /\ (Tasks \union {Main}) \cap (Racers \X Tasks) = {}

All == Tasks \union {Main}
Resolvers == Racers \X Tasks

VARIABLES
    hangs,      \* the tasks whose body does
    st,         \* where each task is
    holds,      \* the futures whose handles the task's frames hold
    waits,      \* the future the task awaits
    winner,     \* task.race: whose result is in the `winner` cell
    resolver,   \* task.race: the resolver task of each raced future
    detached,   \* the tasks whose abort handle has been taken out
    slot,       \* CellInner::slot is filled, with a value or a Control
    kept,       \* the futures whose handles are inside the slot's value
    ready       \* CellInner::ready

vars == <<hangs, st, holds, waits, winner, resolver, detached, slot, kept, ready>>
raceVars == <<winner, resolver>>
cellVars == <<slot, kept>>

Init ==
    /\ hangs \in SUBSET MayHang
    /\ st = [t \in All |-> IF t = Main THEN "ready" ELSE "unborn"]
    /\ holds = [t \in All |-> {}]
    /\ waits = [t \in All |-> NoFuture]
    /\ winner = [t \in All |-> NoFuture]
    /\ resolver = [r \in Resolvers |-> "none"]
    /\ detached = {}
    /\ slot = [f \in Tasks |-> FALSE]
    /\ kept = [f \in Tasks |-> {}]
    /\ ready = [f \in Tasks |-> NewNotify]

-----------------------------------------------------------------------------
(* Handles: who keeps a future alive.                                      *)

Live(t) == st[t] \in {"ready", "waiting", "timing", "racing"}

\* The race of t has a task left that holds its `winner` cell.
Racing(t) ==
    st[t] = "racing" \/ \E r \in Resolvers : r[1] = t /\ resolver[r] # "none"

\* The handles in the frames of the live tasks and of the resolver tasks, in the
\* program's globals, and inside the value of a race's winner.
Roots ==
    (UNION {holds[t] : t \in {u \in All : Live(u) \/ u = Main}})
      \union {r[2] : r \in {q \in Resolvers : resolver[q] # "none"}}
      \union (UNION {kept[winner[t]] : t \in {u \in All : Racing(u) /\ winner[u] \in Tasks}})

\* Mutant of Handles: the handles inside a result do not count.
HandlesShallow == Roots

\* A value in a slot is alive as long as a handle on its future is.
Handles ==
    LET closed == {S \in SUBSET Tasks : \A g \in S : kept[g] \subseteq S}
        roots == Roots
    IN  {f \in Tasks : \A S \in closed : roots \subseteq S => f \in S}

\* Mutant of Aborted: detaching does not take the abort handle out.
AbortedThoughDetached(t) == t \in Tasks /\ Live(t) /\ t \notin Handles

\* HandleInner::drop has called abort().
Aborted(t) == t \in Tasks /\ Live(t) /\ t \notin detached /\ t \notin Handles

\* The executor polls the task: it is not waiting and not aborted.
Runs(t) == st[t] = "ready" /\ ~Aborted(t)

-----------------------------------------------------------------------------
(* What a running task does between two awaits.                            *)

\* An async fn is called: the task takes its arguments, the caller the handle.
Call(t, u, args) ==
    /\ Runs(t)
    /\ st[u] = "unborn"
    /\ st' = [st EXCEPT ![u] = "ready"]
    /\ holds' = [holds EXCEPT ![t] = @ \union {u}, ![u] = args]
    /\ UNCHANGED <<hangs, waits, raceVars, detached, cellVars, ready>>

Drop(t, f) ==
    /\ Runs(t)
    /\ f \in holds[t]
    /\ holds' = [holds EXCEPT ![t] = @ \ {f}]
    /\ UNCHANGED <<hangs, st, waits, raceVars, detached, cellVars, ready>>

\* task.spawn.
Detach(t, f) ==
    /\ Runs(t)
    /\ f \in holds[t] \cap Detachable
    /\ detached' = detached \union {f}
    /\ UNCHANGED <<hangs, st, holds, waits, raceVars, cellVars, ready>>

\* The body ends: the cell is resolved, every waiter is woken, and the task's
\* frames are dropped.
Finish(t, value) ==
    /\ Runs(t)
    /\ t \in Tasks \ hangs
    /\ slot' = [slot EXCEPT ![t] = TRUE]
    /\ kept' = [kept EXCEPT ![t] = value]
    /\ ready' = [ready EXCEPT ![t] = NotifyWaiters(@)]
    /\ st' = [st EXCEPT ![t] = "done"]
    /\ holds' = [holds EXCEPT ![t] = {}]
    /\ UNCHANGED <<hangs, waits, raceVars, detached>>

\* The program's last statement: its locals are dropped.  The entry point then
\* drains the executor, with the globals still in place.
MainEnds(globals) ==
    /\ st[Main] = "ready"
    /\ st' = [st EXCEPT ![Main] = "done"]
    /\ holds' = [holds EXCEPT ![Main] = globals]
    /\ UNCHANGED <<hangs, waits, raceVars, detached, cellVars, ready>>

-----------------------------------------------------------------------------
(* SharedFuture::get, under an await, a task.gather or a task.timeout.     *)

\* The fast path: the cell is filled, and its value is cloned out.
GetFilled(t, f) ==
    /\ Runs(t)
    /\ f \in holds[t]
    /\ slot[f]
    /\ holds' = [holds EXCEPT ![t] = @ \union kept[f]]
    /\ UNCHANGED <<hangs, st, waits, raceVars, detached, cellVars, ready>>

\* Mutant of GetParks: the handle is given up while its result is awaited.
GetParksReleasing(t, f, how) ==
    /\ Runs(t)
    /\ f \in holds[t]
    /\ ~slot[f]
    /\ st' = [st EXCEPT ![t] = how]
    /\ waits' = [waits EXCEPT ![t] = f]
    /\ holds' = [holds EXCEPT ![t] = @ \ {f}]
    /\ ready' = [ready EXCEPT ![f] = Park(@, t)]
    /\ UNCHANGED <<hangs, raceVars, detached, cellVars>>

GetParks(t, f, how) ==
    /\ Runs(t)
    /\ f \in holds[t]
    /\ ~slot[f]
    /\ st' = [st EXCEPT ![t] = how]
    /\ waits' = [waits EXCEPT ![t] = f]
    /\ ready' = [ready EXCEPT ![f] = Park(@, t)]
    /\ UNCHANGED <<hangs, holds, raceVars, detached, cellVars>>

GetResumes(t) ==
    /\ st[t] \in {"waiting", "timing"}
    /\ ~Aborted(t)
    /\ t \in Woken(ready[waits[t]])
    /\ st' = [st EXCEPT ![t] = "ready"]
    /\ holds' = [holds EXCEPT ![t] = @ \union kept[waits[t]]]
    /\ ready' = [ready EXCEPT ![waits[t]] = Resumed(@, t)]
    /\ waits' = [waits EXCEPT ![t] = NoFuture]
    /\ UNCHANGED <<hangs, raceVars, detached, cellVars>>

\* task.timeout: the timer fires first, and the wait is dropped.
TimesOut(t) ==
    /\ st[t] = "timing"
    /\ ~Aborted(t)
    /\ st' = [st EXCEPT ![t] = "ready"]
    /\ ready' = [ready EXCEPT ![waits[t]] = Withdraw(@, t)]
    /\ waits' = [waits EXCEPT ![t] = NoFuture]
    /\ UNCHANGED <<hangs, holds, raceVars, detached, cellVars>>

-----------------------------------------------------------------------------
(* task.race.                                                              *)

\* A resolver task is spawned for every future; an element that is no future
\* wins at once.
RaceStart(t, raced, instant) ==
    /\ Runs(t)
    /\ t \in Racers
    /\ raced # {}
    /\ ~Racing(t)
    /\ st' = [st EXCEPT ![t] = "racing"]
    /\ winner' = [winner EXCEPT ![t] = IF instant THEN Plain ELSE NoFuture]
    /\ resolver' = [r \in Resolvers |->
                       IF r[1] = t /\ r[2] \in raced THEN "spawned" ELSE resolver[r]]
    /\ UNCHANGED <<hangs, holds, waits, detached, cellVars, ready>>

ResolverParks(r) ==
    /\ resolver[r] = "spawned"
    /\ ~slot[r[2]]
    /\ resolver' = [resolver EXCEPT ![r] = "waiting"]
    /\ ready' = [ready EXCEPT ![r[2]] = Park(@, r)]
    /\ UNCHANGED <<hangs, st, holds, waits, winner, detached, cellVars>>

\* Mutant of ResolverWins: only a future that was resolved before the race wins.
ResolverWinsAtOnce(r) ==
    /\ \/ resolver[r] = "spawned" /\ slot[r[2]]
       \/ resolver[r] = "waiting" /\ r \in Woken(ready[r[2]])
    /\ winner' = [winner EXCEPT ![r[1]] =
                     IF @ = NoFuture /\ resolver[r] = "spawned" THEN r[2] ELSE @]
    /\ resolver' = [resolver EXCEPT ![r] = "none"]
    /\ ready' = [ready EXCEPT ![r[2]] = Resumed(@, r)]
    /\ UNCHANGED <<hangs, st, holds, waits, detached, cellVars>>

\* The future is resolved: so is the winner's cell, unless it already was.
ResolverWins(r) ==
    /\ \/ resolver[r] = "spawned" /\ slot[r[2]]
       \/ resolver[r] = "waiting" /\ r \in Woken(ready[r[2]])
    /\ winner' = [winner EXCEPT ![r[1]] = IF @ = NoFuture THEN r[2] ELSE @]
    /\ resolver' = [resolver EXCEPT ![r] = "none"]
    /\ ready' = [ready EXCEPT ![r[2]] = Resumed(@, r)]
    /\ UNCHANGED <<hangs, st, holds, waits, detached, cellVars>>

\* Mutant of DropGuards: the losers' resolvers are left to themselves.
DropGuardsForgets(t) == UNCHANGED resolver

\* The AbortOnDrop guards of a race.
DropGuards(t) ==
    resolver' = [r \in Resolvers |->
                    IF r[1] = t /\ resolver[r] # "none" THEN "aborted" ELSE resolver[r]]

\* The value that won comes with the handles inside it.
RaceReturns(t) ==
    /\ st[t] = "racing"
    /\ ~Aborted(t)
    /\ winner[t] # NoFuture
    /\ st' = [st EXCEPT ![t] = "ready"]
    /\ holds' = [holds EXCEPT ![t] = @ \union
                     IF winner[t] \in Tasks THEN kept[winner[t]] ELSE {}]
    /\ DropGuards(t)
    /\ UNCHANGED <<hangs, waits, winner, detached, cellVars, ready>>

-----------------------------------------------------------------------------
(* The executor drops what has been aborted.                               *)

\* The task's frames, its wait and the guards of its race are dropped.
Reap(t) ==
    /\ Aborted(t)
    /\ st' = [st EXCEPT ![t] = "cancelled"]
    /\ holds' = [holds EXCEPT ![t] = {}]
    /\ waits' = [waits EXCEPT ![t] = NoFuture]
    /\ ready' = [f \in Tasks |-> IF f = waits[t] THEN Withdraw(ready[f], t) ELSE ready[f]]
    /\ DropGuards(t)
    /\ UNCHANGED <<hangs, winner, detached, cellVars>>

ReapResolver(r) ==
    /\ resolver[r] = "aborted"
    /\ resolver' = [resolver EXCEPT ![r] = "none"]
    /\ ready' = [ready EXCEPT ![r[2]] = Withdraw(@, r)]
    /\ UNCHANGED <<hangs, st, holds, waits, winner, detached, cellVars>>

-----------------------------------------------------------------------------
Step(t) ==
    \/ \E u \in Tasks, args \in SUBSET holds[t] : Call(t, u, args)
    \/ \E f \in Tasks : Drop(t, f) \/ Detach(t, f) \/ GetFilled(t, f)
    \/ \E f \in Tasks, how \in {"waiting", "timing"} : GetParks(t, f, how)
    \/ \E raced \in SUBSET holds[t], instant \in BOOLEAN : RaceStart(t, raced, instant)

Ends(t) == \E value \in SUBSET holds[t] : Finish(t, value)

Resumes(t) == GetResumes(t) \/ TimesOut(t) \/ RaceReturns(t)

Resolver(r) == ResolverParks(r) \/ ResolverWins(r) \/ ReapResolver(r)

Next ==
    \/ \E t \in All : Step(t) \/ Ends(t) \/ Resumes(t)
    \/ \E globals \in SUBSET holds[Main] : MainEnds(globals)
    \/ \E t \in Tasks : Reap(t)
    \/ \E r \in Resolvers : Resolver(r)

Spec == Init /\ [][Next]_vars

\* The executor runs every task that is ready, woken or aborted, the timer
\* fires, and a body that does not hang ends: it does not go round for ever
\* calling, awaiting and racing (the strong fairness of Ends).
Fairness ==
    /\ \A t \in Tasks : SF_vars(Ends(t)) /\ WF_vars(Reap(t))
    /\ \A t \in All : WF_vars(Resumes(t))
    /\ \A r \in Resolvers : WF_vars(Resolver(r))

FairSpec == Spec /\ Fairness

-----------------------------------------------------------------------------
(* Properties.                                                             *)

\* Every variable has its type.
TypeOK ==
    /\ hangs \subseteq MayHang
    /\ st \in [All -> {"unborn", "ready", "waiting", "timing", "racing", "done", "cancelled"}]
    /\ holds \in [All -> SUBSET Tasks]
    /\ waits \in [All -> Tasks \union {NoFuture}]
    /\ winner \in [All -> Tasks \union {NoFuture, Plain}]
    /\ resolver \in [Resolvers -> {"none", "spawned", "waiting", "aborted"}]
    /\ detached \subseteq Tasks
    /\ slot \in [Tasks -> BOOLEAN]
    /\ kept \in [Tasks -> SUBSET Tasks]
    /\ ready \in [Tasks -> NotifyType(All \union Resolvers)]

\* ResultCell::get, "to avoid lost wakeups": nobody sleeps on a filled cell.
NoWaiterStranded == \A f \in Tasks : slot[f] => Waiting(ready[f]) = {}

\* Nobody waits for a result that will never come because its task was
\* cancelled: whatever is awaited, also through a race or a timeout and also by
\* a task that is itself being cancelled, is neither aborted nor cancelled.
AwaitedIsAlive ==
    /\ \A t \in All : waits[t] \in Tasks =>
          st[waits[t]] # "cancelled" /\ ~Aborted(waits[t])
    /\ \A r \in Resolvers : resolver[r] # "none" =>
          st[r[2]] # "cancelled" /\ ~Aborted(r[2])

\* Whoever sleeps on a future is going to be woken by it.
WaitersSound == TypeOK /\ NoWaiterStranded /\ AwaitedIsAlive

\* A future whose last handle was dropped never gets a handle again, so that an
\* abort is never regretted.
AbortIsFinal ==
    [][\A f \in Tasks : st[f] # "unborn" /\ f \notin Handles => f \notin Handles']_vars

\* What the program can still reach: from the main task's frames and the
\* globals, through the frames of tasks and the results of futures, and what it
\* has detached.
Owned ==
    LET closed == {S \in SUBSET Tasks : \A t \in S : holds[t] \union kept[t] \subseteq S}
        roots == holds[Main] \union detached
    IN  {t \in Tasks : \A S \in closed : roots \subseteq S => t \in S}

\* Structured concurrency: a task the program can no longer reach ends, though
\* its body hangs and whatever tasks hold handles on each other below it; no
\* task is orphaned.
OrphansEnd == \A t \in Tasks : (Live(t) /\ t \notin Owned) ~> ~Live(t)

\* task.spawn "runs to completion": a detached task is never cancelled, though
\* every handle on it is dropped, and completes unless its body or one it awaits
\* never does.
DetachedCompletes ==
    \A t \in Detachable : (hangs = {} /\ t \in detached) ~> (st[t] = "done")

\* What is awaited arrives: an await or a race returns, unless some body never
\* ends.
AwaitsReturn ==
    \A t \in All : (hangs = {} /\ st[t] \in {"waiting", "racing"})
                      ~> (st[t] \notin {"waiting", "racing"})
=============================================================================
