------------------------- MODULE SharedFutureProofs -------------------------
(***************************************************************************)
(* The promises of SharedFuture for any set of tasks: nobody sleeps on a   *)
(* future that is resolved or that was cancelled, and a task whose last    *)
(* handle was dropped is never reached again.                              *)
(***************************************************************************)
EXTENDS SharedFuture, NotifyProofs

-----------------------------------------------------------------------------
(* The inductive invariant.                                                *)

\* A task awaits a future exactly while it is suspended in get(), and its
\* frames hold the handle.
WaitersHold ==
    \A t \in All :
        /\ waits[t] \in Tasks => st[t] \in {"waiting", "timing"} /\ waits[t] \in holds[t]
        /\ st[t] \in {"waiting", "timing"} => waits[t] \in Tasks

\* A cell is filled by the end of its task, and an empty one keeps no handle.
CellsFilled ==
    \A f \in Tasks : IF slot[f] THEN st[f] = "done" ELSE kept[f] = {}

\* Whoever is in the queue of a cell, asleep or woken, is there to await it.
InQueue(n, T, Q) ==
    /\ n \in NotifyType(T)
    /\ Orderly(n)
    /\ Waiting(n) \union Woken(n) \subseteq Q

Sleepers(f) ==
    {t \in All : waits[t] = f}
      \union {r \in Resolvers : r[2] = f /\ resolver[r] \in {"waiting", "aborted"}}

QueuesSound ==
    \A f \in Tasks : InQueue(ready[f], All \union Resolvers, Sleepers(f))

\* What a handle reaches has been called and was not cancelled.
HandlesAlive == \A f \in Handles : st[f] # "unborn" /\ st[f] # "cancelled"

FutureInv ==
    TypeOK /\ WaitersHold /\ CellsFilled /\ QueuesSound /\ NoWaiterStranded /\ HandlesAlive

-----------------------------------------------------------------------------
(* Handles is the least set that holds Roots and is closed under kept.     *)

\* It holds the roots that are tasks, and what its members keep.
LEMMA HandlesClosed ==
    ASSUME TypeOK
    PROVE  /\ Handles \subseteq Tasks
           /\ \A g \in Handles : kept[g] \subseteq Handles
           /\ Roots \cap Tasks \subseteq Handles
<1>1. ASSUME NEW g \in Handles, NEW f \in kept[g] PROVE f \in Handles
  <2>1. g \in Tasks /\ f \in Tasks
    BY <1>1 DEF Handles, TypeOK
  <2>2. ASSUME NEW S \in SUBSET Tasks, \A h \in S : kept[h] \subseteq S, Roots \subseteq S
        PROVE  f \in S
    <3>1. g \in S
      BY <1>1, <2>2 DEF Handles
    <3> QED
      BY <1>1, <2>2, <3>1
  <2> QED
    BY <2>1, <2>2 DEF Handles
<1>2. Roots \cap Tasks \subseteq Handles
  BY DEF Handles
<1> QED
  BY <1>1, <1>2 DEF Handles

\* Every frame, resolver and winner of a race keeps its futures alive.
LEMMA HandlesHold ==
    ASSUME TypeOK
    PROVE  /\ \A t \in All : Live(t) \/ t = Main => holds[t] \subseteq Handles
           /\ \A r \in Resolvers : resolver[r] # "none" => r[2] \in Handles
           /\ \A t \in All : Racing(t) /\ winner[t] \in Tasks => kept[winner[t]] \subseteq Handles
<1>1. ASSUME NEW t \in All, Live(t) \/ t = Main PROVE holds[t] \subseteq Roots \cap Tasks
  BY <1>1 DEF Roots, TypeOK
<1>2. ASSUME NEW r \in Resolvers, resolver[r] # "none" PROVE r[2] \in Roots \cap Tasks
  <2>1. r[2] \in Tasks
    BY DEF Resolvers
  <2> QED
    BY <1>2, <2>1 DEF Roots
<1>3. ASSUME NEW t \in All, Racing(t), winner[t] \in Tasks
      PROVE  kept[winner[t]] \subseteq Roots \cap Tasks
  <2>1. kept[winner[t]] \subseteq Tasks
    BY <1>3 DEF TypeOK
  <2>2. kept[winner[t]] \in {kept[winner[v]] : v \in {u \in All : Racing(u) /\ winner[u] \in Tasks}}
    BY <1>3
  <2> QED
    BY <2>1, <2>2 DEF Roots
<1> QED
  BY <1>1, <1>2, <1>3, HandlesClosed

\* To bound the handles of the next state by X it is enough that X holds its
\* frames, resolvers and winners, and is closed.
LEMMA HandlesWithin ==
    ASSUME NEW X \in SUBSET Tasks,
           \A t \in All : Live(t)' \/ t = Main => holds'[t] \subseteq X,
           \A r \in Resolvers : resolver'[r] # "none" => r[2] \in X,
           \A t \in All : Racing(t)' /\ winner'[t] \in Tasks => kept'[winner'[t]] \subseteq X,
           \A g \in X : kept'[g] \subseteq X
    PROVE  Handles' \subseteq X
<1>1. ASSUME NEW f \in Roots' PROVE f \in X
  <2>1. CASE f \in UNION {holds'[t] : t \in {u \in All : Live(u)' \/ u = Main}}
    BY <2>1
  <2>2. CASE f \in {r[2] : r \in {q \in Resolvers : resolver'[q] # "none"}}
    BY <2>2
  <2>3. CASE f \in UNION {kept'[winner'[t]] :
                            t \in {u \in All : Racing(u)' /\ winner'[u] \in Tasks}}
    BY <2>3
  <2> QED
    BY <1>1, <2>1, <2>2, <2>3 DEF Roots
<1> QED
  BY <1>1 DEF Handles

\* No step makes a handle out of nothing: but for the future of a new call, what
\* is reached after a step was reached before it.
LEMMA HandlesStep ==
    ASSUME TypeOK, WaitersHold, CellsFilled, [Next]_vars
    PROVE  Handles' \subseteq Handles \union {u \in Tasks : st[u] = "unborn" /\ st'[u] = "ready"}
<1> USE DEF raceVars, cellVars, Runs
<1>a. /\ st \in [All -> {"unborn", "ready", "waiting", "timing", "racing", "done", "cancelled"}]
      /\ holds \in [All -> SUBSET Tasks]
      /\ waits \in [All -> Tasks \union {NoFuture}]
      /\ winner \in [All -> Tasks \union {NoFuture, Plain}]
      /\ resolver \in [Resolvers -> {"none", "spawned", "waiting", "aborted"}]
      /\ kept \in [Tasks -> SUBSET Tasks]
  BY DEF TypeOK
<1>b. /\ Handles \subseteq Tasks
      /\ \A g \in Handles : kept[g] \subseteq Handles
  BY HandlesClosed
<1>c. /\ \A t \in All : Live(t) \/ t = Main => holds[t] \subseteq Handles
      /\ \A r \in Resolvers : resolver[r] # "none" => r[2] \in Handles
      /\ \A t \in All : Racing(t) /\ winner[t] \in Tasks => kept[winner[t]] \subseteq Handles
  BY HandlesHold
<1>d. /\ NoFuture \notin Tasks /\ Plain \notin Tasks /\ Main \notin Tasks
      /\ Main \in All /\ Tasks \subseteq All
      /\ \A r \in Resolvers : r[1] \in All /\ r[2] \in Tasks
  BY FutureAssumption DEF All, Resolvers
<1>1. ASSUME NEW t \in All, NEW u \in Tasks, NEW args \in SUBSET holds[t], Call(t, u, args)
      PROVE  Handles' \subseteq Handles \union {u} /\ st[u] = "unborn" /\ st'[u] = "ready"
  <2>1. kept' = kept /\ winner' = winner /\ resolver' = resolver /\ kept[u] = {}
    BY <1>1 DEF Call, CellsFilled, FutureAssumption
  <2>2. \A v \in All : Live(v)' \/ v = Main => holds'[v] \subseteq Handles \union {u}
    BY <1>a, <1>c, <1>d, <1>1 DEF Call, Live
  <2>3. \A r \in Resolvers : resolver'[r] # "none" => r[2] \in Handles \union {u}
    BY <1>c, <2>1
  <2>4. \A v \in All : Racing(v)' /\ winner'[v] \in Tasks => kept'[winner'[v]] \subseteq Handles \union {u}
    BY <1>a, <1>c, <1>1, <2>1 DEF Call, Racing
  <2>5. \A g \in Handles \union {u} : kept'[g] \subseteq Handles \union {u}
    BY <1>b, <2>1
  <2>6. Handles \union {u} \in SUBSET Tasks
    BY <1>b, <1>1
  <2>7. Handles' \subseteq Handles \union {u}
    BY <2>2, <2>3, <2>4, <2>5, <2>6, HandlesWithin
  <2> QED
    BY <1>a, <1>d, <1>1, <2>7 DEF Call
<1>2. ASSUME NEW t \in All, NEW f \in Tasks, Drop(t, f)
      PROVE  Handles' \subseteq Handles
  <2>1. \A v \in All : Live(v)' \/ v = Main => holds'[v] \subseteq Handles
    BY <1>a, <1>b, <1>c, <1>d, <1>2 DEF Drop, Live, Racing
  <2>2. \A q \in Resolvers : resolver'[q] # "none" => q[2] \in Handles
    BY <1>a, <1>c, <1>d, <1>2 DEF Drop, Live
  <2>3. \A v \in All : Racing(v)' /\ winner'[v] \in Tasks => kept'[winner'[v]] \subseteq Handles
    BY <1>a, <1>b, <1>c, <1>d, <1>2 DEF Drop, Racing, Live
  <2>4. \A g \in Handles : kept'[g] \subseteq Handles
    BY <1>a, <1>b, <1>c, <1>d, <1>2 DEF Drop, Live
  <2> QED
    BY <1>b, <2>1, <2>2, <2>3, <2>4, HandlesWithin
<1>3. ASSUME NEW t \in All, NEW f \in Tasks, Detach(t, f)
      PROVE  Handles' \subseteq Handles
  <2>1. \A v \in All : Live(v)' \/ v = Main => holds'[v] \subseteq Handles
    BY <1>a, <1>b, <1>c, <1>d, <1>3 DEF Detach, Live, Racing
  <2>2. \A q \in Resolvers : resolver'[q] # "none" => q[2] \in Handles
    BY <1>a, <1>c, <1>d, <1>3 DEF Detach, Live
  <2>3. \A v \in All : Racing(v)' /\ winner'[v] \in Tasks => kept'[winner'[v]] \subseteq Handles
    BY <1>a, <1>b, <1>c, <1>d, <1>3 DEF Detach, Racing, Live
  <2>4. \A g \in Handles : kept'[g] \subseteq Handles
    BY <1>a, <1>b, <1>c, <1>d, <1>3 DEF Detach, Live
  <2> QED
    BY <1>b, <2>1, <2>2, <2>3, <2>4, HandlesWithin
<1>4. ASSUME NEW t \in All, NEW f \in Tasks, GetFilled(t, f)
      PROVE  Handles' \subseteq Handles
  <2>1. \A v \in All : Live(v)' \/ v = Main => holds'[v] \subseteq Handles
    BY <1>a, <1>b, <1>c, <1>d, <1>4 DEF GetFilled, Live, Racing
  <2>2. \A q \in Resolvers : resolver'[q] # "none" => q[2] \in Handles
    BY <1>a, <1>c, <1>d, <1>4 DEF GetFilled, Live
  <2>3. \A v \in All : Racing(v)' /\ winner'[v] \in Tasks => kept'[winner'[v]] \subseteq Handles
    BY <1>a, <1>b, <1>c, <1>d, <1>4 DEF GetFilled, Racing, Live
  <2>4. \A g \in Handles : kept'[g] \subseteq Handles
    BY <1>a, <1>b, <1>c, <1>d, <1>4 DEF GetFilled, Live
  <2> QED
    BY <1>b, <2>1, <2>2, <2>3, <2>4, HandlesWithin
<1>5. ASSUME NEW t \in All, NEW f \in Tasks, NEW how \in {"waiting", "timing"}, GetParks(t, f, how)
      PROVE  Handles' \subseteq Handles
  <2>1. \A v \in All : Live(v)' \/ v = Main => holds'[v] \subseteq Handles
    BY <1>a, <1>b, <1>c, <1>d, <1>5 DEF GetParks, Live, Racing
  <2>2. \A q \in Resolvers : resolver'[q] # "none" => q[2] \in Handles
    BY <1>a, <1>c, <1>d, <1>5 DEF GetParks, Live
  <2>3. \A v \in All : Racing(v)' /\ winner'[v] \in Tasks => kept'[winner'[v]] \subseteq Handles
    BY <1>a, <1>b, <1>c, <1>d, <1>5 DEF GetParks, Racing, Live
  <2>4. \A g \in Handles : kept'[g] \subseteq Handles
    BY <1>a, <1>b, <1>c, <1>d, <1>5 DEF GetParks, Live
  <2> QED
    BY <1>b, <2>1, <2>2, <2>3, <2>4, HandlesWithin
<1>6. ASSUME NEW t \in All, NEW raced \in SUBSET holds[t], NEW instant \in BOOLEAN, RaceStart(t, raced, instant)
      PROVE  Handles' \subseteq Handles
  <2>1. \A v \in All : Live(v)' \/ v = Main => holds'[v] \subseteq Handles
    BY <1>a, <1>b, <1>c, <1>d, <1>6 DEF RaceStart, Live, Racing
  <2>2. \A q \in Resolvers : resolver'[q] # "none" => q[2] \in Handles
    BY <1>a, <1>c, <1>d, <1>6 DEF RaceStart, Live
  <2>3. \A v \in All : Racing(v)' /\ winner'[v] \in Tasks => kept'[winner'[v]] \subseteq Handles
    BY <1>a, <1>b, <1>c, <1>d, <1>6 DEF RaceStart, Racing, Live
  <2>4. \A g \in Handles : kept'[g] \subseteq Handles
    BY <1>a, <1>b, <1>c, <1>d, <1>6 DEF RaceStart, Live
  <2> QED
    BY <1>b, <2>1, <2>2, <2>3, <2>4, HandlesWithin
<1>7. ASSUME NEW t \in All, NEW value \in SUBSET holds[t], Finish(t, value)
      PROVE  Handles' \subseteq Handles
  <2>1. \A v \in All : Live(v)' \/ v = Main => holds'[v] \subseteq Handles
    BY <1>a, <1>b, <1>c, <1>d, <1>7 DEF Finish, Live, Racing
  <2>2. \A q \in Resolvers : resolver'[q] # "none" => q[2] \in Handles
    BY <1>a, <1>c, <1>d, <1>7 DEF Finish, Live
  <2>3. \A v \in All : Racing(v)' /\ winner'[v] \in Tasks => kept'[winner'[v]] \subseteq Handles
    BY <1>a, <1>b, <1>c, <1>d, <1>7 DEF Finish, Racing, Live
  <2>4. \A g \in Handles : kept'[g] \subseteq Handles
    BY <1>a, <1>b, <1>c, <1>d, <1>7 DEF Finish, Live
  <2> QED
    BY <1>b, <2>1, <2>2, <2>3, <2>4, HandlesWithin
<1>8. ASSUME NEW t \in All, GetResumes(t)
      PROVE  Handles' \subseteq Handles
  <2>1. \A v \in All : Live(v)' \/ v = Main => holds'[v] \subseteq Handles
    BY <1>a, <1>b, <1>c, <1>d, <1>8 DEF GetResumes, Live, Racing, WaitersHold
  <2>2. \A q \in Resolvers : resolver'[q] # "none" => q[2] \in Handles
    BY <1>a, <1>c, <1>d, <1>8 DEF GetResumes, Live
  <2>3. \A v \in All : Racing(v)' /\ winner'[v] \in Tasks => kept'[winner'[v]] \subseteq Handles
    BY <1>a, <1>b, <1>c, <1>d, <1>8 DEF GetResumes, Racing, Live
  <2>4. \A g \in Handles : kept'[g] \subseteq Handles
    BY <1>a, <1>b, <1>c, <1>d, <1>8 DEF GetResumes, Live
  <2> QED
    BY <1>b, <2>1, <2>2, <2>3, <2>4, HandlesWithin
<1>9. ASSUME NEW t \in All, TimesOut(t)
      PROVE  Handles' \subseteq Handles
  <2>1. \A v \in All : Live(v)' \/ v = Main => holds'[v] \subseteq Handles
    BY <1>a, <1>b, <1>c, <1>d, <1>9 DEF TimesOut, Live, Racing
  <2>2. \A q \in Resolvers : resolver'[q] # "none" => q[2] \in Handles
    BY <1>a, <1>c, <1>d, <1>9 DEF TimesOut, Live
  <2>3. \A v \in All : Racing(v)' /\ winner'[v] \in Tasks => kept'[winner'[v]] \subseteq Handles
    BY <1>a, <1>b, <1>c, <1>d, <1>9 DEF TimesOut, Racing, Live
  <2>4. \A g \in Handles : kept'[g] \subseteq Handles
    BY <1>a, <1>b, <1>c, <1>d, <1>9 DEF TimesOut, Live
  <2> QED
    BY <1>b, <2>1, <2>2, <2>3, <2>4, HandlesWithin
<1>10. ASSUME NEW t \in All, RaceReturns(t)
      PROVE  Handles' \subseteq Handles
  <2>1. \A v \in All : Live(v)' \/ v = Main => holds'[v] \subseteq Handles
    BY <1>a, <1>b, <1>c, <1>d, <1>10 DEF RaceReturns, DropGuards, Live, Racing
  <2>2. \A q \in Resolvers : resolver'[q] # "none" => q[2] \in Handles
    BY <1>a, <1>c, <1>d, <1>10 DEF RaceReturns, DropGuards, Live
  <2>3. \A v \in All : Racing(v)' /\ winner'[v] \in Tasks => kept'[winner'[v]] \subseteq Handles
    BY <1>a, <1>b, <1>c, <1>d, <1>10 DEF RaceReturns, DropGuards, Racing, Live
  <2>4. \A g \in Handles : kept'[g] \subseteq Handles
    BY <1>a, <1>b, <1>c, <1>d, <1>10 DEF RaceReturns, DropGuards, Live
  <2> QED
    BY <1>b, <2>1, <2>2, <2>3, <2>4, HandlesWithin
<1>11. ASSUME NEW globals \in SUBSET holds[Main], MainEnds(globals)
      PROVE  Handles' \subseteq Handles
  <2>1. \A v \in All : Live(v)' \/ v = Main => holds'[v] \subseteq Handles
    BY <1>a, <1>b, <1>c, <1>d, <1>11 DEF MainEnds, Live, Racing
  <2>2. \A q \in Resolvers : resolver'[q] # "none" => q[2] \in Handles
    BY <1>a, <1>c, <1>d, <1>11 DEF MainEnds, Live
  <2>3. \A v \in All : Racing(v)' /\ winner'[v] \in Tasks => kept'[winner'[v]] \subseteq Handles
    BY <1>a, <1>b, <1>c, <1>d, <1>11 DEF MainEnds, Racing, Live
  <2>4. \A g \in Handles : kept'[g] \subseteq Handles
    BY <1>a, <1>b, <1>c, <1>d, <1>11 DEF MainEnds, Live
  <2> QED
    BY <1>b, <2>1, <2>2, <2>3, <2>4, HandlesWithin
<1>12. ASSUME NEW t \in Tasks, Reap(t)
      PROVE  Handles' \subseteq Handles
  <2>1. \A v \in All : Live(v)' \/ v = Main => holds'[v] \subseteq Handles
    BY <1>a, <1>b, <1>c, <1>d, <1>12 DEF Reap, DropGuards, Live, Racing
  <2>2. \A q \in Resolvers : resolver'[q] # "none" => q[2] \in Handles
    BY <1>a, <1>c, <1>d, <1>12 DEF Reap, DropGuards, Live
  <2>3. \A v \in All : Racing(v)' /\ winner'[v] \in Tasks => kept'[winner'[v]] \subseteq Handles
    BY <1>a, <1>b, <1>c, <1>d, <1>12 DEF Reap, DropGuards, Racing, Live
  <2>4. \A g \in Handles : kept'[g] \subseteq Handles
    BY <1>a, <1>b, <1>c, <1>d, <1>12 DEF Reap, DropGuards, Live
  <2> QED
    BY <1>b, <2>1, <2>2, <2>3, <2>4, HandlesWithin
<1>13. ASSUME NEW r \in Resolvers, ResolverParks(r)
      PROVE  Handles' \subseteq Handles
  <2>1. \A v \in All : Live(v)' \/ v = Main => holds'[v] \subseteq Handles
    BY <1>a, <1>b, <1>c, <1>d, <1>13 DEF ResolverParks, Live, Racing
  <2>2. \A q \in Resolvers : resolver'[q] # "none" => q[2] \in Handles
    BY <1>a, <1>c, <1>d, <1>13 DEF ResolverParks, Live
  <2>3. \A v \in All : Racing(v)' /\ winner'[v] \in Tasks => kept'[winner'[v]] \subseteq Handles
    BY <1>a, <1>b, <1>c, <1>d, <1>13 DEF ResolverParks, Racing, Live
  <2>4. \A g \in Handles : kept'[g] \subseteq Handles
    BY <1>a, <1>b, <1>c, <1>d, <1>13 DEF ResolverParks, Live
  <2> QED
    BY <1>b, <2>1, <2>2, <2>3, <2>4, HandlesWithin
<1>14. ASSUME NEW r \in Resolvers, ResolverWins(r)
      PROVE  Handles' \subseteq Handles
  <2>1. \A v \in All : Live(v)' \/ v = Main => holds'[v] \subseteq Handles
    BY <1>a, <1>b, <1>c, <1>d, <1>14 DEF ResolverWins, Live, Racing
  <2>2. \A q \in Resolvers : resolver'[q] # "none" => q[2] \in Handles
    BY <1>a, <1>c, <1>d, <1>14 DEF ResolverWins, Live
  <2>3. \A v \in All : Racing(v)' /\ winner'[v] \in Tasks => kept'[winner'[v]] \subseteq Handles
    BY <1>a, <1>b, <1>c, <1>d, <1>14 DEF ResolverWins, Racing, Live
  <2>4. \A g \in Handles : kept'[g] \subseteq Handles
    BY <1>a, <1>b, <1>c, <1>d, <1>14 DEF ResolverWins, Live
  <2> QED
    BY <1>b, <2>1, <2>2, <2>3, <2>4, HandlesWithin
<1>15. ASSUME NEW r \in Resolvers, ReapResolver(r)
      PROVE  Handles' \subseteq Handles
  <2>1. \A v \in All : Live(v)' \/ v = Main => holds'[v] \subseteq Handles
    BY <1>a, <1>b, <1>c, <1>d, <1>15 DEF ReapResolver, Live, Racing
  <2>2. \A q \in Resolvers : resolver'[q] # "none" => q[2] \in Handles
    BY <1>a, <1>c, <1>d, <1>15 DEF ReapResolver, Live
  <2>3. \A v \in All : Racing(v)' /\ winner'[v] \in Tasks => kept'[winner'[v]] \subseteq Handles
    BY <1>a, <1>b, <1>c, <1>d, <1>15 DEF ReapResolver, Racing, Live
  <2>4. \A g \in Handles : kept'[g] \subseteq Handles
    BY <1>a, <1>b, <1>c, <1>d, <1>15 DEF ReapResolver, Live
  <2> QED
    BY <1>b, <2>1, <2>2, <2>3, <2>4, HandlesWithin
<1>16. CASE UNCHANGED vars
  <2>1. Handles' = Handles
    BY <1>16 DEF vars, Handles, Roots, Live, Racing
  <2> QED
    BY <2>1
<1> QED
  BY <1>1, <1>2, <1>3, <1>4, <1>5, <1>6, <1>7, <1>8, <1>9, <1>10, <1>11, <1>12, <1>13,
     <1>14, <1>15, <1>16
  DEF Next, Step, Ends, Resumes, Resolver

-----------------------------------------------------------------------------
(* What the operations of a Notify do to a queue of sleepers.              *)

\* A sleeper more.
LEMMA QueuePark ==
    ASSUME NEW n, NEW T, NEW Q, InQueue(n, T, Q), NEW t \in T, t \notin Q,
           NEW P, Q \union {t} \subseteq P
    PROVE  InQueue(Park(n, t), T, P)
<1>1. n \in NotifyType(T) /\ Orderly(n) /\ t \notin Waiting(n) /\ t \notin Woken(n)
  BY DEF InQueue
<1>2. /\ Park(n, t) \in NotifyType(T) /\ Orderly(Park(n, t))
      /\ Waiting(Park(n, t)) = Waiting(n) \union {t}
      /\ Woken(Park(n, t)) = Woken(n)
  BY <1>1, ParkOK
<1> QED
  BY <1>2 DEF InQueue

\* A sleeper that was woken runs.
LEMMA QueueResumed ==
    ASSUME NEW n, NEW T, NEW Q, InQueue(n, T, Q), NEW t, t \in Woken(n) \/ t \notin Q,
           NEW P, Q \ {t} \subseteq P
    PROVE  /\ InQueue(Resumed(n, t), T, P)
           /\ Waiting(Resumed(n, t)) \subseteq Waiting(n)
<1>1. n \in NotifyType(T) /\ Orderly(n) /\ Waiting(n) \union Woken(n) \subseteq Q
  BY DEF InQueue
<1>2. /\ Resumed(n, t) \in NotifyType(T) /\ Orderly(Resumed(n, t))
      /\ Waiting(Resumed(n, t)) = Waiting(n)
      /\ Woken(Resumed(n, t)) = Woken(n) \ {t}
  BY <1>1, ResumedOK
<1>3. t \notin Waiting(n)
  BY <1>1 DEF Orderly, Waiting, Woken
<1> QED
  BY <1>1, <1>2, <1>3 DEF InQueue

\* A sleeper is dropped where it waits.
LEMMA QueueWithdraw ==
    ASSUME NEW n, NEW T, NEW Q, InQueue(n, T, Q), NEW t, NEW P, Q \ {t} \subseteq P
    PROVE  /\ InQueue(Withdraw(n, t), T, P)
           /\ Waiting(Withdraw(n, t)) \subseteq Waiting(n)
<1> DEFINE m == Withdraw(n, t)
<1>1. n \in NotifyType(T) /\ Orderly(n) /\ Waiting(n) \union Woken(n) \subseteq Q
  BY DEF InQueue
<1>2. /\ m \in NotifyType(T) /\ Orderly(m)
      /\ m.all = n.all \ {t}
      /\ \/ Waiting(m) = Waiting(n) \ {t} /\ m.one = n.one \ {t}
         \/ \E u \in Waiting(n) \ {t} : /\ Waiting(m) = Waiting(n) \ {t, u}
                                        /\ m.one = (n.one \ {t}) \union {u}
  BY <1>1, WithdrawOK
<1> HIDE DEF m
<1>3. Waiting(m) \subseteq Waiting(n) \ {t}
  BY <1>2
<1>4. Woken(m) \subseteq (Waiting(n) \union Woken(n)) \ {t}
  BY <1>2 DEF Woken
<1>5. InQueue(m, T, P)
  BY <1>1, <1>2, <1>3, <1>4 DEF InQueue
<1> QED
  BY <1>3, <1>5 DEF m

\* Everyone is woken.
LEMMA QueueNotifyAll ==
    ASSUME NEW n, NEW T, NEW Q, InQueue(n, T, Q), NEW P, Q \subseteq P
    PROVE  InQueue(NotifyWaiters(n), T, P) /\ Waiting(NotifyWaiters(n)) = {}
<1>1. n \in NotifyType(T) /\ Waiting(n) \union Woken(n) \subseteq Q
  BY DEF InQueue
<1>2. /\ NotifyWaiters(n) \in NotifyType(T) /\ Orderly(NotifyWaiters(n))
      /\ Waiting(NotifyWaiters(n)) = {}
      /\ Woken(NotifyWaiters(n)) = Woken(n) \union Waiting(n)
  BY <1>1, NotifyWaitersOK
<1> QED
  BY <1>1, <1>2 DEF InQueue

\* A queue is left alone.
LEMMA QueueSame ==
    ASSUME NEW n, NEW T, NEW Q, InQueue(n, T, Q), NEW P, Q \subseteq P
    PROVE  InQueue(n, T, P)
  BY DEF InQueue

-----------------------------------------------------------------------------
(* Every action keeps the invariant.                                       *)

\* Nobody joins or leaves a queue, or finds it shut, but by the operation o on
\* the queue of one future.
LEMMA QueuesStep ==
    ASSUME QueuesSound, NoWaiterStranded, TypeOK, NEW f, NEW n,
           slot' = slot,
           f \in Tasks => /\ InQueue(n, All \union Resolvers, Sleepers(f)')
                          /\ slot[f] => Waiting(n) \subseteq Waiting(ready[f]),
           \A g \in Tasks : ready'[g] = IF g = f THEN n ELSE ready[g],
           \A g \in Tasks \ {f} : Sleepers(g) \subseteq Sleepers(g)'
    PROVE  QueuesSound' /\ NoWaiterStranded'
<1>1. ASSUME NEW g \in Tasks
      PROVE  /\ InQueue(ready'[g], All \union Resolvers, Sleepers(g)')
             /\ slot'[g] => Waiting(ready'[g]) = {}
  <2>1. CASE g = f
    BY <2>1 DEF NoWaiterStranded
  <2>2. CASE g # f
    <3>1. ready'[g] = ready[g] /\ InQueue(ready[g], All \union Resolvers, Sleepers(g))
      BY <2>2 DEF QueuesSound
    <3>2. InQueue(ready[g], All \union Resolvers, Sleepers(g)')
      BY <2>2, <3>1, QueueSame
    <3> QED
      BY <3>1, <3>2 DEF NoWaiterStranded
  <2> QED
    BY <2>1, <2>2
<1> QED
  BY <1>1 DEF QueuesSound, NoWaiterStranded

\* FutureInv is kept by every step.
LEMMA FutureStep ==
    ASSUME FutureInv, [Next]_vars
    PROVE  FutureInv'
<1> USE DEF raceVars, cellVars, Runs
<1>a. TypeOK /\ WaitersHold /\ CellsFilled /\ QueuesSound /\ NoWaiterStranded /\ HandlesAlive
  BY DEF FutureInv
<1>d. /\ NoFuture \notin Tasks /\ Plain \notin Tasks /\ Main \notin Tasks
      /\ Main \in All /\ Tasks \subseteq All
      /\ \A r \in Resolvers : r[1] \in All /\ r[2] \in Tasks /\ r \notin All
  BY FutureAssumption DEF All, Resolvers
<1>1. ASSUME NEW t \in All, NEW u \in Tasks, NEW args \in SUBSET holds[t], Call(t, u, args)
      PROVE  FutureInv'
  <2>1. WaitersHold'
    BY <1>a, <1>d, <1>1 DEF TypeOK, WaitersHold, Call
  <2>2. CellsFilled'
    BY <1>a, <1>d, <1>1 DEF TypeOK, CellsFilled, Call
  <2>3. \A g \in Tasks : /\ st'[g] = "cancelled" => st[g] = "cancelled" \/ g \notin Handles
                         /\ st'[g] = "unborn" => st[g] = "unborn"
    BY <1>a, <1>d, <1>1 DEF TypeOK, Call
  <2>4. QueuesSound' /\ NoWaiterStranded'
    <3>1. \A g \in Tasks : Sleepers(g) \subseteq Sleepers(g)'
      BY <1>a, <1>d, <1>1 DEF Call, Sleepers, TypeOK, Racing
    <3>2. slot' = slot /\ ready' = ready
      BY <1>1 DEF Call
    <3> QED
      BY <1>a, <3>1, <3>2, QueueSame DEF QueuesSound, NoWaiterStranded
  <2>5. TypeOK'
    BY <1>a, <1>d, <1>1, <2>4 DEF TypeOK, QueuesSound, InQueue, Call
  <2> QED
    BY <1>a, <2>1, <2>2, <2>3, <2>4, <2>5, HandlesStep, HandlesClosed
    DEF FutureInv, HandlesAlive
<1>2. ASSUME NEW t \in All, NEW f \in Tasks, Drop(t, f)
      PROVE  FutureInv'
  <2>1. WaitersHold'
    BY <1>a, <1>d, <1>2 DEF TypeOK, WaitersHold, Drop
  <2>2. CellsFilled'
    BY <1>a, <1>d, <1>2 DEF TypeOK, CellsFilled, Drop
  <2>3. \A g \in Tasks : /\ st'[g] = "cancelled" => st[g] = "cancelled" \/ g \notin Handles
                         /\ st'[g] = "unborn" => st[g] = "unborn"
    BY <1>a, <1>d, <1>2 DEF TypeOK, Drop
  <2>4. QueuesSound' /\ NoWaiterStranded'
    <3>1. \A g \in Tasks : Sleepers(g) \subseteq Sleepers(g)'
      BY <1>a, <1>d, <1>2 DEF Drop, Sleepers, TypeOK, Racing
    <3>2. slot' = slot /\ ready' = ready
      BY <1>2 DEF Drop
    <3> QED
      BY <1>a, <3>1, <3>2, QueueSame DEF QueuesSound, NoWaiterStranded
  <2>5. TypeOK'
    BY <1>a, <1>d, <1>2, <2>4 DEF TypeOK, QueuesSound, InQueue, Drop
  <2> QED
    BY <1>a, <2>1, <2>2, <2>3, <2>4, <2>5, HandlesStep, HandlesClosed
    DEF FutureInv, HandlesAlive
<1>3. ASSUME NEW t \in All, NEW f \in Tasks, Detach(t, f)
      PROVE  FutureInv'
  <2>1. WaitersHold'
    BY <1>a, <1>d, <1>3 DEF TypeOK, WaitersHold, Detach
  <2>2. CellsFilled'
    BY <1>a, <1>d, <1>3 DEF TypeOK, CellsFilled, Detach
  <2>3. \A g \in Tasks : /\ st'[g] = "cancelled" => st[g] = "cancelled" \/ g \notin Handles
                         /\ st'[g] = "unborn" => st[g] = "unborn"
    BY <1>a, <1>d, <1>3 DEF TypeOK, Detach
  <2>4. QueuesSound' /\ NoWaiterStranded'
    <3>1. \A g \in Tasks : Sleepers(g) \subseteq Sleepers(g)'
      BY <1>a, <1>d, <1>3 DEF Detach, Sleepers, TypeOK, Racing
    <3>2. slot' = slot /\ ready' = ready
      BY <1>3 DEF Detach
    <3> QED
      BY <1>a, <3>1, <3>2, QueueSame DEF QueuesSound, NoWaiterStranded
  <2>5. TypeOK'
    BY <1>a, <1>d, <1>3, <2>4 DEF TypeOK, QueuesSound, InQueue, Detach
  <2> QED
    BY <1>a, <2>1, <2>2, <2>3, <2>4, <2>5, HandlesStep, HandlesClosed
    DEF FutureInv, HandlesAlive
<1>4. ASSUME NEW t \in All, NEW f \in Tasks, GetFilled(t, f)
      PROVE  FutureInv'
  <2>1. WaitersHold'
    BY <1>a, <1>d, <1>4 DEF TypeOK, WaitersHold, GetFilled
  <2>2. CellsFilled'
    BY <1>a, <1>d, <1>4 DEF TypeOK, CellsFilled, GetFilled
  <2>3. \A g \in Tasks : /\ st'[g] = "cancelled" => st[g] = "cancelled" \/ g \notin Handles
                         /\ st'[g] = "unborn" => st[g] = "unborn"
    BY <1>a, <1>d, <1>4 DEF TypeOK, GetFilled
  <2>4. QueuesSound' /\ NoWaiterStranded'
    <3>1. \A g \in Tasks : Sleepers(g) \subseteq Sleepers(g)'
      BY <1>a, <1>d, <1>4 DEF GetFilled, Sleepers, TypeOK, Racing
    <3>2. slot' = slot /\ ready' = ready
      BY <1>4 DEF GetFilled
    <3> QED
      BY <1>a, <3>1, <3>2, QueueSame DEF QueuesSound, NoWaiterStranded
  <2>5. TypeOK'
    BY <1>a, <1>d, <1>4, <2>4 DEF TypeOK, QueuesSound, InQueue, GetFilled
  <2> QED
    BY <1>a, <2>1, <2>2, <2>3, <2>4, <2>5, HandlesStep, HandlesClosed
    DEF FutureInv, HandlesAlive
<1>5. ASSUME NEW t \in All, NEW f \in Tasks, NEW how \in {"waiting", "timing"}, GetParks(t, f, how)
      PROVE  FutureInv'
  <2>1. WaitersHold'
    BY <1>a, <1>d, <1>5 DEF TypeOK, WaitersHold, GetParks
  <2>2. CellsFilled'
    BY <1>a, <1>d, <1>5 DEF TypeOK, CellsFilled, GetParks
  <2>3. \A g \in Tasks : /\ st'[g] = "cancelled" => st[g] = "cancelled" \/ g \notin Handles
                         /\ st'[g] = "unborn" => st[g] = "unborn"
    BY <1>a, <1>d, <1>5 DEF TypeOK, GetParks
  <2>4. QueuesSound' /\ NoWaiterStranded'
    <3>1. t \notin Sleepers(f) /\ waits[t] \notin Tasks
      BY <1>a, <1>d, <1>5 DEF GetParks, Sleepers, WaitersHold
    <3>2. \A g \in Tasks \ {f} : Sleepers(g) \subseteq Sleepers(g)'
      BY <1>a, <1>d, <1>5, <3>1 DEF GetParks, Sleepers, TypeOK
    <3>3. Sleepers(f) \union {t} \subseteq Sleepers(f)'
      BY <1>a, <1>d, <1>5 DEF GetParks, Sleepers, TypeOK
    <3>4. InQueue(Park(ready[f], t), All \union Resolvers, Sleepers(f)')
      <4>1. InQueue(ready[f], All \union Resolvers, Sleepers(f)) /\ t \in All \union Resolvers
        BY <1>a, <1>5 DEF QueuesSound
      <4> QED
        BY <3>1, <3>3, <4>1, QueuePark
    <3>5. /\ slot' = slot /\ ~slot[f]
          /\ \A g \in Tasks : ready'[g] = IF g = f THEN Park(ready[f], t) ELSE ready[g]
      BY <1>a, <1>5 DEF GetParks, TypeOK
    <3> QED
      BY <1>a, <3>2, <3>4, <3>5, QueuesStep
  <2>5. TypeOK'
    BY <1>a, <1>d, <1>5, <2>4 DEF TypeOK, QueuesSound, InQueue, GetParks
  <2> QED
    BY <1>a, <2>1, <2>2, <2>3, <2>4, <2>5, HandlesStep, HandlesClosed
    DEF FutureInv, HandlesAlive
<1>6. ASSUME NEW t \in All, NEW raced \in SUBSET holds[t], NEW instant \in BOOLEAN, RaceStart(t, raced, instant)
      PROVE  FutureInv'
  <2>1. WaitersHold'
    BY <1>a, <1>d, <1>6 DEF TypeOK, WaitersHold, RaceStart
  <2>2. CellsFilled'
    BY <1>a, <1>d, <1>6 DEF TypeOK, CellsFilled, RaceStart
  <2>3. \A g \in Tasks : /\ st'[g] = "cancelled" => st[g] = "cancelled" \/ g \notin Handles
                         /\ st'[g] = "unborn" => st[g] = "unborn"
    BY <1>a, <1>d, <1>6 DEF TypeOK, RaceStart
  <2>4. QueuesSound' /\ NoWaiterStranded'
    <3>1. \A g \in Tasks : Sleepers(g) \subseteq Sleepers(g)'
      BY <1>a, <1>d, <1>6 DEF RaceStart, Sleepers, TypeOK, Racing
    <3>2. slot' = slot /\ ready' = ready
      BY <1>6 DEF RaceStart
    <3> QED
      BY <1>a, <3>1, <3>2, QueueSame DEF QueuesSound, NoWaiterStranded
  <2>5. TypeOK'
    BY <1>a, <1>d, <1>6, <2>4 DEF TypeOK, QueuesSound, InQueue, RaceStart
  <2> QED
    BY <1>a, <2>1, <2>2, <2>3, <2>4, <2>5, HandlesStep, HandlesClosed
    DEF FutureInv, HandlesAlive
<1>7. ASSUME NEW t \in All, NEW value \in SUBSET holds[t], Finish(t, value)
      PROVE  FutureInv'
  <2>1. WaitersHold'
    BY <1>a, <1>d, <1>7 DEF TypeOK, WaitersHold, Finish
  <2>2. CellsFilled'
    BY <1>a, <1>d, <1>7 DEF TypeOK, CellsFilled, Finish
  <2>3. \A g \in Tasks : /\ st'[g] = "cancelled" => st[g] = "cancelled" \/ g \notin Handles
                         /\ st'[g] = "unborn" => st[g] = "unborn"
    BY <1>a, <1>d, <1>7 DEF TypeOK, Finish
  <2>4. QueuesSound' /\ NoWaiterStranded'
    <3>1. \A g \in Tasks : Sleepers(g) \subseteq Sleepers(g)'
      BY <1>7 DEF Finish, Sleepers
    <3>2. \A g \in Tasks : IF g = t THEN ready'[g] = NotifyWaiters(ready[g])
                            ELSE ready'[g] = ready[g] /\ slot'[g] = slot[g]
      BY <1>a, <1>7 DEF Finish, TypeOK
    <3>3. ASSUME NEW g \in Tasks
          PROVE  /\ InQueue(ready'[g], All \union Resolvers, Sleepers(g)')
                 /\ slot'[g] => Waiting(ready'[g]) = {}
      <4>1. InQueue(ready[g], All \union Resolvers, Sleepers(g)) /\ Sleepers(g) \subseteq Sleepers(g)'
        BY <1>a, <3>1 DEF QueuesSound
      <4>2. CASE g = t
        BY <3>2, <4>1, <4>2, QueueNotifyAll
      <4>3. CASE g # t
        BY <1>a, <3>2, <4>1, <4>3, QueueSame DEF NoWaiterStranded
      <4> QED
        BY <4>2, <4>3
    <3> QED
      BY <3>3 DEF QueuesSound, NoWaiterStranded
  <2>5. TypeOK'
    BY <1>a, <1>d, <1>7, <2>4 DEF TypeOK, QueuesSound, InQueue, Finish
  <2> QED
    BY <1>a, <2>1, <2>2, <2>3, <2>4, <2>5, HandlesStep, HandlesClosed
    DEF FutureInv, HandlesAlive
<1>8. ASSUME NEW t \in All, GetResumes(t)
      PROVE  FutureInv'
  <2>1. WaitersHold'
    BY <1>a, <1>d, <1>8 DEF TypeOK, WaitersHold, GetResumes
  <2>2. CellsFilled'
    BY <1>a, <1>d, <1>8 DEF TypeOK, CellsFilled, GetResumes
  <2>3. \A g \in Tasks : /\ st'[g] = "cancelled" => st[g] = "cancelled" \/ g \notin Handles
                         /\ st'[g] = "unborn" => st[g] = "unborn"
    BY <1>a, <1>d, <1>8 DEF TypeOK, GetResumes
  <2>4. QueuesSound' /\ NoWaiterStranded'
    <3>1. PICK f \in Tasks : f = waits[t]
      BY <1>a, <1>8 DEF GetResumes, WaitersHold
    <3>2. \A g \in Tasks \ {f} : Sleepers(g) \subseteq Sleepers(g)'
      BY <1>a, <1>d, <1>8, <3>1 DEF GetResumes, Sleepers, TypeOK
    <3>3. Sleepers(f) \ {t} \subseteq Sleepers(f)'
      BY <1>a, <1>d, <1>8 DEF GetResumes, Sleepers, TypeOK
    <3>4. /\ InQueue(Resumed(ready[f], t), All \union Resolvers, Sleepers(f)')
          /\ Waiting(Resumed(ready[f], t)) \subseteq Waiting(ready[f])
      <4>1. InQueue(ready[f], All \union Resolvers, Sleepers(f)) /\ t \in Woken(ready[f])
        BY <1>a, <1>8, <3>1 DEF GetResumes, QueuesSound
      <4> QED
        BY <3>3, <4>1, QueueResumed
    <3>5. /\ slot' = slot
          /\ \A g \in Tasks : ready'[g] = IF g = f THEN Resumed(ready[f], t) ELSE ready[g]
      BY <1>a, <1>8, <3>1 DEF GetResumes, TypeOK
    <3> QED
      BY <1>a, <3>1, <3>2, <3>4, <3>5, QueuesStep
  <2>5. TypeOK'
    <3>1. /\ holds' \in [All -> SUBSET Tasks]
          /\ waits' \in [All -> Tasks \union {NoFuture}]
          /\ st' \in [All -> {"unborn", "ready", "waiting", "timing", "racing", "done", "cancelled"}]
      <4>1. waits[t] \in Tasks
        BY <1>a, <1>8 DEF GetResumes, WaitersHold
      <4> QED
        BY <1>a, <1>8, <4>1 DEF GetResumes, TypeOK
    <3>2. ready' \in [Tasks -> NotifyType(All \union Resolvers)]
      BY <1>a, <1>8, <2>4 DEF GetResumes, TypeOK, QueuesSound, InQueue
    <3> QED
      BY <1>a, <1>8, <3>1, <3>2 DEF GetResumes, TypeOK
  <2> QED
    BY <1>a, <2>1, <2>2, <2>3, <2>4, <2>5, HandlesStep, HandlesClosed
    DEF FutureInv, HandlesAlive
<1>9. ASSUME NEW t \in All, TimesOut(t)
      PROVE  FutureInv'
  <2>1. WaitersHold'
    BY <1>a, <1>d, <1>9 DEF TypeOK, WaitersHold, TimesOut
  <2>2. CellsFilled'
    BY <1>a, <1>d, <1>9 DEF TypeOK, CellsFilled, TimesOut
  <2>3. \A g \in Tasks : /\ st'[g] = "cancelled" => st[g] = "cancelled" \/ g \notin Handles
                         /\ st'[g] = "unborn" => st[g] = "unborn"
    BY <1>a, <1>d, <1>9 DEF TypeOK, TimesOut
  <2>4. QueuesSound' /\ NoWaiterStranded'
    <3>1. PICK f \in Tasks : f = waits[t]
      BY <1>a, <1>9 DEF TimesOut, WaitersHold
    <3>2. \A g \in Tasks \ {f} : Sleepers(g) \subseteq Sleepers(g)'
      BY <1>a, <1>d, <1>9, <3>1 DEF TimesOut, Sleepers, TypeOK
    <3>3. Sleepers(f) \ {t} \subseteq Sleepers(f)'
      BY <1>a, <1>d, <1>9 DEF TimesOut, Sleepers, TypeOK
    <3>4. /\ InQueue(Withdraw(ready[f], t), All \union Resolvers, Sleepers(f)')
          /\ Waiting(Withdraw(ready[f], t)) \subseteq Waiting(ready[f])
      <4>1. InQueue(ready[f], All \union Resolvers, Sleepers(f))
        BY <1>a, <1>9, <3>1 DEF TimesOut, QueuesSound
      <4> QED
        BY <3>3, <4>1, QueueWithdraw
    <3>5. /\ slot' = slot
          /\ \A g \in Tasks : ready'[g] = IF g = f THEN Withdraw(ready[f], t) ELSE ready[g]
      BY <1>a, <1>9, <3>1 DEF TimesOut, TypeOK
    <3> QED
      BY <1>a, <3>1, <3>2, <3>4, <3>5, QueuesStep
  <2>5. TypeOK'
    BY <1>a, <1>d, <1>9, <2>4 DEF TypeOK, QueuesSound, InQueue, TimesOut
  <2> QED
    BY <1>a, <2>1, <2>2, <2>3, <2>4, <2>5, HandlesStep, HandlesClosed
    DEF FutureInv, HandlesAlive
<1>10. ASSUME NEW t \in All, RaceReturns(t)
      PROVE  FutureInv'
  <2>1. WaitersHold'
    BY <1>a, <1>d, <1>10 DEF TypeOK, WaitersHold, RaceReturns, DropGuards
  <2>2. CellsFilled'
    BY <1>a, <1>d, <1>10 DEF TypeOK, CellsFilled, RaceReturns, DropGuards
  <2>3. \A g \in Tasks : /\ st'[g] = "cancelled" => st[g] = "cancelled" \/ g \notin Handles
                         /\ st'[g] = "unborn" => st[g] = "unborn"
    BY <1>a, <1>d, <1>10 DEF TypeOK, RaceReturns, DropGuards
  <2>4. QueuesSound' /\ NoWaiterStranded'
    <3>1. \A g \in Tasks : Sleepers(g) \subseteq Sleepers(g)'
      BY <1>a, <1>d, <1>10 DEF RaceReturns, DropGuards, Sleepers, TypeOK, Racing
    <3>2. slot' = slot /\ ready' = ready
      BY <1>10 DEF RaceReturns, DropGuards
    <3> QED
      BY <1>a, <3>1, <3>2, QueueSame DEF QueuesSound, NoWaiterStranded
  <2>5. TypeOK'
    BY <1>a, <1>d, <1>10, <2>4 DEF TypeOK, QueuesSound, InQueue, RaceReturns, DropGuards
  <2> QED
    BY <1>a, <2>1, <2>2, <2>3, <2>4, <2>5, HandlesStep, HandlesClosed
    DEF FutureInv, HandlesAlive
<1>11. ASSUME NEW globals \in SUBSET holds[Main], MainEnds(globals)
      PROVE  FutureInv'
  <2>1. WaitersHold'
    BY <1>a, <1>d, <1>11 DEF TypeOK, WaitersHold, MainEnds
  <2>2. CellsFilled'
    BY <1>a, <1>d, <1>11 DEF TypeOK, CellsFilled, MainEnds
  <2>3. \A g \in Tasks : /\ st'[g] = "cancelled" => st[g] = "cancelled" \/ g \notin Handles
                         /\ st'[g] = "unborn" => st[g] = "unborn"
    BY <1>a, <1>d, <1>11 DEF TypeOK, MainEnds
  <2>4. QueuesSound' /\ NoWaiterStranded'
    <3>1. \A g \in Tasks : Sleepers(g) \subseteq Sleepers(g)'
      BY <1>a, <1>d, <1>11 DEF MainEnds, Sleepers, TypeOK, Racing
    <3>2. slot' = slot /\ ready' = ready
      BY <1>11 DEF MainEnds
    <3> QED
      BY <1>a, <3>1, <3>2, QueueSame DEF QueuesSound, NoWaiterStranded
  <2>5. TypeOK'
    BY <1>a, <1>d, <1>11, <2>4 DEF TypeOK, QueuesSound, InQueue, MainEnds
  <2> QED
    BY <1>a, <2>1, <2>2, <2>3, <2>4, <2>5, HandlesStep, HandlesClosed
    DEF FutureInv, HandlesAlive
<1>12. ASSUME NEW t \in Tasks, Reap(t)
      PROVE  FutureInv'
  <2>1. WaitersHold'
    BY <1>a, <1>d, <1>12 DEF TypeOK, WaitersHold, Reap, DropGuards
  <2>2. CellsFilled'
    BY <1>a, <1>d, <1>12 DEF TypeOK, CellsFilled, Reap, DropGuards, Aborted, Live
  <2>3. \A g \in Tasks : /\ st'[g] = "cancelled" => st[g] = "cancelled" \/ g \notin Handles
                         /\ st'[g] = "unborn" => st[g] = "unborn"
    BY <1>a, <1>d, <1>12 DEF TypeOK, Reap, DropGuards, Aborted
  <2>4. QueuesSound' /\ NoWaiterStranded'
    <3>1. CASE waits[t] \in Tasks
      <4>1. PICK f \in Tasks : f = waits[t]
        BY <3>1
      <4>2. \A g \in Tasks \ {f} : Sleepers(g) \subseteq Sleepers(g)'
        BY <1>a, <1>d, <1>12, <4>1 DEF Reap, DropGuards, Sleepers, TypeOK
      <4>3. Sleepers(f) \ {t} \subseteq Sleepers(f)'
        BY <1>a, <1>d, <1>12 DEF Reap, DropGuards, Sleepers, TypeOK
      <4>4. /\ InQueue(Withdraw(ready[f], t), All \union Resolvers, Sleepers(f)')
            /\ Waiting(Withdraw(ready[f], t)) \subseteq Waiting(ready[f])
        <5>1. InQueue(ready[f], All \union Resolvers, Sleepers(f))
          BY <1>a, <4>1 DEF QueuesSound
        <5> QED
          BY <4>3, <5>1, QueueWithdraw
      <4>5. /\ slot' = slot
            /\ \A g \in Tasks : ready'[g] = IF g = f THEN Withdraw(ready[f], t) ELSE ready[g]
        BY <1>a, <1>12, <4>1 DEF Reap, DropGuards, TypeOK
      <4> QED
        BY <1>a, <4>1, <4>2, <4>4, <4>5, QueuesStep
    <3>2. CASE waits[t] \notin Tasks
      <4>1. \A g \in Tasks : Sleepers(g) \subseteq Sleepers(g)'
        BY <1>a, <1>d, <1>12, <3>2 DEF Reap, DropGuards, Sleepers, TypeOK
      <4>2. slot' = slot /\ \A g \in Tasks : ready'[g] = ready[g]
        BY <1>12, <3>2 DEF Reap, DropGuards
      <4> QED
        BY <1>a, <4>1, <4>2, QueueSame DEF QueuesSound, NoWaiterStranded
    <3> QED
      BY <3>1, <3>2
  <2>5. TypeOK'
    BY <1>a, <1>d, <1>12, <2>4 DEF TypeOK, QueuesSound, InQueue, Reap, DropGuards
  <2> QED
    BY <1>a, <2>1, <2>2, <2>3, <2>4, <2>5, HandlesStep, HandlesClosed
    DEF FutureInv, HandlesAlive
<1>13. ASSUME NEW r \in Resolvers, ResolverParks(r)
      PROVE  FutureInv'
  <2>1. WaitersHold'
    BY <1>a, <1>d, <1>13 DEF TypeOK, WaitersHold, ResolverParks
  <2>2. CellsFilled'
    BY <1>a, <1>d, <1>13 DEF TypeOK, CellsFilled, ResolverParks
  <2>3. \A g \in Tasks : /\ st'[g] = "cancelled" => st[g] = "cancelled" \/ g \notin Handles
                         /\ st'[g] = "unborn" => st[g] = "unborn"
    BY <1>a, <1>d, <1>13 DEF TypeOK, ResolverParks
  <2>4. QueuesSound' /\ NoWaiterStranded'
    <3>1. PICK f \in Tasks : f = r[2]
      BY <1>d, <1>13
    <3>2. \A g \in Tasks \ {f} : Sleepers(g) \subseteq Sleepers(g)'
      BY <1>a, <1>d, <1>13, <3>1 DEF ResolverParks, Sleepers, TypeOK
    <3>3. Sleepers(f) \union {r} \subseteq Sleepers(f)' /\ r \notin Sleepers(f)
      BY <1>a, <1>d, <1>13, <3>1 DEF ResolverParks, Sleepers, TypeOK
    <3>4. InQueue(Park(ready[f], r), All \union Resolvers, Sleepers(f)')
      <4>1. InQueue(ready[f], All \union Resolvers, Sleepers(f)) /\ r \in All \union Resolvers
        BY <1>a, <1>13, <3>1 DEF QueuesSound
      <4> QED
        BY <3>3, <4>1, QueuePark
    <3>5. /\ slot' = slot /\ ~slot[f]
          /\ \A g \in Tasks : ready'[g] = IF g = f THEN Park(ready[f], r) ELSE ready[g]
      BY <1>a, <1>d, <1>13, <3>1 DEF ResolverParks, TypeOK
    <3> QED
      BY <1>a, <3>1, <3>2, <3>4, <3>5, QueuesStep
  <2>5. TypeOK'
    BY <1>a, <1>d, <1>13, <2>4 DEF TypeOK, QueuesSound, InQueue, ResolverParks
  <2> QED
    BY <1>a, <2>1, <2>2, <2>3, <2>4, <2>5, HandlesStep, HandlesClosed
    DEF FutureInv, HandlesAlive
<1>14. ASSUME NEW r \in Resolvers, ResolverWins(r)
      PROVE  FutureInv'
  <2>1. WaitersHold'
    BY <1>a, <1>d, <1>14 DEF TypeOK, WaitersHold, ResolverWins
  <2>2. CellsFilled'
    BY <1>a, <1>d, <1>14 DEF TypeOK, CellsFilled, ResolverWins
  <2>3. \A g \in Tasks : /\ st'[g] = "cancelled" => st[g] = "cancelled" \/ g \notin Handles
                         /\ st'[g] = "unborn" => st[g] = "unborn"
    BY <1>a, <1>d, <1>14 DEF TypeOK, ResolverWins
  <2>4. QueuesSound' /\ NoWaiterStranded'
    <3>1. PICK f \in Tasks : f = r[2]
      BY <1>d, <1>14
    <3>2. \A g \in Tasks \ {f} : Sleepers(g) \subseteq Sleepers(g)'
      BY <1>a, <1>d, <1>14, <3>1 DEF ResolverWins, Sleepers, TypeOK
    <3>3. Sleepers(f) \ {r} \subseteq Sleepers(f)'
      BY <1>a, <1>d, <1>14 DEF ResolverWins, Sleepers, TypeOK
    <3>4. /\ InQueue(Resumed(ready[f], r), All \union Resolvers, Sleepers(f)')
          /\ Waiting(Resumed(ready[f], r)) \subseteq Waiting(ready[f])
      <4>1. InQueue(ready[f], All \union Resolvers, Sleepers(f))
        BY <1>a, <3>1 DEF QueuesSound
      <4>2. r \in Woken(ready[f]) \/ r \notin Sleepers(f)
        BY <1>d, <1>14, <3>1 DEF ResolverWins, Sleepers
      <4> QED
        BY <3>3, <4>1, <4>2, QueueResumed
    <3>5. /\ slot' = slot
          /\ \A g \in Tasks : ready'[g] = IF g = f THEN Resumed(ready[f], r) ELSE ready[g]
      BY <1>a, <1>d, <1>14, <3>1 DEF ResolverWins, TypeOK
    <3> QED
      BY <1>a, <3>1, <3>2, <3>4, <3>5, QueuesStep
  <2>5. TypeOK'
    BY <1>a, <1>d, <1>14, <2>4 DEF TypeOK, QueuesSound, InQueue, ResolverWins
  <2> QED
    BY <1>a, <2>1, <2>2, <2>3, <2>4, <2>5, HandlesStep, HandlesClosed
    DEF FutureInv, HandlesAlive
<1>15. ASSUME NEW r \in Resolvers, ReapResolver(r)
      PROVE  FutureInv'
  <2>1. WaitersHold'
    BY <1>a, <1>d, <1>15 DEF TypeOK, WaitersHold, ReapResolver
  <2>2. CellsFilled'
    BY <1>a, <1>d, <1>15 DEF TypeOK, CellsFilled, ReapResolver
  <2>3. \A g \in Tasks : /\ st'[g] = "cancelled" => st[g] = "cancelled" \/ g \notin Handles
                         /\ st'[g] = "unborn" => st[g] = "unborn"
    BY <1>a, <1>d, <1>15 DEF TypeOK, ReapResolver
  <2>4. QueuesSound' /\ NoWaiterStranded'
    <3>1. PICK f \in Tasks : f = r[2]
      BY <1>d, <1>15
    <3>2. \A g \in Tasks \ {f} : Sleepers(g) \subseteq Sleepers(g)'
      BY <1>a, <1>d, <1>15, <3>1 DEF ReapResolver, Sleepers, TypeOK
    <3>3. Sleepers(f) \ {r} \subseteq Sleepers(f)'
      BY <1>a, <1>d, <1>15 DEF ReapResolver, Sleepers, TypeOK
    <3>4. /\ InQueue(Withdraw(ready[f], r), All \union Resolvers, Sleepers(f)')
          /\ Waiting(Withdraw(ready[f], r)) \subseteq Waiting(ready[f])
      <4>1. InQueue(ready[f], All \union Resolvers, Sleepers(f))
        BY <1>a, <3>1 DEF QueuesSound
      <4> QED
        BY <3>3, <4>1, QueueWithdraw
    <3>5. /\ slot' = slot
          /\ \A g \in Tasks : ready'[g] = IF g = f THEN Withdraw(ready[f], r) ELSE ready[g]
      BY <1>a, <1>d, <1>15, <3>1 DEF ReapResolver, TypeOK
    <3> QED
      BY <1>a, <3>1, <3>2, <3>4, <3>5, QueuesStep
  <2>5. TypeOK'
    BY <1>a, <1>d, <1>15, <2>4 DEF TypeOK, QueuesSound, InQueue, ReapResolver
  <2> QED
    BY <1>a, <2>1, <2>2, <2>3, <2>4, <2>5, HandlesStep, HandlesClosed
    DEF FutureInv, HandlesAlive
<1>16. CASE UNCHANGED vars
  <2>1. HandlesAlive'
    BY <1>a, <1>16 DEF vars, HandlesAlive, Handles, Roots, Live, Racing
  <2> QED
    BY <1>a, <1>16, <2>1
    DEF vars, FutureInv, TypeOK, WaitersHold, CellsFilled, QueuesSound, Sleepers,
        NoWaiterStranded
<1> QED
  BY <1>1, <1>2, <1>3, <1>4, <1>5, <1>6, <1>7, <1>8, <1>9, <1>10, <1>11, <1>12, <1>13,
     <1>14, <1>15, <1>16
  DEF Next, Step, Ends, Resumes, Resolver

\* It holds to begin with.
LEMMA FutureInit ==
    ASSUME Init PROVE FutureInv
<1>1. NewNotify \in NotifyType(All \union Resolvers) /\ Orderly(NewNotify)
      /\ Waiting(NewNotify) = {} /\ Woken(NewNotify) = {}
  BY NewNotifyOK
<1>2. NoFuture \notin Tasks /\ Main \notin Tasks /\ Main \in All /\ Tasks \subseteq All
  BY FutureAssumption DEF All
<1>3. TypeOK
  BY <1>1, <1>2 DEF Init, TypeOK
<1>4. WaitersHold /\ CellsFilled
  BY <1>2 DEF Init, WaitersHold, CellsFilled
<1>5. QueuesSound /\ NoWaiterStranded
  BY <1>1 DEF Init, QueuesSound, InQueue, NoWaiterStranded
<1>6. Handles = {}
  <2>1. Roots = {}
    BY <1>2 DEF Init, Roots, Live, Racing
  <2>2. \A S \in SUBSET Tasks : S = {} => \A g \in S : kept[g] \subseteq S
    OBVIOUS
  <2> QED
    BY <2>1, <2>2 DEF Handles
<1> QED
  BY <1>3, <1>4, <1>5, <1>6 DEF FutureInv, HandlesAlive

\* Whatever is awaited is reached by a handle, of the frame that awaits it or of
\* the resolver.
LEMMA FutureInvSays ==
    ASSUME FutureInv PROVE WaitersSound
<1>1. TypeOK /\ WaitersHold /\ HandlesAlive /\ NoWaiterStranded
  BY DEF FutureInv
<1>2. /\ \A t \in All : Live(t) \/ t = Main => holds[t] \subseteq Handles
      /\ \A r \in Resolvers : resolver[r] # "none" => r[2] \in Handles
  BY <1>1, HandlesHold
<1>3. ASSUME NEW t \in All, waits[t] \in Tasks PROVE waits[t] \in Handles
  BY <1>1, <1>2, <1>3 DEF WaitersHold, Live
<1>4. AwaitedIsAlive
  BY <1>1, <1>2, <1>3 DEF AwaitedIsAlive, HandlesAlive, Aborted
<1> QED
  BY <1>1, <1>4 DEF WaitersSound

\* The invariant holds of every reachable state.
LEMMA FutureInductive == Spec => []FutureInv
<1>1. Init => FutureInv
  BY FutureInit
<1>2. FutureInv /\ [Next]_vars => FutureInv'
  BY FutureStep
<1> QED
  BY <1>1, <1>2, PTL DEF Spec

\* task.rs, ResultCell::get: nobody sleeps on a cell that is filled, and nobody
\* awaits, in get(), a race or a timeout, a task that was or is being aborted by
\* the drop of its last handle.
THEOREM WaitersAreServed == Spec => []WaitersSound
<1>1. FutureInv => WaitersSound
  BY FutureInvSays
<1> QED
  BY <1>1, FutureInductive, PTL

\* task.rs, HandleInner::drop: a task that has lost its last handle is never
\* reached again, through a frame, a result, a resolver or a race's winner.
THEOREM AbortsAreFinal == Spec => AbortIsFinal
<1>1. ASSUME FutureInv, [Next]_vars
      PROVE  [\A f \in Tasks : st[f] # "unborn" /\ f \notin Handles => f \notin Handles']_vars
  BY <1>1, HandlesStep DEF FutureInv
<1> QED
  BY <1>1, FutureInductive, PTL DEF Spec, AbortIsFinal
=============================================================================
