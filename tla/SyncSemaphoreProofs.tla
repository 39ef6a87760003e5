------------------------ MODULE SyncSemaphoreProofs ------------------------
(***************************************************************************)
(* Proofs about SyncSemaphore, for any number of tasks and permits.        *)
(***************************************************************************)
EXTENDS SyncSemaphore, NotifyProofs

WaitStates == {"acquiring", "entering"}

\* Everything a task can be doing.
States == {"idle", "acquiring", "entering", "holding", "body", "loose", "lost", "gone"}

\* The tasks that wait for a permit.
Acquirers == {t \in Tasks : st[t] \in WaitStates}

\* Every acquirer is queued or woken, and the free permits are served: with this
\* NoAcquirerStranded is inductive.
SemaphoreInv == TypeOK /\ Served(permit_available, Tasks, Acquirers, FALSE, available)

\* The places where a task holds a permit are not those where it waits for one.
LEMMA WantsOK ==
    /\ DOMAIN Wants = WaitStates
    /\ \A w \in WaitStates : Wants[w] \in {"holding", "body"}
BY DEF Wants, WaitStates

\* The invariant holds to begin with.
LEMMA SemaphoreInit == Init => SemaphoreInv
<1> SUFFICES ASSUME Init PROVE SemaphoreInv
  OBVIOUS
<1> USE SemaphoreAssumption
<1>1. Acquirers = {} /\ Served(permit_available, Tasks, {}, FALSE, available)
  BY ServedNew DEF Init, Acquirers, WaitStates
<1>2. TypeOK
  BY NewNotifyOK DEF Init, TypeOK
<1> QED BY <1>1, <1>2 DEF SemaphoreInv

\* sync_release wakes a waiter for the permit it puts back, if one waits.
LEMMA ReleaseKeeps ==
    ASSUME SemaphoreInv, Release, UNCHANGED use,
           st' \in [Tasks -> States],
           \A t \in Tasks : st'[t] \in WaitStates <=> st[t] \in WaitStates
    PROVE  SemaphoreInv'
<1> USE SemaphoreAssumption
<1>01. TypeOK /\ Served(permit_available, Tasks, Acquirers, FALSE, available)
  BY DEF SemaphoreInv
<1>02. available \in Int /\ Acquirers' = Acquirers
  BY <1>01 DEF TypeOK, Acquirers
<1>0. /\ TypeOK /\ available \in Int
      /\ Served(permit_available, Tasks, Acquirers, FALSE, available)
      /\ Acquirers' = Acquirers
  BY <1>01, <1>02
<1>1. CASE available < Permits
  <2>1. available' = available + 1 /\ permit_available' = NotifyOne(permit_available)
    BY <1>1 DEF Release
  <2>2. Served(permit_available', Tasks, Acquirers', FALSE, available')
    BY <1>0, <2>1, ServedNotifyOne
  <2>3. permit_available' \in NotifyType(Tasks)
    BY <2>2 DEF Served
  <2>4. TypeOK'
    BY <1>0, <1>1, <2>1, <2>3 DEF TypeOK, States
  <2> QED BY <2>2, <2>4 DEF SemaphoreInv
<1>2. CASE ~(available < Permits)
  <2>1. UNCHANGED <<available, permit_available>>
    BY <1>2 DEF Release
  <2>2. TypeOK'
    BY <1>0, <2>1 DEF TypeOK, States
  <2> QED BY <1>0, <2>1, <2>2 DEF SemaphoreInv
<1> QED BY <1>1, <1>2

\* Every step of an acquire, a release and the executor keeps it.
LEMMA SemaphoreNext == SemaphoreInv /\ [Next]_vars => SemaphoreInv'
<1> SUFFICES ASSUME SemaphoreInv, [Next]_vars PROVE SemaphoreInv'
  OBVIOUS
<1> USE SemaphoreAssumption
<1> DEFINE n == permit_available
<1>0. TypeOK /\ Served(n, Tasks, Acquirers, FALSE, available)
  BY DEF SemaphoreInv
<1>01. available \in Int
  BY <1>0 DEF TypeOK
<1>1. ASSUME NEW t \in Tasks, NEW w \in WaitStates, AtAcquire(t, w)
      PROVE  Served(Resumed(n, t), Tasks, Acquirers \ {t}, FALSE, available - 1)
  <2>1. Waiting(n) \cap Woken(n) = {}
    BY <1>0 DEF Served, Orderly, Waiting, Woken
  <2>2. t \notin Waiting(n)
    BY <1>0, <1>1, <2>1 DEF AtAcquire, Served, Acquirers, WaitStates
  <2> QED BY <1>0, <1>01, <2>2, ServedResumed
<1>2. ASSUME NEW t \in Tasks, NEW w \in WaitStates, AcquireTakes(t, w) PROVE SemaphoreInv'
  <2>1. /\ AtAcquire(t, w)
        /\ available > 0 /\ available' = available - 1
        /\ st' = [st EXCEPT ![t] = Wants[w]]
        /\ permit_available' = Resumed(n, t)
        /\ use' = use
    BY <1>2 DEF AcquireTakes
  <2>2. Acquirers' = Acquirers \ {t}
    BY <1>0, <2>1, WantsOK DEF TypeOK, Acquirers, WaitStates
  <2>3. Served(permit_available', Tasks, Acquirers', FALSE, available')
    BY <1>1, <2>1, <2>2
  <2>4. permit_available' \in NotifyType(Tasks)
    BY <2>3 DEF Served
  <2>5. TypeOK'
    BY <1>0, <2>1, <2>4, WantsOK DEF TypeOK
  <2> QED BY <2>3, <2>5 DEF SemaphoreInv
<1>3. ASSUME NEW t \in Tasks, NEW w \in WaitStates, AcquireWaits(t, w) PROVE SemaphoreInv'
  <2>1. /\ AtAcquire(t, w)
        /\ available = 0 /\ available' = available
        /\ st' = [st EXCEPT ![t] = w]
        /\ permit_available' = Park(Resumed(n, t), t)
        /\ use' = use
    BY <1>3 DEF AcquireWaits
  <2>2. Acquirers' = (Acquirers \ {t}) \union {t}
    BY <1>0, <2>1 DEF TypeOK, Acquirers, WaitStates
  <2>3. Served(Park(Resumed(n, t), t), Tasks, (Acquirers \ {t}) \union {t}, FALSE, available)
    <3>1. t \notin Acquirers \ {t} /\ available - 1 \in Int /\ available <= 0
      BY <1>01, <2>1
    <3> QED BY <1>1, <1>01, <2>1, <3>1, ServedPark
  <2>4. permit_available' \in NotifyType(Tasks)
    BY <2>1, <2>3 DEF Served
  <2>5. TypeOK'
    BY <1>0, <2>1, <2>4 DEF TypeOK, WaitStates
  <2> QED BY <2>1, <2>2, <2>3, <2>5 DEF SemaphoreInv
<1>4. ASSUME NEW t \in Tasks, ReleaseHeld(t) \/ ReleaseStray(t) \/ BodyEnds(t) \/ BodyReturnsFuture(t)
      PROVE  SemaphoreInv'
  <2>1. /\ st' \in [Tasks -> States]
        /\ \A u \in Tasks : st'[u] \in WaitStates <=> st[u] \in WaitStates
    BY <1>0, <1>4 DEF ReleaseHeld, ReleaseStray, BodyEnds, BodyReturnsFuture, TypeOK, States, WaitStates
  <2> QED BY <1>4, <2>1, ReleaseKeeps DEF ReleaseHeld, ReleaseStray, BodyEnds, BodyReturnsFuture
<1>5. ASSUME NEW t \in Tasks, CancelWait(t) PROVE SemaphoreInv'
  <2>1. /\ st' = [st EXCEPT ![t] = "gone"]
        /\ permit_available' = Withdraw(n, t)
        /\ use' = use /\ available' = available
    BY <1>5 DEF CancelWait
  <2>2. Acquirers' = Acquirers \ {t}
    BY <1>0, <2>1 DEF TypeOK, Acquirers, WaitStates
  <2>3. Served(permit_available', Tasks, Acquirers', FALSE, available')
    BY <1>0, <1>01, <2>1, <2>2, ServedWithdraw
  <2>4. permit_available' \in NotifyType(Tasks)
    BY <2>3 DEF Served
  <2>5. TypeOK'
    BY <1>0, <2>1, <2>4 DEF TypeOK
  <2> QED BY <2>3, <2>5 DEF SemaphoreInv
<1>6. ASSUME NEW t \in Tasks, CancelHolder(t) \/ LooseEnds(t) PROVE SemaphoreInv'
  <2>1. /\ st[t] \in {"holding", "body", "loose"}
        /\ st' = [st EXCEPT ![t] = "lost"] \/ st' = [st EXCEPT ![t] = "idle"]
        /\ UNCHANGED <<use, available, permit_available>>
    BY <1>6 DEF CancelHolder, LooseEnds
  <2>2. Acquirers' = Acquirers
    BY <1>0, <2>1 DEF TypeOK, Acquirers, WaitStates
  <2>3. TypeOK'
    BY <1>0, <2>1 DEF TypeOK
  <2> QED BY <1>0, <2>1, <2>2, <2>3 DEF SemaphoreInv
<1>7. CASE UNCHANGED vars
  BY <1>0, <1>7 DEF vars, SemaphoreInv, TypeOK, Acquirers
<1> QED BY <1>2, <1>3, <1>4, <1>5, <1>6, <1>7, WantsOK DEF Next, Acquire

\* No lost wake-up (NoAcquirerStranded, sync_acquire and sync_release): while an
\* acquirer sleeps, every free permit is some woken acquirer's to take, for any
\* number of tasks and permits and whoever is cancelled.
THEOREM NobodyStranded == Spec => []NoAcquirerStranded
<1>1. SemaphoreInv => NoAcquirerStranded
  BY DEF SemaphoreInv, Served, NoAcquirerStranded
<1> QED BY <1>1, SemaphoreInit, SemaphoreNext, PTL DEF Spec

\* PermitsKept counts the permits that are out; it is inductive with TypeOK, and
\* with the fact that only a function that returns a future leaves its task loose.
PermitsInv ==
    /\ TypeOK
    /\ ~use.strays => available + Cardinality(Holders) = Permits
    /\ ~use.futures => \A t \in Tasks : st[t] # "loose"

\* The holders are finitely many.
LEMMA HoldersFinite == IsFiniteSet(Holders) /\ Cardinality(Holders) \in Nat
BY SemaphoreAssumption, FS_Subset, FS_CardinalityType DEF Holders

\* A task that gets a permit is one holder more.
LEMMA HolderIn ==
    ASSUME st \in [Tasks -> States],
           NEW t \in Tasks, t \notin Holders, NEW p \in {"holding", "body"},
           st' = [st EXCEPT ![t] = p]
    PROVE  Cardinality(Holders') = Cardinality(Holders) + 1
<1>1. Holders' = Holders \union {t}
  BY DEF Holders
<1> QED BY <1>1, HoldersFinite, FS_AddElement

\* A task that puts its permit back is one holder less.
LEMMA HolderOut ==
    ASSUME st \in [Tasks -> States],
           NEW t \in Tasks, t \in Holders, NEW p, p \notin {"holding", "body", "lost"},
           st' = [st EXCEPT ![t] = p]
    PROVE  Cardinality(Holders') = Cardinality(Holders) - 1
<1>1. Holders' = Holders \ {t}
  BY DEF Holders
<1> QED BY <1>1, HoldersFinite, FS_RemoveElement

\* A task that holds nothing before and after a step does not count.
LEMMA HolderSame ==
    ASSUME st \in [Tasks -> States],
           NEW t \in Tasks, t \notin Holders, NEW p, p \notin {"holding", "body", "lost"},
           st' = [st EXCEPT ![t] = p]
    PROVE  Holders' = Holders
BY DEF Holders

\* What PermitsInv says of the permits, in PermitsKept's words: without futures a
\* task inside is a holder.
LEMMA PermitsInside == PermitsInv => PermitsKept
<1> SUFFICES ASSUME PermitsInv, ~use.strays
             PROVE  /\ available + Cardinality(Holders) = Permits
                    /\ ~use.futures => Cardinality(Inside) <= Permits
  BY DEF PermitsKept
<1>1. available + Cardinality(Holders) = Permits /\ available \in Nat /\ Permits \in Nat
  BY SemaphoreAssumption DEF PermitsInv, TypeOK
<1>2. ASSUME ~use.futures PROVE Cardinality(Inside) <= Permits
  <2>1. Inside \subseteq Holders
    BY <1>2 DEF PermitsInv, Inside, Holders
  <2>2. IsFiniteSet(Holders) /\ Cardinality(Holders) \in Nat
    BY HoldersFinite
  <2>3. IsFiniteSet(Inside) /\ Cardinality(Inside) <= Cardinality(Holders)
    BY <2>1, <2>2, FS_Subset
  <2>4. Cardinality(Inside) \in Nat
    BY <2>3, FS_CardinalityType
  <2> QED BY <1>1, <2>2, <2>3, <2>4
<1> QED BY <1>1, <1>2

\* All permits are available to begin with.
LEMMA PermitsInit == Init => PermitsInv
<1> SUFFICES ASSUME Init PROVE PermitsInv
  OBVIOUS
<1>1. TypeOK
  BY SemaphoreInit DEF SemaphoreInv
<1>2. Holders = {} /\ \A t \in Tasks : st[t] # "loose"
  BY DEF Init, Holders
<1>3. available = Permits /\ Permits \in Nat
  BY SemaphoreAssumption DEF Init
<1> QED BY <1>1, <1>2, <1>3, FS_EmptySet DEF PermitsInv

\* A permit is taken from the count and given to a holder in one step, and goes
\* back in one step; a cancelled holder stays one.
LEMMA PermitsNext == PermitsInv /\ TypeOK' /\ [Next]_vars => PermitsInv'
<1> SUFFICES ASSUME PermitsInv, TypeOK', [Next]_vars
             PROVE  /\ ~use'.strays => available' + Cardinality(Holders') = Permits
                    /\ ~use'.futures => \A t \in Tasks : st'[t] # "loose"
  BY DEF PermitsInv
<1> DEFINE c == Cardinality(Holders)
<1>1. use' = use
  BY DEF Next, Acquire, AcquireTakes, AcquireWaits, ReleaseHeld, ReleaseStray, BodyEnds,
         CancelWait, CancelHolder, BodyReturnsFuture, LooseEnds, vars
<1>2. st \in [Tasks -> States] /\ available \in Nat /\ Permits \in Nat /\ c \in Nat
  BY HoldersFinite, SemaphoreAssumption DEF PermitsInv, TypeOK, States
<1>a. ASSUME ~use.futures PROVE \A t \in Tasks : st'[t] # "loose"
  <2>1. \A t \in Tasks : st[t] # "loose"
    BY <1>a DEF PermitsInv
  <2> QED BY <1>a, <1>2, <2>1, WantsOK
          DEF Next, Acquire, AcquireTakes, AcquireWaits, ReleaseHeld, ReleaseStray, BodyEnds,
              CancelWait, CancelHolder, BodyReturnsFuture, LooseEnds, vars, WaitStates
<1>b. ASSUME ~use.strays PROVE available' + Cardinality(Holders') = Permits
  <2>0. available + c = Permits
    BY <1>b DEF PermitsInv
  <2>3. ASSUME NEW t \in Tasks, t \in Holders, NEW p \in {"idle", "loose"},
               st' = [st EXCEPT ![t] = p], Release
        PROVE  available' + Cardinality(Holders') = available + c
    <3>1. Cardinality(Holders') = c - 1
      BY <1>2, <2>3, HolderOut
    <3>2. c > 0
      BY <1>2, <2>3, <3>1, FS_EmptySet, HoldersFinite
    <3>3. available < Permits
      BY <1>2, <2>0, <3>2
    <3> QED BY <1>2, <2>3, <3>1, <3>3 DEF Release
  <2> HIDE DEF c
  <2>4. ASSUME NEW t \in Tasks, NEW w \in WaitStates, AcquireTakes(t, w)
        PROVE  available' + Cardinality(Holders') = available + c
    <3>1. t \notin Holders /\ Wants[w] \in {"holding", "body"}
      BY <1>2, <2>4, WantsOK DEF AcquireTakes, AtAcquire, Holders, WaitStates
    <3>2. Cardinality(Holders') = c + 1
      BY <1>2, <2>4, <3>1, HolderIn DEF AcquireTakes, c
    <3> QED BY <1>2, <2>4, <3>2 DEF AcquireTakes
  <2>5. ASSUME NEW t \in Tasks, NEW w \in WaitStates, AcquireWaits(t, w)
        PROVE  available' + Cardinality(Holders') = available + c
    <3>1. t \notin Holders /\ w \notin {"holding", "body", "lost"}
      BY <1>2, <2>5 DEF AcquireWaits, AtAcquire, Holders, WaitStates
    <3> QED BY <1>2, <2>5, <3>1, HolderSame DEF AcquireWaits, c
  <2>6. ASSUME NEW t \in Tasks, ReleaseHeld(t) \/ BodyEnds(t) \/ BodyReturnsFuture(t)
        PROVE  available' + Cardinality(Holders') = available + c
    <3>1. t \in Holders
      BY <2>6 DEF ReleaseHeld, BodyEnds, BodyReturnsFuture, Holders
    <3> QED BY <2>3, <2>6, <3>1 DEF ReleaseHeld, BodyEnds, BodyReturnsFuture
  <2>7. ASSUME NEW t \in Tasks, ReleaseStray(t) PROVE FALSE
    BY <1>b, <2>7 DEF ReleaseStray
  <2>8. ASSUME NEW t \in Tasks, CancelWait(t) \/ LooseEnds(t)
        PROVE  available' + Cardinality(Holders') = available + c
    <3>1. t \notin Holders
      BY <2>8, WantsOK DEF CancelWait, LooseEnds, Holders, WaitStates
    <3> QED BY <1>2, <2>8, <3>1, HolderSame DEF CancelWait, LooseEnds, c
  <2>9. ASSUME NEW t \in Tasks, CancelHolder(t)
        PROVE  available' + Cardinality(Holders') = available + c
    <3>1. Holders' = Holders
      BY <1>2, <2>9 DEF CancelHolder, Holders
    <3> QED BY <2>9, <3>1 DEF CancelHolder, c
  <2>10. CASE UNCHANGED vars
    BY <2>0, <2>10 DEF vars, Holders, c
  <2> QED BY <2>0, <2>4, <2>5, <2>6, <2>7, <2>8, <2>9, <2>10, WantsOK DEF Next, Acquire
<1> QED BY <1>1, <1>a, <1>b

\* Permits are neither made nor lost except with a cancelled holder (PermitsKept):
\* in a program that releases only what it acquired, free permits, running holders
\* and cancelled holders add up to Permits, for any number of tasks and permits; and
\* at most Permits tasks are inside at a time unless a function given to withPermit
\* returns a future, which sync_with_permit does not drive.
THEOREM PermitsAddUp == Spec => []PermitsKept
<1>1. SemaphoreInv => TypeOK
  BY DEF SemaphoreInv
<1> QED BY <1>1, SemaphoreInit, SemaphoreNext, PermitsInit, PermitsNext, PermitsInside, PTL DEF Spec
=============================================================================
