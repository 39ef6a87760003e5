-------------------------- MODULE WorkerPoolProofs --------------------------
(***************************************************************************)
(* Proofs about WorkerPool, for any number of jobs, entries and isolates.  *)
(***************************************************************************)
EXTENDS WorkerPool, FiniteSetTheorems, TLAPS

Serving == {"load", "ready", "run"}

\* An isolate has a request in hand exactly while it serves one.
CurOK ==
    \A s \in Slots :
        /\ pc[s] \in Serving => cur[s] \in Requests
        /\ pc[s] \notin Serving => cur[s] = NoRequest

\* The slots that exist are the ones whose isolate was spawned.
GrowOK == \A s \in Slots : (pc[s] = "absent") <=> (s > live)

\* Type correctness needs CurOK (the entry served is the entry of a real job),
\* and CurOK needs GrowOK (a new slot has nothing in hand).
TypeInv == TypeOK /\ CurOK /\ GrowOK

\* The types hold to begin with.
LEMMA TypeInit == Init => TypeInv
<1> SUFFICES ASSUME Init PROVE TypeInv
    OBVIOUS
<1> USE ConstantsAssumption
<1>1. TypeOK
    BY DEF Init, TypeOK, CallStates, IsolateStates, Replies
<1>2. CurOK
    BY DEF Init, CurOK, Serving
<1>3. GrowOK
    BY DEF Init, GrowOK, Slots
<1> QED BY <1>1, <1>2, <1>3 DEF TypeInv

\* What SendTo does to the variables it assigns, whichever slot is chosen.
LEMMA SendToType ==
    ASSUME TypeOK, NEW s \in Slots, NEW j \in Jobs, SendTo(s, j)
    PROVE  /\ inflight' \in [Slots -> Nat]
           /\ loaded_fns' \in [Slots -> SUBSET Fns]
           /\ archive_loaded' \in [Slots -> BOOLEAN]
           /\ slotOf' \in [Jobs -> 0..Cap]
           /\ call' \in [Jobs -> CallStates]
           /\ reply' \in [Jobs -> Replies]
           /\ queue' \in [Slots -> Seq(Requests)]
<1> USE ConstantsAssumption
<1> DEFINE req == [job |-> j,
                   slice |-> FnOf[j] \notin loaded_fns[s],
                   archive |-> Bundled /\ ~archive_loaded[s]]
<1>1. req \in Requests
    BY DEF TypeOK, Requests
<1>2. s \in 0..Cap
    BY DEF Slots
<1>3. /\ inflight' \in [Slots -> Nat]
      /\ slotOf' \in [Jobs -> 0..Cap]
      /\ call' \in [Jobs -> CallStates]
    BY <1>2 DEF SendTo, TypeOK, CallStates
<1>8. loaded_fns' \in [Slots -> SUBSET Fns]
    BY DEF SendTo, TypeOK
<1>7. archive_loaded' \in [Slots -> BOOLEAN]
    BY Zenon DEF SendTo, TypeOK
<1>4. reply' \in [Jobs -> Replies]
    BY DEF SendTo, TypeOK, Replies
<1>5. Append(queue[s], req) \in Seq(Requests)
    BY <1>1 DEF TypeOK
<1>6. queue' \in [Slots -> Seq(Requests)]
    BY <1>5 DEF SendTo, TypeOK
<1> QED BY <1>3, <1>4, <1>6, <1>7, <1>8

\* Every step keeps the types, CurOK and GrowOK.
LEMMA TypeNext == TypeInv /\ [Next]_vars => TypeInv'
<1> SUFFICES ASSUME TypeInv, [Next]_vars PROVE TypeInv'
    OBVIOUS
<1> USE ConstantsAssumption DEF TypeInv
<1>1. ASSUME NEW j \in Jobs, Dispatch(j) PROVE TypeInv'
  <2>1. CASE Refuse(j)
    BY <2>1 DEF Refuse, TypeOK, CurOK, GrowOK, CallStates, isolateVars, losses
  <2>2. CASE DispatchIdle(j) \/ DispatchLeastLoaded(j)
    <3>1. PICK s \in Slots : SendTo(s, j)
      BY <2>2 DEF DispatchIdle, DispatchLeastLoaded, Live, Slots, TypeOK
    <3>2. UNCHANGED <<live, aborting, polled, outcome, isolateVars, runs>>
      BY <2>2 DEF DispatchIdle, DispatchLeastLoaded
    <3>3. TypeOK'
      BY <3>1, <3>2, SendToType DEF TypeOK, isolateVars, losses
    <3>4. CurOK' /\ GrowOK'
      BY <3>2 DEF CurOK, GrowOK, isolateVars, losses
    <3> QED BY <3>3, <3>4
  <2>3. CASE DispatchGrow(j)
    <3>1. live + 1 \in Slots /\ live + 1 \in 0..Cap
      BY <2>3 DEF DispatchGrow, TypeOK, Slots
    <3>2. SendTo(live + 1, j)
      BY <2>3 DEF DispatchGrow
    <3>3. /\ live' = live + 1
          /\ pc' = [pc EXCEPT ![live + 1] = "recv"]
          /\ UNCHANGED <<aborting, polled, outcome, cur, loaded, globals, archive_installed,
                         spoiled, archive_lost, runs>>
      BY <2>3 DEF DispatchGrow, losses
    <3>4. pc' \in [Slots -> IsolateStates]
      BY <3>1, <3>3 DEF TypeOK, IsolateStates
    <3>5. TypeOK'
      BY <3>1, <3>2, <3>3, <3>4, SendToType DEF TypeOK
    <3>6. CurOK'
      BY <3>1, <3>3 DEF CurOK, GrowOK, Serving, TypeOK
    <3>7. GrowOK'
      BY <3>1, <3>3 DEF GrowOK, TypeOK, Slots
    <3> QED BY <3>5, <3>6, <3>7
  <2>4. CASE DispatchInline(j)
    BY <2>4 DEF DispatchInline, TypeOK, CurOK, GrowOK, CallStates, isolateVars, losses
  <2> QED BY <1>1, <2>1, <2>2, <2>3, <2>4 DEF Dispatch
<1>2. ASSUME NEW j \in Jobs, Task(j) \/ DropFuture(j) PROVE TypeInv'
  <2>1. CASE Bridge(j)
    <3>1. inflight' \in [Slots -> Nat]
      <4>1. ReleaseSlot(j)
        BY <2>1 DEF Bridge
      <4>2. ASSUME NEW t \in Slots PROVE inflight'[t] \in Nat
        BY <4>1 DEF ReleaseSlot, TypeOK
      <4> QED BY <4>1, <4>2 DEF ReleaseSlot, TypeOK
    <3> QED BY <2>1, <3>1 DEF Bridge, TypeOK, CurOK, GrowOK, CallStates, isolateVars, losses
  <2>2. CASE InlineStart(j)
    BY <2>2 DEF InlineStart, TypeOK, CurOK, GrowOK, CallStates, isolateVars, losses
  <2>3. CASE InlineFails(j)
    BY <2>3 DEF InlineFails, TypeOK, CurOK, GrowOK, CallStates, isolateVars, losses
  <2>4. CASE InlineFinish(j)
    BY <2>4 DEF InlineFinish, TypeOK, CurOK, GrowOK, CallStates, isolateVars, losses
  <2>5. CASE AbortTask(j)
    <3>1. inflight' \in [Slots -> Nat]
      BY <2>5 DEF AbortTask, ReleaseSlot, TypeOK
    <3> QED BY <2>5, <3>1 DEF AbortTask, TypeOK, CurOK, GrowOK, CallStates, isolateVars, losses
  <2>6. CASE DropFuture(j)
    BY <2>6 DEF DropFuture, TypeOK, CurOK, GrowOK, isolateVars, losses
  <2>7. CASE BridgePolled(j)
    BY <2>7 DEF BridgePolled, TypeOK, CurOK, GrowOK, isolateVars, losses
  <2> QED BY <1>2, <2>1, <2>2, <2>3, <2>4, <2>5, <2>6, <2>7 DEF Task
<1>3. ASSUME NEW s \in Slots, Isolate(s) PROVE TypeInv'
  <2>0. ASSUME NEW r \in Replies, Answer(s, r), pc[s] \in Serving
        PROVE  /\ reply' \in [Jobs -> Replies]
               /\ cur' \in [Slots -> Requests \union {NoRequest}]
               /\ pc' \in [Slots -> IsolateStates]
               /\ live' = live => CurOK' /\ GrowOK'
    BY <2>0 DEF Answer, TypeOK, CurOK, GrowOK, Serving, IsolateStates
  <2>1. CASE Receive(s)
    <3>1. Head(queue[s]) \in Requests /\ Tail(queue[s]) \in Seq(Requests)
      BY <2>1 DEF Receive, TypeOK
    <3>2. TypeOK'
      BY <2>1, <3>1 DEF Receive, TypeOK, callerVars, losses, IsolateStates
    <3>3. CurOK' /\ GrowOK'
      BY <2>1, <3>1 DEF Receive, TypeOK, CurOK, GrowOK, Serving, callerVars, losses
    <3> QED BY <3>2, <3>3
  <2>2. CASE ArchiveFails(s)
    <3>1. Fn(s) \in Fns
      BY <2>2 DEF ArchiveFails, CurOK, Serving, Fn, Requests
    <3>2. spoiled' \in [Slots -> SUBSET Fns] /\ archive_lost' \in [Slots -> BOOLEAN]
      BY <2>2, <3>1 DEF ArchiveFails, TypeOK
    <3>3. /\ UNCHANGED <<callerVars, queue, loaded, globals, archive_installed, runs>>
          /\ Answer(s, "panic") /\ pc[s] \in Serving
      BY <2>2 DEF ArchiveFails, Serving
    <3> QED BY <2>0, <3>2, <3>3 DEF TypeOK, callerVars, Replies
  <2>3. ASSUME ArchiveInstalled(s) PROVE archive_installed' \in [Slots -> BOOLEAN]
    BY <2>3, Zenon DEF ArchiveInstalled, InstallsArchive, TypeOK
  <2>4. CASE SliceCached(s)
    BY <2>3, <2>4 DEF SliceCached, TypeOK, CurOK, GrowOK, callerVars, losses, Serving, IsolateStates
  <2>5. CASE SliceMissing(s)
    BY <2>0, <2>3, <2>5 DEF SliceMissing, TypeOK, callerVars, losses, Serving, Replies
  <2>6. ASSUME pc[s] = "load" PROVE Fn(s) \in Fns /\ \A k \in Nat : DefinesUpTo(s, k) \subseteq Names
    <3>1. Fn(s) \in Fns
      BY <2>6 DEF CurOK, Serving, Fn, Requests
    <3>2. \A i \in 1..Len(Defs[Fn(s)]) : Defs[Fn(s)][i] \in Names
      BY <3>1
    <3> QED BY <3>1, <3>2 DEF DefinesUpTo
  <2>7. CASE SliceLoads(s)
    <3>1. /\ Fn(s) \in Fns
          /\ DefinesUpTo(s, Len(Defs[Fn(s)]) + 1) \subseteq Names
      <4>1. Fn(s) \in Fns /\ Len(Defs[Fn(s)]) + 1 \in Nat
        BY <2>6, <2>7 DEF SliceLoads
      <4> QED BY <2>6, <2>7, <4>1 DEF SliceLoads
    <3>2. /\ loaded' \in [Slots -> SUBSET Fns]
          /\ globals' \in [Slots -> SUBSET Names]
      BY <2>7, <3>1 DEF SliceLoads, TypeOK
    <3>3. pc' \in [Slots -> IsolateStates] /\ CurOK' /\ GrowOK'
      BY <2>7 DEF SliceLoads, TypeOK, CurOK, GrowOK, callerVars, losses, Serving, IsolateStates
    <3>4. UNCHANGED <<callerVars, queue, reply, cur, spoiled, archive_lost, runs>> /\ ArchiveInstalled(s)
      BY <2>7 DEF SliceLoads, losses
    <3> QED BY <2>3, <3>2, <3>3, <3>4 DEF TypeOK, callerVars, losses
  <2>8. CASE SliceRaises(s)
    <3>1. PICK k \in 1..Len(Defs[Fn(s)]) :
             globals' = [globals EXCEPT ![s] = @ \union DefinesUpTo(s, k)]
      BY <2>8 DEF SliceRaises
    <3>2. k \in Nat
      BY <2>6, <2>8, <3>1 DEF SliceRaises
    <3>3. globals' \in [Slots -> SUBSET Names]
      BY <2>6, <2>8, <3>1, <3>2 DEF SliceRaises, TypeOK
    <3>4. /\ UNCHANGED <<callerVars, queue, loaded, archive_lost, runs>>
          /\ ArchiveInstalled(s)
          /\ Answer(s, "panic")
          /\ pc[s] \in Serving
      BY <2>8 DEF SliceRaises, Serving
    <3>5. spoiled' \in [Slots -> SUBSET Fns]
      BY <2>6, <2>8 DEF SliceRaises, TypeOK
    <3> QED BY <2>0, <2>3, <3>3, <3>4, <3>5 DEF TypeOK, callerVars, Replies
  <2>9. CASE ArgsRejected(s)
    BY <2>0, <2>9 DEF ArgsRejected, TypeOK, callerVars, losses, Serving, Replies
  <2>10. CASE Start(s)
    <3>0. cur[s].job \in Jobs
      BY <2>10 DEF Start, CurOK, Serving, Requests
    <3>1. runs' \in [Jobs -> Nat] /\ pc' \in [Slots -> IsolateStates]
      BY <2>10, <3>0 DEF Start, TypeOK, IsolateStates
    <3>2. CurOK' /\ GrowOK'
      BY <2>10 DEF Start, TypeOK, CurOK, GrowOK, callerVars, losses, Serving
    <3> QED BY <2>10, <3>1, <3>2 DEF Start, TypeOK, callerVars, losses
  <2>11. CASE Cancel(s)
    BY <2>0, <2>11 DEF Cancel, TypeOK, callerVars, losses, Serving, Replies
  <2>12. CASE Finish(s)
    BY <2>0, <2>12 DEF Finish, TypeOK, callerVars, losses, Serving, Replies
  <2> QED BY <1>3, <2>1, <2>2, <2>4, <2>5, <2>7, <2>8, <2>9, <2>10, <2>11, <2>12 DEF Isolate
<1>4. ASSUME NEW s \in Slots, Die(s) PROVE TypeInv'
  <2>1. reply' \in [Jobs -> Replies]
    BY <1>4 DEF Die, TypeOK, Replies
  <2>2. queue' \in [Slots -> Seq(Requests)]
    BY <1>4 DEF Die, TypeOK
  <2>3. CurOK' /\ GrowOK'
    BY <1>4 DEF Die, TypeOK, CurOK, GrowOK, callerVars, losses, Serving
  <2> QED BY <1>4, <2>1, <2>2, <2>3 DEF Die, TypeOK, callerVars, losses, IsolateStates
<1>5. CASE UNCHANGED vars
  BY <1>5 DEF vars, TypeOK, CurOK, GrowOK
<1> QED BY <1>1, <1>2, <1>3, <1>4, <1>5 DEF Next

\* Type correctness of the pool (TypeOK), for every number of jobs and isolates.
THEOREM TypeCorrect == Spec => []TypeOK
<1>1. TypeInv => TypeOK
  BY DEF TypeInv
<1> QED BY <1>1, TypeInit, TypeNext, PTL DEF Spec

-----------------------------------------------------------------------------
(* Requests and calls.  HeldIsOpen and NoLostCall are inductive together,   *)
(* once no job is held twice.                                              *)

Open(s, j) == slotOf[j] = s /\ call[j] \in {"bridged", "dropped"} /\ reply[j] = "none"

QueueOpen == \A s \in Slots : \A i \in 1..Len(queue[s]) : Open(s, queue[s][i].job)

CurOpen == \A s \in Slots : pc[s] \in Serving => Open(s, cur[s].job)

QueuedOnce(s) ==
    \A i, k \in 1..Len(queue[s]) : queue[s][i].job = queue[s][k].job => i = k

ServedOnce(s) ==
    pc[s] \in Serving => \A i \in 1..Len(queue[s]) : queue[s][i].job # cur[s].job

HeldOnce == \A s \in Slots : QueuedOnce(s) /\ ServedOnce(s)

CallOK ==
    \A j \in Jobs :
        /\ call[j] \notin {"bridged", "dropped", "resolved"} => slotOf[j] = 0 /\ reply[j] = "none"
        /\ call[j] = "bridged" => slotOf[j] \in Slots

Held(s, j) == \/ pc[s] \in Serving /\ cur[s].job = j
              \/ \E i \in 1..Len(queue[s]) : queue[s][i].job = j

NoneLost == \A j \in Jobs : call[j] = "bridged" => reply[j] # "none" \/ Held(slotOf[j], j)

CoreInv == QueueOpen /\ CurOpen /\ HeldOnce /\ CallOK /\ NoneLost

\* The invariant holds to begin with.
LEMMA CoreInit == Init => CoreInv
BY ConstantsAssumption
   DEF Init, CoreInv, QueueOpen, CurOpen, HeldOnce, QueuedOnce, ServedOnce, CallOK, NoneLost, Serving, Slots

\* A queued request is one of a real job.
LEMMA QueuedType ==
    ASSUME TypeOK, NEW t \in Slots, NEW i \in 1..Len(queue[t])
    PROVE  queue[t][i] \in Requests /\ queue[t][i].job \in Jobs
<1>1. queue[t] \in Seq(Requests)
  BY DEF TypeOK
<1>2. queue[t][i] \in Requests
  BY <1>1
<1> QED BY <1>2 DEF Requests

\* Sending a fresh job to a slot.
LEMMA SendToCore ==
    ASSUME TypeInv, CoreInv, NEW s \in Slots, NEW j \in Jobs, SendTo(s, j),
           call[j] = "idle", cur' = cur,
           \A t \in Slots : (pc'[t] \in Serving) <=> (pc[t] \in Serving)
    PROVE  CoreInv'
<1> USE ConstantsAssumption
<1> DEFINE req == [job |-> j,
                   slice |-> FnOf[j] \notin loaded_fns[s],
                   archive |-> Bundled /\ ~archive_loaded[s]]
<1>1. req.job = j
  OBVIOUS
<1>2. /\ slotOf' = [slotOf EXCEPT ![j] = s]
      /\ call' = [call EXCEPT ![j] = "bridged"]
  BY DEF SendTo
<1>3. reply[j] = "none" /\ slotOf[j] = 0
  BY DEF CoreInv, CallOK
<1>4. ASSUME NEW t \in Slots, NEW i \in 1..Len(queue[t]) PROVE queue[t][i].job # j /\ queue[t][i].job \in Jobs
  <2>1. queue[t] \in Seq(Requests) /\ queue[t][i] \in Requests
    BY DEF TypeInv, TypeOK
  <2>2. slotOf[queue[t][i].job] = t
    BY DEF CoreInv, QueueOpen, Open
  <2> QED BY <1>3, <2>1, <2>2 DEF Slots, Requests
<1>5. ASSUME NEW t \in Slots, pc[t] \in Serving PROVE cur[t].job # j /\ cur[t].job \in Jobs
  <2>1. slotOf[cur[t].job] = t
    BY <1>5 DEF CoreInv, CurOpen, Open
  <2> QED BY <1>3, <1>5, <2>1 DEF Slots, Requests, TypeInv, CurOK
<1>6. CASE pc[s] = "dead"
  <2>1. reply' = [reply EXCEPT ![j] = "closed"] /\ queue' = queue
    BY <1>6 DEF SendTo
  <2>2. QueueOpen'
    BY <1>2, <1>4, <2>1 DEF CoreInv, QueueOpen, Open, TypeInv, TypeOK
  <2>3. CurOpen'
    BY <1>2, <1>5, <2>1 DEF CoreInv, CurOpen, Open, TypeInv, TypeOK
  <2>4. HeldOnce'
    BY <2>1 DEF CoreInv, HeldOnce, QueuedOnce, ServedOnce
  <2>5. CallOK'
    BY <1>2, <2>1 DEF CoreInv, CallOK, TypeInv, TypeOK
  <2>6. NoneLost'
    BY <1>2, <2>1 DEF CoreInv, NoneLost, Held, CallOK, TypeInv, TypeOK
  <2> QED BY <2>2, <2>3, <2>4, <2>5, <2>6 DEF CoreInv
<1>7. CASE pc[s] # "dead"
  <2>1. reply' = reply /\ queue' = [queue EXCEPT ![s] = Append(queue[s], req)]
    BY <1>7 DEF SendTo
  <2>2. /\ Len(queue'[s]) = Len(queue[s]) + 1
        /\ queue'[s][Len(queue[s]) + 1].job = j
        /\ \A i \in 1..Len(queue[s]) : queue'[s][i] = queue[s][i]
        /\ Len(queue[s]) \in Nat
        /\ \A t \in Slots : t # s => queue'[t] = queue[t]
    <3>1. queue[s] \in Seq(Requests) /\ queue'[s] = Append(queue[s], req)
      BY <2>1 DEF TypeInv, TypeOK
    <3> HIDE DEF req
    <3> QED BY <1>1, <2>1, <3>1 DEF TypeInv, TypeOK
  <2>3. QueueOpen'
    <3> SUFFICES ASSUME NEW t \in Slots, NEW i \in 1..Len(queue'[t])
                 PROVE  Open(t, queue[t][i].job)'
      BY DEF QueueOpen
    <3>1. CASE t = s /\ i = Len(queue[s]) + 1
      BY <1>2, <1>3, <2>1, <2>2, <3>1 DEF Open, TypeInv, TypeOK
    <3>2. CASE ~(t = s /\ i = Len(queue[s]) + 1)
      <4>1. i \in 1..Len(queue[t]) /\ queue'[t][i] = queue[t][i]
        BY <2>2, <3>2
      <4> QED BY <1>2, <1>4, <2>1, <4>1 DEF CoreInv, QueueOpen, Open, TypeInv, TypeOK
    <3> QED BY <3>1, <3>2
  <2>4. CurOpen'
    BY <1>2, <1>5, <2>1 DEF CoreInv, CurOpen, Open, TypeInv, TypeOK
  <2>5. HeldOnce'
    <3>1. ASSUME NEW t \in Slots, t # s PROVE QueuedOnce(t)' /\ ServedOnce(t)'
      BY <2>2, <3>1 DEF CoreInv, HeldOnce, QueuedOnce, ServedOnce
    <3>0. ASSUME NEW i \in 1..Len(queue'[s])
          PROVE  \/ i \in 1..Len(queue[s]) /\ queue'[s][i].job = queue[s][i].job
                 \/ i = Len(queue[s]) + 1 /\ queue'[s][i].job = j
      BY <2>2, SMTT(20)
    <3>2. QueuedOnce(s)'
      <4>1. \A i, k \in 1..Len(queue[s]) : queue[s][i].job = queue[s][k].job => i = k
        BY DEF CoreInv, HeldOnce, QueuedOnce
      <4>2. \A i \in 1..Len(queue[s]) : queue[s][i].job # j
        BY <1>4
      <4> QED BY <3>0, <4>1, <4>2 DEF QueuedOnce
    <3>3. ServedOnce(s)'
      <4>1. pc[s] \in Serving => \A i \in 1..Len(queue[s]) : queue[s][i].job # cur[s].job
        BY DEF CoreInv, HeldOnce, ServedOnce
      <4>2. pc[s] \in Serving => cur[s].job # j
        BY <1>5
      <4> QED BY <3>0, <4>1, <4>2 DEF ServedOnce
    <3> QED BY <3>1, <3>2, <3>3 DEF HeldOnce
  <2>6. CallOK'
    BY <1>2, <2>1 DEF CoreInv, CallOK, TypeInv, TypeOK
  <2>7. NoneLost'
    <3> SUFFICES ASSUME NEW k \in Jobs, call'[k] = "bridged"
                 PROVE  reply'[k] # "none" \/ Held(slotOf[k], k)'
      BY DEF NoneLost
    <3>1. CASE k = j
      <4>1. slotOf'[k] = s /\ Len(queue[s]) + 1 \in 1..Len(queue'[s])
        BY <1>2, <2>2, <3>1 DEF TypeInv, TypeOK
      <4> QED BY <2>2, <3>1, <4>1 DEF Held
    <3>2. CASE k # j
      <4>1. call[k] = "bridged" /\ slotOf'[k] = slotOf[k] /\ slotOf[k] \in Slots
        BY <1>2, <3>2 DEF CoreInv, CallOK, TypeInv, TypeOK
      <4>2. CASE reply[k] # "none"
        BY <2>1, <4>2
      <4>3. CASE Held(slotOf[k], k)
        <5>0. ASSUME NEW t \in Slots, NEW i \in 1..Len(queue[t])
              PROVE  i \in 1..Len(queue'[t]) /\ queue'[t][i] = queue[t][i]
          <6>1. CASE t = s
            BY <2>2, <6>1
          <6>2. CASE t # s
            BY <2>2, <6>2
          <6> QED BY <6>1, <6>2
        <5>1. \A i \in 1..Len(queue[slotOf[k]]) :
                 i \in 1..Len(queue'[slotOf[k]]) /\ queue'[slotOf[k]][i] = queue[slotOf[k]][i]
          BY <4>1, <5>0
        <5> QED BY <4>1, <4>3, <5>1 DEF Held
      <4> QED BY <4>1, <4>2, <4>3 DEF CoreInv, NoneLost
    <3> QED BY <3>1, <3>2
  <2> QED BY <2>3, <2>4, <2>5, <2>6, <2>7 DEF CoreInv
<1> QED BY <1>6, <1>7

\* Answering the request in hand.
LEMMA AnswerCore ==
    ASSUME TypeInv, CoreInv, NEW s \in Slots, NEW r \in Replies \ {"none"}, Answer(s, r),
           pc[s] \in Serving, UNCHANGED <<queue, slotOf, call>>
    PROVE  CoreInv'
<1> DEFINE j == cur[s].job
<1>1. /\ j \in Jobs
      /\ Open(s, j)
      /\ reply' = [reply EXCEPT ![j] = r]
      /\ pc' = [pc EXCEPT ![s] = "recv"]
      /\ cur' = [cur EXCEPT ![s] = NoRequest]
  BY DEF TypeInv, CurOK, Requests, CoreInv, CurOpen, Answer
<1> HIDE DEF j
<1>2. /\ \A t \in Slots : (pc'[t] \in Serving) <=> (t # s /\ pc[t] \in Serving)
      /\ \A t \in Slots : t # s => cur'[t] = cur[t]
  BY <1>1 DEF TypeInv, TypeOK, Serving
<1>3. QueueOpen'
  <2> SUFFICES ASSUME NEW t \in Slots, NEW i \in 1..Len(queue[t])
               PROVE  Open(t, queue[t][i].job)'
    BY DEF QueueOpen
  <2>1. Open(t, queue[t][i].job) /\ queue[t][i].job \in Jobs
    BY QueuedType DEF CoreInv, QueueOpen, TypeInv
  <2>2. queue[t][i].job # j
    BY <1>1, <2>1 DEF j, Open, CoreInv, HeldOnce, ServedOnce
  <2> QED BY <1>1, <2>1, <2>2 DEF Open, TypeInv, TypeOK
<1>4. CurOpen'
  <2> SUFFICES ASSUME NEW t \in Slots, pc'[t] \in Serving
               PROVE  Open(t, cur[t].job)'
    BY DEF CurOpen
  <2>1. t # s /\ cur'[t] = cur[t] /\ Open(t, cur[t].job) /\ cur[t].job \in Jobs
    BY <1>2 DEF CoreInv, CurOpen, TypeInv, CurOK, Requests
  <2> QED BY <1>1, <2>1 DEF Open, TypeInv, TypeOK
<1>5. HeldOnce'
  BY <1>2 DEF CoreInv, HeldOnce, QueuedOnce, ServedOnce
<1>6. CallOK'
  BY <1>1 DEF CoreInv, CallOK, Open, TypeInv, TypeOK
<1>7. NoneLost'
  <2> SUFFICES ASSUME NEW k \in Jobs, call[k] = "bridged"
               PROVE  reply'[k] # "none" \/ Held(slotOf[k], k)'
    BY DEF NoneLost
  <2>1. CASE k = j
    BY <1>1, <2>1 DEF TypeInv, TypeOK
  <2>2. CASE k # j
    <3>1. slotOf[k] \in Slots
      BY DEF CoreInv, CallOK
    <3>2. reply[k] # "none" \/ Held(slotOf[k], k)
      BY DEF CoreInv, NoneLost
    <3>3. CASE reply[k] # "none"
      BY <1>1, <2>2, <3>3 DEF TypeInv, TypeOK
    <3>4. CASE Held(slotOf[k], k)
      BY <1>2, <2>2, <3>1, <3>4 DEF Held, j
    <3> QED BY <3>2, <3>3, <3>4
  <2> QED BY <2>1, <2>2
<1> QED BY <1>3, <1>4, <1>5, <1>6, <1>7 DEF CoreInv

\* A step of one call that touches no request and no reply.
LEMMA CallStepCore ==
    ASSUME TypeInv, CoreInv, NEW j \in Jobs,
           UNCHANGED <<queue, slotOf, reply, pc, cur>>,
           \/ UNCHANGED call
           \/ /\ call[j] \notin {"bridged", "dropped", "resolved"}
              /\ \E c \in {"refused", "inline", "inlining", "resolved", "dropped"} :
                    call' = [call EXCEPT ![j] = c]
           \/ /\ call[j] = "bridged" /\ reply[j] # "none"
              /\ call' = [call EXCEPT ![j] = "resolved"]
           \/ call[j] = "bridged" /\ call' = [call EXCEPT ![j] = "dropped"]
    PROVE  CoreInv'
<1> USE ConstantsAssumption
<1>1. ASSUME NEW t \in Slots, NEW k \in Jobs, Open(t, k) PROVE Open(t, k)'
  BY <1>1 DEF Open, CoreInv, CallOK, TypeInv, TypeOK, Slots
<1>2. QueueOpen'
  <2> SUFFICES ASSUME NEW t \in Slots, NEW i \in 1..Len(queue[t])
               PROVE  Open(t, queue[t][i].job)'
    BY DEF QueueOpen
  <2>1. Open(t, queue[t][i].job) /\ queue[t][i].job \in Jobs
    BY QueuedType DEF CoreInv, QueueOpen, TypeInv
  <2> QED BY <1>1, <2>1 DEF Open
<1>3. CurOpen'
  <2> SUFFICES ASSUME NEW t \in Slots, pc[t] \in Serving
               PROVE  Open(t, cur[t].job)'
    BY DEF CurOpen
  <2>1. Open(t, cur[t].job) /\ cur[t].job \in Jobs
    BY DEF CoreInv, CurOpen, TypeInv, CurOK, Requests
  <2> QED BY <1>1, <2>1 DEF Open
<1>4. HeldOnce'
  BY DEF CoreInv, HeldOnce, QueuedOnce, ServedOnce
<1>5. CallOK'
  BY DEF CoreInv, CallOK, TypeInv, TypeOK
<1>6. NoneLost'
  BY DEF CoreInv, NoneLost, Held, TypeInv, TypeOK
<1> QED BY <1>2, <1>3, <1>4, <1>5, <1>6 DEF CoreInv

\* A step of an isolate between receiving a request and answering it.
LEMMA ServeStepCore ==
    ASSUME TypeInv, CoreInv, NEW s \in Slots, NEW p \in Serving,
           pc[s] \in Serving, pc' = [pc EXCEPT ![s] = p],
           UNCHANGED <<queue, slotOf, reply, call, cur>>
    PROVE  CoreInv'
<1>1. \A t \in Slots : (pc'[t] \in Serving) <=> (pc[t] \in Serving)
  BY DEF TypeInv, TypeOK
<1>2. QueueOpen' /\ CurOpen' /\ HeldOnce' /\ CallOK'
  BY <1>1 DEF CoreInv, QueueOpen, CurOpen, HeldOnce, QueuedOnce, ServedOnce, CallOK, Open
<1>3. NoneLost'
  BY <1>1 DEF CoreInv, NoneLost, Held, CallOK
<1> QED BY <1>2, <1>3 DEF CoreInv

\* The isolate takes the oldest request of its channel.
LEMMA ReceiveCore ==
    ASSUME TypeInv, CoreInv, NEW s \in Slots, Receive(s)
    PROVE  CoreInv'
<1>1. /\ queue[s] \in Seq(Requests)
      /\ queue[s] # <<>>
      /\ cur' = [cur EXCEPT ![s] = Head(queue[s])]
      /\ queue' = [queue EXCEPT ![s] = Tail(queue[s])]
      /\ pc[s] = "recv"
      /\ pc' = [pc EXCEPT ![s] = "load"]
      /\ UNCHANGED <<slotOf, call, reply>>
  BY DEF Receive, callerVars, TypeInv, TypeOK
<1>2. /\ cur'[s] = queue[s][1]
      /\ pc'[s] \in Serving
      /\ Len(queue[s]) \in Nat \ {0}
      /\ Len(queue'[s]) = Len(queue[s]) - 1
      /\ \A i \in 1..Len(queue'[s]) : queue'[s][i] = queue[s][i + 1]
      /\ \A t \in Slots : t # s => /\ queue'[t] = queue[t]
                                  /\ cur'[t] = cur[t]
                                  /\ pc'[t] = pc[t]
  BY <1>1 DEF TypeInv, TypeOK, Serving
<1>3. ASSUME NEW t \in Slots, NEW k \in Jobs PROVE Open(t, k)' = Open(t, k)
  BY <1>1 DEF Open
<1>4. QueueOpen'
  <2> SUFFICES ASSUME NEW t \in Slots, NEW i \in 1..Len(queue'[t])
               PROVE  Open(t, queue[t][i].job)'
    BY DEF QueueOpen
  <2>1. PICK k \in 1..Len(queue[t]) : queue'[t][i] = queue[t][k]
    <3>1. CASE t = s
      <4>1. i + 1 \in 1..Len(queue[t]) /\ queue'[t][i] = queue[t][i + 1]
        BY <1>2, <3>1
      <4> QED BY <4>1
    <3>2. CASE t # s
      BY <1>2, <3>2
    <3> QED BY <3>1, <3>2
  <2>2. Open(t, queue[t][k].job) /\ queue[t][k].job \in Jobs
    BY QueuedType DEF CoreInv, QueueOpen, TypeInv
  <2> QED BY <1>1, <2>1, <2>2 DEF Open
<1>5. CurOpen'
  <2>1. Open(s, queue[s][1].job)
    BY <1>2 DEF CoreInv, QueueOpen
  <2>2. Open(s, cur[s].job)'
    BY <1>1, <1>2, <2>1 DEF Open
  <2>3. ASSUME NEW t \in Slots, t # s, pc'[t] \in Serving PROVE Open(t, cur[t].job)'
    BY <1>1, <1>2, <2>3 DEF CoreInv, CurOpen, Open
  <2> QED BY <2>2, <2>3 DEF CurOpen
<1>6. HeldOnce'
  <2>1. ASSUME NEW t \in Slots, t # s PROVE QueuedOnce(t)' /\ ServedOnce(t)'
    BY <1>2, <2>1 DEF CoreInv, HeldOnce, QueuedOnce, ServedOnce
  <2>2. \A i, k \in 1..Len(queue[s]) : queue[s][i].job = queue[s][k].job => i = k
    BY DEF CoreInv, HeldOnce, QueuedOnce
  <2>3. \A i \in 1..Len(queue'[s]) : /\ i + 1 \in 1..Len(queue[s])
                                    /\ queue'[s][i].job = queue[s][i + 1].job
    BY <1>2
  <2>4. QueuedOnce(s)'
    <3> SUFFICES ASSUME NEW i \in 1..Len(queue'[s]), NEW k \in 1..Len(queue'[s]),
                        queue'[s][i].job = queue'[s][k].job
                 PROVE  i = k
      BY DEF QueuedOnce
    <3>1. i + 1 = k + 1
      BY <2>2, <2>3
    <3> QED BY <3>1
  <2>5. ServedOnce(s)'
    <3> SUFFICES ASSUME NEW i \in 1..Len(queue'[s])
                 PROVE  queue'[s][i].job # cur'[s].job
      BY DEF ServedOnce
    <3>1. 1 \in 1..Len(queue[s]) /\ i + 1 # 1
      BY <1>2
    <3> QED BY <1>2, <2>2, <2>3, <3>1
  <2> QED BY <2>1, <2>4, <2>5 DEF HeldOnce
<1>7. CallOK'
  BY <1>1 DEF CoreInv, CallOK
<1>8. NoneLost'
  <2> SUFFICES ASSUME NEW k \in Jobs, call[k] = "bridged", reply[k] = "none"
               PROVE  Held(slotOf[k], k)'
    BY <1>1 DEF NoneLost
  <2>1. slotOf[k] \in Slots /\ Held(slotOf[k], k)
    BY DEF CoreInv, NoneLost, CallOK
  <2>2. CASE slotOf[k] # s
    BY <1>1, <1>2, <2>1, <2>2 DEF Held
  <2>3. CASE slotOf[k] = s
    <3>1. PICK i \in 1..Len(queue[s]) : queue[s][i].job = k
      BY <1>1, <2>1, <2>3 DEF Held, Serving
    <3>2. CASE i = 1
      BY <1>1, <1>2, <2>3, <3>1, <3>2 DEF Held
    <3>3. CASE i # 1
      <4>0. i - 1 \in 1..Len(queue'[s]) /\ (i - 1) + 1 = i
        <5>1. Len(queue[s]) \in Nat /\ Len(queue'[s]) = Len(queue[s]) - 1
          BY <1>2
        <5> QED BY <3>3, <5>1
      <4>1. /\ i - 1 \in 1..Len(queue'[s])
            /\ queue'[s][i - 1] = queue[s][i]
        BY <1>2, <4>0
      <4> QED BY <1>1, <2>3, <3>1, <4>1 DEF Held
    <3> QED BY <3>2, <3>3
  <2> QED BY <2>2, <2>3
<1> QED BY <1>4, <1>5, <1>6, <1>7, <1>8 DEF CoreInv

\* The thread ends and everything it held is closed.
LEMMA DieCore ==
    ASSUME TypeInv, CoreInv, NEW s \in Slots, Die(s)
    PROVE  CoreInv'
<1>1. /\ reply' = [j \in Jobs |-> IF j \in HeldJobs(s) THEN "closed" ELSE reply[j]]
      /\ UNCHANGED <<slotOf, call>>
      /\ queue'[s] = <<>>
      /\ pc'[s] = "dead"
      /\ pc[s] # "dead"
      /\ \A t \in Slots : t # s => /\ queue'[t] = queue[t]
                                  /\ cur'[t] = cur[t]
                                  /\ pc'[t] = pc[t]
  BY DEF Die, callerVars, TypeInv, TypeOK
<1>2. ASSUME NEW t \in Slots, t # s, NEW k \in Jobs, Open(t, k) PROVE Open(t, k)'
  <2>1. \A i \in 1..Len(queue[s]) : queue[s][i].job # k
    BY <1>2 DEF CoreInv, QueueOpen, Open
  <2>2. cur[s].job # k
    <3>1. CASE pc[s] \in Serving
      BY <1>2, <3>1 DEF CoreInv, CurOpen, Open
    <3>2. CASE pc[s] \notin Serving
      BY <3>2, ConstantsAssumption DEF TypeInv, CurOK, NoRequest
    <3> QED BY <3>1, <3>2
  <2>3. k \notin HeldJobs(s)
    BY <2>1, <2>2 DEF HeldJobs
  <2> QED BY <1>1, <1>2, <2>3 DEF Open
<1>3. QueueOpen'
  <2> SUFFICES ASSUME NEW t \in Slots, NEW i \in 1..Len(queue'[t])
               PROVE  Open(t, queue[t][i].job)'
    BY DEF QueueOpen
  <2>1. t # s
    BY <1>1
  <2>2. queue'[t] = queue[t] /\ Open(t, queue[t][i].job) /\ queue[t][i].job \in Jobs
    BY <1>1, <2>1, QueuedType DEF CoreInv, QueueOpen, TypeInv
  <2>3. Open(t, queue[t][i].job) => slotOf'[queue[t][i].job] = t /\ call'[queue[t][i].job] \in {"bridged", "dropped"} /\ reply'[queue[t][i].job] = "none"
    BY <1>1, <1>2, <2>1, <2>2 DEF Open
  <2> QED BY <2>2, <2>3 DEF Open
<1>4. CurOpen'
  <2> SUFFICES ASSUME NEW t \in Slots, pc'[t] \in Serving
               PROVE  Open(t, cur[t].job)'
    BY DEF CurOpen
  <2>1. t # s
    BY <1>1 DEF Serving
  <2>2. cur'[t] = cur[t] /\ pc[t] \in Serving
    BY <1>1, <2>1
  <2>3. Open(t, cur[t].job) /\ cur[t].job \in Jobs
    BY <2>2 DEF CoreInv, CurOpen, TypeInv, CurOK, Requests
  <2> QED BY <1>1, <1>2, <2>1, <2>2, <2>3 DEF Open
<1>5. HeldOnce'
  <2>1. QueuedOnce(s)' /\ ServedOnce(s)'
    BY <1>1 DEF QueuedOnce, ServedOnce, Serving
  <2>2. ASSUME NEW t \in Slots, t # s PROVE QueuedOnce(t)' /\ ServedOnce(t)'
    BY <1>1, <2>2 DEF CoreInv, HeldOnce, QueuedOnce, ServedOnce
  <2> QED BY <2>1, <2>2 DEF HeldOnce
<1>6. CallOK'
  <2>1. ASSUME NEW k \in Jobs, k \in HeldJobs(s) PROVE call[k] \in {"bridged", "dropped"}
    BY <2>1, ConstantsAssumption
    DEF HeldJobs, CoreInv, QueueOpen, CurOpen, Open, TypeInv, CurOK, NoRequest
  <2> QED BY <1>1, <2>1 DEF CoreInv, CallOK
<1>7. NoneLost'
  <2> SUFFICES ASSUME NEW k \in Jobs, call[k] = "bridged"
               PROVE  reply'[k] # "none" \/ Held(slotOf[k], k)'
    BY <1>1 DEF NoneLost
  <2>1. slotOf[k] \in Slots /\ (reply[k] # "none" \/ Held(slotOf[k], k))
    BY DEF CoreInv, NoneLost, CallOK
  <2>2. CASE reply[k] # "none"
    BY <1>1, <2>2
  <2>3. CASE Held(slotOf[k], k) /\ slotOf[k] = s
    BY <1>1, <2>3 DEF Held, HeldJobs
  <2>4. CASE Held(slotOf[k], k) /\ slotOf[k] # s
    BY <1>1, <2>1, <2>4 DEF Held
  <2> QED BY <2>1, <2>2, <2>3, <2>4
<1> QED BY <1>3, <1>4, <1>5, <1>6, <1>7 DEF CoreInv

\* Every step keeps the invariant.
LEMMA CoreNext == TypeInv /\ CoreInv /\ [Next]_vars => CoreInv'
<1> SUFFICES ASSUME TypeInv, CoreInv, [Next]_vars PROVE CoreInv'
  OBVIOUS
<1> USE ConstantsAssumption
<1>1. ASSUME NEW j \in Jobs, Dispatch(j) PROVE CoreInv'
  <2>1. CASE Refuse(j)
    BY <2>1, CallStepCore DEF Refuse, isolateVars
  <2>2. CASE DispatchIdle(j)
    <3>1. PICK s \in Live : SendTo(s, j)
      BY <2>2 DEF DispatchIdle
    <3>2. s \in Slots
      BY DEF Live, Slots, TypeInv, TypeOK
    <3> QED BY <2>2, <3>1, <3>2, SendToCore DEF DispatchIdle, isolateVars
  <2>3. CASE DispatchGrow(j)
    <3>1. live + 1 \in Slots /\ pc' = [pc EXCEPT ![live + 1] = "recv"]
      BY <2>3 DEF DispatchGrow, Slots, TypeInv, TypeOK
    <3>2. pc[live + 1] = "absent"
      BY <3>1 DEF TypeInv, TypeOK, GrowOK
    <3>3. \A t \in Slots : (pc'[t] \in Serving) <=> (pc[t] \in Serving)
      BY <3>1, <3>2 DEF TypeInv, TypeOK, Serving
    <3> QED BY <2>3, <3>1, <3>3, SendToCore DEF DispatchGrow
  <2>4. CASE DispatchLeastLoaded(j)
    <3>1. PICK s \in Live : SendTo(s, j)
      BY <2>4 DEF DispatchLeastLoaded
    <3>2. s \in Slots
      BY DEF Live, Slots, TypeInv, TypeOK
    <3> QED BY <2>4, <3>1, <3>2, SendToCore DEF DispatchLeastLoaded, isolateVars
  <2>5. CASE DispatchInline(j)
    BY <2>5, CallStepCore DEF DispatchInline, isolateVars
  <2> QED BY <1>1, <2>1, <2>2, <2>3, <2>4, <2>5 DEF Dispatch
<1>2. ASSUME NEW j \in Jobs, Task(j) PROVE CoreInv'
  <2>1. CASE Bridge(j)
    BY <2>1, CallStepCore DEF Bridge, isolateVars
  <2>2. CASE InlineStart(j)
    BY <2>2, CallStepCore DEF InlineStart, isolateVars
  <2>3. CASE InlineFails(j)
    BY <2>3, CallStepCore DEF InlineFails, isolateVars
  <2>4. CASE InlineFinish(j)
    BY <2>4, CallStepCore DEF InlineFinish, isolateVars
  <2>5. CASE AbortTask(j)
    BY <2>5, CallStepCore DEF AbortTask, isolateVars
  <2>6. CASE BridgePolled(j)
    BY <2>6, CallStepCore DEF BridgePolled, isolateVars
  <2> QED BY <1>2, <2>1, <2>2, <2>3, <2>4, <2>5, <2>6 DEF Task
<1>3. ASSUME NEW j \in Jobs, DropFuture(j) PROVE CoreInv'
  BY <1>3, CallStepCore DEF DropFuture, isolateVars
<1>4. ASSUME NEW s \in Slots, Isolate(s) PROVE CoreInv'
  <2>1. CASE Receive(s)
    BY <2>1, ReceiveCore
  <2>2. CASE ArchiveFails(s)
    BY <2>2, AnswerCore DEF ArchiveFails, callerVars, Serving, Replies
  <2>3. CASE SliceCached(s)
    BY <2>3, ServeStepCore DEF SliceCached, callerVars, Serving
  <2>4. CASE SliceMissing(s)
    BY <2>4, AnswerCore DEF SliceMissing, callerVars, Serving, Replies
  <2>5. CASE SliceLoads(s)
    BY <2>5, ServeStepCore DEF SliceLoads, callerVars, Serving
  <2>6. CASE SliceRaises(s)
    BY <2>6, AnswerCore DEF SliceRaises, callerVars, Serving, Replies
  <2>7. CASE ArgsRejected(s)
    BY <2>7, AnswerCore DEF ArgsRejected, callerVars, Serving, Replies
  <2>8. CASE Start(s)
    BY <2>8, ServeStepCore DEF Start, callerVars, Serving
  <2>9. CASE Cancel(s)
    BY <2>9, AnswerCore DEF Cancel, callerVars, Serving, Replies
  <2>10. CASE Finish(s)
    BY <2>10, AnswerCore DEF Finish, callerVars, Serving, Replies
  <2> QED BY <1>4, <2>1, <2>2, <2>3, <2>4, <2>5, <2>6, <2>7, <2>8, <2>9, <2>10 DEF Isolate
<1>5. ASSUME NEW s \in Slots, Die(s) PROVE CoreInv'
  BY <1>5, DieCore
<1>6. CASE UNCHANGED vars
  BY <1>6 DEF vars, CoreInv, QueueOpen, CurOpen, HeldOnce, QueuedOnce, ServedOnce, CallOK,
              NoneLost, Held, Open
<1> QED BY <1>1, <1>2, <1>3, <1>4, <1>5, <1>6 DEF Next

\* Types and invariant hold in every reachable state.
LEMMA CoreCorrect == Spec => [](TypeInv /\ CoreInv)
BY TypeInit, TypeNext, CoreInit, CoreNext, PTL DEF Spec

\* A request an isolate holds belongs to a call sent to it that is neither
\* answered nor resolved (HeldIsOpen: isolate_loop and the bridge never both
\* finish a call).
THEOREM HeldOpen == Spec => []HeldIsOpen
<1>1. TypeInv /\ CoreInv => HeldIsOpen
  <2> SUFFICES ASSUME TypeInv, CoreInv, NEW s \in Slots, NEW j \in HeldJobs(s) \ {NoJob}
               PROVE  Open(s, j)
    BY DEF HeldIsOpen, Open
  <2>1. CASE j = cur[s].job
    BY <2>1 DEF TypeInv, CurOK, NoRequest, CoreInv, CurOpen
  <2>2. CASE j \in {queue[s][i].job : i \in 1..Len(queue[s])}
    BY <2>2 DEF CoreInv, QueueOpen
  <2> QED BY <2>1, <2>2 DEF HeldJobs
<1> QED BY <1>1, CoreCorrect, PTL

\* A call the bridge still waits for has its request with its isolate, or its
\* reply oneshot answered or closed (NoLostCall), whatever isolates die.
THEOREM NothingLost == Spec => []NoLostCall
<1>1. TypeInv /\ CoreInv => NoLostCall
  BY DEF NoLostCall, HeldJobs, CoreInv, NoneLost, Held
<1> QED BY <1>1, CoreCorrect, PTL

-----------------------------------------------------------------------------
(* The in-flight counters.  InflightExact is inductive with TypeInv and    *)
(* CallOK (a call that has not been sent counts on no slot).               *)

\* The calls a counter counts are finitely many.
LEMMA CountedFinite ==
    ASSUME NEW s
    PROVE  IsFiniteSet(Counted(s)) /\ Cardinality(Counted(s)) \in Nat
BY ConstantsAssumption, FS_Subset, FS_CardinalityType DEF Counted

\* A call is counted while its bridge waits, and for ever if it is dropped unpolled.
Counts(j) == call[j] = "bridged" \/ (call[j] = "dropped" /\ ~polled[j])

\* A step that starts and ends no bridge.
LEMMA InflightSame ==
    ASSUME InflightExact, UNCHANGED <<inflight, slotOf>>,
           \A k \in Jobs : slotOf[k] # 0 => (Counts(k)' <=> Counts(k))
    PROVE  InflightExact'
<1>1. ASSUME NEW s \in Slots PROVE Counted(s)' = Counted(s)
  <2>1. s # 0
    BY ConstantsAssumption DEF Slots
  <2> QED BY <2>1 DEF Counted, Counts
<1> QED BY <1>1 DEF InflightExact

\* Pool::send_to counts the bridge it starts.
LEMMA InflightSend ==
    ASSUME TypeInv, CoreInv, InflightExact, NEW s \in Slots, NEW j \in Jobs,
           SendTo(s, j), call[j] = "idle", polled' = polled
    PROVE  InflightExact'
<1>1. /\ inflight' = [inflight EXCEPT ![s] = inflight[s] + 1]
      /\ slotOf' = [slotOf EXCEPT ![j] = s]
      /\ call' = [call EXCEPT ![j] = "bridged"]
      /\ inflight \in [Slots -> Nat]
  BY DEF SendTo, TypeInv, TypeOK
<1>2. Counted(s)' = Counted(s) \union {j} /\ j \notin Counted(s)
  BY <1>1 DEF Counted, TypeInv, TypeOK
<1>3. ASSUME NEW t \in Slots, t # s PROVE Counted(t)' = Counted(t)
  BY <1>1, <1>3 DEF Counted, TypeInv, TypeOK
<1>4. Cardinality(Counted(s)') = Cardinality(Counted(s)) + 1
  BY <1>2, CountedFinite, FS_AddElement
<1> QED BY <1>1, <1>3, <1>4 DEF InflightExact

\* The guard of a bridge that ends gives its count back, whose slot's count the
\* saturation at zero never hides.
LEMMA InflightRelease ==
    ASSUME TypeInv, CoreInv, InflightExact, NEW j \in Jobs, call[j] = "bridged",
           NEW c \in {"resolved", "dropped"}, c = "dropped" => polled[j],
           call' = [call EXCEPT ![j] = c], UNCHANGED <<slotOf, polled>>, ReleaseSlot(j)
    PROVE  InflightExact'
<1>0. PICK s \in Slots : s = slotOf[j]
  BY DEF CoreInv, CallOK
<1>1. s \in Slots /\ inflight \in [Slots -> Nat] /\ inflight[s] = Cardinality(Counted(s))
  BY DEF InflightExact, TypeInv, TypeOK
<1>2. Counted(s)' = Counted(s) \ {j} /\ j \in Counted(s)
  BY <1>0 DEF Counted, TypeInv, TypeOK
<1>3. ASSUME NEW t \in Slots, t # s PROVE Counted(t)' = Counted(t)
  BY <1>0, <1>3 DEF Counted, TypeInv, TypeOK
<1>4. Cardinality(Counted(s)') = Cardinality(Counted(s)) - 1 /\ Cardinality(Counted(s)') \in Nat
  BY <1>2, CountedFinite, FS_RemoveElement, FS_CardinalityType
<1>5. inflight' = [inflight EXCEPT ![s] = inflight[s] - 1]
  <2>1. inflight[s] # 0
    BY <1>1, <1>4
  <2> QED BY <1>0, <1>1, <2>1 DEF ReleaseSlot
<1>6. ASSUME NEW t \in Slots PROVE inflight'[t] = Cardinality(Counted(t)')
  <2>1. CASE t = s
    BY <1>1, <1>4, <1>5, <2>1
  <2>2. CASE t # s
    BY <1>1, <1>3, <1>5, <2>2 DEF InflightExact
  <2> QED BY <2>1, <2>2
<1> QED BY <1>6 DEF InflightExact

\* Every step that starts or ends a job moves the in-flight count of its isolate with it.
LEMMA InflightNext == TypeInv /\ CoreInv /\ InflightExact /\ [Next]_vars => InflightExact'
<1> SUFFICES ASSUME TypeInv, CoreInv, InflightExact, [Next]_vars PROVE InflightExact'
  OBVIOUS
<1>0. call \in [Jobs -> CallStates]
  BY DEF TypeInv, TypeOK
<1>1. ASSUME NEW j \in Jobs, Refuse(j) \/ DispatchInline(j) \/ DropFuture(j)
      PROVE  InflightExact'
  <2>1. \A k \in Jobs : Counts(k)' <=> Counts(k)
    BY <1>0, <1>1 DEF Refuse, DispatchInline, DropFuture, Counts
  <2> QED BY <1>1, <2>1, InflightSame DEF Refuse, DispatchInline, DropFuture
<1>2. ASSUME NEW j \in Jobs, DispatchIdle(j) \/ DispatchLeastLoaded(j) \/ DispatchGrow(j)
      PROVE  InflightExact'
  <2>1. PICK s \in Slots : SendTo(s, j)
    BY <1>2, ConstantsAssumption DEF DispatchIdle, DispatchLeastLoaded, DispatchGrow, Live, Slots, TypeInv, TypeOK
  <2> QED BY <1>2, <2>1, InflightSend DEF DispatchIdle, DispatchLeastLoaded, DispatchGrow
<1>3. ASSUME NEW j \in Jobs, Bridge(j) PROVE InflightExact'
  BY <1>3, InflightRelease DEF Bridge
<1>4. ASSUME NEW j \in Jobs, InlineStart(j) \/ InlineFails(j) \/ InlineFinish(j) \/ BridgePolled(j)
      PROVE  InflightExact'
  <2>1. \A k \in Jobs : Counts(k)' <=> Counts(k)
    BY <1>0, <1>4 DEF InlineStart, InlineFails, InlineFinish, BridgePolled, Counts, TypeInv, TypeOK
  <2> QED BY <1>4, <2>1, InflightSame DEF InlineStart, InlineFails, InlineFinish, BridgePolled
<1>5. ASSUME NEW j \in Jobs, AbortTask(j) PROVE InflightExact'
  <2>0. /\ call' = [call EXCEPT ![j] = "dropped"]
        /\ UNCHANGED <<slotOf, polled>>
        /\ call[j] \in {"bridged", "inline", "inlining"}
    BY <1>5 DEF AbortTask
  <2>1. CASE call[j] = "bridged" /\ polled[j]
    <3>1. ReleaseSlot(j)
      BY <1>5, <2>1 DEF AbortTask
    <3> QED BY <2>0, <2>1, <3>1, InflightRelease
  <2>2. CASE call[j] = "bridged" /\ ~polled[j]
    <3>1. inflight' = inflight
      BY <1>5, <2>2 DEF AbortTask
    <3>2. \A k \in Jobs : Counts(k)' <=> Counts(k)
      BY <1>0, <2>0, <2>2 DEF Counts
    <3> QED BY <2>0, <3>1, <3>2, InflightSame
  <2>3. CASE call[j] # "bridged"
    <3>1. inflight' = inflight
      BY <1>5, <2>3 DEF AbortTask
    <3>2. slotOf[j] = 0
      BY <2>0, <2>3 DEF CoreInv, CallOK
    <3>3. \A k \in Jobs : slotOf[k] # 0 => (Counts(k)' <=> Counts(k))
      BY <1>0, <2>0, <3>2 DEF Counts
    <3> QED BY <2>0, <3>1, <3>3, InflightSame
  <2> QED BY <2>1, <2>2, <2>3
<1>6. ASSUME NEW s \in Slots, Isolate(s) \/ Die(s) PROVE InflightExact'
  <2>1. UNCHANGED <<inflight, slotOf, call, polled>>
    BY <1>6 DEF Isolate, Receive, ArchiveFails, SliceCached, SliceMissing, SliceLoads, SliceRaises,
                ArgsRejected, Start, Cancel, Finish, Die, callerVars
  <2> QED BY <2>1, InflightSame DEF Counts
<1>7. CASE UNCHANGED vars
  BY <1>7, InflightSame DEF vars, Counts
<1> QED BY <1>1, <1>2, <1>3, <1>4, <1>5, <1>6, <1>7 DEF Next, Dispatch, Task

\* The counter the scheduler compares is the number of bridges that wait on the
\* isolate and of calls dropped before their bridge's first poll (InflightExact;
\* send_to, InflightGuard::drop), for any number of jobs and isolates: a drop before
\* the first poll is the only thing that makes it drift, whatever replies, drops and
\* deaths come together.
THEOREM InflightCounts == Spec => []InflightExact
<1>1. Init => InflightExact
  <2> SUFFICES ASSUME Init, NEW s \in Slots PROVE inflight[s] = Cardinality(Counted(s))
    BY DEF InflightExact
  <2>1. Counted(s) = {}
    BY DEF Init, Counted
  <2> QED BY <2>1, FS_EmptySet DEF Init
<1> QED BY <1>1, CoreCorrect, InflightNext, PTL DEF Spec

-----------------------------------------------------------------------------
(* The refinement of WorkerCalls.  Beyond CoreInv it needs to know, from   *)
(* where a call is, whether its body has been started.                     *)

\* What the caller knows: a body runs once at most, and an Ok comes from a run.
RunsCall ==
    \A j \in Jobs :
        /\ runs[j] \in {0, 1}
        /\ call[j] \in {"idle", "refused", "inline"} => runs[j] = 0
        /\ call[j] = "inlining" => runs[j] = 1
        /\ reply[j] = "ok" => runs[j] = 1

\* What an isolate knows of the request in hand.
RunsServe ==
    \A s \in Slots :
        /\ pc[s] \in {"load", "ready"} => runs[cur[s].job] = 0
        /\ pc[s] = "run" => runs[cur[s].job] = 1

\* A request that waits in a channel has not been run.
RunsQueue == \A s \in Slots : \A i \in 1..Len(queue[s]) : runs[queue[s][i].job] = 0

RunsInv == RunsCall /\ RunsServe /\ RunsQueue

\* A job in hand or in a channel is where it was sent, and nowhere else.
LEMMA HeldWhere ==
    ASSUME TypeInv, CoreInv
    PROVE  /\ \A s \in Slots : pc[s] \in Serving => cur[s].job \in Jobs /\ Open(s, cur[s].job)
           /\ \A s \in Slots : \A i \in 1..Len(queue[s]) :
                 queue[s][i].job \in Jobs /\ Open(s, queue[s][i].job)
<1>1. \A s \in Slots : pc[s] \in Serving => cur[s].job \in Jobs
  BY DEF TypeInv, CurOK, Requests
<1>2. \A s \in Slots : \A i \in 1..Len(queue[s]) : queue[s][i].job \in Jobs
  BY QueuedType DEF TypeInv
<1> QED BY <1>1, <1>2 DEF CoreInv, CurOpen, QueueOpen

\* A request that is sent belongs to a job whose body has not been started.
LEMMA RunsSend ==
    ASSUME TypeInv, CoreInv, RunsInv, NEW s \in Slots, NEW j \in Jobs, SendTo(s, j),
           call[j] = "idle", cur' = cur, runs' = runs,
           \A t \in Slots : pc'[t] = pc[t] \/ pc'[t] = "recv"
    PROVE  RunsInv'
<1> DEFINE req == [job |-> j,
                   slice |-> FnOf[j] \notin loaded_fns[s],
                   archive |-> Bundled /\ ~archive_loaded[s]]
<1>1. /\ call' = [call EXCEPT ![j] = "bridged"]
      /\ reply' = reply \/ reply' = [reply EXCEPT ![j] = "closed"]
      /\ queue' = queue \/ queue' = [queue EXCEPT ![s] = Append(queue[s], req)]
  BY DEF SendTo
<1>2. req.job = j /\ runs[j] = 0 /\ queue[s] \in Seq(Requests)
  BY DEF RunsInv, RunsCall, TypeInv, TypeOK
<1> HIDE DEF req
<1>3. RunsCall'
  BY <1>1, <1>2 DEF RunsInv, RunsCall, TypeInv, TypeOK
<1>4. RunsServe'
  BY DEF RunsInv, RunsServe
<1>5. RunsQueue'
  <2> SUFFICES ASSUME NEW t \in Slots, NEW i \in 1..Len(queue'[t])
               PROVE  runs[queue'[t][i].job] = 0
    BY DEF RunsQueue
  <2>1. CASE queue'[t] = queue[t]
    BY <2>1 DEF RunsInv, RunsQueue
  <2>2. CASE t = s /\ queue'[t] = Append(queue[s], req)
    <3>1. (i \in 1..Len(queue[s]) /\ queue'[t][i] = queue[s][i]) \/ queue'[t][i] = req
      BY <1>2, <2>2
    <3> QED BY <1>2, <2>2, <3>1 DEF RunsInv, RunsQueue
  <2> QED BY <1>1, <2>1, <2>2 DEF TypeInv, TypeOK
<1> QED BY <1>3, <1>4, <1>5 DEF RunsInv

\* A step of the caller that starts no body.
LEMMA RunsCaller ==
    ASSUME TypeInv, RunsInv, UNCHANGED <<queue, reply, pc, cur, runs>>,
           NEW j \in Jobs,
           \/ UNCHANGED call
           \/ \E c \in {"resolved", "dropped"} : call' = [call EXCEPT ![j] = c]
           \/ call[j] = "idle" /\ \E c \in {"refused", "inline"} : call' = [call EXCEPT ![j] = c]
    PROVE  RunsInv'
<1>1. RunsCall'
  BY DEF RunsInv, RunsCall, TypeInv, TypeOK
<1> QED BY <1>1 DEF RunsInv, RunsServe, RunsQueue

\* An answer; only a body that ran answers Ok.
LEMMA RunsAnswer ==
    ASSUME TypeInv, CoreInv, RunsInv, NEW s \in Slots, NEW r \in Replies, Answer(s, r),
           pc[s] \in Serving, r = "ok" => pc[s] = "run", UNCHANGED <<call, queue, runs>>
    PROVE  RunsInv'
<1>1. /\ reply' = [reply EXCEPT ![cur[s].job] = r]
      /\ cur' = [cur EXCEPT ![s] = NoRequest]
      /\ pc' = [pc EXCEPT ![s] = "recv"]
  BY DEF Answer
<1>2. cur[s].job \in Jobs /\ (r = "ok" => runs[cur[s].job] = 1)
  BY HeldWhere DEF RunsInv, RunsServe
<1>3. RunsCall'
  BY <1>1, <1>2 DEF RunsInv, RunsCall, TypeInv, TypeOK
<1>4. RunsServe'
  BY <1>1 DEF RunsInv, RunsServe, TypeInv, TypeOK
<1> QED BY <1>3, <1>4 DEF RunsInv, RunsQueue

\* A body starts on an isolate.
LEMMA RunsStart ==
    ASSUME TypeInv, CoreInv, RunsInv, NEW s \in Slots, Start(s)
    PROVE  RunsInv' /\ runs[cur[s].job] = 0 /\ call[cur[s].job] = "bridged"
<1> DEFINE j == cur[s].job
<1>1. /\ pc[s] = "ready" /\ pc' = [pc EXCEPT ![s] = "run"]
      /\ runs' = [runs EXCEPT ![j] = runs[j] + 1]
      /\ UNCHANGED <<call, queue, reply, cur>>
      /\ call[j] \notin {"resolved", "dropped"}
  BY DEF Start, callerVars, AbortSignalled
<1>2. j \in Jobs /\ Open(s, j) /\ runs[j] = 0
  BY <1>1, HeldWhere DEF Serving, RunsInv, RunsServe
<1>3. call[j] = "bridged"
  BY <1>1, <1>2 DEF Open
<1>4. ASSUME NEW t \in Slots, NEW i \in 1..Len(queue[t]) PROVE queue[t][i].job # j
  <2>1. CASE t = s
    BY <1>1, <2>1 DEF CoreInv, HeldOnce, ServedOnce, Serving
  <2>2. CASE t # s
    BY <1>2, <2>2, HeldWhere DEF Open
  <2> QED BY <2>1, <2>2
<1>5. ASSUME NEW t \in Slots, t # s, pc[t] \in Serving PROVE cur[t].job # j /\ cur[t].job \in Jobs
  BY <1>2, <1>5, HeldWhere DEF Open
<1>6. runs'[j] = 1 /\ \A k \in Jobs : k # j => runs'[k] = runs[k]
  BY <1>1, <1>2 DEF TypeInv, TypeOK
<1>7. RunsQueue'
  BY <1>1, <1>4, <1>6, HeldWhere DEF RunsInv, RunsQueue
<1>8. RunsServe'
  <2> SUFFICES ASSUME NEW t \in Slots
               PROVE  /\ pc'[t] \in {"load", "ready"} => runs'[cur[t].job] = 0
                      /\ pc'[t] = "run" => runs'[cur[t].job] = 1
    BY <1>1 DEF RunsServe
  <2>1. CASE t = s
    BY <1>1, <1>6, <2>1 DEF TypeInv, TypeOK
  <2>2. CASE t # s
    BY <1>1, <1>5, <1>6, <2>2 DEF RunsInv, RunsServe, Serving, TypeInv, TypeOK
  <2> QED BY <2>1, <2>2
<1>9. RunsCall'
  <2> HIDE DEF j
  <2> QED BY <1>1, <1>2, <1>3, <1>6 DEF RunsInv, RunsCall
<1> QED BY <1>2, <1>3, <1>7, <1>8, <1>9 DEF RunsInv

\* A body starts inline; no isolate has its job.
LEMMA RunsInline ==
    ASSUME TypeInv, CoreInv, RunsInv, NEW j \in Jobs, InlineStart(j)
    PROVE  RunsInv' /\ runs[j] = 0
<1>1. /\ call[j] = "inline" /\ call' = [call EXCEPT ![j] = "inlining"]
      /\ runs' = [runs EXCEPT ![j] = runs[j] + 1]
      /\ UNCHANGED <<queue, reply, cur, pc>>
  BY DEF InlineStart, isolateVars
<1>2. runs[j] = 0
  BY <1>1 DEF RunsInv, RunsCall
<1>3. runs'[j] = 1 /\ \A k \in Jobs : k # j => runs'[k] = runs[k]
  BY <1>1, <1>2 DEF TypeInv, TypeOK
<1>4. \A s \in Slots : pc[s] \in Serving => cur[s].job \in Jobs /\ cur[s].job # j
  BY <1>1, HeldWhere DEF Open
<1>5. \A s \in Slots : \A i \in 1..Len(queue[s]) : queue[s][i].job \in Jobs /\ queue[s][i].job # j
  BY <1>1, HeldWhere DEF Open
<1>6. RunsCall'
  BY <1>1, <1>2, <1>3 DEF RunsInv, RunsCall, TypeInv, TypeOK
<1>7. RunsServe'
  BY <1>1, <1>3, <1>4 DEF RunsInv, RunsServe, Serving
<1>8. RunsQueue'
  BY <1>1, <1>3, <1>5 DEF RunsInv, RunsQueue
<1> QED BY <1>2, <1>6, <1>7, <1>8 DEF RunsInv

\* No job runs to begin with.
LEMMA RunsInit == Init => RunsInv
BY DEF Init, RunsInv, RunsCall, RunsServe, RunsQueue

\* Every step keeps what the refinement needs.
LEMMA RunsNext == TypeInv /\ CoreInv /\ RunsInv /\ [Next]_vars => RunsInv'
<1> SUFFICES ASSUME TypeInv, CoreInv, RunsInv, [Next]_vars PROVE RunsInv'
  OBVIOUS
<1> USE ConstantsAssumption
<1>1. ASSUME NEW j \in Jobs, Refuse(j) \/ DispatchInline(j) \/ DropFuture(j) \/ Bridge(j)
                             \/ InlineFails(j) \/ InlineFinish(j) \/ AbortTask(j) \/ BridgePolled(j)
      PROVE  RunsInv'
  BY <1>1, RunsCaller DEF Refuse, DispatchInline, DropFuture, Bridge, InlineFails, InlineFinish,
                          AbortTask, BridgePolled, isolateVars
<1>2. ASSUME NEW j \in Jobs, DispatchIdle(j) \/ DispatchLeastLoaded(j) PROVE RunsInv'
  <2>1. PICK s \in Slots : SendTo(s, j)
    BY <1>2 DEF DispatchIdle, DispatchLeastLoaded, Live, Slots, TypeInv, TypeOK
  <2> QED BY <1>2, <2>1, RunsSend DEF DispatchIdle, DispatchLeastLoaded, isolateVars
<1>3. ASSUME NEW j \in Jobs, DispatchGrow(j) PROVE RunsInv'
  <2>1. live + 1 \in Slots /\ pc' = [pc EXCEPT ![live + 1] = "recv"]
    BY <1>3 DEF DispatchGrow, Slots, TypeInv, TypeOK
  <2>2. \A t \in Slots : pc'[t] = pc[t] \/ pc'[t] = "recv"
    BY <2>1 DEF TypeInv, TypeOK
  <2> QED BY <1>3, <2>1, <2>2, RunsSend DEF DispatchGrow
<1>4. ASSUME NEW j \in Jobs, InlineStart(j) PROVE RunsInv'
  BY <1>4, RunsInline
<1>5. ASSUME NEW s \in Slots, Receive(s) PROVE RunsInv'
  <2>1. /\ queue[s] \in Seq(Requests) /\ queue[s] # <<>>
        /\ cur' = [cur EXCEPT ![s] = Head(queue[s])]
        /\ queue' = [queue EXCEPT ![s] = Tail(queue[s])]
        /\ pc' = [pc EXCEPT ![s] = "load"]
        /\ UNCHANGED <<call, reply, runs>>
    BY <1>5 DEF Receive, callerVars, TypeInv, TypeOK
  <2>2. /\ Len(queue[s]) \in Nat \ {0} /\ Head(queue[s]) = queue[s][1]
        /\ Len(Tail(queue[s])) = Len(queue[s]) - 1
        /\ \A i \in 1..Len(queue[s]) - 1 : Tail(queue[s])[i] = queue[s][i + 1]
    BY <2>1
  <2>3. RunsCall'
    BY <2>1 DEF RunsInv, RunsCall
  <2>4. RunsServe'
    <3>1. runs[Head(queue[s]).job] = 0
      BY <2>2 DEF RunsInv, RunsQueue
    <3> QED BY <2>1, <3>1 DEF RunsInv, RunsServe, TypeInv, TypeOK
  <2>5. RunsQueue'
    <3> SUFFICES ASSUME NEW t \in Slots, NEW i \in 1..Len(queue'[t])
                 PROVE  runs[queue'[t][i].job] = 0
      BY <2>1 DEF RunsQueue
    <3>1. CASE t # s
      BY <2>1, <3>1 DEF RunsInv, RunsQueue, TypeInv, TypeOK
    <3>2. CASE t = s
      <4>1. queue'[t] = Tail(queue[s])
        BY <2>1, <3>2 DEF TypeInv, TypeOK
      <4>2. i + 1 \in 1..Len(queue[s]) /\ queue'[t][i] = queue[s][i + 1]
        BY <2>2, <4>1
      <4> QED BY <4>2 DEF RunsInv, RunsQueue
    <3> QED BY <3>1, <3>2
  <2> QED BY <2>3, <2>4, <2>5 DEF RunsInv
<1>6. ASSUME NEW s \in Slots, ArchiveFails(s) \/ SliceMissing(s) \/ SliceRaises(s) \/ ArgsRejected(s)
      PROVE  RunsInv'
  BY <1>6, RunsAnswer DEF ArchiveFails, SliceMissing, SliceRaises, ArgsRejected, callerVars,
                          Serving, Replies
<1>7. ASSUME NEW s \in Slots, SliceCached(s) \/ SliceLoads(s) PROVE RunsInv'
  <2>1. /\ pc[s] = "load" /\ pc' = [pc EXCEPT ![s] = "ready"]
        /\ UNCHANGED <<call, queue, reply, cur, runs>>
    BY <1>7 DEF SliceCached, SliceLoads, callerVars
  <2>2. RunsServe'
    BY <2>1 DEF RunsInv, RunsServe, TypeInv, TypeOK
  <2> QED BY <2>1, <2>2 DEF RunsInv, RunsCall, RunsQueue
<1>8. ASSUME NEW s \in Slots, Start(s) PROVE RunsInv'
  BY <1>8, RunsStart
<1>9. ASSUME NEW s \in Slots, Cancel(s) \/ Finish(s) PROVE RunsInv'
  BY <1>9, RunsAnswer DEF Cancel, Finish, callerVars, Serving, Replies
<1>10. ASSUME NEW s \in Slots, Die(s) PROVE RunsInv'
  <2>1. /\ pc' = [pc EXCEPT ![s] = "dead"]
        /\ cur' = [cur EXCEPT ![s] = NoRequest]
        /\ queue' = [queue EXCEPT ![s] = <<>>]
        /\ \A j \in Jobs : reply'[j] \in {"closed", reply[j]}
        /\ UNCHANGED <<call, runs>>
    BY <1>10 DEF Die, callerVars
  <2>2. RunsCall'
    BY <2>1 DEF RunsInv, RunsCall
  <2>3. RunsServe'
    BY <2>1 DEF RunsInv, RunsServe, TypeInv, TypeOK
  <2>4. RunsQueue'
    BY <2>1 DEF RunsInv, RunsQueue, TypeInv, TypeOK
  <2> QED BY <2>2, <2>3, <2>4 DEF RunsInv
<1>11. CASE UNCHANGED vars
  BY <1>11 DEF vars, RunsInv, RunsCall, RunsServe, RunsQueue
<1> QED BY <1>1, <1>2, <1>3, <1>4, <1>5, <1>6, <1>7, <1>8, <1>9, <1>10, <1>11
        DEF Next, Dispatch, Task, Isolate

\* The status WorkerCalls sees.
Pending == {"bridged", "inline", "inlining"}
Status == [j \in Jobs |-> IF call[j] \in Pending THEN "pending" ELSE call[j]]

\* What a step of one call does to its status.
LEMMA StatusStep ==
    ASSUME TypeInv, NEW j \in Jobs, NEW c, call' = [call EXCEPT ![j] = c]
    PROVE  Status' = [Status EXCEPT ![j] = IF c \in Pending THEN "pending" ELSE c]
BY DEF Status, TypeInv, TypeOK

\* Every step of the pool is a step of WorkerCalls or leaves what it sees alone.
LEMMA CallsStep ==
    ASSUME TypeInv, CoreInv, RunsInv, [Next]_vars
    PROVE  [Calls!Next]_(Calls!vars)
<1> DEFINE hidden == Status' = Status /\ outcome' = outcome /\ runs' = runs
           Called(j) == /\ Status[j] = "idle" /\ Status' = [Status EXCEPT ![j] = "pending"]
                        /\ outcome' = outcome /\ runs' = runs
           Refused(j) == /\ Status[j] = "idle" /\ Status' = [Status EXCEPT ![j] = "refused"]
                         /\ outcome' = outcome /\ runs' = runs
           Started(j) == /\ Status[j] = "pending" /\ runs[j] = 0
                         /\ runs' = [runs EXCEPT ![j] = 1]
                         /\ Status' = Status /\ outcome' = outcome
           Resolved(j) == /\ Status[j] = "pending" /\ Status' = [Status EXCEPT ![j] = "resolved"]
                          /\ \E o \in {"ok", "panic"} :
                                /\ (o = "ok") => (runs[j] = 1)
                                /\ outcome' = [outcome EXCEPT ![j] = o]
                          /\ runs' = runs
           Dropped(j) == /\ Status[j] = "pending" /\ Status' = [Status EXCEPT ![j] = "dropped"]
                         /\ outcome' = outcome /\ runs' = runs
<1>0. SUFFICES \/ \E j \in Jobs : Called(j) \/ Refused(j) \/ Started(j) \/ Resolved(j) \/ Dropped(j)
               \/ hidden
  BY DEF Calls!Next, Calls!vars, Calls!Call, Calls!Refuse, Calls!Start, Calls!Resolve, Calls!Drop,
         Status, Pending
<1>01. /\ \A j \in Jobs : Status[j] = IF call[j] \in Pending THEN "pending" ELSE call[j]
       /\ call' = call => Status' = Status
  BY DEF Status
<1>1. ASSUME NEW j \in Jobs, Refuse(j) PROVE Refused(j)
  BY <1>1, <1>01, StatusStep DEF Refuse, Pending
<1>2. ASSUME NEW j \in Jobs, DispatchIdle(j) \/ DispatchLeastLoaded(j) \/ DispatchGrow(j)
      PROVE  Called(j)
  <2>1. call[j] = "idle" /\ call' = [call EXCEPT ![j] = "bridged"] /\ UNCHANGED <<outcome, runs>>
    BY <1>2 DEF DispatchIdle, DispatchLeastLoaded, DispatchGrow, SendTo
  <2> QED BY <1>01, <2>1, StatusStep DEF Pending
<1>3. ASSUME NEW j \in Jobs, DispatchInline(j) PROVE Called(j) \/ Refused(j)
  <2>1. PICK c \in {"inline", "refused"} : call' = [call EXCEPT ![j] = c]
    BY <1>3 DEF DispatchInline
  <2>2. Status[j] = "idle" /\ outcome' = outcome /\ runs' = runs
    BY <1>01, <1>3 DEF DispatchInline, Pending
  <2>3. Status' = [Status EXCEPT ![j] = IF c \in Pending THEN "pending" ELSE c]
    BY <2>1, StatusStep
  <2> QED BY <2>2, <2>3 DEF Pending
<1>4. ASSUME NEW j \in Jobs, Bridge(j) PROVE Resolved(j)
  <2>1. /\ call[j] = "bridged" /\ call' = [call EXCEPT ![j] = "resolved"]
        /\ \E o \in {"ok", "panic"} : /\ (o = "ok") => (reply[j] = "ok")
                                      /\ outcome' = [outcome EXCEPT ![j] = o]
        /\ UNCHANGED runs
    BY <1>4 DEF Bridge
  <2>2. reply[j] = "ok" => runs[j] = 1
    BY DEF RunsInv, RunsCall
  <2>3. Status[j] = "pending" /\ Status' = [Status EXCEPT ![j] = "resolved"]
    BY <1>01, <2>1, StatusStep DEF Pending
  <2> QED BY <2>1, <2>2, <2>3
<1>5. ASSUME NEW j \in Jobs, InlineStart(j) PROVE Started(j)
  <2>1. runs[j] = 0
    BY <1>5, RunsInline
  <2>2. Status[j] = "pending" /\ Status' = [Status EXCEPT ![j] = "pending"]
    BY <1>5, <1>01, StatusStep DEF InlineStart, Pending
  <2>3. Status' = Status
    BY <2>2 DEF Status
  <2> QED BY <1>5, <2>1, <2>2, <2>3 DEF InlineStart
<1>6. ASSUME NEW j \in Jobs, InlineFails(j) PROVE Resolved(j)
  <2>1. Status[j] = "pending" /\ Status' = [Status EXCEPT ![j] = "resolved"]
    BY <1>6, <1>01, StatusStep DEF InlineFails, Pending
  <2> QED BY <1>6, <2>1 DEF InlineFails
<1>7. ASSUME NEW j \in Jobs, InlineFinish(j) PROVE Resolved(j)
  <2>1. runs[j] = 1
    BY <1>7 DEF InlineFinish, RunsInv, RunsCall
  <2>2. Status[j] = "pending" /\ Status' = [Status EXCEPT ![j] = "resolved"]
    BY <1>7, <1>01, StatusStep DEF InlineFinish, Pending
  <2> QED BY <1>7, <2>1, <2>2 DEF InlineFinish
<1>8. ASSUME NEW j \in Jobs, AbortTask(j) PROVE Dropped(j)
  <2>1. Status[j] = "pending" /\ Status' = [Status EXCEPT ![j] = "dropped"]
    BY <1>8, <1>01, StatusStep DEF AbortTask, Pending
  <2> QED BY <1>8, <2>1 DEF AbortTask
<1>9. ASSUME NEW j \in Jobs, DropFuture(j) \/ BridgePolled(j) PROVE hidden
  BY <1>9, <1>01 DEF DropFuture, BridgePolled
<1>10. ASSUME NEW s \in Slots, Start(s) PROVE \E j \in Jobs : Started(j)
  <2>1. cur[s].job \in Jobs
    BY <1>10, HeldWhere DEF Start, Serving
  <2>2. runs[cur[s].job] = 0 /\ call[cur[s].job] = "bridged"
    BY <1>10, RunsStart
  <2>3. /\ runs' = [runs EXCEPT ![cur[s].job] = runs[cur[s].job] + 1]
        /\ UNCHANGED <<call, outcome>>
    BY <1>10 DEF Start, callerVars
  <2>4. runs' = [runs EXCEPT ![cur[s].job] = 1]
    BY <2>2, <2>3
  <2>5. Started(cur[s].job)
    BY <1>01, <2>1, <2>2, <2>3, <2>4 DEF Pending
  <2> QED BY <2>1, <2>5
<1>11. ASSUME NEW s \in Slots, Isolate(s) \/ Die(s), ~Start(s) PROVE hidden
  <2>1. UNCHANGED <<call, outcome, runs>>
    BY <1>11 DEF Isolate, Receive, ArchiveFails, SliceCached, SliceMissing, SliceLoads, SliceRaises,
                 ArgsRejected, Cancel, Finish, Die, callerVars
  <2> QED BY <1>01, <2>1
<1>12. CASE UNCHANGED vars
  BY <1>12, <1>01 DEF vars
<1> HIDE DEF hidden, Called, Refused, Started, Resolved, Dropped
<1> QED BY <1>1, <1>2, <1>3, <1>4, <1>5, <1>6, <1>7, <1>8, <1>9, <1>10, <1>11, <1>12
        DEF Next, Dispatch, Task

\* The pool implements WorkerCalls (ImplementsCalls: dispatch_worker_job, the
\* bridge, isolate_loop and the inline fallback together), for any number of jobs
\* and isolates: a call starts its body once at most, resolves once at most and
\* with an Ok only after a run, and starts nothing once it has been dropped.
THEOREM PoolImplementsCalls == Spec => ImplementsCalls
<1>1. Init => Calls!Init
  BY DEF Init, Calls!Init
<1> QED BY <1>1, CoreCorrect, RunsInit, RunsNext, CallsStep, PTL DEF Spec, ImplementsCalls, Calls!Spec

-----------------------------------------------------------------------------
(* The mirror of an isolate's cache.  A slice is shipped to an isolate once, *)
(* and the isolate is done with its entry then: it has loaded it, or it has  *)
(* failed to.                                                                *)

Defines(f, n) == \E i \in 1..Len(Defs[f]) : Defs[f][i] = n

\* The slice of f re-runs nothing that raises, no other slice defines one of its
\* names, and the archive installs.
SureToLoad(f) ==
    /\ f \notin FallibleSlices /\ ~FallibleArchive
    /\ \A g \in Fns : g # f => ~\E n \in Names : Defines(f, n) /\ Defines(g, n)

\* Request r carries the slice of entry f.
Ships(r, f) == r.slice /\ FnOf[r.job] = f

\* An isolate at p, with request c in hand, that is done with the entries ld, is
\* done with f or is about to load it.
Has(ld, p, c, f) == f \in ld \/ (p = "load" /\ Ships(c, f))

\* What relates the mirror lf of a slot to the entries ld its isolate is done with,
\* its globals gl, the requests q in the channel and the request c in hand at p: every
\* entry of the mirror of a living isolate is done with or on its way, and on its way
\* before the first request that needs it.
SliceMirror(ld, lf, gl, q, p, c) ==
    /\ ld \subseteq lf
    /\ \A n \in gl : \E f \in ld : Defines(f, n)
    /\ p \in Serving => FnOf[c.job] \in lf
    /\ p = "load" => FnOf[c.job] \in ld \/ c.slice
    /\ \A i \in 1..Len(q) :
          /\ FnOf[q[i].job] \in lf
          /\ \/ q[i].slice
             \/ Has(ld, p, c, FnOf[q[i].job])
             \/ \E k \in 1..i - 1 : Ships(q[k], FnOf[q[i].job])
    /\ p # "dead" => \A f \in lf : Has(ld, p, c, f) \/ \E i \in 1..Len(q) : Ships(q[i], f)

\* A slice travels once: not for an entry the isolate is done with, and not twice.
ShipsOnce(ld, q, p, c) ==
    /\ p = "load" /\ c.slice => FnOf[c.job] \notin ld
    /\ \A i \in 1..Len(q) : q[i].slice =>
          FnOf[q[i].job] \notin ld /\ ~(p = "load" /\ Ships(c, FnOf[q[i].job]))
    /\ \A i, k \in 1..Len(q) : i < k /\ q[i].slice /\ q[k].slice => FnOf[q[i].job] # FnOf[q[k].job]

\* The slices of one slot: ld loaded, sp spoiled.
SlotSlices(ld, sp, lf, gl, q, p, c) ==
    /\ SliceMirror(ld \union sp, lf, gl, q, p, c)
    /\ ShipsOnce(ld \union sp, q, p, c)
    /\ ld \cap sp = {}
    /\ \A f \in sp : ~SureToLoad(f)

\* The mirror al of the archive; ai: the isolate is done with it.
ArchiveMirror(ai, al, q, p, c) ==
    /\ ai => al
    /\ p = "load" /\ c.archive => al
    /\ \A i \in 1..Len(q) : q[i].archive => al
    /\ p # "dead" /\ al => ai \/ (p = "load" /\ c.archive) \/ \E i \in 1..Len(q) : q[i].archive

ArchiveDone(s) == archive_installed[s] \/ archive_lost[s]

SlicesMirrored ==
    \A s \in Slots :
        SlotSlices(loaded[s], spoiled[s], loaded_fns[s], globals[s], queue[s], pc[s], cur[s])
ArchiveMirrored ==
    \A s \in Slots : ArchiveMirror(ArchiveDone(s), archive_loaded[s], queue[s], pc[s], cur[s])

MirrorInv == SlicesMirrored /\ ArchiveMirrored

\* send_to a living isolate: the slice is shipped unless the mirror has the entry.
LEMMA MirrorSend ==
    ASSUME NEW ld, NEW lf, NEW gl, NEW q \in Seq(Requests), NEW p, NEW c, NEW o,
           SliceMirror(ld, lf, gl, q, p, c), p # "dead",
           o = p \/ (p = "absent" /\ o = "recv"),
           NEW r \in Requests, r.slice <=> FnOf[r.job] \notin lf
    PROVE  SliceMirror(ld, lf \union {FnOf[r.job]}, gl, Append(q, r), o, c)
<1> DEFINE u == Append(q, r)
           e == FnOf[r.job]
<1>1. /\ Len(q) \in Nat /\ Len(u) = Len(q) + 1 /\ u[Len(q) + 1] = r
      /\ \A i \in 1..Len(q) : u[i] = q[i]
  OBVIOUS
<1>2. \A f : Has(ld, o, c, f) <=> Has(ld, p, c, f)
  BY DEF Has
<1>3. e \notin lf => Ships(r, e)
  BY DEF Ships
<1>4. \A i \in 1..Len(q) : \A k \in 1..i - 1 : k \in 1..Len(q) /\ u[k] = q[k]
  BY <1>1
<1> HIDE DEF u, e
<1>5. ASSUME NEW i \in 1..Len(u)
      PROVE  /\ FnOf[u[i].job] \in lf \union {e}
             /\ \/ u[i].slice
                \/ Has(ld, o, c, FnOf[u[i].job])
                \/ \E k \in 1..i - 1 : Ships(u[k], FnOf[u[i].job])
  <2>1. CASE i \in 1..Len(q)
    BY <1>1, <1>2, <1>4, <2>1 DEF SliceMirror
  <2>2. CASE i = Len(q) + 1
    <3>1. u[i] = r /\ FnOf[u[i].job] = e
      BY <1>1, <2>2 DEF e
    <3>2. CASE e \notin lf
      BY <3>1, <3>2 DEF e
    <3>3. CASE e \in lf
      <4>1. Has(ld, p, c, e) \/ \E k \in 1..Len(q) : Ships(q[k], e)
        BY <3>3 DEF SliceMirror
      <4>2. 1..i - 1 = 1..Len(q)
        BY <1>1, <2>2
      <4> QED BY <1>1, <1>2, <3>1, <4>1, <4>2
    <3> QED BY <3>1, <3>2, <3>3
  <2> QED BY <1>1, <2>1, <2>2
<1>6. ASSUME NEW f \in lf \union {e}
      PROVE  Has(ld, o, c, f) \/ \E i \in 1..Len(u) : Ships(u[i], f)
  <2>1. CASE f \in lf
    <3>1. Has(ld, p, c, f) \/ \E i \in 1..Len(q) : Ships(q[i], f)
      BY <2>1 DEF SliceMirror
    <3>2. \A i \in 1..Len(q) : i \in 1..Len(u) /\ u[i] = q[i]
      BY <1>1
    <3> QED BY <1>2, <3>1, <3>2
  <2>2. CASE f = e /\ e \notin lf
    <3>1. Len(q) + 1 \in 1..Len(u)
      BY <1>1
    <3> QED BY <1>1, <1>3, <2>2, <3>1
  <2> QED BY <2>1, <2>2
<1>7. /\ ld \subseteq lf \union {e}
      /\ \A n \in gl : \E f \in ld : Defines(f, n)
      /\ o \in Serving => FnOf[c.job] \in lf \union {e}
      /\ o = "load" => FnOf[c.job] \in ld \/ c.slice
  BY DEF SliceMirror, Serving
<1> QED BY <1>5, <1>6, <1>7 DEF SliceMirror, u, e

\* The isolate takes the oldest request.
LEMMA MirrorReceive ==
    ASSUME NEW ld, NEW lf, NEW gl, NEW q \in Seq(Requests), q # <<>>, NEW c,
           SliceMirror(ld, lf, gl, q, "recv", c)
    PROVE  SliceMirror(ld, lf, gl, Tail(q), "load", Head(q))
<1> DEFINE u == Tail(q)
           h == Head(q)
<1>1. /\ Len(q) \in Nat /\ Len(q) > 0 /\ Len(u) = Len(q) - 1 /\ h = q[1]
      /\ \A i \in 1..Len(u) : i + 1 \in 1..Len(q) /\ u[i] = q[i + 1]
      /\ \A k \in 2..Len(q) : k - 1 \in 1..Len(u) /\ u[k - 1] = q[k]
  OBVIOUS
<1> HIDE DEF u, h
<1>2. \A f : Has(ld, "recv", c, f) <=> f \in ld
  BY DEF Has
<1>3. FnOf[h.job] \in lf /\ (FnOf[h.job] \in ld \/ h.slice)
  <2>1. 1 \in 1..Len(q) /\ 1..(1 - 1) = {}
    BY <1>1
  <2> QED BY <1>1, <1>2, <2>1 DEF SliceMirror
<1>4. \A f : f \in ld \/ Ships(h, f) => Has(ld, "load", h, f)
  BY DEF Has
<1>5. ASSUME NEW i \in 1..Len(u)
      PROVE  /\ FnOf[u[i].job] \in lf
             /\ \/ u[i].slice
                \/ Has(ld, "load", h, FnOf[u[i].job])
                \/ \E k \in 1..i - 1 : Ships(u[k], FnOf[u[i].job])
  <2> DEFINE f == FnOf[u[i].job]
  <2>1. /\ f \in lf
        /\ u[i].slice \/ f \in ld \/ \E k \in 1..(i + 1) - 1 : Ships(q[k], f)
    BY <1>1, <1>2 DEF SliceMirror
  <2> HIDE DEF f
  <2>2. ASSUME NEW k \in 1..(i + 1) - 1, Ships(q[k], f)
        PROVE  Ships(h, f) \/ \E m \in 1..i - 1 : Ships(u[m], f)
    <3>1. CASE k = 1
      BY <1>1, <2>2, <3>1
    <3>2. CASE k # 1
      <4>1. k \in 2..Len(q) /\ k - 1 \in 1..i - 1
        BY <1>1, <3>2
      <4> QED BY <1>1, <2>2, <4>1
    <3> QED BY <3>1, <3>2
  <2> QED BY <1>4, <2>1, <2>2 DEF f
<1>6. ASSUME NEW f \in lf
      PROVE  Has(ld, "load", h, f) \/ \E i \in 1..Len(u) : Ships(u[i], f)
  <2>1. f \in ld \/ \E k \in 1..Len(q) : Ships(q[k], f)
    BY <1>2 DEF SliceMirror
  <2>2. ASSUME NEW k \in 1..Len(q), Ships(q[k], f)
        PROVE  Ships(h, f) \/ \E i \in 1..Len(u) : Ships(u[i], f)
    <3>1. CASE k = 1
      BY <1>1, <2>2, <3>1
    <3>2. CASE k # 1
      <4>1. k \in 2..Len(q)
        BY <1>1, <3>2
      <4> QED BY <1>1, <2>2, <4>1
    <3> QED BY <3>1, <3>2
  <2> QED BY <1>4, <2>1, <2>2
<1>7. ld \subseteq lf /\ \A n \in gl : \E f \in ld : Defines(f, n)
  BY DEF SliceMirror
<1> QED BY <1>3, <1>5, <1>6, <1>7 DEF SliceMirror, u, h

\* The isolate is done with the request's entry, or becomes so.
LEMMA MirrorLoaded ==
    ASSUME NEW ld, NEW lf, NEW gl, NEW q, NEW c, NEW d, NEW g,
           SliceMirror(ld, lf, gl, q, "load", c),
           d = ld \union {FnOf[c.job]},
           \A n \in g : n \in gl \/ Defines(FnOf[c.job], n)
    PROVE  SliceMirror(d, lf, g, q, "ready", c)
<1>1. \A f : Has(ld, "load", c, f) => Has(d, "ready", c, f)
  BY DEF Has, Ships
<1>2. d \subseteq lf /\ FnOf[c.job] \in lf
  BY DEF SliceMirror, Serving
<1>3. \A n \in g : \E f \in d : Defines(f, n)
  BY DEF SliceMirror
<1> QED BY <1>1, <1>2, <1>3 DEF SliceMirror, Serving

\* Between the load and the next request nothing is on its way but what is queued.
LEMMA MirrorLater ==
    ASSUME NEW ld, NEW lf, NEW gl, NEW q, NEW c, NEW d, NEW p, NEW o,
           SliceMirror(ld, lf, gl, q, p, c), p = "ready" \/ p = "run",
           o = "recv" \/ (o = "run" /\ d = c)
    PROVE  SliceMirror(ld, lf, gl, q, o, d)
<1>1. \A f : Has(ld, p, c, f) <=> Has(ld, o, d, f)
  BY DEF Has
<1> QED BY <1>1 DEF SliceMirror, Serving

\* An isolate that has ended holds nothing.
LEMMA MirrorDead ==
    ASSUME NEW ld, NEW lf, NEW gl, NEW q, NEW c, NEW p, SliceMirror(ld, lf, gl, q, p, c),
           NEW d, NEW f, lf \subseteq f
    PROVE  SliceMirror(ld, f, gl, <<>>, "dead", d)
BY DEF SliceMirror, Serving

\* A send to an isolate that has ended only moves the mirror.
LEMMA MirrorSendDead ==
    ASSUME NEW ld, NEW lf, NEW gl, NEW q, NEW c, SliceMirror(ld, lf, gl, q, "dead", c),
           NEW f, lf \subseteq f
    PROVE  SliceMirror(ld, f, gl, q, "dead", c)
<1>1. \A g : Has(ld, "dead", c, g) <=> g \in ld
  BY DEF Has
<1> QED BY <1>1 DEF SliceMirror, Serving

\* send_to ships no slice a second time.
LEMMA OnceSend ==
    ASSUME NEW ld, NEW lf, NEW gl, NEW q \in Seq(Requests), NEW p, NEW c, NEW o,
           SliceMirror(ld, lf, gl, q, p, c), ShipsOnce(ld, q, p, c),
           o = p \/ (p = "absent" /\ o = "recv"),
           NEW r \in Requests, r.slice => FnOf[r.job] \notin lf
    PROVE  ShipsOnce(ld, Append(q, r), o, c)
<1> DEFINE u == Append(q, r)
<1>1. /\ Len(q) \in Nat /\ u[Len(q) + 1] = r
      /\ \A i \in 1..Len(q) : u[i] = q[i]
      /\ \A i \in 1..Len(u) : i \in 1..Len(q) \/ i = Len(q) + 1
      /\ \A i, k \in 1..Len(u) : i < k => i \in 1..Len(q)
  OBVIOUS
<1> HIDE DEF u
<1>2. /\ r.slice => FnOf[r.job] \notin ld /\ ~(p = "load" /\ Ships(c, FnOf[r.job]))
      /\ r.slice => \A i \in 1..Len(q) : FnOf[q[i].job] # FnOf[r.job]
  BY DEF SliceMirror, Serving, Ships
<1>3. ASSUME NEW i \in 1..Len(u), u[i].slice
      PROVE  FnOf[u[i].job] \notin ld /\ ~(o = "load" /\ Ships(c, FnOf[u[i].job]))
  <2>1. CASE i \in 1..Len(q)
    BY <1>1, <1>3, <2>1 DEF ShipsOnce
  <2>2. CASE i = Len(q) + 1
    BY <1>1, <1>2, <1>3, <2>2
  <2> QED BY <1>1, <2>1, <2>2
<1>4. ASSUME NEW i \in 1..Len(u), NEW k \in 1..Len(u), i < k, u[i].slice, u[k].slice
      PROVE  FnOf[u[i].job] # FnOf[u[k].job]
  <2>1. i \in 1..Len(q) /\ u[i] = q[i]
    BY <1>1, <1>4
  <2>2. CASE k \in 1..Len(q)
    BY <1>1, <1>4, <2>1, <2>2 DEF ShipsOnce
  <2>3. CASE k = Len(q) + 1
    BY <1>1, <1>2, <1>4, <2>1, <2>3
  <2> QED BY <1>1, <2>2, <2>3
<1>5. o = "load" /\ c.slice => FnOf[c.job] \notin ld
  BY DEF ShipsOnce
<1> QED BY <1>3, <1>4, <1>5 DEF ShipsOnce, u

\* The request taken carries a slice that no other request carries.
LEMMA OnceReceive ==
    ASSUME NEW ld, NEW q \in Seq(Requests), q # <<>>, NEW c, ShipsOnce(ld, q, "recv", c)
    PROVE  ShipsOnce(ld, Tail(q), "load", Head(q))
<1> DEFINE u == Tail(q)
           h == Head(q)
<1>1. /\ Len(q) \in Nat /\ h = q[1] /\ 1 \in 1..Len(q)
      /\ \A i \in 1..Len(u) : i + 1 \in 1..Len(q) /\ u[i] = q[i + 1] /\ 1 < i + 1
      /\ \A i, k \in 1..Len(u) : i < k => i + 1 < k + 1
  OBVIOUS
<1> HIDE DEF u, h
<1>2. h.slice => FnOf[h.job] \notin ld
  BY <1>1 DEF ShipsOnce
<1>3. ASSUME NEW i \in 1..Len(u), u[i].slice
      PROVE  FnOf[u[i].job] \notin ld /\ ~Ships(h, FnOf[u[i].job])
  BY <1>1, <1>3 DEF ShipsOnce, Ships
<1>4. \A i, k \in 1..Len(u) : i < k /\ u[i].slice /\ u[k].slice => FnOf[u[i].job] # FnOf[u[k].job]
  BY <1>1 DEF ShipsOnce
<1> QED BY <1>2, <1>3, <1>4 DEF ShipsOnce, u, h

\* Becoming done with the request's entry, whether its slice loads or not.
LEMMA OnceLoaded ==
    ASSUME NEW ld, NEW lf, NEW gl, NEW q, NEW c, NEW d, NEW o, NEW e,
           SliceMirror(ld, lf, gl, q, "load", c), ShipsOnce(ld, q, "load", c),
           d = ld \union {FnOf[c.job]}, o # "load"
    PROVE  ShipsOnce(d, q, o, e)
BY DEF ShipsOnce, SliceMirror, Ships

\* Between the load and the next request, and at the end of the thread.
LEMMA OnceLater ==
    ASSUME NEW ld, NEW q, NEW p, NEW c, NEW u, NEW o, NEW d, ShipsOnce(ld, q, p, c),
           o # "load", u = q \/ u = <<>>
    PROVE  ShipsOnce(ld, u, o, d)
BY DEF ShipsOnce

\* The archive's mirror, step by step: send_to, the receipt, the installation, the
\* rest of the request and the end of the thread.
LEMMA ArchiveSend ==
    ASSUME NEW ai \in BOOLEAN, NEW al \in BOOLEAN, NEW q \in Seq(Requests), NEW p, NEW c, NEW o,
           ArchiveMirror(ai, al, q, p, c),
           o = p \/ (p = "absent" /\ o = "recv"),
           NEW r \in Requests, r.archive <=> Bundled /\ ~al, NEW m \in BOOLEAN, m <=> al \/ Bundled
    PROVE  ArchiveMirror(ai, m, Append(q, r), o, c)
<1> DEFINE u == Append(q, r)
<1>1. /\ Len(q) \in Nat /\ Len(u) = Len(q) + 1 /\ u[Len(q) + 1] = r
      /\ \A i \in 1..Len(q) : u[i] = q[i] /\ i \in 1..Len(u)
      /\ \A i \in 1..Len(u) : i \in 1..Len(q) \/ i = Len(q) + 1
      /\ Len(q) + 1 \in 1..Len(u)
  OBVIOUS
<1> HIDE DEF u
<1>2. \A i \in 1..Len(u) : u[i].archive => m
  BY <1>1 DEF ArchiveMirror
<1>3. o # "dead" /\ m => ai \/ (o = "load" /\ c.archive) \/ \E i \in 1..Len(u) : u[i].archive
  BY <1>1 DEF ArchiveMirror
<1> QED BY <1>2, <1>3 DEF ArchiveMirror, u

\* Receiving a message keeps the archive of an isolate in step with the mirror.
LEMMA ArchiveReceive ==
    ASSUME NEW ai \in BOOLEAN, NEW al \in BOOLEAN, NEW q \in Seq(Requests), q # <<>>, NEW c,
           ArchiveMirror(ai, al, q, "recv", c)
    PROVE  ArchiveMirror(ai, al, Tail(q), "load", Head(q))
<1> DEFINE u == Tail(q)
           h == Head(q)
<1>1. /\ Len(q) \in Nat /\ h = q[1] /\ 1 \in 1..Len(q)
      /\ \A i \in 1..Len(u) : i + 1 \in 1..Len(q) /\ u[i] = q[i + 1]
      /\ \A k \in 1..Len(q) : k = 1 \/ (k - 1 \in 1..Len(u) /\ u[k - 1] = q[k])
  OBVIOUS
<1> HIDE DEF u, h
<1>2. \A i \in 1..Len(u) : u[i].archive => al
  BY <1>1 DEF ArchiveMirror
<1>3. al => ai \/ h.archive \/ \E i \in 1..Len(u) : u[i].archive
  BY <1>1 DEF ArchiveMirror
<1> QED BY <1>1, <1>2, <1>3 DEF ArchiveMirror, u, h

\* So does installing what the message carries.
LEMMA ArchiveInstalls ==
    ASSUME NEW ai \in BOOLEAN, NEW al \in BOOLEAN, NEW q, NEW c, NEW m \in BOOLEAN,
           ArchiveMirror(ai, al, q, "load", c), m <=> ai \/ c.archive
    PROVE  ArchiveMirror(m, al, q, "ready", c)
BY DEF ArchiveMirror

\* So does the rest of the request.
LEMMA ArchiveLater ==
    ASSUME NEW ai \in BOOLEAN, NEW al \in BOOLEAN, NEW q, NEW c, NEW d, NEW p, NEW o,
           ArchiveMirror(ai, al, q, p, c), p = "ready" \/ p = "run", o = "recv" \/ o = "run"
    PROVE  ArchiveMirror(ai, al, q, o, d)
BY DEF ArchiveMirror

\* So does the end of the thread, whose queue may be lost.
LEMMA ArchiveDead ==
    ASSUME NEW ai \in BOOLEAN, NEW al \in BOOLEAN, NEW q, NEW p, NEW c, ArchiveMirror(ai, al, q, p, c),
           NEW m \in BOOLEAN, al => m, NEW d, NEW u, u = <<>> \/ u = q
    PROVE  ArchiveMirror(ai, m, u, "dead", d)
BY DEF ArchiveMirror

\* A step of one slot leaves the others alone.
LEMMA MirrorFrame ==
    ASSUME MirrorInv, NEW s \in Slots,
           \A t \in Slots : t # s =>
              /\ loaded'[t] = loaded[t] /\ loaded_fns'[t] = loaded_fns[t] /\ globals'[t] = globals[t]
              /\ queue'[t] = queue[t] /\ pc'[t] = pc[t] /\ cur'[t] = cur[t]
              /\ archive_installed'[t] = archive_installed[t]
              /\ archive_loaded'[t] = archive_loaded[t]
              /\ spoiled'[t] = spoiled[t] /\ archive_lost'[t] = archive_lost[t],
           SlotSlices(loaded'[s], spoiled'[s], loaded_fns'[s], globals'[s], queue'[s], pc'[s], cur'[s]),
           ArchiveMirror(ArchiveDone(s)', archive_loaded'[s], queue'[s], pc'[s], cur'[s])
    PROVE  MirrorInv'
<1>1. ASSUME NEW t \in Slots
      PROVE  SlotSlices(loaded'[t], spoiled'[t], loaded_fns'[t], globals'[t], queue'[t], pc'[t], cur'[t])
  <2>1. CASE t = s
    BY <2>1
  <2>2. CASE t # s
    BY <2>2 DEF MirrorInv, SlicesMirrored
  <2> QED BY <2>1, <2>2
<1>2. ASSUME NEW t \in Slots
      PROVE  ArchiveMirror(ArchiveDone(t)', archive_loaded'[t], queue'[t], pc'[t], cur'[t])
  <2>1. CASE t = s
    BY <2>1
  <2>2. CASE t # s
    BY <2>2 DEF MirrorInv, ArchiveMirrored, ArchiveDone
  <2> QED BY <2>1, <2>2
<1> QED BY <1>1, <1>2 DEF MirrorInv, SlicesMirrored, ArchiveMirrored

\* send_to.
LEMMA MirrorSendTo ==
    ASSUME TypeInv, MirrorInv, NEW s \in Slots, NEW j \in Jobs, SendTo(s, j),
           UNCHANGED <<cur, loaded, globals, archive_installed, spoiled, archive_lost>>,
           pc'[s] = pc[s] \/ (pc[s] = "absent" /\ pc'[s] = "recv"),
           \A t \in Slots : t # s => pc'[t] = pc[t]
    PROVE  MirrorInv'
<1> USE ConstantsAssumption
<1> DEFINE req == [job |-> j,
                   slice |-> FnOf[j] \notin loaded_fns[s],
                   archive |-> Bundled /\ ~archive_loaded[s]]
           dn == loaded[s] \union spoiled[s]
           ai == ArchiveDone(s)
<1>0. SlotSlices(loaded[s], spoiled[s], loaded_fns[s], globals[s], queue[s], pc[s], cur[s])
  BY DEF MirrorInv, SlicesMirrored
<1>1. /\ queue[s] \in Seq(Requests)
      /\ SliceMirror(dn, loaded_fns[s], globals[s], queue[s], pc[s], cur[s])
      /\ ShipsOnce(dn, queue[s], pc[s], cur[s])
      /\ ArchiveMirror(ai, archive_loaded[s], queue[s], pc[s], cur[s])
      /\ archive_loaded[s] \in BOOLEAN
  BY <1>0 DEF TypeInv, TypeOK, MirrorInv, ArchiveMirrored, SlotSlices
<1>11. ai \in BOOLEAN /\ ArchiveDone(s)' = ai
  BY DEF ArchiveDone
<1>12. \A lf, q, p, c : /\ SliceMirror(dn, lf, globals[s], q, p, c)
                        /\ ShipsOnce(dn, q, p, c)
                        => SlotSlices(loaded[s], spoiled[s], lf, globals[s], q, p, c)
  BY <1>0 DEF SlotSlices
<1>2. /\ req \in Requests /\ req.job = j
      /\ req.slice <=> FnOf[req.job] \notin loaded_fns[s]
      /\ req.archive <=> Bundled /\ ~archive_loaded[s]
  BY <1>1 DEF Requests
<1>3. loaded_fns' = [loaded_fns EXCEPT ![s] = loaded_fns[s] \union {FnOf[j]}]
  BY DEF SendTo
<1>4. archive_loaded' = [archive_loaded EXCEPT ![s] = archive_loaded[s] \/ Bundled]
  BY DEF SendTo
<1>5. IF pc[s] = "dead" THEN queue' = queue
      ELSE queue' = [queue EXCEPT ![s] = Append(queue[s], req)]
  BY DEF SendTo
<1> HIDE DEF req, dn, ai
<1>6. /\ loaded_fns'[s] = loaded_fns[s] \union {FnOf[j]}
      /\ \A t \in Slots : t # s => loaded_fns'[t] = loaded_fns[t]
  BY <1>3 DEF TypeInv, TypeOK
<1>7. /\ archive_loaded'[s] \in BOOLEAN /\ (archive_loaded'[s] <=> archive_loaded[s] \/ Bundled)
      /\ \A t \in Slots : t # s => archive_loaded'[t] = archive_loaded[t]
  <2>1. archive_loaded \in [Slots -> BOOLEAN]
    BY DEF TypeInv, TypeOK
  <2>2. archive_loaded'[s] = (archive_loaded[s] \/ Bundled)
    BY <1>4, <2>1, Zenon
  <2>3. \A t \in Slots : t # s => archive_loaded'[t] = archive_loaded[t]
    BY <1>4, <2>1, Zenon
  <2> QED BY <1>1, <2>2, <2>3, Zenon
<1>8. \A t \in Slots : t # s => queue'[t] = queue[t]
  BY <1>5 DEF TypeInv, TypeOK
<1>13. SUFFICES /\ SliceMirror(dn, loaded_fns'[s], globals[s], queue'[s], pc'[s], cur[s])
                /\ ShipsOnce(dn, queue'[s], pc'[s], cur[s])
                /\ ArchiveMirror(ai, archive_loaded'[s], queue'[s], pc'[s], cur[s])
  <2>1. SlotSlices(loaded'[s], spoiled'[s], loaded_fns'[s], globals'[s], queue'[s], pc'[s], cur'[s])
    BY <1>12, <1>13
  <2>2. ArchiveMirror(ArchiveDone(s)', archive_loaded'[s], queue'[s], pc'[s], cur'[s])
    BY <1>11, <1>13
  <2> QED BY <1>6, <1>7, <1>8, <2>1, <2>2, MirrorFrame
<1>9. CASE pc[s] = "dead"
  <2>1. queue'[s] = queue[s] /\ pc'[s] = "dead"
    BY <1>5, <1>9
  <2>2. SliceMirror(dn, loaded_fns'[s], globals[s], queue[s], "dead", cur[s])
    BY <1>1, <1>6, <1>9, MirrorSendDead
  <2>3. ArchiveMirror(ai, archive_loaded'[s], queue[s], "dead", cur[s])
    BY <1>1, <1>7, <1>11, ArchiveDead
  <2>4. ShipsOnce(dn, queue[s], "dead", cur[s])
    BY <1>1, <1>9
  <2> QED BY <2>1, <2>2, <2>3, <2>4
<1>10. CASE pc[s] # "dead"
  <2>1. queue'[s] = Append(queue[s], req)
    BY <1>5, <1>10 DEF TypeInv, TypeOK
  <2>2. SliceMirror(dn, loaded_fns[s] \union {FnOf[req.job]}, globals[s],
                    Append(queue[s], req), pc'[s], cur[s])
    BY <1>1, <1>2, <1>10, MirrorSend
  <2>3. ArchiveMirror(ai, archive_loaded'[s], Append(queue[s], req), pc'[s], cur[s])
    BY <1>1, <1>2, <1>7, <1>11, ArchiveSend
  <2>4. ShipsOnce(dn, Append(queue[s], req), pc'[s], cur[s])
    BY <1>1, <1>2, OnceSend
  <2> QED BY <1>2, <1>6, <2>1, <2>2, <2>3, <2>4
<1> QED BY <1>9, <1>10

\* An isolate's steps.
LEMMA MirrorIsolate ==
    ASSUME TypeInv, MirrorInv, NEW s \in Slots, Isolate(s) \/ Die(s)
    PROVE  MirrorInv'
<1> USE ConstantsAssumption
<1> DEFINE ld == loaded[s]
           sp == spoiled[s]
           dn == ld \union sp
           lf == loaded_fns[s]
           gl == globals[s]
           q == queue[s]
           c == cur[s]
           ai == ArchiveDone(s)
           al == archive_loaded[s]
<1>0. /\ SlotSlices(ld, sp, lf, gl, q, pc[s], c) /\ ArchiveMirror(ai, al, q, pc[s], c)
      /\ q \in Seq(Requests) /\ ai \in BOOLEAN /\ al \in BOOLEAN
  BY DEF TypeInv, TypeOK, MirrorInv, SlicesMirrored, ArchiveMirrored, ArchiveDone
<1>01. /\ SliceMirror(dn, lf, gl, q, pc[s], c) /\ ShipsOnce(dn, q, pc[s], c)
       /\ ld \cap sp = {} /\ \A f \in sp : ~SureToLoad(f)
  BY <1>0 DEF SlotSlices
<1>1. UNCHANGED <<loaded_fns, archive_loaded>>
  BY DEF Isolate, Receive, ArchiveFails, SliceCached, SliceMissing, SliceLoads, SliceRaises,
         ArgsRejected, Start, Cancel, Finish, Die, callerVars
<1>2. \A t \in Slots : t # s => pc'[t] = pc[t] /\ cur'[t] = cur[t] /\ queue'[t] = queue[t]
                                /\ loaded'[t] = loaded[t] /\ globals'[t] = globals[t]
                                /\ archive_installed'[t] = archive_installed[t]
                                /\ spoiled'[t] = spoiled[t] /\ archive_lost'[t] = archive_lost[t]
  BY DEF Isolate, Receive, ArchiveFails, SliceCached, SliceMissing, SliceLoads, SliceRaises,
         ArgsRejected, Start, Cancel, Finish, Die, Answer, ArchiveInstalled, TypeInv, TypeOK, losses
<1>3. SUFFICES /\ SlotSlices(loaded'[s], spoiled'[s], lf, globals'[s], queue'[s], pc'[s], cur'[s])
               /\ ArchiveMirror(ArchiveDone(s)', al, queue'[s], pc'[s], cur'[s])
  BY <1>1, <1>2, MirrorFrame
<1>30. ASSUME UNCHANGED <<archive_installed, archive_lost>> PROVE ArchiveDone(s)' = ai
  BY <1>30 DEF ArchiveDone
<1>31. ASSUME NEW g, NEW u, NEW p, NEW e, SliceMirror(dn, lf, g, u, p, e), ShipsOnce(dn, u, p, e)
       PROVE  SlotSlices(ld, sp, lf, g, u, p, e)
  BY <1>01, <1>31 DEF SlotSlices
\* The request's entry is done with, as n of the two sets, and the request goes to o.
<1>32. ASSUME NEW l, NEW m, NEW g, NEW o, NEW e,
              pc[s] = "load", l \union m = dn \union {FnOf[c.job]}, l \cap m = {},
              \A f \in m : ~SureToLoad(f),
              \A n \in g : n \in gl \/ Defines(FnOf[c.job], n),
              o = "recv" \/ (o = "ready" /\ e = c)
       PROVE  SlotSlices(l, m, lf, g, q, o, e)
  <2> DEFINE d == dn \union {FnOf[c.job]}
  <2> HIDE DEF dn, lf, gl, q, c
  <2>1. SliceMirror(d, lf, g, q, "ready", c)
    BY <1>01, <1>32, MirrorLoaded
  <2>2. SliceMirror(d, lf, g, q, o, e)
    <3> HIDE DEF d
    <3>1. CASE o = "recv"
      BY <2>1, <3>1, MirrorLater
    <3> QED BY <1>32, <2>1, <3>1
  <2>3. ShipsOnce(d, q, o, e)
    BY <1>01, <1>32, OnceLoaded
  <2> QED BY <1>32, <2>2, <2>3 DEF SlotSlices
<1>33. pc[s] = "load" => Fn(s) = FnOf[c.job] /\ Fn(s) \in Fns
  BY DEF TypeInv, TypeOK, CurOK, Serving, Fn, Requests
<1>4. CASE Receive(s)
  <2>1. /\ pc[s] = "recv" /\ q # <<>> /\ pc'[s] = "load"
        /\ queue'[s] = Tail(q) /\ cur'[s] = Head(q)
        /\ UNCHANGED <<loaded, spoiled, globals, archive_installed, archive_lost>>
    BY <1>4 DEF Receive, TypeInv, TypeOK, losses
  <2>4. ArchiveDone(s)' = ai
    BY <1>30, <2>1
  <2> HIDE DEF dn, lf, gl, q, c, ai, al
  <2>2. SliceMirror(dn, lf, gl, Tail(q), "load", Head(q))
    BY <1>0, <1>01, <2>1, MirrorReceive
  <2>5. ShipsOnce(dn, Tail(q), "load", Head(q))
    BY <1>0, <1>01, <2>1, OnceReceive
  <2>3. ArchiveMirror(ai, al, Tail(q), "load", Head(q))
    BY <1>0, <2>1, ArchiveReceive
  <2>6. SlotSlices(ld, sp, lf, gl, Tail(q), "load", Head(q))
    BY <1>31, <2>2, <2>5
  <2> QED BY <2>1, <2>3, <2>4, <2>6 DEF gl
<1>6. ASSUME ArchiveInstalled(s), archive_lost' = archive_lost, pc[s] = "load"
      PROVE  ArchiveMirror(ArchiveDone(s)', al, q, "ready", c)
  <2>1. archive_installed \in [Slots -> BOOLEAN]
    BY DEF TypeInv, TypeOK
  <2>2. archive_installed'[s] = (archive_installed[s] \/ (c.archive /\ ~archive_installed[s]))
    BY <1>6, <2>1, Zenon DEF ArchiveInstalled, InstallsArchive
  <2>3. ArchiveDone(s)' \in BOOLEAN /\ (ArchiveDone(s)' <=> ai \/ c.archive)
    <3>1. ArchiveDone(s)' = (archive_installed'[s] \/ archive_lost[s])
      BY <1>6 DEF ArchiveDone
    <3>2. archive_installed'[s] <=> archive_installed[s] \/ c.archive
      BY <2>2
    <3> QED BY <3>1, <3>2 DEF ArchiveDone
  <2> HIDE DEF ai, al, c, q
  <2> QED BY <1>0, <1>6, <2>3, ArchiveInstalls
<1>60. ASSUME ArchiveMirror(ArchiveDone(s)', al, q, "ready", c), ArchiveDone(s)' \in BOOLEAN, NEW e
       PROVE  ArchiveMirror(ArchiveDone(s)', al, q, "recv", e)
  <2> HIDE DEF al, q, c
  <2> QED BY <1>0, <1>60, ArchiveLater
<1>61. ArchiveDone(s)' \in BOOLEAN
  BY DEF ArchiveDone
<1>5. CASE ArchiveFails(s)
  <2>1. /\ pc[s] = "load" /\ c.archive /\ FallibleArchive /\ pc'[s] = "recv"
        /\ spoiled'[s] = sp \union (IF c.slice THEN {Fn(s)} ELSE {})
        /\ archive_lost'[s] = TRUE
        /\ UNCHANGED <<queue, loaded, globals>>
    BY <1>5 DEF ArchiveFails, InstallsArchive, Answer, TypeInv, TypeOK
  <2>2. ArchiveMirror(ArchiveDone(s)', al, q, "ready", c)
    <3>1. ArchiveDone(s)' <=> ai \/ c.archive
      BY <2>1 DEF ArchiveDone
    <3>2. ArchiveMirror(ai, al, q, "load", c)
      BY <1>0, <2>1, Zenon
    <3>3. ai \in BOOLEAN /\ al \in BOOLEAN /\ ArchiveDone(s)' \in BOOLEAN
      BY <1>0, <1>61
    <3> HIDE DEF ai, al, q, c, ld, sp, dn, lf, gl
    <3> QED BY <3>1, <3>2, <3>3 DEF ArchiveMirror
  <2>3. ArchiveMirror(ArchiveDone(s)', al, q, "recv", cur'[s])
    BY <1>60, <1>61, <2>2
  <2>4. FnOf[c.job] \in dn \/ c.slice
    BY <1>01, <2>1 DEF SliceMirror
  <2>5. c.slice => FnOf[c.job] \notin dn
    BY <1>01, <2>1 DEF ShipsOnce
  <2>6. /\ ld \union spoiled'[s] = dn \union {FnOf[c.job]} /\ ld \cap spoiled'[s] = {}
        /\ \A f \in spoiled'[s] : ~SureToLoad(f)
    BY <1>01, <1>33, <2>1, <2>4, <2>5 DEF SureToLoad
  <2>7. SlotSlices(ld, spoiled'[s], lf, gl, q, "recv", cur'[s])
    BY <1>32, <2>1, <2>6
  <2> QED BY <2>1, <2>3, <2>7
<1>7. CASE SliceCached(s)
  <2>1. /\ pc[s] = "load" /\ FnOf[c.job] \in ld /\ ArchiveInstalled(s) /\ pc'[s] = "ready"
        /\ UNCHANGED <<queue, cur, loaded, globals, spoiled, archive_lost>>
    BY <1>7 DEF SliceCached, Fn, TypeInv, TypeOK, losses
  <2>2. SlotSlices(ld, sp, lf, gl, q, "ready", c)
    BY <1>01, <1>32, <2>1
  <2> QED BY <1>6, <2>1, <2>2
<1>8. CASE SliceMissing(s)
  <2>1. /\ pc[s] = "load" /\ ~c.slice /\ ArchiveInstalled(s) /\ pc'[s] = "recv"
        /\ UNCHANGED <<queue, loaded, globals, spoiled, archive_lost>>
    BY <1>8 DEF SliceMissing, Answer, TypeInv, TypeOK, losses
  <2>2. FnOf[c.job] \in dn
    BY <1>01, <2>1 DEF SliceMirror
  <2>3. SlotSlices(ld, sp, lf, gl, q, "recv", cur'[s])
    BY <1>01, <1>32, <2>1, <2>2
  <2> QED BY <1>6, <1>60, <1>61, <2>1, <2>3
<1>9. CASE SliceLoads(s)
  <2>1. /\ pc[s] = "load" /\ ArchiveInstalled(s) /\ pc'[s] = "ready" /\ c.slice
        /\ loaded'[s] = ld \union {FnOf[c.job]}
        /\ globals'[s] = gl \union DefinesUpTo(s, Len(Defs[Fn(s)]) + 1)
        /\ UNCHANGED <<queue, cur, spoiled, archive_lost>>
    BY <1>9 DEF SliceLoads, Fn, TypeInv, TypeOK, losses
  <2>2. \A n \in DefinesUpTo(s, Len(Defs[Fn(s)]) + 1) : Defines(FnOf[c.job], n)
    BY DEF DefinesUpTo, Defines, Fn
  <2>3. FnOf[c.job] \notin dn
    BY <1>01, <2>1 DEF ShipsOnce
  <2>4. SlotSlices(loaded'[s], sp, lf, globals'[s], q, "ready", c)
    BY <1>01, <1>32, <2>1, <2>2, <2>3
  <2> QED BY <1>6, <2>1, <2>4
<1>10. CASE SliceRaises(s)
  <2>1. /\ pc[s] = "load" /\ ArchiveInstalled(s) /\ pc'[s] = "recv" /\ c.slice
        /\ spoiled'[s] = sp \union {Fn(s)}
        /\ UNCHANGED <<queue, loaded, archive_lost>>
    BY <1>10 DEF SliceRaises, Answer, TypeInv, TypeOK
  <2>2. PICK k \in 1..Len(Defs[Fn(s)]) :
           /\ Defs[Fn(s)][k] \in gl \/ Fn(s) \in FallibleSlices
           /\ globals' = [globals EXCEPT ![s] = gl \union DefinesUpTo(s, k)]
    BY <1>10 DEF SliceRaises
  <2>3. /\ globals'[s] = gl \union DefinesUpTo(s, k)
        /\ \A n \in DefinesUpTo(s, k) : Defines(FnOf[c.job], n)
    BY <2>2 DEF DefinesUpTo, Defines, Fn, TypeInv, TypeOK
  <2>4. FnOf[c.job] \notin dn
    BY <1>01, <2>1 DEF ShipsOnce
  <2>5. ~SureToLoad(Fn(s))
    <3> SUFFICES ASSUME Fn(s) \notin FallibleSlices
                 PROVE  \E g \in Fns : g # Fn(s) /\ \E n \in Names : Defines(Fn(s), n) /\ Defines(g, n)
      BY DEF SureToLoad
    <3>1. Defs[Fn(s)][k] \in gl
      BY <2>2
    <3>2. PICK g \in dn : Defines(g, Defs[Fn(s)][k])
      BY <1>01, <3>1 DEF SliceMirror
    <3>3. g \in Fns /\ g # Fn(s) /\ Defs[Fn(s)][k] \in Names
      BY <1>33, <2>1, <2>4, <3>1, <3>2 DEF TypeInv, TypeOK
    <3>4. Defines(Fn(s), Defs[Fn(s)][k])
      BY <2>2 DEF Defines
    <3> QED BY <3>2, <3>3, <3>4
  <2>6. /\ ld \union spoiled'[s] = dn \union {FnOf[c.job]} /\ ld \cap spoiled'[s] = {}
        /\ \A f \in spoiled'[s] : ~SureToLoad(f)
    BY <1>01, <1>33, <2>1, <2>4, <2>5
  <2>7. SlotSlices(ld, spoiled'[s], lf, globals'[s], q, "recv", cur'[s])
    BY <1>32, <2>1, <2>3, <2>6
  <2> QED BY <1>6, <1>60, <1>61, <2>1, <2>7
<1>11. CASE ArgsRejected(s) \/ Start(s) \/ Cancel(s) \/ Finish(s)
  <2>1. /\ pc[s] = "ready" \/ pc[s] = "run"
        /\ pc'[s] = "recv" \/ (pc'[s] = "run" /\ cur'[s] = c)
        /\ UNCHANGED <<queue, loaded, spoiled, globals, archive_installed, archive_lost>>
    BY <1>11 DEF ArgsRejected, Start, Cancel, Finish, Answer, TypeInv, TypeOK, losses
  <2>4. ArchiveDone(s)' = ai
    BY <1>30, <2>1
  <2> HIDE DEF dn, lf, gl, q, c, ai, al
  <2>2. SliceMirror(dn, lf, gl, q, pc'[s], cur'[s])
    BY <1>01, <2>1, MirrorLater
  <2>5. ShipsOnce(dn, q, pc'[s], cur'[s])
    BY <1>01, <2>1, OnceLater
  <2>3. ArchiveMirror(ai, al, q, pc'[s], cur'[s])
    BY <1>0, <2>1, ArchiveLater
  <2>6. SlotSlices(ld, sp, lf, gl, q, pc'[s], cur'[s])
    BY <1>31, <2>2, <2>5
  <2> QED BY <2>1, <2>3, <2>4, <2>6 DEF gl, q
<1>12. CASE Die(s)
  <2>1. /\ pc'[s] = "dead" /\ queue'[s] = <<>>
        /\ UNCHANGED <<loaded, spoiled, globals, archive_installed, archive_lost>>
    BY <1>12 DEF Die, TypeInv, TypeOK, losses
  <2>4. ArchiveDone(s)' = ai
    BY <1>30, <2>1
  <2> HIDE DEF dn, lf, gl, q, c, ai, al
  <2>2. SliceMirror(dn, lf, gl, <<>>, "dead", cur'[s])
    BY <1>01, MirrorDead
  <2>5. ShipsOnce(dn, <<>>, "dead", cur'[s])
    BY <1>01, OnceLater
  <2>3. ArchiveMirror(ai, al, <<>>, "dead", cur'[s])
    BY <1>0, ArchiveDead
  <2>6. SlotSlices(ld, sp, lf, gl, <<>>, "dead", cur'[s])
    BY <1>31, <2>2, <2>5
  <2> QED BY <2>1, <2>3, <2>4, <2>6 DEF gl
<1> QED BY <1>4, <1>5, <1>7, <1>8, <1>9, <1>10, <1>11, <1>12 DEF Isolate

\* Nothing is mirrored to begin with.
LEMMA MirrorInit == Init => MirrorInv
BY DEF Init, MirrorInv, SlicesMirrored, ArchiveMirrored, SlotSlices, SliceMirror, ShipsOnce,
       ArchiveMirror, ArchiveDone, Serving

\* Every step keeps the mirror.
LEMMA MirrorNext ==
    ASSUME TypeInv, MirrorInv, [Next]_vars
    PROVE  MirrorInv'
<1> USE ConstantsAssumption
<1>1. ASSUME NEW j \in Jobs, DispatchIdle(j) \/ DispatchLeastLoaded(j) PROVE MirrorInv'
  <2>1. PICK s \in Slots : SendTo(s, j)
    BY <1>1 DEF DispatchIdle, DispatchLeastLoaded, Live, Slots, TypeInv, TypeOK
  <2>2. UNCHANGED <<pc, cur, loaded, globals, archive_installed, spoiled, archive_lost>>
    BY <1>1 DEF DispatchIdle, DispatchLeastLoaded, isolateVars, losses
  <2> QED BY <2>1, <2>2, MirrorSendTo
<1>2. ASSUME NEW j \in Jobs, DispatchGrow(j) PROVE MirrorInv'
  <2>1. PICK s \in Slots : s = live + 1
    BY <1>2 DEF DispatchGrow, Slots, TypeInv, TypeOK
  <2>2. /\ pc' = [pc EXCEPT ![s] = "recv"] /\ SendTo(s, j)
        /\ UNCHANGED <<cur, loaded, globals, archive_installed, spoiled, archive_lost>>
    BY <1>2, <2>1 DEF DispatchGrow, losses
  <2>3. pc[s] = "absent"
    BY <2>1 DEF TypeInv, TypeOK, GrowOK
  <2>4. pc'[s] = "recv" /\ \A t \in Slots : t # s => pc'[t] = pc[t]
    BY <2>2 DEF TypeInv, TypeOK
  <2> QED BY <2>2, <2>3, <2>4, MirrorSendTo
<1>3. ASSUME UNCHANGED <<loaded, loaded_fns, globals, queue, pc, cur, archive_installed, archive_loaded,
                         spoiled, archive_lost>>
      PROVE  MirrorInv'
  BY <1>3 DEF MirrorInv, SlicesMirrored, ArchiveMirrored, ArchiveDone
<1>4. ASSUME NEW j \in Jobs, Refuse(j) \/ DispatchInline(j) \/ Task(j) \/ DropFuture(j) PROVE MirrorInv'
  <2>1. UNCHANGED <<loaded, loaded_fns, globals, queue, pc, cur, archive_installed, archive_loaded,
                    spoiled, archive_lost>>
    BY <1>4 DEF Refuse, DispatchInline, Task, BridgePolled, Bridge, InlineStart, InlineFails,
                InlineFinish, AbortTask, DropFuture, isolateVars, losses
  <2> QED BY <1>3, <2>1
<1>5. CASE UNCHANGED vars
  BY <1>3, <1>5 DEF vars
<1> QED BY <1>1, <1>2, <1>4, <1>5, MirrorIsolate DEF Next, Dispatch

\* Types and mirror hold in every reachable state.
LEMMA MirrorCorrect == Spec => [](TypeInv /\ MirrorInv)
BY TypeInit, TypeNext, MirrorInit, MirrorNext, PTL DEF Spec

\* The slot-state is a mirror of the isolate's cache but for the loads that failed
\* (MirrorSound; send_to and load_slice), for any program, with slices that share
\* names or raise and archives that do not install, and any number of jobs, entries
\* and isolates: a request is shipped without its code only to an isolate that has
\* loaded it, or failed to, by the time it serves the request.
THEOREM MirrorsTheCache == Spec => []MirrorSound
<1>1. TypeInv /\ MirrorInv => MirrorSound
  <2> SUFFICES ASSUME TypeInv, MirrorInv, NEW s \in Slots
               PROVE  /\ pc[s] = "recv" /\ queue[s] = <<>> =>
                            /\ loaded_fns[s] = loaded[s] \union spoiled[s]
                            /\ loaded[s] \cap spoiled[s] = {}
                            /\ archive_loaded[s] = (archive_installed[s] \/ archive_lost[s])
                      /\ pc[s] = "load" => Fn(s) \in loaded[s] \/ cur[s].slice \/ Fn(s) \in spoiled[s]
    BY DEF MirrorSound, MirrorIsCache, SliceNeverMissing
  <2> DEFINE dn == loaded[s] \union spoiled[s]
  <2>0. SlotSlices(loaded[s], spoiled[s], loaded_fns[s], globals[s], queue[s], pc[s], cur[s])
    BY DEF MirrorInv, SlicesMirrored
  <2>1. /\ SliceMirror(dn, loaded_fns[s], globals[s], queue[s], pc[s], cur[s])
        /\ loaded[s] \cap spoiled[s] = {}
        /\ ArchiveMirror(ArchiveDone(s), archive_loaded[s], queue[s], pc[s], cur[s])
        /\ archive_loaded[s] \in BOOLEAN
    BY <2>0 DEF MirrorInv, ArchiveMirrored, TypeInv, TypeOK, SlotSlices
  <2>2. pc[s] = "load" => Fn(s) \in dn \/ cur[s].slice
    BY <2>1 DEF SliceMirror, Fn
  <2>3. ASSUME pc[s] = "recv", queue[s] = <<>>
        PROVE  loaded_fns[s] = dn
    <3> HIDE DEF dn
    <3>1. dn \subseteq loaded_fns[s]
      BY <2>1 DEF SliceMirror
    <3>2. \A f \in loaded_fns[s] : Has(dn, pc[s], cur[s], f) \/ \E i \in 1..Len(queue[s]) : Ships(queue[s][i], f)
      BY <2>1, <2>3 DEF SliceMirror
    <3>3. \A f \in loaded_fns[s] : f \in dn
      BY <2>3, <3>2 DEF Has
    <3> QED BY <3>1, <3>3
  <2>4. ASSUME pc[s] = "recv", queue[s] = <<>>
        PROVE  ArchiveDone(s) <=> archive_loaded[s]
    BY <2>1, <2>4 DEF ArchiveMirror
  <2>5. pc[s] = "recv" /\ queue[s] = <<>> => archive_loaded[s] = (archive_installed[s] \/ archive_lost[s])
    BY <2>1, <2>4, Zenon DEF ArchiveDone
  <2> QED BY <2>1, <2>2, <2>3, <2>5
<1> QED BY <1>1, MirrorCorrect, PTL

\* An entry whose slice re-runs nothing that raises and shares no name with another
\* slice is never spoiled while archives install (load_slice, Op::DefineGlobal),
\* whatever the other entries do: with MirrorsTheCache, its code is never missing.
THEOREM SureEntriesLoad == Spec => [](\A s \in Slots : \A f \in spoiled[s] : ~SureToLoad(f))
<1>1. MirrorInv => \A s \in Slots : \A f \in spoiled[s] : ~SureToLoad(f)
  BY DEF MirrorInv, SlicesMirrored, SlotSlices
<1> QED BY <1>1, MirrorCorrect, PTL
=============================================================================
