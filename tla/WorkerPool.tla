----------------------------- MODULE WorkerPool -----------------------------
(***************************************************************************)
(* The `worker fn` request path: the caller-thread pool (worker/pool.rs),  *)
(* the dispatch and reply bridge (worker/mod.rs) and the pooled isolates'  *)
(* request loops (worker/isolate.rs).                                      *)
(*                                                                         *)
(* The caller is one thread: each of its actions runs to the next await.   *)
(* Every isolate is a thread of its own, fed by a FIFO channel.  A job is  *)
(* one call of a worker fn; its bytes (arguments, result) are abstracted   *)
(* to whether they exist.                                                  *)
(***************************************************************************)
EXTENDS Naturals, Sequences, FiniteSets

CONSTANTS
    Jobs,             \* the worker fn calls the program makes
    Fns,              \* the worker entries
    FnOf,             \* the entry each job calls
    Names,            \* top-level names of the program
    Defs,             \* the names each entry's code slice defines, in source order
    FallibleSlices,   \* entries whose slice re-runs an initialiser or import that may raise
    FallibleArchive,  \* whether installing the module archive may fail
    Bundled,          \* whether the program ships a module archive
    Cap,              \* Pool::cap, the most isolates the pool grows to
    Mortal,           \* the isolates whose thread may end (no runtime, or a Rust panic)
    Hangs             \* jobs whose body stays suspended at an await for ever

Slots == 1..Cap
NoJob == "no job"

ASSUME ConstantsAssumption ==
    /\ Cap \in Nat
    /\ FnOf \in [Jobs -> Fns]
    /\ Defs \in [Fns -> Seq(Names)]
    /\ FallibleSlices \subseteq Fns
    /\ FallibleArchive \in BOOLEAN
    /\ Bundled \in BOOLEAN
    /\ Mortal \subseteq Slots
    /\ Hangs \subseteq Jobs
    /\ NoJob \notin Jobs
    /\ IsFiniteSet(Jobs)

VARIABLES
    live,               \* caller: slots.len(); slots 1..live exist
    inflight,           \* caller: Slot::inflight
    loaded_fns,         \* caller: Slot::loaded_fns, the mirror of `loaded`
    archive_loaded,     \* caller: Slot::archive_loaded
    call,               \* caller: where each call is
    slotOf,             \* caller: the slot a job was sent to (0: none)
    aborting,           \* caller: abort() was called on the job's task
    polled,             \* caller: the job's bridge task has been polled, and has its guard
    outcome,            \* caller: what the job's ResultCell was resolved with
    queue,              \* channel: the requests sent and not yet received
    reply,              \* channel: the job's reply oneshot
    pc,                 \* isolate: where its thread is
    cur,                \* isolate: the request being served
    loaded,             \* isolate: the fn_ids whose slice it has loaded
    globals,            \* isolate: the user globals of its Vm
    archive_installed,  \* isolate: the archive has been installed
    spoiled,            \* history: the fn_ids whose slice reached the isolate and was not loaded
    archive_lost,       \* history: the archive reached the isolate and was not installed
    runs                \* history: how often the job's body was started

callerVars == <<live, inflight, loaded_fns, archive_loaded, call, slotOf, aborting, polled, outcome>>
losses == <<spoiled, archive_lost>>
isolateVars == <<pc, cur, loaded, globals, archive_installed, losses>>
vars == <<live, inflight, loaded_fns, archive_loaded, call, slotOf, aborting, polled,
          outcome, queue, reply, pc, cur, loaded, globals, archive_installed, spoiled,
          archive_lost, runs>>

\* WorkerRequest: the job, and whether its code still travels with it.
Requests == [job : Jobs, slice : BOOLEAN, archive : BOOLEAN]
NoRequest == [job |-> NoJob, slice |-> FALSE, archive |-> FALSE]

CallStates == {"idle", "refused", "bridged", "inline", "inlining", "resolved", "dropped"}
IsolateStates == {"absent", "recv", "load", "ready", "run", "dead"}
Replies == {"none", "ok", "panic", "cancelled", "closed"}

Init ==
    /\ live = 0
    /\ inflight = [s \in Slots |-> 0]
    /\ loaded_fns = [s \in Slots |-> {}]
    /\ archive_loaded = [s \in Slots |-> FALSE]
    /\ call = [j \in Jobs |-> "idle"]
    /\ slotOf = [j \in Jobs |-> 0]
    /\ aborting = [j \in Jobs |-> FALSE]
    /\ polled = [j \in Jobs |-> FALSE]
    /\ outcome = [j \in Jobs |-> "none"]
    /\ queue = [s \in Slots |-> <<>>]
    /\ reply = [j \in Jobs |-> "none"]
    /\ pc = [s \in Slots |-> "absent"]
    /\ cur = [s \in Slots |-> NoRequest]
    /\ loaded = [s \in Slots |-> {}]
    /\ globals = [s \in Slots |-> {}]
    /\ archive_installed = [s \in Slots |-> FALSE]
    /\ spoiled = [s \in Slots |-> {}]
    /\ archive_lost = [s \in Slots |-> FALSE]
    /\ runs = [j \in Jobs |-> 0]

-----------------------------------------------------------------------------
(* The caller thread: dispatch.                                            *)

Live == 1..live
Idle == {s \in Live : inflight[s] = 0}

\* The first slot of least load, in slot order.
LeastLoaded(s) ==
    /\ s \in Live
    /\ \A t \in Live : inflight[s] <= inflight[t]
    /\ \A t \in Live : t < s => inflight[s] < inflight[t]

\* The first idle slot, in slot order.
FirstIdle(s) == s \in Idle /\ \A t \in Idle : s <= t

\* The request is shipped with what the slot's mirror says the isolate lacks,
\* and the mirror is set on shipping.  A send to an ended isolate is lost:
\* the request is dropped, and with it the sender of its reply.
SendTo(s, j) ==
    LET req == [job |-> j,
                slice |-> FnOf[j] \notin loaded_fns[s],
                archive |-> Bundled /\ ~archive_loaded[s]]
    IN  /\ inflight' = [inflight EXCEPT ![s] = @ + 1]
        /\ loaded_fns' = [loaded_fns EXCEPT ![s] = @ \union {FnOf[j]}]
        /\ archive_loaded' = [archive_loaded EXCEPT ![s] = @ \/ Bundled]
        /\ slotOf' = [slotOf EXCEPT ![j] = s]
        /\ call' = [call EXCEPT ![j] = "bridged"]
        /\ IF pc[s] = "dead"
           THEN /\ reply' = [reply EXCEPT ![j] = "closed"]
                /\ UNCHANGED queue
           ELSE /\ queue' = [queue EXCEPT ![s] = Append(@, req)]
                /\ UNCHANGED reply

\* An argument cannot be sent to a worker: the call panics.
Refuse(j) ==
    /\ call[j] = "idle"
    /\ call' = [call EXCEPT ![j] = "refused"]
    /\ UNCHANGED <<live, inflight, loaded_fns, archive_loaded, slotOf, aborting, polled,
                   outcome, queue, reply, isolateVars, runs>>

DispatchIdle(j) ==
    /\ call[j] = "idle"
    /\ \E s \in Live : FirstIdle(s) /\ SendTo(s, j)
    /\ UNCHANGED <<live, aborting, polled, outcome, isolateVars, runs>>

\* No idle isolate and room to grow: a new isolate is spawned and gets the job.
DispatchGrow(j) ==
    /\ call[j] = "idle"
    /\ Idle = {}
    /\ live < Cap
    /\ live' = live + 1
    /\ pc' = [pc EXCEPT ![live + 1] = "recv"]
    /\ SendTo(live + 1, j)
    /\ UNCHANGED <<aborting, polled, outcome, cur, loaded, globals, archive_installed, losses, runs>>

\* At the cap, or the spawn failed while some isolate exists.
DispatchLeastLoaded(j) ==
    /\ call[j] = "idle"
    /\ Idle = {}
    /\ \E s \in Live : LeastLoaded(s) /\ SendTo(s, j)
    /\ UNCHANGED <<live, aborting, polled, outcome, isolateVars, runs>>

\* No isolate exists and none can be spawned: the job runs inline, in a fresh
\* Vm on the caller thread; arguments that do not decode there panic at the call.
DispatchInline(j) ==
    /\ call[j] = "idle"
    /\ live = 0
    /\ \E c \in {"inline", "refused"} : call' = [call EXCEPT ![j] = c]
    /\ UNCHANGED <<live, inflight, loaded_fns, archive_loaded, slotOf, aborting, polled,
                   outcome, queue, reply, isolateVars, runs>>

-----------------------------------------------------------------------------
(* The caller thread: the bridge task, the inline task and cancellation.   *)

\* Mutant of ReleaseSlot: a second decrement, and no saturation.
ReleaseSlotTwice(j) == inflight' = [inflight EXCEPT ![slotOf[j]] = @ - 2]

\* InflightGuard::drop, a saturating decrement.
ReleaseSlot(j) ==
    inflight' = [inflight EXCEPT ![slotOf[j]] = IF @ = 0 THEN 0 ELSE @ - 1]

\* The executor polls the bridge task for the first time: it takes its abort sender,
\* builds the InflightGuard and waits for the reply.
BridgePolled(j) ==
    /\ call[j] = "bridged"
    /\ ~aborting[j]
    /\ ~polled[j]
    /\ polled' = [polled EXCEPT ![j] = TRUE]
    /\ UNCHANGED <<live, inflight, loaded_fns, archive_loaded, call, slotOf, aborting,
                   outcome, queue, reply, isolateVars, runs>>

\* Mutant of Bridge: a dropped reply sender is not noticed.
BridgeMissesClosed(j) ==
    /\ call[j] = "bridged"
    /\ ~aborting[j]
    /\ polled[j]
    /\ reply[j] \notin {"none", "closed"}
    /\ call' = [call EXCEPT ![j] = "resolved"]
    /\ \E o \in {"ok", "panic"} :
          /\ (o = "ok") => (reply[j] = "ok")
          /\ outcome' = [outcome EXCEPT ![j] = o]
    /\ ReleaseSlot(j)
    /\ UNCHANGED <<live, loaded_fns, archive_loaded, slotOf, aborting, polled, queue,
                   reply, isolateVars, runs>>

\* The bridge gets the reply (or finds its sender dropped) and resolves the
\* future; an Ok reply whose bytes do not decode here resolves with a panic.
Bridge(j) ==
    /\ call[j] = "bridged"
    /\ ~aborting[j]
    /\ polled[j]
    /\ reply[j] # "none"
    /\ call' = [call EXCEPT ![j] = "resolved"]
    /\ \E o \in {"ok", "panic"} :
          /\ (o = "ok") => (reply[j] = "ok")
          /\ outcome' = [outcome EXCEPT ![j] = o]
    /\ ReleaseSlot(j)
    /\ UNCHANGED <<live, loaded_fns, archive_loaded, slotOf, aborting, polled, queue,
                   reply, isolateVars, runs>>

\* The inline task installs the archive and loads the slice in its fresh Vm.
InlineStart(j) ==
    /\ call[j] = "inline"
    /\ ~aborting[j]
    /\ call' = [call EXCEPT ![j] = "inlining"]
    /\ runs' = [runs EXCEPT ![j] = @ + 1]
    /\ UNCHANGED <<live, inflight, loaded_fns, archive_loaded, slotOf, aborting, polled,
                   outcome, queue, reply, isolateVars>>

InlineFails(j) ==
    /\ call[j] = "inline"
    /\ ~aborting[j]
    /\ (Bundled /\ FallibleArchive) \/ FnOf[j] \in FallibleSlices
    /\ call' = [call EXCEPT ![j] = "resolved"]
    /\ outcome' = [outcome EXCEPT ![j] = "panic"]
    /\ UNCHANGED <<live, inflight, loaded_fns, archive_loaded, slotOf, aborting, polled,
                   queue, reply, isolateVars, runs>>

InlineFinish(j) ==
    /\ call[j] = "inlining"
    /\ ~aborting[j]
    /\ j \notin Hangs
    /\ call' = [call EXCEPT ![j] = "resolved"]
    /\ \E o \in {"ok", "panic"} : outcome' = [outcome EXCEPT ![j] = o]
    /\ UNCHANGED <<live, inflight, loaded_fns, archive_loaded, slotOf, aborting, polled,
                   queue, reply, isolateVars, runs>>

\* The last handle on the pending future is dropped: the task is told to abort.
DropFuture(j) ==
    /\ call[j] \in {"bridged", "inline", "inlining"}
    /\ ~aborting[j]
    /\ aborting' = [aborting EXCEPT ![j] = TRUE]
    /\ UNCHANGED <<live, inflight, loaded_fns, archive_loaded, call, slotOf, polled,
                   outcome, queue, reply, isolateVars, runs>>

\* Mutant of AbortTask: the counter is only decremented when a reply arrives.
AbortTaskDrift(j) ==
    /\ aborting[j]
    /\ call[j] \in {"bridged", "inline", "inlining"}
    /\ call' = [call EXCEPT ![j] = "dropped"]
    /\ UNCHANGED <<live, inflight, loaded_fns, archive_loaded, slotOf, aborting, polled,
                   outcome, queue, reply, isolateVars, runs>>

\* The executor drops the aborted task, and the abort sender with it.  The guard is
\* built in the task's first poll: a bridge that is dropped before that has none, and
\* its count is never given back.
AbortTask(j) ==
    /\ aborting[j]
    /\ call[j] \in {"bridged", "inline", "inlining"}
    /\ call' = [call EXCEPT ![j] = "dropped"]
    /\ IF call[j] = "bridged" /\ polled[j] THEN ReleaseSlot(j) ELSE UNCHANGED inflight
    /\ UNCHANGED <<live, loaded_fns, archive_loaded, slotOf, aborting, polled, outcome,
                   queue, reply, isolateVars, runs>>

\* The abort sender lives in the bridge task.
AbortSignalled(j) == call[j] \in {"resolved", "dropped"}

-----------------------------------------------------------------------------
(* An isolate's thread: isolate_loop.                                      *)

Fn(s) == FnOf[cur[s].job]

Receive(s) ==
    /\ pc[s] = "recv"
    /\ queue[s] # <<>>
    /\ cur' = [cur EXCEPT ![s] = Head(queue[s])]
    /\ queue' = [queue EXCEPT ![s] = Tail(@)]
    /\ pc' = [pc EXCEPT ![s] = "load"]
    /\ UNCHANGED <<callerVars, reply, loaded, globals, archive_installed, losses, runs>>

\* The request is answered and the loop goes back to its channel.
Answer(s, r) ==
    /\ reply' = [reply EXCEPT ![cur[s].job] = r]
    /\ cur' = [cur EXCEPT ![s] = NoRequest]
    /\ pc' = [pc EXCEPT ![s] = "recv"]

\* The archive comes first; it is installed at most once.
InstallsArchive(s) == cur[s].archive /\ ~archive_installed[s]

ArchiveFails(s) ==
    /\ pc[s] = "load"
    /\ InstallsArchive(s)
    /\ FallibleArchive
    /\ Answer(s, "panic")
    /\ spoiled' = [spoiled EXCEPT ![s] = @ \union (IF cur[s].slice THEN {Fn(s)} ELSE {})]
    /\ archive_lost' = [archive_lost EXCEPT ![s] = TRUE]
    /\ UNCHANGED <<callerVars, queue, loaded, globals, archive_installed, runs>>

ArchiveInstalled(s) ==
    archive_installed' = [archive_installed EXCEPT ![s] = @ \/ InstallsArchive(s)]

SliceCached(s) ==
    /\ pc[s] = "load"
    /\ Fn(s) \in loaded[s]
    /\ ArchiveInstalled(s)
    /\ pc' = [pc EXCEPT ![s] = "ready"]
    /\ UNCHANGED <<callerVars, queue, reply, cur, loaded, globals, losses, runs>>

\* "worker code slice missing for an uncached entry"
SliceMissing(s) ==
    /\ pc[s] = "load"
    /\ Fn(s) \notin loaded[s]
    /\ ~cur[s].slice
    /\ ArchiveInstalled(s)
    /\ Answer(s, "panic")
    /\ UNCHANGED <<callerVars, queue, loaded, globals, losses, runs>>

\* The slice's definitions run one by one on the isolate's Vm, which is kept
\* across requests: DEFINE_GLOBAL raises on a name that is already a global.
DefinesUpTo(s, k) ==
    {Defs[Fn(s)][i] : i \in {i \in 1..Len(Defs[Fn(s)]) : i < k}}

\* Mutant of SliceLoads: the loaded entry is not recorded.
SliceLoadsUnrecorded(s) ==
    /\ pc[s] = "load"
    /\ Fn(s) \notin loaded[s]
    /\ cur[s].slice
    /\ \A i \in 1..Len(Defs[Fn(s)]) : Defs[Fn(s)][i] \notin globals[s]
    /\ ArchiveInstalled(s)
    /\ globals' = [globals EXCEPT ![s] = @ \union DefinesUpTo(s, Len(Defs[Fn(s)]) + 1)]
    /\ pc' = [pc EXCEPT ![s] = "ready"]
    /\ UNCHANGED <<callerVars, queue, reply, cur, loaded, losses, runs>>

SliceLoads(s) ==
    /\ pc[s] = "load"
    /\ Fn(s) \notin loaded[s]
    /\ cur[s].slice
    /\ \A i \in 1..Len(Defs[Fn(s)]) : Defs[Fn(s)][i] \notin globals[s]
    /\ ArchiveInstalled(s)
    /\ loaded' = [loaded EXCEPT ![s] = @ \union {Fn(s)}]
    /\ globals' = [globals EXCEPT ![s] = @ \union DefinesUpTo(s, Len(Defs[Fn(s)]) + 1)]
    /\ pc' = [pc EXCEPT ![s] = "ready"]
    /\ UNCHANGED <<callerVars, queue, reply, cur, losses, runs>>

\* Definition k raises; the ones before it stay defined.
SliceRaises(s) ==
    /\ pc[s] = "load"
    /\ Fn(s) \notin loaded[s]
    /\ cur[s].slice
    /\ \E k \in 1..Len(Defs[Fn(s)]) :
          /\ \A i \in 1..Len(Defs[Fn(s)]) : i < k => Defs[Fn(s)][i] \notin globals[s]
          /\ Defs[Fn(s)][k] \in globals[s] \/ Fn(s) \in FallibleSlices
          /\ globals' = [globals EXCEPT ![s] = @ \union DefinesUpTo(s, k)]
    /\ ArchiveInstalled(s)
    /\ Answer(s, "panic")
    /\ spoiled' = [spoiled EXCEPT ![s] = @ \union {Fn(s)}]
    /\ UNCHANGED <<callerVars, queue, loaded, archive_lost, runs>>

\* The arguments do not decode on this isolate, or the slice did not define
\* the entry.
ArgsRejected(s) ==
    /\ pc[s] = "ready"
    /\ Answer(s, "panic")
    /\ UNCHANGED <<callerVars, queue, loaded, globals, archive_installed, losses, runs>>

\* Mutant of Start: the select is not biased towards the abort signal.
StartUnbiased(s) ==
    /\ pc[s] = "ready"
    /\ pc' = [pc EXCEPT ![s] = "run"]
    /\ runs' = [runs EXCEPT ![cur[s].job] = @ + 1]
    /\ UNCHANGED <<callerVars, queue, reply, cur, loaded, globals, archive_installed, losses>>

\* The first poll of the biased select: the abort signal is looked at first.
Start(s) ==
    /\ pc[s] = "ready"
    /\ ~AbortSignalled(cur[s].job)
    /\ pc' = [pc EXCEPT ![s] = "run"]
    /\ runs' = [runs EXCEPT ![cur[s].job] = @ + 1]
    /\ UNCHANGED <<callerVars, queue, reply, cur, loaded, globals, archive_installed, losses>>

\* Mutant of Cancel: the abort signal is only looked at before the body starts.
CancelOnlyBefore(s) ==
    /\ pc[s] = "ready"
    /\ AbortSignalled(cur[s].job)
    /\ Answer(s, "cancelled")
    /\ UNCHANGED <<callerVars, queue, loaded, globals, archive_installed, losses, runs>>

\* Mutant of Cancel: the cancelled run is answered but not left.
CancelKeepsRunning(s) ==
    /\ pc[s] \in {"ready", "run"}
    /\ AbortSignalled(cur[s].job)
    /\ reply' = [reply EXCEPT ![cur[s].job] = "cancelled"]
    /\ UNCHANGED <<callerVars, queue, isolateVars, runs>>

Cancel(s) ==
    /\ pc[s] \in {"ready", "run"}
    /\ AbortSignalled(cur[s].job)
    /\ Answer(s, "cancelled")
    /\ UNCHANGED <<callerVars, queue, loaded, globals, archive_installed, losses, runs>>

\* The body completes (it may do so in the poll during which abort was signalled).
Finish(s) ==
    /\ pc[s] = "run"
    /\ cur[s].job \notin Hangs
    /\ \E r \in {"ok", "panic"} : Answer(s, r)
    /\ UNCHANGED <<callerVars, queue, loaded, globals, archive_installed, losses, runs>>

\* The thread ends: the request it serves and the ones in its channel are
\* dropped, and every reply sender with them.
HeldJobs(s) == {cur[s].job} \union {queue[s][i].job : i \in 1..Len(queue[s])}

\* Mutant of Die: only the request being served is given up.
DieForgetsQueue(s) ==
    /\ s \in Mortal
    /\ pc[s] \in {"recv", "load", "ready", "run"}
    /\ pc' = [pc EXCEPT ![s] = "dead"]
    /\ reply' = [j \in Jobs |-> IF j = cur[s].job THEN "closed" ELSE reply[j]]
    /\ cur' = [cur EXCEPT ![s] = NoRequest]
    /\ queue' = [queue EXCEPT ![s] = <<>>]
    /\ UNCHANGED <<callerVars, loaded, globals, archive_installed, losses, runs>>

Die(s) ==
    /\ s \in Mortal
    /\ pc[s] \in {"recv", "load", "ready", "run"}
    /\ pc' = [pc EXCEPT ![s] = "dead"]
    /\ reply' = [j \in Jobs |-> IF j \in HeldJobs(s) THEN "closed" ELSE reply[j]]
    /\ cur' = [cur EXCEPT ![s] = NoRequest]
    /\ queue' = [queue EXCEPT ![s] = <<>>]
    /\ UNCHANGED <<callerVars, loaded, globals, archive_installed, losses, runs>>

-----------------------------------------------------------------------------
Dispatch(j) ==
    \/ Refuse(j)
    \/ DispatchIdle(j)
    \/ DispatchGrow(j)
    \/ DispatchLeastLoaded(j)
    \/ DispatchInline(j)

Task(j) ==
    \/ BridgePolled(j)
    \/ Bridge(j)
    \/ InlineStart(j)
    \/ InlineFails(j)
    \/ InlineFinish(j)
    \/ AbortTask(j)

Isolate(s) ==
    \/ Receive(s)
    \/ ArchiveFails(s)
    \/ SliceCached(s)
    \/ SliceMissing(s)
    \/ SliceLoads(s)
    \/ SliceRaises(s)
    \/ ArgsRejected(s)
    \/ Start(s)
    \/ Cancel(s)
    \/ Finish(s)

Next ==
    \/ \E j \in Jobs : Dispatch(j) \/ Task(j) \/ DropFuture(j)
    \/ \E s \in Slots : Isolate(s) \/ Die(s)

Spec == Init /\ [][Next]_vars

\* The executor polls every ready task, and the OS schedules every isolate
\* thread.  Nothing is assumed of the caller's calls and drops, of deaths,
\* or of the bodies in Hangs.
Fairness ==
    /\ \A j \in Jobs : WF_vars(Task(j))
    /\ \A s \in Slots : WF_vars(Isolate(s))

FairSpec == Spec /\ Fairness

-----------------------------------------------------------------------------
(* Properties.                                                             *)

\* Every variable has its type; the pool never grows past its cap.
TypeOK ==
    /\ live \in 0..Cap
    /\ inflight \in [Slots -> Nat]
    /\ loaded_fns \in [Slots -> SUBSET Fns]
    /\ archive_loaded \in [Slots -> BOOLEAN]
    /\ call \in [Jobs -> CallStates]
    /\ slotOf \in [Jobs -> 0..Cap]
    /\ aborting \in [Jobs -> BOOLEAN]
    /\ polled \in [Jobs -> BOOLEAN]
    /\ outcome \in [Jobs -> {"none", "ok", "panic"}]
    /\ queue \in [Slots -> Seq(Requests)]
    /\ reply \in [Jobs -> Replies]
    /\ pc \in [Slots -> IsolateStates]
    /\ cur \in [Slots -> Requests \union {NoRequest}]
    /\ loaded \in [Slots -> SUBSET Fns]
    /\ globals \in [Slots -> SUBSET Names]
    /\ archive_installed \in [Slots -> BOOLEAN]
    /\ spoiled \in [Slots -> SUBSET Fns]
    /\ archive_lost \in [Slots -> BOOLEAN]
    /\ runs \in [Jobs -> Nat]

\* The calls an isolate's counter counts: those whose bridge waits on it, and those
\* that were dropped before their bridge's first poll.
Counted(s) ==
    {j \in Jobs : slotOf[j] = s /\ (call[j] = "bridged" \/ (call[j] = "dropped" /\ ~polled[j]))}

\* The in-flight counter the scheduler reads is exactly the number of bridges
\* still waiting on that isolate and of the calls dropped before their bridge was
\* first polled, whatever mixture of replies, drops and deaths ends them: the counter
\* drifts by those calls, for good (mod.rs:253 builds the guard inside the task,
\* though mod.rs:250-252 has it prevent the drift), and by nothing else.
InflightExact == \A s \in Slots : inflight[s] = Cardinality(Counted(s))

\* A request an isolate still holds belongs to a call that was sent to that
\* isolate, has no reply yet and is not resolved: no request is served twice,
\* and none is left behind by a call that has ended other than by a drop.
HeldIsOpen ==
    \A s \in Slots : \A j \in HeldJobs(s) \ {NoJob} :
        /\ slotOf[j] = s
        /\ call[j] \in {"bridged", "dropped"}
        /\ reply[j] = "none"

\* A waiting call is never forgotten: its request is still with its isolate,
\* or its reply oneshot has been answered or closed.
NoLostCall ==
    \A j \in Jobs : call[j] = "bridged" =>
        reply[j] # "none" \/ j \in HeldJobs(slotOf[j])

\* pool.rs: the slot-state is "a pure mirror of that cache".  Once a live isolate is
\* back at its channel with nothing queued, the mirror holds exactly what the isolate
\* has loaded and what reached it and failed to load, which it never loads after that.
MirrorIsCache ==
    \A s \in Slots : pc[s] = "recv" /\ queue[s] = <<>> =>
        /\ loaded_fns[s] = loaded[s] \union spoiled[s]
        /\ loaded[s] \cap spoiled[s] = {}
        /\ archive_loaded[s] = (archive_installed[s] \/ archive_lost[s])

\* isolate.rs load_slice: a request for an uncached entry carries its slice, unless
\* the slice was shipped before and failed to load: from then on every call of that
\* entry on that isolate finds its code missing.
SliceNeverMissing ==
    \A s \in Slots : pc[s] = "load" => Fn(s) \in loaded[s] \/ cur[s].slice \/ Fn(s) \in spoiled[s]

\* The mirror differs from the cache by the failed loads and by nothing else, also
\* when slices share a name, raise, or find the archive broken: a request is shipped
\* without its code only to an isolate that has it or has failed to load it.
MirrorSound == MirrorIsCache /\ SliceNeverMissing

\* What the caller of a worker fn can tell of the state.
Calls == INSTANCE WorkerCalls WITH
    status <- [j \in Jobs |-> IF call[j] \in {"bridged", "inline", "inlining"}
                              THEN "pending" ELSE call[j]],
    outcome <- outcome,
    runs <- runs

\* The caller of a worker fn sees the abstract service of WorkerCalls: a call
\* starts its body at most once, resolves at most once and with an Ok only if
\* the body ran, and a dropped call never starts its body (dispatch_worker_job,
\* isolate_loop and the pool together).
ImplementsCalls == Calls!Spec

\* The call is behind a body that never completes, or is one.
Hung(j) ==
    \/ call[j] = "inlining" /\ j \in Hangs
    \/ call[j] = "bridged" /\ pc[slotOf[j]] = "run" /\ cur[slotOf[j]].job \in Hangs

\* Every call that returned a future is settled: it resolves or its last handle
\* was dropped, also when its isolate dies, unless a body in front of it never
\* completes.
CallsSettle ==
    \A j \in Jobs : (call[j] \in {"bridged", "inline", "inlining"})
                        ~> (call[j] \in {"resolved", "dropped"} \/ Hung(j))

\* Dropping a future gives the isolate serving it back, even from a body that
\* would never have completed (cancel-on-drop through the biased select).
CancelReleases ==
    \A j \in Jobs :
        (aborting[j] /\ \E s \in Slots : cur[s].job = j) ~> (\A s \in Slots : cur[s].job # j)
=============================================================================
