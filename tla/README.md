# A TLA+ model of the AScript runtime

AScript is a scripting language with two engines (a bytecode VM and a
tree-walking interpreter), a single-threaded event loop for `async` code, worker
threads that share nothing with the program, and a large standard library. This
directory models the parts of it that are hardest to test: what runs concurrently,
what must survive a crash, and what reclaims memory behind the program's back.

* [Inventory](#inventory): the parts of the system
* [Modules](#modules): what is modelled, and how it corresponds to the code
* [Runs](#runs): what TLC checks, with which bounds and which fairness
* [What the models disagree with](#what-the-models-disagree-with)
* [Proofs](#proofs)
* [Plan](#plan)

Run a model with `tlc -config PoolSafety.cfg MCWorkerPool`, and check the proofs
with `tlapm WorkerPoolProofs.tla` (each `*Proofs` module). `PROJECT.json` maps every definition to the
source lines it models. An operator placed before X and named after it
(`PumpedAgain` before `Pumped`) is X with a plausible bug; no specification uses it. Replacing X by it must violate the
property `PROJECT.json` names, which is how we know that property to bite.

## Inventory

### The parts, their state and how they interact

| part | source | state | operations |
|---|---|---|---|
| worker pool | `worker/pool.rs` | per thread: slots (isolate channel, in-flight counter, mirror of the isolate's code cache) | choose a slot (idle, grow, least loaded), send a request, hand it back for inline execution |
| dispatch and bridge | `worker/mod.rs` | per call: a future, a reply oneshot, an abort oneshot, a guard on the counter | gate and encode, dispatch, bridge the reply into the future, inline fallback |
| isolate loop | `worker/isolate.rs` | one `Vm` per thread, the loaded entries, whether the archive is installed | receive, install archive, load slice, decode, run against abort, reply |
| dedicated isolate | `worker/isolate.rs` | a thread and its channel | spawn; drop closes the channel and joins |
| worker generator | `worker/stream.rs`, `coro.rs` | the driver in a cell, `done`; in the isolate the local generator | spawn and await the ack, one credit per `next()`, close, drop |
| actor | `worker/actor.rs`, `interp.rs` | the resource table entry; in the isolate the instance | spawn, call, close; init and method calls from a FIFO mailbox |
| futures | `task.rs` | a slot and a `Notify`; an abort handle owned by the handles | resolve, get, detach, abort when the last handle is dropped |
| std/task | `stdlib/task_mod.rs` | resolver tasks of a race | spawn, gather, race, timeout (retry, pmap, preduce, pipe) |
| local generators | `coro.rs` | the fiber or the body future in a cell, `inp`, `out`, `started`, `done` | `next()`, `close()`, cancellation of `next()` |
| std/sync | `stdlib/sync.rs` | channels, semaphores, rate limiters with their `Notify`s | send, recv, tryRecv, close; acquire, release, withPermit |
| code slices | `worker/dispatch.rs` | a cache keyed by entry | cut the definitions an entry needs out of the program |
| structured clone | `worker/serialize.rs` | none | encode and decode a graph of values |
| determinism | `det.rs`, `trace.rs` | one context per interpreter: events, cursor, virtual clock, generator, appender | record, replay |
| std/workflow | `stdlib/workflow.rs` | a durable event log per workflow | run, the effects of `ctx`, finish; resume after a crash |
| std/resilience | `stdlib/resilience.rs` | limiter, bulkhead, breaker, deadline, and more policies | call through them, alone or stacked by `handler` |
| HTTP server | `stdlib/http_server.rs` | connections, the drain flag | accept, serve, shut down |
| capabilities | `stdlib/caps.rs` | the granted set | check, drop |
| timers, events, cron, std/stream, lru, shared | `stdlib/*.rs` | timers, listeners, cache order | |
| compile cache, packages | `cache/`, `pkg/` | files on disk, the lock file | read, write, resolve |
| cycle collector | `gc.rs`, `value.rs`, `vendor/gcmodule` | strong counts, the list of tracked boxes | clone, drop, sweep (count, subtract, revive, drop) |
| engines and front end | `vm/`, `interp.rs`, `syntax/`, `compile/`, `check/` | the program | |
| tools | `lsp/`, `dap/`, `repl.rs`, `watch.rs`, `rtstub/`, `embed/`, `capi/` | | |

A program calls a `worker fn`: the interpreter builds a slice, `worker/mod.rs`
encodes the arguments and asks the pool, the pool sends a request to an isolate's
channel, and a task on the caller's event loop waits on the reply oneshot to resolve the
future. The future is a `SharedFuture`; dropping its last handle aborts that task,
which drops the abort sender, which the isolate selects on. Streams and actors use
isolates of their own and the same futures; std/sync and std/task wait through
tokio's `Notify` on the same event loop.

### What is hard, and what makes each part correct

* *Two threads and a cancellation.* Dispatch, isolate, bridge and drop interleave
  freely. No call may be lost, answered twice, or started after it was dropped; the
  counters the scheduler reads may not drift; an isolate whose thread ends must not
  leave callers waiting.
* *A cache mirrored on another thread.* The pool decides from its mirror whether a
  request carries code. The mirror must agree with the isolate.
* *Take out, await, put back.* Generators and stream drivers leave their cell across
  an await. What another `next()`, a `close()` or a cancellation finds there decides
  whether values are lost and resources released.
* *Joins on the event loop's thread.* A join must return.
* *Lost wake-ups.* Every wait is "check, register, check again, sleep"; wake-ups can
  go to tasks that are cancelled.
* *Ownership by reachability.* A task lives as long as a handle on it. Nothing awaited
  may be cancelled, everything unreachable must end.
* *Limits.* Channel capacity, permits, the pool's cap, the breaker's probes.
* *Crashes.* A workflow may stop at any step, with its log ahead of, behind or torn inside
  what its body has seen. The resume must give the body what it was given before.
* *Policies stacked around an await.* Each layer remembers something before the await and
  undoes it after; a panic, a deadline or a late return meets another layer's state.
* *Counting references.* A sweep may take only what the program cannot reach, and what
  each value reports must match what it owns.

`PROJECT.json` lists each of these at its line under `hazards`.

## Modules

All of the program's own code runs on one thread; an action of it is one run from an
await to the next. Every isolate is a thread, and its steps interleave with all others.
Payloads are abstracted to whether they exist, can be sent and can be decoded, values
yielded or sent to their position in the sequence.

### `WorkerCalls`, `WorkerPool`, `WorkerPoolProofs`, `MCWorkerPool`

`WorkerCalls` is the promise of a `worker fn` call, wherever the body runs: a call is refused, or its
future is resolved at most once; the body starts at most once, never after the call
was dropped; Ok comes from a body that ran. `WorkerPool` is the implementation, and
`ImplementsCalls` is the refinement: a call in state `bridged`, `inline` or `inlining` is
`pending`.

| variable | code |
|---|---|
| `live`, `inflight`, `loaded_fns`, `archive_loaded` | `Pool::slots`, the fields of `Slot` |
| `call`, `slotOf`, `aborting`, `polled`, `outcome` | the call's bridge or inline task: pending, resolved, dropped; `abort()` was called; the bridge has run up to its first await, so that its `InflightGuard` exists; what `resolve` stored |
| `queue`, `reply` | the isolate's mpsc channel, the reply oneshot (`closed`: its sender was dropped) |
| `pc`, `cur`, `loaded`, `globals`, `archive_installed` | the locals of `isolate_loop` and the user globals of its `Vm` |
| `spoiled`, `archive_lost` | history: the entries whose slice reached the isolate and failed to load, and whether its archive did |

Actions: `Refuse`, `DispatchIdle`, `DispatchGrow`, `DispatchLeastLoaded`, `DispatchInline` (the
branches of `dispatch_worker_job` and `Pool::dispatch`, with `SendTo` for `send_to`); `BridgePolled`, `Bridge`,
`InlineStart`, `InlineFails`, `InlineFinish`, `DropFuture`, `AbortTask` (the tasks on the caller's
loop; abort is a request which the executor carries out later, and a task that was never polled has
no guard to drop); `Receive`, `ArchiveFails`,
`SliceCached`, `SliceMissing`, `SliceLoads`, `SliceRaises`, `ArgsRejected`, `Start`, `Cancel`, `Finish`
(one iteration of `isolate_loop`); `Die` (the thread ends: no runtime, or a Rust panic).
A slice is the sequence of names it defines, and `SliceRaises` is `DEFINE_GLOBAL` on a
name that exists (or, for `FallibleSlices`, an initialiser that raises): the earlier
definitions stay.

Left out: the probe of the machine's parallelism (`Cap` is a constant), nested worker
calls inside an isolate (they never reach the pool), `run_in_worker` on a dedicated isolate,
caps and host factories (installed afresh per request), the refusal under a trace. A
chunk job of `task.pmap` is a body like any other.

### `WorkerStream`, `WorkerStreamProofs`, `MCWorkerStream`

`StreamDriver::spawn` up to the ack, `GeneratorHandle::resume_worker`, `close`, drop,
cancellation at the await, and the isolate's `stream_loop`. `driver` says where the
`StreamDriver` is (a local of `spawn`, in its cell, taken out by a consumer, dropped).
Dropping it is `DropDriver`: its fields go in declaration order, first the sender, then
the isolate's handle, which joins; the locals of `spawn` go in reverse order of
declaration (`DropSpawnLocals`). While `caller = "joining"` nothing else happens on the
caller's thread. `started` is a function of the state (`Started`). `MaxYields` bounds the body.

### `WorkerActor`, `WorkerActorProofs`, `MCWorkerActor`

`spawn_actor` with its bridge, `actor_handle_call` with its bridge, `close`, and
`actor_loop`. `CallerBound` are the calls whose method needs the caller's event loop, so
that it cannot return while the caller joins.

### `Notify`, `NotifyProofs`

tokio's `Notify`, external, from how `task.rs` and `sync.rs` use it: `notify_one` stores a
permit if nobody waits; `notify_waiters` wakes the registered; a woken waiter that is
dropped hands its `notify_one` wake-up on (`Withdraw`).

### `SyncChannel`, `SyncSemaphore`, their MC and their proof modules

One action per way through a loop of `sync_send`, `sync_recv`, `sync_acquire`; registration and re-check are
in one action since no await lies between them. A task that waits may be cancelled. The
variable `use`, chosen at the start, says what kind of program uses the semaphore: one that
releases permits it does not hold (`strays`), one that gives `withPermit` functions whose call returns a
future (`futures`: an `async` function on the tree-walker, a `worker fn`), both or neither; a property names the
kinds it holds for. Such a future is not driven by `sync_with_permit`, so the permit is back before the
function ends (`BodyReturnsFuture`, `LooseEnds`). A task may be cancelled while it holds a permit (`CancelHolder`), which is then lost. `pushed` and `popped` are histories. `MaxSends` bounds each sender.

### `SharedFuture`, `SharedFutureProofs`, `MCSharedFuture`

Tasks call each other, pass handles as arguments, return them, await, race, time out,
detach and drop them. `holds[t]` are the handles in a task's frames, `kept[f]` those inside
a result; `Handles` is what the reference counts amount to, and `Aborted` a task whose last
handle went. Aborted tasks are reaped by the executor in a step of their own, and so are the
resolver tasks of a race. After the main task has ended its globals survive until the drain
is over (`MainEnds`). Whether a result is a value or a panic is left out; `gather` is a
sequence of gets. A handle is never stored where the task it belongs to could reach it
(a variable its closure captures): such a task is never cancelled, and needs the
environments of the interpreter to be modelled. One race per task at a time, counting the
reaping of its resolvers; `Racers` bounds who races. `hangs`, chosen at the start, are the
tasks whose body never ends.

### `Generator`, `MCGenerator`

Both engines' local generators in one module. The variable `use`, chosen at the start, says
which engine runs and what kind of program it is: the VM takes the fiber out for a whole
resume, the tree-walker (`"body"`) takes the body future out for one poll and passes input through
`inp`; `exclusive` lets one task use the generator at a time; `cancels` allows cancelling a
`next()`; `reenters` lets the body call `next()` and `close()` on its own generator while it is polled. A `next()` of its own gives it nil,
and with the tree-walker leaves an input behind: `Passes` are the ways in which inputs that nobody waited for let the body run
through yields within one poll. A step is one poll. `at` is what the body is suspended at, `waker` whose waker its I/O
has. The n-th value yielded is n. `InTurns` (exclusive, no cancels), without re-entry, is the program for which both
engines keep every promise; the properties say which ones they keep beyond it.

### `Workflow`, `WorkflowProofs`, `MCWorkflow`

A body is the sequence of its effects: `"now"` (`ctx.now`), `"mono"` (`time.monotonic`), `"random"`, `"uuid"` (every draw of bytes),
`"sleep"`, or an activity. The wall clock and the monotonic clock are two fields of the context, moved as `VirtualClock` moves them (`Advanced`,
`SetNow`). `cell` is the determinism context of the interpreter and `flow[f].prev` the one
that `f` displaced: a flow may run inside an activity of another. `disk[f]` are the lines of the log as a
reader sees them, `stable[f]` those that survive a loss of power. An activity's result is the number of
its execution, so that two executions never look alike. `EventsOf` is defined by position (the k-th event is the one with k events up to it)
and not by recursion, so that the proofs can use it. `Spec` is the safety part; `FairSpec`, which the run checks, adds fairness.

Actions: `Run`, `Resume` (with the repair of a group log, `Repaired`); `Now`, `Monotonic`, `Draw`, `Sleep`, `Call` in their
three cases (the recorded event fits, is of another kind, or there is none); `ActivityReads` (an activity runs with the context of its flow installed, and
what it reads of clock, generator and timer is recorded there: `Own`), `ActivityReturns`, `ActivityFails`; an error of `ctx.call` ends the body, or is a
value to it when the call is inside `recover` (`Throw`, `Recovered`);
`FinishGroup`, `FinishSnapshot` (`finish_workflow`, `write_log`). The environment: `Kill` (also in the middle of an append),
`PowerLoss` (any state of the file the synchronisations allow: `Survivors`), `Deploy` (new code meets an old
log). A write may fail after some of its lines, and a synchronisation may fail: `Written`. `kept` and `told` are
histories: the values and answers that the durability mode promises to keep; a loss of power
takes back what the mode does not promise. `swallowed` are the flows with an I/O error that the code
discards. `irregular` are the flows whose log may not follow their body any more: the code was changed, an activity recorded events of its own, or the body
went on after an error of `ctx.call`; `Regular` are the others. `MaxCrashes` and `MaxFaults` bound the environment, `MaxEvents` the
events an activity adds.

Left out: workflows that overlap as async tasks of one interpreter, whose events all go to the context
installed last; the text of a log (a line is whole, torn or garbage); the JSON of results.

### `Handler`, `MCHandler`

`resilience.handler`: limiter, bulkhead, breaker, deadline, function. An action takes a request from one
await to the next, through all layers: `Arrive` up to the queue or into the function, `Wake` from the
queue, `FnEnds` or `DeadlineFires` back out through breaker and bulkhead. `ParkExpires` and `Drop` are a deadline of the
caller around the whole stack. Instants are kept as ages, capped where no comparison can tell them
apart (`AgeCap`), so that time needs no bound. A probe is `"stale"` once its half-open period is over,
which the code cannot tell; `tainted` remembers that one has come back since. `healthy` is the moment from
which the function returns values.

Left out: the keyed limiter, `limiter.acquire`, retry, fallback, singleflight, memoize, health checks, metrics,
layers that are not configured (each is passed through).

### `CycleCollector`, `MCCycleCollector`

The boxes that hold script values: traced objects, enum variants (counted but not listed, looked
through by the trace), and handles (counted, never traced). The program creates, stores, reads and
forgets; `DropRef` is one step of a cascading drop; `Collect`, `Mark`, `Revive`, `Unreachable`, `DropContents`, `Release` are the
phases of a sweep, which starts at any moment, with any one reachable object borrowed. The order in
which a sweep visits its list is left open. `shared` remembers that a sweep met a variant with two owners.

Left out: when `maybe_collect` decides to sweep, finalizers of native resources.

## Runs

CHECK_DEADLOCK is off except in `workflow` and `handler`: a program that has made all its calls stops.
In `workflow` a completed flow can be resumed for ever, in `handler` time passes.

| run | bounds | checks |
|---|---|---|
| `pool_safety` | 3 calls, 2 entries sharing a helper, 2 isolates, one mortal; archive and one slice may fail | `TypeOK`, `InflightExact`, `HeldIsOpen`, `NoLostCall`, `MirrorSound`, `ImplementsCalls` |
| `pool_liveness` | 3 calls queued on one mortal isolate, the same slices, one body hangs | `CallsSettle`, `CancelReleases` |
| `stream` | 2 consumers, 3 yields | `CreditsSound` (type, strict pull, no credit before the build), `YieldsInOrder`, `TeardownReturns` |
| `actor` | 3 calls, one of a method that needs the caller | `MailboxSound` (type, order, drain), `CallsSettle`, `CloseReturns` |
| `channel` | 2 senders, 3 receivers, 2 values each, capacity 2 | `ChannelSound` (type, FIFO, no lost wake-up), `ValuesReachReceivers`, `CloseReleases` |
| `semaphore` | 4 tasks, 2 permits, every `use` | `NoAcquirerStranded`, `PermitsKept`, `FreePermitsAreTaken` |
| `future` | main and 2 tasks, one may hang, one may be detached, main and one task race | `WaitersSound` (type, no lost wake-up, nothing awaited is cancelled), `AbortIsFinal`, `OrphansEnd`, `AwaitsReturn`, `DetachedCompletes` |
| `generator` | 2 consumers, 3 yields, every `use` | `DeliversAndReleases` (type, delivery, nothing kept after close), `NilAtEnd`, `NextReturns` |
| `workflow` | a flow of 4 effects with either of two bodies (both clocks around a sleep; a call inside `recover`, an activity that draws a number itself), group or buffered; a second one, fsync, that may run inside its activity; new code for the first; 2 crashes, 1 fault, a synchronisation due after 2 events, 3 events for activities to add to | `ReplayFaithful`, `OwnResults`, `TimersElapse`, `OneAnswer`, `Completes` |
| `handler` | 3 callers, one with a budget of its own; 2 tokens, 2 permits, 1 place in the queue, window and probes 2, cooldown 1 and deadline 2 ticks | `BulkheadExact`, `ProbesCounted`, `AdmittedAreAnswered`, `BreakerRecovers` |
| `cycles` | 2 objects, 1 variant, 1 handle, 2 places of the program, 2 values per object | `HeapSound`, `SweepExact`, `SweepReturns` |
| `variant_shared` | the same without the handle | refutes `ReachableIsKept` |

*Why the bounds are enough.* In `pool_safety`, three calls are the fewest with which one runs,
one queues behind it and one goes to a second isolate; two calls of one entry and one of
another exercise the mirror both ways; with one mortal isolate both a death and its
consequences for calls placed on the other are reached. `pool_liveness` puts all three on one
isolate, where what they wait for is each other. Two consumers are enough for every
interference on a generator, since its state tells only "me" and "another" apart; three yields
let a value be lost between two others. Three receivers on a queue of two give
a sleeper beside two woken ones, which is what a lost wake-up needs; two senders with two values
each can both sleep on a full queue. Two tasks and the program give a result that holds a handle on
another task, a task that races and is dropped while it does, and a race with a loser. In `workflow`, two crashes let a resume be
interrupted and resumed again; one fault is a failed append, synchronisation, commit or activity at any place; new code that begins with other effects and
ends with another activity meets every kind of recorded event at the wrong place; the two bodies of the first flow keep an activity that records for itself apart
from a call that is recovered, and each reads its clock before and after the sleep. In `handler`, two permits and one place in the queue leave a
third caller to overtake or be shed, and two probes let one outlive its period. Two objects and a variant with two slots give self-references, a cycle
of two, a cycle through a payload, doubled edges and a cycle held by a handle. Only `variant_shared` uses
symmetry (of objects and of places); it checks an invariant.

*Fairness.* Weak fairness of what the executor and the OS do by themselves: polling a task that was
woken or aborted, scheduling a thread, firing a timer, returning from a join whose thread has
ended. Nothing is assumed of the program's own calls, closes and drops, of deaths, or of
bodies that hang. In `WorkerStream` and `WorkerActor` a step of a body completes unless it is
`CallerBound`. `SharedFuture` assumes strong fairness of a body's end: a body that does not hang
does not go round for ever. `Generator` assumes the same of a body that is resumed: it comes to a yield or to its end, and does not await
for ever. `Workflow` assumes that each flow goes on while it can, that an activity
returns or fails, and that whoever ran a workflow resumes it after a crash (weak fairness of `Step`); crashes, faults and new code are not fair.
`Handler` assumes that time passes, that callers call again, that woken tasks are polled, and that a
*healthy* function returns; `AdmittedAreAnswered` therefore holds for functions that hang. A sweep is a call that
runs to its end (`CycleCollector`).

## What the models disagree with

One run is refuted by TLC; `PROJECT.json` quotes the lines under `findings`.

`variant_shared`: tracing looks through an `Rc<EnumVariant>` to its payload once for each owner
(`value.rs:3124`), but the payload has a single count, the variant's. Take a variant whose payload holds an
object that holds the variant, and let the program hold the variant too: the object's report of the payload uses up its only count, the
sweep finds payload and object unreachable and drops their contents, and `v.value` is empty for a
program that still has `v`. In the model, as in the code, another two owners inside the heap can make the
count wrap, which only keeps garbage, or fail the assertion at the end of the sweep.
`cycles` shows that this is all: until a sweep meets a variant with two owners, counts are exact and nothing
reachable is taken.

Several passing properties name a condition. Without it TLC finds a counterexample, which is what the code
does:

* `MirrorSound` counts the failed loads: when two worker fns use one helper, the second slice raises
  "already defined" on the isolate that has the first (`vm/run.rs:4997`), the mirror of `pool.rs:248` says it is loaded,
  and every later call of it there panics. `pool.rs:135` calls the mirror "a pure mirror of that cache"; it is the cache and what failed to load.
* `InflightExact` counts the calls that were dropped before the first poll of their bridge: the guard is built inside the spawned
  task (`worker/mod.rs:253`), so that a task aborted before it ran never lowers the counter, though the comment above it says that the
  guard "Prevents inflight-counter drift". The isolate looks busier than it is for good.
* `TeardownReturns` is about a generator that was handed out: when a `worker fn*` fails to build, or its caller
  is cancelled meanwhile, the isolate is joined while `tx` still keeps its loop alive (`stream.rs:158`), and
  the join never returns, though `isolate.rs:290` says "Join cannot deadlock".
* `PermitsKept` counts cancelled holders among those that hold: cancellation inside `withPermit` loses the permit, though `sync.rs:19` promises the
  release "on ALL paths".
* `PermitsKept` bounds the tasks inside only for functions that run to their end when called: a future that `withPermit`'s function returns is not
  driven (`sync.rs:577`), and the function behind it runs on without a permit. `sync.rs:19` and `docs/content/stdlib/async.md:343` say `await fn()`.
* `NilAtEnd` excludes the VM out of turns: a second task's `next()` gets nil from a generator that has not ended,
  which `coro.rs:285` calls "a misuse the surface language cannot express". A body that calls `next()` on its own generator gets
  nil too, with both engines; the property is about consumers.
* `Delivered` and `CloseDropsBody` exclude a body that re-enters its own generator: with the tree-walker its `next()` leaves an input that a later
  yield takes without stopping, so that the value of that yield is lost (`coro.rs:222-233`), in a single task too; its `close()` finds the body taken out, and
  the resume puts it back (`coro.rs:249`, for the VM `coro.rs:318`). With the tree-walker the generator then goes on yielding after its close.
* `ReplayFaithful` and `OneAnswer` exclude flows in `swallowed`: the readers of clock, generator and timer discard the error of an
  append (`workflow.rs:898`, `det.rs:735`). A torn line then swallows the next record, an activity that was
  acknowledged is cut off by the repair and runs again; `det.rs:696` says the error is surfaced to the recording site. The other
  member of `swallowed` is a failed synchronisation of the directory, which `write_log` calls best effort.
* `ReplayFaithful`, `OneAnswer`, `TimersElapse` and `Completes` are about `Regular` flows. An activity that reads the clock or draws from the generator records
  that in the log of its flow before its result (`workflow.rs:965` runs it with the context installed), and the unchanged body then finds a
  non-activity event where it calls the activity: every resume fails with a non-determinism error (`workflow.rs:947`), for ever. `docs/content/stdlib/workflow.md:19` has
  activities wrap "I/O, time, randomness, network", lines 190-194 tell to draw large keys inside one ("then only the derived result, not the raw entropy, enters the event log"), and
  the lint's example of correct code (`check/rules/workflow_determinism.rs:233`) does the same.
* The second way out of `Regular` is `recover` around `ctx.call` (`interp.rs:8426`). The failed call leaves no record, so that a resume meets its
  place in the log with the record of a later effect; and after a failed append the body records on behind the torn line, is acknowledged, and perhaps answers its
  caller; a repair then cuts those records off, and the resume may answer differently. No error was discarded in such a run.
* `TimersElapse` claims the sleep in full for `ctx.now` only. A replayed sleep moves `time.monotonic` by `max(0, wake - now)`, and `now` is the time of the
  resume unless the wall clock was read before (`det.rs:312-316`): two monotonic readings around a sleep may differ by less than the sleep after a crash between
  them. They never go back.
* `ProbesCounted` holds until a probe of an earlier half-open period returns; from then on the count is one too low
  and a probe too many gets in.
* `BulkheadExact` counts dropped requests as holding, and `BreakerRecovers` excludes them: a deadline around the handler that ends
  inside the function takes permit and probe slot away for good.
* The cooldown of a breaker starts at the `now` read before the await (`resilience.rs:840`), so that after a slow failing probe it may
  be over at once; `docs/content/stdlib/resilience.md:65` promises "a fresh cooldown". No property states it.

* `CloseReturns`, `CallsSettle` of actors exclude `Blocked`: `close()` joins on the event loop a
  queued method may need.
* `PermitsKept` excludes `strays`: a stray release while a permit is held lets one task too many in,
  though `sync.rs:546` calls it a no-op.
* `Delivered` (a part of `DeliversAndReleases`) and `NextReturns` exclude the tree-walker out of turns: after a cancelled `next()` a
  yielded value is overwritten (`coro.rs:223`), and a second task's poll replaces the first
  one's waker (`coro.rs:239`).
* `CloseDropsBody` (another part) excludes the VM out of turns: `close()` during a `next()` finds the fiber taken out,
  and it is put back later (`coro.rs:318`). `resume_worker` does the same with a stream's driver
  (`coro.rs:444`), which no property covers.
* `DetachedCompletes` is about detached tasks only: a call whose future is dropped is cancelled, although a
  comment (`interp.rs:7538`) says that the drain lets it run to completion.

## Proofs

Eighteen properties of the runs are theorems, and one fact besides: they hold for every value of the constants that satisfies the
assumption of their module, for any number of crashes, calls, yields or tasks. The assumptions say only what kind of
thing a constant is: counts are natural numbers, sets of tasks whose wake-ups are counted are finite, and names
that play different parts (tasks, the main task, resolvers; consumers and places of a driver; effects and
activities) are different.

| module | theorems |
|---|---|
| `WorkerPoolProofs` | `TypeCorrect`, `HeldOpen`, `NothingLost`, `InflightCounts`, `MirrorsTheCache`, `SureEntriesLoad`, and the refinement `PoolImplementsCalls` |
| `WorkerStreamProofs` | `CreditsKept`, `ValuesInOrder` |
| `WorkerActorProofs` | `MailboxServes` |
| `SyncChannelProofs` | `ChannelCorrect` |
| `SyncSemaphoreProofs` | `NobodyStranded`, `PermitsAddUp` |
| `SharedFutureProofs` | `WaitersAreServed`, and the action property `AbortsAreFinal` |
| `WorkflowProofs` | `ResultsAreOwn`, `ReplayIsFaithful`, `AnswersAgree`, `TimersHold` |
| `NotifyProofs` | no theorem of its own: what the three modules above need of a `Notify` |

Each argument is an inductive invariant: it holds initially, every action keeps it, and it implies the property.
No property is inductive as it stands.

**The pool.** `TypeOK` needs `CurOK` (an isolate has a request in hand exactly while it serves one) and `GrowOK`
(the slots that exist are the ones spawned); `TypeInv` is their conjunction. `HeldIsOpen` and `NoLostCall` follow from `CoreInv`:
a request queued or in hand belongs to a call that was sent to this isolate, is not resolved and has no reply
(`QueueOpen`, `CurOpen`); a job is in at most one place (`HeldOnce`), so that answering the request in hand
answers nothing else; a call's slot and reply agree with its state (`CallOK`); a waiting call
without a reply is held by its slot (`NoneLost`). `InflightExact` is a cardinality: with `CallOK` every step that makes a
call wait, or ends its waiting, adds or removes exactly one element of `Counted(s)` and moves the counter
with it; a drop before the first poll does neither. The refinement needs `RunsInv`: how often a body was started follows from where its request is, so that
`Start` never starts one again. The initial state maps to an initial state of `WorkerCalls`,
and every action to one of its actions or to a stutter.

`MirrorsTheCache` has no hypothesis: slices may share names and raise, and archives may fail. The invariant,
`SliceMirror` and `ArchiveMirror`, relates the mirror to the cache, the failed loads *and the requests on their way*: an entry of the mirror is cached, has failed,
is being loaded, or carried by a request that comes before the first one that needs it. Which entries can fail is `SureEntriesLoad`: never one
whose slice cannot raise and shares no name with another (`SureToLoad`), since the globals of an isolate are all defined by slices that it has begun to load.

**Streams.** `StreamInv` says where the single message between generator and producer is: before the ack
the Init message (`Building`), afterwards at most one credit, of the consumer whose resume holds the driver, or of one that
was cancelled and has taken the driver with it (`Serving`). `produced` and `got` can differ only while that
credit's reply is under way.

**Actors.** `ActorInv`: until the constructor has succeeded there is no call; from then on, unless the thread was lost, the calls
accepted are those served followed by the mailbox (`Serving`), and each call served is answered but the running one (`Answered`).
That close drains is then a fact about an isolate whose mailbox is empty.

**Wake-ups.** `NotifyProofs` reduces "no lost wake-up" to one predicate, `Served(n, T, W, cl, k)`: exactly the tasks `W` are
queued or woken at the Notify `n`, and while one is queued, each of the `k` things waited for is some woken task's to
take. There is a lemma for each operation (register, `notify_one`, `notify_waiters`, consuming a wake-up, dropping a waiter that was woken),
on which both modules rest: `ChannelInv` has one `Served` for values and one for free places, `SemaphoreInv` one for permits.
The hard case is the cancellation of a woken task: its wake-up goes to the next in the queue.
`PermitsAddUp` counts holders, cancelled ones included, in the same way `InflightCounts` counts bridges; those inside are among them when no
function returns a future.

**Futures.** `FutureInv`: whoever waits for a future has a handle on it in its frames (`WaitersHold`), only those who await a future are
in its queue (`QueuesSound`), an empty cell keeps no handle (`CellsFilled`), and what a handle reaches was
called and not cancelled (`HandlesAlive`). `Handles` is a least fixed point (what the roots reach through results), and the
proofs use it only through closure and minimality. The core is `HandlesStep`: whatever a step does, handles only disappear,
but for that of a new call; `AbortIsFinal` is that fact, and with it everything awaited stays alive.

**Workflows.** `ResultsInv`: wherever an event is recorded (in a file or its stable part, in the context installed or in one that a
nested run displaced), and wherever a value was given to a body, a value that belongs to an activity is the number of an execution
of that activity, or 0 where the body recovers from an error of the call; and the execution a body awaits is one of the activity it called. Reading a log keeps this true whatever
is torn or garbage in it (`AppendedOK`, `RepairedOK`, `EventsOfOK`), since lines are lost but never changed; an execution adds to
`ran` and never takes back (`RecordingsGrow` and the lemmas after it).

The other three theorems about workflows share one invariant, `ReplayInv`. None of them is inductive, because a resume throws the run
away and builds its context anew from the log: a promise about what the body is given is a promise about files.
For every flow that is regular, `ReplayInv` says

* of its files (`Durable`): what a resume would read of the file, and of what a loss of power may leave of it, *follows* the body
  (`Follows`: numbered events in the order of its effects, with wall times that are past every sleep between them and monotonic times that do not go back), and the values
  given so far do so too;
* of its context, installed or displaced (`Tracks`): its events follow the body, the body was given those up to the cursor, the wall clock is
  past every sleep among them and the monotonic one past every reading (`InStep`), and the valid part of a group log is a beginning of these events (`FileOf`). Nothing behind a broken
  line can become valid (`Closed`): otherwise a record that is written again after a failed append could revive one
  that a repair would have cut off;
* and, unless an I/O error was discarded, that the promises hold: what must be kept is in the context and in the file (`Honest`, `Promised`), an
  fsync log has nothing unsynchronised, and a completion marker ends a group log and once stable is all that can be left of it (`Synced`).
  An answer given is that of the marker in the file, which is why there is no second one.

A flow that stops being regular leaves the invariant for good (`SpoiledStep`): of its log nothing is claimed but `ResultsInv`, which covers every flow. These theorems cannot be
had without that condition: TLC refutes `ReplayFaithful` for the two ways out of `Regular` that leave the code unchanged, and `OneAnswer` for a recovered error.

`Nested` says that displaced contexts belong to flows inside an activity and that no flow has two, so that a step of one flow
disturbs the context of no other. The lemmas go from files to steps: what an append, torn or whole, does to the valid part of a log
(`Joined`, `Put`, `Part`), what the pump does (`PumpTo`), what a recorded or replayed effect does (`Records`, `Got`), then one
lemma per action. The hard cases are `Kill` and `PowerLoss`, whose files are any of the `Survivors`: what is valid in one is a beginning of
what was valid before, and no shorter than what was promised (`Survives`, `KeptOf`).

Only model-checked: liveness under fairness, which is out of the prover's reach, and the safety properties of `Generator`,
`Handler` and `CycleCollector`. The collector's invariants are about reachability through a heap of any shape, which needs an
induction along paths that the installed provers cannot apply.

## Plan

Written, in this order: the pool with its abstract specification and first proofs; streams; actors; `Notify`
with channels and semaphores; futures; generators; workflows with the determinism context; the handler stack
of std/resilience; the cycle collector.

To come, most important first:

1. Workflows that overlap on one interpreter; Record/Replay hooks of actors and streams; strict replay of traces.
2. The other policies of std/resilience: singleflight and memoize (a leader that fails or is dropped), retry
   against late answers.
3. `RateLimiter` (std/sync), with a clock: the bound per window and around its edge; the timer task.
4. `TaskPool` (`task.pmap`, `preduce`, `pipe`): chunking against a reference definition, failure of one chunk.
5. `HttpDrain`: accept, in-flight requests and shutdown.
6. `CompileCache`: concurrent writers and crashes between write and rename.
7. `Caps`: drops only shrink the set, across isolates.
8. Pure algorithms against a reference: lru, cron, package resolution, code slices.
9. The debugger's hand-over and watch's debounce.

Proofs to come: exact counting of permits and probes in the handler, from the lemmas of `NotifyProofs`;
delivery for generators.

## Not modelled

Most of the repository's 228,000 lines are engines, front end and bindings; the models cover about one line in
sixty. Not planned: lexing, parsing, formatting, type checking and code generation (functions of a source text,
whose small instances say little), bindings to the operating system, to databases and to data formats,
file formats, the language server.
