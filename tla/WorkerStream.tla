---------------------------- MODULE WorkerStream ----------------------------
(***************************************************************************)
(* A `worker fn*` streaming generator: the caller-side driver              *)
(* (worker/stream.rs, GenImpl::Worker in coro.rs), its dedicated isolate   *)
(* (worker/isolate.rs spawn_isolate, stream.rs stream_loop) and the        *)
(* teardown of that isolate by IsolateHandle::drop, which joins its thread *)
(* and blocks the whole caller thread while it does.                       *)
(*                                                                         *)
(* The n-th value the body yields is n.  Consumers are the caller thread's *)
(* tasks that share the generator.                                         *)
(***************************************************************************)
EXTENDS Naturals, Sequences, FiniteSets

CONSTANTS
    Consumers,      \* the tasks that resume the generator
    MaxYields       \* bound: the most values the body yields

NoOne == "no consumer"

ASSUME StreamAssumption ==
    /\ MaxYields \in Nat
    /\ Consumers \cap {"absent", "local", "parked", "dropped", "init", NoOne} = {}

VARIABLES
    caller,     \* caller thread: "free", or "joining" the isolate's thread
    handle,     \* the Value::generator; "failed": it was never handed out
    driver,     \* where the StreamDriver is; a consumer: taken out by its resume
    done,       \* GenImpl::Worker::done
    waiting,    \* the consumers suspended in a resume
    last,       \* what each consumer's last resume returned
    got,        \* history: the values that reached a consumer, in order
    tx,         \* channel: a sender of the demand channel is alive
    mbox,       \* channel: the messages sent and not yet received
    ack,        \* channel: the oneshot of Init
    reply,      \* channel: the oneshot of each consumer's credit
    thread,     \* isolate: where its thread is
    credit,     \* isolate: the consumer whose credit is being served
    over,       \* isolate: the local generator has finished
    produced    \* isolate: the values yielded so far

vars == <<caller, handle, driver, done, waiting, last, got, tx, mbox, ack, reply,
          thread, credit, over, produced>>
channelVars == <<mbox, ack, reply>>
isolateVars == <<thread, credit, over, produced>>
handleVars == <<handle, driver, done, waiting, last, got>>

Init ==
    /\ caller = "free"
    /\ handle = "none"
    /\ driver = "absent"
    /\ done = FALSE
    /\ waiting = {}
    /\ last = [c \in Consumers |-> "none"]
    /\ got = <<>>
    /\ tx = FALSE
    /\ mbox = <<>>
    /\ ack = "none"
    /\ reply = [c \in Consumers |-> "none"]
    /\ thread = "absent"
    /\ credit = NoOne
    /\ over = FALSE
    /\ produced = 0

-----------------------------------------------------------------------------
(* The caller thread: StreamDriver::spawn and IsolateHandle::drop.         *)

\* The thread is started and Init is sent to it.
Spawn ==
    /\ caller = "free"
    /\ handle = "none"
    /\ handle' = "spawning"
    /\ driver' = "local"
    /\ tx' = TRUE
    /\ mbox' = <<"init">>
    /\ thread' = "boot"
    /\ UNCHANGED <<caller, done, waiting, last, got, ack, reply, credit, over, produced>>

\* The sendability gate, the slice or the thread could not be had.
SpawnFails ==
    /\ caller = "free"
    /\ handle = "none"
    /\ handle' = "failed"
    /\ UNCHANGED <<caller, driver, done, waiting, last, got, tx, channelVars, isolateVars>>

SpawnAcked ==
    /\ caller = "free"
    /\ handle = "spawning"
    /\ ack = "ack"
    /\ handle' = "live"
    /\ driver' = "parked"
    /\ UNCHANGED <<caller, done, waiting, last, got, tx, channelVars, isolateVars>>

\* The locals of `spawn` are dropped in reverse order: the isolate's handle,
\* which joins, and only then the demand channel's sender.
DropSpawnLocals ==
    /\ driver' = "dropped"
    /\ caller' = "joining"
    /\ UNCHANGED tx

SpawnRefused ==
    /\ caller = "free"
    /\ handle = "spawning"
    /\ ack \in {"panic", "closed"}
    /\ handle' = "failed"
    /\ DropSpawnLocals
    /\ UNCHANGED <<done, waiting, last, got, channelVars, isolateVars>>

\* The calling task is cancelled at the await of the ack.
AbandonSpawn ==
    /\ caller = "free"
    /\ handle = "spawning"
    /\ handle' = "failed"
    /\ DropSpawnLocals
    /\ UNCHANGED <<done, waiting, last, got, channelVars, isolateVars>>

\* Mutant of DropDriver: the fields are dropped in the order of the locals of `spawn`.
DropDriverIsolateFirst ==
    /\ driver' = "dropped"
    /\ caller' = "joining"
    /\ UNCHANGED tx

\* A StreamDriver's fields are dropped in declaration order: the sender, and
\* then the isolate's handle, which joins.
DropDriver ==
    /\ driver' = "dropped"
    /\ tx' = FALSE
    /\ caller' = "joining"

\* JoinHandle::join returns; the locals of a failed `spawn` are gone as well.
Joined ==
    /\ caller = "joining"
    /\ thread = "ended"
    /\ caller' = "free"
    /\ tx' = FALSE
    /\ UNCHANGED <<handleVars, channelVars, isolateVars>>

-----------------------------------------------------------------------------
(* The caller thread: GeneratorHandle::resume, close and drop.             *)

Returns(c, r) == last' = [last EXCEPT ![c] = r]

\* done is set, or the driver is not in its cell: Ok(None), no credit is sent.
ResumeSentinel(c) ==
    /\ caller = "free"
    /\ handle = "live"
    /\ c \notin waiting
    /\ done \/ driver # "parked"
    /\ Returns(c, "done")
    /\ UNCHANGED <<caller, handle, driver, done, waiting, got, tx, channelVars, isolateVars>>

\* GenImpl::Worker::started: some resume has been made.
Started == waiting # {} \/ \E c \in Consumers : last[c] # "none"

\* The injected value is not sendable: a panic, before the driver is taken.
\* The first resume injects nil, whatever it is given.
ResumeUnsendable(c) ==
    /\ caller = "free"
    /\ handle = "live"
    /\ c \notin waiting
    /\ ~done
    /\ Started
    /\ Returns(c, "panic")
    /\ UNCHANGED <<caller, handle, driver, done, waiting, got, tx, channelVars, isolateVars>>

\* Mutant of ResumeSends: the driver is shared, not taken out.
ResumeShares(c) ==
    /\ caller = "free"
    /\ handle = "live"
    /\ c \notin waiting
    /\ ~done
    /\ driver = "parked"
    /\ thread # "ended"
    /\ waiting' = waiting \union {c}
    /\ reply' = [reply EXCEPT ![c] = "none"]
    /\ mbox' = Append(mbox, c)
    /\ UNCHANGED <<caller, driver, handle, done, last, got, tx, ack, isolateVars>>

\* The driver is taken out and one credit is sent.
ResumeSends(c) ==
    /\ caller = "free"
    /\ handle = "live"
    /\ c \notin waiting
    /\ ~done
    /\ driver = "parked"
    /\ thread # "ended"
    /\ driver' = c
    /\ waiting' = waiting \union {c}
    /\ reply' = [reply EXCEPT ![c] = "none"]
    /\ mbox' = Append(mbox, c)
    /\ UNCHANGED <<caller, handle, done, last, got, tx, ack, isolateVars>>

\* The isolate is gone: the credit cannot be sent, the stream is over.
ResumeUnsent(c) ==
    /\ caller = "free"
    /\ handle = "live"
    /\ c \notin waiting
    /\ ~done
    /\ driver = "parked"
    /\ thread = "ended"
    /\ Returns(c, "done")
    /\ done' = TRUE
    /\ DropDriver
    /\ UNCHANGED <<handle, waiting, got, channelVars, isolateVars>>

\* Mutant of ResumeYields: the reply is not consumed.
ResumeYieldsAgain(c) ==
    /\ caller = "free"
    /\ c \in waiting
    /\ reply[c] = "yielded"
    /\ driver' = "parked"
    /\ \E r \in {"value", "panic"} : Returns(c, r)
    /\ got' = Append(got, produced)
    /\ UNCHANGED <<caller, handle, done, waiting, tx, channelVars, isolateVars>>

\* A yielded value: the driver goes back to its cell before the value is
\* decoded, so a value that does not decode surfaces as a panic in its place.
ResumeYields(c) ==
    /\ caller = "free"
    /\ c \in waiting
    /\ reply[c] = "yielded"
    /\ waiting' = waiting \ {c}
    /\ driver' = "parked"
    /\ \E r \in {"value", "panic"} : Returns(c, r)
    /\ got' = Append(got, produced)
    /\ UNCHANGED <<caller, handle, done, tx, channelVars, isolateVars>>

\* Done, a panic, or a dropped reply: the driver is dropped.
ResumeEnds(c) ==
    /\ caller = "free"
    /\ c \in waiting
    /\ reply[c] \in {"done", "panic", "closed"}
    /\ waiting' = waiting \ {c}
    /\ Returns(c, IF reply[c] = "panic" THEN "panic" ELSE "done")
    /\ done' = TRUE
    /\ DropDriver
    /\ UNCHANGED <<handle, got, channelVars, isolateVars>>

\* The consumer is cancelled at its await: the driver it holds is dropped.
CancelResume(c) ==
    /\ caller = "free"
    /\ c \in waiting
    /\ waiting' = waiting \ {c}
    /\ Returns(c, "cancelled")
    /\ DropDriver
    /\ UNCHANGED <<handle, done, got, channelVars, isolateVars>>

DropIfParked ==
    IF driver = "parked" THEN DropDriver ELSE UNCHANGED <<driver, tx, caller>>

Close ==
    /\ caller = "free"
    /\ handle = "live"
    /\ done' = TRUE
    /\ DropIfParked
    /\ UNCHANGED <<handle, waiting, last, got, channelVars, isolateVars>>

\* The last reference to the generator goes away; a running resume holds one.
DropHandle ==
    /\ caller = "free"
    /\ handle = "live"
    /\ waiting = {}
    /\ handle' = "gone"
    /\ DropIfParked
    /\ UNCHANGED <<done, waiting, last, got, channelVars, isolateVars>>

-----------------------------------------------------------------------------
(* The isolate's thread.                                                   *)

\* The runtime, the Interp and the Vm are built.
Boot ==
    /\ thread = "boot"
    /\ thread' = "recv"
    /\ UNCHANGED <<caller, handleVars, tx, channelVars, credit, over, produced>>

\* The thread ends: the messages it never answered are dropped, and with them
\* the senders of their replies.  Either no runtime could be built, or the
\* thread panicked.
ThreadLost ==
    /\ thread \in {"boot", "recv", "init", "step"}
    /\ thread' = "ended"
    /\ ack' = IF ack = "none" THEN "closed" ELSE ack
    /\ reply' = [c \in Consumers |->
                    IF c = credit \/ (\E i \in 1..Len(mbox) : mbox[i] = c)
                    THEN "closed" ELSE reply[c]]
    /\ mbox' = <<>>
    /\ credit' = NoOne
    /\ UNCHANGED <<caller, handleVars, tx, over, produced>>

Receive ==
    /\ thread = "recv"
    /\ mbox # <<>>
    /\ mbox' = Tail(mbox)
    /\ IF Head(mbox) = "init"
       THEN thread' = "init" /\ UNCHANGED credit
       ELSE thread' = "step" /\ credit' = Head(mbox)
    /\ UNCHANGED <<caller, handleVars, tx, ack, reply, over, produced>>

\* build_producer: the archive, the slice, the arguments and the entry's call.
InitBuilds ==
    /\ thread = "init"
    /\ thread' = "recv"
    /\ ack' = "ack"
    /\ UNCHANGED <<caller, handleVars, tx, mbox, reply, credit, over, produced>>

\* The loop goes on: it is the caller that is to close the channel.
InitFails ==
    /\ thread = "init"
    /\ thread' = "recv"
    /\ ack' = "panic"
    /\ UNCHANGED <<caller, handleVars, tx, mbox, reply, credit, over, produced>>

StepReplies(r) ==
    /\ reply' = [reply EXCEPT ![credit] = r]
    /\ credit' = NoOne
    /\ thread' = "recv"
    /\ UNCHANGED <<caller, handleVars, tx, mbox, ack>>

\* resume_producer: one step of the body, to its next yield.
StepYields ==
    /\ thread = "step"
    /\ ~over
    /\ produced < MaxYields
    /\ produced' = produced + 1
    /\ StepReplies("yielded")
    /\ UNCHANGED over

\* The yielded value is not sendable; the body has advanced all the same.
StepUnsendable ==
    /\ thread = "step"
    /\ ~over
    /\ produced < MaxYields
    /\ produced' = produced + 1
    /\ StepReplies("panic")
    /\ UNCHANGED over

\* The body returns or propagates.
StepDone ==
    /\ thread = "step"
    /\ over' = TRUE
    /\ StepReplies("done")
    /\ UNCHANGED produced

\* The body panics, or the injected value does not decode.
StepPanics ==
    /\ thread = "step"
    /\ ~over
    /\ over' \in BOOLEAN
    /\ StepReplies("panic")
    /\ UNCHANGED produced

\* recv() yields None once every sender is gone and the channel is empty.
LoopEnds ==
    /\ thread = "recv"
    /\ mbox = <<>>
    /\ ~tx
    /\ thread' = "ended"
    /\ UNCHANGED <<caller, handleVars, tx, channelVars, credit, over, produced>>

-----------------------------------------------------------------------------
Caller ==
    \/ SpawnAcked
    \/ SpawnRefused
    \/ Joined
    \/ \E c \in Consumers : ResumeYields(c) \/ ResumeEnds(c)

Program ==
    \/ Spawn
    \/ SpawnFails
    \/ AbandonSpawn
    \/ Close
    \/ DropHandle
    \/ \E c \in Consumers :
          ResumeSentinel(c) \/ ResumeUnsendable(c) \/ ResumeSends(c)
             \/ ResumeUnsent(c) \/ CancelResume(c)

Isolate ==
    \/ Boot
    \/ Receive
    \/ InitBuilds
    \/ InitFails
    \/ StepYields
    \/ StepUnsendable
    \/ StepDone
    \/ StepPanics
    \/ LoopEnds

Next == Caller \/ Program \/ Isolate \/ ThreadLost

Spec == Init /\ [][Next]_vars

\* The executor polls its ready tasks, join returns once the thread has ended,
\* the OS schedules the isolate and every step of the body completes.  Nothing
\* is assumed of the program's own calls.
FairSpec == Spec /\ WF_vars(Caller) /\ WF_vars(Isolate)

-----------------------------------------------------------------------------
(* Properties.                                                             *)

\* Every variable has its type.
TypeOK ==
    /\ caller \in {"free", "joining"}
    /\ handle \in {"none", "spawning", "live", "failed", "gone"}
    /\ driver \in {"absent", "local", "parked", "dropped"} \union Consumers
    /\ done \in BOOLEAN
    /\ waiting \subseteq Consumers
    /\ last \in [Consumers -> {"none", "value", "done", "panic", "cancelled"}]
    /\ got \in Seq(1..MaxYields)
    /\ tx \in BOOLEAN
    /\ mbox \in Seq(Consumers \union {"init"})
    /\ ack \in {"none", "ack", "panic", "closed"}
    /\ reply \in [Consumers -> {"none", "yielded", "done", "panic", "closed"}]
    /\ thread \in {"absent", "boot", "recv", "init", "step", "ended"}
    /\ credit \in Consumers \union {NoOne}
    /\ over \in BOOLEAN
    /\ produced \in 0..MaxYields

\* stream.rs: "it runs at most ONE step ahead of demand".  There is at most one
\* credit under way, and the body has yielded at most one value that has not
\* been handed to a consumer.
StrictPull ==
    /\ produced <= Len(got) + 1
    /\ Len(mbox) + (IF thread \in {"init", "step"} THEN 1 ELSE 0) <= 1

\* Every value the body yields is handed out once and in order: there is no
\* gap before the last value handed out, whichever consumer took each.
YieldsInOrder == \A i \in 1..Len(got) : got[i] = i

\* A credit is never sent or served unless the producer has been built, so
\* stream_loop's "demand credit before initialization" reply is never made.
CreditAfterBuild == thread = "step" \/ waiting # {} => ack = "ack"

\* The protocol between a generator and its producer: one credit at a time, none
\* before the producer is built.
CreditsSound == TypeOK /\ StrictPull /\ CreditAfterBuild

\* IsolateHandle::drop: "Join cannot deadlock".  It holds of a generator that
\* was handed out: it may be closed, dropped, cancelled or exhausted at any
\* moment, and the join that follows returns.  (When the producer fails to build
\* the caller joins an isolate whose channel it still holds open.)
TeardownReturns ==
    (caller = "joining" /\ handle \in {"live", "gone"}) ~> (caller = "free")
=============================================================================
