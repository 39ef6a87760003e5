---------------------------- MODULE WorkerActor ----------------------------
(***************************************************************************)
(* A `worker class` actor: spawning it, calling its methods and closing it *)
(* on the caller thread (interp.rs spawn_actor, actor_handle_call), its    *)
(* mailbox loop on a dedicated isolate (worker/actor.rs actor_loop), and   *)
(* the teardown by IsolateHandle::drop, which joins the isolate's thread   *)
(* and blocks the whole caller thread while it does.                       *)
(***************************************************************************)
EXTENDS Naturals, Sequences, FiniteSets, SequencesExt

CONSTANTS
    Calls,          \* the method calls the program makes
    CallerBound     \* the calls whose method waits for something the caller's
                    \* event loop does (a request it serves, a message it sends)

NoCall == "no call"
InitMsg == "init"

ASSUME ActorAssumption ==
    /\ CallerBound \subseteq Calls
    /\ {NoCall, InitMsg} \cap Calls = {}

VARIABLES
    caller,     \* caller thread: "free", or "joining" the isolate's thread
    actor,      \* caller: the future that spawn() returned
    resource,   \* caller: the resources table holds the WorkerActorHandle
    call,       \* caller: where each method call is
    outcome,    \* caller: what the call's future was resolved with
    sent,       \* history: the calls accepted, in order
    mbox,       \* channel: the messages sent and not yet received
    ack,        \* channel: the oneshot of Init
    reply,      \* channel: the oneshot of each call
    thread,     \* isolate: where its thread is
    cur,        \* isolate: the call being run
    instance,   \* isolate: the instance has been constructed
    served,     \* history: the calls whose method was run, in order
    lost        \* history: the thread ended other than by its channel's closing

vars == <<caller, actor, resource, call, outcome, sent, mbox, ack, reply,
          thread, cur, instance, served, lost>>
programVars == <<actor, resource, call, outcome, sent>>
isolateVars == <<thread, cur, instance, served, lost>>

Init ==
    /\ caller = "free"
    /\ actor = "none"
    /\ resource = FALSE
    /\ call = [c \in Calls |-> "idle"]
    /\ outcome = [c \in Calls |-> "none"]
    /\ sent = <<>>
    /\ mbox = <<>>
    /\ ack = "none"
    /\ reply = [c \in Calls |-> "none"]
    /\ thread = "absent"
    /\ cur = NoCall
    /\ instance = FALSE
    /\ served = <<>>
    /\ lost = FALSE

-----------------------------------------------------------------------------
(* The caller thread.                                                      *)

\* The isolate is spawned, Init is sent and the handle is registered.
Spawn ==
    /\ caller = "free"
    /\ actor = "none"
    /\ actor' = "spawning"
    /\ resource' = TRUE
    /\ mbox' = <<InitMsg>>
    /\ thread' = "boot"
    /\ UNCHANGED <<caller, call, outcome, sent, ack, reply, cur, instance, served, lost>>

\* Refused under a trace, arguments that cannot be sent, no slice or no thread.
SpawnFails ==
    /\ caller = "free"
    /\ actor = "none"
    /\ actor' = "failed"
    /\ UNCHANGED <<caller, resource, call, outcome, sent, mbox, ack, reply, isolateVars>>

\* The bridge of Init resolves the future with the handle, or with a panic.
\* The handle stays in the resources table either way.
SpawnBridge ==
    /\ caller = "free"
    /\ actor = "spawning"
    /\ ack # "none"
    /\ actor' = IF ack = "ok" THEN "live" ELSE "failed"
    /\ UNCHANGED <<caller, resource, call, outcome, sent, mbox, ack, reply, isolateVars>>

\* The spawn future is dropped: its bridge is aborted, the handle stays.
DropSpawn ==
    /\ caller = "free"
    /\ actor = "spawning"
    /\ actor' = "abandoned"
    /\ UNCHANGED <<caller, resource, call, outcome, sent, mbox, ack, reply, isolateVars>>

\* The arguments cannot be sent, the actor is closed, or its thread has ended.
CallRefused(c) ==
    /\ caller = "free"
    /\ actor = "live"
    /\ call[c] = "idle"
    /\ call' = [call EXCEPT ![c] = "refused"]
    /\ UNCHANGED <<caller, actor, resource, outcome, sent, mbox, ack, reply, isolateVars>>

CallSent(c) ==
    /\ caller = "free"
    /\ actor = "live"
    /\ call[c] = "idle"
    /\ resource
    /\ thread # "ended"
    /\ call' = [call EXCEPT ![c] = "pending"]
    /\ mbox' = Append(mbox, c)
    /\ sent' = Append(sent, c)
    /\ UNCHANGED <<caller, actor, resource, outcome, ack, reply, isolateVars>>

\* Mutant of CallBridge: a dropped reply sender is not noticed.
CallBridgeMissesClosed(c) ==
    /\ caller = "free"
    /\ call[c] = "pending"
    /\ reply[c] \notin {"none", "closed"}
    /\ call' = [call EXCEPT ![c] = "resolved"]
    /\ \E o \in {"ok", "panic"} :
          /\ (o = "ok") => (reply[c] = "ok")
          /\ outcome' = [outcome EXCEPT ![c] = o]
    /\ UNCHANGED <<caller, actor, resource, sent, mbox, ack, reply, isolateVars>>

\* The reply, or "actor is closed" when its sender was dropped; an Ok reply
\* that does not decode here is a panic.
CallBridge(c) ==
    /\ caller = "free"
    /\ call[c] = "pending"
    /\ reply[c] # "none"
    /\ call' = [call EXCEPT ![c] = "resolved"]
    /\ \E o \in {"ok", "panic"} :
          /\ (o = "ok") => (reply[c] = "ok")
          /\ outcome' = [outcome EXCEPT ![c] = o]
    /\ UNCHANGED <<caller, actor, resource, sent, mbox, ack, reply, isolateVars>>

\* The call's future is dropped: its bridge is aborted; the message stays in
\* the mailbox and its method still runs.
DropCall(c) ==
    /\ caller = "free"
    /\ call[c] = "pending"
    /\ call' = [call EXCEPT ![c] = "dropped"]
    /\ UNCHANGED <<caller, actor, resource, outcome, sent, mbox, ack, reply, isolateVars>>

\* Mutant of Close: the isolate's handle is dropped before the mailbox's sender.
CloseIsolateFirst ==
    /\ caller = "free"
    /\ actor = "live"
    /\ resource
    /\ caller' = "joining"
    /\ UNCHANGED <<programVars, mbox, ack, reply, isolateVars>>

\* close() takes the handle out of the table and drops it: first the mailbox's
\* sender, then the isolate's handle, which joins.  A second close finds nothing.
Close ==
    /\ caller = "free"
    /\ actor = "live"
    /\ resource
    /\ resource' = FALSE
    /\ caller' = "joining"
    /\ UNCHANGED <<actor, call, outcome, sent, mbox, ack, reply, isolateVars>>

Joined ==
    /\ caller = "joining"
    /\ thread = "ended"
    /\ caller' = "free"
    /\ UNCHANGED <<programVars, mbox, ack, reply, isolateVars>>

-----------------------------------------------------------------------------
(* The isolate's thread.                                                   *)

Boot ==
    /\ thread = "boot"
    /\ thread' = "recv"
    /\ UNCHANGED <<caller, programVars, mbox, ack, reply, cur, instance, served, lost>>

\* The thread ends (no runtime, or a Rust panic): what it has not answered is
\* dropped, and with it the senders of the replies.
ThreadLost ==
    /\ thread \in {"boot", "recv", "init", "run"}
    /\ thread' = "ended"
    /\ lost' = TRUE
    /\ ack' = IF ack = "none" THEN "closed" ELSE ack
    /\ reply' = [c \in Calls |-> IF c = cur \/ (\E i \in 1..Len(mbox) : mbox[i] = c)
                                 THEN "closed" ELSE reply[c]]
    /\ mbox' = <<>>
    /\ cur' = NoCall
    /\ UNCHANGED <<caller, programVars, instance, served>>

\* Mutant of Receive: the newest message is taken.
ReceiveNewest ==
    /\ thread = "recv"
    /\ mbox # <<>>
    /\ mbox' = SubSeq(mbox, 1, Len(mbox) - 1)
    /\ IF mbox[Len(mbox)] = InitMsg
       THEN /\ thread' = "init"
            /\ UNCHANGED <<cur, served>>
       ELSE /\ thread' = "run"
            /\ cur' = mbox[Len(mbox)]
            /\ served' = Append(served, mbox[Len(mbox)])
    /\ UNCHANGED <<caller, programVars, ack, reply, instance, lost>>

Receive ==
    /\ thread = "recv"
    /\ mbox # <<>>
    /\ mbox' = Tail(mbox)
    /\ IF Head(mbox) = InitMsg
       THEN /\ thread' = "init"
            /\ UNCHANGED <<cur, served>>
       ELSE /\ thread' = "run"
            /\ cur' = Head(mbox)
            /\ served' = Append(served, Head(mbox))
    /\ UNCHANGED <<caller, programVars, ack, reply, instance, lost>>

\* The archive, the class slice, the arguments and the constructor.
InitSucceeds ==
    /\ thread = "init"
    /\ thread' = "recv"
    /\ instance' = TRUE
    /\ ack' = "ok"
    /\ UNCHANGED <<caller, programVars, mbox, reply, cur, served, lost>>

InitFails ==
    /\ thread = "init"
    /\ thread' = "recv"
    /\ ack' = "panic"
    /\ UNCHANGED <<caller, programVars, mbox, reply, cur, instance, served, lost>>

\* call_method runs to completion before the next message is taken; a panic
\* of the method leaves the actor running.
MethodReturns ==
    /\ thread = "run"
    /\ cur \in CallerBound => caller = "free"
    /\ \E r \in {"ok", "panic"} : reply' = [reply EXCEPT ![cur] = r]
    /\ thread' = "recv"
    /\ cur' = NoCall
    /\ UNCHANGED <<caller, programVars, mbox, ack, instance, served, lost>>

\* recv() yields None once the sender is gone and the channel is empty.
LoopEnds ==
    /\ thread = "recv"
    /\ mbox = <<>>
    /\ ~resource
    /\ thread' = "ended"
    /\ UNCHANGED <<caller, programVars, mbox, ack, reply, cur, instance, served, lost>>

-----------------------------------------------------------------------------
Caller ==
    \/ SpawnBridge
    \/ Joined
    \/ \E c \in Calls : CallBridge(c)

Program ==
    \/ Spawn
    \/ SpawnFails
    \/ DropSpawn
    \/ Close
    \/ \E c \in Calls : CallRefused(c) \/ CallSent(c) \/ DropCall(c)

Isolate ==
    \/ Boot
    \/ Receive
    \/ InitSucceeds
    \/ InitFails
    \/ MethodReturns
    \/ LoopEnds

Next == Caller \/ Program \/ Isolate \/ ThreadLost

Spec == Init /\ [][Next]_vars

\* The executor polls every ready bridge (one per call), a join returns once
\* the thread has ended, and the OS schedules the isolate, whose methods
\* complete when what they wait for happens.
Fairness ==
    /\ WF_vars(SpawnBridge)
    /\ WF_vars(Joined)
    /\ \A c \in Calls : WF_vars(CallBridge(c))
    /\ WF_vars(Isolate)

FairSpec == Spec /\ Fairness

-----------------------------------------------------------------------------
(* Properties.                                                             *)

\* Every variable has its type.
TypeOK ==
    /\ caller \in {"free", "joining"}
    /\ actor \in {"none", "spawning", "live", "failed", "abandoned"}
    /\ resource \in BOOLEAN
    /\ call \in [Calls -> {"idle", "refused", "pending", "resolved", "dropped"}]
    /\ outcome \in [Calls -> {"none", "ok", "panic"}]
    /\ sent \in Seq(Calls)
    /\ mbox \in Seq(Calls \union {InitMsg})
    /\ ack \in {"none", "ok", "panic", "closed"}
    /\ reply \in [Calls -> {"none", "ok", "panic", "closed"}]
    /\ thread \in {"absent", "boot", "recv", "init", "run", "ended"}
    /\ cur \in Calls \union {NoCall}
    /\ instance \in BOOLEAN
    /\ served \in Seq(Calls)
    /\ lost \in BOOLEAN

\* actor.rs: a FIFO mailbox, each message processed to completion before the
\* next.  Methods run in the order their calls were accepted, also the calls
\* whose futures were dropped; only the last one can be unfinished; and none runs
\* before the instance is constructed, so that actor_loop's "before it was
\* initialized" reply is never made.
ServedInOrder ==
    /\ IsPrefix(served, sent)
    /\ \A i \in 1..Len(served) : reply[served[i]] = "none" =>
          i = Len(served) /\ cur = served[i]
    /\ thread = "run" => instance

\* close() lets the mailbox drain: once the thread has ended because its
\* channel was closed, every accepted call has been run and answered.
CloseDrains ==
    thread = "ended" /\ ~lost =>
        served = sent /\ \A i \in 1..Len(sent) : reply[sent[i]] \in {"ok", "panic"}

\* The mailbox: calls run in order, and close() loses none.
MailboxSound == TypeOK /\ ServedInOrder /\ CloseDrains

\* A method that is still to run needs the caller's event loop, which a join
\* has stopped.
Blocked ==
    /\ caller = "joining"
    /\ \E i \in 1..Len(sent) : sent[i] \in CallerBound /\ reply[sent[i]] = "none"

\* Every accepted call is settled, unless the program closes the actor while a
\* method that needs the caller is still to run.
CallsSettle ==
    \A c \in Calls :
        (call[c] = "pending") ~> (call[c] \in {"resolved", "dropped"} \/ Blocked)

\* IsolateHandle::drop, "Join cannot deadlock": the join of close() returns, on
\* the same condition.
CloseReturns == (caller = "joining" /\ ~Blocked) ~> (caller = "free")
=============================================================================
