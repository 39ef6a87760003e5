----------------------------- MODULE SyncChannel -----------------------------
(***************************************************************************)
(* std/sync channels (stdlib/sync.rs): a FIFO queue shared by the tasks of *)
(* one thread, with two Notifys for the tasks that wait.  A task runs from *)
(* one await to the next without interruption, so an operation is one step *)
(* up to the point where it waits, and one step each time it is woken.     *)
(***************************************************************************)
EXTENDS Notify

CONSTANTS
    Senders,        \* the tasks that call sync.send
    Receivers,      \* the tasks that call sync.recv and sync.tryRecv
    Capacity,       \* the channel's capacity; 0 is unbounded
    MaxSends        \* bound: the values each sender sends

ASSUME ChannelAssumption ==
    /\ Capacity \in Nat
    /\ MaxSends \in Nat
    /\ Senders \cap Receivers = {}
    /\ IsFiniteSet(Senders) /\ IsFiniteSet(Receivers)

Tasks == Senders \union Receivers

VARIABLES
    queue,          \* ChannelQueue::queue
    closed,         \* ChannelQueue::closed
    not_empty,      \* wakes receivers
    not_full,       \* wakes senders
    st,             \* what each task is doing
    sends,          \* the values each sender has had accepted or refused
    pushed,         \* history: the values pushed, in order
    popped          \* history: the values popped, in order

vars == <<queue, closed, not_empty, not_full, st, sends, pushed, popped>>

Values == Senders \X (1..MaxSends)
Full == Capacity > 0 /\ Len(queue) >= Capacity

Init ==
    /\ queue = <<>>
    /\ closed = FALSE
    /\ not_empty = NewNotify
    /\ not_full = NewNotify
    /\ st = [t \in Tasks |-> "idle"]
    /\ sends = [s \in Senders |-> 0]
    /\ pushed = <<>>
    /\ popped = <<>>

-----------------------------------------------------------------------------
(* sync.send.  A sender is at its loop's head when it calls it, and again  *)
(* when it has been woken.                                                 *)

AtSend(s) ==
    \/ st[s] = "idle" /\ sends[s] < MaxSends
    \/ st[s] = "waiting" /\ s \in Woken(not_full)

\* Mutant of SendClosed: the channel is found closed on the first round only.
SendClosedAtOnce(s) ==
    /\ st[s] = "idle" /\ sends[s] < MaxSends
    /\ closed
    /\ sends' = [sends EXCEPT ![s] = @ + 1]
    /\ UNCHANGED <<queue, closed, not_empty, not_full, st, pushed, popped>>

SendClosed(s) ==
    /\ AtSend(s)
    /\ closed
    /\ st' = [st EXCEPT ![s] = "idle"]
    /\ sends' = [sends EXCEPT ![s] = @ + 1]
    /\ not_full' = Resumed(not_full, s)
    /\ UNCHANGED <<queue, closed, not_empty, pushed, popped>>

SendWaits(s) ==
    /\ AtSend(s)
    /\ ~closed
    /\ Full
    /\ st' = [st EXCEPT ![s] = "waiting"]
    /\ not_full' = Park(Resumed(not_full, s), s)
    /\ UNCHANGED <<queue, closed, not_empty, sends, pushed, popped>>

SendPushes(s) ==
    /\ AtSend(s)
    /\ ~closed
    /\ ~Full
    /\ st' = [st EXCEPT ![s] = "idle"]
    /\ sends' = [sends EXCEPT ![s] = @ + 1]
    /\ queue' = Append(queue, <<s, sends[s] + 1>>)
    /\ pushed' = Append(pushed, <<s, sends[s] + 1>>)
    /\ not_empty' = NotifyOne(not_empty)
    /\ not_full' = Resumed(not_full, s)
    /\ UNCHANGED <<closed, popped>>

-----------------------------------------------------------------------------
(* sync.recv and sync.tryRecv.                                             *)

AtRecv(r) ==
    \/ st[r] = "idle"
    \/ st[r] = "waiting" /\ r \in Woken(not_empty)

\* Mutant of RecvPops: no sender is woken.
RecvPopsSilently(r) ==
    /\ AtRecv(r)
    /\ queue # <<>>
    /\ queue' = Tail(queue)
    /\ popped' = Append(popped, Head(queue))
    /\ st' = [st EXCEPT ![r] = "idle"]
    /\ not_empty' = Resumed(not_empty, r)
    /\ UNCHANGED <<closed, not_full, sends, pushed>>

\* Mutant of RecvPops: the queue is looked at on the first round only.
RecvPopsAtOnce(r) ==
    /\ st[r] = "idle"
    /\ queue # <<>>
    /\ queue' = Tail(queue)
    /\ popped' = Append(popped, Head(queue))
    /\ not_full' = NotifyOne(not_full)
    /\ UNCHANGED <<closed, not_empty, st, sends, pushed>>

RecvPops(r) ==
    /\ AtRecv(r)
    /\ queue # <<>>
    /\ queue' = Tail(queue)
    /\ popped' = Append(popped, Head(queue))
    /\ st' = [st EXCEPT ![r] = "idle"]
    /\ not_empty' = Resumed(not_empty, r)
    /\ not_full' = NotifyOne(not_full)
    /\ UNCHANGED <<closed, sends, pushed>>

\* recv returns nil.
RecvClosed(r) ==
    /\ AtRecv(r)
    /\ queue = <<>>
    /\ closed
    /\ st' = [st EXCEPT ![r] = "done"]
    /\ not_empty' = Resumed(not_empty, r)
    /\ UNCHANGED <<queue, closed, not_full, sends, pushed, popped>>

RecvWaits(r) ==
    /\ AtRecv(r)
    /\ queue = <<>>
    /\ ~closed
    /\ st' = [st EXCEPT ![r] = "waiting"]
    /\ not_empty' = Park(Resumed(not_empty, r), r)
    /\ UNCHANGED <<queue, closed, not_full, sends, pushed, popped>>

\* tryRecv on an empty channel changes nothing.
TryRecvPops(r) ==
    /\ st[r] = "idle"
    /\ queue # <<>>
    /\ queue' = Tail(queue)
    /\ popped' = Append(popped, Head(queue))
    /\ not_full' = NotifyOne(not_full)
    /\ UNCHANGED <<closed, not_empty, st, sends, pushed>>

Close ==
    /\ closed' = TRUE
    /\ not_empty' = NotifyWaiters(not_empty)
    /\ not_full' = NotifyWaiters(not_full)
    /\ UNCHANGED <<queue, st, sends, pushed, popped>>

\* The waiting task is cancelled (its future is dropped).
Cancel(t) ==
    /\ st[t] = "waiting"
    /\ st' = [st EXCEPT ![t] = "done"]
    /\ not_empty' = Withdraw(not_empty, t)
    /\ not_full' = Withdraw(not_full, t)
    /\ UNCHANGED <<queue, closed, sends, pushed, popped>>

-----------------------------------------------------------------------------
Send(s) == SendClosed(s) \/ SendWaits(s) \/ SendPushes(s)
Recv(r) == RecvPops(r) \/ RecvClosed(r) \/ RecvWaits(r)

Next ==
    \/ \E s \in Senders : Send(s)
    \/ \E r \in Receivers : Recv(r) \/ TryRecvPops(r)
    \/ \E t \in Tasks : Cancel(t)
    \/ Close

Spec == Init /\ [][Next]_vars

\* The executor runs every task that has been woken.  Nobody is obliged to
\* call send or recv.
Fairness ==
    /\ \A s \in Senders : WF_vars(st[s] = "waiting" /\ Send(s))
    /\ \A r \in Receivers : WF_vars(st[r] = "waiting" /\ Recv(r))

FairSpec == Spec /\ Fairness

-----------------------------------------------------------------------------
(* Properties.                                                             *)

\* Every variable has its type, and a bounded channel never holds more than its
\* capacity, however many senders are woken at once (the re-check of sync_send's
\* loop).
TypeOK ==
    /\ queue \in Seq(Values)
    /\ Capacity > 0 => Len(queue) <= Capacity
    /\ closed \in BOOLEAN
    /\ not_empty \in NotifyType(Receivers)
    /\ not_full \in NotifyType(Senders)
    /\ st \in [Tasks -> {"idle", "waiting", "done"}]
    /\ sends \in [Senders -> 0..MaxSends]
    /\ pushed \in Seq(Values)
    /\ popped \in Seq(Values)

\* Values leave the channel in the order they entered it, each once, whatever
\* mixture of recv and tryRecv takes them.
FifoQueue == pushed = popped \o queue

\* No lost wake-up (the "lost-wakeup avoidance" of sync_recv and sync_send):
\* while a receiver sleeps, every queued value is some woken receiver's to take,
\* and while a sender sleeps, every free place is some woken sender's to fill.
\* A cancelled task hands its wake-up on.
NobodyStranded ==
    /\ Waiting(not_empty) # {} =>
          ~closed /\ Len(queue) <= Cardinality(Woken(not_empty))
    /\ Waiting(not_full) # {} =>
          ~closed /\ Capacity - Len(queue) <= Cardinality(Woken(not_full))

\* The channel is a bounded queue on which no wake-up is lost.
ChannelSound == TypeOK /\ FifoQueue /\ NobodyStranded

\* Nobody waits for ever on a channel that could serve them: a value does not
\* stay queued while a receiver waits for one.
ValuesReachReceivers ==
    \A v \in Values :
        (\E i \in 1..Len(queue) : queue[i] = v)
          ~> \/ ~\E i \in 1..Len(queue) : queue[i] = v
             \/ \A r \in Receivers : st[r] # "waiting"

\* Closing the channel releases every task that waits on it.
CloseReleases == closed ~> \A t \in Tasks : st[t] # "waiting"
=============================================================================
