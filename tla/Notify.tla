------------------------------- MODULE Notify -------------------------------
(***************************************************************************)
(* tokio::sync::Notify, as std/sync, task.rs and the event loop use it.    *)
(* A Notify is a record: the stored permit, the waiters in FIFO order, and *)
(* the tasks whose wait is over but that have not run yet, apart by whether*)
(* notify_one (`one`) or notify_waiters (`all`) ended it.                  *)
(***************************************************************************)
EXTENDS Naturals, Sequences, FiniteSets

NewNotify == [permit |-> FALSE, waiters |-> <<>>, one |-> {}, all |-> {}]

NotifyType(Tasks) ==
    [permit : BOOLEAN, waiters : Seq(Tasks), one : SUBSET Tasks, all : SUBSET Tasks]

Waiting(n) == {n.waiters[i] : i \in 1..Len(n.waiters)}
Woken(n) == n.one \union n.all

\* notify_one: the oldest waiter is woken, or else the permit is stored.
NotifyOne(n) ==
    IF n.waiters = <<>>
    THEN [n EXCEPT !.permit = TRUE]
    ELSE [n EXCEPT !.waiters = Tail(@), !.one = @ \union {Head(n.waiters)}]

\* notify_waiters: every waiter is woken; no permit is stored.
NotifyWaiters(n) ==
    [n EXCEPT !.waiters = <<>>, !.all = @ \union Waiting(n)]

\* A task whose condition does not hold waits.  A stored permit only makes it
\* go round its loop once more, in the same poll: it is used up and the task
\* waits all the same.
Park(n, t) == [n EXCEPT !.permit = FALSE, !.waiters = Append(@, t)]

\* A woken task runs.
Resumed(n, t) == [n EXCEPT !.one = @ \ {t}, !.all = @ \ {t}]

\* The queue s without t, which is in it once at most.
Without(s, t) ==
    IF \A i \in 1..Len(s) : s[i] # t THEN s
    ELSE LET k == CHOOSE i \in 1..Len(s) : s[i] = t
         IN  [i \in 1..Len(s) - 1 |-> IF i < k THEN s[i] ELSE s[i + 1]]

\* A task is cancelled while it waits or before it runs: a wake-up by
\* notify_one is passed on.
Withdraw(n, t) ==
    LET left == [n EXCEPT !.waiters = Without(@, t), !.one = @ \ {t}, !.all = @ \ {t}]
    IN  IF t \in n.one THEN NotifyOne(left) ELSE left
=============================================================================
