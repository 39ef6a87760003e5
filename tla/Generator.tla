------------------------------ MODULE Generator ------------------------------
(***************************************************************************)
(* A local generator (coro.rs): tasks of one thread resume it with next(), *)
(* cancel such a call, and close it.  Its two engines keep the suspended   *)
(* body apart: the VM takes the fiber out of its cell for the whole of a   *)
(* resume (GenImpl::Vm); the tree-walker takes the body future out only    *)
(* while it is polled, and passes values through `inp` (GenImpl::Body).    *)
(*                                                                         *)
(* The n-th value the body yields is n.  A step is one poll.               *)
(***************************************************************************)
EXTENDS Naturals, Sequences, FiniteSets

CONSTANTS
    Consumers,  \* the tasks that use the generator
    MaxYields,  \* bound: the most values the body yields
    Uses        \* the engines and the programs to look at

NoOne == "no consumer"

ASSUME GeneratorAssumption ==
    /\ MaxYields \in Nat
    /\ Uses \subseteq [engine : {"vm", "body"}, exclusive : BOOLEAN, cancels : BOOLEAN,
                       reenters : BOOLEAN]
    /\ NoOne \notin Consumers

VARIABLES
    use,        \* the engine, whether the program lets one task use the
                \* generator at a time, whether it cancels a next(), and whether
                \* the body calls next() and close() on its own generator
    place,      \* the fiber or body future: in its cell, taken out, or gone
    at,         \* what the body is suspended at; "ready": its I/O has completed
    inp,        \* GenImpl::Body::inp holds a value
    closed,     \* close() was called
    waiting,    \* the consumers suspended in next()
    woken,      \* the ones whose waker has fired
    waker,      \* the consumer whose waker the body's I/O has
    last,       \* what each consumer's last next() returned
    produced,   \* history: the values yielded so far
    got         \* history: the values handed out

vars == <<use, place, at, inp, closed, waiting, woken, waker, last, produced, got>>

Init ==
    /\ use \in Uses
    /\ place = "cell"
    /\ at = "start"
    /\ inp = FALSE
    /\ closed = FALSE
    /\ waiting = {}
    /\ woken = {}
    /\ waker = NoOne
    /\ last = [c \in Consumers |-> "none"]
    /\ produced = 0
    /\ got = <<>>

May(c) == use.exclusive => waiting \subseteq {c}

-----------------------------------------------------------------------------
(* One poll of the body.                                                   *)

Returns(c, r) ==
    /\ last' = [last EXCEPT ![c] = r]
    /\ waiting' = waiting \ {c}
    /\ woken' = woken \ {c}

Waits(c) ==
    /\ waiting' = waiting \union {c}
    /\ woken' = woken \ {c}
    /\ UNCHANGED last

\* What can become of `inp` in a poll of a body: the yields it goes through
\* without stopping, because `inp` holds a value when it comes to them, and whether
\* a value is left in `inp`.  A value that was there when the poll began is taken by
\* the first yield.  A body that calls next() on its own generator finds itself
\* taken out and gets nil; with the tree-walker the call has deposited its argument
\* in `inp` before that.
Passes(input) ==
    {p \in [n : 0..MaxYields, left : BOOLEAN] :
        IF use.engine = "body" /\ use.reenters
        THEN input => p.n > 0 \/ p.left
        ELSE p.n + (IF p.left THEN 1 ELSE 0) = (IF input THEN 1 ELSE 0)}

\* The body runs on to its next yield at which `inp` is empty, which hands its value
\* out.  The values of the yields it went through before are overwritten.
RunYields(c, p) ==
    LET n == produced + p.n + 1
    IN  /\ ~p.left
        /\ n <= MaxYields
        /\ produced' = n
        /\ got' = Append(got, n)
        /\ at' = "yield"
        /\ inp' = FALSE
        /\ place' = "cell"
        /\ waker' = NoOne
        /\ Returns(c, "value")

\* The body is at an await of its own, which is pending.
Suspends(c, left) ==
    /\ at' = "io"
    /\ inp' = left
    /\ place' = IF use.engine = "vm" THEN "taken" ELSE "cell"
    /\ waker' = c
    /\ Waits(c)
    /\ UNCHANGED <<produced, got>>

\* The body runs on to an await of its own.
RunSuspends(c, p) == p.n = 0 /\ Suspends(c, p.left)

\* As above, after yields that `inp` let it through: the value of the last one is
\* in `out` when the poll is pending.
RunYieldsAndSuspends(c, p) ==
    LET n == produced + p.n
    IN  /\ p.n > 0
        /\ n <= MaxYields
        /\ produced' = n
        /\ got' = Append(got, n)
        /\ at' = "io"
        /\ inp' = p.left
        /\ place' = "cell"
        /\ waker' = c
        /\ Returns(c, "value")

\* The body returns or raises, perhaps after yields it was let through.
RunEnds(c, p) ==
    /\ produced + p.n <= MaxYields
    /\ produced' = produced + p.n
    /\ at' = "over"
    /\ inp' = FALSE
    /\ place' = "gone"
    /\ waker' = NoOne
    /\ \E r \in {"nil", "panic"} : Returns(c, r)
    /\ UNCHANGED got

\* A body that closes its own generator is taken out at that moment: nothing is
\* dropped, and the resume puts it back when it next suspends.
Run(c, input) ==
    /\ \E p \in Passes(input) :
           RunYields(c, p) \/ RunSuspends(c, p) \/ RunYieldsAndSuspends(c, p) \/ RunEnds(c, p)
    /\ closed' \in {closed, closed \/ use.reenters}

\* A body that awaits is polled before what it awaits has completed.
StaysPending(c, input) == Suspends(c, input) /\ UNCHANGED closed

-----------------------------------------------------------------------------
(* next(): resume_vm and resume_body.                                      *)

\* done is set, the fiber is taken out, or the body is gone: nil.
NextNil(c) ==
    /\ c \notin waiting
    /\ May(c)
    /\ place # "cell" \/ (use.engine = "vm" /\ closed)
    /\ Returns(c, "nil")
    /\ UNCHANGED <<use, place, at, inp, closed, waker, produced, got>>

\* Mutant of VmNext: the fiber stays in its cell while it runs.
VmNextShared(c) ==
    /\ use.engine = "vm"
    /\ c \notin waiting
    /\ May(c)
    /\ place # "gone"
    /\ ~closed
    /\ Run(c, FALSE)
    /\ UNCHANGED use

\* The fiber is taken out and run; it is at its start or at a yield, whose
\* value the input becomes.
VmNext(c) ==
    /\ use.engine = "vm"
    /\ c \notin waiting
    /\ May(c)
    /\ place = "cell"
    /\ ~closed
    /\ Run(c, FALSE)
    /\ UNCHANGED use

\* Mutant of BodyNext: the yield that takes the input leaves it in `inp`.
BodyNextKeepsInput(c) ==
    /\ use.engine = "body"
    /\ c \notin waiting
    /\ May(c)
    /\ place = "cell"
    /\ CASE at = "start" -> Run(c, FALSE)
         [] at \in {"yield", "ready"} -> Run(c, TRUE)
         [] at = "io" -> StaysPending(c, TRUE)
    /\ UNCHANGED use

\* A later resume deposits its input whatever the body is suspended at; a body
\* at a yield takes it, one at an await does not.
BodyNext(c) ==
    /\ use.engine = "body"
    /\ c \notin waiting
    /\ May(c)
    /\ place = "cell"
    /\ CASE at \in {"start", "yield"} -> Run(c, FALSE)
         [] at = "ready" -> Run(c, TRUE)
         [] at = "io" -> StaysPending(c, TRUE)
    /\ UNCHANGED use

\* A woken consumer polls the body again.  A body that another consumer has
\* taken to its next yield stays there, and registers no waker; one at another
\* await gets this consumer's.
Woken(c) ==
    /\ c \in woken
    /\ CASE place = "gone" ->
               Returns(c, "nil") /\ UNCHANGED <<place, at, inp, closed, waker, produced, got>>
         [] place # "gone" /\ at = "ready" -> Run(c, inp)
         [] place # "gone" /\ at = "io" -> StaysPending(c, inp)
         [] place # "gone" /\ at = "yield" ->
               Waits(c) /\ UNCHANGED <<place, at, inp, closed, waker, produced, got>>
    /\ UNCHANGED use

\* What the body awaits completes.
IoCompletes ==
    /\ at = "io"
    /\ place # "gone"
    /\ at' = "ready"
    /\ woken' = woken \union ({waker} \cap waiting)
    /\ UNCHANGED <<use, place, inp, closed, waiting, waker, last, produced, got>>

\* Mutant of CancelNext: either engine's body is dropped.
CancelNextDropsBody(c) ==
    /\ use.cancels
    /\ c \in waiting
    /\ Returns(c, "cancelled")
    /\ place' = "gone"
    /\ waker' = IF waker = c THEN NoOne ELSE waker
    /\ UNCHANGED <<use, at, inp, closed, produced, got>>

\* The task is cancelled in next(): with the VM the fiber is dropped with it.
CancelNext(c) ==
    /\ use.cancels
    /\ c \in waiting
    /\ Returns(c, "cancelled")
    /\ place' = IF use.engine = "vm" THEN "gone" ELSE place
    /\ waker' = IF waker = c THEN NoOne ELSE waker
    /\ UNCHANGED <<use, at, inp, closed, produced, got>>

\* close() by a consumer.  A fiber that is taken out is not there to be dropped.
Close ==
    /\ use.exclusive => waiting = {}
    /\ closed' = TRUE
    /\ place' = IF place = "cell" THEN "gone" ELSE place
    /\ UNCHANGED <<use, at, inp, waiting, woken, waker, last, produced, got>>

-----------------------------------------------------------------------------
Next ==
    \/ \E c \in Consumers : NextNil(c) \/ VmNext(c) \/ BodyNext(c) \/ Woken(c) \/ CancelNext(c)
    \/ IoCompletes
    \/ Close

Spec == Init /\ [][Next]_vars

\* The executor polls a woken consumer, and what the body awaits completes.  A
\* body comes to a yield or to its end: it does not await for ever (the strong
\* fairness).
FairSpec ==
    /\ Spec
    /\ WF_vars(IoCompletes)
    /\ \A c \in Consumers : WF_vars(Woken(c)) /\ SF_vars(Woken(c) /\ c \notin waiting')

-----------------------------------------------------------------------------
(* Properties.                                                             *)

\* Every variable has its type.
TypeOK ==
    /\ use \in Uses
    /\ place \in {"cell", "taken", "gone"}
    /\ at \in {"start", "yield", "io", "ready", "over"}
    /\ inp \in BOOLEAN
    /\ closed \in BOOLEAN
    /\ waiting \subseteq Consumers
    /\ woken \subseteq waiting
    /\ waker \in Consumers \union {NoOne}
    /\ last \in [Consumers -> {"none", "value", "nil", "panic", "cancelled"}]
    /\ produced \in 0..MaxYields
    /\ got \in Seq(1..MaxYields)

\* spec/concurrency.md: next() "resumes the body until the next `yield`,
\* returning the yielded value": every value is handed out, once and in order.
EveryYieldDelivered == Len(got) = produced /\ \A i \in 1..Len(got) : got[i] = i

\* next() returns nil only when the body has ended or was closed; resume_vm has
\* a resume of a running generator as "a misuse the surface language cannot
\* express".
NilMeansOver == \A c \in Consumers : last[c] = "nil" => at = "over" \/ closed

\* spec/concurrency.md: close() "drops the body, releasing its in-progress
\* resources": nothing is kept of a closed generator that no next() is running.
ClosedReleases == closed /\ waiting = {} => place # "cell"

\* One task at a time uses the generator and none is cancelled in next().
InTurns == use.exclusive /\ ~use.cancels

\* No value is handed out twice or out of order, whatever two tasks do, whichever of
\* them is cancelled and whatever the body calls.  With the VM none is lost either;
\* with the tree-walker none is lost if the tasks take turns and the body does not
\* call next() on itself, whose input would take the place of the consumer's.
Delivered ==
    /\ \A i, j \in 1..Len(got) : i < j => got[i] < got[j]
    /\ use.engine = "vm" \/ (InTurns /\ ~use.reenters) => EveryYieldDelivered

\* To a consumer nil means the end with the tree-walker whatever the tasks do; the VM
\* needs them to take turns.  (A body that resumes itself gets nil while it runs.)
NilAtEnd == use.engine = "body" \/ InTurns => NilMeansOver

\* A closed generator keeps nothing, under the same conditions, unless its own body
\* closed it: either engine then puts the body back (coro.rs:249 and 318).
CloseDropsBody == (use.engine = "body" \/ InTurns) /\ ~use.reenters => ClosedReleases

\* What a generator hands out, and what it keeps once closed.
DeliversAndReleases == TypeOK /\ Delivered /\ CloseDropsBody

\* With the VM, or in turns, a next() returns, whatever the body calls: resume_body's
\* "the waker (registered via the real `cx`) reschedules us".
NextReturns ==
    \A c \in Consumers :
        ((use.engine = "vm" \/ InTurns) /\ c \in waiting) ~> (c \notin waiting)
=============================================================================
