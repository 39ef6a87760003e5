------------------------------ MODULE Workflow ------------------------------
(***************************************************************************)
(* std/workflow: durable execution by event-sourced replay                 *)
(* (src/src/stdlib/workflow.rs over the determinism context of             *)
(* src/src/det.rs).                                                        *)
(*                                                                         *)
(* A flow is a deterministic body: a sequence of effects taken through     *)
(* ctx.  Every effect goes through the one determinism context of the      *)
(* interpreter, which records it in Record mode and gives the recorded     *)
(* value back in Replay mode.  The events reach the flow's log file one by *)
(* one (durability "group") or as one snapshot when the run finishes       *)
(* ("fsync", "buffered").  The process may be killed and the machine may   *)
(* lose power between any two steps, an append may fail half way, and the  *)
(* code of the body may change before a resume.                            *)
(*                                                                         *)
(* An effect is the name of an activity or of a reader: "now" (ctx.now),   *)
(* "mono" (time.monotonic), "random" (ctx.random), "uuid" (ctx.uuid and    *)
(* every other draw of bytes) and "sleep".  A value is a number: the time, *)
(* the index of the draw, the serial number of an activity's execution,    *)
(* which no two executions share, or 0 for an error that the body caught.  *)
(* A run's answer is the sequence of values its body was given.            *)
(***************************************************************************)
EXTENDS Integers, Sequences, FiniteSets, SequencesExt

CONSTANTS
    Flows,          \* the workflows of this process, one log file each
    Bodies,         \* [Flows -> the bodies it may have: sequences of effects]
    Redeployed,     \* [Flows -> the bodies a change of the code may bring]
    Activities,     \* the names of the activities
    Own,            \* [Activities -> the readers that the activity itself uses]
    Recovered,      \* those that the bodies call inside recover
    Durabilities,   \* [Flows -> the durability options it may be run with]
    GroupMaxEvents, \* groupMaxEvents
    SleepMs,        \* the argument of ctx.sleep
    MaxCrashes,     \* bound: kills and power losses in a behaviour
    MaxFaults,      \* bound: failed appends, commits and activities
    MaxEvents       \* bound: the events at which an activity may record more

Readers == {"now", "mono", "random", "uuid", "sleep"}
Effects == Readers \cup Activities

ASSUME BodiesAreEffects ==
    /\ Readers \cap Activities = {}
    /\ Own \in [Activities -> SUBSET Readers] /\ Recovered \subseteq Activities
    /\ \A f \in Flows : \A b \in Bodies[f] \cup Redeployed[f] : b \in Seq(Effects)
ASSUME OptionsKnown ==
    /\ \A f \in Flows : Durabilities[f] \subseteq {"fsync", "group", "buffered"}
    /\ GroupMaxEvents \in Nat \ {0} /\ SleepMs \in Nat
ASSUME BoundsKnown == MaxCrashes \in Nat /\ MaxFaults \in Nat /\ MaxEvents \in Nat

VARIABLES
    durability, \* [Flows -> the option of the flow]
    body,       \* [Flows -> the code the next run or resume executes]
    cell,       \* Interp.determinism: the installed context, or NoContext
    flow,       \* [Flows -> the driver: st, the values outs the body was
                \* given, the activity act it awaits, the context prev]
    disk,       \* [Flows -> the lines of the log, as a reader sees them]
    stable,     \* [Flows -> the lines certain to survive a loss of power]
    ran,        \* the activities executed so far, in order
    wall,       \* the real clock
    crashes, faults,
    kept,       \* history: the values the flow was given and must keep
    told,       \* history: the answers given to callers and still binding
    swallowed,  \* history: the flows with an I/O error that nobody saw
    irregular   \* history: the flows whose log may not follow the body: its
                \* code changed, an activity recorded events of its own, or it
                \* went on after an error of ctx.call

files == <<disk, stable>>
history == <<told, swallowed, irregular>>
vars == <<durability, body, cell, flow, disk, stable, ran, wall, crashes,
          faults, kept, told, swallowed, irregular>>

NoContext == [installed |-> FALSE]
Torn == [line |-> "torn"]        \* the beginning of a line, no newline
Garbage == [line |-> "garbage"]  \* a line that does not parse or verify

Event(seq, e, v) == [line |-> "event", seq |-> seq, effect |-> e, val |-> v]
Completion(r) == [line |-> "completed", result |-> r]

-----------------------------------------------------------------------------
(* The log file.                                                           *)

\* Lines written after an unterminated one continue it: the first of them is
\* lost in a line that no longer parses.
Appended(d, ls) ==
    IF d # <<>> /\ ls # <<>> /\ Last(d) = Torn
    THEN Front(d) \o (IF Head(ls) = Torn THEN <<Torn>> ELSE <<Garbage>>) \o Tail(ls)
    ELSE d \o ls

\* What a write_all of ls that fails may leave: some of the lines, and perhaps
\* a part of the next.
PartlyAppended(d, ls) ==
    {Appended(d, SubSeq(ls, 1, n) \o t) :
        n \in 0 .. Len(ls) - 1, t \in {<<>>, <<Torn>>}}

\* valid_prefix_len: the lines up to the first that is torn, does not verify,
\* or does not carry the next sequence number.
ValidTo(d, n) ==
    /\ \A i \in 1 .. n : d[i].line \in {"event", "completed"}
    /\ \A i \in 1 .. n : d[i].line = "event" => d[i].seq = i - 1
    /\ \A i \in 1 .. n - 1 : d[i].line = "event"

\* open_group_log truncates the file to that prefix.
Repaired(d) ==
    SubSeq(d, 1, CHOOSE n \in 0 .. Len(d) :
        ValidTo(d, n) /\ \A m \in n + 1 .. Len(d) : ~ValidTo(d, m))

\* log_to_events skips every line that is not an event: the k-th event is the
\* one with k events up to it.
EventsOf(d) ==
    LET events == {i \in 1 .. Len(d) : d[i].line = "event"}
    IN  IF events = 1 .. Len(d) THEN d
        ELSE [k \in 1 .. Cardinality(events) |->
                 d[CHOOSE i \in events : Cardinality(events \cap 1 .. i) = k]]

\* completed_result looks at the last line only.
IsCompleted(d) == d # <<>> /\ Last(d).line = "completed"

\* What a resume reads from the file d of flow f.
Readable(f, d) == IF durability[f] = "group" THEN Repaired(d) ELSE d

-----------------------------------------------------------------------------
(* The determinism context: DeterminismContext with its GroupAppender.     *)

Context(f, mode, events) ==
    [installed |-> TRUE, owner |-> f, mode |-> mode, cursor |-> 0,
     events |-> events, clock |-> wall, mono |-> 0, rng |-> 0,
     grouped |-> durability[f] = "group",
     persisted |-> Len(events), unsynced |-> 0]

\* The recorded event at the cursor, for a reader that wants effect e.
Exhausted(c) == c.mode = "Record" \/ c.cursor >= Len(c.events)
NextEvent(c) == c.events[c.cursor + 1]

\* Mutant of Hit: the name of the activity is not compared.
HitAnyActivity(c, e) ==
    /\ ~Exhausted(c)
    /\ NextEvent(c).effect = e \/ {e, NextEvent(c).effect} \subseteq Activities

Hit(c, e) == ~Exhausted(c) /\ NextEvent(c).effect = e
Stray(c, e) == ~Exhausted(c) /\ NextEvent(c).effect # e

\* record_event, before its pump.
Recorded(c, e, v) == [c EXCEPT !.events = Append(@, Event(Len(@), e, v))]

Outcome(c, d, s, ok) ==
    [ctx |-> c, ok |-> ok, stable |-> [stable EXCEPT ![c.owner] = s],
     disk |-> [disk EXCEPT ![c.owner] = d]]

\* Writing lines through the appender of c, which is w once they are written:
\* the write may fail half way; then maybe_fsync, due for sure at the cap and
\* perhaps before (the window), may fail too.
Written(c, w, lines) ==
    LET d == Appended(disk[c.owner], lines)
        s == stable[c.owner]
    IN  {Outcome([w EXCEPT !.unsynced = 0], d, IF w.unsynced = 0 THEN s ELSE d, TRUE)}
        \cup (IF w.unsynced < GroupMaxEvents THEN {Outcome(w, d, s, TRUE)} ELSE {})
        \cup (IF faults < MaxFaults /\ w.unsynced > 0
              THEN {Outcome(w, d, s, FALSE)}
                   \cup {Outcome(c, p, s, FALSE) : p \in PartlyAppended(disk[c.owner], lines)}
              ELSE {})

\* Mutant of Pumped: persisted is not advanced.
PumpedAgain(c) ==
    LET lines == SubSeq(c.events, c.persisted + 1, Len(c.events))
        w == [c EXCEPT !.unsynced = @ + Len(lines)]
    IN  IF c.grouped THEN Written(c, w, lines)
        ELSE {Outcome(c, disk[c.owner], stable[c.owner], TRUE)}

\* pump: everything not yet persisted, in one write.
Pumped(c) ==
    LET lines == SubSeq(c.events, c.persisted + 1, Len(c.events))
        w == [c EXCEPT !.persisted = Len(c.events), !.unsynced = @ + Len(lines)]
    IN  IF c.grouped THEN Written(c, w, lines)
        ELSE {Outcome(c, disk[c.owner], stable[c.owner], TRUE)}

-----------------------------------------------------------------------------
(* run and resume.                                                         *)

Driver(st, prev) == [st |-> st, outs |-> <<>>, act |-> 0, prev |-> prev]

Init ==
    /\ durability \in [Flows -> {"fsync", "group", "buffered"}]
    /\ \A f \in Flows : durability[f] \in Durabilities[f]
    /\ body \in [Flows -> UNION {Bodies[f] : f \in Flows}]
    /\ \A f \in Flows : body[f] \in Bodies[f]
    /\ cell = NoContext
    /\ flow = [f \in Flows |-> Driver("new", NoContext)]
    /\ disk = [f \in Flows |-> <<>>] /\ stable = disk
    /\ ran = <<>> /\ wall = 0 /\ crashes = 0 /\ faults = 0
    /\ kept = [f \in Flows |-> <<>>]
    /\ told = [f \in Flows |-> {}] /\ swallowed = {} /\ irregular = {}

\* The context is one per interpreter, so flows do not overlap: a flow starts
\* when none runs, or inside an activity of the one that does, and the one
\* whose context is installed takes the steps.
MayStart == cell = NoContext \/ (cell # NoContext /\ flow[cell.owner].st = "exec")
MayStep(f) == cell # NoContext /\ cell.owner = f

\* install_determinism: the driver keeps the context it displaces.
Install(f, c) ==
    /\ cell' = c
    /\ flow' = [flow EXCEPT ![f] = Driver("body", cell)]

\* workflow.run: a fresh log.
Run(f) ==
    /\ flow[f].st = "new" /\ MayStart
    /\ Install(f, Context(f, "Record", <<>>))
    /\ disk' = IF durability[f] = "group" THEN [disk EXCEPT ![f] = <<>>] ELSE disk
    /\ UNCHANGED <<durability, body, stable, ran, wall, crashes, faults, kept, history>>

\* workflow.resume: a group log is repaired first; a completed log answers
\* without running anything.
Resume(f) ==
    LET d == Readable(f, disk[f])
    IN  /\ flow[f].st = "off" /\ MayStart
        /\ disk' = [disk EXCEPT ![f] = d]
        /\ stable' = [stable EXCEPT ![f] = IF Len(@) > Len(d) THEN d ELSE @]
        /\ IF IsCompleted(d)
           THEN /\ told' = [told EXCEPT ![f] = @ \cup {Last(d).result}]
                /\ UNCHANGED <<cell, flow>>
           ELSE /\ Install(f, Context(f, "Replay", EventsOf(d)))
                /\ UNCHANGED told
        /\ UNCHANGED <<durability, body, ran, wall, crashes, faults, kept, swallowed, irregular>>

-----------------------------------------------------------------------------
(* The effects of the body: the readers of ctx and std/time, and ctx.call. *)

\* The body of f is about to take effect e.
At(f, e) ==
    /\ flow[f].st = "body" /\ MayStep(f)
    /\ Len(flow[f].outs) < Len(body[f]) /\ body[f][Len(flow[f].outs) + 1] = e

Give(f, v) == flow' = [flow EXCEPT ![f].st = "body", ![f].outs = Append(@, v)]

\* An error of ctx.call ends the body, unless recover makes it a value.
ErrorValue == 0
Throw(f, a) ==
    \/ /\ a \notin Recovered
       /\ flow' = [flow EXCEPT ![f].st = "err"]
       /\ UNCHANGED irregular
    \/ /\ a \in Recovered
       /\ Give(f, ErrorValue)
       /\ irregular' = irregular \cup {f}

\* With a group log, what a recording call has returned must be kept.
Keep(f, v) ==
    kept' = IF cell.grouped THEN [kept EXCEPT ![f] = Append(flow[f].outs, v)] ELSE kept

\* A reader of the clock, the generator or the timer records v, and gives out
\* to the body.  It discards the error of the pump.
RecordAndGive(f, c, e, v, out) ==
    \E p \in Pumped(Recorded([c EXCEPT !.mode = "Record"], e, v)) :
        /\ cell' = p.ctx /\ disk' = p.disk /\ stable' = p.stable
        /\ faults' = IF p.ok THEN faults ELSE faults + 1
        /\ swallowed' = IF p.ok THEN swallowed ELSE swallowed \cup {c.owner}
        /\ Give(f, out) /\ IF p.ok THEN Keep(f, out) ELSE UNCHANGED kept
        /\ UNCHANGED <<durability, body, ran, wall, crashes, told, irregular>>

\* Replay consumes an event: the context becomes c and the body is given v.
ReplayAndGive(f, c, v) ==
    /\ cell' = [c EXCEPT !.cursor = @ + 1]
    /\ Give(f, v)
    /\ UNCHANGED <<durability, body, files, ran, wall, crashes, faults, kept, history>>

\* clock_now_ms.  A recorded event of another kind is skipped.
Now(f) ==
    /\ At(f, "now")
    /\ \/ /\ Hit(cell, "now")
          /\ ReplayAndGive(f, [cell EXCEPT !.clock = NextEvent(cell).val], NextEvent(cell).val)
       \/ Stray(cell, "now") /\ ReplayAndGive(f, cell, cell.clock)
       \/ Exhausted(cell) /\ RecordAndGive(f, cell, "now", cell.clock, cell.clock)

\* clock_monotonic_ms, on a clock of its own.  The value in place of an event of
\* another kind is the time of the other clock.
Monotonic(f) ==
    /\ At(f, "mono")
    /\ \/ /\ Hit(cell, "mono")
          /\ ReplayAndGive(f, [cell EXCEPT !.mono = NextEvent(cell).val], NextEvent(cell).val)
       \/ Stray(cell, "mono") /\ ReplayAndGive(f, cell, cell.clock)
       \/ Exhausted(cell) /\ RecordAndGive(f, cell, "mono", cell.mono, cell.mono)

\* next_random_f64 and next_seeded_bytes.  A replayed draw does not advance the
\* generator.  In place of an event of another kind a number is the time of the
\* clock, and bytes are drawn.
Draw(f) ==
    LET drawn == [cell EXCEPT !.rng = @ + 1]
    IN  \E e \in {"random", "uuid"} :
           /\ At(f, e)
           /\ \/ Hit(cell, e) /\ ReplayAndGive(f, cell, NextEvent(cell).val)
              \/ /\ Stray(cell, e)
                 /\ ReplayAndGive(f, IF e = "uuid" THEN drawn ELSE cell,
                                  IF e = "uuid" THEN cell.rng ELSE cell.clock)
              \/ Exhausted(cell) /\ RecordAndGive(f, drawn, e, cell.rng, cell.rng)

\* VirtualClock: advance moves both clocks; set_now moves the monotonic one by
\* as much as the other goes forward.
Advanced(c) == [c EXCEPT !.clock = @ + SleepMs, !.mono = @ + SleepMs]
SetNow(c, wake) ==
    [c EXCEPT !.clock = wake, !.mono = IF wake > c.clock THEN @ + (wake - c.clock) ELSE @]

\* Mutant of Sleep: a replayed timer leaves the clock alone.
SleepForgetsWake(f) ==
    /\ At(f, "sleep")
    /\ \/ Hit(cell, "sleep") /\ ReplayAndGive(f, cell, 0)
       \/ /\ ~Hit(cell, "sleep")
          /\ RecordAndGive(f, Advanced(cell), "sleep", Advanced(cell).clock, 0)

\* ctx.sleep takes no real time: it moves the virtual clocks.
Sleep(f) ==
    /\ At(f, "sleep")
    /\ \/ Hit(cell, "sleep") /\ ReplayAndGive(f, SetNow(cell, NextEvent(cell).val), 0)
       \/ /\ ~Hit(cell, "sleep")
          /\ RecordAndGive(f, Advanced(cell), "sleep", Advanced(cell).clock, 0)

\* ctx.call up to the await of the activity: a recorded result, a
\* non-determinism error, or the activity starts.
Call(f) ==
    \E a \in Activities :
        /\ At(f, a)
        /\ \/ Hit(cell, a) /\ ReplayAndGive(f, cell, NextEvent(cell).val)
           \/ /\ Stray(cell, a)
              /\ Throw(f, a)
              /\ UNCHANGED <<durability, body, cell, files, ran, wall, crashes, faults, kept,
                             told, swallowed>>
           \/ /\ Exhausted(cell)
              /\ cell' = [cell EXCEPT !.mode = "Record"]
              /\ flow' = [flow EXCEPT ![f].st = "exec", ![f].act = Len(ran) + 1]
              /\ ran' = Append(ran, a)
              /\ UNCHANGED <<durability, body, files, wall, crashes, faults, kept, history>>

\* The activity runs with the context of the flow installed: what it reads, it
\* records there.
Readings(c) ==
    LET drawn == [c EXCEPT !.rng = @ + 1]
    IN  {[effect |-> "now", val |-> c.clock, ctx |-> c],
         [effect |-> "mono", val |-> c.mono, ctx |-> c],
         [effect |-> "random", val |-> c.rng, ctx |-> drawn],
         [effect |-> "uuid", val |-> c.rng, ctx |-> drawn],
         [effect |-> "sleep", val |-> Advanced(c).clock, ctx |-> Advanced(c)]}

ActivityReads(f) ==
    /\ flow[f].st = "exec" /\ MayStep(f)
    /\ Len(cell.events) < MaxEvents
    /\ \E r \in Readings(cell) : \E p \in Pumped(Recorded(r.ctx, r.effect, r.val)) :
          /\ r.effect \in Own[ran[flow[f].act]]
          /\ cell' = p.ctx /\ disk' = p.disk /\ stable' = p.stable
          /\ faults' = IF p.ok THEN faults ELSE faults + 1
          /\ swallowed' = IF p.ok THEN swallowed ELSE swallowed \cup {f}
    /\ irregular' = irregular \cup {f}
    /\ UNCHANGED <<durability, body, flow, ran, wall, crashes, kept, told>>

\* ctx.call after the await: the result is recorded, and an error of the pump
\* becomes an error of the call.
ActivityReturns(f) ==
    /\ flow[f].st = "exec" /\ MayStep(f)
    /\ \E p \in Pumped(Recorded(cell, ran[flow[f].act], flow[f].act)) :
          /\ cell' = p.ctx /\ disk' = p.disk /\ stable' = p.stable
          /\ \/ p.ok /\ Give(f, flow[f].act) /\ Keep(f, flow[f].act) /\ UNCHANGED <<faults, irregular>>
             \/ ~p.ok /\ Throw(f, ran[flow[f].act]) /\ faults' = faults + 1 /\ UNCHANGED kept
    /\ UNCHANGED <<durability, body, ran, wall, crashes, told, swallowed>>

\* The activity throws, or returns what cannot be serialised: no record.
ActivityFails(f) ==
    /\ flow[f].st = "exec" /\ MayStep(f) /\ faults < MaxFaults
    /\ Throw(f, ran[flow[f].act])
    /\ faults' = faults + 1
    /\ UNCHANGED <<durability, body, cell, files, ran, wall, crashes, kept, told, swallowed>>

-----------------------------------------------------------------------------
(* finish_workflow.                                                        *)

BodyOver(f) ==
    \/ flow[f].st = "err"
    \/ flow[f].st = "body" /\ Len(flow[f].outs) = Len(body[f])

CompletionLines(f) ==
    IF flow[f].st = "err" THEN <<>> ELSE <<Completion(flow[f].outs)>>

\* Mutants of Return: the answer is given although the log failed; the
\* displaced context is not put back.
ReturnAnyway(f, ok) ==
    /\ cell' = flow[f].prev
    /\ flow' = [flow EXCEPT ![f] = Driver("off", NoContext)]
    /\ told' = IF flow[f].st # "err"
               THEN [told EXCEPT ![f] = @ \cup {flow[f].outs}] ELSE told
    /\ faults' = IF ok THEN faults ELSE faults + 1
    /\ UNCHANGED <<durability, body, ran, wall, crashes, irregular>>

ReturnForgetsPrev(f, ok) ==
    /\ cell' = NoContext
    /\ flow' = [flow EXCEPT ![f] = Driver("off", NoContext)]
    /\ told' = IF ok /\ flow[f].st # "err"
               THEN [told EXCEPT ![f] = @ \cup {flow[f].outs}] ELSE told
    /\ faults' = IF ok THEN faults ELSE faults + 1
    /\ UNCHANGED <<durability, body, ran, wall, crashes, irregular>>

\* take_determinism and restore_determinism, and the caller gets its answer,
\* unless the body or the log failed.
Return(f, ok) ==
    /\ cell' = flow[f].prev
    /\ flow' = [flow EXCEPT ![f] = Driver("off", NoContext)]
    /\ told' = IF ok /\ flow[f].st # "err"
               THEN [told EXCEPT ![f] = @ \cup {flow[f].outs}] ELSE told
    /\ faults' = IF ok THEN faults ELSE faults + 1
    /\ UNCHANGED <<durability, body, ran, wall, crashes, irregular>>

\* The context has an appender: the completion line, then maybe_fsync.
FinishGroup(f) ==
    /\ BodyOver(f) /\ MayStep(f) /\ cell.grouped
    /\ \E p \in Written(cell, [cell EXCEPT !.unsynced = @ + Len(CompletionLines(f))],
                         CompletionLines(f)) :
          disk' = p.disk /\ stable' = p.stable /\ Return(f, p.ok)
    /\ UNCHANGED <<kept, swallowed>>

\* write_log: the whole log to a temporary file that is renamed over the old
\* one.  With fsync the data is synchronised before the rename, whose own
\* durability (the fsync of the directory) is only attempted.
FinishSnapshot(f) ==
    LET log == cell.events \o CompletionLines(f)
    IN  /\ BodyOver(f) /\ MayStep(f) /\ ~cell.grouped
        /\ \/ /\ disk' = [disk EXCEPT ![f] = log]
              /\ kept' = [kept EXCEPT ![f] = flow[f].outs]
              /\ \/ /\ stable' = IF durability[f] = "buffered" THEN stable
                                 ELSE [stable EXCEPT ![f] = log]
                    /\ Return(f, TRUE) /\ UNCHANGED swallowed
                 \/ /\ durability[f] # "buffered" /\ faults < MaxFaults
                    /\ swallowed' = swallowed \cup {f}
                    /\ Return(f, TRUE) /\ UNCHANGED stable
           \/ /\ faults < MaxFaults
              /\ Return(f, FALSE)
              /\ UNCHANGED <<files, kept, swallowed>>

-----------------------------------------------------------------------------
(* Crashes and new code.                                                   *)

\* Every run in the process dies with it.
Restart ==
    /\ crashes < MaxCrashes /\ crashes' = crashes + 1
    /\ wall' = wall + 1
    /\ cell' = NoContext
    /\ flow' = [f \in Flows |->
                  IF flow[f].st = "new" THEN flow[f] ELSE Driver("off", NoContext)]
    /\ UNCHANGED <<durability, body, ran, faults, swallowed, irregular>>

\* kill -9, perhaps in the middle of an append: what was written stays.
Kill ==
    /\ \E f \in Flows : flow[f].st \notin {"new", "off"}
    /\ Restart
    /\ \/ UNCHANGED disk
       \/ /\ cell # NoContext /\ cell.grouped
          /\ disk' = [disk EXCEPT ![cell.owner] = Appended(@, <<Torn>>)]
    /\ UNCHANGED <<stable, kept, told>>

\* What may be found in the log after a loss of power: a whole file, or its
\* beginning up to a line that may be torn.
Cut(d, n) == {SubSeq(d, 1, n), SubSeq(d, 1, n) \o <<Torn>>}
Survivors(f) ==
    {disk[f], stable[f]} \cup
    CASE durability[f] = "group" -> UNION {Cut(disk[f], n) : n \in Len(stable[f]) .. Len(disk[f]) - 1}
      [] durability[f] = "buffered" -> UNION {Cut(disk[f], n) : n \in 0 .. Len(disk[f]) - 1}
      [] OTHER -> {}

\* "fsync" promises every commit, "group" what was synchronised, "buffered"
\* nothing.
PowerLoss ==
    LET synced == [f \in Flows |-> Len(EventsOf(Readable(f, stable[f])))]
    IN  /\ Restart
        /\ \E d \in [Flows -> UNION {Survivors(f) : f \in Flows}] :
              (\A f \in Flows : d[f] \in Survivors(f)) /\ disk' = d /\ stable' = d
        /\ kept' = [f \in Flows |->
              CASE durability[f] = "fsync" -> kept[f]
                [] durability[f] = "group" ->
                     IF Len(kept[f]) <= synced[f] THEN kept[f]
                     ELSE SubSeq(kept[f], 1, synced[f])
                [] OTHER -> <<>>]
        /\ told' = [f \in Flows |->
              CASE durability[f] = "fsync" -> told[f]
                [] durability[f] = "group" -> IF IsCompleted(stable[f]) THEN told[f] ELSE {}
                [] OTHER -> {}]

\* The code of a flow is replaced while it does not run.
Deploy(f) ==
    /\ flow[f].st = "off"
    /\ \E b \in Redeployed[f] : b # body[f] /\ body' = [body EXCEPT ![f] = b]
    /\ irregular' = irregular \cup {f}
    /\ UNCHANGED <<durability, cell, flow, files, ran, wall, crashes, faults, kept, told, swallowed>>

-----------------------------------------------------------------------------
Step(f) ==
    \/ Run(f) \/ Resume(f)
    \/ Now(f) \/ Monotonic(f) \/ Draw(f) \/ Sleep(f) \/ Call(f)
    \/ ActivityReturns(f) \/ FinishGroup(f) \/ FinishSnapshot(f)

Next ==
    \/ \E f \in Flows : Step(f) \/ ActivityReads(f) \/ ActivityFails(f) \/ Deploy(f)
    \/ Kill \/ PowerLoss

Spec == Init /\ [][Next]_vars

\* The event loop polls every flow that can go on, an activity returns in the
\* end, and the caller of a run that failed or died resumes it.
FairSpec == Spec /\ \A f \in Flows : WF_vars(Step(f))

-----------------------------------------------------------------------------
TypeOK ==
    /\ cell = NoContext \/ (cell.owner \in Flows /\ cell.mode \in {"Record", "Replay"}
                           /\ cell.cursor <= Len(cell.events)
                           /\ cell.persisted <= Len(cell.events))
    /\ \A f \in Flows :
          /\ flow[f].st \in {"new", "off", "body", "exec", "err"}
          /\ Len(flow[f].outs) <= Len(body[f])
          /\ flow[f].act \in 0 .. Len(ran)
          /\ body[f] \in Bodies[f] \cup Redeployed[f]

\* What the log of f holds for a resume.
ValueOf(e) == IF e.effect = "sleep" THEN 0 ELSE e.val
ValuesOnDisk(f) ==
    LET evs == EventsOf(Readable(f, disk[f]))
    IN  [i \in 1 .. Len(evs) |-> ValueOf(evs[i])]

Prefixed(s, t) == IsPrefix(s, t) \/ IsPrefix(t, s)

\* The flows that a replay owes its answer: same code as when it was recorded,
\* no event of an activity's own in the log, no error that the body caught.
Regular == Flows \ irregular

\* Unless an I/O error was discarded, whatever a recording call has returned
\* under the promise of the durability mode is what a resume of a regular flow
\* reads back, in the order it was given, and what the body is given again.
ReplayFaithful ==
    /\ TypeOK
    /\ \A f \in Regular \ swallowed :
          IsPrefix(kept[f], ValuesOnDisk(f)) /\ Prefixed(flow[f].outs, kept[f])

\* A value returned by ctx.call comes from an execution of that very activity,
\* whatever crashed, was caught or recorded besides, and whichever code the log
\* was written by; the error value is only seen where the body catches it.
OwnResults ==
    \A f \in Flows : \A i \in 1 .. Len(flow[f].outs) :
        body[f][i] \in Activities =>
            IF flow[f].outs[i] = ErrorValue THEN body[f][i] \in Recovered
            ELSE ran[flow[f].outs[i]] = body[f][i]

\* Across crashes too, between two readings of ctx.now every sleep of the body
\* has elapsed, and time.monotonic never goes back (of a sleep that is replayed
\* it may show less, since set_now counts from the time of the resume).
Sleeps(f, i, j) == Cardinality({k \in i .. j : body[f][k] = "sleep"})
TimersElapse ==
    \A f \in Regular :
        \A j \in 1 .. Len(flow[f].outs) : \A i \in 1 .. j :
            /\ body[f][i] = "now" /\ body[f][j] = "now" =>
                  flow[f].outs[j] >= flow[f].outs[i] + SleepMs * Sleeps(f, i, j)
            /\ body[f][i] = "mono" /\ body[f][j] = "mono" => flow[f].outs[j] >= flow[f].outs[i]

\* A regular flow has one answer: a caller that was told one is never told
\* another.
OneAnswer ==
    \A f \in Regular \ swallowed : Cardinality(told[f]) <= 1

\* Once the crashes are over every flow comes to its answer, while all are
\* regular: a log that the body does not follow makes a resume fail for ever.
Completes == \A f \in Flows : <>[](told[f] # {} \/ irregular # {})
=============================================================================
